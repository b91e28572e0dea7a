---------------------------- MODULE MCWebSocket -----------------------------
(* Ticks of ten seconds, a channel of one event, and a client that takes up *)
(* to twenty seconds to answer a ping.                                      *)
EXTENDS WebSocket
=============================================================================
