-------------------------------- MODULE MCSse -------------------------------
(* A client that may connect twice, channels of one event and a ring of     *)
(* two, the second event without JSON, and a kernel that takes one frame    *)
(* ahead of the client; each of the two processes publishes three events.   *)
EXTENDS Sse
=============================================================================
