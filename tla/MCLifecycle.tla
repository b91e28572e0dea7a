----------------------------- MODULE MCLifecycle ----------------------------
(* Every configuration of Run, with up to two requests per server and two   *)
(* RPCs at a time.                                                          *)
EXTENDS Lifecycle

AllModes == {"plain", "autocert"}
PlainMode == {"plain"}
EitherWay == {TRUE, FALSE}
WithGRPC == {TRUE}
=============================================================================
