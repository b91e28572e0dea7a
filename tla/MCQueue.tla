------------------------------ MODULE MCQueue -------------------------------
(* Two broadcasting goroutines over two topics of up to three events.       *)
EXTENDS Queue, TLC
=============================================================================
