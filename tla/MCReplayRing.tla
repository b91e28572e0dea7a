---------------------------- MODULE MCReplayRing ----------------------------
(* Two publisher-chosen IDs that recur, so that an ID may be fresh, still   *)
(* buffered, evicted, or reused.  Seven pushes wrap a ring of three twice.  *)
EXTENDS ReplayRing

MCIDs == {1, 2}
=============================================================================
