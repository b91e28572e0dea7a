----------------------------- MODULE ReplayRing -----------------------------
(***************************************************************************)
(* One replay buffer and the events pushed to it: the ring with head and   *)
(* full has to behave as the window of the Size most recent events, and    *)
(* since() as "everything the client has missed that is still buffered".   *)
(*                                                                         *)
(* Publish keeps a non-empty ID as the publisher set it, and pushes events *)
(* without an ID too when replay was enabled while the call was under way, *)
(* so IDs here may be empty and may be reused.                             *)
(***************************************************************************)
EXTENDS ReplayBuffer, FiniteSets

CONSTANTS
  Size,      (* the argument of newReplayBuffer, h.replaySize > 0           *)
  IDs,       (* the non-empty IDs a publisher may choose                    *)
  MaxPushes  (* bound: how many events are pushed                           *)

ASSUME RingAssumption == /\ Size \in Nat \ {0}
                         /\ IDs \subseteq Nat \ {NoID}
                         /\ MaxPushes \in Nat

VARIABLES
  buf,  (* the replayBuffer                                                 *)
  log   (* history: every event pushed, oldest first                        *)

vars == <<buf, log>>

Event == [pos : Nat, id : IDs \cup {NoID}]

Init == /\ buf = NewReplayBuffer(Size)
        /\ log = << >>

(* rb.push(ev) in Publish, for any ID the event may carry.  pos is a ghost *)
(* field: which push this was.                                             *)
PushEvent(id) ==
  LET ev == [pos |-> Len(log) + 1, id |-> id]
  IN  /\ Len(log) < MaxPushes
      /\ buf' = Push(buf, ev)
      /\ log' = Append(log, ev)

(* The bound is reached and no push remains.                               *)
Terminating == /\ Len(log) = MaxPushes
               /\ UNCHANGED vars

Next == \/ \E id \in IDs \cup {NoID} : PushEvent(id)
        \/ Terminating

Spec == Init /\ [][Next]_vars

-----------------------------------------------------------------------------

(* The type invariant.                                                     *)
TypeOK == buf \in RingOf(Size, Event) /\ log \in Seq(Event)

(* How many of the pushed events the ring still holds, and which: the      *)
(* suffix of the log of that length.                                       *)
Held == IF Len(log) < Size THEN Len(log) ELSE Size

Window == SubSeq(log, Len(log) - Held + 1, Len(log))

(* What every slot holds, in terms of head and full: the inductive form of *)
(* SnapshotIsWindow.                                                       *)
SlotsMatchLog ==
  /\ \A i \in 1 .. Len(log) : log[i].pos = i
  /\ HoldsSuffix(buf, log)
  /\ ~buf.full => Len(log) = buf.head

(* The snapshot taken by Subscribe is exactly the most recent Size events, *)
(* oldest first, at every fill level and every position of head: before    *)
(* the ring wraps, at the push that wraps it, and afterwards.              *)
SnapshotIsWindow == Snapshot(buf) = Window

(* A client that resumes from the latest event with a given ID is replayed *)
(* every later event the ring still holds.  (For an ID that was reused the *)
(* client may hold the older of the two events: see the README.)           *)
ResumeHasNoGap ==
  \A p \in 1 .. Len(log) :
    LET i == log[p].id
        replay == Since(buf, i)
    IN  (i # NoID /\ \A q \in p + 1 .. Len(log) : log[q].id # i)
          => \A q \in p + 1 .. Len(log) :
               Len(log) - q < Size => \E k \in DOMAIN replay : replay[k] = log[q]

(* A client whose last event is still buffered under an ID that no other   *)
(* buffered event carries is not replayed that event or an older one.      *)
ResumeHasNoRepeat ==
  \A p \in 1 .. Len(log) :
    LET i == log[p].id
        replay == Since(buf, i)
    IN  (/\ i # NoID
         /\ Len(log) - p < Size
         /\ \A q \in Len(log) - Held + 1 .. Len(log) : q # p => log[q].id # i)
          => \A k \in DOMAIN replay : replay[k].pos > p
=============================================================================
