---------------------------- MODULE ReplayBuffer ----------------------------
(***************************************************************************)
(* The per-topic ring buffer of hub_replay.go as pure operators.  A buffer *)
(* is the record of replayBuffer's fields; ring[i + 1] is the slot the     *)
(* code writes as b.ring[i].  Every method of replayBuffer runs under      *)
(* b.mu, so each is one operator application.                              *)
(*                                                                         *)
(* An event is a record with at least the field id.  NoID is the empty ID  *)
(* string and NoEvent the zero Event that fills a fresh ring.              *)
(***************************************************************************)
EXTENDS Naturals, Sequences

NoID == 0

NoEvent == [pos |-> 0, id |-> NoID]

-----------------------------------------------------------------------------

(* newReplayBuffer: size zero Events, nothing written yet.                 *)
NewReplayBuffer(size) ==
  [size |-> size, ring |-> [i \in 1 .. size |-> NoEvent],
   head |-> 0, full |-> FALSE]

(* A nil *replayBuffer: Publish makes a ring only when replaySize > 0.      *)
NoBuffer == NewReplayBuffer(0)

(* Mutant of Push: head wraps one slot late.                                *)
PushWrapsLate(b, ev) ==
  LET head == (b.head + 1) % (b.size + 1)
  IN  [b EXCEPT !.ring[b.head + 1] = ev,
                !.head = head,
                !.full = @ \/ head = 0]

(* push: overwrite the slot at head, advance head modulo size, and set full *)
(* when head wraps to 0.                                                    *)
Push(b, ev) ==
  LET head == (b.head + 1) % b.size
  IN  [b EXCEPT !.ring[b.head + 1] = ev,
                !.head = head,
                !.full = @ \/ head = 0]

(* Mutant of Snapshot: the two halves of a full ring are copied in slot     *)
(* order, not from head on.                                                 *)
SnapshotSlotOrder(b) ==
  IF b.full THEN b.ring ELSE SubSeq(b.ring, 1, b.head)

(* snapshotLocked: the written prefix of a ring that has not wrapped, else  *)
(* the slots from head on followed by those before head.                    *)
Snapshot(b) ==
  IF b.full
  THEN SubSeq(b.ring, b.head + 1, b.size) \o SubSeq(b.ring, 1, b.head)
  ELSE SubSeq(b.ring, 1, b.head)

(* The indices of s that carry lastID, and the first of them.               *)
Matches(s, lastID) == {i \in DOMAIN s : s[i].id = lastID}

FirstMatch(s, lastID) ==
  CHOOSE i \in Matches(s, lastID) : \A j \in Matches(s, lastID) : i <= j

(* Mutant of Since: the event the client already has is sent again.         *)
SinceInclusive(b, lastID) ==
  LET all == Snapshot(b)
  IN  IF lastID = NoID \/ Matches(all, lastID) = {}
      THEN all
      ELSE SubSeq(all, FirstMatch(all, lastID), Len(all))

(* Mutant of Since: nothing is replayed to a client whose ID was evicted.   *)
SinceEmptyOnMiss(b, lastID) ==
  LET all == Snapshot(b)
  IN  IF lastID = NoID THEN all
      ELSE IF Matches(all, lastID) = {} THEN << >>
      ELSE SubSeq(all, FirstMatch(all, lastID) + 1, Len(all))

(* since: the snapshot after the FIRST event that carries lastID; the whole *)
(* snapshot when lastID is empty or not in the ring.  The search compares   *)
(* IDs for equality only, it never orders them.                             *)
Since(b, lastID) ==
  LET all == Snapshot(b)
  IN  IF lastID = NoID \/ Matches(all, lastID) = {}
      THEN all
      ELSE SubSeq(all, FirstMatch(all, lastID) + 1, Len(all))

-----------------------------------------------------------------------------

(* The records a buffer of n slots may be, over a set E of events.         *)
RingOf(n, E) ==
  [size : {n}, ring : [1 .. n -> E],
   head : IF n = 0 THEN {0} ELSE 0 .. n - 1, full : BOOLEAN]

(* How many events b holds.                                                *)
Fill(b) == IF b.full THEN b.size ELSE b.head

(* b holds the last Fill(b) events of log: the slots before head the most  *)
(* recent ones and, once the ring has wrapped, those from head on the      *)
(* events before them.                                                     *)
HoldsSuffix(b, log) ==
  /\ Fill(b) <= Len(log)
  /\ \A i \in 1 .. b.head : b.ring[i] = log[Len(log) - b.head + i]
  /\ b.full => \A i \in b.head + 1 .. b.size :
                 b.ring[i] = log[Len(log) - b.head - b.size + i]
=============================================================================
