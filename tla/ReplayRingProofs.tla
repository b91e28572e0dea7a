-------------------------- MODULE ReplayRingProofs --------------------------
(***************************************************************************)
(* The replay buffer is the window of the most recent events, for every    *)
(* size, every set of IDs and any number of pushes.                        *)
(***************************************************************************)
EXTENDS ReplayRing, ReplayBufferProofs

(* The inductive invariant: types, and what each slot holds.               *)
RingInv == TypeOK /\ SlotsMatchLog

LEMMA NoEventIsEvent == NoEvent \in Event
BY DEF NoEvent, Event

LEMMA RingInit == Init => RingInv
<1> SUFFICES ASSUME Init PROVE RingInv
  OBVIOUS
<1> USE RingAssumption
<1>1. buf = NewReplayBuffer(Size) /\ log = << >> /\ log \in Seq(Event)
  BY DEF Init
<1>2. buf \in RingOf(Size, Event)
  BY <1>1, NoEventIsEvent, NewReplayBufferType
<1>3. HoldsSuffix(buf, log)
  BY <1>1, NewHoldsSuffix
<1>4. Len(log) = buf.head /\ Len(log) = 0
  BY <1>1 DEF NewReplayBuffer
<1> QED BY <1>1, <1>2, <1>3, <1>4 DEF RingInv, TypeOK, SlotsMatchLog

LEMMA RingStep == RingInv /\ [Next]_vars => RingInv'
<1> SUFFICES ASSUME RingInv, [Next]_vars PROVE RingInv'
  OBVIOUS
<1> USE RingAssumption
<1>1. ASSUME NEW id \in IDs \cup {NoID}, PushEvent(id) PROVE RingInv'
  <2> DEFINE ev == [pos |-> Len(log) + 1, id |-> id]
  <2>1. buf' = Push(buf, ev) /\ log' = Append(log, ev)
    BY <1>1 DEF PushEvent
  <2>2. buf \in RingOf(Size, Event) /\ log \in Seq(Event) /\ Len(log) \in Nat
    BY LenProperties DEF RingInv, TypeOK
  <2>3. ev \in Event /\ ev.pos = Len(log) + 1
    BY <2>2 DEF Event
  <2> HIDE DEF ev
  <2>4. TypeOK'
    BY <2>1, <2>2, <2>3, PushType, AppendProperties DEF TypeOK
  <2>5. HoldsSuffix(buf, log)'
    BY <2>1, <2>2, <2>3, PushHoldsSuffix DEF RingInv, SlotsMatchLog
  <2>6. /\ Len(log') = Len(log) + 1
        /\ \A i \in 1 .. Len(log) : log'[i] = log[i]
        /\ log'[Len(log) + 1] = ev
    BY <2>1, <2>2, <2>3, AppendProperties
  <2>7. \A i \in 1 .. Len(log') : log'[i].pos = i
    <3>1. \A i \in 1 .. Len(log) : log[i].pos = i
      BY DEF RingInv, SlotsMatchLog
    <3> QED BY <2>2, <2>3, <2>6, <3>1
  <2>8. ~buf'.full => Len(log') = buf'.head
    <3>1. /\ buf'.head = IF buf.head = Size - 1 THEN 0 ELSE buf.head + 1
          /\ (buf'.full <=> (buf.full \/ buf.head = Size - 1))
      BY <2>1, <2>2, <2>3, PushType
    <3>2. ~buf.full => Len(log) = buf.head
      BY DEF RingInv, SlotsMatchLog
    <3> QED BY <2>6, <3>1, <3>2
  <2> QED BY <2>4, <2>5, <2>7, <2>8 DEF RingInv, SlotsMatchLog
<1>2. CASE UNCHANGED vars
  BY <1>2 DEF vars, RingInv, TypeOK, SlotsMatchLog
<1>3. CASE Terminating
  BY <1>2, <1>3 DEF Terminating
<1> QED BY <1>1, <1>2, <1>3 DEF Next

(* The ring's slots, head and full flag always match the log of pushes, as *)
(* the code of push and snapshotLocked needs them to.                      *)
THEOREM RingInvariant == Spec => []RingInv
<1> QED BY RingInit, RingStep, PTL DEF Spec

LEMMA HeldIsFill ==
  ASSUME RingInv
  PROVE  /\ Held = Fill(buf)
         /\ Held \in 0 .. Len(log)
         /\ Len(log) \in Nat
         /\ Held = IF Len(log) < Size THEN Len(log) ELSE Size
<1> USE RingAssumption
<1>1. buf \in RingOf(Size, Event) /\ log \in Seq(Event) /\ Len(log) \in Nat
  BY LenProperties DEF RingInv, TypeOK
<1>2. buf.size = Size /\ buf.head \in 0 .. Size - 1 /\ buf.full \in BOOLEAN
  BY <1>1 DEF RingOf
<1>3. Fill(buf) <= Len(log) /\ (~buf.full => Len(log) = buf.head)
  BY DEF RingInv, SlotsMatchLog, HoldsSuffix
<1>4. CASE buf.full
  BY <1>1, <1>2, <1>3, <1>4 DEF Held, Fill
<1>5. CASE ~buf.full
  BY <1>1, <1>2, <1>3, <1>5 DEF Held, Fill
<1> QED BY <1>4, <1>5

(* Subscribe is handed exactly the most recent Size events, oldest first.  *)
THEOREM SnapshotCorrect == Spec => []SnapshotIsWindow
<1>1. RingInv => SnapshotIsWindow
  <2> SUFFICES ASSUME RingInv PROVE SnapshotIsWindow
    OBVIOUS
  <2> USE RingAssumption
  <2>1. buf \in RingOf(Size, Event) /\ log \in Seq(Event)
    BY DEF RingInv, TypeOK
  <2>2. Snapshot(buf) = SubSeq(log, Len(log) - Fill(buf) + 1, Len(log))
    BY <2>1, SnapshotOfSuffix DEF RingInv, SlotsMatchLog
  <2> QED BY <2>2, HeldIsFill DEF SnapshotIsWindow, Window
<1> QED BY <1>1, RingInvariant, PTL

(* The k-th event of the snapshot is event Len(log) - Held + k of the log. *)
LEMMA SnapshotElement ==
  ASSUME RingInv, NEW k \in 1 .. Held
  PROVE  Snapshot(buf)[k] = log[Len(log) - Held + k]
<1> USE RingAssumption
<1>1. buf \in RingOf(Size, Event) /\ log \in Seq(Event)
  BY DEF RingInv, TypeOK
<1> DEFINE m == Len(log) - Held + 1
<1>2. Snapshot(buf) = SubSeq(log, m, Len(log))
  BY <1>1, SnapshotOfSuffix, HeldIsFill DEF RingInv, SlotsMatchLog
<1>3. Held \in 0 .. Len(log) /\ Len(log) \in Nat /\ Held \in Int
  BY HeldIsFill
<1>4. m \in Int /\ Len(log) \in Int /\ \A i \in m .. Len(log) : log[i] \in Event
  BY <1>1, <1>3, ElementOfSeq
<1>5. k \in 1 .. Len(log) - m + 1 /\ m + k - 1 = Len(log) - Held + k
  BY <1>3
<1> HIDE DEF m
<1>6. \A i \in 1 .. Len(log) - m + 1 : SubSeq(log, m, Len(log))[i] = log[m + i - 1]
  BY <1>4, SubSeqProperties
<1> QED BY <1>2, <1>5, <1>6

(* A client that resumes from the latest event with its ID misses nothing  *)
(* the ring still holds: SubscribeSince replays every later buffered event.*)
THEOREM ResumeComplete == Spec => []ResumeHasNoGap
<1>1. RingInv => ResumeHasNoGap
  <2> SUFFICES ASSUME RingInv,
                      NEW p \in 1 .. Len(log), log[p].id # NoID,
                      \A q \in p + 1 .. Len(log) : log[q].id # log[p].id,
                      NEW q \in p + 1 .. Len(log), Len(log) - q < Size
               PROVE  \E k \in DOMAIN Since(buf, log[p].id) :
                        Since(buf, log[p].id)[k] = log[q]
    BY DEF ResumeHasNoGap
  <2> USE RingAssumption
  <2> DEFINE id == log[p].id
             f == Fill(buf)
  <2>1. buf \in RingOf(Size, Event)
    BY DEF RingInv, TypeOK
  <2>2. /\ f = Held
        /\ f \in Nat /\ Len(log) \in Nat /\ Size \in Nat /\ f <= Len(log)
        /\ f = Len(log) \/ f = Size
    BY HeldIsFill
  <2>3. PICK k \in 0 .. Fill(buf) :
          /\ Since(buf, id) \in Seq(Event)
          /\ Since(buf, id) = SubSeq(Snapshot(buf), k + 1, Fill(buf))
          /\ Len(Since(buf, id)) = Fill(buf) - k
          /\ \A i \in 1 .. Fill(buf) - k : Since(buf, id)[i] = Snapshot(buf)[k + i]
          /\ \A j \in 1 .. k : Snapshot(buf)[j].id = id => j = k
          /\ k > 0 => Snapshot(buf)[k].id = id
          /\ (id # NoID /\ k = 0) =>
               \A j \in 1 .. Fill(buf) : Snapshot(buf)[j].id # id
    <3> HIDE DEF id
    <3> QED BY <2>1, SinceIsSuffix, RingAssumption
  <2>4. ASSUME NEW i \in 1 .. f PROVE Snapshot(buf)[i] = log[Len(log) - f + i]
    BY <2>2, SnapshotElement
  <2>3a. /\ k \in 0 .. f
         /\ Len(Since(buf, id)) = f - k
         /\ \A i \in 1 .. f - k : Since(buf, id)[i] = Snapshot(buf)[k + i]
         /\ (id # NoID /\ k = 0) => \A j \in 1 .. f : Snapshot(buf)[j].id # id
    BY <2>3
  <2> HIDE DEF id, f
  <2>5. k > 0 => ~ (Len(log) - f + k > p)
    <3> SUFFICES ASSUME k > 0, Len(log) - f + k > p PROVE FALSE
      OBVIOUS
    <3>1. k \in 1 .. f /\ Len(log) - f + k \in p + 1 .. Len(log)
      BY <2>2, <2>3a
    <3>2. log[Len(log) - f + k].id = id
      BY <3>1, <2>3, <2>4
    <3> QED BY <3>1, <3>2 DEF id
  <2> DEFINE j == q - (Len(log) - f)
  <2>6. j \in 1 .. f /\ j > k /\ Len(log) - f + j = q
    <3>1. j \in 1 .. f /\ Len(log) - f + j = q
      BY <2>2
    <3>2. k = 0 => j > k
      BY <3>1
    <3>3. k > 0 => j > k
      <4> SUFFICES ASSUME k > 0 PROVE j > k
        OBVIOUS
      <4>1. Len(log) - f + k <= p /\ p < q
        BY <2>2, <2>5, <2>3a
      <4> QED BY <2>2, <2>3a, <4>1
    <3> QED BY <3>1, <3>2, <3>3
  <2>7. j - k \in 1 .. f - k /\ k + (j - k) = j
    BY <2>2, <2>6, <2>3a
  <2> HIDE DEF j
  <2>8. Since(buf, id)[j - k] = log[q]
    <3>1. Since(buf, id)[j - k] = Snapshot(buf)[j]
      BY <2>3a, <2>7
    <3>2. Snapshot(buf)[j] = log[q]
      BY <2>4, <2>6
    <3> QED BY <3>1, <3>2
  <2>9. j - k \in DOMAIN Since(buf, id)
    <3>1. DOMAIN Since(buf, id) = 1 .. Len(Since(buf, id))
      BY <2>3, LenProperties
    <3> QED BY <3>1, <2>3a, <2>7
  <2> QED BY <2>8, <2>9 DEF id
<1> QED BY <1>1, RingInvariant, PTL

(* A client whose last event is in the ring under an ID of its own is      *)
(* replayed only later events.                                             *)
THEOREM ResumeNoRepeat == Spec => []ResumeHasNoRepeat
<1>1. RingInv => ResumeHasNoRepeat
  <2> SUFFICES ASSUME RingInv,
                      NEW p \in 1 .. Len(log), log[p].id # NoID,
                      Len(log) - p < Size,
                      \A q \in Len(log) - Held + 1 .. Len(log) :
                        q # p => log[q].id # log[p].id,
                      NEW r \in DOMAIN Since(buf, log[p].id)
               PROVE  Since(buf, log[p].id)[r].pos > p
    BY DEF ResumeHasNoRepeat
  <2> USE RingAssumption
  <2> DEFINE id == log[p].id
             f == Fill(buf)
  <2>1. buf \in RingOf(Size, Event)
    BY DEF RingInv, TypeOK
  <2>2. /\ f = Held
        /\ f \in Nat /\ Len(log) \in Nat /\ Size \in Nat /\ f <= Len(log)
        /\ f = Len(log) \/ f = Size
    BY HeldIsFill
  <2>3. PICK k \in 0 .. Fill(buf) :
          /\ Since(buf, id) \in Seq(Event)
          /\ Since(buf, id) = SubSeq(Snapshot(buf), k + 1, Fill(buf))
          /\ Len(Since(buf, id)) = Fill(buf) - k
          /\ \A i \in 1 .. Fill(buf) - k : Since(buf, id)[i] = Snapshot(buf)[k + i]
          /\ \A j \in 1 .. k : Snapshot(buf)[j].id = id => j = k
          /\ k > 0 => Snapshot(buf)[k].id = id
          /\ (id # NoID /\ k = 0) =>
               \A j \in 1 .. Fill(buf) : Snapshot(buf)[j].id # id
    <3> HIDE DEF id
    <3> QED BY <2>1, SinceIsSuffix, RingAssumption
  <2>4. ASSUME NEW i \in 1 .. f PROVE Snapshot(buf)[i] = log[Len(log) - f + i]
    BY <2>2, SnapshotElement
  <2>3a. /\ k \in 0 .. f
         /\ Len(Since(buf, id)) = f - k
         /\ \A i \in 1 .. f - k : Since(buf, id)[i] = Snapshot(buf)[k + i]
         /\ (id # NoID /\ k = 0) => \A j \in 1 .. f : Snapshot(buf)[j].id # id
    BY <2>3
  <2> HIDE DEF id, f
  <2> DEFINE j == p - (Len(log) - f)
  <2>5. j \in 1 .. f /\ Len(log) - f + j = p
    BY <2>2
  <2> HIDE DEF j
  <2>6. k > 0
    <3>1. Snapshot(buf)[j].id = id
      BY <2>4, <2>5 DEF id
    <3>2. id # NoID
      BY DEF id
    <3> QED BY <2>2, <2>3a, <2>5, <3>1, <3>2
  <2>7. Len(log) - f + k = p
    <3>1. k \in 1 .. f
      BY <2>2, <2>6, <2>3a
    <3>2. log[Len(log) - f + k].id = log[p].id
      BY <2>3, <2>4, <2>6, <3>1 DEF id
    <3>3. Len(log) - f + k \in Len(log) - Held + 1 .. Len(log)
      BY <2>2, <3>1
    <3> QED BY <3>2, <3>3
  <2>8. r \in 1 .. f - k
    <3>1. DOMAIN Since(buf, id) = 1 .. Len(Since(buf, id))
      BY <2>3, LenProperties
    <3> QED BY <3>1, <2>3a DEF id
  <2>8a. /\ f \in Nat /\ k \in Nat /\ r \in Nat /\ r > 0 /\ k + r <= f
         /\ Len(log) \in Nat /\ f <= Len(log) /\ p = Len(log) - f + k
    BY <2>2, <2>3a, <2>7, <2>8
  <2>9. k + r \in 1 .. f /\ Len(log) - f + (k + r) = p + r
    BY <2>8a
  <2>10. Since(buf, id)[r] = log[p + r]
    BY <2>2, <2>3a, <2>4, <2>8, <2>9
  <2>11. p + r \in 1 .. Len(log) /\ p + r > p
    BY <2>8a
  <2>12. log[p + r].pos = p + r
    BY <2>11 DEF RingInv, SlotsMatchLog
  <2> QED BY <2>10, <2>11, <2>12 DEF id
<1> QED BY <1>1, RingInvariant, PTL

(* The ring is well-typed whatever is pushed: head is always a slot, so no *)
(* push indexes past the end.                                              *)
THEOREM TypeCorrect == Spec => []TypeOK
<1>1. RingInv => TypeOK
  BY DEF RingInv
<1> QED BY <1>1, RingInvariant, PTL
=============================================================================
