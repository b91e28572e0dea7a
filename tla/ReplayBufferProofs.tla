------------------------- MODULE ReplayBufferProofs -------------------------
(***************************************************************************)
(* Lemmas about the operators of ReplayBuffer, for rings of every size and *)
(* events from every set.                                                  *)
(***************************************************************************)
EXTENDS ReplayBuffer, SequenceTheorems, WellFoundedInduction, TLAPS

(* Every non-empty set of naturals has a least element.                    *)
LEMMA LeastElement ==
  ASSUME NEW T, T \subseteq Nat, T # {}
  PROVE  \E x \in T : \A y \in T : x <= y
<1>1. \E x \in T : \A y \in T : ~ (<<y, x>> \in OpToRel(<, Nat))
  BY NatLessThanWellFounded, WFMin
<1>2. PICK x \in T : \A y \in T : ~ (<<y, x>> \in OpToRel(<, Nat))
  BY <1>1
<1>3. ASSUME NEW y \in T PROVE x <= y
  <2>1. x \in Nat /\ y \in Nat
    OBVIOUS
  <2>2. ~ (y < x)
    <3>1. <<y, x>> \in Nat \X Nat /\ <<y, x>>[1] = y /\ <<y, x>>[2] = x
      BY <2>1
    <3>2. y < x => <<y, x>> \in OpToRel(<, Nat)
      BY <3>1 DEF OpToRel
    <3> QED BY <3>2, <1>2
  <2> QED BY <2>1, <2>2
<1> QED BY <1>2, <1>3

(* The next write index of push: one further, or 0 at the end.             *)
LEMMA NextHead ==
  ASSUME NEW n \in Nat \ {0}, NEW h \in 0 .. n - 1
  PROVE  (h + 1) % n = IF h = n - 1 THEN 0 ELSE h + 1
<1>1. CASE h = n - 1
  <2>1. h + 1 = n
    BY <1>1
  <2>2. n % n = 0
    OBVIOUS
  <2> QED BY <1>1, <2>1, <2>2
<1>2. CASE h # n - 1
  <2>1. h + 1 \in 0 .. n - 1
    BY <1>2
  <2>2. ASSUME NEW k \in 0 .. n - 1 PROVE k % n = k
    OBVIOUS
  <2> QED BY <1>2, <2>1, <2>2
<1> QED BY <1>1, <1>2

(* A fresh ring is well-typed and holds the empty log's suffix.            *)
LEMMA NewReplayBufferType ==
  ASSUME NEW n \in Nat, NEW E, NoEvent \in E
  PROVE  NewReplayBuffer(n) \in RingOf(n, E)
BY DEF NewReplayBuffer, RingOf

(* push keeps the ring well-typed and moves head and full as the code says. *)
LEMMA PushType ==
  ASSUME NEW n \in Nat \ {0}, NEW E, NEW b \in RingOf(n, E), NEW ev \in E
  PROVE  /\ Push(b, ev) \in RingOf(n, E)
         /\ Push(b, ev).head = IF b.head = n - 1 THEN 0 ELSE b.head + 1
         /\ (Push(b, ev).full <=> (b.full \/ b.head = n - 1))
         /\ Push(b, ev).size = n
         /\ \A i \in 1 .. n :
              Push(b, ev).ring[i] = IF i = b.head + 1 THEN ev ELSE b.ring[i]
<1> DEFINE h == (b.head + 1) % n
<1>1. /\ b = [size |-> b.size, ring |-> b.ring, head |-> b.head, full |-> b.full]
      /\ b.size = n
      /\ b.ring \in [1 .. n -> E]
      /\ b.head \in 0 .. n - 1
      /\ b.full \in BOOLEAN
  BY DEF RingOf
<1>2. h = IF b.head = n - 1 THEN 0 ELSE b.head + 1
  BY <1>1, NextHead
<1>3. Push(b, ev) = [size |-> n, ring |-> [b.ring EXCEPT ![b.head + 1] = ev],
                     head |-> h, full |-> b.full \/ h = 0]
  <2>1. Push(b, ev) = [b EXCEPT !.ring = [@ EXCEPT ![b.head + 1] = ev],
                                !.head = h, !.full = @ \/ h = 0]
    BY <1>1 DEF Push
  <2> HIDE DEF h
  <2> DEFINE r == [b.ring EXCEPT ![b.head + 1] = ev]
  <2>2. Push(b, ev) = [b EXCEPT !.ring = r, !.head = h, !.full = b.full \/ h = 0]
    BY <2>1
  <2> HIDE DEF r
  <2>3. Push(b, ev) = [size |-> n, ring |-> r, head |-> h, full |-> b.full \/ h = 0]
    BY <2>2, <1>1
  <2> QED BY <2>3 DEF r
<1>4. h \in 0 .. n - 1 /\ (h = 0 <=> b.head = n - 1)
  BY <1>1, <1>2
<1>5. [b.ring EXCEPT ![b.head + 1] = ev] \in [1 .. n -> E]
  BY <1>1
<1> HIDE DEF h
<1>6. Push(b, ev) \in RingOf(n, E)
  BY <1>1, <1>3, <1>4, <1>5 DEF RingOf
<1>7. Push(b, ev).full <=> (b.full \/ b.head = n - 1)
  <2>1. Push(b, ev).full = (b.full \/ h = 0)
    BY <1>3
  <2> QED BY <2>1, <1>4
<1>8. /\ Push(b, ev).head = IF b.head = n - 1 THEN 0 ELSE b.head + 1
      /\ Push(b, ev).size = n
  BY <1>2, <1>3
<1>9. \A i \in 1 .. n :
        Push(b, ev).ring[i] = IF i = b.head + 1 THEN ev ELSE b.ring[i]
  <2>1. Push(b, ev).ring = [b.ring EXCEPT ![b.head + 1] = ev]
    BY <1>3
  <2> QED BY <1>1, <2>1
<1> QED BY <1>6, <1>7, <1>8, <1>9

(* snapshot returns the filled slots from the oldest on.                   *)
LEMMA SnapshotSlots ==
  ASSUME NEW n \in Nat, NEW E, NEW b \in RingOf(n, E)
  PROVE  /\ Snapshot(b) \in Seq(E)
         /\ Len(Snapshot(b)) = Fill(b)
         /\ Fill(b) \in 0 .. n
         /\ \A i \in 1 .. Fill(b) :
              Snapshot(b)[i] =
                IF ~b.full THEN b.ring[i]
                ELSE IF i <= n - b.head THEN b.ring[b.head + i]
                ELSE b.ring[i - (n - b.head)]
<1> DEFINE old == SubSeq(b.ring, b.head + 1, n)
           new == SubSeq(b.ring, 1, b.head)
<1>1. /\ b.size = n
      /\ b.ring \in [1 .. n -> E]
      /\ b.head \in 0 .. n /\ b.head \in Int
      /\ b.full \in BOOLEAN
  BY DEF RingOf
<1>2. /\ new \in Seq(E) /\ Len(new) = b.head
      /\ \A i \in 1 .. b.head : new[i] = b.ring[i]
  <2>1. \A i \in 1 .. b.head : b.ring[i] \in E
    BY <1>1
  <2>2. /\ new \in Seq(E)
        /\ Len(new) = IF 1 <= b.head THEN b.head - 1 + 1 ELSE 0
        /\ \A i \in 1 .. b.head - 1 + 1 : new[i] = b.ring[1 + i - 1]
    BY <2>1, <1>1, SubSeqProperties, 1 \in Int
  <2> QED BY <2>2, <1>1
<1>3. /\ old \in Seq(E) /\ Len(old) = n - b.head
      /\ \A i \in 1 .. n - b.head : old[i] = b.ring[b.head + i]
  <2>1. \A i \in b.head + 1 .. n : b.ring[i] \in E
    BY <1>1
  <2> DEFINE m == b.head + 1
  <2>2. m \in Int /\ n \in Int /\ \A i \in m .. n : b.ring[i] \in E
    BY <2>1, <1>1
  <2>3. old = SubSeq(b.ring, m, n)
    OBVIOUS
  <2> HIDE DEF m, old
  <2>4. /\ old \in Seq(E)
        /\ Len(old) = IF m <= n THEN n - m + 1 ELSE 0
        /\ \A i \in 1 .. n - m + 1 : old[i] = b.ring[m + i - 1]
    BY <2>2, <2>3, SubSeqProperties
  <2>5. Len(old) = n - b.head
    <3>1. m <= n => n - m + 1 = n - b.head
      BY <1>1 DEF m
    <3>2. ~ (m <= n) => n - b.head = 0
      BY <1>1 DEF m
    <3> QED BY <2>4, <3>1, <3>2
  <2>6. ASSUME NEW i \in 1 .. n - b.head PROVE old[i] = b.ring[b.head + i]
    <3>1. i \in 1 .. n - m + 1 /\ m + i - 1 = b.head + i
      BY <1>1 DEF m
    <3> QED BY <3>1, <2>4
  <2> QED BY <2>4, <2>5, <2>6
<1> HIDE DEF old, new
<1>4. CASE ~b.full
  BY <1>1, <1>2, <1>4 DEF Snapshot, Fill, new
<1>5. CASE b.full
  <2>1. Snapshot(b) = old \o new
    BY <1>1, <1>5 DEF Snapshot, old, new
  <2>2. /\ old \o new \in Seq(E)
        /\ Len(old \o new) = n
        /\ \A i \in 1 .. n : (old \o new)[i] =
             IF i <= n - b.head THEN old[i] ELSE new[i - (n - b.head)]
    <3>1. /\ old \o new \in Seq(E)
          /\ Len(old \o new) = Len(old) + Len(new)
          /\ \A i \in 1 .. Len(old) + Len(new) : (old \o new)[i] =
               IF i <= Len(old) THEN old[i] ELSE new[i - Len(old)]
      BY <1>2, <1>3, ConcatProperties
    <3>2. Len(old) = n - b.head /\ Len(old) + Len(new) = n
      BY <1>1, <1>2, <1>3
    <3> QED BY <3>1, <3>2
  <2>3. ASSUME NEW i \in 1 .. n
        PROVE  (old \o new)[i] = IF i <= n - b.head THEN b.ring[b.head + i]
                                 ELSE b.ring[i - (n - b.head)]
    <3>1. CASE i <= n - b.head
      <4>1. i \in 1 .. n - b.head
        BY <3>1, <1>1
      <4> QED BY <3>1, <4>1, <1>3, <2>2
    <3>2. CASE ~ (i <= n - b.head)
      <4>1. i - (n - b.head) \in 1 .. b.head
        BY <3>2, <1>1
      <4> QED BY <3>2, <4>1, <1>2, <2>2
    <3> QED BY <3>1, <3>2
  <2> QED BY <1>1, <1>5, <2>1, <2>2, <2>3 DEF Fill
<1> QED BY <1>1, <1>4, <1>5

(* snapshot of a ring that holds the end of a log is that end of the log.  *)
LEMMA SnapshotOfSuffix ==
  ASSUME NEW n \in Nat, NEW E, NEW b \in RingOf(n, E), NEW log \in Seq(E),
         HoldsSuffix(b, log)
  PROVE  Snapshot(b) = SubSeq(log, Len(log) - Fill(b) + 1, Len(log))
<1> DEFINE f == Fill(b)
           m == Len(log) - f + 1
<1>1. /\ b.size = n
      /\ b.head \in 0 .. n /\ b.head \in Int
      /\ b.full \in BOOLEAN
      /\ Len(log) \in Nat
      /\ f \in 0 .. n
      /\ f <= Len(log)
      /\ m \in Int /\ m >= 1
  <2>1. /\ b.size = n
        /\ b.head \in 0 .. n /\ b.head \in Int
        /\ b.full \in BOOLEAN
    BY DEF RingOf
  <2>2. Len(log) \in Nat
    BY LenProperties
  <2>3. f \in 0 .. n
    BY SnapshotSlots
  <2>4. f <= Len(log)
    BY DEF HoldsSuffix
  <2> HIDE DEF f
  <2>5. m \in Int /\ m >= 1
    BY <2>2, <2>3, <2>4
  <2> QED BY <2>1, <2>2, <2>3, <2>4, <2>5
<1>2. /\ SubSeq(log, m, Len(log)) \in Seq(E)
      /\ Len(SubSeq(log, m, Len(log))) = f
      /\ \A i \in 1 .. f : SubSeq(log, m, Len(log))[i] = log[Len(log) - f + i]
  <2> HIDE DEF f
  <2> HIDE DEF m
  <2>1. \A i \in m .. Len(log) : log[i] \in E
    BY <1>1, ElementOfSeq
  <2>2. /\ SubSeq(log, m, Len(log)) \in Seq(E)
        /\ Len(SubSeq(log, m, Len(log))) =
             IF m <= Len(log) THEN Len(log) - m + 1 ELSE 0
        /\ \A i \in 1 .. Len(log) - m + 1 :
             SubSeq(log, m, Len(log))[i] = log[m + i - 1]
    BY <2>1, <1>1, SubSeqProperties, Len(log) \in Int
  <2>3. Len(log) - m + 1 = f
    BY <1>1 DEF m
  <2>4. ~ (m <= Len(log)) => f = 0
    BY <1>1 DEF m
  <2>5. ASSUME NEW i \in 1 .. f PROVE m + i - 1 = Len(log) - f + i
    BY <1>1 DEF m
  <2> QED BY <2>2, <2>3, <2>4, <2>5
<1>3. /\ Snapshot(b) \in Seq(E) /\ Len(Snapshot(b)) = f
      /\ \A i \in 1 .. f :
           Snapshot(b)[i] = IF ~b.full THEN b.ring[i]
                            ELSE IF i <= n - b.head THEN b.ring[b.head + i]
                            ELSE b.ring[i - (n - b.head)]
  BY SnapshotSlots
<1>4. ASSUME NEW i \in 1 .. f PROVE Snapshot(b)[i] = log[Len(log) - f + i]
  <2>1. CASE ~b.full
    <3>1. f = b.head
      BY <2>1 DEF Fill
    <3>2. i \in 1 .. b.head /\ b.ring[i] = log[Len(log) - b.head + i]
      BY <3>1 DEF HoldsSuffix
    <3> QED BY <2>1, <3>1, <3>2, <1>3
  <2>2. CASE b.full /\ i <= n - b.head
    <3>1. f = n
      BY <2>2, <1>1 DEF Fill
    <3> HIDE DEF f
    <3>2. b.head + i \in b.head + 1 .. n
      BY <1>1, <2>2, <3>1
    <3>3. b.ring[b.head + i] = log[Len(log) - b.head - n + (b.head + i)]
      BY <1>1, <2>2, <3>2 DEF HoldsSuffix
    <3>4. Len(log) - b.head - n + (b.head + i) = Len(log) - f + i
      BY <1>1, <3>1
    <3> QED BY <2>2, <3>3, <3>4, <1>3
  <2>3. CASE b.full /\ ~ (i <= n - b.head)
    <3>1. f = n
      BY <2>3, <1>1 DEF Fill
    <3> HIDE DEF f
    <3>2. i - (n - b.head) \in 1 .. b.head
      BY <1>1, <2>3, <3>1
    <3>3. b.ring[i - (n - b.head)] = log[Len(log) - b.head + (i - (n - b.head))]
      BY <3>2 DEF HoldsSuffix
    <3>4. Len(log) - b.head + (i - (n - b.head)) = Len(log) - f + i
      BY <1>1, <3>1
    <3> QED BY <2>3, <3>3, <3>4, <1>3
  <2> QED BY <2>1, <2>2, <2>3, <1>1
<1> HIDE DEF f
<1>5. Snapshot(b) = SubSeq(log, m, Len(log))
  <2> HIDE DEF m
  <2> QED BY <1>2, <1>3, <1>4, SeqEqual
<1> QED BY <1>5 DEF f

(* A fresh ring holds the end, of length 0, of any log.                    *)
LEMMA NewHoldsSuffix ==
  ASSUME NEW n \in Nat, NEW E, NEW log \in Seq(E)
  PROVE  /\ HoldsSuffix(NewReplayBuffer(n), log)
         /\ Fill(NewReplayBuffer(n)) = 0
BY LenProperties DEF HoldsSuffix, NewReplayBuffer, Fill

(* push keeps a ring the end of the log when the event is logged with it.  *)
LEMMA PushHoldsSuffix ==
  ASSUME NEW n \in Nat \ {0}, NEW E, NEW b \in RingOf(n, E),
         NEW log \in Seq(E), NEW ev \in E, HoldsSuffix(b, log)
  PROVE  /\ HoldsSuffix(Push(b, ev), Append(log, ev))
         /\ Fill(Push(b, ev)) = IF Fill(b) < n THEN Fill(b) + 1 ELSE n
<1> DEFINE c == Push(b, ev)
           l == Append(log, ev)
<1>1. /\ b.size = n
      /\ b.head \in 0 .. n - 1
      /\ b.full \in BOOLEAN
      /\ b.ring \in [1 .. n -> E]
  BY DEF RingOf
<1>2. /\ c.head = IF b.head = n - 1 THEN 0 ELSE b.head + 1
      /\ (c.full <=> (b.full \/ b.head = n - 1))
      /\ c.size = n
      /\ \A i \in 1 .. n : c.ring[i] = IF i = b.head + 1 THEN ev ELSE b.ring[i]
  BY PushType
<1>3. /\ l \in Seq(E) /\ Len(l) = Len(log) + 1 /\ Len(log) \in Nat
      /\ \A i \in 1 .. Len(log) : l[i] = log[i]
      /\ l[Len(log) + 1] = ev
  BY AppendProperties, LenProperties
<1> HIDE DEF c, l
<1>3a. /\ Len(l) = Len(log) + 1 /\ Len(log) \in Nat /\ Len(l) \in Nat
       /\ b.head \in Nat /\ n \in Nat
  BY <1>1, <1>3
<1>4. /\ b.full => n <= Len(log)
      /\ ~b.full => b.head <= Len(log)
      /\ b.head <= Len(log)
  BY <1>1 DEF HoldsSuffix, Fill
<1>5. /\ Fill(c) = IF Fill(b) < n THEN Fill(b) + 1 ELSE n
      /\ Fill(c) <= Len(l)
  <2>1. CASE b.full
    <3>1. Fill(b) = n /\ Fill(c) = n
      BY <2>1, <1>1, <1>2 DEF Fill
    <3> QED BY <3>1, <2>1, <1>3, <1>4
  <2>2. CASE ~b.full /\ b.head = n - 1
    <3>1. Fill(b) = n - 1 /\ Fill(c) = n
      BY <2>2, <1>1, <1>2 DEF Fill
    <3> QED BY <3>1, <2>2, <1>3, <1>4
  <2>3. CASE ~b.full /\ b.head # n - 1
    <3>1. Fill(b) = b.head /\ Fill(c) = b.head + 1
      BY <2>3, <1>1, <1>2 DEF Fill
    <3> QED BY <3>1, <2>3, <1>1, <1>3, <1>4
  <2> QED BY <2>1, <2>2, <2>3
<1>6. ASSUME NEW i \in 1 .. c.head PROVE c.ring[i] = l[Len(l) - c.head + i]
  <2>1. c.head = b.head + 1 /\ i \in 1 .. b.head + 1 /\ i \in 1 .. n
    BY <1>1, <1>2
  <2>2. CASE i = b.head + 1
    <3>1. Len(l) - c.head + i = Len(log) + 1
      BY <1>1, <1>3, <2>1, <2>2
    <3> QED BY <3>1, <2>1, <2>2, <1>2, <1>3
  <2>3. CASE i # b.head + 1
    <3>1. i \in 1 .. b.head
      BY <2>1, <2>3, <1>1
    <3>2. b.ring[i] = log[Len(log) - b.head + i]
      BY <3>1 DEF HoldsSuffix
    <3>3. Len(log) - b.head + i \in 1 .. Len(log)
      BY <3>1, <1>1, <1>3, <1>4
    <3>4. Len(l) - c.head + i = Len(log) - b.head + i
      <4>1. c.head = b.head + 1 /\ c.head \in Nat /\ i \in Nat
        BY <1>3a, <2>1
      <4>2. Len(l) - c.head + i = (Len(log) + 1) - (b.head + 1) + i
        BY ONLY <1>3a, <4>1, Zenon
      <4>3. (Len(log) + 1) - (b.head + 1) + i = Len(log) - b.head + i
        BY ONLY <1>3a, <4>1, SMTT(30)
      <4> QED BY ONLY <4>2, <4>3, Zenon
    <3>5. c.ring[i] = b.ring[i]
      BY <2>1, <2>3, <1>2
    <3>6. l[Len(log) - b.head + i] = log[Len(log) - b.head + i]
      BY <3>3, <1>3
    <3> QED BY <3>2, <3>4, <3>5, <3>6
  <2> QED BY <2>2, <2>3
<1>7. ASSUME c.full, NEW i \in c.head + 1 .. n
      PROVE  c.ring[i] = l[Len(l) - c.head - n + i]
  <2>1. CASE b.head = n - 1
    <3>1. c.head = 0 /\ i \in 1 .. n
      BY <2>1, <1>2
    <3>2. CASE i = n
      <4>1. Len(l) - c.head - n + i = Len(log) + 1
        BY <3>1, <3>2, <1>3
      <4> QED BY <4>1, <3>1, <3>2, <2>1, <1>1, <1>2, <1>3
    <3>3. CASE i # n
      <4>1. i \in 1 .. b.head
        BY <3>1, <3>3, <2>1
      <4>2. b.ring[i] = log[Len(log) - b.head + i]
        BY <4>1 DEF HoldsSuffix
      <4>3. Len(log) - b.head + i \in 1 .. Len(log)
        BY <4>1, <1>1, <1>3, <1>4
      <4>4. Len(l) - c.head - n + i = Len(log) - b.head + i
        BY <1>3a, <2>1, <3>1
      <4>5. c.ring[i] = b.ring[i]
        BY <3>1, <3>3, <2>1, <1>1, <1>2
      <4>6. l[Len(log) - b.head + i] = log[Len(log) - b.head + i]
        BY <4>3, <1>3
      <4> QED BY <4>2, <4>4, <4>5, <4>6
    <3> QED BY <3>2, <3>3
  <2>2. CASE b.head # n - 1
    <3>1. b.full /\ c.head = b.head + 1 /\ i \in b.head + 2 .. n
      BY <1>7, <2>2, <1>1, <1>2
    <3>2. i \in b.head + 1 .. n /\ i \in 1 .. n /\ i # b.head + 1
      BY <3>1, <1>1
    <3>3. b.ring[i] = log[Len(log) - b.head - n + i]
      BY <3>1, <3>2, <1>1 DEF HoldsSuffix
    <3>4. Len(log) - b.head - n + i \in 1 .. Len(log)
      <4>1. /\ n <= Len(log) /\ i \in Nat
            /\ i >= b.head + 1 /\ i <= n
        BY <3>1, <3>2, <1>1, <1>4
      <4> QED BY ONLY <1>3a, <4>1, SMTT(30)
    <3>5. Len(l) - c.head - n + i = Len(log) - b.head - n + i
      <4>1. c.head = b.head + 1 /\ c.head \in Nat /\ i \in Nat
        BY <1>3a, <3>1, <3>2
      <4>2. Len(l) - c.head - n + i = (Len(log) + 1) - (b.head + 1) - n + i
        BY ONLY <1>3a, <4>1, Zenon
      <4>3. (Len(log) + 1) - (b.head + 1) - n + i = Len(log) - b.head - n + i
        BY ONLY <1>3a, <4>1, SMTT(30)
      <4> QED BY ONLY <4>2, <4>3, Zenon
    <3>6. c.ring[i] = b.ring[i]
      BY <3>2, <1>2
    <3>7. l[Len(log) - b.head - n + i] = log[Len(log) - b.head - n + i]
      BY <3>4, <1>3
    <3> QED BY <3>3, <3>5, <3>6, <3>7
  <2> QED BY <2>1, <2>2
<1>8. HoldsSuffix(c, l)
  BY <1>2, <1>5, <1>6, <1>7 DEF HoldsSuffix
<1> QED BY <1>5, <1>8 DEF c, l

(* The first event with a given ID is well-defined when there is one.      *)
LEMMA FirstMatchIsLeast ==
  ASSUME NEW E, NEW s \in Seq(E), NEW id, Matches(s, id) # {}
  PROVE  /\ FirstMatch(s, id) \in 1 .. Len(s)
         /\ s[FirstMatch(s, id)].id = id
         /\ \A j \in 1 .. Len(s) : s[j].id = id => FirstMatch(s, id) <= j
<1>1. DOMAIN s = 1 .. Len(s) /\ Len(s) \in Nat
  BY LenProperties
<1>2. Matches(s, id) \subseteq Nat
  BY <1>1 DEF Matches
<1>3. \E i \in Matches(s, id) : \A j \in Matches(s, id) : i <= j
  BY <1>2, LeastElement
<1>4. /\ FirstMatch(s, id) \in Matches(s, id)
      /\ \A j \in Matches(s, id) : FirstMatch(s, id) <= j
  BY <1>3 DEF FirstMatch
<1> QED BY <1>1, <1>4 DEF Matches

(* since returns the snapshot after position k: the first match, if lastID *)
(* is set and matches, and 0 otherwise.                                    *)
LEMMA SinceIsSuffix ==
  ASSUME NEW n \in Nat, NEW E, NEW b \in RingOf(n, E), NEW id
  PROVE  \E k \in 0 .. Fill(b) :
           /\ Since(b, id) \in Seq(E)
           /\ Since(b, id) = SubSeq(Snapshot(b), k + 1, Fill(b))
           /\ Len(Since(b, id)) = Fill(b) - k
           /\ \A i \in 1 .. Fill(b) - k : Since(b, id)[i] = Snapshot(b)[k + i]
           /\ \A j \in 1 .. k : Snapshot(b)[j].id = id => j = k
           /\ k > 0 => Snapshot(b)[k].id = id
           /\ (id # NoID /\ k = 0) =>
                \A j \in 1 .. Fill(b) : Snapshot(b)[j].id # id
<1> DEFINE all == Snapshot(b)
           f == Fill(b)
<1>1. all \in Seq(E) /\ Len(all) = f /\ f \in Nat /\ DOMAIN all = 1 .. f
  <2>1. all \in Seq(E) /\ Len(all) = f /\ f \in 0 .. n
    BY SnapshotSlots
  <2> QED BY <2>1, LenProperties
<1>2. ASSUME NEW k \in 0 .. f
      PROVE  /\ SubSeq(all, k + 1, f) \in Seq(E)
             /\ Len(SubSeq(all, k + 1, f)) = f - k
             /\ \A i \in 1 .. f - k : SubSeq(all, k + 1, f)[i] = all[k + i]
  <2> DEFINE m == k + 1
  <2> HIDE DEF all, f
  <2>1. m \in Int /\ f \in Int /\ \A i \in m .. f : all[i] \in E
    BY <1>1, ElementOfSeq
  <2> HIDE DEF m
  <2>2. /\ SubSeq(all, m, f) \in Seq(E)
        /\ Len(SubSeq(all, m, f)) = IF m <= f THEN f - m + 1 ELSE 0
        /\ \A i \in 1 .. f - m + 1 : SubSeq(all, m, f)[i] = all[m + i - 1]
    BY <2>1, SubSeqProperties
  <2>3. f - m + 1 = f - k
    BY <1>1 DEF m
  <2>4. ~ (m <= f) => f - k = 0
    BY <1>1 DEF m
  <2>5. ASSUME NEW i \in 1 .. f - k PROVE m + i - 1 = k + i
    BY <1>1 DEF m
  <2>6. /\ SubSeq(all, m, f) \in Seq(E)
        /\ Len(SubSeq(all, m, f)) = f - k
        /\ \A i \in 1 .. f - k : SubSeq(all, m, f)[i] = all[k + i]
    BY <2>2, <2>3, <2>4, <2>5
  <2> QED BY <2>6 DEF m
<1>3. CASE id = NoID \/ Matches(all, id) = {}
  <2>1. Since(b, id) = all
    BY <1>3 DEF Since
  <2> HIDE DEF all, f
  <2>2. 0 \in 0 .. f
    BY <1>1
  <2>3. /\ SubSeq(all, 0 + 1, f) \in Seq(E)
        /\ Len(SubSeq(all, 0 + 1, f)) = f - 0
        /\ \A i \in 1 .. f - 0 : SubSeq(all, 0 + 1, f)[i] = all[0 + i]
    BY <1>2, <2>2
  <2>4. \A i \in 1 .. f - 0 : all[i] = all[0 + i] /\ i \in 1 .. f
    BY <1>1
  <2>5. Len(all) = f - 0
    BY <1>1
  <2>6. \A i \in 1 .. Len(all) : all[i] = SubSeq(all, 0 + 1, f)[i]
    BY <1>1, <2>3, <2>4, <2>5
  <2>7. all = SubSeq(all, 0 + 1, f)
    BY <1>1, <2>3, <2>5, <2>6, SeqEqual
  <2>8. id # NoID => \A j \in 1 .. f : all[j].id # id
    BY <1>1, <1>3 DEF Matches
  <2>9. /\ Since(b, id) \in Seq(E)
        /\ Since(b, id) = SubSeq(all, 0 + 1, f)
        /\ Len(Since(b, id)) = f - 0
        /\ \A i \in 1 .. f - 0 : Since(b, id)[i] = all[0 + i]
        /\ \A j \in 1 .. 0 : all[j].id = id => j = 0
        /\ 0 > 0 => all[0].id = id
        /\ (id # NoID /\ 0 = 0) => \A j \in 1 .. f : all[j].id # id
    BY <1>1, <2>1, <2>4, <2>5, <2>7, <2>8
  <2> QED BY <2>2, <2>9 DEF all, f
<1>4. CASE ~ (id = NoID \/ Matches(all, id) = {})
  <2> DEFINE k == FirstMatch(all, id)
  <2>1. Since(b, id) = SubSeq(all, k + 1, Len(all))
    BY <1>4 DEF Since
  <2> HIDE DEF all, f
  <2>2. /\ k \in 1 .. Len(all)
        /\ all[k].id = id
        /\ \A j \in 1 .. Len(all) : all[j].id = id => k <= j
    BY <1>1, <1>4, FirstMatchIsLeast
  <2> HIDE DEF k
  <2>3. k \in 0 .. f /\ k # 0
    BY <1>1, <2>2
  <2>4. /\ SubSeq(all, k + 1, f) \in Seq(E)
        /\ Len(SubSeq(all, k + 1, f)) = f - k
        /\ \A i \in 1 .. f - k : SubSeq(all, k + 1, f)[i] = all[k + i]
    BY <1>2, <2>3
  <2>5. \A j \in 1 .. k : all[j].id = id => j = k
    BY <1>1, <2>2
  <2> QED BY <1>1, <2>1, <2>2, <2>3, <2>4, <2>5 DEF all, f
<1> QED BY <1>3, <1>4
=============================================================================
