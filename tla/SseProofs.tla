----------------------------- MODULE SseProofs ------------------------------
(***************************************************************************)
(* The SSE handlers and their subscriptions, for any number of connections *)
(* and crashes and every size of ring, channel and socket.                 *)
(***************************************************************************)
EXTENDS Sse, ReplayBufferProofs

-----------------------------------------------------------------------------
(* Facts about events and sequences.                                       *)

(* The empty event, which a ping frame also stands as, is an event.        *)
LEMMA NoEventType == NoEvent \in Event /\ Ping \in Event
BY DEF NoEvent, Event, Ping, NoID

(* The parts of a sequence that is not empty.                              *)
LEMMA HeadAndTail ==
  ASSUME NEW E, NEW s \in Seq(E), s # << >>
  PROVE  /\ Head(s) \in E /\ Head(s) = s[1]
         /\ Tail(s) \in Seq(E) /\ Len(Tail(s)) = Len(s) - 1
         /\ Len(s) \in Nat \ {0}
         /\ \A i \in 1 .. Len(s) - 1 : Tail(s)[i] = s[i + 1]
BY HeadTailProperties, EmptySeq, LenProperties

-----------------------------------------------------------------------------
(* The inductive invariant.                                                *)

(* Events are numbered as the hub accepts them, and the ring holds the     *)
(* last of them.                                                           *)
LogInv ==
  /\ \A i \in 1 .. Len(log) : log[i].pos = i
  /\ ~closed => HoldsSuffix(buf, log)

(* A registered subscription belongs to an open hub and a handler that     *)
(* serves it, and one yet to come is empty.                                *)
SubInv(c) ==
  /\ c \in registered =>
       ~closed /\ hpc[c] \in {"replay", "select", "ping", "write"}
  /\ hpc[c] \in {"new", "open"} =>
       ch[c] = << >> /\ rest[c] = << >> /\ drops[c] = 0

(* How many events handler c holds in hand.                                *)
InHand(c) == IF hpc[c] = "write" THEN 1 ELSE 0

(* With no drop and no overtaken replay, what follows the last event that  *)
(* was written is first in the hand, then in the channel, then still to be *)
(* replayed, without a gap; while the subscription is registered that is   *)
(* everything up to the end of the log.                                    *)
Gapless(c) ==
  hpc[c] \in {"replay", "select", "ping", "write"} /\ drops[c] = 0 /\ ~overtaken
  => /\ hpc[c] = "write" => hand[c].pos = sent[c] + 1
     /\ \A i \in 1 .. Len(ch[c]) : ch[c][i].pos = sent[c] + InHand(c) + i
     /\ \A i \in 1 .. Len(rest[c]) :
          rest[c][i].pos = sent[c] + InHand(c) + Len(ch[c]) + i
     /\ c \in registered =>
          sent[c] + InHand(c) + Len(ch[c]) + Len(rest[c]) = Len(log)

ConnInv(c) == SubInv(c) /\ Gapless(c)

IInv == TypeOK /\ LogInv /\ \A c \in Conns : ConnInv(c)

(* What SubscribeSince is to replay is the end of the log.                 *)
LEMMA ReplayIsSuffix ==
  ASSUME SseAssumption, TypeOK, LogInv, ~closed, NEW id
  PROVE  /\ Since(buf, id) \in Seq(Event)
         /\ Len(Since(buf, id)) \in 0 .. Len(log)
         /\ \A i \in 1 .. Len(Since(buf, id)) :
              Since(buf, id)[i].pos = Len(log) - Len(Since(buf, id)) + i
<1> DEFINE s == Since(buf, id)
           n == Len(log)
           f == Fill(buf)
<1>1. /\ Size \in Nat /\ buf \in RingOf(Size, Event)
      /\ log \in Seq(Event) /\ HoldsSuffix(buf, log) /\ n \in Nat
  BY LenProperties DEF SseAssumption, TypeOK, LogInv
<1>2. /\ f \in 0 .. Size /\ f <= n
      /\ Snapshot(buf) \in Seq(Event)
      /\ Snapshot(buf) = SubSeq(log, n - f + 1, n)
  BY <1>1, SnapshotSlots, SnapshotOfSuffix DEF HoldsSuffix
<1>3. PICK k \in 0 .. f :
        /\ s \in Seq(Event) /\ Len(s) = f - k
        /\ \A i \in 1 .. f - k : s[i] = Snapshot(buf)[k + i]
  <2> HIDE DEF s, f
  <2> QED BY <1>1, SinceIsSuffix DEF s, f
<1>4. ASSUME NEW i \in 1 .. Len(s)
      PROVE  s[i].pos = n - Len(s) + i
  <2>1. s[i] = Snapshot(buf)[k + i] /\ k + i \in 1 .. f
    BY <1>2, <1>3
  <2>2. Snapshot(buf)[k + i] = log[n - f + k + i]
    <3>1. n - f + 1 \in 1 .. n + 1
      BY <1>1, <1>2
    <3> HIDE DEF f, n
    <3> QED BY <1>1, <1>2, <2>1, <3>1, SubSeqProperties
  <2>3. n - f + k + i \in 1 .. n /\ n - f + k + i = n - Len(s) + i
    <3>1. k \in 0 .. f /\ i \in 1 .. f - k /\ Len(s) = f - k
      BY <1>3
    <3> HIDE DEF f, n, s
    <3> QED BY <1>1, <1>2, <3>1
  <2> HIDE DEF f, n, s
  <2> QED BY <2>1, <2>2, <2>3 DEF LogInv, n
<1> HIDE DEF s, f, n
<1>5. Len(s) \in 0 .. n
  BY <1>1, <1>2, <1>3
<1> QED BY <1>3, <1>4, <1>5 DEF s, n

-----------------------------------------------------------------------------
(* Types.                                                                  *)

(* The hub's steps keep the types.                                         *)
LEMMA HubTypes ==
  ASSUME SseAssumption, TypeOK, Publish \/ HubClose \/ Restart
  PROVE  TypeOK'
<1>1. Size \in Nat \ {0} /\ Size \in Nat
  BY DEF SseAssumption
<1>2. CASE Publish
  <2> DEFINE ev == [pos |-> Len(log) + 1, id |-> Len(log) + 1]
             full == {c \in registered : Len(ch[c]) >= Buffer}
  <2>1. ev \in Event
    BY LenProperties DEF TypeOK, Event
  <2>2. log' \in Seq(Event)
    BY <1>2, <2>1, AppendProperties DEF Publish, TypeOK
  <2>3. ~closed /\ closed' = closed /\ buf' = Push(buf, ev)
    BY <1>2 DEF Publish
  <2>4. buf' \in RingOf(Size, Event)
    BY <1>1, <2>1, <2>3, PushType DEF TypeOK
  <2>5. ch' \in [Conns -> Seq(Event)]
    <3>1. \A c \in Conns : Append(ch[c], ev) \in Seq(Event)
      BY <2>1, AppendProperties DEF TypeOK
    <3>2. ch' = [c \in Conns |-> IF c \in registered \ full
                                 THEN Append(ch[c], ev) ELSE ch[c]]
      BY <1>2 DEF Publish
    <3> HIDE DEF ev, full
    <3> QED BY <3>1, <3>2 DEF TypeOK
  <2>6. drops' \in [Conns -> Nat]
    <3>1. drops' = [c \in Conns |-> IF c \in full THEN drops[c] + 1
                                   ELSE drops[c]]
      BY <1>2 DEF Publish
    <3> HIDE DEF ev, full
    <3> QED BY <3>1 DEF TypeOK
  <2>7. excused' \subseteq Nat
    BY <1>2, <2>1 DEF Publish, TypeOK, Event
  <2>8. overtaken' \in BOOLEAN
    BY <1>2 DEF Publish, TypeOK
  <2>9. UNCHANGED <<registered, hpc, since, rest, hand, wire, gone, conn,
                    lastID, sent, warned, stale, restarts>>
    BY <1>2 DEF Publish, connVars, clientVars
  <2> QED BY <2>2, <2>3, <2>4, <2>5, <2>6, <2>7, <2>8, <2>9 DEF TypeOK
<1>3. CASE HubClose
  BY <1>3 DEF HubClose, TypeOK, connVars, clientVars
<1>4. CASE Restart
  <2>1. buf' \in RingOf(Size, Event) /\ closed' = FALSE
    BY <1>1, <1>4, NoEventType, NewReplayBufferType DEF Restart
  <2>2. << >> \in Seq(Event)
    BY EmptySeq
  <2>3. restarts' \in 0 .. MaxRestarts
    BY <1>4 DEF Restart, TypeOK, SseAssumption
  <2>4. hpc' \in [Conns -> {"new", "open", "replay", "select", "ping", "write",
                            "done"}]
    BY <1>4 DEF Restart, TypeOK
  <2>5. /\ log' = << >> /\ registered' = {} /\ conn' = NoConn
        /\ excused' = {} /\ overtaken' = FALSE /\ stale' \in BOOLEAN
        /\ UNCHANGED <<gone, lastID, sent, warned>>
    BY <1>4 DEF Restart
  <2>6. /\ since' \in [Conns -> Nat]
        /\ rest' \in [Conns -> Seq(Event)]
        /\ ch' \in [Conns -> Seq(Event)]
        /\ drops' \in [Conns -> Nat]
        /\ hand' \in [Conns -> Event]
        /\ wire' \in [Conns -> Seq(Event)]
    BY <1>4, <2>2, NoEventType DEF Restart, NoID
  <2> QED BY <2>1, <2>2, <2>3, <2>4, <2>5, <2>6 DEF TypeOK
<1> QED BY <1>2, <1>3, <1>4

(* The steps that register a subscription or replay to it keep the types.  *)
LEMMA SubscribeTypes ==
  ASSUME SseAssumption, TypeOK, LogInv, NEW c \in Conns,
         Join(c) \/ JoinClosed(c) \/ ReplayOne(c) \/ ReplayDone(c)
  PROVE  TypeOK'
<1>1. CASE Join(c)
  <2> DEFINE replay == Since(buf, since[c])
  <2>1. Joined(c, replay) /\ ~closed
    BY <1>1 DEF Join, Joined
  <2>2. replay \in Seq(Event) /\ Len(replay) \in 0 .. Len(log)
    BY <2>1, ReplayIsSuffix
  <2>3. Len(log) \in Nat /\ DOMAIN log = 1 .. Len(log)
    BY LenProperties DEF TypeOK
  <2> HIDE DEF replay
  <2>4. excused' \subseteq Nat
    <3>1. DOMAIN log \subseteq Nat
      BY <2>3
    <3>2. \A n \in Nat : 1 .. n \subseteq Nat
      OBVIOUS
    <3> QED BY <2>1, <3>1, <3>2 DEF Joined, TypeOK
  <2>5. sent' \in [Conns -> Nat] /\ rest' \in [Conns -> Seq(Event)]
    BY <2>1, <2>2, <2>3 DEF Joined, TypeOK
  <2>6. /\ registered' \subseteq Conns /\ since' \in [Conns -> Nat]
        /\ hpc' \in [Conns -> {"new", "open", "replay", "select", "ping",
                              "write", "done"}]
    BY <2>1 DEF Joined, TypeOK, NoID
  <2>7. UNCHANGED <<hubVars, ch, drops, overtaken, hand, wire, gone, warned,
                    clientVars>>
    BY <2>1 DEF Joined
  <2> QED BY <2>4, <2>5, <2>6, <2>7 DEF TypeOK, hubVars, clientVars
<1>2. CASE JoinClosed(c) \/ ReplayDone(c)
  <2>1. /\ hpc' = [hpc EXCEPT ![c] = "select"]
        /\ UNCHANGED <<hubVars, subVars, connVars, clientVars>>
    BY <1>2 DEF JoinClosed, ReplayDone
  <2>2. hpc' \in [Conns -> {"new", "open", "replay", "select", "ping", "write",
                            "done"}]
    BY <2>1 DEF TypeOK
  <2> QED BY <2>1, <2>2 DEF TypeOK, hubVars, subVars, connVars, clientVars
<1>3. CASE ReplayOne(c)
  <2>1. /\ hpc' \in [Conns -> {"new", "open", "replay", "select", "ping",
                              "write", "done"}]
        /\ UNCHANGED <<hubVars, registered, since, overtaken, connVars,
                       clientVars>>
    BY <1>3 DEF ReplayOne, TypeOK
  <2>2. /\ rest[c] \in Seq(Event) /\ rest[c] # << >> /\ ch[c] \in Seq(Event)
        /\ Head(rest[c]) \in Event /\ Tail(rest[c]) \in Seq(Event)
    <3>1. rest[c] \in Seq(Event) /\ ch[c] \in Seq(Event)
      BY DEF TypeOK
    <3>2. rest[c] # << >>
      BY <1>3 DEF ReplayOne
    <3> QED BY <3>1, <3>2, HeadAndTail
  <2>3. Append(ch[c], Head(rest[c])) \in Seq(Event)
    BY <2>2, AppendProperties
  <2>4. rest' \in [Conns -> Seq(Event)] /\ ch' \in [Conns -> Seq(Event)]
    BY <1>3, <2>2, <2>3 DEF ReplayOne, TypeOK
  <2>5. drops' \in [Conns -> Nat] /\ excused' \subseteq Nat
    <3>1. Head(rest[c]).pos \in Nat
      BY <2>2 DEF Event
    <3> DEFINE p == Head(rest[c]).pos
    <3>2. /\ drops' = drops \/ drops' = [drops EXCEPT ![c] = @ + 1]
          /\ excused' = excused \/ excused' = excused \cup {p}
      BY <1>3 DEF ReplayOne
    <3>3. p \in Nat
      BY <3>1
    <3> HIDE DEF p
    <3>4. excused' \subseteq Nat
      BY <3>2, <3>3 DEF TypeOK
    <3>5. drops' \in [Conns -> Nat]
      <4>1. drops \in [Conns -> Nat] /\ drops[c] + 1 \in Nat
        BY DEF TypeOK
      <4> QED BY <3>2, <4>1
    <3> QED BY <3>4, <3>5
  <2> QED BY <2>1, <2>4, <2>5 DEF TypeOK, hubVars, connVars, clientVars
<1> QED BY <1>1, <1>2, <1>3

(* The steps of the select loop keep the types.                            *)
LEMMA LoopTypes ==
  ASSUME SseAssumption, TypeOK, NEW c \in Conns,
         \/ Tick(c) \/ TakeEvent(c) \/ Return(c)
         \/ WritePing(c) \/ WriteEvent(c)
  PROVE  TypeOK'
<1> USE DEF hubVars, subVars, connVars, clientVars
<1>1. CASE Tick(c)
  BY <1>1 DEF Tick, TypeOK
<1>2. CASE TakeEvent(c)
  <2>1. Head(ch[c]) \in Event /\ Tail(ch[c]) \in Seq(Event)
    BY <1>2, HeadAndTail DEF TakeEvent, TypeOK
  <2> QED BY <1>2, <2>1 DEF TakeEvent, TypeOK
<1>3. CASE Return(c)
  <2>1. << >> \in Seq(Event) /\ NoEvent \in Event
    BY EmptySeq, NoEventType
  <2>2. ch' \in [Conns -> Seq(Event)] /\ hand' \in [Conns -> Event]
    BY <1>3, <2>1 DEF Return, TypeOK
  <2>3. /\ registered' \subseteq Conns /\ drops' \in [Conns -> Nat]
        /\ hpc' \in [Conns -> {"new", "open", "replay", "select", "ping",
                              "write", "done"}]
    BY <1>3 DEF Return, TypeOK
  <2>4. UNCHANGED <<hubVars, since, rest, excused, overtaken, wire, gone, sent,
                    warned, clientVars>>
    BY <1>3 DEF Return
  <2> QED BY <2>2, <2>3, <2>4 DEF TypeOK
<1>4. ASSUME NEW frame \in Event, WriteFrame(c, frame)
      PROVE  /\ wire' \in [Conns -> Seq(Event)]
             /\ hand' \in [Conns -> Event]
             /\ hpc' \in [Conns -> {"new", "open", "replay", "select", "ping",
                                   "write", "done"}]
             /\ UNCHANGED <<hubVars, subVars, gone, clientVars>>
  <2>1. Append(wire[c], frame) \in Seq(Event)
    BY AppendProperties DEF TypeOK
  <2>2. wire' \in [Conns -> Seq(Event)]
    BY <1>4, <2>1 DEF WriteFrame, TypeOK
  <2>3. hand' \in [Conns -> Event]
    BY <1>4, NoEventType DEF WriteFrame, TypeOK
  <2>4. hpc' \in [Conns -> {"new", "open", "replay", "select", "ping", "write",
                            "done"}]
    BY <1>4 DEF WriteFrame, TypeOK
  <2> QED BY <1>4, <2>2, <2>3, <2>4 DEF WriteFrame
<1>5. CASE WritePing(c)
  <2>1. WriteFrame(c, Ping) /\ UNCHANGED <<sent, warned>>
    BY <1>5 DEF WritePing
  <2>2. Ping \in Event
    BY NoEventType
  <2>3. /\ wire' \in [Conns -> Seq(Event)]
        /\ hand' \in [Conns -> Event]
        /\ hpc' \in [Conns -> {"new", "open", "replay", "select", "ping",
                              "write", "done"}]
        /\ UNCHANGED <<hubVars, subVars, gone, clientVars>>
    BY <1>4, <2>1, <2>2
  <2> QED BY <2>1, <2>3 DEF TypeOK
<1>6. CASE WriteEvent(c)
  <2>1. hand[c] \in Event /\ hand[c].pos \in Nat
    BY DEF TypeOK, Event
  <2>2. WriteFrame(c, hand[c])
    BY <1>6 DEF WriteEvent
  <2>3. sent' \in [Conns -> Nat] /\ warned' \in [Conns -> BOOLEAN]
    BY <1>6, <2>1 DEF WriteEvent, TypeOK
  <2>4. /\ wire' \in [Conns -> Seq(Event)]
        /\ hand' \in [Conns -> Event]
        /\ hpc' \in [Conns -> {"new", "open", "replay", "select", "ping",
                              "write", "done"}]
        /\ UNCHANGED <<hubVars, subVars, gone, clientVars>>
    BY <1>4, <2>1, <2>2
  <2> QED BY <2>3, <2>4 DEF TypeOK
<1> QED BY <1>1, <1>2, <1>3, <1>5, <1>6

(* The client's steps keep the types.                                      *)
LEMMA ClientTypes ==
  ASSUME TypeOK, NEW c \in Conns, Client(c)
  PROVE  TypeOK'
<1> USE DEF hubVars, subVars, connVars, clientVars
<1>1. CASE Connect(c)
  BY <1>1 DEF Connect, TypeOK
<1>2. CASE Read(c)
  <2>1. /\ Head(wire[c]) \in Event /\ Tail(wire[c]) \in Seq(Event)
        /\ Head(wire[c]).id \in Nat
    <3>1. wire[c] \in Seq(Event) /\ wire[c] # << >>
      BY <1>2 DEF Read, TypeOK
    <3>2. Head(wire[c]) \in Event /\ Tail(wire[c]) \in Seq(Event)
      BY <3>1, HeadAndTail
    <3> QED BY <3>2 DEF Event
  <2>2. lastID' \in Nat /\ stale' \in BOOLEAN
    BY <1>2, <2>1 DEF Read, TypeOK
  <2>3. wire' \in [Conns -> Seq(Event)]
    BY <1>2, <2>1 DEF Read, TypeOK
  <2> QED BY <1>2, <2>2, <2>3 DEF Read, TypeOK
<1>3. CASE Break(c)
  <2>1. << >> \in Seq(Event)
    BY EmptySeq
  <2> QED BY <1>3, <2>1 DEF Break, TypeOK, NoConn
<1>4. CASE Eof(c)
  BY <1>4 DEF Eof, TypeOK, NoConn
<1> QED BY <1>1, <1>2, <1>3, <1>4 DEF Client

-----------------------------------------------------------------------------
(* The log and the ring.                                                   *)

(* The hub's steps keep the ring the end of the log.                       *)
LEMMA HubLog ==
  ASSUME SseAssumption, TypeOK, LogInv, Publish \/ HubClose \/ Restart
  PROVE  LogInv'
<1>1. Size \in Nat \ {0} /\ Size \in Nat
  BY DEF SseAssumption
<1>2. CASE Publish
  <2> DEFINE ev == [pos |-> Len(log) + 1, id |-> Len(log) + 1]
  <2>1. log \in Seq(Event) /\ Len(log) \in Nat /\ ev \in Event
    BY LenProperties DEF TypeOK, Event
  <2>2. /\ ~closed /\ log' = Append(log, ev) /\ buf' = Push(buf, ev)
    BY <1>2 DEF Publish
  <2>3. buf \in RingOf(Size, Event) /\ HoldsSuffix(buf, log)
    BY <2>2 DEF TypeOK, LogInv
  <2>4. ev.pos = Len(log) + 1
    OBVIOUS
  <2> HIDE DEF ev
  <2>5. HoldsSuffix(buf', log')
    BY <1>1, <2>1, <2>2, <2>3, PushHoldsSuffix
  <2>6. \A i \in 1 .. Len(log') : log'[i].pos = i
    BY <2>1, <2>2, <2>4, AppendProperties DEF LogInv
  <2> QED BY <2>5, <2>6 DEF LogInv
<1>3. CASE HubClose
  BY <1>3 DEF HubClose, LogInv
<1>4. CASE Restart
  <2>1. log' = << >> /\ buf' = NewReplayBuffer(Size)
    BY <1>4 DEF Restart
  <2>2. << >> \in Seq(Event) /\ Len(<< >>) = 0
    BY EmptySeq
  <2>3. HoldsSuffix(buf', log')
    BY <1>1, <2>1, <2>2, NewHoldsSuffix
  <2> QED BY <2>1, <2>2, <2>3 DEF LogInv
<1> QED BY <1>2, <1>3, <1>4

-----------------------------------------------------------------------------
(* Subscriptions.                                                          *)

(* A connection keeps its invariant in a step of another one.              *)
LEMMA OthersKeep ==
  ASSUME NEW k \in Conns, ConnInv(k),
         hpc'[k] = hpc[k], ch'[k] = ch[k], rest'[k] = rest[k],
         drops'[k] = drops[k], hand'[k] = hand[k], sent'[k] = sent[k],
         k \in registered' => k \in registered /\ closed' = closed,
         log' = log, overtaken' = overtaken
  PROVE  ConnInv(k)'
BY DEF ConnInv, SubInv, Gapless, InHand

(* Publish keeps the subscriptions gapless.                                *)
LEMMA PublishConn ==
  ASSUME SseAssumption, TypeOK, Publish, NEW k \in Conns, ConnInv(k)
  PROVE  ConnInv(k)'
<1> DEFINE ev == [pos |-> Len(log) + 1, id |-> Len(log) + 1]
           full == {c \in registered : Len(ch[c]) >= Buffer}
<1>1. /\ log' = Append(log, ev)
      /\ ch' = [c \in Conns |-> IF c \in registered \ full
                                THEN Append(ch[c], ev) ELSE ch[c]]
      /\ drops' = [c \in Conns |-> IF c \in full THEN drops[c] + 1 ELSE drops[c]]
      /\ overtaken' = (overtaken \/ \E c \in registered : rest[c] # << >>)
      /\ UNCHANGED <<closed, registered, rest, hpc, hand, sent>>
  BY DEF Publish, connVars
<1>2. /\ log \in Seq(Event) /\ Len(log) \in Nat
      /\ ch[k] \in Seq(Event) /\ Len(ch[k]) \in Nat
      /\ drops[k] \in Nat /\ sent[k] \in Nat
      /\ hpc \in [Conns -> {"new", "open", "replay", "select", "ping", "write",
                            "done"}]
  BY LenProperties DEF TypeOK
<1>3. ev \in Event /\ ev.pos = Len(log) + 1
  BY <1>2 DEF Event
<1>4. Len(log') = Len(log) + 1
  BY <1>1, <1>2, <1>3, AppendProperties
<1> HIDE DEF ev
<1>5. CASE k \notin registered
  <2>1. ch'[k] = ch[k] /\ drops'[k] = drops[k]
    BY <1>1, <1>5
  <2> QED BY <1>1, <1>5, <2>1 DEF ConnInv, SubInv, Gapless, InHand
<1>6. CASE k \in full
  <2>1. drops'[k] # 0 /\ k \in registered
    BY <1>1, <1>2, <1>6
  <2>2. hpc[k] \in {"replay", "select", "ping", "write"}
    BY <2>1 DEF ConnInv, SubInv
  <2> QED BY <1>1, <2>1, <2>2 DEF ConnInv, SubInv, Gapless
<1>7. CASE k \in registered \ full
  <2>1. ch'[k] = Append(ch[k], ev) /\ drops'[k] = drops[k]
    BY <1>1, <1>7
  <2>2. /\ Len(ch'[k]) = Len(ch[k]) + 1
        /\ ch'[k][Len(ch[k]) + 1] = ev
        /\ \A i \in 1 .. Len(ch[k]) : ch'[k][i] = ch[k][i]
    BY <1>2, <1>3, <2>1, AppendProperties
  <2>3. hpc[k] \in {"replay", "select", "ping", "write"}
    BY <1>7 DEF ConnInv, SubInv
  <2>4. SubInv(k)'
    BY <1>1, <1>7, <2>3 DEF ConnInv, SubInv
  <2>5. ASSUME drops'[k] = 0, ~overtaken'
        PROVE  Gapless(k)'
    <3>1. drops[k] = 0 /\ ~overtaken /\ rest[k] = << >>
      BY <1>1, <1>7, <2>1, <2>5
    <3>2. rest'[k] = << >> /\ Len(rest[k]) = 0 /\ Len(rest'[k]) = 0
      BY <1>1, <3>1, EmptySeq
    <3>3. InHand(k) \in Nat /\ InHand(k)' = InHand(k)
      BY <1>1 DEF InHand
    <3>4. /\ hpc[k] = "write" => hand[k].pos = sent[k] + 1
          /\ \A i \in 1 .. Len(ch[k]) : ch[k][i].pos = sent[k] + InHand(k) + i
          /\ sent[k] + InHand(k) + Len(ch[k]) = Len(log)
      BY <1>2, <1>7, <2>3, <3>1, <3>2, <3>3 DEF ConnInv, Gapless
    <3>5. \A i \in 1 .. Len(ch'[k]) : ch'[k][i].pos = sent[k] + InHand(k) + i
      <4>1. Len(ch'[k]) = Len(ch[k]) + 1
        BY <2>2
      <4>2. \A i \in 1 .. Len(ch[k]) : ch'[k][i].pos = sent[k] + InHand(k) + i
        BY <2>2, <3>4
      <4>3. ch'[k][Len(ch[k]) + 1].pos = sent[k] + InHand(k) + Len(ch[k]) + 1
        BY <1>3, <2>2, <3>4
      <4> DEFINE n == Len(ch[k])
                 q == ch'[k]
                 m == Len(q)
      <4>4. m = n + 1 /\ n \in Nat
        BY <1>2, <4>1
      <4> HIDE DEF m, n, q
      <4>5. \A i \in 1 .. m : i \in 1 .. n \/ i = n + 1
        BY <4>4
      <4>6. \A i \in 1 .. n : q[i].pos = sent[k] + InHand(k) + i
        BY <4>2 DEF n, q
      <4>7. q[n + 1].pos = sent[k] + InHand(k) + (n + 1)
        <5>1. q[n + 1].pos = sent[k] + InHand(k) + n + 1
          BY <4>3 DEF n, q
        <5>2. sent[k] \in Nat /\ InHand(k) \in Nat /\ n \in Nat
          BY <1>2, <3>3, <4>4
        <5>3. \A x, y, z \in Nat : x + y + z + 1 = x + y + (z + 1)
          OBVIOUS
        <5>4. sent[k] + InHand(k) + n + 1 = sent[k] + InHand(k) + (n + 1)
          BY <5>2, <5>3
        <5> QED BY <5>1, <5>4
      <4>8. \A i \in 1 .. m : q[i].pos = sent[k] + InHand(k) + i
        BY <4>5, <4>6, <4>7
      <4> QED BY <4>8 DEF m, q
    <3>6. sent[k] + InHand(k) + Len(ch'[k]) + Len(rest'[k]) = Len(log')
      <4> DEFINE n == Len(ch[k])
                 m == Len(ch'[k])
                 l == Len(log)
                 h == sent[k] + InHand(k)
      <4>1. m = n + 1 /\ n \in Nat /\ l \in Nat /\ h \in Nat /\ h + n = l
        BY <1>2, <2>2, <3>3, <3>4
      <4> HIDE DEF n, m, l, h
      <4>2. h + m + 0 = l + 1
        BY <4>1
      <4> QED BY <1>4, <3>2, <4>2 DEF m, l, h
    <3> QED BY <1>1, <3>2, <3>3, <3>4, <3>5, <3>6 DEF Gapless
  <2> QED BY <2>4, <2>5 DEF ConnInv, Gapless
<1> QED BY <1>5, <1>6, <1>7

(* The steps of the hub keep every subscription's invariant.               *)
LEMMA HubConn ==
  ASSUME SseAssumption, TypeOK, Publish \/ HubClose \/ Restart,
         NEW k \in Conns, ConnInv(k)
  PROVE  ConnInv(k)'
<1>1. CASE Publish
  BY <1>1, PublishConn
<1>2. CASE HubClose
  <2>1. registered' = {} /\ UNCHANGED <<hpc, ch, rest, drops, hand, sent, log,
                                        overtaken>>
    BY <1>2 DEF HubClose, connVars
  <2> QED BY <2>1, OthersKeep
<1>3. CASE Restart
  <2>1. /\ hpc'[k] \in {"new", "done"} /\ registered' = {}
        /\ ch'[k] = << >> /\ rest'[k] = << >> /\ drops'[k] = 0
    BY <1>3 DEF Restart, Active, TypeOK
  <2> QED BY <2>1 DEF ConnInv, SubInv, Gapless
<1> QED BY <1>1, <1>2, <1>3

(* Subscribing starts a gapless stream that reaches the end of the log.    *)
LEMMA JoinConn ==
  ASSUME SseAssumption, TypeOK, LogInv, NEW k \in Conns, Join(k), ConnInv(k)
  PROVE  ConnInv(k)'
<1> DEFINE replay == Since(buf, since[k])
<1>1. Joined(k, replay) /\ ~closed
  BY DEF Join, Joined
<1>2. /\ replay \in Seq(Event) /\ Len(replay) \in 0 .. Len(log)
      /\ \A i \in 1 .. Len(replay) : replay[i].pos = Len(log) - Len(replay) + i
  BY <1>1, ReplayIsSuffix
<1>3. Len(log) \in Nat
  BY LenProperties DEF TypeOK
<1> HIDE DEF replay
<1>4. /\ hpc[k] = "open" /\ hpc'[k] = "replay" /\ rest'[k] = replay
      /\ sent'[k] = Len(log) - Len(replay)
      /\ UNCHANGED <<log, closed, ch, drops>>
  BY <1>1 DEF Joined, TypeOK, hubVars
<1>5. ch'[k] = << >> /\ Len(ch'[k]) = 0
  BY <1>4, EmptySeq DEF ConnInv, SubInv
<1>6. InHand(k)' = 0
  BY <1>4 DEF InHand
<1> DEFINE n == Len(log)
           m == Len(replay)
<1>7. n \in Nat /\ m \in 0 .. n
  BY <1>2, <1>3
<1>8. \A i \in 1 .. m : replay[i].pos = n - m + i
  BY <1>2
<1> HIDE DEF n, m
<1>9. /\ n - m + 0 + 0 + m = n
      /\ \A i \in 1 .. m : replay[i].pos = n - m + 0 + 0 + i
  BY <1>7, <1>8
<1>10. /\ \A i \in 1 .. Len(rest'[k]) :
            rest'[k][i].pos = sent'[k] + InHand(k)' + Len(ch'[k]) + i
       /\ sent'[k] + InHand(k)' + Len(ch'[k]) + Len(rest'[k]) = Len(log')
  BY <1>4, <1>5, <1>6, <1>9 DEF n, m
<1>11. SubInv(k)'
  BY <1>1, <1>4 DEF SubInv
<1> QED BY <1>4, <1>5, <1>10, <1>11 DEF ConnInv, Gapless

(* A turn of the replay loop moves the next event to the channel's end.    *)
LEMMA ReplayConn ==
  ASSUME SseAssumption, TypeOK, NEW k \in Conns, ReplayOne(k), ConnInv(k)
  PROVE  ConnInv(k)'
<1>1. /\ hpc[k] = "replay" /\ rest[k] # << >>
      /\ UNCHANGED <<log, closed, registered, overtaken, sent, hand>>
  BY DEF ReplayOne, hubVars, connVars
<1>2. CASE closed /\ hpc' = [hpc EXCEPT ![k] = "done"]
  <2>1. hpc'[k] = "done"
    BY <1>2 DEF TypeOK
  <2> QED BY <1>1, <1>2, <2>1 DEF ConnInv, SubInv, Gapless
<1>3. CASE hpc' = hpc /\ Len(ch[k]) >= Buffer
  <2>1. hpc'[k] = "replay" /\ drops'[k] = drops[k] + 1
    BY <1>1, <1>3 DEF ReplayOne, TypeOK, SseAssumption
  <2>2. drops'[k] # 0
    BY <2>1 DEF TypeOK
  <2> QED BY <1>1, <2>1, <2>2 DEF ConnInv, SubInv, Gapless
<1>4. CASE hpc' = hpc /\ Len(ch[k]) < Buffer
  <2> DEFINE e == Head(rest[k])
             q == ch[k]
             r == rest[k]
             n == Len(q)
  <2>1. /\ hpc'[k] = "replay" /\ drops' = drops
        /\ ch'[k] = Append(q, e) /\ rest'[k] = Tail(r)
    BY <1>1, <1>4 DEF ReplayOne, TypeOK, SseAssumption
  <2>2. /\ q \in Seq(Event) /\ n \in Nat /\ r \in Seq(Event) /\ r # << >>
        /\ sent[k] \in Nat
    BY <1>1, LenProperties DEF TypeOK
  <2>3. /\ e \in Event /\ e = r[1]
        /\ Len(Tail(r)) = Len(r) - 1 /\ Len(r) \in Nat \ {0}
        /\ \A i \in 1 .. Len(r) - 1 : Tail(r)[i] = r[i + 1]
    BY <2>2, HeadAndTail
  <2>4. /\ Len(ch'[k]) = n + 1 /\ ch'[k][n + 1] = e
        /\ \A i \in 1 .. n : ch'[k][i] = q[i]
    <3> HIDE DEF e, q
    <3> QED BY <2>1, <2>2, <2>3, AppendProperties
  <2>5. SubInv(k)'
    BY <1>1, <2>1 DEF ConnInv, SubInv
  <2>6. InHand(k) = 0 /\ InHand(k)' = 0
    BY <1>1, <2>1 DEF InHand
  <2>7. ASSUME drops[k] = 0, ~overtaken
        PROVE  Gapless(k)'
    <3> DEFINE m == Len(r)
               s == sent[k] + 0
    <3>1. /\ \A i \in 1 .. n : q[i].pos = s + i
          /\ \A i \in 1 .. m : r[i].pos = s + n + i
          /\ k \in registered => s + n + m = Len(log)
      BY <1>1, <2>6, <2>7 DEF ConnInv, Gapless
    <3>2. m \in Nat \ {0} /\ n \in Nat /\ s \in Nat
      BY <2>2, <2>3
    <3> HIDE DEF e, q, r, n, m, s
    <3>3. e.pos = s + (n + 1)
      BY <2>3, <3>1, <3>2
    <3>4. \A i \in 1 .. n + 1 : ch'[k][i].pos = s + i
      <4> SUFFICES ASSUME NEW i \in 1 .. n + 1 PROVE ch'[k][i].pos = s + i
        OBVIOUS
      <4>1. CASE i = n + 1
        <5>1. ch'[k][i] = e
          BY <2>4, <4>1
        <5> QED BY <3>3, <4>1, <5>1
      <4>2. CASE i \in 1 .. n
        <5>1. ch'[k][i] = q[i]
          BY <2>4, <4>2
        <5>2. q[i].pos = s + i
          BY <3>1, <4>2
        <5> QED BY <5>1, <5>2
      <4> QED BY <3>2, <4>1, <4>2
    <3>5. \A i \in 1 .. m - 1 : Tail(r)[i].pos = s + (n + 1) + i
      <4>1. \A i \in 1 .. m - 1 : Tail(r)[i] = r[i + 1]
        BY <2>3 DEF m
      <4>2. \A i \in 1 .. m - 1 : i + 1 \in 1 .. m
        BY <3>2
      <4>3. \A i \in 1 .. m - 1 : r[i + 1].pos = s + n + (i + 1)
        BY <3>1, <4>2
      <4>4. \A i \in 1 .. m - 1 : s + n + (i + 1) = s + (n + 1) + i
        BY <3>2
      <4> QED BY <4>1, <4>3, <4>4
    <3>6. k \in registered => s + (n + 1) + (m - 1) = Len(log)
      BY <3>1, <3>2
    <3>7. /\ \A i \in 1 .. Len(ch'[k]) : ch'[k][i].pos = sent[k] + 0 + i
          /\ \A i \in 1 .. Len(rest'[k]) :
               rest'[k][i].pos = sent[k] + 0 + Len(ch'[k]) + i
          /\ k \in registered =>
               sent[k] + 0 + Len(ch'[k]) + Len(rest'[k]) = Len(log)
      BY <2>1, <2>3, <2>4, <3>4, <3>5, <3>6 DEF s, m
    <3> QED BY <1>1, <2>1, <2>6, <3>7 DEF Gapless
  <2> QED BY <1>1, <2>1, <2>5, <2>7 DEF ConnInv, Gapless
<1>5. Len(ch[k]) \in Nat /\ Buffer \in Nat
  BY LenProperties DEF TypeOK, SseAssumption
<1> QED BY <1>2, <1>3, <1>4, <1>5 DEF ReplayOne

(* Taking the next event from the channel, and writing it.                 *)
LEMMA TakeConn ==
  ASSUME TypeOK, NEW k \in Conns, TakeEvent(k), ConnInv(k)
  PROVE  ConnInv(k)'
<1> DEFINE q == ch[k]
           n == Len(q)
           s == sent[k] + 0
<1>1. /\ hpc[k] = "select" /\ hpc'[k] = "write"
      /\ hand'[k] = Head(q) /\ ch'[k] = Tail(q) /\ q # << >>
      /\ UNCHANGED <<log, closed, registered, overtaken, sent, rest, drops>>
  BY DEF TakeEvent, TypeOK, hubVars
<1>2. q \in Seq(Event) /\ sent[k] \in Nat /\ Len(rest[k]) \in Nat
  BY LenProperties DEF TypeOK
<1>3. /\ Head(q) = q[1]
      /\ Len(Tail(q)) = n - 1 /\ n \in Nat \ {0}
      /\ \A i \in 1 .. n - 1 : Tail(q)[i] = q[i + 1]
  BY <1>1, <1>2, HeadAndTail
<1>4. SubInv(k)'
  BY <1>1 DEF ConnInv, SubInv
<1>5. InHand(k) = 0 /\ InHand(k)' = 1
  BY <1>1 DEF InHand
<1>6. ASSUME drops[k] = 0, ~overtaken
      PROVE  Gapless(k)'
  <2> DEFINE r == rest[k]
             m == Len(r)
  <2>1. /\ \A i \in 1 .. n : q[i].pos = s + i
        /\ \A i \in 1 .. m : r[i].pos = s + n + i
        /\ k \in registered => s + n + m = Len(log)
    BY <1>1, <1>5, <1>6 DEF ConnInv, Gapless
  <2>2. s \in Nat /\ n \in Nat \ {0} /\ m \in Nat /\ s = sent[k]
    BY <1>2, <1>3
  <2> HIDE DEF q, n, s, r, m
  <2>3. Head(q).pos = s + 1
    BY <1>3, <2>1, <2>2
  <2>4. \A i \in 1 .. n - 1 : Tail(q)[i].pos = s + 1 + i
    <3>1. \A i \in 1 .. n - 1 : i + 1 \in 1 .. n
      BY <2>2
    <3>2. \A i \in 1 .. n - 1 : q[i + 1].pos = s + (i + 1)
      BY <2>1, <3>1
    <3>3. \A i \in 1 .. n - 1 : s + (i + 1) = s + 1 + i
      BY <2>2
    <3> QED BY <1>3, <3>2, <3>3
  <2>5. /\ \A i \in 1 .. m : r[i].pos = s + 1 + (n - 1) + i
        /\ k \in registered => s + 1 + (n - 1) + m = Len(log)
    <3>1. \A i \in Nat : s + n + i = s + 1 + (n - 1) + i
      BY <2>2
    <3>2. \A i \in 1 .. m : i \in Nat
      BY <2>2
    <3> QED BY <2>1, <2>2, <3>1, <3>2
  <2>6. /\ hand'[k].pos = sent[k] + 1
        /\ \A i \in 1 .. Len(ch'[k]) : ch'[k][i].pos = sent[k] + 1 + i
        /\ \A i \in 1 .. Len(rest[k]) :
             rest[k][i].pos = sent[k] + 1 + Len(ch'[k]) + i
        /\ k \in registered =>
             sent[k] + 1 + Len(ch'[k]) + Len(rest[k]) = Len(log)
    BY <1>1, <1>3, <2>2, <2>3, <2>4, <2>5 DEF r, m
  <2> QED BY <1>1, <1>5, <2>6 DEF Gapless
<1> QED BY <1>1, <1>4, <1>6 DEF ConnInv, Gapless

LEMMA WriteConn ==
  ASSUME TypeOK, NEW k \in Conns, WriteEvent(k), ConnInv(k)
  PROVE  ConnInv(k)'
<1>1. /\ hpc[k] = "write" /\ hpc'[k] = "select"
      /\ sent'[k] = hand[k].pos
      /\ UNCHANGED <<log, closed, registered, overtaken, ch, rest, drops>>
  BY DEF WriteEvent, WriteFrame, TypeOK, hubVars, subVars
<1>2. InHand(k) = 1 /\ InHand(k)' = 0
  BY <1>1 DEF InHand
<1>3. SubInv(k)'
  BY <1>1 DEF ConnInv, SubInv
<1>4. ASSUME drops[k] = 0, ~overtaken
      PROVE  Gapless(k)'
  <2>1. hand[k].pos = sent[k] + 1 /\ sent[k] \in Nat
    BY <1>1, <1>4 DEF ConnInv, Gapless, TypeOK
  <2>2. sent'[k] + InHand(k)' = sent[k] + InHand(k)
    BY <1>1, <1>2, <2>1
  <2>3. /\ \A i \in 1 .. Len(ch[k]) : ch[k][i].pos = sent[k] + InHand(k) + i
        /\ \A i \in 1 .. Len(rest[k]) :
             rest[k][i].pos = sent[k] + InHand(k) + Len(ch[k]) + i
        /\ k \in registered =>
             sent[k] + InHand(k) + Len(ch[k]) + Len(rest[k]) = Len(log)
    BY <1>1, <1>4 DEF ConnInv, Gapless
  <2> QED BY <1>1, <2>2, <2>3 DEF Gapless
<1> QED BY <1>1, <1>3, <1>4 DEF ConnInv, Gapless

(* Every step of a connection keeps its own invariant.                     *)
LEMMA OwnConn ==
  ASSUME SseAssumption, TypeOK, LogInv, NEW k \in Conns, ConnInv(k),
         Handler(k) \/ CtxDone(k) \/ Client(k)
  PROVE  ConnInv(k)'
<1>1. CASE Join(k)
  BY <1>1, JoinConn
<1>2. CASE ReplayOne(k)
  BY <1>2, ReplayConn
<1>3. CASE TakeEvent(k)
  BY <1>3, TakeConn
<1>4. CASE WriteEvent(k)
  BY <1>4, WriteConn
<1>5. CASE Return(k)
  <2>1. hpc'[k] = "done" /\ k \notin registered'
    BY <1>5 DEF Return, TypeOK
  <2> QED BY <2>1 DEF ConnInv, SubInv, Gapless
<1>6. CASE JoinClosed(k)
  <2>1. /\ hpc[k] = "open" /\ closed /\ hpc'[k] = "select"
        /\ UNCHANGED <<log, closed, registered, ch, rest, drops, sent, hand>>
    BY <1>6 DEF JoinClosed, TypeOK, hubVars, subVars, connVars
  <2>2. ch'[k] = << >> /\ rest'[k] = << >> /\ Len(ch'[k]) = 0 /\ Len(rest'[k]) = 0
    BY <2>1, EmptySeq DEF ConnInv, SubInv
  <2>3. k \notin registered'
    BY <2>1 DEF ConnInv, SubInv
  <2> QED BY <2>1, <2>2, <2>3 DEF ConnInv, SubInv, Gapless
<1>7. CASE ReplayDone(k) \/ Tick(k) \/ WritePing(k)
  <2>1. /\ hpc[k] \in {"replay", "select", "ping"}
        /\ hpc'[k] \in {"select", "ping"}
        /\ UNCHANGED <<log, closed, registered, ch, rest, drops, sent,
                       overtaken>>
    BY <1>7 DEF ReplayDone, Tick, WritePing, WriteFrame, TypeOK, hubVars,
                subVars, connVars
  <2>2. InHand(k) = 0 /\ InHand(k)' = 0
    BY <2>1 DEF InHand
  <2> QED BY <2>1, <2>2 DEF ConnInv, SubInv, Gapless
<1>8. CASE Connect(k)
  <2>1. /\ hpc[k] = "new" /\ hpc'[k] = "open"
        /\ UNCHANGED <<registered, ch, rest, drops>>
    BY <1>8 DEF Connect, TypeOK
  <2> QED BY <2>1 DEF ConnInv, SubInv, Gapless
<1>9. CASE Read(k) \/ Break(k) \/ Eof(k)
  <2>1. UNCHANGED <<hpc, hubVars, subVars, hand, sent>>
    BY <1>9 DEF Read, Break, Eof, connVars
  <2> QED BY <2>1, OthersKeep DEF hubVars, subVars
<1> QED BY <1>1, <1>2, <1>3, <1>4, <1>5, <1>6, <1>7, <1>8, <1>9
        DEF Handler, CtxDone, Client, Ended, WriteFails

(* A step of a connection leaves the hub's log, its ring and all that      *)
(* belongs to the other connections alone.                                 *)
LEMMA OwnOnly ==
  ASSUME TypeOK, NEW c \in Conns, Handler(c) \/ CtxDone(c) \/ Client(c)
  PROVE  /\ UNCHANGED <<hubVars, overtaken>>
         /\ \A k \in Conns \ {c} :
              /\ hpc'[k] = hpc[k] /\ ch'[k] = ch[k] /\ rest'[k] = rest[k]
              /\ drops'[k] = drops[k] /\ hand'[k] = hand[k]
              /\ sent'[k] = sent[k]
              /\ k \in registered' => k \in registered
<1> USE DEF TypeOK
<1>1. CASE Join(c)
  BY <1>1 DEF Join, Joined
<1>2. CASE ReplayOne(c)
  BY <1>2 DEF ReplayOne, connVars
<1>3. CASE JoinClosed(c) \/ ReplayDone(c) \/ Tick(c)
  BY <1>3 DEF JoinClosed, ReplayDone, Tick, subVars, connVars
<1>4. CASE TakeEvent(c)
  BY <1>4 DEF TakeEvent
<1>5. CASE Return(c)
  BY <1>5 DEF Return
<1>6. CASE WritePing(c) \/ WriteEvent(c)
  BY <1>6 DEF WritePing, WriteEvent, WriteFrame, subVars
<1>7. CASE Client(c)
  BY <1>7 DEF Client, Connect, Read, Break, Eof, subVars, connVars
<1> QED BY <1>1, <1>2, <1>3, <1>4, <1>5, <1>6, <1>7
        DEF Handler, CtxDone, Ended, WriteFails

-----------------------------------------------------------------------------
(* The theorems.                                                           *)

(* The invariant holds at the start.                                       *)
LEMMA InitInv == SseAssumption /\ Init => IInv
<1> SUFFICES ASSUME SseAssumption, Init PROVE IInv
  OBVIOUS
<1> USE DEF Init
<1>1. Size \in Nat /\ << >> \in Seq(Event) /\ NoEvent \in Event /\ Len(<< >>) = 0
  BY NoEventType, EmptySeq DEF SseAssumption
<1>2. buf \in RingOf(Size, Event) /\ HoldsSuffix(buf, log)
  BY <1>1, NewReplayBufferType, NewHoldsSuffix
<1>3. TypeOK
  <2>1. /\ log \in Seq(Event) /\ rest \in [Conns -> Seq(Event)]
        /\ ch \in [Conns -> Seq(Event)] /\ wire \in [Conns -> Seq(Event)]
        /\ hand \in [Conns -> Event]
    BY <1>1
  <2>2. /\ since \in [Conns -> Nat] /\ drops \in [Conns -> Nat]
        /\ sent \in [Conns -> Nat] /\ warned \in [Conns -> BOOLEAN]
        /\ hpc \in [Conns -> {"new", "open", "replay", "select", "ping",
                             "write", "done"}]
        /\ lastID \in Nat
    BY DEF NoID
  <2>3. /\ restarts \in 0 .. MaxRestarts /\ conn \in Conns \cup {NoConn}
        /\ registered \subseteq Conns /\ gone \subseteq Conns
        /\ excused \subseteq Nat
    BY DEF SseAssumption
  <2>4. /\ closed \in BOOLEAN /\ overtaken \in BOOLEAN /\ stale \in BOOLEAN
        /\ ~closed
    OBVIOUS
  <2> QED BY <1>2, <2>1, <2>2, <2>3, <2>4 DEF TypeOK
<1>4. LogInv
  BY <1>1, <1>2 DEF LogInv
<1>5. \A c \in Conns : ConnInv(c)
  BY DEF ConnInv, SubInv, Gapless
<1> QED BY <1>3, <1>4, <1>5 DEF IInv

(* Every step keeps it.                                                    *)
LEMMA NextInv == SseAssumption /\ IInv /\ [Next]_vars => IInv'
<1> SUFFICES ASSUME SseAssumption, IInv, [Next]_vars PROVE IInv'
  OBVIOUS
<1>1. TypeOK /\ LogInv /\ \A c \in Conns : ConnInv(c)
  BY DEF IInv
<1>2. CASE Publish \/ HubClose \/ Restart
  BY <1>1, <1>2, HubTypes, HubLog, HubConn DEF IInv
<1>3. ASSUME NEW c \in Conns, Handler(c) \/ CtxDone(c) \/ Client(c)
      PROVE  IInv'
  <2>1. TypeOK'
    BY <1>1, <1>3, SubscribeTypes, LoopTypes, ClientTypes
       DEF Handler, CtxDone, Ended, WriteFails
  <2>2. UNCHANGED hubVars
    BY <1>1, <1>3, OwnOnly
  <2>3. LogInv'
    BY <1>1, <2>2 DEF LogInv, hubVars
  <2>4. ASSUME NEW k \in Conns PROVE ConnInv(k)'
    <3>1. CASE k = c
      BY <1>1, <1>3, <3>1, OwnConn
    <3>2. CASE k # c
      <4>1. /\ hpc'[k] = hpc[k] /\ ch'[k] = ch[k] /\ rest'[k] = rest[k]
            /\ drops'[k] = drops[k] /\ hand'[k] = hand[k]
            /\ sent'[k] = sent[k]
            /\ k \in registered' => k \in registered
            /\ UNCHANGED <<log, closed, overtaken>>
        BY <1>1, <1>3, <3>2, OwnOnly DEF hubVars
      <4> QED BY <1>1, <4>1, OthersKeep
    <3> QED BY <3>1, <3>2
  <2> QED BY <2>1, <2>3, <2>4 DEF IInv
<1>4. CASE UNCHANGED vars
  <2>1. UNCHANGED <<hubVars, subVars, hpc, connVars, clientVars>>
    BY <1>4 DEF vars
  <2>2. TypeOK'
    BY <1>1, <2>1 DEF TypeOK, hubVars, subVars, connVars, clientVars
  <2>3. LogInv'
    BY <1>1, <2>1 DEF LogInv, hubVars
  <2>4. \A k \in Conns : ConnInv(k)'
    BY <1>1, <2>1, OthersKeep DEF hubVars, subVars, connVars
  <2> QED BY <2>2, <2>3, <2>4 DEF IInv
<1> QED BY <1>2, <1>3, <1>4 DEF Next, Terminating

(* The inductive invariant holds throughout.                               *)
LEMMA Invariance == Spec => []IInv
<1>1. SseAssumption
  BY SseAssumption
<1> QED BY <1>1, InitInv, NextInv, PTL DEF Spec

(* sse.go, hub.go: the handlers, their subscriptions and the client keep   *)
(* their types, whatever the sizes and however often the process crashes.  *)
THEOREM TypeCorrect == Spec => []TypeOK
<1>1. IInv => TypeOK
  BY DEF IInv
<1> QED BY <1>1, Invariance, PTL

(* sse.go:105: a subscription is registered only while its handler runs:   *)
(* every way out of the handler goes through the deferred cancel.          *)
THEOREM NoLeak == Spec => []NoLeakedSubscription
<1>1. IInv => NoLeakedSubscription
  BY DEF IInv, ConnInv, SubInv, NoLeakedSubscription, Active, TypeOK
<1> QED BY <1>1, Invariance, PTL

(* sse.go:36-39: whatever the buffer, the ring and the crashes, a handler  *)
(* never writes an event other than the next one without calling OnDrop.   *)
THEOREM GapAlwaysReported == Spec => GapIsReported
<1>1. SseAssumption
  BY SseAssumption
<1>2. SseAssumption /\ IInv /\ [Next]_vars =>
        [\A c \in Conns :
           /\ ~overtaken
           /\ hpc[c] = "write" /\ hpc'[c] = "select"
           /\ hand[c].pos > sent[c] + 1
           => warned'[c]]_vars
  <2> SUFFICES ASSUME IInv, Next, NEW c \in Conns, ~overtaken,
                      hpc[c] = "write", hpc'[c] = "select",
                      hand[c].pos > sent[c] + 1
               PROVE  warned'[c]
    OBVIOUS
  <2>1. TypeOK /\ ConnInv(c)
    BY DEF IInv
  <2>2. WriteEvent(c)
    <3>1. ~ (Publish \/ HubClose \/ Restart \/ Terminating)
      BY <2>1 DEF Publish, HubClose, Restart, Terminating, Active, TypeOK
    <3>2. PICK k \in Conns : Handler(k) \/ CtxDone(k) \/ Client(k)
      BY <3>1 DEF Next
    <3>3. k = c
      BY <2>1, <3>2, OwnOnly
    <3> QED BY <2>1, <3>2, <3>3
            DEF Handler, CtxDone, Client, Join, Joined, JoinClosed, ReplayOne,
                ReplayDone, Tick, TakeEvent, Ended, WritePing, WriteFails,
                Return, Connect, Read, Break, Eof, TypeOK
  <2>3. drops[c] # 0
    <3>1. hand[c].pos \in Nat /\ sent[c] \in Nat
      BY <2>1 DEF TypeOK, Event
    <3>2. drops[c] = 0 => hand[c].pos = sent[c] + 1
      BY <2>1 DEF ConnInv, Gapless
    <3> QED BY <3>1, <3>2
  <2>4. drops[c] > 0
    BY <2>1, <2>3 DEF TypeOK
  <2> QED BY <2>1, <2>2, <2>4 DEF WriteEvent, TypeOK
<1> QED BY <1>1, <1>2, Invariance, PTL DEF Spec, GapIsReported

-----------------------------------------------------------------------------
(* What the client has seen and what is on its way to it.                  *)

(* The last event the client has of the present process.                   *)
Seen == IF stale THEN 0 ELSE lastID

(* The numbers in a sequence of frames, where a ping counts as 0.          *)
Pos(s) == {s[i].pos : i \in 1 .. Len(s)}

(* The events among the frames come in order.                              *)
Sorted(s) ==
  \A i, j \in 1 .. Len(s) : i < j => s[j].pos = 0 \/ s[i].pos < s[j].pos

(* Frames are pings or events of a log of n events.                        *)
Numbered(s, n) == \A i \in 1 .. Len(s) : s[i].id = s[i].pos /\ s[i].pos <= n

(* What is on its way to the client of c: on the wire, in the handler's    *)
(* hand, in the channel, still to be replayed.                             *)
Serving(c) == hpc[c] \in {"replay", "select", "ping", "write"}
Wired(c)   == Pos(wire[c]) \ {0}
Held(c)    == IF hpc[c] = "write" THEN {hand[c].pos} ELSE {}
Queued(c)  == IF Serving(c) THEN Pos(ch[c]) ELSE {}
Left(c)    == IF Serving(c) THEN Pos(rest[c]) ELSE {}

(* It comes in this order, after what the client has seen.                 *)
Order(seen, w, h, q, r) ==
  /\ \A x \in w \cup h \cup q \cup r : seen < x
  /\ \A x \in w, y \in h \cup q \cup r : x < y
  /\ \A x \in h, y \in q \cup r : x < y
  /\ \A x \in q, y \in r : x < y

(* An event the client has not seen, ahead of one that is on its way or up *)
(* to n, is on its way too or excused.                                     *)
Cover(seen, ahead, n, lacks) ==
  \A x \in Nat : seen < x /\ (x <= n \/ \E y \in ahead : x < y) =>
    x \in ahead \cup lacks

(* The events a subscription is given, or else misses by a drop.           *)
Reach(c) == IF c \in registered THEN Len(log) ELSE 0

InSight(c) ==
  /\ Sorted(wire[c]) /\ Sorted(ch[c]) /\ Sorted(rest[c])
  /\ Order(Seen, Wired(c), Held(c), Queued(c), Left(c))
  /\ Cover(Seen, Wired(c) \cup Held(c) \cup Queued(c) \cup Left(c), Reach(c), excused)

(* How many events the ring has.                                           *)
Kept == IF Len(log) < Size THEN Len(log) ELSE Size

(* The IDs of the log are its numbers, the ring is as full as it can be,   *)
(* and an ID that is not stale is one of the log.                          *)
NumberInv ==
  /\ \A i \in 1 .. Len(log) : log[i].id = i
  /\ ~closed => Fill(buf) = Kept
  /\ ~stale => lastID <= Len(log)

(* What is on its way is of the log; a connection starts with nothing on   *)
(* the wire and the client's last event ID.                                *)
ItemInv(c) ==
  /\ hpc[c] \in {"new", "open"} => wire[c] = << >>
  /\ conn = c => hpc[c] # "new" /\ (hpc[c] = "open" => since[c] = lastID)
  /\ Numbered(wire[c], Len(log))
  /\ Numbered(ch[c], Len(log)) /\ 0 \notin Pos(ch[c])
  /\ Numbered(rest[c], Len(log)) /\ 0 \notin Pos(rest[c])
  /\ hpc[c] = "write" =>
       hand[c].id = hand[c].pos /\ hand[c].pos <= Len(log) /\ hand[c].pos # 0

(* The client of a connection lacks nothing it is not to lack.             *)
Sight(c) == ItemInv(c) /\ (conn = c /\ ~overtaken => InSight(c))

SightInv == NumberInv /\ \A c \in Conns : Sight(c)

(* Frames and their numbers.                                               *)
LEMMA EmptyPos == Pos(<< >>) = {} /\ Sorted(<< >>) /\ \A n : Numbered(<< >>, n)
<1>1. Len(<< >>) = 0
  BY EmptySeq
<1>2. 1 .. 0 = {}
  OBVIOUS
<1> QED BY <1>1, <1>2 DEF Pos, Sorted, Numbered

(* The numbers are natural.                                                *)
LEMMA PosType == ASSUME NEW s \in Seq(Event) PROVE Pos(s) \subseteq Nat
<1>1. \A i \in 1 .. Len(s) : s[i] \in Event
  BY LenProperties
<1> QED BY <1>1 DEF Pos, Event

(* A frame added at the end.                                               *)
LEMMA PosAppend ==
  ASSUME NEW s \in Seq(Event), NEW e \in Event
  PROVE  /\ Append(s, e) \in Seq(Event)
         /\ Pos(Append(s, e)) = Pos(s) \cup {e.pos}
         /\ Sorted(s) /\ (e.pos = 0 \/ \A x \in Pos(s) : x < e.pos) =>
              Sorted(Append(s, e))
         /\ \A n : Numbered(s, n) /\ e.id = e.pos /\ e.pos <= n =>
              Numbered(Append(s, e), n)
<1> DEFINE m == Len(s)
           t == Append(s, e)
<1>1. /\ t \in Seq(Event) /\ Len(t) = m + 1 /\ t[m + 1] = e /\ m \in Nat
      /\ \A i \in 1 .. m : t[i] = s[i]
  BY AppendProperties, LenProperties
<1> HIDE DEF t, m
<1>2. /\ 1 .. m + 1 = 1 .. m \cup {m + 1}
      /\ \A i, j \in 1 .. m + 1 :
           i < j => i \in 1 .. m /\ (j \in 1 .. m \/ j = m + 1)
  BY <1>1
<1>3. Pos(t) = Pos(s) \cup {e.pos}
  BY <1>1, <1>2 DEF Pos, m
<1>4. ASSUME Sorted(s), e.pos = 0 \/ \A x \in Pos(s) : x < e.pos
      PROVE  Sorted(t)
  <2> SUFFICES ASSUME NEW i \in 1 .. Len(t), NEW j \in 1 .. Len(t), i < j
               PROVE  t[j].pos = 0 \/ t[i].pos < t[j].pos
    BY DEF Sorted
  <2>1. i \in 1 .. m /\ (j \in 1 .. m \/ j = m + 1) /\ t[i] = s[i] /\ s[i].pos \in Pos(s)
    BY <1>1, <1>2 DEF Pos, m
  <2> QED BY <1>1, <1>4, <2>1 DEF Sorted, m
<1>5. ASSUME NEW n, Numbered(s, n), e.id = e.pos, e.pos <= n
      PROVE  Numbered(t, n)
  BY <1>1, <1>2, <1>5 DEF Numbered, m
<1> QED BY <1>1, <1>3, <1>4, <1>5 DEF t

(* The first frame taken away.                                             *)
LEMMA PosTail ==
  ASSUME NEW s \in Seq(Event), s # << >>
  PROVE  /\ Head(s) \in Event /\ Tail(s) \in Seq(Event)
         /\ Pos(s) = {Head(s).pos} \cup Pos(Tail(s))
         /\ Sorted(s) => /\ Sorted(Tail(s))
                         /\ \A x \in Pos(Tail(s)) : x = 0 \/ Head(s).pos < x
         /\ \A n : Numbered(s, n) =>
              /\ Numbered(Tail(s), n)
              /\ Head(s).id = Head(s).pos /\ Head(s).pos <= n
<1> DEFINE m == Len(s)
           t == Tail(s)
<1>1. /\ Head(s) \in Event /\ Head(s) = s[1]
      /\ t \in Seq(Event) /\ Len(t) = m - 1 /\ m \in Nat \ {0}
      /\ \A i \in 1 .. m - 1 : t[i] = s[i + 1]
  BY HeadAndTail
<1> HIDE DEF t, m
<1>2. /\ 1 \in 1 .. m /\ \A i \in 1 .. m - 1 : i + 1 \in 1 .. m /\ 1 < i + 1
      /\ \A i \in 1 .. m : i = 1 \/ (i - 1 \in 1 .. m - 1 /\ (i - 1) + 1 = i)
      /\ \A i, j \in 1 .. m - 1 : i < j => i + 1 < j + 1
  BY <1>1
<1>3. Pos(s) = {Head(s).pos} \cup Pos(t)
  <2>1. ASSUME NEW x \in Pos(s) PROVE x \in {Head(s).pos} \cup Pos(t)
    <3>1. PICK i \in 1 .. m : x = s[i].pos
      BY DEF Pos, m
    <3>2. CASE i = 1
      BY <1>1, <3>1, <3>2
    <3>3. CASE i # 1
      <4>1. t[i - 1] = s[i] /\ i - 1 \in 1 .. Len(t)
        BY <1>1, <1>2, <3>3
      <4> QED BY <3>1, <4>1 DEF Pos
    <3> QED BY <3>2, <3>3
  <2>2. Head(s).pos \in Pos(s)
    BY <1>1, <1>2 DEF Pos, m
  <2>3. Pos(t) \subseteq Pos(s)
    BY <1>1, <1>2 DEF Pos, m
  <2> QED BY <2>1, <2>2, <2>3
<1>4. ASSUME Sorted(s)
      PROVE  Sorted(t) /\ \A x \in Pos(t) : x = 0 \/ Head(s).pos < x
  <2>1. Sorted(t)
    BY <1>1, <1>2, <1>4 DEF Sorted, m
  <2>2. \A i \in 1 .. m - 1 : s[i + 1].pos = 0 \/ s[1].pos < s[i + 1].pos
    BY <1>2, <1>4 DEF Sorted, m
  <2> QED BY <1>1, <2>1, <2>2 DEF Pos
<1>5. ASSUME NEW n, Numbered(s, n)
      PROVE  Numbered(t, n) /\ Head(s).id = Head(s).pos /\ Head(s).pos <= n
  BY <1>1, <1>2, <1>5 DEF Numbered, m
<1> QED BY <1>1, <1>3, <1>4, <1>5 DEF t

(* A replay is what the ring has after the given ID, all of it when the ID *)
(* is not there.                                                           *)
LEMMA ReplayStart ==
  ASSUME SseAssumption, TypeOK, LogInv, NumberInv, ~closed, NEW id \in Nat
  PROVE  \E first \in 0 .. Len(log) :
           /\ Since(buf, id) \in Seq(Event)
           /\ Len(Since(buf, id)) = Len(log) - first
           /\ Pos(Since(buf, id)) = first + 1 .. Len(log)
           /\ Sorted(Since(buf, id)) /\ Numbered(Since(buf, id), Len(log))
           /\ first = IF id \in Len(log) - Kept + 1 .. Len(log) THEN id
                      ELSE Len(log) - Kept
<1> DEFINE s == Since(buf, id)
           n == Len(log)
           f == Fill(buf)
<1>1. /\ Size \in Nat /\ buf \in RingOf(Size, Event)
      /\ log \in Seq(Event) /\ HoldsSuffix(buf, log) /\ n \in Nat
      /\ \A i \in 1 .. n : log[i].pos = i /\ log[i].id = i
      /\ f = Kept
  BY LenProperties DEF SseAssumption, TypeOK, LogInv, NumberInv
<1>2. /\ f \in 0 .. n
      /\ Snapshot(buf) = SubSeq(log, n - f + 1, n)
  <2>1. f \in 0 .. Size /\ f <= n
    BY <1>1, SnapshotSlots DEF HoldsSuffix
  <2>2. Snapshot(buf) = SubSeq(log, n - f + 1, n)
    BY <1>1, SnapshotOfSuffix
  <2> QED BY <1>1, <2>1, <2>2
<1>3. PICK k \in 0 .. f :
        /\ s \in Seq(Event) /\ Len(s) = f - k
        /\ \A i \in 1 .. f - k : s[i] = Snapshot(buf)[k + i]
        /\ k > 0 => Snapshot(buf)[k].id = id
        /\ (id # NoID /\ k = 0) =>
             \A j \in 1 .. f : Snapshot(buf)[j].id # id
  <2> HIDE DEF s, f
  <2> QED BY <1>1, SinceIsSuffix DEF s, f
<1> DEFINE first == n - f + k
<1> HIDE DEF s, n, f
<1>4. \A j \in 1 .. f : Snapshot(buf)[j].pos = n - f + j /\ Snapshot(buf)[j].id = n - f + j
  <2> TAKE j \in 1 .. f
  <2>1. /\ n - f + 1 \in 1 .. n + 1 /\ n - f + j \in 1 .. n
        /\ n - f + 1 + j - 1 = n - f + j /\ j \in 1 .. n - (n - f + 1) + 1
    BY <1>1, <1>2
  <2>2. Snapshot(buf)[j] = log[n - f + j]
    BY <1>1, <1>2, <2>1, SubSeqProperties DEF n
  <2> QED BY <1>1, <2>1, <2>2 DEF n
<1>5. first \in 0 .. n /\ Len(s) = n - first /\ \A i \in 1 .. Len(s) : first + i \in first + 1 .. n
  <2>1. n \in Nat /\ f \in 0 .. n /\ k \in 0 .. f /\ Len(s) = f - k
    BY <1>1, <1>2, <1>3
  <2> DEFINE l == Len(s)
  <2> HIDE DEF l
  <2>2. first \in 0 .. n /\ f - k = n - first
    BY <2>1
  <2>3. \A i \in 1 .. f - k : first + i \in first + 1 .. n
    BY <2>1
  <2> QED BY <2>1, <2>2, <2>3
<1>6. \A i \in 1 .. Len(s) : s[i].pos = first + i /\ s[i].id = first + i
  <2> TAKE i \in 1 .. Len(s)
  <2>1. i \in 1 .. f - k /\ k + i \in 1 .. f /\ n - f + (k + i) = first + i
    BY <1>1, <1>2, <1>3
  <2> HIDE DEF first
  <2> QED BY <1>3, <1>4, <2>1
<1>7. first = IF id \in n - f + 1 .. n THEN id ELSE n - f
  <2>1. k > 0 => id = n - f + k
    BY <1>3, <1>4
  <2>2. id \in n - f + 1 .. n => id - (n - f) \in 1 .. f /\ n - f + (id - (n - f)) = id
    BY <1>1, <1>2
  <2>3. id \in n - f + 1 .. n => k > 0
    <3> SUFFICES ASSUME id \in n - f + 1 .. n, k = 0 PROVE FALSE
      BY <1>2, <1>3
    <3>1. id # NoID
      BY <1>1, <1>2 DEF NoID
    <3>2. PICK j \in 1 .. f : n - f + j = id
      BY <2>2
    <3>3. Snapshot(buf)[j].id = id
      BY <1>4, <3>2
    <3> QED BY <1>3, <3>1, <3>2, <3>3
  <2> QED BY <1>1, <1>2, <2>1, <2>3
<1> HIDE DEF first
<1>8. Pos(s) = first + 1 .. n
  <2>1. \A x \in first + 1 .. n : x - first \in 1 .. Len(s) /\ first + (x - first) = x
    BY <1>1, <1>5
  <2> QED BY <1>5, <1>6, <2>1 DEF Pos
<1>9. Sorted(s) /\ Numbered(s, n)
  <2>1. \A i, j \in 1 .. Len(s) : i < j => first + i < first + j
    BY <1>1, <1>5
  <2>2. \A i \in 1 .. Len(s) : first + i <= n
    BY <1>1, <1>5
  <2> QED BY <1>6, <2>1, <2>2 DEF Sorted, Numbered
<1> QED BY <1>1, <1>3, <1>5, <1>7, <1>8, <1>9 DEF s, n, f

(* What the parts of InSight and ItemInv are about.                        *)
LEMMA SightTypes ==
  ASSUME TypeOK, NEW k \in Conns
  PROVE  /\ wire[k] \in Seq(Event) /\ ch[k] \in Seq(Event) /\ rest[k] \in Seq(Event)
         /\ Pos(wire[k]) \subseteq Nat /\ Pos(ch[k]) \subseteq Nat
         /\ Pos(rest[k]) \subseteq Nat
         /\ hand[k] \in Event /\ hand[k].pos \in Nat
         /\ log \in Seq(Event) /\ Len(log) \in Nat /\ Seen \in Nat
         /\ Reach(k) \in Nat
         /\ Wired(k) \subseteq Nat /\ Held(k) \subseteq Nat
         /\ Queued(k) \subseteq Nat /\ Left(k) \subseteq Nat
<1>1. /\ wire[k] \in Seq(Event) /\ ch[k] \in Seq(Event) /\ rest[k] \in Seq(Event)
      /\ hand[k] \in Event /\ log \in Seq(Event) /\ Len(log) \in Nat
      /\ lastID \in Nat
  BY LenProperties DEF TypeOK
<1>2. hand[k].pos \in Nat
  BY <1>1 DEF Event
<1>3. /\ Pos(wire[k]) \subseteq Nat /\ Pos(ch[k]) \subseteq Nat
      /\ Pos(rest[k]) \subseteq Nat
  BY <1>1, PosType
<1> QED BY <1>1, <1>2, <1>3 DEF Seen, Reach, Wired, Held, Queued, Left

(* Frames of a log are frames of a longer one.                             *)
LEMMA NumberedOfPos ==
  ASSUME NEW s \in Seq(Event), NEW n \in Nat, Numbered(s, n)
  PROVE  Numbered(s, n + 1) /\ \A x \in Pos(s) : x <= n
<1>1. \A i \in 1 .. Len(s) : s[i] \in Event
  BY LenProperties
<1>2. \A e \in Event : e.pos \in Nat
  BY DEF Event
<1>3. \A i \in 1 .. Len(s) : s[i].pos \in Nat /\ s[i].pos <= n
  BY <1>1, <1>2 DEF Numbered
<1>4. \A x \in Nat : x <= n => x <= n + 1
  OBVIOUS
<1>5. Numbered(s, n + 1)
  BY <1>3, <1>4 DEF Numbered
<1> QED BY <1>3, <1>5 DEF Pos

(* What does not change for k, or is taken from its subscription, leaves   *)
(* the client's sight as it was.                                           *)
LEMMA SightKept ==
  ASSUME TypeOK, NEW k \in Conns, Sight(k),
         hpc'[k] = hpc[k], ch'[k] = ch[k], rest'[k] = rest[k],
         hand'[k] = hand[k], wire'[k] = wire[k], since'[k] = since[k],
         log' = log, overtaken' = overtaken, k \in registered' => k \in registered,
         conn' = k => /\ conn = k /\ lastID' = lastID /\ stale' = stale
                      /\ excused' = excused
  PROVE  Sight(k)'
<1>1. ItemInv(k)'
  BY DEF Sight, ItemInv
<1>2. ASSUME conn' = k, ~overtaken' PROVE InSight(k)'
  <2>1. InSight(k) /\ Seen' = Seen /\ excused' = excused
    BY <1>2 DEF Sight, Seen
  <2>2. /\ Wired(k)' = Wired(k) /\ Held(k)' = Held(k)
        /\ Queued(k)' = Queued(k) /\ Left(k)' = Left(k)
        /\ Reach(k)' \in {0, Reach(k)}
    BY DEF Wired, Held, Queued, Left, Serving, Reach
  <2>3. Seen \in Nat /\ Reach(k) \in Nat
    BY SightTypes
  <2> DEFINE a == Wired(k) \cup Held(k) \cup Queued(k) \cup Left(k)
  <2>4. Cover(Seen, a, Reach(k)', excused)
    <3>1. Cover(Seen, a, Reach(k), excused)
      BY <2>1 DEF InSight
    <3> HIDE DEF a
    <3> QED BY <2>2, <2>3, <3>1 DEF Cover
  <2> QED BY <2>1, <2>2, <2>4 DEF InSight
<1> QED BY <1>1, <1>2 DEF Sight

(* A new event goes to the end of what is on its way, or is excused.       *)
LEMMA PublishSight ==
  ASSUME SseAssumption, TypeOK, NumberInv, Publish, NEW k \in Conns,
         SubInv(k), Sight(k)
  PROVE  Sight(k)'
<1> DEFINE n == Len(log)
           ev == [pos |-> n + 1, id |-> n + 1]
           full == {c \in registered : Len(ch[c]) >= Buffer}
<1>1. /\ log' = Append(log, ev)
      /\ ch' = [c \in Conns |-> IF c \in registered \ full
                                THEN Append(ch[c], ev) ELSE ch[c]]
      /\ excused' = IF conn \in full THEN excused \cup {ev.pos} ELSE excused
      /\ overtaken' = (overtaken \/ \E c \in registered : rest[c] # << >>)
      /\ UNCHANGED <<closed, registered, rest, hpc, since, hand, wire, conn,
                     lastID, stale>>
  BY DEF Publish, connVars, clientVars
<1>2. n \in Nat /\ ev \in Event /\ ev.pos = n + 1 /\ ev.id = n + 1
  BY SightTypes DEF Event
<1>3. Len(log') = n + 1
  <2> HIDE DEF ev
  <2> QED BY <1>1, <1>2, SightTypes, AppendProperties
<1> HIDE DEF ev, n
<1>4. /\ Numbered(wire[k], n) /\ Numbered(ch[k], n) /\ Numbered(rest[k], n)
      /\ 0 \notin Pos(ch[k]) /\ 0 \notin Pos(rest[k])
      /\ hpc[k] = "write" => hand[k].pos <= n /\ hand[k].pos \in Nat
  BY SightTypes DEF Sight, ItemInv, n
<1>5. /\ Numbered(wire[k], n + 1) /\ Numbered(ch[k], n + 1) /\ Numbered(rest[k], n + 1)
      /\ \A x \in Pos(wire[k]) \cup Pos(ch[k]) \cup Pos(rest[k]) : x <= n
      /\ hpc[k] = "write" => hand[k].pos <= n + 1
  BY <1>2, <1>4, SightTypes, NumberedOfPos
<1>6. /\ ch'[k] = IF k \in registered \ full THEN Append(ch[k], ev) ELSE ch[k]
      /\ Pos(Append(ch[k], ev)) = Pos(ch[k]) \cup {n + 1}
      /\ Numbered(Append(ch[k], ev), n + 1)
      /\ Sorted(ch[k]) => Sorted(Append(ch[k], ev))
  <2>1. \A x \in Pos(ch[k]) : x < ev.pos
    <3>1. Pos(ch[k]) \subseteq Nat /\ \A x \in Pos(ch[k]) : x <= n
      BY <1>5, SightTypes
    <3>2. \A x \in Nat : x <= n => x < n + 1
      BY <1>2
    <3> QED BY <1>2, <3>1, <3>2
  <2>2. n + 1 <= n + 1
    BY <1>2
  <2>3. ch[k] \in Seq(Event)
    BY SightTypes
  <2> HIDE DEF full
  <2> QED BY <1>1, <1>2, <1>5, <2>1, <2>2, <2>3, PosAppend
<1> HIDE DEF full
<1>7. ItemInv(k)'
  <2>1. 0 \notin Pos(ch'[k]) /\ Numbered(ch'[k], n + 1)
    BY <1>2, <1>4, <1>5, <1>6
  <2> QED BY <1>1, <1>3, <1>4, <1>5, <2>1 DEF Sight, ItemInv
<1>8. ASSUME conn = k, ~overtaken' PROVE InSight(k)'
  <2>1. /\ ~overtaken /\ InSight(k) /\ Seen' = Seen
        /\ k \in registered => rest[k] = << >> /\ Pos(rest[k]) = {}
    BY <1>1, <1>8, EmptyPos DEF Sight, Seen
  <2>2. Sorted(wire'[k]) /\ Sorted(ch'[k]) /\ Sorted(rest'[k])
    BY <1>1, <1>6, <2>1 DEF InSight
  <2>3. /\ Wired(k)' = Wired(k) /\ Held(k)' = Held(k) /\ Left(k)' = Left(k)
        /\ Serving(k)' <=> Serving(k)
    BY <1>1 DEF Wired, Held, Left, Serving
  <2>4. k \in registered => Serving(k)
    BY DEF SubInv, Serving
  <2>5. Seen <= n /\ Seen \in Nat
    BY <1>2, SightTypes DEF NumberInv, Seen, n
  <2> DEFINE w == Wired(k)
             h == Held(k)
             q == Queued(k)
             r == Left(k)
  <2>6. /\ w \subseteq Nat /\ h \subseteq Nat /\ q \subseteq Nat /\ r \subseteq Nat
        /\ \A x \in w \cup h \cup q \cup r : x <= n
    BY <1>4, <1>5, SightTypes DEF Wired, Held, Queued, Left
  <2>7. /\ Order(Seen, w, h, q, r)
        /\ Cover(Seen, w \cup h \cup q \cup r, Reach(k), excused)
    BY <2>1 DEF InSight
  <2>8. CASE k \notin registered
    <3>1. Queued(k)' = q /\ Reach(k)' = Reach(k) /\ excused' = excused
      BY <1>1, <1>6, <1>8, <2>3, <2>8 DEF Queued, Reach, Serving, full
    <3> QED BY <2>1, <2>2, <2>3, <2>7, <3>1 DEF InSight
  <2>9. CASE k \in registered
    <3>1. Reach(k) = n /\ Reach(k)' = n + 1 /\ r = {}
      BY <1>1, <1>3, <2>1, <2>9 DEF Reach, Left, n
    <3>2. CASE k \in full
      <4>1. Queued(k)' = q /\ excused' = excused \cup {n + 1}
        BY <1>1, <1>2, <1>6, <1>8, <2>3, <3>2 DEF Queued, Serving
      <4>2. Cover(Seen, w \cup h \cup q \cup r, n + 1, excused \cup {n + 1})
        <5> HIDE DEF w, h, q, r
        <5> QED BY <1>2, <2>5, <2>6, <2>7, <3>1 DEF Cover
      <4> QED BY <2>1, <2>2, <2>3, <2>7, <3>1, <4>1, <4>2 DEF InSight
    <3>3. CASE k \notin full
      <4>1. Queued(k)' = q \cup {n + 1} /\ excused' = excused
        BY <1>1, <1>2, <1>6, <1>8, <2>3, <2>4, <2>9, <3>3 DEF Queued, Serving
      <4>2. Order(Seen, w, h, q \cup {n + 1}, r)
        <5> HIDE DEF w, h, q, r
        <5> QED BY <1>2, <2>5, <2>6, <2>7, <3>1 DEF Order
      <4>3. Cover(Seen, w \cup h \cup (q \cup {n + 1}) \cup r, n + 1, excused)
        <5> HIDE DEF w, h, q, r
        <5> QED BY <1>2, <2>5, <2>6, <2>7, <3>1 DEF Cover
      <4> QED BY <2>1, <2>2, <2>3, <3>1, <4>1, <4>2, <4>3 DEF InSight
    <3> QED BY <3>2, <3>3
  <2> QED BY <2>8, <2>9
<1> QED BY <1>1, <1>7, <1>8 DEF Sight

(* The steps of the hub: closing takes nothing away, a crash breaks the    *)
(* connection.                                                             *)
LEMMA HubSight ==
  ASSUME SseAssumption, TypeOK, NumberInv, Publish \/ HubClose \/ Restart,
         NEW k \in Conns, SubInv(k), Sight(k)
  PROVE  Sight(k)'
<1>1. CASE Publish
  BY <1>1, PublishSight
<1>2. CASE HubClose
  <2>1. registered' = {} /\ UNCHANGED <<hpc, ch, rest, hand, wire, since, log, overtaken,
                                        conn, lastID, stale, excused>>
    BY <1>2 DEF HubClose, connVars, clientVars
  <2> QED BY <2>1, SightKept
<1>3. CASE Restart
  <2>1. /\ hpc'[k] \in {"new", "done"} /\ conn' # k
        /\ wire'[k] = << >> /\ ch'[k] = << >> /\ rest'[k] = << >>
    BY <1>3 DEF Restart, Active, TypeOK, Conns, NoConn
  <2> QED BY <2>1, EmptyPos DEF Sight, ItemInv
<1> QED BY <1>1, <1>2, <1>3

(* A handler that ends delivers what is on the wire, and nothing else.     *)
LEMMA SightOfEnd ==
  ASSUME TypeOK, NEW k \in Conns, InSight(k), hpc'[k] = "done",
         wire'[k] = wire[k], Seen' = Seen, excused' = excused, k \notin registered',
         ch'[k] \in {<< >>, ch[k]}, rest'[k] = rest[k]
  PROVE  InSight(k)'
<1> DEFINE w == Wired(k)
           h == Held(k)
           q == Queued(k)
           r == Left(k)
<1>1. /\ Order(Seen, w, h, q, r)
      /\ Cover(Seen, w \cup h \cup q \cup r, Reach(k), excused)
      /\ w \subseteq Nat /\ h \subseteq Nat /\ q \subseteq Nat /\ r \subseteq Nat
      /\ Seen \in Nat /\ Reach(k) \in Nat
  BY SightTypes DEF InSight
<1>2. /\ Sorted(wire'[k]) /\ Sorted(ch'[k]) /\ Sorted(rest'[k])
  BY EmptyPos DEF InSight
<1>3. /\ Wired(k)' = w /\ Held(k)' = {} /\ Queued(k)' = {} /\ Left(k)' = {}
      /\ Reach(k)' = 0
  BY DEF Wired, Held, Queued, Left, Serving, Reach
<1> HIDE DEF w, h, q, r
<1>4. Order(Seen, w, {}, {}, {}) /\ Cover(Seen, w, 0, excused)
  BY <1>1 DEF Order, Cover
<1>5. w \cup {} \cup {} \cup {} = w
  OBVIOUS
<1> QED BY <1>2, <1>3, <1>4, <1>5 DEF InSight

(* A handler that returns.                                                 *)
LEMMA ReturnSight ==
  ASSUME TypeOK, NEW k \in Conns, Return(k), Sight(k), hpc[k] # "new"
  PROVE  Sight(k)'
<1>1. /\ hpc'[k] = "done" /\ k \notin registered' /\ ch'[k] = << >>
      /\ UNCHANGED <<log, rest, excused, overtaken, wire, conn, lastID, stale>>
  BY DEF Return, TypeOK, hubVars, clientVars
<1>2. ItemInv(k)'
  BY <1>1, EmptyPos DEF Sight, ItemInv
<1>3. ASSUME conn' = k, ~overtaken' PROVE InSight(k)'
  BY <1>1, <1>3, SightOfEnd DEF Sight, Seen
<1> QED BY <1>2, <1>3 DEF Sight

(* Subscribing puts what the ring has after the client's ID on its way.    *)
LEMMA JoinSight ==
  ASSUME SseAssumption, TypeOK, LogInv, NumberInv, NEW k \in Conns, Join(k),
         SubInv(k), Sight(k)
  PROVE  Sight(k)'
<1> DEFINE replay == Since(buf, since[k])
           n == Len(log)
<1>1. Joined(k, replay) /\ ~closed
  BY DEF Join, Joined
<1>2. since[k] \in Nat /\ n \in Nat
  BY SightTypes DEF TypeOK
<1>3. PICK first \in 0 .. n :
        /\ Pos(replay) = first + 1 .. n
        /\ Sorted(replay) /\ Numbered(replay, n)
        /\ first = IF since[k] \in n - Kept + 1 .. n THEN since[k] ELSE n - Kept
  BY <1>1, <1>2, ReplayStart
<1> HIDE DEF replay
<1>4. /\ hpc[k] = "open" /\ hpc'[k] = "replay" /\ rest'[k] = replay
      /\ wire[k] = << >> /\ ch[k] = << >>
      /\ registered' = registered \cup {k}
      /\ UNCHANGED <<log, ch, wire, overtaken, conn, lastID, stale>>
  BY <1>1 DEF Joined, TypeOK, hubVars, clientVars, Sight, ItemInv, SubInv
<1>5. 0 \notin Pos(replay) /\ 0 \notin {}
  BY <1>2, <1>3
<1>6. ItemInv(k)'
  BY <1>3, <1>4, <1>5, EmptyPos DEF Sight, ItemInv
<1>7. ASSUME conn' = k PROVE InSight(k)'
  <2>1. /\ Wired(k)' = {} /\ Held(k)' = {} /\ Queued(k)' = {}
        /\ Left(k)' = first + 1 .. n /\ Reach(k)' = n /\ Seen' = Seen
    BY <1>3, <1>4, EmptyPos DEF Wired, Held, Queued, Left, Serving, Reach, Seen
  <2>2. since[k] = lastID /\ lastID \in Nat
    BY <1>4, <1>7 DEF Sight, ItemInv, TypeOK
  <2>3. /\ Size \in Nat \ {0} /\ Kept \in 0 .. n /\ Kept <= Size
        /\ Kept = n \/ Kept = Size
    BY <1>2 DEF SseAssumption, Kept
  <2>4. Seen <= first /\ Seen \in Nat
    BY <1>2, <1>3, <2>2, <2>3 DEF Seen, NumberInv
  <2>5. \A x \in Nat : Seen < x /\ x <= first => x \in excused'
    <3> DEFINE ringed == n - Size + 1 .. n
               hidden == IF stale /\ since[k] \in ringed THEN 1 .. since[k] ELSE {}
    <3>1. excused' = (DOMAIN log \ ringed) \cup hidden
      BY <1>1, <1>4, <1>7 DEF Joined
    <3>2. DOMAIN log = 1 .. n
      BY SightTypes, LenProperties
    <3> SUFFICES ASSUME NEW x \in Nat, Seen < x, x <= first
                 PROVE  x \in (1 .. n \ ringed) \cup hidden
      BY <3>1, <3>2
    <3>3. x \in 1 .. n
      BY <1>2, <1>3, <2>4
    <3>4. CASE since[k] \in n - Kept + 1 .. n
      <4>1. first = since[k] /\ stale
        BY <1>3, <2>2, <2>4, <3>4 DEF Seen
      <4>2. since[k] \in ringed
        BY <1>2, <2>2, <2>3, <3>4
      <4> QED BY <1>2, <3>3, <4>1, <4>2
    <3>5. CASE since[k] \notin n - Kept + 1 .. n
      BY <1>2, <1>3, <2>3, <3>3, <3>5
    <3> QED BY <3>4, <3>5
  <2>6. Order(Seen, {}, {}, {}, first + 1 .. n)
    BY <1>2, <2>4 DEF Order
  <2>7. Cover(Seen, {} \cup {} \cup {} \cup (first + 1 .. n), n, excused')
    <3>1. \A x \in Nat : x <= n \/ (\E y \in first + 1 .. n : x < y) =>
            x <= first \/ x \in first + 1 .. n
      BY <1>2
    <3> QED BY <2>5, <3>1 DEF Cover
  <2>8. Sorted(wire'[k]) /\ Sorted(ch'[k]) /\ Sorted(rest'[k])
    BY <1>3, <1>4, EmptyPos
  <2> QED BY <2>1, <2>6, <2>7, <2>8 DEF InSight
<1> QED BY <1>6, <1>7 DEF Sight

(* A turn of the replay loop puts the next event in the channel or drops   *)
(* it.                                                                     *)
LEMMA ReplaySight ==
  ASSUME TypeOK, NEW k \in Conns, ReplayOne(k), SubInv(k), Sight(k)
  PROVE  Sight(k)'
<1> DEFINE e == Head(rest[k])
           n == Len(log)
<1>1. /\ hpc[k] = "replay" /\ rest[k] # << >>
      /\ UNCHANGED <<log, registered, wire, overtaken, conn, lastID, stale>>
  BY DEF ReplayOne, hubVars, connVars, clientVars
<1>2. /\ e \in Event /\ Tail(rest[k]) \in Seq(Event) /\ e.pos \in Nat
      /\ Pos(rest[k]) = {e.pos} \cup Pos(Tail(rest[k]))
      /\ Numbered(Tail(rest[k]), n) /\ e.id = e.pos /\ e.pos <= n
      /\ 0 \notin Pos(Tail(rest[k])) /\ e.pos # 0
  <2>1. rest[k] \in Seq(Event) /\ Numbered(rest[k], n) /\ 0 \notin Pos(rest[k])
    BY SightTypes DEF Sight, ItemInv
  <2>2. \A x \in Event : x.pos \in Nat
    BY DEF Event
  <2> QED BY <1>1, <2>1, <2>2, PosTail
<1> DEFINE w == Wired(k)
           q == Queued(k)
           r == Left(k)
           t == Pos(Tail(rest[k]))
           d == e.pos
<1>3. ASSUME InSight(k)
      PROVE  /\ Sorted(wire[k]) /\ Sorted(ch[k]) /\ Sorted(Tail(rest[k]))
             /\ q = Pos(ch[k]) /\ r = {d} \cup t /\ d \notin t
             /\ \A x \in t : d < x
             /\ Order(Seen, w, {}, q, r)
             /\ Cover(Seen, w \cup {} \cup q \cup r, Reach(k), excused)
  <2>1. Sorted(rest[k]) /\ rest[k] \in Seq(Event)
    BY <1>3, SightTypes DEF InSight
  <2>2. Sorted(Tail(rest[k])) /\ \A x \in t : d < x
    BY <1>1, <1>2, <2>1, PosTail
  <2>3. d \notin t
    BY <1>2, <2>2
  <2> QED BY <1>1, <1>2, <1>3, <2>2, <2>3 DEF InSight, Held, Queued, Left, Serving
<1>4. CASE closed /\ hpc' = [hpc EXCEPT ![k] = "done"] /\ UNCHANGED <<rest, ch, excused>>
  <2>1. /\ hpc'[k] = "done" /\ UNCHANGED <<rest, ch, excused>> /\ k \notin registered
    BY <1>1, <1>4 DEF TypeOK, SubInv
  <2>2. ItemInv(k)'
    BY <1>1, <2>1 DEF Sight, ItemInv
  <2>3. ASSUME conn' = k, ~overtaken' PROVE InSight(k)'
    BY <1>1, <2>1, <2>3, SightOfEnd DEF Sight, Seen
  <2> QED BY <2>2, <2>3 DEF Sight
<1>5. CASE /\ hpc' = hpc /\ rest' = [rest EXCEPT ![k] = Tail(@)] /\ ch' = ch
           /\ excused' = IF conn = k THEN excused \cup {d} ELSE excused
  <2>1. /\ hpc' = hpc /\ rest'[k] = Tail(rest[k])
        /\ conn = k => excused' = excused \cup {d}
    BY <1>1, <1>5 DEF TypeOK
  <2>2. ItemInv(k)'
    BY <1>1, <1>2, <1>5, <2>1 DEF Sight, ItemInv
  <2>3. ASSUME conn' = k, ~overtaken' PROVE InSight(k)'
    <3>1. InSight(k) /\ Seen' = Seen /\ excused' = excused \cup {d}
      BY <1>1, <2>1, <2>3 DEF Sight, Seen
    <3>2. /\ Wired(k)' = w /\ Held(k)' = {} /\ Queued(k)' = q /\ Left(k)' = t
          /\ Reach(k)' = Reach(k)
      BY <1>1, <1>5, <2>1 DEF Wired, Held, Queued, Left, Serving, Reach
    <3>3. /\ Order(Seen, w, {}, q, t)
          /\ Cover(Seen, w \cup {} \cup q \cup t, Reach(k), excused \cup {d})
      <4>1. /\ r = {d} \cup t /\ Order(Seen, w, {}, q, r)
            /\ Cover(Seen, w \cup {} \cup q \cup r, Reach(k), excused)
        BY <1>3, <3>1
      <4> HIDE DEF w, q, r, t, d
      <4> QED BY <4>1 DEF Order, Cover
    <3> QED BY <1>1, <1>3, <1>5, <2>1, <3>1, <3>2, <3>3 DEF InSight
  <2> QED BY <2>2, <2>3 DEF Sight
<1>6. CASE /\ hpc' = hpc /\ rest' = [rest EXCEPT ![k] = Tail(@)]
           /\ ch' = [ch EXCEPT ![k] = Append(@, e)] /\ excused' = excused
  <2>1. /\ hpc' = hpc /\ rest'[k] = Tail(rest[k]) /\ ch'[k] = Append(ch[k], e)
    BY <1>1, <1>6 DEF TypeOK
  <2>2. /\ Pos(ch'[k]) = Pos(ch[k]) \cup {d} /\ Numbered(ch'[k], n)
        /\ Sorted(ch[k]) /\ (\A x \in Pos(ch[k]) : x < d) => Sorted(ch'[k])
    <3>1. ch[k] \in Seq(Event) /\ Numbered(ch[k], n)
      BY SightTypes DEF Sight, ItemInv
    <3> HIDE DEF e
    <3> QED BY <1>2, <2>1, <3>1, PosAppend
  <2>3. ItemInv(k)'
    BY <1>1, <1>2, <2>1, <2>2 DEF Sight, ItemInv
  <2>4. ASSUME conn' = k, ~overtaken' PROVE InSight(k)'
    <3>1. InSight(k) /\ Seen' = Seen
      BY <1>1, <2>4 DEF Sight, Seen
    <3>2. /\ Wired(k)' = w /\ Held(k)' = {} /\ Queued(k)' = q \cup {d}
          /\ Left(k)' = t /\ Reach(k)' = Reach(k)
      BY <1>1, <2>1, <2>2 DEF Wired, Held, Queued, Left, Serving, Reach
    <3>3. /\ Order(Seen, w, {}, q \cup {d}, t)
          /\ Cover(Seen, w \cup {} \cup (q \cup {d}) \cup t, Reach(k), excused)
          /\ \A x \in q : x < d
      <4>1. /\ r = {d} \cup t /\ Order(Seen, w, {}, q, r) /\ \A x \in t : d < x
            /\ Cover(Seen, w \cup {} \cup q \cup r, Reach(k), excused)
        BY <1>3, <3>1
      <4> HIDE DEF w, q, r, t, d
      <4>2. w \cup {} \cup (q \cup {d}) \cup t = w \cup {} \cup q \cup r
        BY <4>1
      <4> QED BY <4>1, <4>2 DEF Order
    <3>4. Sorted(wire'[k]) /\ Sorted(ch'[k]) /\ Sorted(rest'[k])
      BY <1>1, <1>3, <2>1, <2>2, <3>1, <3>3
    <3> QED BY <1>6, <3>1, <3>2, <3>3, <3>4 DEF InSight
  <2> QED BY <2>3, <2>4 DEF Sight
<1> QED BY <1>4, <1>5, <1>6 DEF ReplayOne

(* The event the handler takes from the channel is in its hand.            *)
LEMMA TakeSight ==
  ASSUME TypeOK, NEW k \in Conns, TakeEvent(k), Sight(k)
  PROVE  Sight(k)'
<1> DEFINE e == Head(ch[k])
           n == Len(log)
           q == Queued(k)
           t == Pos(Tail(ch[k]))
           d == e.pos
<1>1. /\ hpc[k] = "select" /\ hpc'[k] = "write" /\ ch[k] # << >>
      /\ hand'[k] = e /\ ch'[k] = Tail(ch[k])
      /\ UNCHANGED <<log, registered, rest, wire, overtaken, excused, conn, lastID, stale>>
  BY DEF TakeEvent, TypeOK, hubVars, clientVars
<1>2. /\ Pos(ch[k]) = {d} \cup t /\ Numbered(Tail(ch[k]), n)
      /\ e.id = d /\ d <= n /\ 0 \notin t /\ d # 0
      /\ Sorted(ch[k]) => Sorted(Tail(ch[k])) /\ \A x \in t : x = 0 \/ d < x
  <2>1. ch[k] \in Seq(Event) /\ Numbered(ch[k], n) /\ 0 \notin Pos(ch[k])
    BY SightTypes DEF Sight, ItemInv
  <2> QED BY <1>1, <2>1, PosTail
<1>3. ItemInv(k)'
  BY <1>1, <1>2 DEF Sight, ItemInv
<1>4. ASSUME conn' = k, ~overtaken' PROVE InSight(k)'
  <2>1. InSight(k) /\ Seen' = Seen
    BY <1>1, <1>4 DEF Sight, Seen
  <2>2. /\ Wired(k)' = Wired(k) /\ Held(k) = {} /\ Held(k)' = {d}
        /\ q = {d} \cup t /\ Queued(k)' = t
        /\ Left(k)' = Left(k) /\ Reach(k)' = Reach(k)
    BY <1>1, <1>2 DEF Wired, Held, Queued, Left, Serving, Reach
  <2> DEFINE w == Wired(k)
             r == Left(k)
  <2>3. /\ Order(Seen, w, {}, q, r)
        /\ Cover(Seen, w \cup {} \cup q \cup r, Reach(k), excused)
        /\ \A x \in t : d < x
    BY <1>2, <2>1, <2>2 DEF InSight
  <2>4. /\ Order(Seen, w, {d}, t, r)
        /\ Cover(Seen, w \cup {d} \cup t \cup r, Reach(k), excused)
    <3> HIDE DEF w, q, r, t, d
    <3>1. w \cup {} \cup q \cup r = w \cup {d} \cup t \cup r
      BY <2>2
    <3> QED BY <2>2, <2>3, <3>1 DEF Order
  <2>5. Sorted(wire'[k]) /\ Sorted(ch'[k]) /\ Sorted(rest'[k])
    BY <1>1, <1>2, <2>1 DEF InSight
  <2> QED BY <1>1, <2>1, <2>2, <2>4, <2>5 DEF InSight
<1> QED BY <1>3, <1>4 DEF Sight

(* A frame goes from the handler to the wire; a ping is not an event.      *)
LEMMA WriteSight ==
  ASSUME TypeOK, NEW k \in Conns, WriteEvent(k) \/ WritePing(k), Sight(k)
  PROVE  Sight(k)'
<1> DEFINE frame == IF hpc[k] = "write" THEN hand[k] ELSE Ping
           n == Len(log)
           d == frame.pos
           w == Wired(k)
           h == Held(k)
           q == Queued(k)
           r == Left(k)
<1>1. /\ hpc[k] \in {"ping", "write"} /\ hpc'[k] = "select"
      /\ wire'[k] = Append(wire[k], frame)
      /\ UNCHANGED <<log, registered, ch, rest, overtaken, excused, conn, lastID, stale>>
  BY DEF WriteEvent, WritePing, WriteFrame, TypeOK, hubVars, subVars, clientVars
<1>2. /\ frame \in Event /\ frame.id = d /\ d <= n /\ d \in Nat
      /\ h \ {0} = {d} \ {0} /\ h = IF d = 0 THEN {} ELSE {d}
  <2>1. hand[k] \in Event /\ n \in Nat /\ Ping \in Event /\ Ping.pos = 0 /\ Ping.id = 0
    BY SightTypes, NoEventType DEF Ping, NoEvent, NoID
  <2>2. hpc[k] = "write" => hand[k].id = hand[k].pos /\ hand[k].pos <= n /\ hand[k].pos # 0
    BY DEF Sight, ItemInv
  <2>3. hand[k].pos \in Nat
    BY SightTypes
  <2>4. CASE hpc[k] = "write"
    <3>1. frame = hand[k] /\ h = {hand[k].pos}
      BY <2>4 DEF Held
    <3> HIDE DEF frame, h
    <3> QED BY <2>1, <2>2, <2>3, <2>4, <3>1
  <2>5. CASE hpc[k] # "write"
    <3>1. frame = Ping /\ h = {}
      BY <2>5 DEF Held
    <3> HIDE DEF frame, h
    <3> QED BY <2>1, <3>1
  <2> QED BY <2>4, <2>5
<1> HIDE DEF frame
<1>3. /\ Pos(wire'[k]) = Pos(wire[k]) \cup {d} /\ Numbered(wire'[k], n)
      /\ Sorted(wire[k]) /\ (d = 0 \/ \A x \in Pos(wire[k]) : x < d) => Sorted(wire'[k])
  <2>1. wire[k] \in Seq(Event) /\ Numbered(wire[k], n)
    BY SightTypes DEF Sight, ItemInv
  <2> QED BY <1>1, <1>2, <2>1, PosAppend
<1>4. ItemInv(k)'
  BY <1>1, <1>3 DEF Sight, ItemInv
<1>5. ASSUME conn' = k, ~overtaken' PROVE InSight(k)'
  <2>1. InSight(k) /\ Seen' = Seen
    BY <1>1, <1>5 DEF Sight, Seen
  <2>2. /\ Wired(k)' = w \cup h /\ Held(k)' = {} /\ Queued(k)' = q
        /\ Left(k)' = r /\ Reach(k)' = Reach(k)
    <3>1. Wired(k)' = w \cup h
      BY <1>2, <1>3 DEF Wired
    <3> QED BY <1>1, <3>1 DEF Held, Queued, Left, Serving, Reach
  <2>3. /\ Order(Seen, w, h, q, r)
        /\ Cover(Seen, w \cup h \cup q \cup r, Reach(k), excused)
    BY <2>1 DEF InSight
  <2>4. /\ Order(Seen, w \cup h, {}, q, r)
        /\ Cover(Seen, (w \cup h) \cup {} \cup q \cup r, Reach(k), excused)
    <3> HIDE DEF w, h, q, r
    <3>1. (w \cup h) \cup {} \cup q \cup r = w \cup h \cup q \cup r
      OBVIOUS
    <3> QED BY <2>3, <3>1 DEF Order
  <2>5. Sorted(wire'[k])
    <3>1. d # 0 => \A x \in w : x < d
      <4> HIDE DEF w, h, q, r, d
      <4> QED BY <1>2, <2>3 DEF Order
    <3>2. d # 0 => \A x \in Pos(wire[k]) : x < d
      <4>1. \A x \in Pos(wire[k]) : x = 0 \/ x \in w
        BY DEF Wired
      <4> HIDE DEF w, d
      <4> QED BY <1>2, <3>1, <4>1
    <3> QED BY <1>3, <2>1, <3>2 DEF InSight
  <2> QED BY <1>1, <2>1, <2>2, <2>4, <2>5 DEF InSight
<1> QED BY <1>4, <1>5 DEF Sight

(* What the client reads is the next event on its way.                     *)
LEMMA ReadSight ==
  ASSUME TypeOK, NumberInv, NEW k \in Conns, Read(k), Sight(k)
  PROVE  Sight(k)' /\ NumberInv'
<1> DEFINE e == Head(wire[k])
           n == Len(log)
           d == e.pos
           t == Pos(Tail(wire[k]))
           w == Wired(k)
           h == Held(k)
           q == Queued(k)
           r == Left(k)
<1>1. /\ conn = k /\ wire[k] # << >> /\ wire'[k] = Tail(wire[k])
      /\ IF e = Ping THEN UNCHANGED <<lastID, stale>> ELSE lastID' = e.id /\ stale' = FALSE
      /\ UNCHANGED <<log, buf, closed, registered, hpc, ch, rest, hand, overtaken, excused,
                     conn>>
  BY DEF Read, TypeOK, hubVars, subVars
<1>2. /\ e \in Event /\ Pos(wire[k]) = {d} \cup t /\ Numbered(Tail(wire[k]), n)
      /\ e.id = d /\ d <= n
      /\ Sorted(wire[k]) => Sorted(Tail(wire[k])) /\ \A x \in t : x = 0 \/ d < x
  <2>1. wire[k] \in Seq(Event) /\ Numbered(wire[k], n)
    BY SightTypes DEF Sight, ItemInv
  <2> QED BY <1>1, <2>1, PosTail
<1>3. d \in Nat /\ (e = Ping <=> d = 0)
  <2>1. \A x \in Event : x.pos \in Nat /\ x = [pos |-> x.pos, id |-> x.id]
    BY DEF Event
  <2> HIDE DEF e
  <2> QED BY <1>2, <2>1 DEF Ping, NoEvent, NoID
<1> HIDE DEF e
<1>4. hpc[k] \notin {"new", "open"}
  BY <1>1 DEF Sight, ItemInv
<1>5. ItemInv(k)'
  BY <1>1, <1>2, <1>4 DEF Sight, ItemInv
<1>6. NumberInv'
  BY <1>1, <1>2 DEF NumberInv, Kept
<1>7. ASSUME ~overtaken' PROVE InSight(k)'
  <2>1. InSight(k)
    BY <1>1, <1>7 DEF Sight
  <2>2. /\ Held(k)' = h /\ Queued(k)' = q /\ Left(k)' = r /\ Reach(k)' = Reach(k)
        /\ Wired(k)' = t \ {0} /\ w = ({d} \cup t) \ {0}
    BY <1>1, <1>2 DEF Wired, Held, Queued, Left, Serving, Reach
  <2>3. /\ Order(Seen, w, h, q, r)
        /\ Cover(Seen, w \cup h \cup q \cup r, Reach(k), excused)
        /\ \A x \in t : x = 0 \/ d < x
    BY <1>2, <2>1 DEF InSight
  <2>4. Sorted(wire'[k]) /\ Sorted(ch'[k]) /\ Sorted(rest'[k])
    BY <1>1, <1>2, <2>1 DEF InSight
  <2>5. CASE d = 0
    <3>1. Seen' = Seen /\ Wired(k)' = w
      BY <1>1, <1>3, <2>2, <2>5 DEF Seen
    <3> QED BY <1>1, <2>2, <2>3, <2>4, <3>1 DEF InSight
  <2>6. CASE d # 0
    <3>1. Seen' = d
      BY <1>1, <1>2, <1>3, <2>6 DEF Seen
    <3> DEFINE v == t \ {0}
    <3>2. /\ w = {d} \cup v /\ Seen \in Nat /\ \A x \in v : d < x
      BY <2>2, <2>3, <2>6, SightTypes
    <3>3. /\ w \subseteq Nat /\ h \subseteq Nat /\ q \subseteq Nat /\ r \subseteq Nat
          /\ Reach(k) \in Nat
      BY SightTypes
    <3>4. /\ Order(d, v, h, q, r)
          /\ Cover(d, v \cup h \cup q \cup r, Reach(k), excused)
      <4> HIDE DEF w, h, q, r, v, d
      <4>1. Order(d, v, h, q, r)
        BY <2>3, <3>2 DEF Order
      <4>2. Seen < d
        BY <2>3, <3>2 DEF Order
      <4>3. ASSUME NEW x \in Nat, d < x,
                   x <= Reach(k) \/ \E y \in v \cup h \cup q \cup r : x < y
            PROVE  x \in v \cup h \cup q \cup r \cup excused
        <5>1. Seen < x /\ x # d
          BY <1>3, <3>2, <4>2, <4>3
        <5>2. x \in (w \cup h \cup q \cup r) \cup excused
          BY <2>3, <3>2, <4>3, <5>1 DEF Cover
        <5> QED BY <3>2, <5>1, <5>2
      <4> QED BY <4>1, <4>3 DEF Cover
    <3> QED BY <1>1, <2>2, <2>4, <3>1, <3>4 DEF InSight
  <2> QED BY <2>5, <2>6
<1> QED BY <1>5, <1>6, <1>7 DEF Sight

(* A step of a connection leaves what belongs to the others alone.         *)
LEMMA SightOfOthers ==
  ASSUME TypeOK, NEW c \in Conns, Handler(c) \/ CtxDone(c) \/ Client(c),
         NEW k \in Conns \ {c}, Sight(k)
  PROVE  Sight(k)'
<1>1. /\ UNCHANGED <<log, overtaken>>
      /\ hpc'[k] = hpc[k] /\ ch'[k] = ch[k] /\ rest'[k] = rest[k]
      /\ hand'[k] = hand[k]
      /\ k \in registered' => k \in registered
  BY OwnOnly DEF hubVars
<1>2. /\ wire'[k] = wire[k] /\ since'[k] = since[k]
      /\ conn' = k => /\ conn = k /\ lastID' = lastID /\ stale' = stale
                      /\ excused' = excused
  <2> USE DEF TypeOK
  <2>1. CASE Join(c)
    BY <2>1 DEF Join, Joined, clientVars
  <2>2. CASE ReplayOne(c)
    BY <2>2 DEF ReplayOne, connVars, clientVars
  <2>3. CASE JoinClosed(c) \/ ReplayDone(c) \/ Tick(c)
    BY <2>3 DEF JoinClosed, ReplayDone, Tick, subVars, connVars, clientVars
  <2>4. CASE TakeEvent(c)
    BY <2>4 DEF TakeEvent, clientVars
  <2>5. CASE Return(c)
    BY <2>5 DEF Return, clientVars
  <2>6. CASE WritePing(c) \/ WriteEvent(c)
    BY <2>6 DEF WritePing, WriteEvent, WriteFrame, subVars, clientVars
  <2>7. CASE Connect(c)
    BY <2>7 DEF Connect, connVars
  <2>8. CASE Read(c) \/ Break(c) \/ Eof(c)
    <3>1. conn' # k
      BY <2>8 DEF Read, Break, Eof, Conns, NoConn
    <3>2. since' = since
      BY <2>8 DEF Read, Break, Eof, subVars
    <3>3. wire'[k] = wire[k]
      BY <2>8 DEF Read, Break, Eof, connVars
    <3> QED BY <3>1, <3>2, <3>3
  <2> HIDE DEF TypeOK
  <2>9. \/ Join(c) \/ JoinClosed(c) \/ ReplayOne(c) \/ ReplayDone(c) \/ Tick(c)
        \/ TakeEvent(c) \/ Return(c) \/ WritePing(c) \/ WriteEvent(c)
        \/ Connect(c) \/ Read(c) \/ Break(c) \/ Eof(c)
    BY DEF Handler, CtxDone, Client, Ended, WriteFails
  <2> QED BY <2>1, <2>2, <2>3, <2>4, <2>5, <2>6, <2>7, <2>8, <2>9
<1>3. k \in Conns
  OBVIOUS
<1> QED BY <1>1, <1>2, <1>3, SightKept

(* Every step of a connection keeps its own part.                          *)
LEMMA OwnSight ==
  ASSUME SseAssumption, TypeOK, LogInv, NumberInv, NEW k \in Conns, SubInv(k), Sight(k),
         Handler(k) \/ CtxDone(k) \/ Client(k)
  PROVE  Sight(k)'
<1>1. CASE Join(k)
  BY <1>1, JoinSight
<1>2. CASE ReplayOne(k)
  BY <1>2, ReplaySight
<1>3. CASE TakeEvent(k)
  BY <1>3, TakeSight
<1>4. CASE WriteEvent(k) \/ WritePing(k)
  BY <1>4, WriteSight
<1>5. CASE Ended(k) \/ WriteFails(k) \/ CtxDone(k)
  BY <1>5, ReturnSight DEF Ended, WriteFails, CtxDone
<1>6. CASE JoinClosed(k)
  <2>1. /\ hpc[k] = "open" /\ closed /\ hpc'[k] = "select"
        /\ UNCHANGED <<log, registered, ch, rest, hand, wire, overtaken, conn>>
    BY <1>6 DEF JoinClosed, TypeOK, hubVars, subVars, connVars, clientVars
  <2>2. /\ wire'[k] = << >> /\ ch'[k] = << >> /\ rest'[k] = << >>
        /\ k \notin registered'
    BY <2>1 DEF SubInv, Sight, ItemInv
  <2>3. ItemInv(k)'
    BY <2>1, <2>2, EmptyPos DEF Sight, ItemInv
  <2>4. /\ Wired(k)' = {} /\ Held(k)' = {} /\ Queued(k)' = {} /\ Left(k)' = {}
        /\ Reach(k)' = 0
    BY <2>1, <2>2, EmptyPos DEF Wired, Held, Queued, Left, Reach
  <2>5. UNCHANGED Seen
    BY <1>6 DEF JoinClosed, clientVars, Seen
  <2>6. InSight(k)'
    <3>1. Order(Seen, {}, {}, {}, {}) /\ Cover(Seen, {} \cup {} \cup {} \cup {}, 0, excused')
      BY SightTypes DEF Order, Cover
    <3> QED BY <2>2, <2>4, <2>5, <3>1, EmptyPos DEF InSight
  <2> QED BY <2>3, <2>6 DEF Sight
<1>7. CASE ReplayDone(k) \/ Tick(k)
  <2>1. /\ hpc[k] \in {"replay", "select"} /\ hpc'[k] \in {"select", "ping"}
        /\ UNCHANGED <<log, registered, ch, rest, hand, wire, overtaken, excused, conn,
                       lastID, stale>>
    BY <1>7 DEF ReplayDone, Tick, TypeOK, hubVars, subVars, connVars, clientVars
  <2>2. ItemInv(k)'
    BY <2>1 DEF Sight, ItemInv
  <2>3. /\ Wired(k)' = Wired(k) /\ Held(k)' = Held(k) /\ Queued(k)' = Queued(k)
        /\ Left(k)' = Left(k) /\ Reach(k)' = Reach(k) /\ Seen' = Seen
    BY <2>1 DEF Wired, Held, Queued, Left, Serving, Reach, Seen
  <2>4. ASSUME InSight(k) PROVE InSight(k)'
    BY <2>1, <2>3, <2>4 DEF InSight
  <2> QED BY <2>1, <2>2, <2>4 DEF Sight
<1>8. CASE Connect(k)
  <2>1. /\ hpc[k] = "new" /\ hpc'[k] = "open" /\ since'[k] = lastID
        /\ UNCHANGED <<log, registered, ch, rest, wire, overtaken, lastID, stale>>
    BY <1>8 DEF Connect, TypeOK, hubVars, connVars
  <2>2. /\ wire'[k] = << >> /\ ch'[k] = << >> /\ rest'[k] = << >>
        /\ k \notin registered'
    BY <2>1 DEF SubInv, Sight, ItemInv
  <2>3. ItemInv(k)'
    BY <2>1, <2>2, EmptyPos DEF Sight, ItemInv
  <2>4. /\ Wired(k)' = {} /\ Held(k)' = {} /\ Queued(k)' = {} /\ Left(k)' = {}
        /\ Reach(k)' = 0 /\ Seen' = Seen
    BY <2>1, <2>2, EmptyPos DEF Wired, Held, Queued, Left, Serving, Reach, Seen
  <2>5. InSight(k)'
    <3>1. Order(Seen, {}, {}, {}, {}) /\ Cover(Seen, {} \cup {} \cup {} \cup {}, 0, excused')
      BY SightTypes DEF Order, Cover
    <3> QED BY <2>2, <2>4, <3>1, EmptyPos DEF InSight
  <2> QED BY <2>3, <2>5 DEF Sight
<1>9. CASE Read(k)
  BY <1>9, ReadSight
<1>10. CASE Break(k)
  <2>1. /\ conn = k /\ conn' # k /\ wire'[k] = << >>
        /\ UNCHANGED <<log, hpc, ch, rest, hand>>
    BY <1>10 DEF Break, TypeOK, hubVars, subVars, Conns, NoConn
  <2> QED BY <2>1, EmptyPos DEF Sight, ItemInv
<1>11. CASE Eof(k)
  <2>1. conn' # k /\ UNCHANGED <<log, hpc, ch, rest, hand, wire>>
    BY <1>11 DEF Eof, hubVars, subVars, connVars, Conns, NoConn
  <2> QED BY <2>1 DEF Sight, ItemInv
<1> QED BY <1>1, <1>2, <1>3, <1>4, <1>5, <1>6, <1>7, <1>8, <1>9, <1>10, <1>11
        DEF Handler, Client

(* The numbers of the log, the ring and the client's ID keep step.         *)
LEMMA NumberKept ==
  ASSUME SseAssumption, TypeOK, LogInv, NumberInv,
         \A k \in Conns : Sight(k), Next
  PROVE  NumberInv'
<1>1. CASE Publish
  <2> DEFINE n == Len(log)
             ev == [pos |-> n + 1, id |-> n + 1]
  <2>1. /\ ~closed /\ closed' = closed /\ log' = Append(log, ev) /\ buf' = Push(buf, ev)
        /\ UNCHANGED <<lastID, stale>>
    BY <1>1 DEF Publish, clientVars
  <2>2. /\ log \in Seq(Event) /\ n \in Nat /\ ev \in Event /\ ev.id = n + 1
        /\ Size \in Nat \ {0} /\ buf \in RingOf(Size, Event) /\ HoldsSuffix(buf, log)
        /\ lastID \in Nat
    BY <2>1, SightTypes DEF Event, TypeOK, SseAssumption, LogInv
  <2> HIDE DEF ev
  <2>3. Fill(buf') = IF Fill(buf) < Size THEN Fill(buf) + 1 ELSE Size
    BY <2>1, <2>2, PushHoldsSuffix
  <2>4. /\ Len(log') = n + 1 /\ log'[n + 1] = ev /\ \A i \in 1 .. n : log'[i] = log[i]
    BY <2>1, <2>2, AppendProperties
  <2>5. Fill(buf) = Kept /\ Kept = IF n < Size THEN n ELSE Size
    BY <2>1 DEF NumberInv, Kept
  <2>6. Kept' = IF n + 1 < Size THEN n + 1 ELSE Size
    BY <2>4 DEF Kept
  <2>7. ~stale => lastID <= n
    BY DEF NumberInv
  <2>8. \A i \in 1 .. n : log[i].id = i
    BY DEF NumberInv
  <2> HIDE DEF n
  <2>9. Fill(buf') = Kept'
    BY <2>2, <2>3, <2>5, <2>6
  <2>10. \A i \in 1 .. n + 1 : log'[i].id = i
    BY <2>2, <2>4, <2>8
  <2>11. ~stale => lastID <= n + 1
    BY <2>2, <2>7
  <2> QED BY <2>1, <2>4, <2>9, <2>10, <2>11 DEF NumberInv
<1>2. CASE HubClose
  BY <1>2 DEF HubClose, NumberInv, clientVars
<1>3. CASE Restart
  <2>1. /\ log' = << >> /\ buf' = NewReplayBuffer(Size) /\ lastID' = lastID
        /\ stale' = (lastID # NoID)
    BY <1>3 DEF Restart
  <2>2. Len(log') = 0 /\ Fill(buf') = 0
    BY <2>1, EmptySeq DEF Fill, NewReplayBuffer
  <2>3. Kept' = 0
    BY <2>2 DEF Kept, SseAssumption
  <2>4. 1 .. Len(log') = {}
    BY <2>2
  <2>5. ~stale' => lastID' = 0
    BY <2>1 DEF NoID
  <2> HIDE DEF Kept
  <2> QED BY <2>2, <2>3, <2>4, <2>5 DEF NumberInv
<1>4. ASSUME NEW c \in Conns, Read(c) PROVE NumberInv'
  BY <1>4, ReadSight
<1>5. ASSUME NEW c \in Conns, Handler(c) \/ CtxDone(c) \/ Client(c), ~Read(c)
      PROVE  NumberInv'
  <2>1. UNCHANGED <<log, buf, closed, lastID, stale>>
    BY <1>5 DEF Handler, CtxDone, Client, Join, Joined, JoinClosed, ReplayOne, ReplayDone,
                Tick, TakeEvent, Ended, WritePing, WriteEvent, WriteFails, WriteFrame,
                Return, Connect, Break, Eof, hubVars, clientVars
  <2> QED BY <2>1 DEF NumberInv, Kept
<1>6. CASE Terminating
  BY <1>6 DEF Terminating, vars, hubVars, clientVars, NumberInv, Kept
<1> QED BY <1>1, <1>2, <1>3, <1>4, <1>5, <1>6 DEF Next

(* It holds throughout.                                                    *)
LEMMA SightInvariant == Spec => []SightInv
<1>1. SseAssumption
  BY SseAssumption
<1>2. ASSUME Init PROVE SightInv
  <2>1. Len(log) = 0 /\ Fill(buf) = 0 /\ lastID = 0 /\ Kept = 0
    BY <1>1, <1>2, EmptySeq
       DEF Init, Fill, NewReplayBuffer, NoID, Kept, SseAssumption
  <2>2. NumberInv
    BY <2>1 DEF NumberInv
  <2>3. ASSUME NEW k \in Conns PROVE Sight(k)
    <3>1. hpc[k] = "new" /\ wire[k] = << >> /\ ch[k] = << >> /\ rest[k] = << >> /\ conn # k
      BY <1>2 DEF Init, Conns, NoConn
    <3> QED BY <3>1, EmptyPos DEF Sight, ItemInv
  <2> QED BY <2>2, <2>3 DEF SightInv
<1>3. ASSUME IInv, SightInv, [Next]_vars PROVE SightInv'
  <2>1. /\ TypeOK /\ LogInv /\ NumberInv
        /\ \A k \in Conns : SubInv(k) /\ Sight(k)
    BY <1>3 DEF IInv, ConnInv, SightInv
  <2>2. CASE UNCHANGED vars
    <3>1. NumberInv'
      BY <2>1, <2>2 DEF vars, hubVars, clientVars, NumberInv, Kept
    <3>2. \A k \in Conns : Sight(k)'
      BY <2>1, <2>2, SightKept DEF vars, hubVars, subVars, connVars, clientVars
    <3> QED BY <3>1, <3>2 DEF SightInv
  <2>3. ASSUME Publish \/ HubClose \/ Restart, Next PROVE SightInv'
    BY <1>1, <2>1, <2>3, HubSight, NumberKept DEF SightInv
  <2>4. ASSUME NEW c \in Conns, Handler(c) \/ CtxDone(c) \/ Client(c), Next
        PROVE  SightInv'
    <3>1. ASSUME NEW k \in Conns PROVE Sight(k)'
      <4>1. CASE k = c
        BY <1>1, <2>1, <2>4, <4>1, OwnSight
      <4>2. CASE k # c
        BY <2>1, <2>4, <4>2, SightOfOthers
      <4> QED BY <4>1, <4>2
    <3> QED BY <1>1, <2>1, <2>4, <3>1, NumberKept DEF SightInv
  <2> QED BY <1>3, <2>2, <2>3, <2>4 DEF Next, Terminating
<1> QED BY <1>1, <1>2, <1>3, Invariance, PTL DEF Spec

(* sse.go:69-71, hub_replay.go:5-7: however often connections break, and   *)
(* the process crashes, with every size of ring, channel and socket, a     *)
(* client that resumes sees events in order, none twice, and misses none   *)
(* but those dropped for its present subscription, gone from the ring when *)
(* that began, or hidden by an ID of a process that crashed.               *)
THEOREM NothingMissed == Spec => ResumeWithoutGap
<1>1. ASSUME TypeOK, SightInv, NEW c \in Conns, ReadsEvent(c), ~overtaken
      PROVE  LET seen == IF stale THEN 0 ELSE lastID
                 next == Head(wire[c]).pos
             IN  seen < next /\ seen + 1 .. next - 1 \subseteq excused
  <2> DEFINE e == Head(wire[c])
             d == e.pos
             t == Pos(Tail(wire[c]))
             a == Wired(c) \cup Held(c) \cup Queued(c) \cup Left(c)
  <2>1. /\ wire[c] \in Seq(Event) /\ wire[c] # << >> /\ e # Ping
        /\ ItemInv(c) /\ InSight(c)
    BY <1>1, SightTypes DEF ReadsEvent, SightInv, Sight
  <2>2. /\ e \in Event /\ Pos(wire[c]) = {d} \cup t /\ e.id = d
        /\ \A x \in t : x = 0 \/ d < x
    BY <2>1, PosTail DEF ItemInv, InSight
  <2>3. d \in Nat \ {0}
    <3>1. \A x \in Event : x.pos \in Nat /\ x = [pos |-> x.pos, id |-> x.id]
      BY DEF Event
    <3> HIDE DEF e
    <3> QED BY <2>1, <2>2, <3>1 DEF Ping, NoEvent, NoID
  <2>4. d \in Wired(c) /\ \A x \in Wired(c) : x = d \/ d < x
    BY <2>2, <2>3 DEF Wired
  <2> HIDE DEF d
  <2>5. /\ \A x \in a : Seen < x /\ (x = d \/ d < x)
        /\ Cover(Seen, a, Reach(c), excused) /\ Seen \in Nat /\ d \in a
    BY <1>1, <2>1, <2>4, SightTypes DEF InSight, Order
  <2>6. ASSUME NEW x \in Seen + 1 .. d - 1 PROVE x \in excused
    <3>1. x \in Nat /\ Seen < x /\ x < d /\ x # d /\ ~ (d < x)
      BY <2>3, <2>5
    <3>2. x \in a \cup excused
      BY <2>5, <3>1 DEF Cover
    <3> HIDE DEF a
    <3> QED BY <2>5, <3>1, <3>2
  <2> QED BY <2>5, <2>6 DEF Seen, d
<1>2. IInv => TypeOK
  BY DEF IInv
<1>3. IInv /\ SightInv =>
        [\A c \in Conns : ReadsEvent(c) /\ ~overtaken =>
           LET seen == IF stale THEN 0 ELSE lastID
               next == Head(wire[c]).pos
           IN  seen < next /\ seen + 1 .. next - 1 \subseteq excused]_vars
  BY <1>1, <1>2
<1> QED BY <1>3, Invariance, SightInvariant, PTL DEF Spec, ResumeWithoutGap
=============================================================================
