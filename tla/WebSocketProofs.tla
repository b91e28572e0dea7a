--------------------------- MODULE WebSocketProofs ----------------------------
(***************************************************************************)
(* A WebSocket connection for every setting of its timers and buffers: the *)
(* stream of a client that answers pings in time is never cut, and a done  *)
(* context is not kept waiting for the read deadline.                      *)
(***************************************************************************)
EXTENDS WebSocket, SequenceTheorems, TLAPS

LEMMA TypeInit == WebSocketAssumption /\ Init => TypeOK
<1> SUFFICES ASSUME WebSocketAssumption, Init PROVE TypeOK
  OBVIOUS
<1>1. Flags /\ Places /\ ~registered
  BY DEF Init, Flags, Places
<1>2. Counters
  BY DEF Init, Counters, WebSocketAssumption
<1>3. Frames
  <2>1. wire \in Seq({"event", "ping"}) /\ Len(wire) = 0
    BY EmptySeq DEF Init
  <2> QED BY <2>1 DEF Frames, WebSocketAssumption
<1> QED BY <1>1, <1>2, <1>3 DEF TypeOK

LEMMA DownType ==
  ASSUME NEW n \in Nat, NEW k \in 0 .. n
  PROVE  Down(k) \in 0 .. n /\ (k > 0 => Down(k) = k - 1)
BY DEF Down

(* What the steps do to flags, ...                                         *)
LEMMA FlagsStep ==
  ASSUME Flags, [Next]_vars
  PROVE  Flags'
<1> USE DEF hubVars, timers, clientVars, Flags
<1>1. CASE Return
  BY <1>1 DEF Return
<1>2. CASE Upgrade \/ Start \/ CtxDone
  <2>1. UNCHANGED <<closed, fired, owed, pong, poisoned, refused>>
    BY <1>2 DEF Upgrade, Start, CtxDone
  <2>2. registered' \in BOOLEAN /\ ctxDone' \in BOOLEAN /\ wsClosed' \in BOOLEAN
    BY <1>2 DEF Upgrade, Start, CtxDone
  <2> QED BY <2>1, <2>2
<1>3. CASE TakeEvent \/ Ping \/ Write
  <2>1. UNCHANGED <<closed, registered, ctxDone, wsClosed, owed, pong, refused>>
    BY <1>3 DEF TakeEvent, Ping, Write
  <2>2. fired' \in BOOLEAN
    BY <1>3 DEF TakeEvent, Ping, Write
  <2>3. poisoned' \in BOOLEAN
    BY <1>3 DEF TakeEvent, Ping, Write
  <2> QED BY <2>1, <2>2, <2>3
<1>4. CASE Reader \/ Read
  <2>1. UNCHANGED <<closed, registered, ctxDone, wsClosed, fired, poisoned, refused>>
    BY <1>4 DEF Reader, ReadPong, ReadFails, Read
  <2>2. owed' \in BOOLEAN /\ pong' \in BOOLEAN
    BY <1>4 DEF Reader, ReadPong, ReadFails, Read
  <2> QED BY <2>1, <2>2
<1>5. CASE Publish \/ HubClose \/ CtxEnds
  <2>1. UNCHANGED <<wsClosed, fired, owed, pong, poisoned, refused>>
    BY <1>5 DEF Publish, HubClose, CtxEnds
  <2>2. closed' \in BOOLEAN /\ registered' \in BOOLEAN /\ ctxDone' \in BOOLEAN
    BY <1>5 DEF Publish, HubClose, CtxEnds
  <2> QED BY <2>1, <2>2
<1>6. CASE Leave \/ Answer \/ SendTooMuch
  <2>1. UNCHANGED <<closed, registered, ctxDone, wsClosed, fired, poisoned>>
    BY <1>6 DEF Leave, Answer, SendTooMuch
  <2>2. owed' \in BOOLEAN /\ pong' \in BOOLEAN /\ refused' \in BOOLEAN
    BY <1>6 DEF Leave, Answer, SendTooMuch
  <2> QED BY <2>1, <2>2
<1>7. CASE Tick
  <2>1. UNCHANGED <<closed, registered, ctxDone, wsClosed, owed, pong, poisoned,
                    refused>>
    BY <1>7 DEF Tick
  <2>2. fired' \in BOOLEAN
    BY <1>7 DEF Tick
  <2> QED BY <2>1, <2>2
<1>8. CASE UNCHANGED vars
  BY <1>8 DEF vars
<1> QED BY <1>1, <1>2, <1>3, <1>4, <1>5, <1>6, <1>7, <1>8
    DEF Next, Handler, World, ClientGone, JoinReader, Ended, WriteFails,
        CannotEncode, Finished

(* ... to places, ...                                                      *)
LEMMA PlacesStep ==
  ASSUME Places, [Next]_vars
  PROVE  Places'
BY DEF Places, Writing, Next, Handler, Upgrade, Start, ClientGone, CtxDone,
       JoinReader, TakeEvent, Ended, Ping, Write, WriteFails, CannotEncode, Return,
       Reader, ReadPong, ReadFails, Read, World, Publish, HubClose, CtxEnds,
       Leave, SendTooMuch, Answer, Tick,
       Finished, hubVars, timers, clientVars, vars

(* ... to the registration, ...                                            *)
LEMMA RegisteredStep ==
  ASSUME Places, registered => hpc \notin {"new", "upgraded", "done"}, [Next]_vars
  PROVE  registered' => hpc' \notin {"new", "upgraded", "done"}
<1> USE DEF hubVars, timers, clientVars, Places
<1>1. CASE Return \/ HubClose
  BY <1>1 DEF Return, HubClose
<1>2. CASE Upgrade
  BY <1>2 DEF Upgrade
<1>3. CASE Start \/ CtxDone \/ TakeEvent \/ Ping \/ Write
  <2>1. hpc' \in {"select", "join", "event", "poison", "ping"}
    BY <1>3 DEF Start, CtxDone, TakeEvent, Ping, Write
  <2> QED BY <2>1
<1>4. CASE Reader \/ Read \/ Publish \/ CtxEnds \/ Leave \/ Answer
           \/ SendTooMuch \/ Tick \/ UNCHANGED vars
  <2>1. UNCHANGED <<registered, hpc>>
    BY <1>4 DEF Reader, ReadPong, ReadFails, Read, Publish, CtxEnds, Leave,
                Answer, SendTooMuch, Tick, vars
  <2> QED BY <2>1
<1> QED BY <1>1, <1>2, <1>3, <1>4
    DEF Next, Handler, World, ClientGone, JoinReader, Ended, WriteFails,
        CannotEncode, Finished

(* ... to counters and timers, ...                                         *)
LEMMA CountersStep ==
  ASSUME WebSocketAssumption, Counters, [Next]_vars
  PROVE  Counters'
<1> USE DEF hubVars, timers, clientVars, Counters, WebSocketAssumption
<1>1. CASE Return
  BY <1>1 DEF Return
<1>2. CASE Upgrade \/ Start \/ CtxDone
  BY <1>2 DEF Upgrade, Start, CtxDone
<1>3. CASE TakeEvent
  BY <1>3 DEF TakeEvent
<1>4. CASE Ping \/ Write
  BY <1>4 DEF Ping, Write
<1>5. CASE Reader
  BY <1>5 DEF Reader, ReadPong, ReadFails
<1>6. CASE Read
  <2>1. due' \in {due, Patience}
    BY <1>6 DEF Read
  <2> QED BY <1>6, <2>1 DEF Read
<1>7. CASE Publish
  <2>1. queued' \in {queued, queued + 1} /\ (queued' = queued + 1 => queued < Buffer)
    BY <1>7 DEF Publish
  <2> QED BY <1>7, <2>1 DEF Publish
<1>8. CASE HubClose \/ CtxEnds \/ Leave \/ Answer \/ SendTooMuch
  BY <1>8 DEF HubClose, CtxEnds, Leave, Answer, SendTooMuch
<1>9. CASE Tick
  <2>1. /\ rtimer' \in 0 .. PongWait /\ wtimer' \in 0 .. WriteWait
        /\ due' \in 0 .. Patience
    BY <1>9, DownType DEF Tick
  <2>2. ptimer' \in 1 .. PingPeriod
    BY <1>9 DEF Tick
  <2>3. UNCHANGED <<published, queued>>
    BY <1>9 DEF Tick
  <2> QED BY <2>1, <2>2, <2>3
<1>10. CASE UNCHANGED vars
  BY <1>10 DEF vars
<1> QED BY <1>1, <1>2, <1>3, <1>4, <1>5, <1>6, <1>7, <1>8, <1>9, <1>10
    DEF Next, Handler, World, ClientGone, JoinReader, Ended, WriteFails,
        CannotEncode, Finished

(* ... and to the frames on the wire.                                      *)
LEMMA FramesStep ==
  ASSUME WebSocketAssumption, Frames, [Next]_vars
  PROVE  Frames'
<1> DEFINE Frame == {"event", "ping"}
<1>1. /\ wire \in Seq(Frame) /\ Len(wire) \in Nat
      /\ Len(wire) <= SockBuf /\ SockBuf \in Nat
  BY LenProperties DEF Frames, WebSocketAssumption
<1>2. CASE Write
  <2>1. hpc \in Frame /\ Len(wire) < SockBuf /\ wire' = Append(wire, hpc)
    BY <1>2 DEF Write
  <2>2. wire' \in Seq(Frame) /\ Len(wire') = Len(wire) + 1
    BY <1>1, <2>1, AppendProperties
  <2> QED BY <1>1, <2>1, <2>2 DEF Frames
<1>3. CASE Read
  <2>1. wire # << >> /\ wire' = Tail(wire)
    BY <1>3 DEF Read
  <2>2. wire' \in Seq(Frame) /\ Len(wire') = Len(wire) - 1
    BY <1>1, <2>1, HeadTailProperties
  <2> QED BY <1>1, <2>2 DEF Frames
<1>4. wire' = wire \/ Write \/ Read
  BY DEF Next, Handler, Upgrade, Start, ClientGone, CtxDone, JoinReader,
         TakeEvent, Ended, Ping, WriteFails, CannotEncode, Return, Reader,
         ReadPong, ReadFails, World, Publish, HubClose, CtxEnds, Leave, SendTooMuch, Answer, Tick, Finished,
         clientVars, vars
<1> QED BY <1>2, <1>3, <1>4 DEF Frames

LEMMA TypeStep ==
  ASSUME WebSocketAssumption, TypeOK, [Next]_vars
  PROVE  TypeOK'
BY FlagsStep, PlacesStep, RegisteredStep, CountersStep, FramesStep DEF TypeOK

(* Timers, counters and frames stay in their ranges, and a subscription is *)
(* in the hub only between Subscribe and the handler's return.             *)
THEOREM TypeCorrect == Spec => []TypeOK
<1>1. WebSocketAssumption
  BY WebSocketAssumption
<1> QED BY <1>1, TypeInit, TypeStep, PTL DEF Spec

-----------------------------------------------------------------------------
(* The stream of a client that answers in time is never cut.               *)

(* A ping is due, being written, or on the wire.                           *)
Pinging == fired \/ hpc = "ping" \/ \E k \in DOMAIN wire : wire[k] = "ping"

(* How far the read deadline is from passing, while the reader runs and    *)
(* the client is there: beyond the client's answer to the ping it owes one *)
(* for, or that is about to reach it, or that the ticker will send next.   *)
DeadlineFar ==
  rpc = "reading" /\ peer = "alive" =>
    /\ rtimer > 0
    /\ ~pong => /\ owed => rtimer > due
                /\ ~owed /\ Pinging => rtimer > Patience
                /\ ~owed /\ ~Pinging => rtimer > ptimer + Patience

(* Before the reader starts no time has passed and nothing was sent.       *)
NotStarted ==
  /\ rtimer = PongWait /\ ptimer = PingPeriod /\ ~fired
  /\ wire = << >> /\ ~owed /\ ~pong

(* Where handler and reader are, and what each of them has closed.         *)
StageInv ==
  /\ rpc = "off" => hpc \in {"new", "upgraded", "done"} /\ NotStarted
  /\ hpc \in {"new", "upgraded"} => rpc = "off"
  /\ hpc = "join" => ctxDone /\ wsClosed
  /\ hpc = "done" /\ rpc # "off" => wsClosed

(* What may end the stream of a client that is there.                      *)
Ending == closed \/ ctxDone \/ poisoned \/ refused

(* A client that is there takes what is written before time passes, and    *)
(* the connection is closed on it only for one of these reasons; a message *)
(* in the handler's hand that has no JSON is one.                          *)
AliveInv ==
  peer = "alive" =>
    /\ hpc \in {"event", "ping"} => wtimer = WriteWait
    /\ hpc = "poison" => poisoned
    /\ rpc = "done" => wsClosed \/ refused
    /\ wsClosed => Ending

CutInv == StageInv /\ AliveInv /\ DeadlineFar

(* A client answers a ping within Patience of reading it: this has to be   *)
(* before the read deadline.                                               *)
AnswersInTime == PingPeriod + Patience < PongWait

LEMMA CutInit == WebSocketAssumption /\ AnswersInTime /\ Init => CutInv
BY DEF Init, CutInv, StageInv, NotStarted, AliveInv, Ending, DeadlineFar

(* Time stands still before the reader starts and after Close has woken it. *)
LEMMA TickStage ==
  ASSUME TypeOK, StageInv, Tick
  PROVE  /\ hpc \notin {"new", "upgraded", "join"} /\ rpc # "off"
         /\ rpc = "reading" => hpc # "done" /\ ~pong /\ ~wsClosed
         /\ hpc = "select" => rpc # "done" /\ ~fired
         /\ peer = "alive" => wire = << >>
<1>1. hpc \notin {"new", "upgraded"}
  BY DEF Tick, Busy
<1>2. rpc = "reading" => ~pong /\ ~wsClosed
  BY DEF Tick, Busy
<1>3. hpc # "join" /\ rpc # "off"
  BY <1>1, <1>2 DEF Tick, Busy, StageInv, TypeOK, Places
<1>4. rpc = "reading" => hpc # "done"
  BY <1>2 DEF StageInv
<1>5. hpc = "select" => rpc # "done" /\ ~fired
  BY DEF Tick, Busy
<1>6. peer = "alive" => wire = << >>
  BY DEF Tick, Busy
<1> QED BY <1>1, <1>2, <1>3, <1>4, <1>5, <1>6

LEMMA StageStep ==
  ASSUME TypeOK, StageInv, [Next]_vars
  PROVE  StageInv'
<1> USE DEF hubVars, timers, clientVars
<1>1. CASE UNCHANGED vars
  BY <1>1 DEF vars, StageInv, NotStarted
<1>2. CASE Return /\ hpc \notin {"new", "upgraded"}
  BY <1>2 DEF Return, StageInv, NotStarted
<1>3. CASE Upgrade
  BY <1>3 DEF Upgrade, StageInv, NotStarted
<1>4. CASE Start
  BY <1>4 DEF Start, StageInv
<1>5. CASE CtxDone
  BY <1>5 DEF CtxDone, StageInv
<1>6. CASE TakeEvent \/ Ping \/ Write
  <2>1. /\ hpc \in {"select", "event", "ping"}
        /\ hpc' \in {"select", "event", "poison", "ping"}
        /\ rpc' = rpc
    BY <1>6 DEF TakeEvent, Ping, Write
  <2> QED BY <2>1 DEF StageInv
<1>7. CASE Reader \/ Read \/ Answer
  <2>1. rpc # "off" /\ rpc' # "off" /\ UNCHANGED <<hpc, ctxDone, wsClosed>>
    BY <1>7 DEF Reader, ReadPong, ReadFails, Read, Answer, StageInv, NotStarted
  <2> QED BY <2>1 DEF StageInv
<1>8. CASE Publish \/ HubClose \/ CtxEnds \/ Leave \/ SendTooMuch
  <2>1. /\ UNCHANGED <<hpc, rpc, wsClosed, rtimer, ptimer, fired, wire, owed, pong>>
        /\ ctxDone => ctxDone'
    BY <1>8 DEF Publish, HubClose, CtxEnds, Leave, SendTooMuch
  <2> QED BY <2>1 DEF StageInv, NotStarted
<1>9. CASE Tick
  <2>1. hpc \notin {"new", "upgraded", "join"} /\ rpc # "off"
    BY <1>9, TickStage
  <2>2. UNCHANGED <<hpc, rpc, wsClosed>>
    BY <1>9 DEF Tick
  <2> QED BY <2>1, <2>2 DEF StageInv
<1> QED BY <1>1, <1>2, <1>3, <1>4, <1>5, <1>6, <1>7, <1>8, <1>9
    DEF Next, Handler, World, ClientGone, JoinReader, Ended, WriteFails,
        CannotEncode, Finished

LEMMA AliveStep ==
  ASSUME WebSocketAssumption, TypeOK, CutInv, [Next]_vars
  PROVE  AliveInv'
<1> USE DEF hubVars, timers, clientVars, CutInv, Ending
<1> SUFFICES ASSUME peer' = "alive" PROVE AliveInv'
  BY DEF AliveInv
<1>0. peer = "alive"
  BY DEF Next, Handler, Upgrade, Start, ClientGone, CtxDone, JoinReader,
         TakeEvent, Ended, Ping, Write, WriteFails, CannotEncode, Return, Reader,
         ReadPong, ReadFails, Read, World, Publish, HubClose, CtxEnds, Leave,
         SendTooMuch, Answer,
         Tick, Finished, vars
<1>1. CASE Return /\ Ending
  BY <1>1 DEF Return, AliveInv
<1>2. CASE ClientGone \/ JoinReader \/ Ended \/ CannotEncode
  <2>1. Return /\ Ending
    BY <1>0, <1>2
    DEF ClientGone, JoinReader, Ended, CannotEncode, AliveInv, StageInv
  <2> QED BY <1>1, <2>1
<1>3. ~WriteFails
  BY <1>0 DEF WriteFails, AliveInv, WebSocketAssumption
<1>4. CASE Upgrade
  BY <1>0, <1>4 DEF Upgrade, AliveInv
<1>5. CASE Start \/ CtxDone
  BY <1>0, <1>5 DEF Start, CtxDone, AliveInv
<1>6. CASE TakeEvent \/ Ping \/ Write
  <2>1. /\ UNCHANGED <<rpc, wsClosed, closed, ctxDone, refused>>
        /\ hpc' \in {"event", "ping"} => wtimer' = WriteWait
    BY <1>6 DEF TakeEvent, Ping, Write
  <2>2. (hpc' = "poison" => poisoned') /\ (poisoned => poisoned')
    <3>1. CASE TakeEvent
      BY <3>1 DEF TakeEvent, TypeOK, Flags
    <3>2. CASE Ping \/ Write
      <4>1. poisoned' = poisoned /\ hpc' \in {"ping", "select"}
        BY <3>2 DEF Ping, Write
      <4> QED BY <4>1
    <3> QED BY <1>6, <3>1, <3>2
  <2> QED BY <1>0, <2>1, <2>2 DEF AliveInv
<1>7. CASE ReadPong \/ Read \/ Answer \/ SendTooMuch \/ Publish \/ HubClose
           \/ CtxEnds
  <2>1. /\ UNCHANGED <<hpc, rpc, wsClosed, wtimer, poisoned>>
        /\ (closed => closed') /\ (ctxDone => ctxDone')
        /\ (refused => refused')
    BY <1>7 DEF ReadPong, Read, Answer, SendTooMuch, Publish, HubClose, CtxEnds
  <2> QED BY <1>0, <2>1 DEF AliveInv
<1>8. CASE ReadFails
  <2>1. wsClosed \/ refused
    BY <1>0, <1>8 DEF ReadFails, DeadlineFar, TypeOK, Counters
  <2> QED BY <1>0, <1>8, <2>1 DEF ReadFails, AliveInv
<1>9. CASE Tick
  <2>1. hpc \notin {"event", "ping"}
    <3>1. wire = << >> /\ Len(<< >>) = 0
      BY <1>0, <1>9, TickStage
    <3>2. SockBuf > 0
      BY DEF WebSocketAssumption
    <3> QED BY <1>9, <3>1, <3>2 DEF Tick, Busy, Writing
  <2>2. UNCHANGED <<hpc, rpc, wsClosed, closed, ctxDone, poisoned, refused>>
    BY <1>9 DEF Tick
  <2> QED BY <1>0, <2>1, <2>2 DEF AliveInv
<1>10. CASE UNCHANGED vars
  BY <1>10 DEF vars, AliveInv
<1>11. ~Leave
  BY DEF Leave
<1> QED BY <1>2, <1>3, <1>4, <1>5, <1>6, <1>7, <1>8, <1>9, <1>10, <1>11
    DEF Next, Handler, Reader, World, Finished

(* A frame is added to the wire at its end and taken from its front.       *)
LEMMA WireFrames ==
  ASSUME NEW w \in Seq({"event", "ping"})
  PROVE  /\ \A f \in {"event", "ping"} :
              (\E k \in DOMAIN Append(w, f) : Append(w, f)[k] = "ping")
                <=> f = "ping" \/ \E k \in DOMAIN w : w[k] = "ping"
         /\ w # << >> /\ Head(w) = "ping" => \E k \in DOMAIN w : w[k] = "ping"
         /\ w # << >> /\ Head(w) = "event" =>
              (\E k \in DOMAIN Tail(w) : Tail(w)[k] = "ping")
                <=> \E k \in DOMAIN w : w[k] = "ping"
<1> DEFINE Frame == {"event", "ping"}
           n == Len(w)
<1>1. n \in Nat /\ DOMAIN w = 1 .. n
  BY LenProperties
<1>2. ASSUME NEW f \in Frame
      PROVE  (\E k \in DOMAIN Append(w, f) : Append(w, f)[k] = "ping")
               <=> f = "ping" \/ \E k \in DOMAIN w : w[k] = "ping"
  <2>1. /\ Append(w, f) \in Seq(Frame) /\ Len(Append(w, f)) = n + 1
        /\ \A k \in 1 .. n : Append(w, f)[k] = w[k]
        /\ Append(w, f)[n + 1] = f
    BY AppendProperties
  <2>2. DOMAIN Append(w, f) = 1 .. n + 1
    BY <2>1, LenProperties
  <2> HIDE DEF n
  <2> QED BY <1>1, <2>1, <2>2
<1>3. ASSUME w # << >>
      PROVE  /\ n > 0 /\ Head(w) = w[1]
             /\ DOMAIN Tail(w) = 1 .. n - 1
             /\ \A k \in 1 .. n - 1 : Tail(w)[k] = w[k + 1]
  <2>1. /\ Head(w) = w[1] /\ Tail(w) \in Seq(Frame) /\ Len(Tail(w)) = n - 1
        /\ \A k \in 1 .. Len(Tail(w)) : Tail(w)[k] = w[k + 1]
    BY <1>3, HeadTailProperties
  <2>2. n > 0
    BY <1>1, <1>3, EmptySeq
  <2> QED BY <2>1, <2>2, LenProperties
<1>4. w # << >> /\ Head(w) = "ping" => \E k \in DOMAIN w : w[k] = "ping"
  <2> HIDE DEF n
  <2> QED BY <1>1, <1>3
<1>5. ASSUME w # << >>, Head(w) = "event"
      PROVE  (\E k \in DOMAIN Tail(w) : Tail(w)[k] = "ping")
               <=> \E k \in DOMAIN w : w[k] = "ping"
  <2> HIDE DEF n
  <2>1. /\ n > 0 /\ w[1] = "event" /\ DOMAIN Tail(w) = 1 .. n - 1
        /\ \A k \in 1 .. n - 1 : Tail(w)[k] = w[k + 1]
    BY <1>3, <1>5
  <2>2. ASSUME NEW k \in DOMAIN Tail(w), Tail(w)[k] = "ping"
        PROVE  \E j \in DOMAIN w : w[j] = "ping"
    <3>1. k + 1 \in DOMAIN w /\ w[k + 1] = "ping"
      BY <1>1, <2>1, <2>2
    <3> QED BY <3>1
  <2>3. ASSUME NEW k \in DOMAIN w, w[k] = "ping"
        PROVE  \E j \in DOMAIN Tail(w) : Tail(w)[j] = "ping"
    <3>1. k # 1
      BY <2>1, <2>3
    <3>2. k - 1 \in DOMAIN Tail(w) /\ (k - 1) + 1 = k /\ k - 1 \in 1 .. n - 1
      BY <1>1, <2>1, <3>1
    <3>3. Tail(w)[k - 1] = w[(k - 1) + 1]
      BY <2>1, <3>2
    <3> QED BY <2>3, <3>2, <3>3
  <2> QED BY <2>2, <2>3
<1> QED BY <1>2, <1>4, <1>5

(* A step that moves neither timers nor pings leaves the deadline as far.  *)
LEMMA DeadlineKept ==
  ASSUME DeadlineFar, UNCHANGED <<rtimer, ptimer, due, owed, pong>>,
         Pinging' <=> Pinging,
         rpc' = "reading" /\ peer' = "alive" => rpc = "reading" /\ peer = "alive"
  PROVE  DeadlineFar'
BY DEF DeadlineFar

LEMMA DeadlineStep ==
  ASSUME WebSocketAssumption, AnswersInTime, TypeOK, CutInv, [Next]_vars
  PROVE  DeadlineFar'
<1> USE DEF hubVars, timers, clientVars
<1> SUFFICES ASSUME rpc' = "reading", peer' = "alive" PROVE DeadlineFar'
  BY DEF DeadlineFar
<1>0. /\ rtimer \in Nat /\ ptimer \in 1 .. PingPeriod /\ due \in 0 .. Patience
      /\ PingPeriod \in Nat /\ Patience \in Nat /\ PongWait \in Nat
      /\ PingPeriod + Patience < PongWait
      /\ wire \in Seq({"event", "ping"})
  BY DEF TypeOK, Counters, Frames, WebSocketAssumption, AnswersInTime
<1>1. CASE UNCHANGED vars \/ Publish \/ HubClose \/ CtxEnds \/ SendTooMuch
  <2>1. UNCHANGED <<rpc, peer, rtimer, ptimer, due, owed, pong, fired, hpc, wire>>
    BY <1>1 DEF vars, Publish, HubClose, CtxEnds, SendTooMuch
  <2>2. Pinging' <=> Pinging
    BY <2>1 DEF Pinging
  <2> QED BY <2>1, <2>2, DeadlineKept DEF CutInv
<1>2. CASE CtxDone \/ TakeEvent \/ Ended \/ CannotEncode
  <2>1. /\ UNCHANGED <<rpc, peer, rtimer, ptimer, due, owed, pong, fired, wire>>
        /\ hpc # "ping" /\ hpc' # "ping"
    BY <1>2 DEF CtxDone, TakeEvent, Ended, CannotEncode, Return
  <2>2. Pinging' <=> Pinging
    BY <2>1 DEF Pinging
  <2> QED BY <2>1, <2>2, DeadlineKept DEF CutInv
<1>3. CASE Ping
  <2>1. /\ UNCHANGED <<rpc, peer, rtimer, ptimer, due, owed, pong>>
        /\ fired /\ hpc' = "ping"
    BY <1>3 DEF Ping
  <2>2. Pinging' <=> Pinging
    BY <2>1 DEF Pinging
  <2> QED BY <2>1, <2>2, DeadlineKept DEF CutInv
<1>4. CASE Write
  <2>1. /\ UNCHANGED <<rpc, peer, rtimer, ptimer, due, owed, pong, fired>>
        /\ hpc \in {"event", "ping"} /\ hpc' = "select" /\ wire' = Append(wire, hpc)
    BY <1>4 DEF Write
  <2>2. (\E k \in DOMAIN wire' : wire'[k] = "ping")
          <=> hpc = "ping" \/ \E k \in DOMAIN wire : wire[k] = "ping"
    BY <1>0, <2>1, WireFrames
  <2>3. Pinging' <=> Pinging
    BY <2>1, <2>2 DEF Pinging
  <2> QED BY <2>1, <2>3, DeadlineKept DEF CutInv
<1>5. CASE Start
  <2>1. /\ NotStarted /\ UNCHANGED <<rtimer, ptimer, owed, pong, fired, wire>>
        /\ hpc' = "select"
    BY <1>5 DEF Start, CutInv, StageInv
  <2>2. ~pong' /\ ~owed'
    BY <2>1 DEF NotStarted
  <2>3. rtimer' = PongWait /\ ptimer' = PingPeriod
    BY <2>1 DEF NotStarted
  <2>4. ~Pinging'
    <3>1. ~fired' /\ wire' = << >>
      BY <2>1 DEF NotStarted
    <3> QED BY <2>1, <3>1 DEF Pinging
  <2>5. rtimer' > 0 /\ rtimer' > ptimer' + Patience
    BY <1>0, <2>3
  <2> QED BY <2>2, <2>4, <2>5 DEF DeadlineFar
<1>6. CASE ReadPong
  <2>1. rtimer' = PongWait /\ UNCHANGED <<ptimer, due>>
    BY <1>6 DEF ReadPong
  <2>2. /\ rtimer' > 0 /\ rtimer' > due' /\ rtimer' > Patience
        /\ rtimer' > ptimer' + Patience
    BY <1>0, <2>1
  <2> QED BY <2>2 DEF DeadlineFar
<1>7. CASE Read
  <2>1. /\ UNCHANGED <<rpc, peer, rtimer, ptimer, pong, fired, hpc>>
        /\ wire # << >> /\ wire' = Tail(wire)
    BY <1>7 DEF Read
  <2>2. CASE Head(wire) = "ping" /\ ~owed /\ owed' = TRUE /\ due' = Patience
    <3>1. Pinging
      BY <1>0, <2>1, <2>2, WireFrames DEF Pinging
    <3>2. rtimer > 0 /\ (~pong => rtimer > Patience)
      BY <2>1, <2>2, <3>1 DEF CutInv, DeadlineFar
    <3>3. rtimer' > 0 /\ (~pong' => rtimer' > due')
      BY <2>1, <2>2, <3>2
    <3> QED BY <2>2, <3>3 DEF DeadlineFar
  <2>3. CASE owed /\ UNCHANGED <<owed, due>>
    BY <2>1, <2>3 DEF CutInv, DeadlineFar
  <2>4. CASE Head(wire) = "event" /\ UNCHANGED <<owed, due>>
    <3>1. Pinging' <=> Pinging
      BY <1>0, <2>1, <2>4, WireFrames DEF Pinging
    <3> QED BY <2>1, <2>4, <3>1, DeadlineKept DEF CutInv
  <2> QED BY <1>7, <2>2, <2>3, <2>4 DEF Read
<1>8. CASE Answer
  <2>1. rtimer' > 0
    BY <1>8 DEF Answer, CutInv, DeadlineFar
  <2>2. pong'
    BY <1>8 DEF Answer
  <2> QED BY <2>1, <2>2 DEF DeadlineFar
<1>9. CASE Tick
  <2>1. /\ UNCHANGED <<rpc, peer, owed, pong, hpc, wire>>
        /\ owed => due # 0
    BY <1>9 DEF Tick
  <2>2. ~pong /\ wire = << >> /\ hpc \in {"select"} \cup Writing
    BY <1>9, <2>1, TickStage DEF CutInv, TypeOK, Places, Writing
  <2>3. hpc = "select"
    <3>1. Len(<< >>) < SockBuf
      <4>1. Len(<< >>) = 0
        OBVIOUS
      <4> QED BY <4>1 DEF WebSocketAssumption
    <3> QED BY <1>9, <2>2, <3>1 DEF Tick, Busy
  <2>4. ~Pinging
    <3>1. ~fired
      BY <1>9, <2>3, TickStage DEF CutInv
    <3> QED BY <2>2, <2>3, <3>1 DEF Pinging
  <2>5. Pinging' => ptimer = 1
    BY <1>9, <2>1, <2>4 DEF Tick, Pinging
  <2>6. /\ rtimer' = Down(rtimer) /\ due' = Down(due)
        /\ ptimer' = IF ptimer = 1 THEN PingPeriod ELSE ptimer - 1
        /\ ptimer = 1 => fired'
    BY <1>9 DEF Tick
  <2>7. /\ rtimer > 0
        /\ owed => rtimer > due
        /\ ~owed => rtimer > ptimer + Patience
    BY <2>1, <2>2, <2>4 DEF CutInv, DeadlineFar
  <2>8. CASE owed
    <3>1. rtimer' > 0 /\ rtimer' > due'
      BY <1>0, <2>1, <2>6, <2>7, <2>8 DEF Down
    <3> QED BY <2>1, <2>8, <3>1 DEF DeadlineFar
  <2>9. CASE ~owed /\ ptimer = 1
    <3>1. rtimer' > 0 /\ rtimer' > Patience
      BY <1>0, <2>6, <2>7, <2>9 DEF Down
    <3>2. Pinging'
      BY <2>6, <2>9 DEF Pinging
    <3> QED BY <2>1, <2>9, <3>1, <3>2 DEF DeadlineFar
  <2>10. CASE ~owed /\ ptimer # 1
    <3>1. rtimer' > 0 /\ rtimer' > ptimer' + Patience
      BY <1>0, <2>6, <2>7, <2>10 DEF Down
    <3>2. ~Pinging'
      BY <2>5, <2>10
    <3> QED BY <2>1, <2>10, <3>1, <3>2 DEF DeadlineFar
  <2> QED BY <2>8, <2>9, <2>10
<1>10. ~WriteFails
  <2>1. peer = "alive" \/ ~WriteFails
    BY DEF WriteFails, CannotEncode, Return
  <2> QED BY <2>1 DEF WriteFails, CutInv, AliveInv, WebSocketAssumption
<1>11. ~ClientGone /\ ~JoinReader /\ ~ReadFails /\ ~Leave
  BY DEF ClientGone, JoinReader, Return, ReadFails, Leave
<1>12. ~Upgrade
  BY DEF Upgrade, CutInv, StageInv
<1>13. ~Finished \/ UNCHANGED vars
  BY DEF Finished
<1> QED BY <1>1, <1>2, <1>3, <1>4, <1>5, <1>6, <1>7, <1>8, <1>9, <1>10, <1>11,
           <1>12, <1>13
    DEF Next, Handler, Reader, World

(* When PingPeriod and Patience fit into PongWait, the handler of a client *)
(* that is there returns only because the hub or the context ended, an     *)
(* event has no JSON, or the client sent beyond the read limit: no write   *)
(* to it fails, and each pong renews the deadline in time.                 *)
THEOREM AliveNeverCut == AnswersInTime => (Spec => []AliveStaysConnected)
<1>1. WebSocketAssumption
  BY WebSocketAssumption
<1>2. AnswersInTime /\ Init => TypeOK /\ CutInv
  BY <1>1, TypeInit, CutInit
<1>3. AnswersInTime /\ (TypeOK /\ CutInv) /\ [Next]_vars => (TypeOK /\ CutInv)'
  BY <1>1, TypeStep, StageStep, AliveStep, DeadlineStep DEF CutInv
<1>4. TypeOK /\ CutInv => AliveStaysConnected
  BY DEF CutInv, StageInv, AliveInv, Ending, AliveStaysConnected
<1> QED
  <2> SUFFICES ASSUME AnswersInTime PROVE Spec => []AliveStaysConnected
    OBVIOUS
  <2>1. Init => TypeOK /\ CutInv
    BY <1>2
  <2>2. (TypeOK /\ CutInv) /\ [Next]_vars => (TypeOK /\ CutInv)'
    BY <1>3
  <2> QED BY <1>4, <2>1, <2>2, PTL DEF Spec

(* Once the context is done, no time passes but in a write that the        *)
(* handler is in: not before the select, not in it, not in the join, and   *)
(* not while a reader outlives a handler that has returned.                *)
THEOREM CtxDoneIsPrompt == Spec => CtxDonePrompt
<1>1. WebSocketAssumption
  BY WebSocketAssumption
<1>2. Init => TypeOK /\ StageInv
  BY <1>1, TypeInit DEF Init, StageInv, NotStarted
<1>3. (TypeOK /\ StageInv) /\ [Next]_vars => (TypeOK /\ StageInv)'
  BY <1>1, TypeStep, StageStep
<1>4. (TypeOK /\ StageInv) /\ [Next]_vars
        => [ctxDone /\ hpc \notin Writing => ~Tick]_vars
  <2> SUFFICES ASSUME TypeOK, StageInv, ctxDone, hpc \notin Writing, Tick
               PROVE  FALSE
    OBVIOUS
  <2>1. hpc # "select"
    BY DEF Tick, Busy
  <2>2. hpc = "done"
    BY <2>1, TickStage DEF TypeOK, Places
  <2>3. rpc # "reading"
    BY <2>2, TickStage
  <2> QED BY <2>2, <2>3 DEF Tick
<1> QED BY <1>2, <1>3, <1>4, PTL DEF Spec, CtxDonePrompt
=============================================================================
