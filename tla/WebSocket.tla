----------------------------- MODULE WebSocket ------------------------------
(***************************************************************************)
(* One connection of StreamTopicWith (websocket.go): the handler's select  *)
(* loop, the reader goroutine it starts, the client, and time.             *)
(*                                                                         *)
(* Time passes in ticks, and only when no goroutine has anything to do: a  *)
(* tick (ten seconds, say) is long for a goroutine.  Timers count down to  *)
(* zero, and what waits for one that is at zero happens before the next    *)
(* tick.  The hub is seen through the channel it gives: events are counted *)
(* and not told apart (their order is module Hub's concern).               *)
(***************************************************************************)
EXTENDS Naturals, Sequences

CONSTANTS
  Buffer,     (* capacity of the subscription: 256 in the code              *)
  SockBuf,    (* frames the kernel takes before a write has to wait         *)
  PingPeriod, (* time.NewTicker(30s)                                        *)
  PongWait,   (* the read deadline: 60s, again from each pong               *)
  WriteWait,  (* the write deadline: 10s, or 5s for a ping                  *)
  Patience,   (* ticks within which a client that is there answers a ping   *)
  MaxPublish  (* bound: events published                                    *)

ASSUME WebSocketAssumption ==
  /\ Buffer \in Nat \ {0} /\ SockBuf \in Nat \ {0}
  /\ PingPeriod \in Nat \ {0} /\ PongWait \in Nat \ {0}
  /\ WriteWait \in Nat \ {0} /\ Patience \in Nat /\ MaxPublish \in Nat

VARIABLES
  published,  (* events published                                           *)
  closed,     (* the hub is closed, and with it the subscription's channel  *)
  registered, (* the subscription is in the hub                             *)
  queued,     (* events in its channel                                      *)
  hpc,        (* the handler: new, upgraded, select, event, poison, ping,   *)
              (* join, done                                                 *)
  poisoned,   (* history: an event it took cannot be marshalled             *)
  rpc,        (* the reader: off, reading, done (clientGone is closed)      *)
  ctxDone,    (* c.Ctx() is done                                            *)
  wsClosed,   (* ws.Close was called                                        *)
  ptimer,     (* ticks to the next fire of the ping ticker                  *)
  fired,      (* ping.C holds a value                                       *)
  rtimer,     (* ticks to the read deadline                                 *)
  wtimer,     (* ticks to the deadline of the present write                 *)
  wire,       (* frames written and not read by the client                  *)
  peer,       (* the client: alive, closed its end, or vanished in silence  *)
  owed,       (* pings the client has read and not answered                 *)
  due,        (* ticks left to it                                           *)
  pong,       (* a pong is on its way                                       *)
  refused     (* it has sent what NextReader refuses, beyond the read limit *)

hubVars == <<published, closed, registered, queued>>
timers == <<ptimer, fired, rtimer, wtimer>>
clientVars == <<wire, peer, owed, due, pong, refused>>
vars == <<hubVars, hpc, rpc, ctxDone, poisoned, wsClosed, timers, clientVars>>

Init ==
  /\ published = 0
  /\ closed = FALSE
  /\ registered = FALSE
  /\ queued = 0
  /\ hpc = "new"
  /\ rpc = "off"
  /\ ctxDone = FALSE
  /\ poisoned = FALSE
  /\ wsClosed = FALSE
  /\ ptimer = PingPeriod
  /\ fired = FALSE
  /\ rtimer = PongWait
  /\ wtimer = 0
  /\ wire = << >>
  /\ peer = "alive"
  /\ owed = FALSE
  /\ due = 0
  /\ pong = FALSE
  /\ refused = FALSE

-----------------------------------------------------------------------------
(* The handler.                                                            *)

(* The upgrade succeeds; or the upgrader has answered a request that it    *)
(* refuses, for its origin or because it is none, and the handler returns. *)
Upgrade ==
  /\ hpc = "new"
  /\ hpc' \in {"upgraded", "done"}
  /\ UNCHANGED <<hubVars, rpc, ctxDone, poisoned>>
  /\ UNCHANGED <<wsClosed, timers, clientVars>>

(* Hub.Subscribe, which replays what the topic's ring holds; the reader    *)
(* sets its deadline and the ticker starts.                                *)
Start ==
  /\ hpc = "upgraded"
  /\ registered' = ~closed
  /\ queued' \in IF closed THEN {0} ELSE 0 .. Buffer
  /\ rpc' = "reading"
  /\ hpc' = "select"
  /\ UNCHANGED <<published, closed, ctxDone, poisoned, wsClosed, timers>>
  /\ UNCHANGED clientVars

(* Mutant of Return: the deferred cancel is missing.                       *)
ReturnWithoutCancel ==
  /\ hpc' = "done"
  /\ wsClosed' = TRUE
  /\ UNCHANGED <<hubVars, rpc, ctxDone, poisoned, timers, clientVars>>

(* return nil: the ticker stops, the subscription is cancelled and the     *)
(* connection closed.                                                      *)
Return ==
  /\ hpc' = "done"
  /\ registered' = FALSE
  /\ queued' = 0
  /\ wsClosed' = TRUE
  /\ UNCHANGED <<published, closed, rpc, ctxDone>>
  /\ UNCHANGED <<poisoned, timers, clientVars>>

(* case <-clientGone.                                                      *)
ClientGone == hpc = "select" /\ rpc = "done" /\ Return

(* Mutant of CtxDone: the handler waits for the reader without waking it.  *)
CtxDoneJustWaits ==
  /\ hpc = "select"
  /\ ctxDone
  /\ hpc' = "join"
  /\ UNCHANGED <<hubVars, rpc, ctxDone, poisoned>>
  /\ UNCHANGED <<wsClosed, timers, clientVars>>

(* case <-c.Ctx().Done(): the connection is closed to wake the reader.     *)
CtxDone ==
  /\ hpc = "select"
  /\ ctxDone
  /\ wsClosed' = TRUE
  /\ hpc' = "join"
  /\ UNCHANGED <<hubVars, rpc, ctxDone, poisoned, timers, clientVars>>

(* ... and <-clientGone.                                                   *)
JoinReader == hpc = "join" /\ rpc = "done" /\ Return

(* case ev, ok := <-sub.Events(): an event, to be written by WriteJSON, or *)
(* one whose Data cannot be marshalled.                                    *)
TakeEvent ==
  /\ hpc = "select"
  /\ queued > 0
  /\ queued' = queued - 1
  /\ hpc' \in {"event", "poison"}
  /\ poisoned' = (poisoned \/ hpc' = "poison")
  /\ wtimer' = WriteWait
  /\ UNCHANGED <<published, closed, registered, rpc, ctxDone, wsClosed>>
  /\ UNCHANGED <<ptimer, fired, rtimer, clientVars>>

(* Mutant of Ended: the event that a closed channel yields is written.     *)
EndedUnnoticed ==
  /\ hpc = "select" /\ queued = 0 /\ closed
  /\ hpc' = "event"
  /\ wtimer' = WriteWait
  /\ UNCHANGED <<hubVars, rpc, ctxDone, poisoned, wsClosed>>
  /\ UNCHANGED <<ptimer, fired, rtimer>>
  /\ UNCHANGED clientVars

(* case ev, ok := <-sub.Events(): closed and drained.                      *)
Ended == hpc = "select" /\ queued = 0 /\ closed /\ Return

(* case <-ping.C.                                                          *)
Ping ==
  /\ hpc = "select"
  /\ fired
  /\ fired' = FALSE
  /\ hpc' = "ping"
  /\ wtimer' = WriteWait
  /\ UNCHANGED <<hubVars, rpc, ctxDone, poisoned, wsClosed>>
  /\ UNCHANGED <<ptimer, rtimer, clientVars>>

(* The kernel takes the frame.                                             *)
Write ==
  /\ hpc \in {"event", "ping"}
  /\ peer # "closed"
  /\ Len(wire) < SockBuf
  /\ wire' = Append(wire, hpc)
  /\ hpc' = "select"
  /\ UNCHANGED <<hubVars, rpc, ctxDone, poisoned, wsClosed, timers>>
  /\ UNCHANGED <<peer, owed, due, pong, refused>>

(* Mutant of WriteFails: the error of a write is ignored.                  *)
WriteFailsGoesOn ==
  /\ hpc \in {"event", "ping"}
  /\ peer = "closed" \/ (wtimer = 0 /\ Len(wire) >= SockBuf)
  /\ wtimer' = WriteWait
  /\ UNCHANGED <<hubVars, hpc, rpc, ctxDone, poisoned>>
  /\ UNCHANGED <<wsClosed, ptimer, fired, rtimer>>
  /\ UNCHANGED clientVars

(* The peer has reset the connection, or the write deadline has passed.    *)
WriteFails ==
  /\ hpc \in {"event", "ping"}
  /\ peer = "closed" \/ (wtimer = 0 /\ Len(wire) >= SockBuf)
  /\ Return

(* WriteJSON sends the empty frame it had begun, if it can, and returns    *)
(* the error of the encoder: the stream ends, whoever is there.            *)
CannotEncode ==
  /\ hpc = "poison"
  /\ peer = "closed" \/ Len(wire) < SockBuf \/ wtimer = 0
  /\ Return

-----------------------------------------------------------------------------
(* The reader goroutine: NextReader until it fails.                        *)

(* Mutant of ReadPong: the deadline is not renewed.                        *)
ReadPongOnly ==
  /\ rpc = "reading"
  /\ pong
  /\ pong' = FALSE
  /\ UNCHANGED <<hubVars, hpc, rpc, ctxDone, poisoned, wsClosed, timers>>
  /\ UNCHANGED <<wire, peer, owed, due, refused>>

(* The pong handler renews the deadline.  (A data frame is read and        *)
(* dropped, and does not.)                                                 *)
ReadPong ==
  /\ rpc = "reading"
  /\ pong
  /\ pong' = FALSE
  /\ rtimer' = PongWait
  /\ UNCHANGED <<hubVars, hpc, rpc, ctxDone, poisoned>>
  /\ UNCHANGED <<wsClosed, ptimer, fired, wtimer>>
  /\ UNCHANGED <<wire, peer, owed, due, refused>>

(* NextReader fails: the peer has closed, the handler has, the deadline    *)
(* has passed, or a message is beyond the read limit.                      *)
ReadFails ==
  /\ rpc = "reading"
  /\ peer = "closed" \/ wsClosed \/ rtimer = 0 \/ refused
  /\ rpc' = "done"
  /\ UNCHANGED <<hubVars, hpc, ctxDone, poisoned>>
  /\ UNCHANGED <<wsClosed, timers, clientVars>>

-----------------------------------------------------------------------------
(* The hub, the caller's context, the client.                              *)

(* Publish: enqueued, or dropped when the channel is full.                 *)
Publish ==
  /\ ~closed
  /\ published < MaxPublish
  /\ published' = published + 1
  /\ queued' = IF registered /\ queued < Buffer THEN queued + 1 ELSE queued
  /\ UNCHANGED <<closed, registered, hpc, rpc, ctxDone>>
  /\ UNCHANGED <<poisoned, wsClosed, timers>>
  /\ UNCHANGED clientVars

HubClose ==
  /\ ~closed
  /\ closed' = TRUE
  /\ registered' = FALSE
  /\ UNCHANGED <<published, queued, hpc, rpc, ctxDone>>
  /\ UNCHANGED <<poisoned, wsClosed, timers>>
  /\ UNCHANGED clientVars

(* net/http no longer watches a connection that was upgraded, so the       *)
(* context ends only if something above the handler, Timeout say, ends it. *)
CtxEnds ==
  /\ ~ctxDone
  /\ ctxDone' = TRUE
  /\ UNCHANGED <<hubVars, hpc, rpc, poisoned, wsClosed, timers, clientVars>>

Leave ==
  /\ peer = "alive"
  /\ peer' \in {"closed", "vanished"}
  /\ UNCHANGED <<hubVars, hpc, rpc, ctxDone, poisoned, wsClosed, timers>>
  /\ UNCHANGED <<wire, owed, due, pong, refused>>

(* A client that is there reads what it is sent ...                        *)
Read ==
  /\ peer = "alive"
  /\ wire # << >>
  /\ wire' = Tail(wire)
  /\ \/ /\ Head(wire) = "ping" /\ ~owed
        /\ owed' = TRUE
        /\ due' = Patience
     \/ /\ Head(wire) = "event" \/ owed
        /\ UNCHANGED <<owed, due>>
  /\ UNCHANGED <<hubVars, hpc, rpc, ctxDone, poisoned, wsClosed, timers>>
  /\ UNCHANGED <<peer, pong, refused>>

(* ... and answers a ping in its time.                                     *)
Answer ==
  /\ peer = "alive"
  /\ owed
  /\ owed' = FALSE
  /\ due' = 0
  /\ pong' = TRUE
  /\ UNCHANGED <<hubVars, hpc, rpc, ctxDone, poisoned, wsClosed, timers>>
  /\ UNCHANGED <<wire, peer, refused>>

(* ... or sends a message of more than SetReadLimit allows.                *)
SendTooMuch ==
  /\ peer = "alive"
  /\ ~refused
  /\ refused' = TRUE
  /\ UNCHANGED <<hubVars, hpc, rpc, ctxDone, poisoned, wsClosed, timers>>
  /\ UNCHANGED <<wire, peer, owed, due, pong>>

-----------------------------------------------------------------------------

Handler ==
  \/ Upgrade \/ Start
  \/ ClientGone \/ CtxDone \/ JoinReader \/ TakeEvent \/ Ended \/ Ping
  \/ Write \/ WriteFails \/ CannotEncode

Reader == ReadPong \/ ReadFails

World == Publish \/ HubClose \/ CtxEnds \/ Leave \/ Answer \/ SendTooMuch

(* The handler is in a write to the connection.                            *)
Writing == {"event", "poison", "ping"}

(* Some step of the handler, the reader or a client that is there is       *)
(* enabled: it happens before time passes.                                 *)
Busy ==
  \/ hpc \in {"new", "upgraded"}
  \/ hpc = "select" /\ (rpc = "done" \/ ctxDone \/ queued > 0 \/ closed \/ fired)
  \/ hpc = "join" /\ rpc = "done"
  \/ /\ hpc \in Writing
     /\ peer = "closed" \/ Len(wire) < SockBuf \/ wtimer = 0
  \/ /\ rpc = "reading"
     /\ pong \/ peer = "closed" \/ wsClosed \/ rtimer = 0 \/ refused
  \/ peer = "alive" /\ wire # << >>

Down(timer) == IF timer = 0 THEN 0 ELSE timer - 1

Tick ==
  /\ ~Busy
  /\ peer = "alive" => ~(owed /\ due = 0)
  /\ hpc # "done" \/ rpc = "reading"
  /\ ptimer' = IF ptimer = 1 THEN PingPeriod ELSE ptimer - 1
  /\ fired' = (fired \/ ptimer = 1)
  /\ rtimer' = Down(rtimer)
  /\ wtimer' = Down(wtimer)
  /\ due' = Down(due)
  /\ UNCHANGED <<hubVars, hpc, rpc, ctxDone, poisoned, wsClosed, wire, peer>>
  /\ UNCHANGED <<owed, pong, refused>>

Finished == hpc = "done" /\ rpc # "reading" /\ UNCHANGED vars

Next == Handler \/ Reader \/ Read \/ World \/ Tick \/ Finished

Spec == Init /\ [][Next]_vars

(* Goroutines run and time passes.  A client need not leave, and a hub or  *)
(* a context need not end.                                                 *)
Fairness == WF_vars(Handler) /\ WF_vars(Reader) /\ WF_vars(Read)
            /\ WF_vars(Answer) /\ WF_vars(Tick)

FairSpec == Spec /\ Fairness

-----------------------------------------------------------------------------
(* Properties.                                                             *)

Flags ==
  /\ closed \in BOOLEAN /\ registered \in BOOLEAN /\ ctxDone \in BOOLEAN
  /\ wsClosed \in BOOLEAN /\ fired \in BOOLEAN
  /\ owed \in BOOLEAN /\ pong \in BOOLEAN
  /\ poisoned \in BOOLEAN /\ refused \in BOOLEAN

Places ==
  /\ hpc \in {"new", "upgraded", "select", "join", "done"} \cup Writing
  /\ rpc \in {"off", "reading", "done"}
  /\ peer \in {"alive", "closed", "vanished"}

Counters ==
  /\ published \in 0 .. MaxPublish /\ queued \in 0 .. Buffer
  /\ ptimer \in 1 .. PingPeriod /\ rtimer \in 0 .. PongWait
  /\ wtimer \in 0 .. WriteWait /\ due \in 0 .. Patience

Frames == wire \in Seq({"event", "ping"}) /\ Len(wire) <= SockBuf

(* The type invariant.                                                     *)
TypeOK ==
  /\ Flags /\ Places /\ Counters /\ Frames
  /\ registered => hpc \notin {"new", "upgraded", "done"}

(* websocket.go:95-97: the stream of a client that reads and answers pings *)
(* in time is not cut off by timers, deadlines or the goroutine beside it: *)
(* its handler returns because the hub or the context ended, or for one of *)
(* two reasons that the comment leaves out: an event that has no JSON and  *)
(* a message of the client beyond the read limit.  The ping period, the    *)
(* read deadline and the client's patience have to fit for this.           *)
AliveStaysConnected ==
  peer = "alive" /\ hpc = "done" /\ rpc # "off" =>
    closed \/ ctxDone \/ poisoned \/ refused

(* A client that is gone, also one that vanished in silence with or        *)
(* without frames on the wire, is found out: the handler returns, the      *)
(* subscription leaves the hub and the reader ends.                        *)
PeerGoneReleased ==
  peer # "alive" ~> hpc = "done" /\ ~registered /\ rpc # "reading"

(* websocket.go:96-97: so it is when the hub is closed.                    *)
HubCloseEndsStream == closed ~> hpc = "done" /\ rpc # "reading"

(* websocket.go:145-150: once the context is done no time passes before    *)
(* handler and reader have ended, but for a write the handler is in; in    *)
(* the join, Close has woken the reader, and nothing waits for a deadline. *)
CtxDonePrompt == [][ctxDone /\ hpc \notin Writing => ~Tick]_vars
=============================================================================
