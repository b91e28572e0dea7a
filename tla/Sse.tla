-------------------------------- MODULE Sse ---------------------------------
(***************************************************************************)
(* One EventSource client that reads a topic through the handler of        *)
(* SSETopicWith (sse.go), over connections that break, and resumes with    *)
(* the ID of the last event it saw.                                        *)
(*                                                                         *)
(* Each number in Conns is one connection with its handler goroutine; the   *)
(* handler of a connection the client has given up may still run while the *)
(* next one does.  The hub is the one of module Hub seen from its          *)
(* contract, FanOut: Publish decides an event for every registered         *)
(* subscription in one step (it holds h.mu meanwhile), Subscribe replays   *)
(* event by event with live events in between.  There is one publisher and *)
(* replay is enabled from the start, so an event's ID is its number.  The  *)
(* process may crash and come up again with a new hub, whose IDs start     *)
(* from 1; the client keeps its last event ID.                             *)
(***************************************************************************)
EXTENDS ReplayBuffer, FiniteSets

CONSTANTS
  MaxConns,    (* bound: how often the client connects                      *)
  Buffer,      (* opts.Buffer                                               *)
  Size,        (* the argument of EnableReplay                              *)
  SockBuf,     (* frames the kernel takes before a write has to wait        *)
  Heartbeat,   (* opts.Heartbeat > 0                                        *)
  WriteTimeout,(* opts.WriteTimeout > 0                                     *)
  Poison,      (* numbers of events whose Data cannot be marshalled         *)
  MaxPublish,  (* bound: events one process publishes                       *)
  MaxRestarts  (* bound: crashes of the process                             *)

ASSUME SseAssumption ==
  /\ Buffer \in Nat \ {0} /\ Size \in Nat \ {0} /\ SockBuf \in Nat \ {0}
  /\ Heartbeat \in BOOLEAN /\ WriteTimeout \in BOOLEAN
  /\ Poison \subseteq Nat
  /\ MaxPublish \in Nat /\ MaxConns \in Nat /\ MaxRestarts \in Nat

VARIABLES
  log,         (* the events the hub accepted                               *)
  buf,         (* the topic's replayBuffer                                  *)
  closed,      (* h.closed; every subscription's channel is closed with it  *)
  registered,  (* connections whose subscription is in h.subs               *)
  hpc,         (* per handler: new, open, replay, select, ping, write, done *)
  since,       (* the Last-Event-ID header of the request, until it is used *)
  rest,        (* what Subscribe has still to replay                        *)
  ch,          (* sub.ch                                                    *)
  drops,       (* sub.Drops                                                 *)
  hand,        (* the event the handler took from the channel               *)
  wire,        (* frames written and not yet read by the client             *)
  gone,        (* connections whose client is no longer there               *)
  conn,        (* the connection the client reads                           *)
  lastID,      (* the client's last event ID                                *)
  restarts,    (* how often the process has crashed                         *)
  stale,       (* history: lastID was given by a process that has crashed   *)
  excused,     (* history: events the client may lack, see ResumeWithoutGap *)
  overtaken,   (* history: a live event was enqueued ahead of a replay      *)
  sent,        (* history: the last event the handler wrote                 *)
  warned       (* history: after that event opts.OnDrop was called          *)

(* The connections in the order the client makes them, and none at all.    *)
Conns == 1 .. MaxConns

NoConn == 0

hubVars == <<log, buf, closed, restarts>>
subVars == <<registered, since, rest, ch, drops, excused, overtaken>>
connVars == <<hand, wire, gone, sent, warned>>
clientVars == <<conn, lastID, stale>>
vars == <<hubVars, subVars, hpc, connVars, clientVars>>

Ping == NoEvent

Active(c) == hpc[c] \notin {"new", "done"}

Init ==
  /\ log = << >>
  /\ buf = NewReplayBuffer(Size)
  /\ closed = FALSE
  /\ registered = {}
  /\ hpc = [c \in Conns |-> "new"]
  /\ since = [c \in Conns |-> NoID]
  /\ rest = [c \in Conns |-> << >>]
  /\ ch = [c \in Conns |-> << >>]
  /\ drops = [c \in Conns |-> 0]
  /\ hand = [c \in Conns |-> NoEvent]
  /\ wire = [c \in Conns |-> << >>]
  /\ gone = {}
  /\ conn = NoConn
  /\ lastID = NoID
  /\ excused = {}
  /\ overtaken = FALSE
  /\ sent = [c \in Conns |-> 0]
  /\ warned = [c \in Conns |-> FALSE]
  /\ stale = FALSE
  /\ restarts = 0

-----------------------------------------------------------------------------
(* The hub.                                                                *)

(* Publish: buffered for replay, then enqueued on or dropped for each      *)
(* registered subscription.                                                *)
Publish ==
  LET ev   == [pos |-> Len(log) + 1, id |-> Len(log) + 1]
      full == {c \in registered : Len(ch[c]) >= Buffer}
  IN  /\ ~closed
      /\ Len(log) < MaxPublish
      /\ log' = Append(log, ev)
      /\ buf' = Push(buf, ev)
      /\ ch' = [c \in Conns |-> IF c \in registered \ full
                                THEN Append(ch[c], ev) ELSE ch[c]]
      /\ drops' = [c \in Conns |-> IF c \in full THEN drops[c] + 1 ELSE drops[c]]
      /\ excused' = IF conn \in full THEN excused \cup {ev.pos} ELSE excused
      /\ overtaken' = (overtaken \/ \E c \in registered : rest[c] # << >>)
      /\ UNCHANGED <<closed, restarts, registered, since, rest, hpc>>
      /\ UNCHANGED <<connVars, clientVars>>

(* Close: no subscription is left and every channel is closed.             *)
HubClose ==
  /\ ~closed
  /\ closed' = TRUE
  /\ registered' = {}
  /\ buf' = NoBuffer
  /\ UNCHANGED <<log, restarts, since, rest, ch, drops, excused, overtaken, hpc>>
  /\ UNCHANGED <<connVars, clientVars>>

-----------------------------------------------------------------------------
(* The handler.                                                            *)

(* The bookkeeping of a Join that is to replay the given events: the       *)
(* client may lack what has left the ring and, if its last ID was given by *)
(* an earlier process and an event in the ring has it too, the events up   *)
(* to that one.                                                            *)
Joined(c, replay) ==
  LET ringed == Len(log) - Size + 1 .. Len(log)
      hidden == IF stale /\ since[c] \in ringed THEN 1 .. since[c] ELSE {}
  IN  /\ hpc[c] = "open"
      /\ ~closed
      /\ registered' = registered \cup {c}
      /\ rest' = [rest EXCEPT ![c] = replay]
      /\ excused' = IF conn = c THEN (DOMAIN log \ ringed) \cup hidden
                    ELSE excused
      /\ sent' = [sent EXCEPT ![c] = Len(log) - Len(replay)]
      /\ since' = [since EXCEPT ![c] = NoID]
      /\ hpc' = [hpc EXCEPT ![c] = "replay"]
      /\ UNCHANGED <<hubVars, ch, drops, overtaken>>
      /\ UNCHANGED <<hand, wire, gone, warned, clientVars>>

(* Mutant of Join: the subscription starts at the next live event.         *)
JoinWithoutReplay(c) == Joined(c, << >>)

(* Headers and the initial frame are out; Hub.SubscribeSince registers the *)
(* subscription with what it is to be replayed.                            *)
Join(c) == Joined(c, Since(buf, since[c]))

(* On a closed hub the channel comes back closed and cancel does nothing.  *)
JoinClosed(c) ==
  /\ hpc[c] = "open"
  /\ closed
  /\ hpc' = [hpc EXCEPT ![c] = "select"]
  /\ UNCHANGED <<hubVars, subVars, connVars, clientVars>>

(* One turn of the replay loop.  When the hub has closed meanwhile, the    *)
(* send panics, and the handler is over (see Hub!NoPanic), unless Close    *)
(* has not come to this channel yet.                                       *)
ReplayOne(c) ==
  /\ hpc[c] = "replay"
  /\ rest[c] # << >>
  /\ \/ /\ closed
        /\ hpc' = [hpc EXCEPT ![c] = "done"]
        /\ UNCHANGED <<rest, ch, drops, excused>>
     \/ /\ rest' = [rest EXCEPT ![c] = Tail(@)]
        /\ \/ /\ Len(ch[c]) < Buffer
              /\ ch' = [ch EXCEPT ![c] = Append(@, Head(rest[c]))]
              /\ UNCHANGED <<drops, excused>>
           \/ /\ Len(ch[c]) >= Buffer
              /\ drops' = [drops EXCEPT ![c] = @ + 1]
              /\ excused' = IF conn = c THEN excused \cup {Head(rest[c]).pos}
                            ELSE excused
              /\ UNCHANGED ch
        /\ UNCHANGED hpc
  /\ UNCHANGED <<hubVars, registered, since, overtaken>>
  /\ UNCHANGED <<connVars, clientVars>>

(* SubscribeSince returns and the select loop starts.                      *)
ReplayDone(c) ==
  /\ hpc[c] = "replay"
  /\ rest[c] = << >>
  /\ hpc' = [hpc EXCEPT ![c] = "select"]
  /\ UNCHANGED <<hubVars, subVars, connVars, clientVars>>

(* Mutant of Return: the deferred cancel is missing.                       *)
ReturnWithoutCancel(c) ==
  /\ hpc' = [hpc EXCEPT ![c] = "done"]
  /\ hand' = [hand EXCEPT ![c] = NoEvent]
  /\ UNCHANGED <<hubVars, subVars, wire, gone, sent, warned, clientVars>>

(* return nil: the deferred cancel runs, net/http closes the connection,   *)
(* and the subscription with what its channel holds is garbage.            *)
Return(c) ==
  /\ hpc' = [hpc EXCEPT ![c] = "done"]
  /\ registered' = registered \ {c}
  /\ ch' = [ch EXCEPT ![c] = << >>]
  /\ drops' = [drops EXCEPT ![c] = 0]
  /\ hand' = [hand EXCEPT ![c] = NoEvent]
  /\ UNCHANGED <<hubVars, since, rest, excused, overtaken>>
  /\ UNCHANGED <<wire, gone, sent, warned, clientVars>>

(* case <-ctx.Done(): net/http has noticed that the client is gone, which  *)
(* for a connection that vanished without a word it never does.            *)
CtxDone(c) == hpc[c] = "select" /\ c \in gone /\ Return(c)

(* case <-heartbeat.                                                       *)
Tick(c) ==
  /\ hpc[c] = "select"
  /\ Heartbeat
  /\ hpc' = [hpc EXCEPT ![c] = "ping"]
  /\ UNCHANGED <<hubVars, subVars, connVars, clientVars>>

(* Mutant of TakeEvent: it forgets the drops.                              *)
TakeEventResetsDrops(c) ==
  /\ hpc[c] = "select"
  /\ ch[c] # << >>
  /\ hand' = [hand EXCEPT ![c] = Head(ch[c])]
  /\ ch' = [ch EXCEPT ![c] = Tail(@)]
  /\ drops' = [drops EXCEPT ![c] = 0]
  /\ hpc' = [hpc EXCEPT ![c] = "write"]
  /\ UNCHANGED <<hubVars, registered, since, rest, excused, overtaken>>
  /\ UNCHANGED <<wire, gone, sent, warned, clientVars>>

(* case ev, ok := <-sub.Events(), with an event.                           *)
TakeEvent(c) ==
  /\ hpc[c] = "select"
  /\ ch[c] # << >>
  /\ hand' = [hand EXCEPT ![c] = Head(ch[c])]
  /\ ch' = [ch EXCEPT ![c] = Tail(@)]
  /\ hpc' = [hpc EXCEPT ![c] = "write"]
  /\ UNCHANGED <<hubVars, registered, since, rest, drops, excused, overtaken>>
  /\ UNCHANGED <<wire, gone, sent, warned, clientVars>>

(* Mutant of Ended: a closed channel is read again and again.              *)
EndedKeepsReading(c) ==
  /\ hpc[c] = "select" /\ ch[c] = << >> /\ closed
  /\ UNCHANGED vars

(* case ev, ok := <-sub.Events(), with the channel closed and drained.     *)
Ended(c) == hpc[c] = "select" /\ ch[c] = << >> /\ closed /\ Return(c)

(* The frame is written and flushed: the kernel has it, which is not to    *)
(* say that the client will.  After an event OnDrop is called if Drops is  *)
(* not zero.                                                               *)
WriteFrame(c, frame) ==
  /\ Len(wire[c]) < SockBuf
  /\ wire' = [wire EXCEPT ![c] = Append(@, frame)]
  /\ hand' = [hand EXCEPT ![c] = NoEvent]
  /\ hpc' = [hpc EXCEPT ![c] = "select"]
  /\ UNCHANGED <<hubVars, subVars, gone, clientVars>>

WritePing(c) ==
  /\ hpc[c] = "ping"
  /\ WriteFrame(c, Ping)
  /\ UNCHANGED <<sent, warned>>

WriteEvent(c) ==
  /\ hpc[c] = "write"
  /\ hand[c].pos \notin Poison
  /\ WriteFrame(c, hand[c])
  /\ sent' = [sent EXCEPT ![c] = hand[c].pos]
  /\ warned' = [warned EXCEPT ![c] = drops[c] > 0]

(* A write to c gives an error: the client is known to be gone, or read    *)
(* nothing until the write deadline, or the event has no JSON (then its id *)
(* line is out, but a client ignores an event that is cut off).            *)
CannotWrite(c) ==
  \/ c \in gone
  \/ WriteTimeout /\ Len(wire[c]) >= SockBuf
  \/ hpc[c] = "write" /\ hand[c].pos \in Poison

WriteFails(c) ==
  /\ hpc[c] \in {"ping", "write"}
  /\ CannotWrite(c)
  /\ Return(c)

-----------------------------------------------------------------------------
(* The process and the client.                                             *)

(* The process crashes and is started again: every handler is over, every  *)
(* connection broken, and the new hub knows nothing of the old one.        *)
Restart ==
  /\ restarts < MaxRestarts
  /\ restarts' = restarts + 1
  /\ log' = << >>
  /\ buf' = NewReplayBuffer(Size)
  /\ closed' = FALSE
  /\ registered' = {}
  /\ hpc' = [c \in Conns |-> IF Active(c) THEN "done" ELSE hpc[c]]
  /\ since' = [c \in Conns |-> NoID]
  /\ rest' = [c \in Conns |-> << >>]
  /\ ch' = [c \in Conns |-> << >>]
  /\ drops' = [c \in Conns |-> 0]
  /\ hand' = [c \in Conns |-> NoEvent]
  /\ wire' = [c \in Conns |-> << >>]
  /\ conn' = NoConn
  /\ stale' = (lastID # NoID)
  /\ excused' = {}
  /\ overtaken' = FALSE
  /\ UNCHANGED <<gone, lastID, sent, warned>>

(* The client connects, or reconnects, with its last event ID.             *)
Connect(c) ==
  /\ conn = NoConn
  /\ hpc[c] = "new"
  /\ \A k \in Conns : k < c => hpc[k] # "new"
  /\ conn' = c
  /\ since' = [since EXCEPT ![c] = lastID]
  /\ hpc' = [hpc EXCEPT ![c] = "open"]
  /\ excused' = {}
  /\ UNCHANGED <<hubVars, registered, rest, ch, drops, overtaken>>
  /\ UNCHANGED <<connVars, lastID, stale>>

(* The client reads a frame; an event becomes its last event ID.           *)
Read(c) ==
  /\ conn = c
  /\ wire[c] # << >>
  /\ wire' = [wire EXCEPT ![c] = Tail(@)]
  /\ IF Head(wire[c]) = Ping THEN UNCHANGED <<lastID, stale>>
     ELSE lastID' = Head(wire[c]).id /\ stale' = FALSE
  /\ UNCHANGED <<hubVars, subVars, hpc, hand, gone, sent, warned, conn>>

(* The connection breaks, and what is on the wire is lost.                 *)
Break(c) ==
  /\ conn = c
  /\ gone' = gone \cup {c}
  /\ wire' = [wire EXCEPT ![c] = << >>]
  /\ conn' = NoConn
  /\ UNCHANGED <<hubVars, subVars, hpc, hand, sent, warned, lastID, stale>>

(* The handler has returned and the client has read to the end.            *)
Eof(c) ==
  /\ conn = c
  /\ hpc[c] = "done"
  /\ wire[c] = << >>
  /\ conn' = NoConn
  /\ UNCHANGED <<hubVars, subVars, hpc, connVars, lastID, stale>>

-----------------------------------------------------------------------------

Terminating ==
  /\ closed
  /\ conn = NoConn
  /\ \A c \in Conns : hpc[c] = "done"
  /\ UNCHANGED vars

Handler(c) ==
  \/ Join(c) \/ JoinClosed(c)
  \/ ReplayOne(c) \/ ReplayDone(c)
  \/ Tick(c) \/ TakeEvent(c) \/ Ended(c)
  \/ WritePing(c) \/ WriteEvent(c) \/ WriteFails(c)

Client(c) == Connect(c) \/ Read(c) \/ Break(c) \/ Eof(c)

Next ==
  \/ Publish
  \/ HubClose
  \/ Restart
  \/ \E c \in Conns : Handler(c) \/ CtxDone(c) \/ Client(c)
  \/ Terminating

Spec == Init /\ [][Next]_vars

(* Handlers run; select picks among its ready cases at random, so that of  *)
(* sub.Events(), ready time and again, is taken and the heartbeat does not *)
(* starve it.  Nothing is assumed of clients, publishers or the network,   *)
(* nor that ctx is ever done.                                              *)
Fairness ==
  \A c \in Conns : /\ WF_vars(Handler(c))
                   /\ SF_vars(TakeEvent(c) \/ Ended(c))

FairSpec == Spec /\ Fairness

-----------------------------------------------------------------------------
(* Properties.                                                             *)

Event == [pos : Nat, id : Nat]

(* The type invariant.                                                     *)
TypeOK ==
  /\ log \in Seq(Event)
  /\ IF closed THEN buf = NoBuffer ELSE buf \in RingOf(Size, Event)
  /\ closed \in BOOLEAN
  /\ registered \subseteq Conns
  /\ hpc \in [Conns -> {"new", "open", "replay", "select", "ping", "write",
                        "done"}]
  /\ since \in [Conns -> Nat]
  /\ rest \in [Conns -> Seq(Event)]
  /\ ch \in [Conns -> Seq(Event)]
  /\ drops \in [Conns -> Nat]
  /\ hand \in [Conns -> Event]
  /\ wire \in [Conns -> Seq(Event)]
  /\ gone \subseteq Conns
  /\ conn \in Conns \cup {NoConn}
  /\ lastID \in Nat
  /\ excused \subseteq Nat
  /\ overtaken \in BOOLEAN
  /\ sent \in [Conns -> Nat]
  /\ warned \in [Conns -> BOOLEAN]
  /\ stale \in BOOLEAN
  /\ restarts \in 0 .. MaxRestarts

(* A subscription is registered only while its handler runs, so a client   *)
(* that comes and goes does not pile up subscriptions in the hub.          *)
NoLeakedSubscription == \A c \in registered : Active(c)

(* The client reads an event of connection c.                              *)
ReadsEvent(c) ==
  /\ conn = c
  /\ wire[c] # << >> /\ Head(wire[c]) # Ping
  /\ wire' = [wire EXCEPT ![c] = Tail(@)]

(* sse.go:69-71, hub_replay.go:5-7: across any number of breaks a client   *)
(* sees events in order, none twice, and an event it misses was dropped    *)
(* for its present subscription or had left the ring when that began:      *)
(* frames lost with a connection, events a stale handler took and events   *)
(* behind one that could not be marshalled come again.  After a crash the  *)
(* client starts over, lacking besides what its old ID hides.  (Excepted   *)
(* are runs in which a live event overtook a replay.)                      *)
ResumeWithoutGap ==
  [][\A c \in Conns : ReadsEvent(c) /\ ~overtaken =>
       LET seen == IF stale THEN 0 ELSE lastID
           next == Head(wire[c]).pos
       IN  seen < next /\ seen + 1 .. next - 1 \subseteq excused]_vars

(* sse.go:36-39: a handler that writes an event other than the next one    *)
(* calls OnDrop for it, so a consumer that takes action on OnDrop can      *)
(* never miss a gap in the stream.                                         *)
GapIsReported ==
  [][\A c \in Conns :
       /\ ~overtaken
       /\ hpc[c] = "write" /\ hpc'[c] = "select"
       /\ hand[c].pos > sent[c] + 1
       => warned'[c]]_vars

(* sse.go:25-35, hub.go:250-251: the handler of a client that is gone,     *)
(* also one whose end of the connection vanished without a word, returns   *)
(* and its subscription leaves the hub, because heartbeats and the write   *)
(* deadline find out; and closing the hub ends every stream, even to a     *)
(* client that has stopped reading.                                        *)
HandlersEnd ==
  \A c \in Conns :
    Active(c) /\ (c \in gone \/ closed)
      ~> hpc[c] = "done" /\ c \notin registered
=============================================================================
