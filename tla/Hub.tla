-------------------------------- MODULE Hub ---------------------------------
(***************************************************************************)
(* The topic hub of hub.go and hub_replay.go at the granularity of its     *)
(* locks.  Publishers, subscribers and callers of Close are goroutines.    *)
(*                                                                         *)
(*   - A critical section of h.mu that contains nothing but assignments is *)
(*     one action, enabled while mu = Free.  Publish holds h.mu across its *)
(*     delivery loop, so mu is the publisher that holds it.                *)
(*   - A critical section of sub.mu never blocks inside, so it is one      *)
(*     action and sub.mu itself is not a variable.                         *)
(*   - Everything the code does outside a lock (assigning the ID before    *)
(*     h.mu is taken, replaying after it is released, bumping dropCount)   *)
(*     is a step of its own that other goroutines interleave with.         *)
(*                                                                         *)
(* Each member of Subscribers is one Subscription with the goroutine that  *)
(* created it, consumes it and cancels it.                                 *)
(***************************************************************************)
EXTENDS ReplayBuffer

CONSTANTS
  Topics,       (* topic names                                              *)
  Publishers,   (* goroutines that call Publish                             *)
  Subscribers,  (* subscriptions, each used once                            *)
  Closers,      (* goroutines that call Close                               *)
  Buffer,       (* the buffer argument of Subscribe                         *)
  ReplaySizes,  (* the arguments EnableReplay may be called with            *)
  CustomIDs,    (* non-empty IDs a publisher may choose itself              *)
  MaxPublish,   (* bound: calls of Publish                                  *)
  Free, NoTopic (* an unlocked h.mu, and no topic yet                       *)

ASSUME HubAssumption ==
  /\ Free \notin Publishers
  /\ NoTopic \notin Topics
  /\ Buffer \in Nat
  /\ ReplaySizes \subseteq Nat
  /\ CustomIDs \subseteq Nat \ {NoID}
  /\ MaxPublish \in Nat

VARIABLES
  mu,          (* who holds h.mu across several steps                       *)
  closed,      (* h.closed                                                  *)
  subs,        (* h.subs; an absent topic is the empty set                  *)
  replaySize,  (* h.replaySize                                              *)
  replays,     (* h.replays; an absent topic is NoBuffer                    *)
  dropCount,   (* h.dropCount                                               *)
  idSeq,       (* h.idSeq                                                   *)
  ppc,         (* per publisher: idle, lock, send or count                  *)
  pev,         (* per publisher: topic and event of the call                *)
  todo,        (* per publisher: subscribers its loop has yet to visit      *)
  calls,       (* calls of Publish so far                                   *)
  spc,         (* per subscriber: new, replay, count, ready, cancel, done   *)
               (* or panicked                                               *)
  topic,       (* sub.topic                                                 *)
  ch,          (* the contents of sub.ch                                    *)
  chClosed,    (* close(sub.ch) has run                                     *)
  subClosed,   (* sub.closed                                                *)
  drops,       (* sub.Drops                                                 *)
  replay,      (* the slice Subscribe replays                               *)
  ri,          (* how many of its events Subscribe is done with             *)
  cpc,         (* per caller of Close: idle, closing or done                *)
  toClose,     (* per caller of Close: subscriptions it has yet to close    *)
  panicked,    (* goroutines that hit a Go channel panic                    *)
  log,         (* history: per topic, the events accepted under h.mu        *)
  start,       (* history: Len(log) of the topic when a subscriber joined   *)
  got          (* history: what the consumer has received                   *)

hubVars == <<mu, closed, subs, replaySize, replays, dropCount, idSeq>>
pubVars == <<ppc, pev, todo, calls>>
subVars == <<spc, topic, ch, chClosed, subClosed, drops, replay, ri>>
endVars == <<cpc, toClose, panicked>>
history == <<log, start, got>>
vars == <<hubVars, pubVars, subVars, endVars, history>>

Event == [pos : Nat, id : Nat]

(* make(chan Event, buffer) with the default of 64.                        *)
Capacity == IF Buffer = 0 THEN 64 ELSE Buffer

Registered(s) == \E t \in Topics : s \in subs[t]

Init ==
  /\ mu = Free
  /\ closed = FALSE
  /\ subs = [t \in Topics |-> {}]
  /\ replaySize = 0
  /\ replays = [t \in Topics |-> NoBuffer]
  /\ dropCount = 0
  /\ idSeq = 0
  /\ ppc = [p \in Publishers |-> "idle"]
  /\ pev = [p \in Publishers |-> [topic |-> NoTopic, ev |-> NoEvent]]
  /\ todo = [p \in Publishers |-> {}]
  /\ calls = 0
  /\ spc = [s \in Subscribers |-> "new"]
  /\ topic = [s \in Subscribers |-> NoTopic]
  /\ ch = [s \in Subscribers |-> << >>]
  /\ chClosed = [s \in Subscribers |-> FALSE]
  /\ subClosed = [s \in Subscribers |-> FALSE]
  /\ drops = [s \in Subscribers |-> 0]
  /\ replay = [s \in Subscribers |-> << >>]
  /\ ri = [s \in Subscribers |-> 0]
  /\ cpc = [c \in Closers |-> "idle"]
  /\ toClose = [c \in Closers |-> {}]
  /\ panicked = {}
  /\ log = [t \in Topics |-> << >>]
  /\ start = [s \in Subscribers |-> 0]
  /\ got = [s \in Subscribers |-> << >>]

-----------------------------------------------------------------------------
(* EnableReplay and Publish.                                               *)

(* EnableReplay: takes effect for topics that have no ring yet; the rings  *)
(* that exist keep their size.                                             *)
EnableReplay(n) ==
  /\ mu = Free
  /\ replaySize # n
  /\ replaySize' = n
  /\ UNCHANGED <<mu, closed, subs, replays, dropCount, idSeq>>
  /\ UNCHANGED <<pubVars, subVars, endVars, history>>

(* Publish up to h.mu.Lock: replaySize is read and the ID is taken from    *)
(* idSeq without the lock.                                                 *)
PublishBegin(p, t, id) ==
  LET auto == id = NoID /\ replaySize > 0
  IN  /\ ppc[p] = "idle"
      /\ calls < MaxPublish
      /\ calls' = calls + 1
      /\ idSeq' = IF auto THEN idSeq + 1 ELSE idSeq
      /\ pev' = [pev EXCEPT ![p] =
                   [topic |-> t,
                    ev |-> [pos |-> 0, id |-> IF auto THEN idSeq + 1 ELSE id]]]
      /\ ppc' = [ppc EXCEPT ![p] = "lock"]
      /\ UNCHANGED <<mu, closed, subs, replaySize, replays, dropCount, todo>>
      /\ UNCHANGED <<subVars, endVars, history>>

(* Mutant of PushReplay: the ring is made one slot too large.              *)
PushReplayLarger(t, ev) ==
  IF replaySize = 0 THEN replays
  ELSE LET rb == IF replays[t] = NoBuffer THEN NewReplayBuffer(replaySize + 1)
                 ELSE replays[t]
       IN  [replays EXCEPT ![t] = Push(rb, ev)]

(* Mutant of PushReplay: events that carry no ID are not buffered.         *)
PushReplayWithID(t, ev) ==
  IF replaySize = 0 \/ ev.id = NoID THEN replays
  ELSE LET rb == IF replays[t] = NoBuffer THEN NewReplayBuffer(replaySize)
                 ELSE replays[t]
       IN  [replays EXCEPT ![t] = Push(rb, ev)]

(* The ring Publish pushes to, made on first use, and the push.            *)
PushReplay(t, ev) ==
  IF replaySize = 0 THEN replays
  ELSE LET rb == IF replays[t] = NoBuffer THEN NewReplayBuffer(replaySize)
                 ELSE replays[t]
       IN  [replays EXCEPT ![t] = Push(rb, ev)]

(* Mutant of PublishLock: h.mu is not waited for.                          *)
PublishUnlocked(p) ==
  LET t  == pev[p].topic
      ev == [pos |-> Len(log[t]) + 1, id |-> pev[p].ev.id]
  IN  /\ ppc[p] = "lock"
      /\ ~closed
      /\ mu' = p
      /\ replays' = PushReplay(t, ev)
      /\ pev' = [pev EXCEPT ![p].ev = ev]
      /\ todo' = [todo EXCEPT ![p] = subs[t]]
      /\ ppc' = [ppc EXCEPT ![p] = "send"]
      /\ log' = [log EXCEPT ![t] = Append(@, ev)]
      /\ UNCHANGED <<closed, subs, replaySize, dropCount, idSeq, calls>>
      /\ UNCHANGED <<subVars, endVars, start, got>>

(* Mutant of PublishLock: h.closed is not looked at.                       *)
PublishIgnoresClosed(p) ==
  LET t  == pev[p].topic
      ev == [pos |-> Len(log[t]) + 1, id |-> pev[p].ev.id]
  IN  /\ ppc[p] = "lock"
      /\ mu = Free
      /\ mu' = p
      /\ replays' = PushReplay(t, ev)
      /\ pev' = [pev EXCEPT ![p].ev = ev]
      /\ todo' = [todo EXCEPT ![p] = subs[t]]
      /\ ppc' = [ppc EXCEPT ![p] = "send"]
      /\ log' = [log EXCEPT ![t] = Append(@, ev)]
      /\ UNCHANGED <<closed, subs, replaySize, dropCount, idSeq, calls>>
      /\ UNCHANGED <<subVars, endVars, start, got>>

(* Publish takes h.mu on an open hub, pushes to the topic's ring and fixes *)
(* the set its delivery loop ranges over.                                  *)
PublishLock(p) ==
  LET t  == pev[p].topic
      ev == [pos |-> Len(log[t]) + 1, id |-> pev[p].ev.id]
  IN  /\ ppc[p] = "lock"
      /\ mu = Free
      /\ ~closed
      /\ mu' = p
      /\ replays' = PushReplay(t, ev)
      /\ pev' = [pev EXCEPT ![p].ev = ev]
      /\ todo' = [todo EXCEPT ![p] = subs[t]]
      /\ ppc' = [ppc EXCEPT ![p] = "send"]
      /\ log' = [log EXCEPT ![t] = Append(@, ev)]
      /\ UNCHANGED <<closed, subs, replaySize, dropCount, idSeq, calls>>
      /\ UNCHANGED <<subVars, endVars, start, got>>

(* Publish takes h.mu on a closed hub: nothing is delivered.               *)
PublishClosed(p) ==
  /\ ppc[p] = "lock"
  /\ mu = Free
  /\ closed
  /\ ppc' = [ppc EXCEPT ![p] = "idle"]
  /\ pev' = [pev EXCEPT ![p] = [topic |-> NoTopic, ev |-> NoEvent]]
  /\ UNCHANGED <<hubVars, todo, calls, subVars, endVars, history>>

(* Mutant of Send: a drop is not counted on the subscription.              *)
SendDropsSilently(p, s) ==
  /\ ppc[p] = "send"
  /\ s \in todo[p]
  /\ todo' = [todo EXCEPT ![p] = @ \ {s}]
  /\ \/ /\ Len(ch[s]) < Capacity
        /\ ch' = [ch EXCEPT ![s] = Append(@, pev[p].ev)]
        /\ UNCHANGED ppc
     \/ /\ Len(ch[s]) >= Capacity
        /\ ppc' = [ppc EXCEPT ![p] = "count"]
        /\ UNCHANGED ch
  /\ UNCHANGED <<hubVars, pev, calls, spc, topic, chClosed, subClosed>>
  /\ UNCHANGED <<drops, panicked, replay, ri, cpc, toClose, history>>

(* Mutant of Send: the send blocks while the channel is full.              *)
SendBlocks(p, s) ==
  /\ ppc[p] = "send"
  /\ s \in todo[p]
  /\ Len(ch[s]) < Capacity
  /\ todo' = [todo EXCEPT ![p] = @ \ {s}]
  /\ ch' = [ch EXCEPT ![s] = Append(@, pev[p].ev)]
  /\ UNCHANGED <<hubVars, ppc, pev, calls, spc, topic, chClosed, subClosed>>
  /\ UNCHANGED <<drops, panicked, replay, ri, cpc, toClose, history>>

(* One turn of the delivery loop, s.send(ev): the map is visited in any    *)
(* order.  A send on a closed channel panics; a full channel is a drop; a  *)
(* closed subscription is reported as a drop that Drops does not count.    *)
Send(p, s) ==
  /\ ppc[p] = "send"
  /\ s \in todo[p]
  /\ todo' = [todo EXCEPT ![p] = @ \ {s}]
  /\ \/ /\ ~subClosed[s]
        /\ chClosed[s] \/ Len(ch[s]) < Capacity
        /\ ch' = [ch EXCEPT ![s] = Append(@, pev[p].ev)]
        /\ panicked' = IF chClosed[s] THEN panicked \cup {p} ELSE panicked
        /\ UNCHANGED <<drops, ppc>>
     \/ /\ subClosed[s] \/ (~chClosed[s] /\ Len(ch[s]) >= Capacity)
        /\ drops' = [drops EXCEPT ![s] = IF subClosed[s] THEN @ ELSE @ + 1]
        /\ ppc' = [ppc EXCEPT ![p] = "count"]
        /\ UNCHANGED <<ch, panicked>>
  /\ UNCHANGED <<hubVars, pev, calls, spc, topic, chClosed, subClosed>>
  /\ UNCHANGED <<replay, ri, cpc, toClose, history>>

(* h.dropCount.Add(1) after a failed send.                                 *)
PublishCount(p) ==
  /\ ppc[p] = "count"
  /\ dropCount' = dropCount + 1
  /\ ppc' = [ppc EXCEPT ![p] = "send"]
  /\ UNCHANGED <<mu, closed, subs, replaySize, replays, idSeq, pev, todo, calls>>
  /\ UNCHANGED <<subVars, endVars, history>>

(* The loop is over: unlock and return.                                    *)
PublishReturn(p) ==
  /\ ppc[p] = "send"
  /\ todo[p] = {}
  /\ mu' = Free
  /\ ppc' = [ppc EXCEPT ![p] = "idle"]
  /\ pev' = [pev EXCEPT ![p] = [topic |-> NoTopic, ev |-> NoEvent]]
  /\ UNCHANGED <<closed, subs, replaySize, replays, dropCount, idSeq>>
  /\ UNCHANGED <<todo, calls, subVars, endVars, history>>

-----------------------------------------------------------------------------
(* Subscribe, SubscribeSince, the consumer, and the cancel function.       *)

(* The IDs a reconnecting client may send: that of the last event some     *)
(* earlier subscription to the topic received.                             *)
KnownIDs(t) ==
  {got[s][Len(got[s])].id :
     s \in {r \in Subscribers : topic[r] = t /\ got[r] # << >>}} \ {NoID}

(* The critical section both forms share: join the topic's set and take    *)
(* the events to replay, atomically with respect to Publish.               *)
Join(s, t, events) ==
  /\ spc[s] = "new"
  /\ mu = Free
  /\ ~closed
  /\ subs' = [subs EXCEPT ![t] = @ \cup {s}]
  /\ topic' = [topic EXCEPT ![s] = t]
  /\ replay' = [replay EXCEPT ![s] = events]
  /\ spc' = [spc EXCEPT ![s] = "replay"]
  /\ start' = [start EXCEPT ![s] = Len(log[t])]
  /\ UNCHANGED <<mu, closed, replaySize, replays, dropCount, idSeq>>
  /\ UNCHANGED <<pubVars, ch, chClosed, subClosed, drops, ri>>
  /\ UNCHANGED <<endVars, log, got>>

Subscribe(s, t) == Join(s, t, Snapshot(replays[t]))

SubscribeSince(s, t, id) == Join(s, t, Since(replays[t], id))

(* Either form on a closed hub: the channel is closed before it is         *)
(* returned and the cancel function does nothing.                          *)
SubscribeClosed(s, t) ==
  /\ spc[s] = "new"
  /\ mu = Free
  /\ closed
  /\ topic' = [topic EXCEPT ![s] = t]
  /\ chClosed' = [chClosed EXCEPT ![s] = TRUE]
  /\ subClosed' = [subClosed EXCEPT ![s] = TRUE]
  /\ spc' = [spc EXCEPT ![s] = "done"]
  /\ UNCHANGED <<hubVars, pubVars, ch, drops, replay, ri, endVars, history>>

(* One turn of the replay loop, after h.mu is released and without sub.mu: *)
(* send the next event, or count a drop when the channel is full, or panic *)
(* when the channel has been closed meanwhile.                             *)
ReplayOne(s) ==
  /\ spc[s] = "replay"
  /\ ri[s] < Len(replay[s])
  /\ \/ /\ chClosed[s]
        /\ panicked' = panicked \cup {s}
        /\ spc' = [spc EXCEPT ![s] = "panicked"]
        /\ UNCHANGED <<ch, drops, ri>>
     \/ /\ ~chClosed[s]
        /\ ri' = [ri EXCEPT ![s] = @ + 1]
        /\ \/ /\ Len(ch[s]) < Capacity
              /\ ch' = [ch EXCEPT ![s] = Append(@, replay[s][ri[s] + 1])]
              /\ UNCHANGED <<spc, drops>>
           \/ /\ Len(ch[s]) >= Capacity
              /\ drops' = [drops EXCEPT ![s] = @ + 1]
              /\ spc' = [spc EXCEPT ![s] = "count"]
              /\ UNCHANGED ch
        /\ UNCHANGED panicked
  /\ UNCHANGED <<hubVars, pubVars, topic, chClosed, subClosed, replay>>
  /\ UNCHANGED <<cpc, toClose, history>>

(* h.dropCount.Add(1) in the replay loop.                                  *)
ReplayCount(s) ==
  /\ spc[s] = "count"
  /\ dropCount' = dropCount + 1
  /\ spc' = [spc EXCEPT ![s] = "replay"]
  /\ UNCHANGED <<mu, closed, subs, replaySize, replays, idSeq>>
  /\ UNCHANGED <<pubVars, topic, ch, chClosed, subClosed, drops, replay, ri>>
  /\ UNCHANGED <<endVars, history>>

(* The loop is over: the caller gets the subscription.                     *)
SubscribeReturn(s) ==
  /\ spc[s] = "replay"
  /\ ri[s] = Len(replay[s])
  /\ spc' = [spc EXCEPT ![s] = "ready"]
  /\ UNCHANGED <<hubVars, pubVars, topic, ch, chClosed, subClosed, drops>>
  /\ UNCHANGED <<replay, ri, endVars, history>>

(* The consumer takes the next event from Events(); a closed channel still *)
(* hands out what it buffers.                                              *)
Receive(s) ==
  /\ spc[s] = "ready"
  /\ ch[s] # << >>
  /\ got' = [got EXCEPT ![s] = Append(@, Head(ch[s]))]
  /\ ch' = [ch EXCEPT ![s] = Tail(@)]
  /\ UNCHANGED <<hubVars, pubVars, spc, topic, chClosed, subClosed, drops>>
  /\ UNCHANGED <<replay, ri, endVars, log, start>>

(* unsubscribe under h.mu: whether the consumer gives up or has seen the   *)
(* end of the channel, it calls cancel, and the subscription leaves the    *)
(* set if it is still there.                                               *)
Unsubscribe(s) ==
  /\ spc[s] = "ready"
  /\ mu = Free
  /\ subs' = [subs EXCEPT ![topic[s]] = @ \ {s}]
  /\ spc' = [spc EXCEPT ![s] = "cancel"]
  /\ UNCHANGED <<mu, closed, replaySize, replays, dropCount, idSeq, pubVars>>
  /\ UNCHANGED <<topic, ch, chClosed, subClosed, drops, replay, ri>>
  /\ UNCHANGED <<endVars, history>>

(* Mutant of CloseChannel: sub.closed is not looked at.                    *)
CloseChannelAlways(s, goroutine) ==
  /\ subClosed' = [subClosed EXCEPT ![s] = TRUE]
  /\ chClosed' = [chClosed EXCEPT ![s] = TRUE]
  /\ panicked' = IF chClosed[s] THEN panicked \cup {goroutine} ELSE panicked

(* The critical section of sub.mu in unsubscribe and in Close: close the   *)
(* channel unless sub.closed.  Closing it twice would panic.               *)
CloseChannel(s, goroutine) ==
  /\ subClosed' = [subClosed EXCEPT ![s] = TRUE]
  /\ chClosed' = [chClosed EXCEPT ![s] = @ \/ ~subClosed[s]]
  /\ panicked' = IF ~subClosed[s] /\ chClosed[s]
                 THEN panicked \cup {goroutine} ELSE panicked

(* unsubscribe after h.mu is released.                                     *)
UnsubscribeClose(s) ==
  /\ spc[s] = "cancel"
  /\ CloseChannel(s, s)
  /\ spc' = [spc EXCEPT ![s] = "done"]
  /\ UNCHANGED <<hubVars, pubVars, topic, ch, drops, replay, ri>>
  /\ UNCHANGED <<cpc, toClose, history>>

-----------------------------------------------------------------------------
(* Close.                                                                  *)

(* Mutant of CloseLock: h.subs is replaced before it is saved.             *)
CloseLockForgets(c) ==
  /\ cpc[c] = "idle"
  /\ mu = Free
  /\ ~closed
  /\ closed' = TRUE
  /\ subs' = [t \in Topics |-> {}]
  /\ replays' = [t \in Topics |-> NoBuffer]
  /\ cpc' = [cpc EXCEPT ![c] = "closing"]
  /\ UNCHANGED <<mu, replaySize, dropCount, idSeq, pubVars, subVars>>
  /\ UNCHANGED <<toClose, panicked, history>>

(* Under h.mu: mark the hub closed and take every subscription out of it.  *)
CloseLock(c) ==
  /\ cpc[c] = "idle"
  /\ mu = Free
  /\ ~closed
  /\ closed' = TRUE
  /\ toClose' = [toClose EXCEPT ![c] = UNION {subs[t] : t \in Topics}]
  /\ subs' = [t \in Topics |-> {}]
  /\ replays' = [t \in Topics |-> NoBuffer]
  /\ cpc' = [cpc EXCEPT ![c] = "closing"]
  /\ UNCHANGED <<mu, replaySize, dropCount, idSeq, pubVars, subVars>>
  /\ UNCHANGED <<panicked, history>>

(* Close on a hub that is closed already returns at once.                  *)
CloseAgain(c) ==
  /\ cpc[c] = "idle"
  /\ mu = Free
  /\ closed
  /\ cpc' = [cpc EXCEPT ![c] = "done"]
  /\ UNCHANGED <<hubVars, pubVars, subVars, toClose, panicked, history>>

(* After h.mu is released: close the channels one by one, in any order.    *)
CloseOne(c, s) ==
  /\ cpc[c] = "closing"
  /\ s \in toClose[c]
  /\ toClose' = [toClose EXCEPT ![c] = @ \ {s}]
  /\ CloseChannel(s, c)
  /\ UNCHANGED <<hubVars, pubVars, spc, topic, ch, drops, replay, ri>>
  /\ UNCHANGED <<cpc, history>>

CloseReturn(c) ==
  /\ cpc[c] = "closing"
  /\ toClose[c] = {}
  /\ cpc' = [cpc EXCEPT ![c] = "done"]
  /\ UNCHANGED <<hubVars, pubVars, subVars, toClose, panicked, history>>

-----------------------------------------------------------------------------

(* Every call has returned and the bounds allow no other.                  *)
Terminating ==
  /\ calls = MaxPublish
  /\ \A p \in Publishers : ppc[p] = "idle"
  /\ \A s \in Subscribers : spc[s] \in {"done", "panicked"}
  /\ \A c \in Closers : cpc[c] = "done"
  /\ UNCHANGED vars

PublisherStep(p) ==
  \/ \E t \in Topics, id \in CustomIDs \cup {NoID} : PublishBegin(p, t, id)
  \/ PublishLock(p)
  \/ PublishClosed(p)
  \/ \E s \in Subscribers : Send(p, s)
  \/ PublishCount(p)
  \/ PublishReturn(p)

SubscriberStep(s) ==
  \/ \E t \in Topics : \/ Subscribe(s, t)
                       \/ \E id \in KnownIDs(t) : SubscribeSince(s, t, id)
                       \/ SubscribeClosed(s, t)
  \/ ReplayOne(s)
  \/ ReplayCount(s)
  \/ SubscribeReturn(s)
  \/ Receive(s)
  \/ Unsubscribe(s)
  \/ UnsubscribeClose(s)

CloserStep(c) ==
  \/ CloseLock(c)
  \/ CloseAgain(c)
  \/ \E s \in Subscribers : CloseOne(c, s)
  \/ CloseReturn(c)

Next ==
  \/ \E n \in ReplaySizes : EnableReplay(n)
  \/ \E p \in Publishers : PublisherStep(p)
  \/ \E s \in Subscribers : SubscriberStep(s)
  \/ \E c \in Closers : CloserStep(c)
  \/ Terminating

Spec == Init /\ [][Next]_vars

-----------------------------------------------------------------------------
(* Properties.                                                             *)

IsBuffer(b) ==
  b = NoBuffer \/ \E n \in ReplaySizes \ {0} : b \in RingOf(n, Event)

HubTypes ==
  /\ mu \in Publishers \cup {Free}
  /\ closed \in BOOLEAN
  /\ subs \in [Topics -> SUBSET Subscribers]
  /\ replaySize \in ReplaySizes \cup {0}
  /\ replays = [t \in Topics |-> replays[t]]
  /\ \A t \in Topics : IsBuffer(replays[t])
  /\ dropCount \in Nat
  /\ idSeq \in Nat

PublisherTypes ==
  /\ ppc \in [Publishers -> {"idle", "lock", "send", "count"}]
  /\ pev \in [Publishers -> [topic : Topics \cup {NoTopic}, ev : Event]]
  /\ \A p \in Publishers : ppc[p] # "idle" => pev[p].topic \in Topics
  /\ todo \in [Publishers -> SUBSET Subscribers]
  /\ calls \in Nat

SubscriberTypes ==
  /\ spc \in [Subscribers -> {"new", "replay", "count", "ready", "cancel",
                              "done", "panicked"}]
  /\ topic \in [Subscribers -> Topics \cup {NoTopic}]
  /\ \A s \in Subscribers : spc[s] # "new" => topic[s] \in Topics
  /\ ch \in [Subscribers -> Seq(Event)]
  /\ chClosed \in [Subscribers -> BOOLEAN]
  /\ subClosed \in [Subscribers -> BOOLEAN]
  /\ drops \in [Subscribers -> Nat]
  /\ replay \in [Subscribers -> Seq(Event)]
  /\ ri \in [Subscribers -> Nat]

EndTypes ==
  /\ cpc \in [Closers -> {"idle", "closing", "done"}]
  /\ toClose \in [Closers -> SUBSET Subscribers]
  /\ panicked \subseteq Publishers \cup Subscribers \cup Closers

HistoryTypes ==
  /\ log \in [Topics -> Seq(Event)]
  /\ start \in [Subscribers -> Nat]
  /\ got \in [Subscribers -> Seq(Event)]

(* The type invariant.                                                     *)
TypeOK ==
  HubTypes /\ PublisherTypes /\ SubscriberTypes /\ EndTypes /\ HistoryTypes

(* Everything ever enqueued on a subscription, in order.                   *)
Stream(s) == got[s] \o ch[s]

(* The publisher whose delivery loop has still to visit s.                 *)
Pending(s) == mu \in Publishers /\ s \in todo[mu]

(* A registered subscription is open: both ways to end one take it out of  *)
(* h.subs under h.mu before they close its channel under sub.mu, so a      *)
(* Publish never meets a closed one, and the closed branch of send is      *)
(* never taken.                                                            *)
RegisteredOpen ==
  \A t \in Topics : \A s \in subs[t] :
    /\ ~closed
    /\ topic[s] = t
    /\ spc[s] \in {"replay", "count", "ready"}
    /\ ~subClosed[s] /\ ~chClosed[s]

(* hub.go:213-215 and 250-251: no interleaving of Publish, cancel and Close *)
(* makes one of them send on a closed channel or close a channel twice.     *)
(* (The replay loop of Subscribe is the one place that can: see NoPanic.)   *)
PublishCancelCloseNeverPanic ==
  \A g \in panicked : g \in Subscribers /\ spc[g] = "panicked"

(* No event is lost without a trace: for a registered subscription, what   *)
(* was enqueued plus what was counted as dropped is what it was to be      *)
(* replayed so far plus what was accepted since it joined, less the one    *)
(* event whose delivery loop has not reached it.                           *)
DeliveredOrCounted ==
  \A s \in Subscribers : Registered(s) =>
    Len(Stream(s)) + drops[s] + (IF Pending(s) THEN 1 ELSE 0)
      = ri[s] + (Len(log[topic[s]]) - start[s])

(* Of the events enqueued on a subscription, those accepted after it joined *)
(* come in the order the hub accepted them and those accepted before it     *)
(* joined too, none twice: snapshot and registration are one critical       *)
(* section, so no event is both replayed and delivered live.                *)
StreamsInOrder ==
  \A s \in Subscribers : \A i, j \in DOMAIN Stream(s) :
    (i < j /\ (Stream(s)[i].pos > start[s] <=> Stream(s)[j].pos > start[s]))
      => Stream(s)[i].pos < Stream(s)[j].pos

(* What a subscription replays is an unbroken run of the topic's history   *)
(* that ends at the moment it joined, whenever replay was enabled.         *)
ReplayMeetsLive ==
  \A s \in Subscribers : \A k \in DOMAIN replay[s] :
    replay[s][k] = log[topic[s]][start[s] - Len(replay[s]) + k]

(* hub.go:250-251: once closed, a hub accepts no event and no subscription. *)
ClosedIsFinal ==
  [][closed => closed' /\ log' = log /\ subs' = subs]_vars

(* hub.go:75-76, hub_replay.go:5-7: buffered events are delivered before   *)
(* any new ones.                                                           *)
ReplayBeforeLive ==
  \A s \in Subscribers : \A i, j \in DOMAIN Stream(s) :
    (i < j /\ Stream(s)[i].pos > start[s]) => Stream(s)[j].pos > start[s]

(* hub.go:213-215, sugaar.go:114: every operation of the hub, Subscribe    *)
(* included, may run concurrently with Close.                              *)
NoPanic == panicked = {}

-----------------------------------------------------------------------------
(* Who may close a channel, and when: the inductive form of RegisteredOpen  *)
(* and PublishCancelCloseNeverPanic.                                       *)
OwnershipInv ==
  /\ RegisteredOpen
  /\ PublishCancelCloseNeverPanic
  /\ \A s \in Subscribers : subClosed[s] <=> chClosed[s]
  /\ \A s \in Subscribers : spc[s] = "new" => ~chClosed[s]
  /\ \A c \in Closers : \A s \in toClose[c] : closed /\ spc[s] # "new"

-----------------------------------------------------------------------------
(* Refinement.                                                             *)

(* The hub implements FanOut: the lock-level interleavings of Publish,     *)
(* Subscribe, cancel and Close never skip, repeat or reorder an event of a *)
(* subscription's live sequence or of its replay sequence.                 *)
Status(s) == IF spc[s] = "new" THEN "new"
             ELSE IF Registered(s) THEN "attached" ELSE "detached"

Rest(s) == SubSeq(replay[s], ri[s] + 1, Len(replay[s]))

(* An attached subscription has decided the whole log but for the event a  *)
(* delivery loop has still to bring to it.                                 *)
Cursor(s) == IF Registered(s)
             THEN Len(log[topic[s]]) - (IF Pending(s) THEN 1 ELSE 0)
             ELSE 0

Contract == INSTANCE FanOut WITH
  IDs    <- CustomIDs \cup 0 .. MaxPublish,
  status <- [s \in Subscribers |-> Status(s)],
  rest   <- [s \in Subscribers |-> Rest(s)],
  cursor <- [s \in Subscribers |-> Cursor(s)],
  stream <- [s \in Subscribers |-> Stream(s)],
  lost   <- drops

ImplementsFanOut == Contract!Spec

-----------------------------------------------------------------------------
(* Liveness.                                                               *)

(* What a goroutine inside a call of the hub does next.  Beginning a call, *)
(* receiving and cancelling are up to the program that uses the hub.       *)
InsidePublish(p) ==
  \/ \E s \in Subscribers : Send(p, s)
  \/ PublishCount(p)
  \/ PublishReturn(p)

InsideSubscribe(s) ==
  ReplayOne(s) \/ ReplayCount(s) \/ SubscribeReturn(s) \/ UnsubscribeClose(s)

InsideClose(c) ==
  (\E s \in Subscribers : CloseOne(c, s)) \/ CloseReturn(c)

(* The Go scheduler runs every goroutine that can run; sync.Mutex hands    *)
(* the lock to a waiter that has been starved, hence strong fairness for   *)
(* taking it.  Nothing is assumed of consumers.                            *)
Fairness ==
  /\ \A p \in Publishers : /\ WF_vars(InsidePublish(p))
                           /\ SF_vars(PublishLock(p) \/ PublishClosed(p))
  /\ \A s \in Subscribers : WF_vars(InsideSubscribe(s))
  /\ \A c \in Closers : WF_vars(InsideClose(c))

FairSpec == Spec /\ Fairness

(* hub.go:39-42: slow subscribers do not block the hub.  Every Publish     *)
(* returns although no consumer ever has to receive; Subscribe returns,    *)
(* unless Close made it panic; and cancel closes the channel.              *)
CallsReturn ==
  /\ \A p \in Publishers : ppc[p] # "idle" ~> ppc[p] = "idle"
  /\ \A s \in Subscribers :
       /\ spc[s] \in {"replay", "count"} ~> spc[s] \in {"ready", "panicked"}
       /\ spc[s] = "cancel" ~> (spc[s] = "done" /\ chClosed[s])

(* Close ends every subscription: each one that had joined gets its        *)
(* channel closed, also one that is still replaying.                       *)
CloseEndsSubscriptions ==
  \A s \in Subscribers : (closed /\ spc[s] # "new") ~> chClosed[s]
=============================================================================
