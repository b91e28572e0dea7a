------------------------------- MODULE Queue --------------------------------
(***************************************************************************)
(* The in-memory queue of queue.go in front of the hub.  Producers and     *)
(* consumers use it from any goroutine; the members of Callers are         *)
(* goroutines that call Broadcast or BroadcastAll.                         *)
(*                                                                         *)
(* A critical section of q.mu is one action.  Broadcast and BroadcastAll    *)
(* take events under q.mu and publish them after it is released, one call  *)
(* of Hub.Publish after the other, so that between two of them everyone    *)
(* else acts.  The hub is FanOut seen from a publisher: it accepts an      *)
(* event into its topic's log or, closed, drops it; how many subscribers   *)
(* an event reaches, which the callers add up, is not told apart.          *)
(*                                                                         *)
(* An event is its number in the order in which its topic's events were    *)
(* enqueued.                                                               *)
(***************************************************************************)
EXTENDS Naturals, Sequences, Functions

CONSTANTS
  Topics,
  Callers,   (* goroutines that broadcast                                   *)
  NoTopic,   (* a caller that is between two topics                         *)
  MaxEvents  (* bound: events enqueued on a topic                           *)

ASSUME QueueAssumption == NoTopic \notin Topics /\ MaxEvents \in Nat

VARIABLES
  queues,     (* q.queues: a topic that has no events is not in its domain  *)
  cpc,        (* per caller: idle or publish                                *)
  hand,       (* per caller: what it took and has still to publish          *)
  cur,        (* per caller: the topic whose events it is publishing        *)
  closed,     (* the hub is closed                                          *)
  log,        (* per topic, what the hub accepted                           *)
  enqueued,   (* history: per topic, the number of events enqueued          *)
  taken,      (* history: per topic, what Dequeue and Drain returned        *)
  refused,    (* history: per topic, what a closed hub dropped              *)
  overlapped  (* history: topics whose events two callers held at a time    *)

callVars == <<cpc, hand, cur>>
hubVars == <<closed, log>>
history == <<enqueued, taken, refused, overlapped>>
vars == <<queues, callVars, hubVars, history>>

Empty == << >>

(* q.queues[t]: nil for a topic that is not there.                         *)
Vals(t) == IF t \in DOMAIN queues THEN queues[t] ELSE << >>

Put(m, t, s) == [x \in DOMAIN m \cup {t} |-> IF x = t THEN s ELSE m[x]]

Delete(m, t) == Restrict(m, DOMAIN m \ {t})

(* m[t] = m[t][1:], or t deleted if that leaves nothing.                   *)
Pop(m, t) == IF Len(m[t]) = 1 THEN Delete(m, t) ELSE Put(m, t, Tail(m[t]))

Init ==
  /\ queues = Empty
  /\ cpc = [g \in Callers |-> "idle"]
  /\ hand = [g \in Callers |-> Empty]
  /\ cur = [g \in Callers |-> NoTopic]
  /\ closed = FALSE
  /\ log = [t \in Topics |-> << >>]
  /\ enqueued = [t \in Topics |-> 0]
  /\ taken = [t \in Topics |-> << >>]
  /\ refused = [t \in Topics |-> << >>]
  /\ overlapped = {}

-----------------------------------------------------------------------------

(* Mutant of Enqueue: the event goes to the head.                          *)
EnqueueAtHead(t) ==
  /\ enqueued[t] < MaxEvents
  /\ enqueued' = [enqueued EXCEPT ![t] = @ + 1]
  /\ queues' = Put(queues, t, <<enqueued[t] + 1>> \o Vals(t))
  /\ UNCHANGED <<callVars, hubVars, taken, refused, overlapped>>

Enqueue(t) ==
  /\ enqueued[t] < MaxEvents
  /\ enqueued' = [enqueued EXCEPT ![t] = @ + 1]
  /\ queues' = Put(queues, t, Append(Vals(t), enqueued[t] + 1))
  /\ UNCHANGED <<callVars, hubVars, taken, refused, overlapped>>

(* Mutant of Dequeue: the entry of an emptied topic stays.                 *)
DequeueKeepsEntry(t) ==
  /\ Vals(t) # << >>
  /\ taken' = [taken EXCEPT ![t] = Append(@, Head(Vals(t)))]
  /\ queues' = Put(queues, t, Tail(Vals(t)))
  /\ UNCHANGED <<callVars, hubVars, enqueued, refused, overlapped>>

Dequeue(t) ==
  /\ Vals(t) # << >>
  /\ taken' = [taken EXCEPT ![t] = Append(@, Head(Vals(t)))]
  /\ queues' = Pop(queues, t)
  /\ UNCHANGED <<callVars, hubVars, enqueued, refused, overlapped>>

(* Drain, called by the application.                                       *)
Drain(t) ==
  /\ Vals(t) # << >>
  /\ taken' = [taken EXCEPT ![t] = @ \o Vals(t)]
  /\ queues' = Delete(queues, t)
  /\ UNCHANGED <<callVars, hubVars, enqueued, refused, overlapped>>

(* The caller holds batch, and the rest is left.                           *)
Take(g, batch, left) ==
  /\ cpc[g] = "idle"
  /\ cpc' = [cpc EXCEPT ![g] = "publish"]
  /\ hand' = [hand EXCEPT ![g] = batch]
  /\ queues' = left
  /\ overlapped' = overlapped \cup
       {t \in DOMAIN batch : \E k \in Callers : t \in DOMAIN hand[k]}
  /\ UNCHANGED <<cur, hubVars, enqueued, taken, refused>>

(* Broadcast drains its topic ...                                          *)
Broadcast(g, t) ==
  LET batch == IF t \in DOMAIN queues THEN Restrict(queues, {t}) ELSE Empty
  IN  Take(g, batch, Delete(queues, t))

(* Mutant of BroadcastAll: the map is read and not replaced.               *)
BroadcastAllKeepsMap(g) == Take(g, queues, queues)

(* ... and BroadcastAll takes the whole map and leaves a new one.          *)
BroadcastAll(g) == Take(g, queues, Empty)

(* Mutant of Publish: what the closed hub refuses is tried again.          *)
PublishRetries(g, t) ==
  /\ cpc[g] = "publish"
  /\ cur[g] \in {t, NoTopic}
  /\ t \in DOMAIN hand[g]
  /\ IF closed THEN UNCHANGED <<log, hand, cur>>
     ELSE /\ log' = [log EXCEPT ![t] = Append(@, Head(hand[g][t]))]
          /\ hand' = [hand EXCEPT ![g] = Pop(hand[g], t)]
          /\ cur' = [cur EXCEPT ![g] = IF Len(hand[g][t]) = 1 THEN NoTopic
                                       ELSE t]
  /\ UNCHANGED <<queues, cpc, closed, history>>

(* hub.Publish of the next event in the caller's hand: topics come in any  *)
(* order, the events of a topic first to last.                             *)
Publish(g, t) ==
  /\ cpc[g] = "publish"
  /\ cur[g] \in {t, NoTopic}
  /\ t \in DOMAIN hand[g]
  /\ \/ /\ ~closed
        /\ log' = [log EXCEPT ![t] = Append(@, Head(hand[g][t]))]
        /\ UNCHANGED refused
     \/ /\ closed
        /\ refused' = [refused EXCEPT ![t] = Append(@, Head(hand[g][t]))]
        /\ UNCHANGED log
  /\ hand' = [hand EXCEPT ![g] = Pop(hand[g], t)]
  /\ cur' = [cur EXCEPT ![g] = IF Len(hand[g][t]) = 1 THEN NoTopic ELSE t]
  /\ UNCHANGED <<queues, cpc, closed, enqueued, taken, overlapped>>

Return(g) ==
  /\ cpc[g] = "publish"
  /\ hand[g] = Empty
  /\ cpc' = [cpc EXCEPT ![g] = "idle"]
  /\ UNCHANGED <<queues, hand, cur, hubVars, history>>

(* Hub.Close.                                                              *)
HubClose ==
  /\ ~closed
  /\ closed' = TRUE
  /\ UNCHANGED <<queues, callVars, log, history>>

InsideCall(g) == (\E t \in Topics : Publish(g, t)) \/ Return(g)

Next ==
  \/ \E t \in Topics : Enqueue(t) \/ Dequeue(t) \/ Drain(t)
  \/ \E g \in Callers : \/ \E t \in Topics : Broadcast(g, t)
                        \/ BroadcastAll(g)
                        \/ InsideCall(g)
  \/ HubClose

Spec == Init /\ [][Next]_vars

(* A goroutine inside a call runs; h.mu is never held while its holder     *)
(* waits (Hub!CallsReturn), so a Publish is one step that happens.         *)
Fairness == \A g \in Callers : WF_vars(InsideCall(g))

FairSpec == Spec /\ Fairness

-----------------------------------------------------------------------------
(* Properties.                                                             *)

(* Topics with their events, none of them empty.                           *)
IsBatch(m) == /\ DOMAIN m \subseteq Topics
              /\ \A t \in DOMAIN m : m[t] \in Seq(Nat) /\ m[t] # << >>

(* The type invariant.  No topic is kept without events, so Topics()       *)
(* returns those that have some (queue.go:62), and the map does not grow   *)
(* with topics that came and went.                                         *)
TypeOK ==
  /\ IsBatch(queues)
  /\ cpc \in [Callers -> {"idle", "publish"}]
  /\ DOMAIN hand = Callers
  /\ \A g \in Callers : IsBatch(hand[g]) /\ (cpc[g] = "idle" => hand[g] = Empty)
  /\ cur \in [Callers -> Topics \cup {NoTopic}]
  /\ \A g \in Callers : cur[g] = NoTopic \/ cur[g] \in DOMAIN hand[g]
  /\ closed \in BOOLEAN
  /\ enqueued \in [Topics -> Nat]
  /\ {log, taken, refused} \subseteq [Topics -> Seq(Nat)]
  /\ overlapped \subseteq Topics

(* Where the events of a topic are, oldest first except in the hub.        *)
Places(t) ==
  {<<"queue", Vals(t)>>, <<"hub", log[t]>>, <<"consumer", taken[t]>>,
   <<"nowhere", refused[t]>>}
    \cup {<<g, hand[g][t]>> : g \in {k \in Callers : t \in DOMAIN hand[k]}}

(* No event is lost and none is duplicated, whatever the calls and however *)
(* they overlap: each one enqueued is once in one place, the queue, the    *)
(* hand of one caller, the hub, a consumer, or what a closed hub refused.  *)
EveryEventOnce ==
  \A t \in Topics :
    /\ \A e \in 1 .. enqueued[t] :
         \E p \in Places(t) : \E k \in DOMAIN p[2] : p[2][k] = e
    /\ \A p, q \in Places(t) : \A i \in DOMAIN p[2], j \in DOMAIN q[2] :
         p[2][i] = q[2][j] => p = q /\ i = j

(* queue.go:5-7: a topic reaches the hub first in, first out, unless two   *)
(* calls ever held events of it at the same time.  What is still queued    *)
(* is in any case younger than all that has left the queue.                *)
FirstInFirstOut ==
  \A t \in Topics :
    /\ \A p \in Places(t) : p[1] = "queue" \/
         \A i \in DOMAIN p[2], j \in DOMAIN Vals(t) : p[2][i] < Vals(t)[j]
    /\ t \notin overlapped =>
         \A i, j \in DOMAIN log[t] : i < j => log[t][i] < log[t][j]

(* A call returns, although events are enqueued all the time and the hub   *)
(* may be closed: it publishes what it took and no more.                   *)
CallsReturn == \A g \in Callers : cpc[g] = "publish" ~> cpc[g] = "idle"
=============================================================================
