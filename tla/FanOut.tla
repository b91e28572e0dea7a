------------------------------- MODULE FanOut -------------------------------
(***************************************************************************)
(* What the hub promises a subscriber, without locks, rings or channels.   *)
(*                                                                         *)
(* Each topic is one growing log of accepted events.  A subscription joins *)
(* at some point of its topic's log, with an unbroken run of events before *)
(* that point still to be replayed.  From then on every event of the run,  *)
(* and every event accepted later while it stays attached, is decided      *)
(* exactly once and in log order: it is appended to the subscriber's       *)
(* stream or it is counted as lost.  How the two sequences of decisions    *)
(* interleave is not promised.                                             *)
(***************************************************************************)
EXTENDS Naturals, Sequences

CONSTANTS Topics, Subscribers, NoTopic,
          IDs  (* the IDs events may carry, empty or not *)

VARIABLES
  closed,  (* the hub is closed: nothing is accepted any more               *)
  log,     (* per topic, the accepted events                                *)
  status,  (* per subscription: new, attached or detached                   *)
  topic,   (* per subscription, the topic it joined                         *)
  rest,    (* per subscription, the events still to be replayed             *)
  cursor,  (* per attached subscription, how far into the log decisions go  *)
  stream,  (* per subscription, what was enqueued                           *)
  lost     (* per subscription, how many events were not                    *)

vars == <<closed, log, status, topic, rest, cursor, stream, lost>>

Init ==
  /\ closed = FALSE
  /\ log = [t \in Topics |-> << >>]
  /\ status = [s \in Subscribers |-> "new"]
  /\ topic = [s \in Subscribers |-> NoTopic]
  /\ rest = [s \in Subscribers |-> << >>]
  /\ cursor = [s \in Subscribers |-> 0]
  /\ stream = [s \in Subscribers |-> << >>]
  /\ lost = [s \in Subscribers |-> 0]

Accept(t) ==
  /\ ~closed
  /\ \E id \in IDs :
       log' = [log EXCEPT ![t] = Append(@, [pos |-> Len(@) + 1, id |-> id])]
  /\ UNCHANGED <<closed, status, topic, rest, cursor, stream, lost>>

Attach(s, t) ==
  /\ status[s] = "new"
  /\ ~closed
  /\ status' = [status EXCEPT ![s] = "attached"]
  /\ topic' = [topic EXCEPT ![s] = t]
  /\ cursor' = [cursor EXCEPT ![s] = Len(log[t])]
  /\ \E k \in 0 .. Len(log[t]) :
       rest' = [rest EXCEPT ![s] = SubSeq(log[t], k + 1, Len(log[t]))]
  /\ UNCHANGED <<closed, log, stream, lost>>

AttachClosed(s, t) ==
  /\ status[s] = "new"
  /\ closed
  /\ status' = [status EXCEPT ![s] = "detached"]
  /\ topic' = [topic EXCEPT ![s] = t]
  /\ UNCHANGED <<closed, log, rest, cursor, stream, lost>>

(* An event is enqueued or counted.                                        *)
Decide(s, ev) ==
  \/ stream' = [stream EXCEPT ![s] = Append(@, ev)] /\ UNCHANGED lost
  \/ lost' = [lost EXCEPT ![s] = @ + 1] /\ UNCHANGED stream

DecideReplay(s) ==
  /\ rest[s] # << >>
  /\ Decide(s, Head(rest[s]))
  /\ rest' = [rest EXCEPT ![s] = Tail(@)]
  /\ UNCHANGED <<closed, log, status, topic, cursor>>

DecideLive(s) ==
  /\ status[s] = "attached"
  /\ cursor[s] < Len(log[topic[s]])
  /\ Decide(s, log[topic[s]][cursor[s] + 1])
  /\ cursor' = [cursor EXCEPT ![s] = @ + 1]
  /\ UNCHANGED <<closed, log, status, topic, rest>>

Detach(s) ==
  /\ status[s] = "attached"
  /\ status' = [status EXCEPT ![s] = "detached"]
  /\ cursor' = [cursor EXCEPT ![s] = 0]
  /\ UNCHANGED <<closed, log, topic, rest, stream, lost>>

(* Closing detaches everyone at once.                                      *)
Shutdown ==
  LET attached == {s \in Subscribers : status[s] = "attached"}
  IN  /\ ~closed
      /\ closed' = TRUE
      /\ status' = [s \in Subscribers |->
                      IF s \in attached THEN "detached" ELSE status[s]]
      /\ cursor' = [s \in Subscribers |->
                      IF s \in attached THEN 0 ELSE cursor[s]]
      /\ UNCHANGED <<log, topic, rest, stream, lost>>

Next ==
  \/ \E t \in Topics : Accept(t)
  \/ \E s \in Subscribers :
       \/ \E t \in Topics : Attach(s, t) \/ AttachClosed(s, t)
       \/ DecideReplay(s)
       \/ DecideLive(s)
       \/ Detach(s)
  \/ Shutdown

Spec == Init /\ [][Next]_vars
=============================================================================
