----------------------------- MODULE HubProofs ------------------------------
(***************************************************************************)
(* The hub for every number of goroutines, topics, events, every buffer    *)
(* capacity and every ring size, in four parts: its types; who may close a *)
(* channel; what a subscriber receives (nothing is lost uncounted, nothing *)
(* comes twice or out of order, and a replay ends where the live events    *)
(* begin); and that it implements FanOut.                                  *)
(***************************************************************************)
EXTENDS Hub, ReplayBufferProofs

-----------------------------------------------------------------------------
(* The values the replay machinery hands around.                           *)

LEMMA NoEventIsEvent == NoEvent \in Event
BY DEF NoEvent, NoID, Event

LEMMA BufferIsRing ==
  ASSUME HubAssumption, NEW b, IsBuffer(b)
  PROVE  \E n \in Nat : b \in RingOf(n, Event)
<1>1. NoBuffer \in RingOf(0, Event)
  BY NoEventIsEvent, NewReplayBufferType DEF NoBuffer
<1> QED BY <1>1 DEF IsBuffer, HubAssumption

LEMMA BufferReads ==
  ASSUME HubAssumption, NEW b, IsBuffer(b), NEW id
  PROVE  Snapshot(b) \in Seq(Event) /\ Since(b, id) \in Seq(Event)
<1>1. PICK n \in Nat : b \in RingOf(n, Event)
  BY BufferIsRing
<1> QED BY <1>1, SnapshotSlots, SinceIsSuffix

(* The ring Publish pushes to, before the push.                            *)
RingFor(t) == IF replays[t] = NoBuffer THEN NewReplayBuffer(replaySize)
              ELSE replays[t]

LEMMA RingForType ==
  ASSUME HubAssumption, TypeOK, NEW t \in Topics, replaySize # 0
  PROVE  \E n \in ReplaySizes \ {0} : n \in Nat /\ RingFor(t) \in RingOf(n, Event)
<1>1. replaySize \in ReplaySizes \ {0} /\ replaySize \in Nat
  BY DEF TypeOK, HubTypes, HubAssumption
<1>2. CASE replays[t] = NoBuffer
  BY <1>1, <1>2, NoEventIsEvent, NewReplayBufferType DEF RingFor
<1>3. CASE replays[t] # NoBuffer
  BY <1>3 DEF TypeOK, HubTypes, IsBuffer, RingFor, HubAssumption
<1> QED BY <1>2, <1>3

LEMMA PushReplayType ==
  ASSUME HubAssumption, TypeOK, NEW t \in Topics, NEW ev \in Event
  PROVE  /\ PushReplay(t, ev) = [u \in Topics |-> PushReplay(t, ev)[u]]
         /\ \A u \in Topics : IsBuffer(PushReplay(t, ev)[u])
<1>1. CASE replaySize = 0
  BY <1>1 DEF PushReplay, TypeOK, HubTypes
<1>2. CASE replaySize # 0
  <2>1. PICK n \in ReplaySizes \ {0} : n \in Nat /\ RingFor(t) \in RingOf(n, Event)
    BY <1>2, RingForType
  <2>2. IsBuffer(Push(RingFor(t), ev))
    BY <2>1, PushType DEF IsBuffer
  <2>3. PushReplay(t, ev) = [replays EXCEPT ![t] = Push(RingFor(t), ev)]
    BY <1>2 DEF PushReplay, RingFor
  <2>4. /\ replays = [u \in Topics |-> replays[u]]
        /\ \A u \in Topics : IsBuffer(replays[u])
    BY DEF TypeOK, HubTypes
  <2> QED BY <2>2, <2>3, <2>4
<1> QED BY <1>1, <1>2

-----------------------------------------------------------------------------
(* Type correctness.                                                       *)

LEMMA TypeInit == HubAssumption /\ Init => TypeOK
<1> SUFFICES ASSUME HubAssumption, Init PROVE TypeOK
  OBVIOUS
<1>1. NoEvent \in Event /\ << >> \in Seq(Event)
  BY NoEventIsEvent
<1>2. HubTypes
  BY <1>1 DEF Init, HubTypes, IsBuffer
<1>3. PublisherTypes
  BY <1>1 DEF Init, PublisherTypes
<1>4. SubscriberTypes
  BY <1>1 DEF Init, SubscriberTypes
<1>5. EndTypes
  BY DEF Init, EndTypes
<1>6. HistoryTypes
  BY <1>1 DEF Init, HistoryTypes, NoID
<1> QED BY <1>2, <1>3, <1>4, <1>5, <1>6 DEF TypeOK

LEMMA TypeStep == HubAssumption /\ TypeOK /\ [Next]_vars => TypeOK'
<1> SUFFICES ASSUME HubAssumption, TypeOK, [Next]_vars PROVE TypeOK'
  OBVIOUS
<1> USE DEF hubVars, pubVars, subVars, endVars, history, TypeOK
<1>1. ASSUME NEW n \in ReplaySizes, EnableReplay(n) PROVE TypeOK'
  BY <1>1 DEF EnableReplay, HubTypes, IsBuffer,
              PublisherTypes, SubscriberTypes, EndTypes, HistoryTypes
<1>2. ASSUME NEW p \in Publishers, NEW t \in Topics,
             NEW id \in CustomIDs \cup {NoID}, PublishBegin(p, t, id)
      PROVE  TypeOK'
  <2>1. id \in Nat /\ idSeq \in Nat
    BY DEF HubAssumption, NoID, HubTypes
  <2>2. HubTypes'
    BY <1>2, <2>1 DEF PublishBegin, HubTypes
  <2>3. PublisherTypes'
    <3> DEFINE e == [pos |-> 0, id |-> IF id = NoID /\ replaySize > 0
                                       THEN idSeq + 1 ELSE id]
    <3>1. e \in Event
      BY <2>1 DEF Event
    <3>2. pev' = [pev EXCEPT ![p] = [topic |-> t, ev |-> e]]
      BY <1>2 DEF PublishBegin
    <3> HIDE DEF e
    <3>3. pev' \in [Publishers -> [topic : Topics \cup {NoTopic}, ev : Event]]
      BY <3>1, <3>2 DEF PublisherTypes
    <3>4. \A q \in Publishers : ppc'[q] # "idle" => pev'[q].topic \in Topics
      BY <1>2, <3>2 DEF PublishBegin, PublisherTypes
    <3> QED BY <1>2, <3>3, <3>4 DEF PublishBegin, PublisherTypes
  <2>4. SubscriberTypes' /\ EndTypes' /\ HistoryTypes'
    BY <1>2 DEF PublishBegin, SubscriberTypes, EndTypes, HistoryTypes
  <2> QED BY <2>2, <2>3, <2>4
<1>3. ASSUME NEW p \in Publishers, PublishLock(p) PROVE TypeOK'
  <2> DEFINE t == pev[p].topic
             e == [pos |-> Len(log[t]) + 1, id |-> pev[p].ev.id]
  <2>1. t \in Topics /\ pev[p].ev \in Event /\ log[t] \in Seq(Event)
    BY <1>3 DEF PublishLock, PublisherTypes, HistoryTypes
  <2>2. e \in Event
    BY <2>1, LenProperties DEF Event
  <2>3. /\ replays' = PushReplay(t, e)
        /\ pev' = [pev EXCEPT ![p].ev = e]
        /\ todo' = [todo EXCEPT ![p] = subs[t]]
        /\ log' = [log EXCEPT ![t] = Append(@, e)]
    BY <1>3 DEF PublishLock
  <2> HIDE DEF e, t
  <2>4. HubTypes'
    BY <1>3, <2>1, <2>2, <2>3, PushReplayType DEF PublishLock, HubTypes
  <2>5. PublisherTypes'
    <3>1. pev' \in [Publishers -> [topic : Topics \cup {NoTopic}, ev : Event]]
      BY <2>2, <2>3 DEF PublisherTypes
    <3>2. todo' \in [Publishers -> SUBSET Subscribers]
      BY <2>1, <2>3 DEF PublisherTypes, HubTypes
    <3>3. /\ ppc[p] = "lock" /\ ppc' = [ppc EXCEPT ![p] = "send"]
          /\ calls' = calls
      BY <1>3 DEF PublishLock
    <3>4. \A q \in Publishers : pev'[q].topic = pev[q].topic
      BY <2>3 DEF PublisherTypes
    <3> QED BY <3>1, <3>2, <3>3, <3>4 DEF PublisherTypes
  <2>6. SubscriberTypes' /\ EndTypes'
    BY <1>3 DEF PublishLock, SubscriberTypes, EndTypes
  <2>7. HistoryTypes'
    <3>1. Append(log[t], e) \in Seq(Event)
      BY <2>1, <2>2, AppendProperties
    <3>2. log' \in [Topics -> Seq(Event)]
      BY <2>1, <2>3, <3>1 DEF HistoryTypes
    <3> QED BY <1>3, <3>2 DEF PublishLock, HistoryTypes
  <2> QED BY <2>4, <2>5, <2>6, <2>7
<1>4. ASSUME NEW p \in Publishers, PublishClosed(p) PROVE TypeOK'
  BY <1>4, NoEventIsEvent DEF PublishClosed, HubTypes, IsBuffer,
              PublisherTypes, SubscriberTypes, EndTypes, HistoryTypes
<1>5. ASSUME NEW p \in Publishers, NEW s \in Subscribers, Send(p, s)
      PROVE  TypeOK'
  <2>1. HubTypes' /\ HistoryTypes'
    BY <1>5 DEF Send, HubTypes, HistoryTypes
  <2>2. PublisherTypes'
    BY <1>5 DEF Send, PublisherTypes
  <2>3. pev[p].ev \in Event
    BY DEF PublisherTypes
  <2>4. ch' \in [Subscribers -> Seq(Event)]
    <3>1. Append(ch[s], pev[p].ev) \in Seq(Event)
      BY <2>3, AppendProperties DEF SubscriberTypes
    <3>2. ch' = [ch EXCEPT ![s] = Append(ch[s], pev[p].ev)] \/ ch' = ch
      BY <1>5 DEF Send
    <3> QED BY <3>1, <3>2 DEF SubscriberTypes
  <2>5. drops' \in [Subscribers -> Nat]
    <3>1. \/ drops' = [drops EXCEPT ![s] = drops[s] + 1]
          \/ drops' = [drops EXCEPT ![s] = drops[s]]
          \/ drops' = drops
      BY <1>5 DEF Send
    <3> QED BY <3>1 DEF SubscriberTypes
  <2>6. SubscriberTypes'
    BY <1>5, <2>4, <2>5 DEF Send, SubscriberTypes
  <2>7. EndTypes'
    BY <1>5 DEF Send, EndTypes
  <2> QED BY <2>1, <2>2, <2>6, <2>7
<1>6. ASSUME NEW p \in Publishers, PublishCount(p) PROVE TypeOK'
  BY <1>6 DEF PublishCount, HubTypes, IsBuffer,
              PublisherTypes, SubscriberTypes, EndTypes, HistoryTypes
<1>7. ASSUME NEW p \in Publishers, PublishReturn(p) PROVE TypeOK'
  BY <1>7, NoEventIsEvent DEF PublishReturn, HubTypes, IsBuffer,
              PublisherTypes, SubscriberTypes, EndTypes, HistoryTypes
<1>8. ASSUME NEW s \in Subscribers, NEW t \in Topics,
             NEW events \in Seq(Event), Join(s, t, events)
      PROVE  TypeOK'
  <2>1. HubTypes'
    BY <1>8 DEF Join, HubTypes
  <2>2. PublisherTypes' /\ EndTypes'
    BY <1>8 DEF Join, PublisherTypes, EndTypes
  <2>3. SubscriberTypes'
    BY <1>8 DEF Join, SubscriberTypes
  <2>4. HistoryTypes'
    BY <1>8, LenProperties DEF Join, HistoryTypes
  <2> QED BY <2>1, <2>2, <2>3, <2>4
<1>9. ASSUME NEW s \in Subscribers, NEW t \in Topics, SubscribeClosed(s, t)
      PROVE  TypeOK'
  BY <1>9 DEF SubscribeClosed, HubTypes, IsBuffer,
              PublisherTypes, SubscriberTypes, EndTypes, HistoryTypes
<1>10. ASSUME NEW s \in Subscribers, ReplayOne(s) PROVE TypeOK'
  <2>1. HubTypes' /\ PublisherTypes' /\ HistoryTypes'
    BY <1>10 DEF ReplayOne, HubTypes, PublisherTypes, HistoryTypes
  <2>2. replay[s] \in Seq(Event) /\ ri[s] \in Nat /\ ri[s] < Len(replay[s])
    BY <1>10 DEF ReplayOne, SubscriberTypes
  <2>3. replay[s][ri[s] + 1] \in Event
    BY <2>2, ElementOfSeq, LenProperties
  <2>4. ch' \in [Subscribers -> Seq(Event)]
    <3> DEFINE e == replay[s][ri[s] + 1]
    <3>1. Append(ch[s], e) \in Seq(Event)
      BY <2>3, AppendProperties DEF SubscriberTypes
    <3>2. ch' = [ch EXCEPT ![s] = Append(ch[s], e)] \/ ch' = ch
      BY <1>10 DEF ReplayOne
    <3> HIDE DEF e
    <3> QED BY <3>1, <3>2 DEF SubscriberTypes
  <2>5. drops' \in [Subscribers -> Nat] /\ ri' \in [Subscribers -> Nat]
    <3>1. drops' = [drops EXCEPT ![s] = drops[s] + 1] \/ drops' = drops
      BY <1>10 DEF ReplayOne
    <3>2. ri' = [ri EXCEPT ![s] = ri[s] + 1] \/ ri' = ri
      BY <1>10 DEF ReplayOne
    <3>3. drops \in [Subscribers -> Nat] /\ ri \in [Subscribers -> Nat]
      BY DEF SubscriberTypes
    <3>4. drops' \in [Subscribers -> Nat]
      BY <3>1, <3>3
    <3>5. ri' \in [Subscribers -> Nat]
      BY <3>2, <3>3
    <3> QED BY <3>4, <3>5
  <2>6. SubscriberTypes'
    BY <1>10, <2>4, <2>5 DEF ReplayOne, SubscriberTypes
  <2>7. EndTypes'
    BY <1>10 DEF ReplayOne, EndTypes
  <2> QED BY <2>1, <2>6, <2>7
<1>11. ASSUME NEW s \in Subscribers, ReplayCount(s) PROVE TypeOK'
  <2>1. HubTypes'
    BY <1>11 DEF ReplayCount, HubTypes
  <2>2. SubscriberTypes'
    BY <1>11 DEF ReplayCount, SubscriberTypes
  <2>3. PublisherTypes' /\ EndTypes' /\ HistoryTypes'
    BY <1>11 DEF ReplayCount, PublisherTypes, EndTypes, HistoryTypes
  <2> QED BY <2>1, <2>2, <2>3
<1>12. ASSUME NEW s \in Subscribers, SubscribeReturn(s) PROVE TypeOK'
  BY <1>12 DEF SubscribeReturn, HubTypes, IsBuffer,
              PublisherTypes, SubscriberTypes, EndTypes, HistoryTypes
<1>13. ASSUME NEW s \in Subscribers, Receive(s) PROVE TypeOK'
  <2>1. HubTypes' /\ PublisherTypes' /\ EndTypes'
    BY <1>13 DEF Receive, HubTypes, PublisherTypes, EndTypes
  <2>2. /\ ch[s] \in Seq(Event) /\ ch[s] # << >> /\ got[s] \in Seq(Event)
    BY <1>13 DEF Receive, SubscriberTypes, HistoryTypes
  <2>3. Head(ch[s]) \in Event /\ Tail(ch[s]) \in Seq(Event)
    BY <2>2, HeadTailProperties
  <2>4. SubscriberTypes'
    BY <1>13, <2>3 DEF Receive, SubscriberTypes
  <2>5. HistoryTypes'
    BY <1>13, <2>2, <2>3, AppendProperties DEF Receive, HistoryTypes
  <2> QED BY <2>1, <2>4, <2>5
<1>14. ASSUME NEW s \in Subscribers, Unsubscribe(s) PROVE TypeOK'
  BY <1>14 DEF Unsubscribe, HubTypes, IsBuffer,
              PublisherTypes, SubscriberTypes, EndTypes, HistoryTypes
<1>15. ASSUME NEW s \in Subscribers, UnsubscribeClose(s) PROVE TypeOK'
  BY <1>15 DEF UnsubscribeClose, CloseChannel, HubTypes, IsBuffer,
              PublisherTypes, SubscriberTypes, EndTypes, HistoryTypes
<1>16. ASSUME NEW c \in Closers, CloseLock(c) PROVE TypeOK'
  BY <1>16 DEF CloseLock, HubTypes, IsBuffer,
              PublisherTypes, SubscriberTypes, EndTypes, HistoryTypes
<1>17. ASSUME NEW c \in Closers, CloseAgain(c) PROVE TypeOK'
  BY <1>17 DEF CloseAgain, HubTypes, IsBuffer,
              PublisherTypes, SubscriberTypes, EndTypes, HistoryTypes
<1>18. ASSUME NEW c \in Closers, NEW s \in Subscribers, CloseOne(c, s)
       PROVE  TypeOK'
  BY <1>18 DEF CloseOne, CloseChannel, HubTypes, IsBuffer,
              PublisherTypes, SubscriberTypes, EndTypes, HistoryTypes
<1>19. ASSUME NEW c \in Closers, CloseReturn(c) PROVE TypeOK'
  BY <1>19 DEF CloseReturn, HubTypes, IsBuffer,
              PublisherTypes, SubscriberTypes, EndTypes, HistoryTypes
<1>20. CASE UNCHANGED vars
  BY <1>20 DEF vars, HubTypes, IsBuffer,
              PublisherTypes, SubscriberTypes, EndTypes, HistoryTypes
<1>21. ASSUME NEW s \in Subscribers, NEW t \in Topics, Subscribe(s, t)
       PROVE  TypeOK'
  <2>1. Snapshot(replays[t]) \in Seq(Event)
    BY BufferReads DEF HubTypes
  <2> QED BY <1>8, <1>21, <2>1 DEF Subscribe
<1>22. ASSUME NEW s \in Subscribers, NEW t \in Topics, NEW id \in KnownIDs(t),
              SubscribeSince(s, t, id)
       PROVE  TypeOK'
  <2>1. Since(replays[t], id) \in Seq(Event)
    BY BufferReads DEF HubTypes
  <2> QED BY <1>8, <1>22, <2>1 DEF SubscribeSince
<1>23. CASE Terminating
  BY <1>20, <1>23 DEF Terminating
<1> QED BY <1>1, <1>2, <1>3, <1>4, <1>5, <1>6, <1>7, <1>9, <1>10, <1>11, <1>12,
           <1>13, <1>14, <1>15, <1>16, <1>17, <1>18, <1>19, <1>20, <1>21, <1>22,
           <1>23 DEF Next, PublisherStep, SubscriberStep, CloserStep

(* Type correctness of the hub.                                            *)
THEOREM TypeCorrect == Spec => []TypeOK
<1>1. HubAssumption
  BY HubAssumption
<1> QED BY <1>1, TypeInit, TypeStep, PTL DEF Spec

-----------------------------------------------------------------------------
(* Channels: who closes them, and that nobody sends on a closed one.       *)

LEMMA OwnershipInit == HubAssumption /\ Init => OwnershipInv
BY DEF Init, OwnershipInv, RegisteredOpen, PublishCancelCloseNeverPanic

LEMMA OwnershipStep ==
  HubAssumption /\ TypeOK /\ OwnershipInv /\ [Next]_vars => OwnershipInv'
<1> SUFFICES ASSUME HubAssumption, TypeOK, OwnershipInv, [Next]_vars
             PROVE  OwnershipInv'
  OBVIOUS
<1> USE DEF hubVars, pubVars, subVars, endVars, history, TypeOK, OwnershipInv,
            RegisteredOpen, PublishCancelCloseNeverPanic
<1>1. ASSUME UNCHANGED <<closed, subs, topic, spc, subClosed, chClosed,
                         toClose, panicked>>
      PROVE  OwnershipInv'
  BY <1>1
<1>1a. ASSUME NEW s \in Subscribers, NEW v \in {"replay", "count", "ready"},
              spc[s] \in {"replay", "count"},
              spc' = [spc EXCEPT ![s] = v],
              UNCHANGED <<closed, subs, topic, subClosed, chClosed, toClose,
                          panicked>>
       PROVE  OwnershipInv'
  <2>1. \A r \in Subscribers : spc'[r] = IF r = s THEN v ELSE spc[r]
    BY <1>1a DEF SubscriberTypes
  <2>2. RegisteredOpen'
    BY <1>1a, <2>1 DEF HubTypes
  <2>3. PublishCancelCloseNeverPanic'
    BY <1>1a, <2>1
  <2>4. \A r \in Subscribers : spc'[r] = "new" => spc[r] = "new"
    BY <2>1
  <2>5. \A c \in Closers : \A r \in toClose'[c] : closed' /\ spc'[r] # "new"
    BY <1>1a, <2>4 DEF EndTypes
  <2> QED BY <1>1a, <2>2, <2>3, <2>4, <2>5
<1>2. ASSUME NEW n \in ReplaySizes, EnableReplay(n) PROVE OwnershipInv'
  BY <1>1, <1>2 DEF EnableReplay
<1>3. ASSUME NEW p \in Publishers,
             \/ \E t \in Topics, id \in CustomIDs \cup {NoID} : PublishBegin(p, t, id)
             \/ PublishLock(p) \/ PublishClosed(p)
             \/ PublishCount(p) \/ PublishReturn(p)
      PROVE  OwnershipInv'
  BY <1>1, <1>3 DEF PublishBegin, PublishLock, PublishClosed, PublishCount,
                    PublishReturn
<1>4. ASSUME NEW p \in Publishers, NEW s \in Subscribers, Send(p, s)
      PROVE  OwnershipInv'
  <2>1. panicked' = panicked
    BY <1>4 DEF Send
  <2> QED BY <1>1, <1>4, <2>1 DEF Send
<1>5. ASSUME NEW s \in Subscribers, NEW t \in Topics,
             NEW events, Join(s, t, events)
      PROVE  OwnershipInv'
  <2>1. /\ spc[s] = "new" /\ ~closed /\ ~chClosed[s] /\ ~subClosed[s]
        /\ \A c \in Closers : s \notin toClose[c]
        /\ \A u \in Topics : s \notin subs[u]
    BY <1>5 DEF Join
  <2>2. /\ subs' = [subs EXCEPT ![t] = @ \cup {s}]
        /\ topic' = [topic EXCEPT ![s] = t]
        /\ spc' = [spc EXCEPT ![s] = "replay"]
        /\ UNCHANGED <<closed, chClosed, subClosed, toClose, panicked>>
    BY <1>5 DEF Join
  <2>3. RegisteredOpen'
    <3> SUFFICES ASSUME NEW u \in Topics, NEW r \in subs'[u]
                 PROVE  /\ ~closed'
                        /\ topic'[r] = u
                        /\ spc'[r] \in {"replay", "count", "ready"}
                        /\ ~subClosed'[r] /\ ~chClosed'[r]
      OBVIOUS
    <3>1. CASE r = s
      <4>1. u = t
        BY <2>1, <2>2, <3>1 DEF HubTypes
      <4> QED BY <2>1, <2>2, <3>1, <4>1 DEF SubscriberTypes
    <3>2. CASE r # s
      <4>1. r \in subs[u] /\ r \in Subscribers
        BY <2>2, <3>2 DEF HubTypes
      <4> QED BY <2>2, <3>2, <4>1 DEF SubscriberTypes
    <3> QED BY <3>1, <3>2
  <2>4. PublishCancelCloseNeverPanic'
    BY <2>1, <2>2 DEF SubscriberTypes
  <2>5. \A r \in Subscribers : spc'[r] = "new" => ~chClosed'[r]
    BY <2>2 DEF SubscriberTypes
  <2>6. \A c \in Closers : \A r \in toClose'[c] : closed' /\ spc'[r] # "new"
    BY <2>1, <2>2 DEF SubscriberTypes
  <2> QED BY <2>2, <2>3, <2>4, <2>5, <2>6
<1>6. ASSUME NEW s \in Subscribers, NEW t \in Topics, SubscribeClosed(s, t)
      PROVE  OwnershipInv'
  <2>1. \A u \in Topics : subs[u] = {}
    BY <1>6 DEF SubscribeClosed, HubTypes
  <2> QED BY <1>6, <2>1 DEF SubscribeClosed, SubscriberTypes, EndTypes
<1>7. ASSUME NEW s \in Subscribers, ReplayOne(s) PROVE OwnershipInv'
  <2>1. CASE chClosed[s]
    <3>1. \A u \in Topics : s \notin subs[u]
      BY <2>1
    <3>2. /\ spc' = [spc EXCEPT ![s] = "panicked"]
          /\ panicked' = panicked \cup {s}
          /\ UNCHANGED <<closed, subs, topic, subClosed, chClosed, toClose>>
      BY <1>7, <2>1 DEF ReplayOne
    <3>3. \A r \in Subscribers : spc'[r] = IF r = s THEN "panicked" ELSE spc[r]
      BY <3>2 DEF SubscriberTypes
    <3>4. RegisteredOpen'
      BY <3>1, <3>2, <3>3 DEF HubTypes
    <3>5. PublishCancelCloseNeverPanic'
      BY <3>2, <3>3
    <3>6. \A r \in Subscribers : spc'[r] = "new" => spc[r] = "new"
      BY <3>3
    <3>7. \A c \in Closers : \A r \in toClose'[c] : closed' /\ spc'[r] # "new"
      BY <3>2, <3>6 DEF EndTypes
    <3> QED BY <3>2, <3>4, <3>5, <3>6, <3>7
  <2>2. CASE ~chClosed[s]
    <3>1. /\ spc' = [spc EXCEPT ![s] = "count"] \/ spc' = spc
          /\ spc[s] = "replay"
          /\ UNCHANGED <<closed, subs, topic, subClosed, chClosed, toClose, panicked>>
      BY <1>7, <2>2 DEF ReplayOne
    <3> QED BY <1>1, <1>1a, <3>1
  <2> QED BY <2>1, <2>2
<1>8. ASSUME NEW s \in Subscribers, ReplayCount(s) \/ SubscribeReturn(s)
      PROVE  OwnershipInv'
  <2>1. /\ spc' = [spc EXCEPT ![s] = "replay"] \/ spc' = [spc EXCEPT ![s] = "ready"]
        /\ spc[s] \in {"replay", "count"}
        /\ UNCHANGED <<closed, subs, topic, subClosed, chClosed, toClose, panicked>>
    BY <1>8 DEF ReplayCount, SubscribeReturn
  <2> QED BY <1>1a, <2>1
<1>9. ASSUME NEW s \in Subscribers, Receive(s) PROVE OwnershipInv'
  BY <1>1, <1>9 DEF Receive
<1>10. ASSUME NEW s \in Subscribers, Unsubscribe(s) PROVE OwnershipInv'
  <2>1. /\ subs' = [subs EXCEPT ![topic[s]] = @ \ {s}]
        /\ spc' = [spc EXCEPT ![s] = "cancel"]
        /\ spc[s] = "ready"
        /\ UNCHANGED <<closed, topic, subClosed, chClosed, toClose, panicked>>
    BY <1>10 DEF Unsubscribe
  <2>2. \A u \in Topics : \A r \in subs'[u] : r \in subs[u] /\ r # s
    BY <2>1 DEF HubTypes, SubscriberTypes
  <2>3. RegisteredOpen'
    BY <2>1, <2>2 DEF HubTypes, SubscriberTypes
  <2> QED BY <2>1, <2>3 DEF SubscriberTypes, EndTypes
<1>11. ASSUME NEW s \in Subscribers, UnsubscribeClose(s) PROVE OwnershipInv'
  <2>1. /\ spc[s] = "cancel"
        /\ spc' = [spc EXCEPT ![s] = "done"]
        /\ subClosed' = [subClosed EXCEPT ![s] = TRUE]
        /\ chClosed' = [chClosed EXCEPT ![s] = TRUE]
        /\ UNCHANGED <<closed, subs, topic, toClose, panicked>>
    BY <1>11 DEF UnsubscribeClose, CloseChannel, SubscriberTypes
  <2>2. \A u \in Topics : s \notin subs[u]
    BY <2>1
  <2> QED BY <2>1, <2>2 DEF SubscriberTypes, EndTypes, HubTypes
<1>12. ASSUME NEW c \in Closers, CloseLock(c) PROVE OwnershipInv'
  <2>1. /\ closed' = TRUE
        /\ toClose' = [toClose EXCEPT ![c] = UNION {subs[t] : t \in Topics}]
        /\ subs' = [t \in Topics |-> {}]
        /\ UNCHANGED <<topic, spc, subClosed, chClosed, panicked>>
    BY <1>12 DEF CloseLock
  <2>2. \A s \in UNION {subs[t] : t \in Topics} : spc[s] # "new"
    OBVIOUS
  <2> QED BY <2>1, <2>2 DEF EndTypes
<1>13. ASSUME NEW c \in Closers, CloseAgain(c) \/ CloseReturn(c)
       PROVE  OwnershipInv'
  BY <1>1, <1>13 DEF CloseAgain, CloseReturn
<1>14. ASSUME NEW c \in Closers, NEW s \in Subscribers, CloseOne(c, s)
       PROVE  OwnershipInv'
  <2>1. /\ s \in toClose[c]
        /\ toClose' = [toClose EXCEPT ![c] = @ \ {s}]
        /\ subClosed' = [subClosed EXCEPT ![s] = TRUE]
        /\ chClosed' = [chClosed EXCEPT ![s] = TRUE]
        /\ UNCHANGED <<closed, subs, topic, spc, panicked>>
    BY <1>14 DEF CloseOne, CloseChannel, SubscriberTypes
  <2>2. closed /\ spc[s] # "new" /\ \A u \in Topics : subs[u] = {}
    BY <2>1 DEF HubTypes
  <2> QED BY <2>1, <2>2 DEF SubscriberTypes, EndTypes
<1>15. CASE UNCHANGED vars
  BY <1>1, <1>15 DEF vars
<1>16. CASE Terminating
  BY <1>15, <1>16 DEF Terminating
<1> QED
  BY <1>2, <1>3, <1>4, <1>5, <1>6, <1>7, <1>8, <1>9, <1>10, <1>11, <1>12,
     <1>13, <1>14, <1>15, <1>16
  DEF Next, PublisherStep, SubscriberStep, CloserStep, Subscribe, SubscribeSince

(* Who may close a channel, and when: the invariant that the two theorems   *)
(* below read off.                                                         *)
THEOREM Ownership == Spec => []OwnershipInv
<1>1. HubAssumption
  BY HubAssumption
<1> QED BY <1>1, OwnershipInit, OwnershipStep, TypeCorrect, PTL DEF Spec

(* Publish only ever meets open subscriptions: both ways of ending one     *)
(* unregister it under h.mu first.                                         *)
THEOREM RegisteredStayOpen == Spec => []RegisteredOpen
BY Ownership, PTL DEF OwnershipInv

(* Whatever the interleaving of Publish, cancel and Close, none of them    *)
(* sends on a closed channel or closes a channel twice.                    *)
THEOREM NeverPanic == Spec => []PublishCancelCloseNeverPanic
BY Ownership, PTL DEF OwnershipInv

-----------------------------------------------------------------------------
(* What the other invariants rest on: the types, and who may close what.   *)
BaseInv == HubAssumption /\ TypeOK /\ OwnershipInv

-----------------------------------------------------------------------------
(* The lock.                                                               *)

(* h.mu is held by exactly the publisher in its delivery loop, which only  *)
(* has subscriptions of its topic left to visit, with the event it         *)
(* appended to the topic's log last.                                       *)
LockInv ==
  /\ \A p \in Publishers : ppc[p] \in {"send", "count"} <=> mu = p
  /\ \A p \in Publishers : todo[p] # {} => mu = p
  /\ mu \in Publishers =>
       /\ ~closed
       /\ todo[mu] \subseteq subs[pev[mu].topic]
       /\ Len(log[pev[mu].topic]) > 0
       /\ pev[mu].ev = log[pev[mu].topic][Len(log[pev[mu].topic])]

LEMMA LockInit == HubAssumption /\ Init => LockInv
BY DEF Init, LockInv, HubAssumption

(* Steps of the others leave the lock's holder and its loop alone.         *)
LEMMA LockKept ==
  ASSUME LockInv,
         UNCHANGED <<mu, closed, subs, todo, log>>,
         \A p \in Publishers : mu = p => pev'[p] = pev[p],
         \A p \in Publishers : ppc'[p] \in {"send", "count"}
                                 <=> ppc[p] \in {"send", "count"}
  PROVE  LockInv'
BY DEF LockInv

LEMMA LockStep == BaseInv /\ LockInv /\ [Next]_vars => LockInv'
<1> SUFFICES ASSUME BaseInv, LockInv, [Next]_vars PROVE LockInv'
  OBVIOUS
<1> USE DEF hubVars, pubVars, subVars, endVars, history, BaseInv, TypeOK
<1>0. Free \notin Publishers
  BY DEF HubAssumption
<1>1. CASE UNCHANGED <<mu, closed, subs, todo, log, pev, ppc>>
  BY <1>1, LockKept
<1>2. ASSUME NEW p \in Publishers, NEW t \in Topics,
             NEW id \in CustomIDs \cup {NoID}, PublishBegin(p, t, id)
      PROVE  LockInv'
  <2>1. /\ ppc[p] = "idle" /\ ppc' = [ppc EXCEPT ![p] = "lock"]
        /\ UNCHANGED <<mu, closed, subs, todo, log>>
        /\ \A q \in Publishers \ {p} : pev'[q] = pev[q]
    BY <1>2 DEF PublishBegin, PublisherTypes
  <2>2. mu # p
    BY <2>1 DEF LockInv
  <2> QED BY <2>1, <2>2, LockKept DEF PublisherTypes
<1>3. ASSUME NEW p \in Publishers, PublishLock(p) PROVE LockInv'
  <2> DEFINE t == pev[p].topic
             e == [pos |-> Len(log[t]) + 1, id |-> pev[p].ev.id]
  <2>1. t \in Topics /\ pev[p].ev \in Event /\ log[t] \in Seq(Event)
    BY <1>3 DEF PublishLock, PublisherTypes, HistoryTypes
  <2>2. e \in Event
    BY <2>1, LenProperties DEF Event
  <2>3. /\ mu = Free /\ mu' = p /\ ~closed /\ UNCHANGED <<closed, subs>>
        /\ pev' = [pev EXCEPT ![p].ev = e]
        /\ todo' = [todo EXCEPT ![p] = subs[t]]
        /\ ppc' = [ppc EXCEPT ![p] = "send"]
        /\ log' = [log EXCEPT ![t] = Append(@, e)]
    BY <1>3 DEF PublishLock
  <2> HIDE DEF e
  <2>4. pev'[p].topic = t /\ pev'[p].ev = e
    BY <2>3 DEF PublisherTypes
  <2>5. log'[t] = Append(log[t], e)
    BY <2>1, <2>3 DEF HistoryTypes
  <2>6. Len(log'[t]) > 0 /\ log'[t][Len(log'[t])] = e
    BY <2>1, <2>2, <2>5, AppendProperties, LenProperties
  <2>7. todo'[p] = subs[t] /\ \A q \in Publishers \ {p} : todo'[q] = {}
    BY <1>0, <2>3 DEF LockInv, PublisherTypes
  <2>8. \A q \in Publishers : ppc'[q] \in {"send", "count"} <=> q = p
    BY <1>0, <2>3 DEF LockInv, PublisherTypes
  <2> QED BY <2>3, <2>4, <2>6, <2>7, <2>8 DEF LockInv
<1>4. ASSUME NEW p \in Publishers, PublishClosed(p) PROVE LockInv'
  BY <1>0, <1>4, LockKept DEF PublishClosed, PublisherTypes
<1>5. ASSUME NEW p \in Publishers, NEW s \in Subscribers, Send(p, s)
      PROVE  LockInv'
  <2>1. /\ ppc[p] = "send" /\ todo' = [todo EXCEPT ![p] = @ \ {s}]
        /\ ppc' = ppc \/ ppc' = [ppc EXCEPT ![p] = "count"]
        /\ UNCHANGED <<mu, closed, subs, pev, log>>
    BY <1>5 DEF Send
  <2>2. \A q \in Publishers :
          /\ ppc'[q] \in {"send", "count"} <=> ppc[q] \in {"send", "count"}
          /\ todo'[q] \subseteq todo[q]
    BY <2>1 DEF PublisherTypes
  <2> QED BY <2>1, <2>2 DEF LockInv
<1>6. ASSUME NEW p \in Publishers, PublishCount(p) PROVE LockInv'
  BY <1>6, LockKept DEF PublishCount, PublisherTypes
<1>7. ASSUME NEW p \in Publishers, PublishReturn(p) PROVE LockInv'
  <2>1. /\ ppc[p] = "send" /\ todo[p] = {} /\ mu' = Free /\ mu = p
        /\ ppc' = [ppc EXCEPT ![p] = "idle"] /\ todo' = todo
    BY <1>7 DEF PublishReturn, LockInv
  <2> QED BY <1>0, <2>1 DEF LockInv, PublisherTypes
<1>8. ASSUME mu = Free, UNCHANGED <<mu, todo, ppc, pev>> PROVE LockInv'
  BY <1>0, <1>8 DEF LockInv
<1>9. ASSUME NEW p \in Publishers, PublisherStep(p) PROVE LockInv'
  BY <1>2, <1>3, <1>4, <1>5, <1>6, <1>7, <1>9 DEF PublisherStep
<1>10. ASSUME NEW s \in Subscribers, SubscriberStep(s) PROVE LockInv'
  <2>1. ASSUME NEW t \in Topics, NEW events, Join(s, t, events) PROVE LockInv'
    BY <1>8, <2>1 DEF Join
  <2>2. ASSUME Unsubscribe(s) PROVE LockInv'
    BY <1>8, <2>2 DEF Unsubscribe
  <2>3. ASSUME NEW t \in Topics, SubscribeClosed(s, t) PROVE LockInv'
    BY <1>1, <2>3 DEF SubscribeClosed
  <2>4. ASSUME \/ ReplayOne(s) \/ ReplayCount(s) \/ SubscribeReturn(s)
               \/ Receive(s) \/ UnsubscribeClose(s)
        PROVE  LockInv'
    BY <1>1, <2>4
    DEF ReplayOne, ReplayCount, SubscribeReturn, Receive, UnsubscribeClose
  <2> QED BY <1>10, <2>1, <2>2, <2>3, <2>4
          DEF SubscriberStep, Subscribe, SubscribeSince
<1>11. ASSUME NEW c \in Closers, CloserStep(c) PROVE LockInv'
  <2>1. ASSUME CloseLock(c) PROVE LockInv'
    BY <1>8, <2>1 DEF CloseLock
  <2>2. ASSUME CloseAgain(c) \/ CloseReturn(c) PROVE LockInv'
    BY <1>1, <2>2 DEF CloseAgain, CloseReturn
  <2>3. ASSUME NEW s \in Subscribers, CloseOne(c, s) PROVE LockInv'
    BY <1>1, <2>3 DEF CloseOne
  <2> QED BY <1>11, <2>1, <2>2, <2>3 DEF CloserStep
<1>12. ASSUME NEW n \in ReplaySizes, EnableReplay(n) PROVE LockInv'
  BY <1>1, <1>12 DEF EnableReplay
<1>13. CASE UNCHANGED vars
  BY <1>1, <1>13 DEF vars
<1> QED BY <1>9, <1>10, <1>11, <1>12, <1>13 DEF Next, Terminating

-----------------------------------------------------------------------------
(* What a step of the hub means to one subscription.                       *)

(* How far into its topic's log a subscription has been served live: all   *)
(* of it, but for the event whose delivery loop has yet to reach it.       *)
Served(s) ==
  Len(log[topic[s]]) - (IF Registered(s) /\ Pending(s) THEN 1 ELSE 0)

(* The latest event of its topic.                                          *)
Latest(s) == log[topic[s]][Len(log[topic[s]])]

(* An event is put on the stream, or counted as a drop.                    *)
Decides(s, ev) ==
  \/ Stream(s)' = Append(Stream(s), ev) /\ drops'[s] = drops[s]
  \/ Stream(s)' = Stream(s) /\ drops'[s] = drops[s] + 1

Keeps(s) ==
  /\ topic'[s] = topic[s] /\ start'[s] = start[s] /\ replay'[s] = replay[s]
  /\ spc[s] # "new" /\ spc'[s] # "new"

(* A subscription that has not joined stays as it is.                      *)
Idles(s) ==
  /\ spc[s] = "new" /\ spc'[s] = "new"
  /\ ch'[s] = ch[s] /\ got'[s] = got[s] /\ replay'[s] = replay[s]
  /\ ri'[s] = ri[s] /\ drops'[s] = drops[s] /\ start'[s] = start[s]

(* Nothing is decided for s.                                               *)
Rests(s) ==
  /\ Keeps(s)
  /\ Stream(s)' = Stream(s) /\ drops'[s] = drops[s] /\ ri'[s] = ri[s]
  /\ Registered(s)' => Registered(s) /\ Served(s)' = Served(s)
  /\ Served(s)' >= Served(s)

(* The latest event reaches s.                                             *)
MeetsLive(s) ==
  /\ Keeps(s)
  /\ Registered(s) /\ Registered(s)' /\ log' = log
  /\ Len(log[topic[s]]) > 0
  /\ Served(s) = Len(log[topic[s]]) - 1 /\ Served(s)' = Len(log[topic[s]])
  /\ ri'[s] = ri[s]
  /\ Decides(s, Latest(s))

(* The next event of its replay reaches s.                                 *)
MeetsReplay(s) ==
  /\ Keeps(s)
  /\ (Registered(s)' <=> Registered(s)) /\ log' = log /\ Served(s)' = Served(s)
  /\ ri[s] < Len(replay[s]) /\ ri'[s] = ri[s] + 1
  /\ Decides(s, replay[s][ri[s] + 1])

(* s joins, with what is in the topic's ring to be replayed.               *)
Joins(s) ==
  /\ spc[s] = "new" /\ spc'[s] # "new" /\ log' = log
  /\ topic'[s] \in Topics
  /\ start'[s] = Len(log[topic'[s]]) /\ Served(s)' = Len(log[topic'[s]])
  /\ \/ replay'[s] = Snapshot(replays[topic'[s]])
     \/ \E id \in Nat : replay'[s] = Since(replays[topic'[s]], id)
  /\ ch'[s] = ch[s] /\ got'[s] = got[s] /\ ri'[s] = ri[s] /\ drops'[s] = drops[s]

(* s finds the hub closed.                                                 *)
FindsClosed(s) ==
  /\ spc[s] = "new" /\ spc'[s] # "new" /\ log' = log
  /\ topic'[s] \in Topics
  /\ ~Registered(s)' /\ Served(s)' = Len(log[topic'[s]])
  /\ ch'[s] = ch[s] /\ got'[s] = got[s] /\ replay'[s] = replay[s]
  /\ ri'[s] = ri[s] /\ drops'[s] = drops[s] /\ start'[s] = start[s]

Effect(s) ==
  Idles(s) \/ Rests(s) \/ MeetsLive(s) \/ MeetsReplay(s) \/ Joins(s)
    \/ FindsClosed(s)

(* What the lock says about one subscription.                              *)
LEMMA RegisteredFacts ==
  ASSUME BaseInv, LockInv, NEW s \in Subscribers
  PROVE  /\ Registered(s) <=> spc[s] # "new" /\ s \in subs[topic[s]]
         /\ Registered(s) => topic[s] \in Topics /\ ~closed /\ ~subClosed[s]
                               /\ ~chClosed[s]
         /\ \A t \in Topics : s \in subs[t] => t = topic[s]
         /\ Pending(s) => /\ Registered(s) /\ topic[s] = pev[mu].topic
                          /\ Len(log[topic[s]]) > 0 /\ pev[mu].ev = Latest(s)
         /\ spc[s] # "new" => log[topic[s]] \in Seq(Event)
                               /\ Len(log[topic[s]]) \in Nat
<1> USE DEF BaseInv, TypeOK
<1>1. /\ \A t \in Topics : s \in subs[t] => /\ t = topic[s] /\ spc[s] # "new"
                                            /\ ~closed /\ ~subClosed[s]
                                            /\ ~chClosed[s]
  BY DEF OwnershipInv, RegisteredOpen
<1>2. Registered(s) => topic[s] \in Topics /\ s \in subs[topic[s]]
  BY <1>1 DEF Registered
<1>3. spc[s] # "new" => topic[s] \in Topics
  BY DEF SubscriberTypes
<1>4. ASSUME Pending(s)
      PROVE  /\ Registered(s) /\ topic[s] = pev[mu].topic
             /\ Len(log[topic[s]]) > 0 /\ pev[mu].ev = Latest(s)
  <2>1. mu \in Publishers /\ s \in todo[mu] /\ ppc[mu] # "idle"
    BY <1>4 DEF Pending, LockInv
  <2>2. pev[mu].topic \in Topics /\ s \in subs[pev[mu].topic]
    BY <2>1 DEF LockInv, PublisherTypes
  <2>3. topic[s] = pev[mu].topic
    BY <1>1, <2>2
  <2> QED BY <2>1, <2>2, <2>3 DEF Registered, LockInv, Latest
<1>5. topic[s] \in Topics => /\ log[topic[s]] \in Seq(Event)
                             /\ Len(log[topic[s]]) \in Nat
  BY LenProperties DEF HistoryTypes
<1> QED BY <1>1, <1>2, <1>3, <1>4, <1>5 DEF Registered

LEMMA ServedIsNat ==
  ASSUME BaseInv, LockInv, NEW s \in Subscribers, spc[s] # "new"
  PROVE  /\ Served(s) \in Nat /\ Len(log[topic[s]]) \in Nat
         /\ Served(s) <= Len(log[topic[s]])
         /\ Pending(s) => Served(s) = Len(log[topic[s]]) - 1
         /\ ~Pending(s) => Served(s) = Len(log[topic[s]])
<1>1. /\ Len(log[topic[s]]) \in Nat
      /\ Pending(s) => Registered(s) /\ Len(log[topic[s]]) > 0
  BY RegisteredFacts
<1>2. CASE Pending(s)
  <2>1. Served(s) = Len(log[topic[s]]) - 1
    BY <1>1, <1>2 DEF Served
  <2> QED BY <1>1, <1>2, <2>1
<1>3. CASE ~Pending(s)
  <2>1. Served(s) = Len(log[topic[s]]) - 0
    BY <1>3 DEF Served
  <2> QED BY <1>1, <1>3, <2>1
<1> QED BY <1>2, <1>3

(* A stream is what was received and what is buffered: receiving does not   *)
(* change it, enqueueing appends to it.                                     *)
LEMMA StreamLaws ==
  ASSUME NEW E, NEW g \in Seq(E), NEW c \in Seq(E)
  PROVE  /\ \A e \in E : g \o Append(c, e) = Append(g \o c, e)
         /\ c # << >> => Append(g, Head(c)) \o Tail(c) = g \o c
         /\ g \o c \in Seq(E)
<1>1. ASSUME NEW e \in E PROVE g \o Append(c, e) = Append(g \o c, e)
  <2>1. /\ Append(c, e) = c \o <<e>> /\ <<e>> \in Seq(E)
        /\ g \o c \in Seq(E) /\ Append(g \o c, e) = (g \o c) \o <<e>>
    BY AppendIsConcat, ConcatProperties
  <2> QED BY <2>1, ConcatAssociative
<1>2. ASSUME c # << >> PROVE Append(g, Head(c)) \o Tail(c) = g \o c
  <2>1. /\ Head(c) \in E /\ Tail(c) \in Seq(E) /\ <<Head(c)>> \in Seq(E)
        /\ Append(g, Head(c)) = g \o <<Head(c)>>
    BY <1>2, HeadTailProperties, AppendIsConcat
  <2>2. c = <<Head(c)>> \o Tail(c)
    BY <1>2, <2>1, SubSeqRecursiveFirst, SubSeqFull, TailIsSubSeq, LenProperties,
       EmptySeq
  <2> QED BY <2>1, <2>2, ConcatAssociative
<1> QED BY <1>1, <1>2, ConcatProperties

LEMMA StreamAppend ==
  ASSUME BaseInv, NEW s \in Subscribers, NEW e \in Event,
         ch'[s] = Append(ch[s], e), got'[s] = got[s]
  PROVE  Stream(s)' = Append(Stream(s), e)
<1> DEFINE g == got[s]
           c == ch[s]
<1>1. g \in Seq(Event) /\ c \in Seq(Event)
  BY DEF BaseInv, TypeOK, SubscriberTypes, HistoryTypes
<1>2. Stream(s)' = g \o Append(c, e) /\ Stream(s) = g \o c
  BY DEF Stream
<1> HIDE DEF g, c
<1>3. g \o Append(c, e) = Append(g \o c, e)
  BY <1>1, StreamLaws
<1> QED BY <1>2, <1>3

(* A step that touches nothing of s.                                       *)
LEMMA Untouched ==
  ASSUME BaseInv, LockInv, NEW s \in Subscribers,
         spc'[s] = "new" <=> spc[s] = "new",
         topic'[s] = topic[s], ch'[s] = ch[s], got'[s] = got[s],
         drops'[s] = drops[s], ri'[s] = ri[s], replay'[s] = replay[s],
         start'[s] = start[s], log' = log,
         Registered(s)' => Registered(s),
         Pending(s)' <=> Pending(s),
         Pending(s) => Registered(s)'
  PROVE  Effect(s)
<1>1. CASE spc[s] = "new"
  BY <1>1 DEF Effect, Idles
<1>2. CASE spc[s] # "new"
  <2>1. Served(s)' = Served(s)
    <3>1. CASE Pending(s)
      BY <3>1, RegisteredFacts DEF Served
    <3>2. CASE ~Pending(s)
      BY <3>2 DEF Served
    <3> QED BY <3>1, <3>2
  <2>2. Stream(s)' = Stream(s)
    BY DEF Stream
  <2>3. Served(s)' >= Served(s)
    BY <1>2, <2>1, ServedIsNat
  <2> QED BY <1>2, <2>1, <2>2, <2>3 DEF Effect, Rests, Keeps
<1> QED BY <1>1, <1>2

(* ... and nothing of the lock and the registrations.                      *)
LEMMA Elsewhere ==
  ASSUME BaseInv, LockInv, NEW s \in Subscribers,
         spc'[s] = "new" <=> spc[s] = "new",
         topic'[s] = topic[s], ch'[s] = ch[s], got'[s] = got[s],
         drops'[s] = drops[s], ri'[s] = ri[s], replay'[s] = replay[s],
         start'[s] = start[s],
         UNCHANGED <<log, subs, mu, todo>>
  PROVE  Effect(s)
<1>1. Registered(s)' <=> Registered(s)
  BY DEF Registered
<1>2. Pending(s)' <=> Pending(s)
  BY DEF Pending
<1> QED BY <1>1, <1>2, RegisteredFacts, Untouched

(* Publish accepts an event: every subscription of its topic has it coming. *)
LEMMA EffectOfPublishLock ==
  ASSUME BaseInv, LockInv, NEW p \in Publishers, PublishLock(p),
         NEW s \in Subscribers
  PROVE  Effect(s)
<1> USE DEF BaseInv, TypeOK, subVars, endVars
<1> DEFINE t == pev[p].topic
           e == [pos |-> Len(log[t]) + 1, id |-> pev[p].ev.id]
<1>1. t \in Topics /\ pev[p].ev \in Event /\ log[t] \in Seq(Event)
  BY DEF PublishLock, PublisherTypes, HistoryTypes
<1>2. e \in Event
  BY <1>1, LenProperties DEF Event
<1>3. /\ mu = Free /\ mu' = p
      /\ todo' = [todo EXCEPT ![p] = subs[t]]
      /\ log' = [log EXCEPT ![t] = Append(@, e)]
      /\ UNCHANGED <<subs, spc, topic, ch, drops, replay, ri, start, got>>
  BY DEF PublishLock
<1> HIDE DEF e
<1>4. ~Pending(s)
  BY <1>3 DEF Pending, HubAssumption
<1>5. Pending(s)' <=> s \in subs[t]
  BY <1>3 DEF Pending, PublisherTypes
<1>6. Registered(s)' <=> Registered(s)
  BY <1>3 DEF Registered
<1>7. log'[t] = Append(log[t], e) /\ \A u \in Topics \ {t} : log'[u] = log[u]
  BY <1>1, <1>3 DEF HistoryTypes
<1>8. Len(log'[t]) = Len(log[t]) + 1
  BY <1>1, <1>2, <1>7, AppendProperties
<1>9. CASE spc[s] = "new"
  BY <1>3, <1>9 DEF Effect, Idles
<1>10. CASE spc[s] # "new"
  <2>1. topic[s] \in Topics /\ Len(log[topic[s]]) \in Nat
    BY <1>10, RegisteredFacts DEF SubscriberTypes
  <2>2. Served(s) = Len(log[topic[s]])
    BY <1>4, <1>10, <2>1, ServedIsNat
  <2>3. CASE s \in subs[t]
    <3>1. topic[s] = t /\ Registered(s)
      BY <1>1, <2>3, RegisteredFacts DEF Registered
    <3>2. Served(s)' = Len(log'[t]) - 1
      BY <1>3, <1>5, <1>6, <2>3, <3>1 DEF Served
    <3>3. Served(s)' = Served(s)
      BY <1>8, <2>1, <2>2, <3>1, <3>2
    <3> QED BY <1>3, <1>6, <1>10, <2>1, <2>2, <3>3 DEF Effect, Rests, Keeps, Stream
  <2>4. CASE s \notin subs[t]
    <3>1. Served(s)' = Len(log'[topic[s]]) - 0
      BY <1>3, <1>5, <2>4 DEF Served
    <3>2. Registered(s) => topic[s] # t
      BY <2>4, RegisteredFacts
    <3>3. /\ Served(s)' >= Served(s)
          /\ Registered(s) => Served(s)' = Served(s)
      <4>1. CASE topic[s] = t
        BY <1>8, <2>1, <2>2, <3>1, <3>2, <4>1
      <4>2. CASE topic[s] # t
        BY <1>7, <2>1, <2>2, <3>1, <4>2
      <4> QED BY <4>1, <4>2
    <3> QED BY <1>3, <1>6, <1>10, <3>3 DEF Effect, Rests, Keeps, Stream
  <2> QED BY <2>3, <2>4
<1> QED BY <1>9, <1>10

(* One turn of the delivery loop.                                          *)
LEMMA EffectOfSend ==
  ASSUME BaseInv, LockInv, NEW p \in Publishers, NEW r \in Subscribers,
         Send(p, r), NEW s \in Subscribers
  PROVE  Effect(s)
<1> USE DEF BaseInv, TypeOK
<1>1. /\ r \in todo[p] /\ mu = p
      /\ todo' = [todo EXCEPT ![p] = @ \ {r}]
      /\ UNCHANGED <<log, subs, mu, topic, replay, ri, start, got, spc>>
  BY DEF Send, LockInv, hubVars, history
<1>2. \/ ch' = [ch EXCEPT ![r] = Append(@, pev[p].ev)] /\ drops' = drops
      \/ ch' = ch /\ drops' = [drops EXCEPT
                                 ![r] = IF subClosed[r] THEN @ ELSE @ + 1]
  BY DEF Send
<1>3. Registered(s)' <=> Registered(s)
  BY <1>1 DEF Registered
<1>4. CASE s # r
  <2>1. Pending(s)' <=> Pending(s)
    BY <1>1, <1>4 DEF Pending, PublisherTypes
  <2>2. ch'[s] = ch[s] /\ drops'[s] = drops[s]
    BY <1>2, <1>4 DEF SubscriberTypes
  <2>3. Pending(s) => Registered(s)
    BY RegisteredFacts
  <2> QED BY <1>1, <1>3, <2>1, <2>2, <2>3, Untouched
<1>5. CASE s = r
  <2>1. Pending(s) /\ ~Pending(s)'
    BY <1>1, <1>5 DEF Pending, PublisherTypes
  <2>2. /\ Registered(s) /\ spc[s] # "new" /\ ~subClosed[s]
        /\ Len(log[topic[s]]) > 0 /\ Len(log[topic[s]]) \in Nat
        /\ pev[p].ev = Latest(s)
    BY <1>1, <2>1, RegisteredFacts
  <2>3. Served(s) = Len(log[topic[s]]) - 1
    BY <2>1, <2>2, ServedIsNat
  <2>4. Served(s)' = Len(log[topic[s]])
    <3>1. Served(s)' = Len(log[topic[s]]) - 0
      BY <1>1, <2>1 DEF Served
    <3> QED BY <2>2, <3>1
  <2>5. Decides(s, Latest(s))
    <3>1. CASE ch' = [ch EXCEPT ![r] = Append(@, pev[p].ev)] /\ drops' = drops
      <4>1. ch'[s] = Append(ch[s], Latest(s)) /\ got'[s] = got[s]
        BY <1>1, <1>5, <2>2, <3>1 DEF SubscriberTypes
      <4>2. Latest(s) \in Event
        BY <2>2, RegisteredFacts, ElementOfSeq DEF Latest
      <4>3. Stream(s)' = Append(Stream(s), Latest(s))
        BY <4>1, <4>2, StreamAppend
      <4> QED BY <3>1, <4>3 DEF Decides
    <3>2. CASE ch' = ch /\ drops' = [drops EXCEPT
                                      ![r] = IF subClosed[r] THEN @ ELSE @ + 1]
      BY <1>1, <1>5, <2>2, <3>2 DEF Decides, Stream, SubscriberTypes
    <3> QED BY <1>2, <3>1, <3>2
  <2> QED BY <1>1, <1>3, <2>2, <2>3, <2>4, <2>5 DEF Effect, MeetsLive, Keeps
<1> QED BY <1>4, <1>5

(* The delivery loop is over: it has reached every subscription.           *)
LEMMA EffectOfPublishReturn ==
  ASSUME BaseInv, LockInv, NEW p \in Publishers, PublishReturn(p),
         NEW s \in Subscribers
  PROVE  Effect(s)
<1>1. /\ todo[p] = {} /\ mu = p /\ mu' = Free
      /\ UNCHANGED <<todo, log, subs, subVars, got, start>>
  BY DEF PublishReturn, LockInv, history
<1>2. ~Pending(s) /\ ~Pending(s)'
  BY <1>1 DEF Pending, BaseInv, HubAssumption
<1>3. Registered(s)' <=> Registered(s)
  BY <1>1 DEF Registered
<1> QED BY <1>1, <1>2, <1>3, Untouched DEF subVars

(* A subscription joins an open hub.                                       *)
LEMMA EffectOfJoin ==
  ASSUME BaseInv, LockInv, NEW r \in Subscribers, NEW t \in Topics, NEW events,
         Join(r, t, events),
         \/ events = Snapshot(replays[t])
         \/ \E id \in Nat : events = Since(replays[t], id),
         NEW s \in Subscribers
  PROVE  Effect(s)
<1> USE DEF BaseInv, TypeOK
<1>1. /\ spc[r] = "new" /\ mu = Free /\ mu' = Free
      /\ subs' = [subs EXCEPT ![t] = @ \cup {r}]
      /\ topic' = [topic EXCEPT ![r] = t]
      /\ replay' = [replay EXCEPT ![r] = events]
      /\ spc' = [spc EXCEPT ![r] = "replay"]
      /\ start' = [start EXCEPT ![r] = Len(log[t])]
      /\ UNCHANGED <<ch, drops, ri, log, got>>
  BY DEF Join
<1>2. ~Pending(s) /\ ~Pending(s)'
  BY <1>1 DEF Pending, HubAssumption
<1>3. CASE s # r
  <2>1. Registered(s)' => Registered(s)
    BY <1>1, <1>3 DEF Registered, HubTypes
  <2> QED BY <1>1, <1>2, <1>3, <2>1, Untouched DEF SubscriberTypes, HistoryTypes
<1>4. CASE s = r
  <2>1. /\ topic'[s] = t /\ start'[s] = Len(log[t]) /\ replay'[s] = events
        /\ spc'[s] = "replay"
    BY <1>1, <1>4 DEF SubscriberTypes, HistoryTypes
  <2>2. Len(log[t]) \in Nat
    BY LenProperties DEF HistoryTypes
  <2>3. Served(s)' = Len(log[t]) - 0
    BY <1>1, <1>2, <2>1 DEF Served
  <2> QED BY <1>1, <1>4, <2>1, <2>2, <2>3 DEF Effect, Joins
<1> QED BY <1>3, <1>4

(* A subscription comes to a closed hub.                                   *)
LEMMA EffectOfSubscribeClosed ==
  ASSUME BaseInv, LockInv, NEW r \in Subscribers, NEW t \in Topics,
         SubscribeClosed(r, t), NEW s \in Subscribers
  PROVE  Effect(s)
<1> USE DEF BaseInv, TypeOK
<1>1. /\ spc[r] = "new" /\ mu = Free /\ closed
      /\ topic' = [topic EXCEPT ![r] = t]
      /\ spc' = [spc EXCEPT ![r] = "done"]
      /\ UNCHANGED <<mu, subs, todo, ch, drops, ri, replay, start, log, got>>
  BY DEF SubscribeClosed, hubVars, pubVars, history
<1>2. CASE s # r
  BY <1>1, <1>2, Elsewhere DEF SubscriberTypes
<1>3. CASE s = r
  <2>1. ~Registered(s)'
    BY <1>1 DEF OwnershipInv, RegisteredOpen, Registered
  <2>2. topic'[s] = t /\ spc'[s] = "done"
    BY <1>1, <1>3 DEF SubscriberTypes
  <2>3. Len(log[t]) \in Nat
    BY LenProperties DEF HistoryTypes
  <2>4. Served(s)' = Len(log[t]) - 0
    BY <1>1, <2>1, <2>2 DEF Served
  <2> QED BY <1>1, <1>3, <2>1, <2>2, <2>3, <2>4 DEF Effect, FindsClosed
<1> QED BY <1>2, <1>3

(* One turn of the replay loop.                                            *)
LEMMA EffectOfReplayOne ==
  ASSUME BaseInv, LockInv, NEW r \in Subscribers, ReplayOne(r),
         NEW s \in Subscribers
  PROVE  Effect(s)
<1> USE DEF BaseInv, TypeOK
<1>1. /\ spc[r] = "replay" /\ ri[r] < Len(replay[r])
      /\ UNCHANGED <<mu, subs, todo, topic, replay, start, log, got>>
  BY DEF ReplayOne, hubVars, pubVars, history
<1>2. \/ spc' = [spc EXCEPT ![r] = "panicked"] /\ UNCHANGED <<ch, drops, ri>>
      \/ /\ ri' = [ri EXCEPT ![r] = @ + 1]
         /\ \/ /\ ch' = [ch EXCEPT ![r] = Append(@, replay[r][ri[r] + 1])]
               /\ UNCHANGED <<spc, drops>>
            \/ /\ drops' = [drops EXCEPT ![r] = @ + 1]
               /\ spc' = [spc EXCEPT ![r] = "count"]
               /\ UNCHANGED ch
  BY DEF ReplayOne
<1>3. CASE s # r \/ (spc' = [spc EXCEPT ![r] = "panicked"]
                       /\ UNCHANGED <<ch, drops, ri>>)
  <2>1. spc'[s] = "new" <=> spc[s] = "new"
    BY <1>1, <1>2, <1>3 DEF SubscriberTypes
  <2> QED BY <1>1, <1>2, <1>3, <2>1, Elsewhere DEF SubscriberTypes
<1>4. CASE s = r /\ ri' = [ri EXCEPT ![r] = @ + 1]
  <2>1. ri'[s] = ri[s] + 1 /\ spc[s] # "new" /\ spc'[s] # "new"
    BY <1>1, <1>2, <1>4 DEF SubscriberTypes
  <2>2. (Registered(s)' <=> Registered(s)) /\ Served(s)' = Served(s)
    BY <1>1 DEF Registered, Pending, Served
  <2>3. Decides(s, replay[s][ri[s] + 1])
    <3>1. CASE drops' = [drops EXCEPT ![r] = @ + 1] /\ UNCHANGED ch
      BY <1>1, <1>4, <3>1 DEF Decides, Stream, SubscriberTypes
    <3>2. CASE /\ ch' = [ch EXCEPT ![r] = Append(@, replay[r][ri[r] + 1])]
               /\ UNCHANGED <<spc, drops>>
      <4>1. ch'[s] = Append(ch[s], replay[s][ri[s] + 1]) /\ got'[s] = got[s]
        BY <1>1, <1>4, <3>2 DEF SubscriberTypes
      <4>2. replay[s][ri[s] + 1] \in Event
        <5>1. replay[s] \in Seq(Event) /\ ri[s] + 1 \in 1 .. Len(replay[s])
          BY <1>1, <1>4 DEF SubscriberTypes
        <5> QED BY <5>1, ElementOfSeq
      <4>3. Stream(s)' = Append(Stream(s), replay[s][ri[s] + 1])
        BY <4>1, <4>2, StreamAppend
      <4> QED BY <3>2, <4>3 DEF Decides
    <3>3. spc' # [spc EXCEPT ![r] = "panicked"] \/ ri' # ri
      BY <1>4 DEF SubscriberTypes
    <3> QED BY <1>2, <1>4, <3>1, <3>2, <3>3 DEF SubscriberTypes
  <2> QED BY <1>1, <1>4, <2>1, <2>2, <2>3 DEF Effect, MeetsReplay, Keeps
<1> QED BY <1>2, <1>3, <1>4

(* The consumer receives: what it has and what is buffered change places.  *)
LEMMA EffectOfReceive ==
  ASSUME BaseInv, LockInv, NEW r \in Subscribers, Receive(r),
         NEW s \in Subscribers
  PROVE  Effect(s)
<1> USE DEF BaseInv, TypeOK
<1>1. /\ spc[r] = "ready" /\ ch[r] # << >>
      /\ got' = [got EXCEPT ![r] = Append(@, Head(ch[r]))]
      /\ ch' = [ch EXCEPT ![r] = Tail(@)]
      /\ UNCHANGED <<mu, subs, todo, spc, topic, drops, replay, ri, start, log>>
  BY DEF Receive, hubVars, pubVars
<1>2. CASE s # r
  BY <1>1, <1>2, Elsewhere DEF SubscriberTypes, HistoryTypes
<1>3. CASE s = r
  <2>1. /\ got[s] \in Seq(Event) /\ ch[s] \in Seq(Event) /\ ch[s] # << >>
        /\ got'[s] = Append(got[s], Head(ch[s])) /\ ch'[s] = Tail(ch[s])
    BY <1>1, <1>3 DEF SubscriberTypes, HistoryTypes
  <2>2. \A g, c \in Seq(Event) :
          c # << >> => Append(g, Head(c)) \o Tail(c) = g \o c
    BY StreamLaws
  <2>3. Stream(s)' = Stream(s)
    BY <2>1, <2>2 DEF Stream
  <2>4. (Registered(s)' <=> Registered(s)) /\ Served(s)' = Served(s)
    BY <1>1 DEF Registered, Pending, Served
  <2>5. Served(s)' >= Served(s)
    BY <1>1, <1>3, <2>4, ServedIsNat
  <2> QED BY <1>1, <1>3, <2>3, <2>4, <2>5 DEF Effect, Rests, Keeps
<1> QED BY <1>2, <1>3

(* Registrations end only while no loop is under way.                      *)
LEMMA EffectOfLeaving ==
  ASSUME BaseInv, LockInv, NEW s \in Subscribers,
         (\E r \in Subscribers : Unsubscribe(r)) \/ (\E c \in Closers : CloseLock(c))
  PROVE  Effect(s)
<1> USE DEF BaseInv, TypeOK
<1> DEFINE Leaves ==
      /\ mu = Free /\ mu' = Free
      /\ UNCHANGED <<topic, ch, got, drops, ri, replay, start, log>>
      /\ spc'[s] = "new" <=> spc[s] = "new"
      /\ \A t \in Topics : subs'[t] \subseteq subs[t]
<1>1. Leaves
  <2>1. ASSUME NEW r \in Subscribers, Unsubscribe(r) PROVE Leaves
    BY <2>1 DEF Unsubscribe, SubscriberTypes, HubTypes, history
  <2>2. ASSUME NEW c \in Closers, CloseLock(c) PROVE Leaves
    BY <2>2 DEF CloseLock, subVars, history
  <2> QED BY <2>1, <2>2
<1>2. ~Pending(s) /\ ~Pending(s)'
  BY <1>1 DEF Pending, HubAssumption
<1>3. Registered(s)' => Registered(s)
  BY <1>1 DEF Registered
<1> QED BY <1>1, <1>2, <1>3, Untouched

(* Every other step touches no subscription.                               *)
LEMMA EffectOfOthers ==
  ASSUME BaseInv, LockInv, NEW s \in Subscribers,
         \/ \E n \in ReplaySizes : EnableReplay(n)
         \/ \E p \in Publishers :
              \/ \E t \in Topics, id \in CustomIDs \cup {NoID} :
                   PublishBegin(p, t, id)
              \/ PublishClosed(p) \/ PublishCount(p)
         \/ \E r \in Subscribers :
              \/ ReplayCount(r) \/ SubscribeReturn(r) \/ UnsubscribeClose(r)
         \/ \E c \in Closers :
              \/ CloseAgain(c) \/ CloseReturn(c)
              \/ \E r \in Subscribers : CloseOne(c, r)
         \/ UNCHANGED vars
  PROVE  Effect(s)
<1> USE DEF BaseInv, TypeOK, hubVars, pubVars, subVars, endVars, history
<1>1. UNCHANGED <<topic, ch, got, drops, ri, replay, start, log, subs, mu, todo>>
  BY DEF EnableReplay, PublishBegin, PublishClosed, PublishCount, ReplayCount,
         SubscribeReturn, UnsubscribeClose, CloseAgain, CloseReturn, CloseOne,
         vars
<1>2. spc'[s] = "new" <=> spc[s] = "new"
  BY DEF EnableReplay, PublishBegin, PublishClosed, PublishCount, ReplayCount,
         SubscribeReturn, UnsubscribeClose, CloseAgain, CloseReturn, CloseOne,
         vars, SubscriberTypes
<1> QED BY <1>1, <1>2, Elsewhere

LEMMA Effects ==
  ASSUME BaseInv, LockInv, [Next]_vars, NEW s \in Subscribers
  PROVE  Effect(s)
<1>1. ASSUME NEW r \in Subscribers, NEW t \in Topics,
             NEW id \in KnownIDs(t), SubscribeSince(r, t, id)
      PROVE  Effect(s)
  <2>1. id \in Nat
    <3>1. PICK q \in Subscribers :
            topic[q] = t /\ got[q] # << >> /\ id = got[q][Len(got[q])].id
      BY <1>1 DEF KnownIDs
    <3>2. got[q] \in Seq(Event) /\ Len(got[q]) \in 1 .. Len(got[q])
      BY <3>1, EmptySeq DEF BaseInv, TypeOK, HistoryTypes
    <3>3. got[q][Len(got[q])] \in Event
      BY <3>2, ElementOfSeq
    <3> QED BY <3>1, <3>3 DEF Event
  <2> QED BY <1>1, <2>1, EffectOfJoin DEF SubscribeSince
<1>2. ASSUME NEW r \in Subscribers, NEW t \in Topics, Subscribe(r, t)
      PROVE  Effect(s)
  BY <1>2, EffectOfJoin DEF Subscribe
<1>3. ASSUME NEW p \in Publishers, PublisherStep(p) PROVE Effect(s)
  BY <1>3, EffectOfPublishLock, EffectOfSend, EffectOfPublishReturn,
     EffectOfOthers
  DEF PublisherStep
<1>4. ASSUME NEW r \in Subscribers, SubscriberStep(r) PROVE Effect(s)
  BY <1>1, <1>2, <1>4, EffectOfSubscribeClosed, EffectOfReplayOne,
     EffectOfReceive, EffectOfLeaving, EffectOfOthers
  DEF SubscriberStep
<1>5. ASSUME NEW c \in Closers, CloserStep(c) PROVE Effect(s)
  BY <1>5, EffectOfLeaving, EffectOfOthers DEF CloserStep
<1> QED BY <1>3, <1>4, <1>5, EffectOfOthers DEF Next, Terminating

-----------------------------------------------------------------------------
(* Nothing is lost uncounted.                                              *)

(* For a registered subscription: what it was given plus what it was       *)
(* counted as missing is what was decided for it.                          *)
Balanced(s) ==
  Len(Stream(s)) + drops[s] = ri[s] + (Served(s) - start[s])

CountInv ==
  \A s \in Subscribers :
    /\ spc[s] = "new" => /\ ch[s] = << >> /\ got[s] = << >> /\ replay[s] = << >>
                         /\ ri[s] = 0 /\ drops[s] = 0 /\ start[s] = 0
    /\ Registered(s) => Balanced(s)

LEMMA CountInit == HubAssumption /\ Init => CountInv
BY DEF Init, CountInv, Registered

LEMMA StreamType ==
  ASSUME BaseInv, NEW s \in Subscribers
  PROVE  /\ Stream(s) \in Seq(Event) /\ Len(Stream(s)) \in Nat
         /\ drops[s] \in Nat /\ ri[s] \in Nat /\ start[s] \in Nat
<1>1. /\ ch[s] \in Seq(Event) /\ got[s] \in Seq(Event)
      /\ drops[s] \in Nat /\ ri[s] \in Nat /\ start[s] \in Nat
  BY DEF BaseInv, TypeOK, SubscriberTypes, HistoryTypes
<1>2. Stream(s) \in Seq(Event)
  BY <1>1, ConcatProperties DEF Stream
<1> QED BY <1>1, <1>2, LenProperties

LEMMA CountStep ==
  ASSUME BaseInv, LockInv, CountInv, [Next]_vars
  PROVE  CountInv'
<1> SUFFICES ASSUME NEW s \in Subscribers
             PROVE  /\ spc'[s] = "new" =>
                         /\ ch'[s] = << >> /\ got'[s] = << >>
                         /\ replay'[s] = << >>
                         /\ ri'[s] = 0 /\ drops'[s] = 0 /\ start'[s] = 0
                    /\ Registered(s)' => Balanced(s)'
  BY DEF CountInv
<1>1. Effect(s)
  BY Effects
<1>2. /\ Stream(s) \in Seq(Event) /\ Len(Stream(s)) \in Nat
      /\ drops[s] \in Nat /\ ri[s] \in Nat /\ start[s] \in Nat
  BY StreamType
<1>3. Registered(s) => spc[s] # "new" /\ Served(s) \in Nat
  BY RegisteredFacts, ServedIsNat
<1>4. Registered(s)' => spc'[s] # "new"
  <2>1. OwnershipInv'
    BY OwnershipStep DEF BaseInv
  <2> QED BY <2>1 DEF OwnershipInv, RegisteredOpen, Registered
<1>4a. Len(Stream(s)') \in Nat /\ drops'[s] \in Nat
  <2>1. ch'[s] \in Seq(Event) /\ got'[s] \in Seq(Event) /\ drops'[s] \in Nat
    BY TypeStep DEF BaseInv, TypeOK, SubscriberTypes, HistoryTypes
  <2>2. Stream(s)' \in Seq(Event)
    BY <2>1, ConcatProperties DEF Stream
  <2> QED BY <2>1, <2>2, LenProperties
<1>5. CASE Idles(s)
  BY <1>4, <1>5 DEF Idles, CountInv
<1>6. CASE Rests(s)
  <2>1. Registered(s)' => Balanced(s)
    BY <1>6 DEF Rests, CountInv
  <2> QED BY <1>6, <2>1 DEF Rests, Keeps, Balanced
<1>7. ASSUME MeetsLive(s) \/ MeetsReplay(s), NEW e, Decides(s, e)
      PROVE  Len(Stream(s)') + drops'[s] = Len(Stream(s)) + drops[s] + 1
  <2>1. CASE Stream(s)' = Append(Stream(s), e) /\ drops'[s] = drops[s]
    <3>1. Len(Append(Stream(s), e)) = Len(Stream(s)) + 1
      BY <1>2
    <3> DEFINE l == Len(Stream(s))
               l2 == Len(Stream(s)')
               d == drops[s]
               d2 == drops'[s]
    <3>2. l \in Nat /\ d \in Nat /\ l2 = l + 1 /\ d2 = d
      BY <1>2, <2>1, <3>1
    <3> HIDE DEF l, l2, d, d2
    <3>3. l2 + d2 = l + d + 1
      BY <3>2
    <3> QED BY <3>3 DEF l, l2, d, d2
  <2>2. CASE Stream(s)' = Stream(s) /\ drops'[s] = drops[s] + 1
    BY <1>2, <2>2
  <2> QED BY <1>7, <2>1, <2>2 DEF Decides
<1> DEFINE l  == Len(Stream(s))
           l2 == Len(Stream(s)')
           v  == Served(s)
           v2 == Served(s)'
<1>8. /\ Balanced(s) <=> l + drops[s] = ri[s] + (v - start[s])
      /\ Balanced(s)' <=> l2 + drops'[s] = ri'[s] + (v2 - start'[s])
      /\ {l, l2, drops[s], drops'[s], ri[s], start[s]} \subseteq Nat
      /\ Registered(s) => v \in Nat
  BY <1>2, <1>3, <1>4a DEF Balanced
<1>9. CASE MeetsLive(s)
  <2>1. /\ Balanced(s) /\ Registered(s)
        /\ ri'[s] = ri[s] /\ start'[s] = start[s] /\ spc'[s] # "new"
        /\ l2 + drops'[s] = l + drops[s] + 1
    BY <1>7, <1>9 DEF MeetsLive, Keeps, CountInv
  <2>2. v = Len(log[topic[s]]) - 1 /\ v2 = Len(log[topic[s]])
    BY <1>9 DEF MeetsLive
  <2>3. Len(log[topic[s]]) \in Nat
    BY <1>3, <2>1, RegisteredFacts
  <2> HIDE DEF l, l2, v, v2
  <2>4. v2 = v + 1 /\ v \in Nat
    BY <1>8, <2>1, <2>2, <2>3
  <2>5. l + drops[s] = ri[s] + (v - start[s])
    BY <1>8, <2>1
  <2>6. /\ l \in Nat /\ l2 \in Nat /\ drops[s] \in Nat /\ drops'[s] \in Nat
        /\ ri[s] \in Nat /\ start[s] \in Nat
    BY <1>8
  <2>7. l2 + drops'[s] = ri'[s] + (v2 - start'[s])
    BY <2>1, <2>4, <2>5, <2>6
  <2>8. Balanced(s)'
    BY <1>8, <2>7
  <2> QED BY <2>1, <2>8
<1>10. CASE MeetsReplay(s)
  <2>1. /\ Registered(s)' => Registered(s) /\ Balanced(s)
        /\ v2 = v /\ ri'[s] = ri[s] + 1 /\ start'[s] = start[s]
        /\ spc'[s] # "new" /\ l2 + drops'[s] = l + drops[s] + 1
    BY <1>7, <1>10 DEF MeetsReplay, Keeps, CountInv
  <2> HIDE DEF l, l2, v, v2
  <2> QED BY <1>8, <2>1
<1>11. CASE Joins(s)
  <2>1. /\ spc'[s] # "new" /\ ch'[s] = << >> /\ got'[s] = << >>
        /\ ri'[s] = 0 /\ drops'[s] = 0 /\ Served(s)' = start'[s]
    BY <1>11 DEF Joins, CountInv
  <2>2. Stream(s)' = << >>
    BY <2>1, ConcatEmptySeq, EmptySeq DEF Stream
  <2>3. start'[s] \in Nat
    BY TypeStep DEF BaseInv, TypeOK, HistoryTypes
  <2> QED BY <2>1, <2>2, <2>3 DEF Balanced
<1>12. CASE FindsClosed(s)
  BY <1>12 DEF FindsClosed
<1> QED BY <1>1, <1>5, <1>6, <1>9, <1>10, <1>11, <1>12 DEF Effect

(* The invariants so far hold in every state of every run.                 *)
THEOREM HubInvariants == Spec => [](BaseInv /\ LockInv /\ CountInv)
<1>1. HubAssumption
  BY HubAssumption
<1>2. Spec => []BaseInv
  <2>1. TypeOK /\ OwnershipInv => BaseInv
    BY <1>1 DEF BaseInv
  <2> QED BY <2>1, TypeCorrect, Ownership, PTL
<1>3. BaseInv /\ LockInv /\ CountInv /\ [Next]_vars => LockInv' /\ CountInv'
  BY LockStep, CountStep
<1>4. Init => LockInv /\ CountInv
  BY <1>1, LockInit, CountInit
<1> QED BY <1>2, <1>3, <1>4, PTL DEF Spec

(* No event is lost without a trace (hub.go:67-69, 216-229): for every     *)
(* registered subscription the events enqueued and the drops counted add   *)
(* up to the events it was to be given.                                    *)
THEOREM NothingLostUncounted == Spec => []DeliveredOrCounted
<1>1. BaseInv /\ LockInv /\ CountInv => DeliveredOrCounted
  <2> SUFFICES ASSUME BaseInv, LockInv, CountInv,
                      NEW s \in Subscribers, Registered(s)
               PROVE  Len(Stream(s)) + drops[s] + (IF Pending(s) THEN 1 ELSE 0)
                        = ri[s] + (Len(log[topic[s]]) - start[s])
    BY DEF DeliveredOrCounted
  <2>1. /\ Len(Stream(s)) \in Nat /\ drops[s] \in Nat
        /\ ri[s] \in Nat /\ start[s] \in Nat
    BY StreamType
  <2>2. /\ Served(s) \in Nat /\ Len(log[topic[s]]) \in Nat
        /\ Pending(s) => Served(s) = Len(log[topic[s]]) - 1
        /\ ~Pending(s) => Served(s) = Len(log[topic[s]])
    BY RegisteredFacts, ServedIsNat
  <2>3. Balanced(s)
    BY DEF CountInv
  <2>4. CASE Pending(s)
    <3>1. (IF Pending(s) THEN 1 ELSE 0) = 1
      BY <2>4
    <3>2. Served(s) = Len(log[topic[s]]) - 1
      BY <2>2, <2>4
    <3> QED BY <2>1, <2>2, <2>3, <3>1, <3>2 DEF Balanced
  <2>5. CASE ~Pending(s)
    <3>1. (IF Pending(s) THEN 1 ELSE 0) = 0
      BY <2>5
    <3>2. Served(s) = Len(log[topic[s]])
      BY <2>2, <2>5
    <3> QED BY <2>1, <2>2, <2>3, <3>1, <3>2 DEF Balanced
  <2> QED BY <2>4, <2>5
<1> QED BY <1>1, HubInvariants, PTL

(* Once closed, a hub accepts no event and no subscription (hub.go:250-251). *)
THEOREM ClosedForGood == Spec => ClosedIsFinal
<1>1. BaseInv /\ [Next]_vars =>
        [closed => closed' /\ log' = log /\ subs' = subs]_vars
  <2> SUFFICES ASSUME BaseInv, Next, closed
               PROVE  closed' /\ log' = log /\ subs' = subs
    OBVIOUS
  <2> USE DEF hubVars, pubVars, subVars, endVars, history
  <2>1. subs = [t \in Topics |-> {}]
    BY DEF BaseInv, TypeOK, HubTypes, OwnershipInv, RegisteredOpen
  <2>2. ASSUME NEW p \in Publishers, PublisherStep(p)
        PROVE  closed' /\ log' = log /\ subs' = subs
    BY <2>2 DEF PublisherStep, PublishBegin, PublishLock, PublishClosed, Send,
                PublishCount, PublishReturn
  <2>3. ASSUME NEW s \in Subscribers, SubscriberStep(s)
        PROVE  closed' /\ log' = log /\ subs' = subs
    <3>1. CASE Unsubscribe(s)
      BY <2>1, <3>1 DEF Unsubscribe
    <3> QED
      BY <2>3, <3>1 DEF SubscriberStep, Subscribe, SubscribeSince, Join,
             SubscribeClosed, ReplayOne, ReplayCount, SubscribeReturn, Receive,
             UnsubscribeClose
  <2>4. ASSUME NEW c \in Closers, CloserStep(c)
        PROVE  closed' /\ log' = log /\ subs' = subs
    BY <2>4 DEF CloserStep, CloseLock, CloseAgain, CloseOne, CloseReturn
  <2>5. ASSUME NEW n \in ReplaySizes, EnableReplay(n)
        PROVE  closed' /\ log' = log /\ subs' = subs
    BY <2>5 DEF EnableReplay
  <2> QED BY <2>2, <2>3, <2>4, <2>5 DEF Next, Terminating, vars
<1> QED BY <1>1, HubInvariants, PTL DEF Spec, ClosedIsFinal

-----------------------------------------------------------------------------
(* Rings and logs.                                                         *)

(* Every ring is the end of its topic's log, given that replay, once       *)
(* enabled, is not switched off again (hub_replay.go:68-69 asks for one    *)
(* call): a ring that exists would then miss events and go on being        *)
(* replayed.                                                               *)
NeverSwitchedOff == 0 \notin ReplaySizes

RingsInv ==
  /\ \A t \in Topics : \A i \in 1 .. Len(log[t]) : log[t][i].pos = i
  /\ \A t \in Topics : HoldsSuffix(replays[t], log[t])
  /\ replaySize = 0 => \A t \in Topics : replays[t] = NoBuffer

LEMMA NoBufferHoldsSuffix ==
  ASSUME NEW g \in Seq(Event) PROVE HoldsSuffix(NoBuffer, g)
BY NewHoldsSuffix DEF NoBuffer

LEMMA RingsInit == HubAssumption /\ Init => RingsInv
<1> SUFFICES ASSUME Init PROVE RingsInv
  OBVIOUS
<1>1. << >> \in Seq(Event) /\ Len(<< >>) = 0
  BY EmptySeq
<1>2. HoldsSuffix(NoBuffer, << >>)
  BY <1>1, NoBufferHoldsSuffix
<1> QED BY <1>1, <1>2 DEF Init, RingsInv

(* Only a Publish that takes the lock touches a log, and it appends.       *)
LEMMA LogSteps ==
  ASSUME BaseInv, [Next]_vars
  PROVE  log' = log \/ \E p \in Publishers : PublishLock(p)
<1> USE DEF hubVars, pubVars, subVars, endVars, history
<1>1. ASSUME NEW p \in Publishers, PublisherStep(p)
      PROVE  log' = log \/ PublishLock(p)
  BY <1>1 DEF PublisherStep, PublishBegin, PublishClosed, Send, PublishCount,
              PublishReturn
<1>2. ASSUME NEW s \in Subscribers, SubscriberStep(s) PROVE log' = log
  BY <1>2 DEF SubscriberStep, Subscribe, SubscribeSince, Join, SubscribeClosed,
              ReplayOne, ReplayCount, SubscribeReturn, Receive, Unsubscribe,
              UnsubscribeClose
<1>3. ASSUME NEW c \in Closers, CloserStep(c) PROVE log' = log
  BY <1>3 DEF CloserStep, CloseLock, CloseAgain, CloseOne, CloseReturn
<1>4. ASSUME NEW n \in ReplaySizes, EnableReplay(n) PROVE log' = log
  BY <1>4 DEF EnableReplay
<1> QED BY <1>1, <1>2, <1>3, <1>4 DEF Next, Terminating, vars

LEMMA AcceptedEvent ==
  ASSUME BaseInv, NEW p \in Publishers, PublishLock(p)
  PROVE  \E t \in Topics, e \in Event :
           /\ e.pos = Len(log[t]) + 1
           /\ log[t] \in Seq(Event)
           /\ log' = [log EXCEPT ![t] = Append(log[t], e)]
           /\ log'[t] = Append(log[t], e)
           /\ replays' = PushReplay(t, e)
           /\ replaySize' = replaySize
<1> USE DEF BaseInv, TypeOK
<1> DEFINE t == pev[p].topic
           e == [pos |-> Len(log[t]) + 1, id |-> pev[p].ev.id]
<1>1. t \in Topics /\ pev[p].ev \in Event /\ log[t] \in Seq(Event)
  BY DEF PublishLock, PublisherTypes, HistoryTypes
<1>2. e \in Event /\ e.pos = Len(log[t]) + 1
  BY <1>1, LenProperties DEF Event
<1>3. /\ log' = [log EXCEPT ![t] = Append(log[t], e)]
      /\ replays' = PushReplay(t, e) /\ replaySize' = replaySize
  BY DEF PublishLock
<1> HIDE DEF e, t
<1>4. log'[t] = Append(log[t], e)
  BY <1>1, <1>3 DEF HistoryTypes
<1> QED BY <1>1, <1>2, <1>3, <1>4

LEMMA LogGrows ==
  ASSUME BaseInv, [Next]_vars, NEW t \in Topics
  PROVE  /\ Len(log[t]) \in Nat /\ Len(log'[t]) \in Nat
         /\ Len(log[t]) <= Len(log'[t])
         /\ \A i \in 1 .. Len(log[t]) : log'[t][i] = log[t][i]
<1>1. log[t] \in Seq(Event) /\ Len(log[t]) \in Nat
  BY LenProperties DEF BaseInv, TypeOK, HistoryTypes
<1>2. CASE log' = log
  BY <1>1, <1>2
<1>3. ASSUME NEW p \in Publishers, PublishLock(p)
      PROVE  /\ Len(log'[t]) \in Nat /\ Len(log[t]) <= Len(log'[t])
             /\ \A i \in 1 .. Len(log[t]) : log'[t][i] = log[t][i]
  <2>1. PICK u \in Topics, e \in Event :
          /\ log' = [log EXCEPT ![u] = Append(log[u], e)]
          /\ log'[u] = Append(log[u], e)
    BY <1>3, AcceptedEvent
  <2>2. CASE t = u
    <3>1. log'[t] = Append(log[t], e)
      BY <2>1, <2>2
    <3>2. \A g \in Seq(Event) : /\ Len(Append(g, e)) = Len(g) + 1
                                /\ \A i \in 1 .. Len(g) : Append(g, e)[i] = g[i]
      BY AppendProperties
    <3> QED BY <1>1, <3>1, <3>2
  <2>3. CASE t # u
    <3>1. log'[t] = log[t]
      BY <2>1, <2>3 DEF BaseInv, TypeOK, HistoryTypes
    <3> QED BY <1>1, <3>1
  <2> QED BY <2>2, <2>3
<1> QED BY <1>1, <1>2, <1>3, LogSteps

LEMMA RingsStep ==
  ASSUME NeverSwitchedOff, BaseInv, RingsInv, [Next]_vars
  PROVE  RingsInv'
<1> USE DEF hubVars, pubVars, subVars, endVars, history
<1>1. CASE UNCHANGED <<log, replays>> /\ (replaySize' = 0 => replaySize = 0)
  BY <1>1 DEF RingsInv
<1>2. ASSUME NEW p \in Publishers, PublishLock(p) PROVE RingsInv'
  <2>1. PICK t \in Topics, e \in Event :
          /\ e.pos = Len(log[t]) + 1
          /\ log[t] \in Seq(Event)
          /\ log' = [log EXCEPT ![t] = Append(log[t], e)]
          /\ log'[t] = Append(log[t], e)
          /\ replays' = PushReplay(t, e)
          /\ replaySize' = replaySize
    BY <1>2, AcceptedEvent
  <2>2. \A u \in Topics \ {t} : log'[u] = log[u]
    BY <2>1 DEF BaseInv, TypeOK, HistoryTypes
  <2>3. \A u \in Topics : \A i \in 1 .. Len(log'[u]) : log'[u][i].pos = i
    <3>1. \A g \in Seq(Event) :
            /\ Len(g) \in Nat /\ Len(Append(g, e)) = Len(g) + 1
            /\ Append(g, e)[Len(g) + 1] = e
            /\ \A i \in 1 .. Len(g) : Append(g, e)[i] = g[i]
      BY AppendProperties, LenProperties
    <3>2. \A i \in 1 .. Len(log'[t]) : log'[t][i].pos = i
      BY <2>1, <3>1 DEF RingsInv
    <3> QED BY <2>2, <3>2 DEF RingsInv
  <2>4. CASE replaySize = 0
    <3>1. replays' = replays /\ \A u \in Topics : replays[u] = NoBuffer
      BY <2>1, <2>4 DEF PushReplay, RingsInv
    <3>2. Append(log[t], e) \in Seq(Event)
      BY <2>1, AppendProperties
    <3>3. HoldsSuffix(NoBuffer, log'[t])
      BY <2>1, <3>2, NoBufferHoldsSuffix
    <3>4. \A u \in Topics : HoldsSuffix(replays'[u], log'[u])
      BY <2>2, <3>1, <3>3 DEF RingsInv
    <3> QED BY <2>3, <3>1, <3>4 DEF RingsInv
  <2>5. CASE replaySize # 0
    <3>1. replays' = [replays EXCEPT ![t] = Push(RingFor(t), e)]
      BY <2>1, <2>5 DEF PushReplay, RingFor
    <3>2. PICK n \in ReplaySizes \ {0} :
            n \in Nat /\ RingFor(t) \in RingOf(n, Event)
      BY <2>5, RingForType DEF BaseInv
    <3>3. HoldsSuffix(RingFor(t), log[t])
      <4>1. CASE replays[t] = NoBuffer
        <5>1. replaySize \in Nat
          BY DEF BaseInv, TypeOK, HubTypes, HubAssumption
        <5> QED BY <2>1, <4>1, <5>1, NewHoldsSuffix DEF RingFor
      <4>2. CASE replays[t] # NoBuffer
        BY <4>2 DEF RingFor, RingsInv
      <4> QED BY <4>1, <4>2
    <3>4. n \in Nat \ {0}
      BY <3>2
    <3>5. HoldsSuffix(Push(RingFor(t), e), Append(log[t], e))
      <4>1. \A b \in RingOf(n, Event), g \in Seq(Event) :
              HoldsSuffix(b, g) => HoldsSuffix(Push(b, e), Append(g, e))
        BY <3>4, PushHoldsSuffix
      <4> QED BY <2>1, <3>2, <3>3, <4>1
    <3>6. /\ replays'[t] = Push(RingFor(t), e)
          /\ \A u \in Topics \ {t} : replays'[u] = replays[u]
      BY <3>1 DEF BaseInv, TypeOK, HubTypes
    <3>7. \A u \in Topics : HoldsSuffix(replays'[u], log'[u])
      BY <2>1, <2>2, <3>5, <3>6 DEF RingsInv
    <3> QED BY <2>1, <2>3, <2>5, <3>7 DEF RingsInv
  <2> QED BY <2>4, <2>5
<1>3. ASSUME NEW p \in Publishers, PublisherStep(p) PROVE RingsInv'
  BY <1>1, <1>2, <1>3
  DEF PublisherStep, PublishBegin, PublishClosed, Send, PublishCount,
      PublishReturn
<1>4. ASSUME NEW s \in Subscribers, SubscriberStep(s) PROVE RingsInv'
  BY <1>1, <1>4
  DEF SubscriberStep, Subscribe, SubscribeSince, Join, SubscribeClosed,
      ReplayOne, ReplayCount, SubscribeReturn, Receive, Unsubscribe,
      UnsubscribeClose
<1>5. ASSUME NEW c \in Closers, CloserStep(c) PROVE RingsInv'
  <2>1. ASSUME CloseLock(c) PROVE RingsInv'
    <3>1. log' = log /\ replays' = [t \in Topics |-> NoBuffer]
      BY <2>1 DEF CloseLock
    <3>2. \A t \in Topics : HoldsSuffix(NoBuffer, log[t])
      BY NoBufferHoldsSuffix DEF BaseInv, TypeOK, HistoryTypes
    <3> QED BY <3>1, <3>2 DEF RingsInv
  <2> QED BY <1>1, <1>5, <2>1 DEF CloserStep, CloseAgain, CloseOne, CloseReturn
<1>6. ASSUME NEW n \in ReplaySizes, EnableReplay(n) PROVE RingsInv'
  BY <1>1, <1>6 DEF EnableReplay, NeverSwitchedOff
<1>7. CASE UNCHANGED vars
  BY <1>1, <1>7 DEF vars
<1> QED BY <1>3, <1>4, <1>5, <1>6, <1>7 DEF Next, Terminating

-----------------------------------------------------------------------------
(* The seam between replay and live events.                                *)

(* A snapshot and a resume are the end of the topic's log.                 *)
LEMMA ReplayIsSuffix ==
  ASSUME BaseInv, RingsInv, NEW t \in Topics, NEW events,
         \/ events = Snapshot(replays[t])
         \/ \E id \in Nat : events = Since(replays[t], id)
  PROVE  /\ Len(events) \in Nat /\ Len(events) <= Len(log[t])
         /\ \A k \in 1 .. Len(events) :
              events[k] = log[t][Len(log[t]) - Len(events) + k]
<1> DEFINE b == replays[t]
           g == log[t]
           all == Snapshot(b)
<1>1. PICK n \in Nat : b \in RingOf(n, Event)
  BY BufferIsRing DEF BaseInv, TypeOK, HubTypes
<1>2. g \in Seq(Event) /\ Len(g) \in Nat /\ HoldsSuffix(b, g)
  BY LenProperties DEF BaseInv, TypeOK, HistoryTypes, RingsInv
<1> HIDE DEF b, g
<1>3. /\ Fill(b) \in 0 .. n /\ Len(all) = Fill(b)
      /\ all = SubSeq(g, Len(g) - Fill(b) + 1, Len(g))
  BY <1>1, <1>2, SnapshotSlots, SnapshotOfSuffix
<1>4. Fill(b) \in Nat /\ Fill(b) <= Len(g)
  BY <1>2, <1>3 DEF HoldsSuffix
<1>5. \A k \in 1 .. Fill(b) : all[k] = g[Len(g) - Fill(b) + k]
  <2>1. Len(g) - Fill(b) + 1 \in 1 .. Len(g) + 1
    BY <1>2, <1>4
  <2> DEFINE m == Len(g) - Fill(b) + 1
             l == Len(g)
  <2>2. /\ m \in 1 .. l + 1 /\ l \in Nat /\ all = SubSeq(g, m, l)
        /\ l - m + 1 = Fill(b)
    BY <1>2, <1>3, <1>4, <2>1
  <2> HIDE DEF m, l
  <2>3. \A k \in 1 .. l - m + 1 : SubSeq(g, m, l)[k] = g[m + k - 1]
    BY <1>2, <2>2, SubSeqProperties DEF l
  <2>4. \A k \in 1 .. Fill(b) : m + k - 1 = Len(g) - Fill(b) + k
    BY <1>2, <1>4 DEF m
  <2> QED BY <2>2, <2>3, <2>4
<1>6. CASE events = all
  BY <1>2, <1>3, <1>4, <1>5, <1>6 DEF g
<1>7. ASSUME NEW id \in Nat, events = Since(b, id)
      PROVE  /\ Len(events) \in Nat /\ Len(events) <= Len(g)
             /\ \A k \in 1 .. Len(events) :
                  events[k] = g[Len(g) - Len(events) + k]
  <2>1. PICK k \in 0 .. Fill(b) :
          /\ Len(events) = Fill(b) - k
          /\ \A i \in 1 .. Fill(b) - k : events[i] = all[k + i]
    BY <1>1, <1>7, SinceIsSuffix
  <2>2. Len(events) \in Nat /\ Len(events) <= Len(g)
    BY <1>2, <1>4, <2>1
  <2>3. ASSUME NEW i \in 1 .. Len(events)
        PROVE  events[i] = g[Len(g) - Len(events) + i]
    <3>1. k + i \in 1 .. Fill(b) /\ events[i] = all[k + i]
      BY <1>4, <2>1, <2>3
    <3>2. Len(g) - Fill(b) + (k + i) = Len(g) - Len(events) + i
      BY <1>2, <1>4, <2>1, <2>3
    <3> QED BY <1>5, <3>1, <3>2
  <2> QED BY <2>2, <2>3
<1> QED BY <1>6, <1>7 DEF b, g

(* A replay is the run of the log that ends where s joined, and that is    *)
(* no further than s has been served.                                      *)
SeamInv ==
  \A s \in Subscribers :
    /\ ri[s] <= Len(replay[s]) /\ Len(replay[s]) <= start[s]
    /\ spc[s] # "new" => start[s] <= Served(s)
    /\ \A k \in 1 .. Len(replay[s]) :
         replay[s][k] = log[topic[s]][start[s] - Len(replay[s]) + k]

LEMMA SeamInit == HubAssumption /\ Init => SeamInv
<1>1. Len(<< >>) = 0
  OBVIOUS
<1> QED BY <1>1 DEF Init, SeamInv

LEMMA SeamTypes ==
  ASSUME BaseInv, NEW s \in Subscribers
  PROVE  /\ ri[s] \in Nat /\ start[s] \in Nat
         /\ replay[s] \in Seq(Event) /\ Len(replay[s]) \in Nat
BY LenProperties DEF BaseInv, TypeOK, SubscriberTypes, HistoryTypes

LEMMA ServedNext ==
  ASSUME BaseInv, [Next]_vars, NEW s \in Subscribers, spc'[s] # "new"
  PROVE  Served(s)' \in Int
<1>1. TypeOK'
  BY TypeStep DEF BaseInv
<1>2. Len(log'[topic'[s]]) \in Nat
  BY <1>1, LenProperties DEF TypeOK, SubscriberTypes, HistoryTypes
<1>3. Served(s)' = Len(log'[topic'[s]]) - (IF Registered(s)' /\ Pending(s)' THEN 1 ELSE 0)
  BY DEF Served
<1>4. (IF Registered(s)' /\ Pending(s)' THEN 1 ELSE 0) \in {0, 1}
  OBVIOUS
<1> QED BY <1>2, <1>3, <1>4

LEMMA SeamStep ==
  ASSUME BaseInv, LockInv, CountInv, RingsInv, SeamInv, [Next]_vars
  PROVE  SeamInv'
<1> DEFINE Seam(s) ==
      /\ ri[s] <= Len(replay[s]) /\ Len(replay[s]) <= start[s]
      /\ spc[s] # "new" => start[s] <= Served(s)
      /\ \A k \in 1 .. Len(replay[s]) :
           replay[s][k] = log[topic[s]][start[s] - Len(replay[s]) + k]
<1> SUFFICES ASSUME NEW s \in Subscribers PROVE Seam(s)'
  BY DEF SeamInv
<1>1. Effect(s) /\ Seam(s)
  BY Effects DEF SeamInv
<1>2. /\ ri[s] \in Nat /\ start[s] \in Nat
      /\ replay[s] \in Seq(Event) /\ Len(replay[s]) \in Nat
  BY SeamTypes
<1>3. spc[s] # "new" => /\ Served(s) \in Nat /\ topic[s] \in Topics
                        /\ Len(log[topic[s]]) \in Nat
                        /\ Served(s) <= Len(log[topic[s]])
  BY ServedIsNat DEF BaseInv, TypeOK, SubscriberTypes
<1>4. spc'[s] # "new" => Served(s)' \in Int
  BY ServedNext
<1>5. spc[s] = "new" => /\ replay[s] = << >> /\ ri[s] = 0 /\ start[s] = 0
                        /\ Len(replay[s]) = 0
  <2>1. Len(<< >>) = 0
    OBVIOUS
  <2> QED BY <2>1 DEF CountInv
<1>6. ASSUME Keeps(s), Served(s)' >= Served(s),
             ri'[s] \in Int, ri'[s] <= Len(replay[s])
      PROVE  Seam(s)'
  <2>1. /\ topic'[s] = topic[s] /\ start'[s] = start[s]
        /\ replay'[s] = replay[s] /\ spc[s] # "new" /\ spc'[s] # "new"
    BY <1>6 DEF Keeps
  <2>2. start'[s] <= Served(s)'
    BY <1>1, <1>2, <1>3, <1>4, <1>6, <2>1
  <2>3. ASSUME NEW k \in 1 .. Len(replay[s])
        PROVE  replay[s][k] = log'[topic[s]][start[s] - Len(replay[s]) + k]
    <3>1. start[s] - Len(replay[s]) + k \in 1 .. Len(log[topic[s]])
      BY <1>1, <1>2, <1>3, <2>1, <2>3
    <3> QED BY <1>1, <1>3, <2>1, <3>1, LogGrows
  <2> QED BY <1>1, <1>6, <2>1, <2>2, <2>3
<1>7. CASE Idles(s)
  BY <1>5, <1>7 DEF Idles
<1>8. CASE Rests(s)
  BY <1>1, <1>2, <1>6, <1>8 DEF Rests
<1>9. CASE MeetsLive(s)
  <2>1. Served(s)' >= Served(s)
    <3>1. spc[s] # "new" /\ Served(s)' = Served(s) + 1
      BY <1>3, <1>9 DEF MeetsLive, Keeps
    <3> QED BY <1>3, <3>1
  <2> QED BY <1>1, <1>2, <1>6, <1>9, <2>1 DEF MeetsLive
<1>10. CASE MeetsReplay(s)
  <2>1. Served(s)' >= Served(s)
    BY <1>3, <1>10 DEF MeetsReplay, Keeps
  <2>2. ri'[s] \in Int /\ ri'[s] <= Len(replay[s])
    BY <1>2, <1>10 DEF MeetsReplay
  <2> QED BY <1>6, <1>10, <2>1, <2>2 DEF MeetsReplay
<1>11. CASE Joins(s)
  <2>1. /\ topic'[s] \in Topics /\ log' = log /\ ri'[s] = 0
        /\ start'[s] = Len(log[topic'[s]]) /\ Served(s)' = start'[s]
    BY <1>5, <1>11 DEF Joins
  <2>2. /\ Len(replay'[s]) \in Nat /\ Len(replay'[s]) <= Len(log[topic'[s]])
        /\ \A k \in 1 .. Len(replay'[s]) :
             replay'[s][k] =
               log[topic'[s]][Len(log[topic'[s]]) - Len(replay'[s]) + k]
    BY <1>11, <2>1, ReplayIsSuffix DEF Joins
  <2>3. start'[s] <= Served(s)'
    <3>1. Len(log[topic'[s]]) \in Nat
      BY <2>1, LenProperties DEF BaseInv, TypeOK, HistoryTypes
    <3> QED BY <2>1, <3>1
  <2>4. 0 <= Len(replay'[s])
    BY <2>2
  <2> QED BY <2>1, <2>2, <2>3, <2>4
<1>12. CASE FindsClosed(s)
  <2>1. Served(s)' \in Nat
    <3>1. topic'[s] \in Topics /\ Served(s)' = Len(log[topic'[s]])
      BY <1>12 DEF FindsClosed
    <3> QED BY <3>1, LenProperties DEF BaseInv, TypeOK, HistoryTypes
  <2> QED BY <1>5, <1>12, <2>1 DEF FindsClosed
<1> QED BY <1>1, <1>7, <1>8, <1>9, <1>10, <1>11, <1>12 DEF Effect

-----------------------------------------------------------------------------
(* Order.                                                                  *)

(* Of q, events after position b come in order and not beyond v, and those *)
(* up to b in order and not beyond r.                                      *)
Ordered(q, b, r, v) ==
  /\ \A i \in 1 .. Len(q) : IF q[i].pos > b THEN q[i].pos <= v
                                            ELSE q[i].pos <= r
  /\ \A i, j \in 1 .. Len(q) :
       (i < j /\ (q[i].pos > b <=> q[j].pos > b)) => q[i].pos < q[j].pos

LEMMA OrderedLater ==
  ASSUME NEW q \in Seq(Event), NEW b \in Int, NEW r \in Int, NEW v \in Int,
         NEW r2 \in Int, NEW v2 \in Int, r <= r2, v <= v2,
         Ordered(q, b, r, v)
  PROVE  Ordered(q, b, r2, v2)
<1>1. \A i \in 1 .. Len(q) : q[i].pos \in Nat
  <2>1. \A i \in 1 .. Len(q) : q[i] \in Event
    BY ElementOfSeq
  <2> QED BY <2>1 DEF Event
<1>2. ASSUME NEW i \in 1 .. Len(q)
      PROVE  IF q[i].pos > b THEN q[i].pos <= v2 ELSE q[i].pos <= r2
  <2>1. q[i].pos \in Nat /\ IF q[i].pos > b THEN q[i].pos <= v
                                            ELSE q[i].pos <= r
    BY <1>1 DEF Ordered
  <2> QED BY <2>1
<1> QED BY <1>2 DEF Ordered

LEMMA OrderedAppend ==
  ASSUME NEW q \in Seq(Event), NEW b \in Int, NEW r \in Int, NEW v \in Int,
         NEW r2 \in Int, NEW v2 \in Int, r <= r2, v <= v2,
         Ordered(q, b, r, v), NEW e \in Event,
         IF e.pos > b THEN v < e.pos /\ e.pos <= v2
                      ELSE r < e.pos /\ e.pos <= r2
  PROVE  Ordered(Append(q, e), b, r2, v2)
<1> DEFINE a == Append(q, e)
           n == Len(q)
<1>1. /\ n \in Nat /\ Len(a) = n + 1 /\ a[n + 1] = e
      /\ \A i \in 1 .. n : a[i] = q[i] /\ q[i].pos \in Nat
      /\ e.pos \in Nat
  <2>1. \A i \in 1 .. n : q[i] \in Event
    BY ElementOfSeq
  <2>2. \A x \in Event : x.pos \in Nat
    BY DEF Event
  <2> QED BY <2>1, <2>2, LenProperties, AppendProperties
<1> HIDE DEF a
<1>2. ASSUME NEW i \in 1 .. Len(a)
      PROVE  IF a[i].pos > b THEN a[i].pos <= v2 ELSE a[i].pos <= r2
  <2>1. CASE i = n + 1
    BY <1>1, <2>1
  <2>2. CASE i # n + 1
    <3>1. i \in 1 .. n
      BY <1>1, <2>2
    <3> QED BY <1>1, <3>1 DEF Ordered
  <2> QED BY <2>1, <2>2
<1>3. ASSUME NEW i \in 1 .. Len(a), NEW j \in 1 .. Len(a), i < j,
             a[i].pos > b <=> a[j].pos > b
      PROVE  a[i].pos < a[j].pos
  <2>1. i \in 1 .. n
    BY <1>1, <1>3
  <2>2. CASE j = n + 1
    <3>1. a[i] = q[i] /\ a[j] = e /\ q[i].pos \in Nat /\ e.pos \in Nat
      BY <1>1, <2>1, <2>2
    <3>2. IF q[i].pos > b THEN q[i].pos <= v ELSE q[i].pos <= r
      BY <2>1 DEF Ordered
    <3>3. q[i].pos > b <=> e.pos > b
      BY <1>3, <3>1
    <3>4. q[i].pos < e.pos
      BY <3>1, <3>2, <3>3
    <3> QED BY <3>1, <3>4
  <2>3. CASE j # n + 1
    <3>1. j \in 1 .. n
      BY <1>1, <2>3
    <3> QED BY <1>1, <1>3, <2>1, <3>1 DEF Ordered
  <2> QED BY <2>2, <2>3
<1> QED BY <1>2, <1>3 DEF Ordered, a

(* How far into the log the replay of s has come.                          *)
Replayed(s) == start[s] - Len(replay[s]) + ri[s]

OrderInv ==
  \A s \in Subscribers :
    spc[s] # "new" => Ordered(Stream(s), start[s], Replayed(s), Served(s))

LEMMA OrderInit == HubAssumption /\ Init => OrderInv
BY DEF Init, OrderInv

LEMMA OrderStep ==
  ASSUME BaseInv, LockInv, CountInv, RingsInv, SeamInv, OrderInv, [Next]_vars
  PROVE  OrderInv'
<1> SUFFICES ASSUME NEW s \in Subscribers, spc'[s] # "new"
             PROVE  Ordered(Stream(s)', start'[s], Replayed(s)', Served(s)')
  BY DEF OrderInv
<1>1. Effect(s)
  BY Effects
<1>2. /\ ri[s] \in Nat /\ start[s] \in Nat
      /\ replay[s] \in Seq(Event) /\ Len(replay[s]) \in Nat
      /\ Stream(s) \in Seq(Event)
  BY SeamTypes, StreamType
<1>3. spc[s] # "new" => /\ Served(s) \in Nat /\ topic[s] \in Topics
                        /\ Len(log[topic[s]]) \in Nat
                        /\ Served(s) <= Len(log[topic[s]])
                        /\ log[topic[s]] \in Seq(Event)
  BY ServedIsNat DEF BaseInv, TypeOK, SubscriberTypes, HistoryTypes
<1>4. Served(s)' \in Int
  BY ServedNext
<1> DEFINE q == Stream(s)
           q2 == Stream(s)'
           b == start[s]
           r == Replayed(s)
           r2 == Replayed(s)'
           v == Served(s)
           v2 == Served(s)'
<1>5. r = b - Len(replay[s]) + ri[s] /\ r \in Int
  BY <1>2 DEF Replayed
<1>6. Keeps(s) => /\ r2 = b - Len(replay[s]) + ri'[s]
                  /\ start'[s] = b /\ Ordered(q, b, r, v) /\ v \in Nat
  BY <1>3 DEF Keeps, Replayed, OrderInv
<1>7. ASSUME Keeps(s), NEW e \in Event, Decides(s, e), r2 \in Int,
             r <= r2, v <= v2,
             IF e.pos > b THEN v < e.pos /\ e.pos <= v2
                          ELSE r < e.pos /\ e.pos <= r2
      PROVE  Ordered(q2, start'[s], r2, v2)
  <2>1. Ordered(q, b, r2, v2) /\ Ordered(Append(q, e), b, r2, v2)
    <3> HIDE DEF q, b, r, r2, v, v2
    <3>1. q \in Seq(Event) /\ b \in Int /\ r \in Int /\ v \in Int /\ v2 \in Int
          /\ Ordered(q, b, r, v)
      BY <1>2, <1>4, <1>5, <1>6, <1>7 DEF q, b, v, v2
    <3> QED BY <1>7, <3>1, OrderedLater, OrderedAppend
  <2>2. q2 = q \/ q2 = Append(q, e)
    BY <1>7 DEF Decides
  <2> QED BY <1>6, <1>7, <2>1, <2>2
<1>8. CASE Rests(s)
  <2>1. Keeps(s) /\ q2 = q /\ r2 = r /\ v <= v2 /\ start'[s] = b
    BY <1>3, <1>4, <1>5, <1>6, <1>8 DEF Rests, Keeps
  <2>2. Ordered(q, b, r, v) /\ v \in Nat
    BY <1>6, <2>1
  <2>3. Ordered(q, b, r, v2)
    <3> HIDE DEF q, b, r, v, v2
    <3>1. q \in Seq(Event) /\ b \in Int /\ r \in Int /\ v2 \in Int
      BY <1>2, <1>4, <1>5 DEF q, b, v2
    <3> QED BY <2>1, <2>2, <3>1, OrderedLater
  <2> QED BY <2>1, <2>3
<1>9. CASE MeetsLive(s)
  <2>1. /\ Keeps(s) /\ ri'[s] = ri[s] /\ Decides(s, Latest(s))
        /\ spc[s] # "new" /\ Len(log[topic[s]]) > 0
        /\ v = Len(log[topic[s]]) - 1 /\ v2 = Len(log[topic[s]])
    BY <1>9 DEF MeetsLive, Keeps
  <2>2. Len(log[topic[s]]) \in 1 .. Len(log[topic[s]])
    BY <1>3, <2>1
  <2>3. Latest(s) \in Event /\ Latest(s).pos = Len(log[topic[s]])
    BY <1>3, <2>1, <2>2, ElementOfSeq DEF Latest, RingsInv
  <2>4. b <= v
    BY <2>1 DEF SeamInv
  <2>5. r2 = r
    BY <1>5, <1>6, <2>1
  <2> HIDE DEF r, r2, v, v2, b
  <2>6. /\ v < v2 /\ Latest(s).pos = v2 /\ v2 > b /\ v2 \in Nat /\ v \in Int
        /\ b \in Int
    BY <1>2, <1>3, <2>1, <2>3, <2>4 DEF b
  <2>7. /\ r2 \in Int /\ r <= r2 /\ v <= v2
        /\ IF Latest(s).pos > b THEN v < Latest(s).pos /\ Latest(s).pos <= v2
                                ELSE r < Latest(s).pos /\ Latest(s).pos <= r2
    BY <1>5, <2>5, <2>6
  <2>8. start'[s] = b
    BY <1>6, <2>1 DEF b
  <2>9. Ordered(q2, b, r2, v2)
    BY <1>7, <2>1, <2>3, <2>7, <2>8
  <2> QED BY <2>8, <2>9 DEF r2, v2
<1>10. CASE MeetsReplay(s)
  <2> DEFINE k == ri[s] + 1
             e == replay[s][k]
  <2>1. /\ Keeps(s) /\ ri'[s] = ri[s] + 1 /\ Decides(s, e) /\ v2 = v
        /\ spc[s] # "new" /\ ri[s] < Len(replay[s])
    BY <1>10 DEF MeetsReplay, Keeps
  <2>2. k \in 1 .. Len(replay[s]) /\ e \in Event
    BY <1>2, <2>1, ElementOfSeq
  <2>3. /\ Len(replay[s]) <= b /\ b <= v
        /\ e = log[topic[s]][b - Len(replay[s]) + k]
    BY <2>1, <2>2 DEF SeamInv
  <2>4. r2 = b - Len(replay[s]) + k /\ r2 = r + 1
    <3>1. r2 = b - Len(replay[s]) + (ri[s] + 1)
      BY <1>6, <2>1
    <3>2. r = b - Len(replay[s]) + ri[s]
      BY <1>5
    <3> DEFINE m == Len(replay[s])
               i == ri[s]
    <3>3. m \in Nat /\ i \in Nat /\ b \in Nat
      BY <1>2
    <3>4. r2 = b - m + (i + 1) /\ r = b - m + i
      BY <3>1, <3>2
    <3> HIDE DEF r, r2, b, m, i
    <3>5. r2 = b - m + (i + 1) /\ r2 = r + 1
      BY <3>3, <3>4
    <3> QED BY <3>5 DEF m, i
  <2>5. r2 \in 1 .. Len(log[topic[s]]) /\ r2 <= b
    <3> HIDE DEF r, r2, v
    <3>1. v <= Len(log[topic[s]]) /\ v \in Nat /\ b \in Nat
      BY <1>2, <1>3, <2>1 DEF v
    <3> DEFINE n == Len(log[topic[s]])
               m == Len(replay[s])
    <3>2. /\ k \in 1 .. m /\ m \in Nat /\ m <= b /\ b <= v /\ n \in Nat
          /\ v <= n /\ v \in Nat /\ b \in Nat /\ r2 = b - m + k
      BY <1>2, <1>3, <2>1, <2>2, <2>3, <2>4, <3>1
    <3> HIDE DEF n, m, b, k
    <3>3. r2 \in 1 .. n /\ r2 <= b
      BY <3>2
    <3> QED BY <3>3 DEF n
  <2>6. e.pos = r2
    BY <1>3, <2>1, <2>3, <2>4, <2>5 DEF RingsInv
  <2> HIDE DEF r, r2, v, v2, b, e
  <2>7. /\ r2 \in Int /\ r <= r2 /\ v <= v2
        /\ IF e.pos > b THEN v < e.pos /\ e.pos <= v2
                        ELSE r < e.pos /\ e.pos <= r2
    <3>1. b \in Nat /\ v \in Nat /\ v2 = v
      BY <1>2, <1>3, <2>1 DEF b, v
    <3>2. r \in Int /\ r2 = r + 1 /\ r2 <= b /\ e.pos = r2
      BY <1>5, <2>4, <2>5, <2>6
    <3> QED BY <3>1, <3>2
  <2>8. start'[s] = b
    BY <1>6, <2>1 DEF b
  <2>9. Ordered(q2, b, r2, v2)
    BY <1>7, <2>1, <2>2, <2>7, <2>8 DEF e
  <2> QED BY <2>8, <2>9 DEF r2, v2
<1>11. CASE Joins(s) \/ FindsClosed(s)
  <2>1. ch'[s] = << >> /\ got'[s] = << >>
    BY <1>11 DEF Joins, FindsClosed, CountInv
  <2>2. Stream(s)' = << >> /\ Len(<< >>) = 0
    BY <2>1, ConcatEmptySeq, EmptySeq DEF Stream
  <2> QED BY <2>2 DEF Ordered
<1> QED BY <1>1, <1>8, <1>9, <1>10, <1>11 DEF Effect, Idles

-----------------------------------------------------------------------------

THEOREM OrderInvariants ==
  NeverSwitchedOff => (Spec => [](RingsInv /\ SeamInv /\ OrderInv))
<1> SUFFICES ASSUME NeverSwitchedOff
             PROVE  Spec => [](RingsInv /\ SeamInv /\ OrderInv)
  OBVIOUS
<1>1. HubAssumption
  BY HubAssumption
<1>2. BaseInv /\ LockInv /\ CountInv /\ RingsInv /\ SeamInv /\ OrderInv
        /\ [Next]_vars => RingsInv' /\ SeamInv' /\ OrderInv'
  BY RingsStep, SeamStep, OrderStep
<1>3. Init => RingsInv /\ SeamInv /\ OrderInv
  BY <1>1, RingsInit, SeamInit, OrderInit
<1> QED BY <1>2, <1>3, HubInvariants, PTL DEF Spec

(* Live events come in the order the hub accepted them, replayed ones too, *)
(* and none is both replayed and delivered live (hub.go:75-76, 92-99).     *)
THEOREM StreamsStayInOrder == NeverSwitchedOff => (Spec => []StreamsInOrder)
<1> SUFFICES ASSUME NeverSwitchedOff PROVE Spec => []StreamsInOrder
  OBVIOUS
<1>1. BaseInv /\ CountInv /\ OrderInv => StreamsInOrder
  <2> SUFFICES ASSUME BaseInv, CountInv, OrderInv, NEW s \in Subscribers
               PROVE  \A i, j \in DOMAIN Stream(s) :
                        (i < j /\ (Stream(s)[i].pos > start[s] <=>
                                   Stream(s)[j].pos > start[s]))
                          => Stream(s)[i].pos < Stream(s)[j].pos
    BY DEF StreamsInOrder
  <2>1. DOMAIN Stream(s) = 1 .. Len(Stream(s))
    BY StreamType, LenProperties
  <2>2. CASE spc[s] = "new"
    <3>1. ch[s] = << >> /\ got[s] = << >>
      BY <2>2 DEF CountInv
    <3>2. Stream(s) = << >> /\ Len(<< >>) = 0
      BY <3>1, ConcatEmptySeq, EmptySeq DEF Stream
    <3> QED BY <2>1, <3>2
  <2>3. CASE spc[s] # "new"
    BY <2>1, <2>3 DEF OrderInv, Ordered
  <2> QED BY <2>2, <2>3
<1> QED BY <1>1, OrderInvariants, HubInvariants, PTL

(* What is replayed is the unbroken run of events up to the moment of      *)
(* joining: no event falls between replay and live delivery                *)
(* (hub_replay.go:5-7).                                                    *)
THEOREM ReplaysMeetLive == NeverSwitchedOff => (Spec => []ReplayMeetsLive)
<1> SUFFICES ASSUME NeverSwitchedOff PROVE Spec => []ReplayMeetsLive
  OBVIOUS
<1>1. BaseInv /\ SeamInv => ReplayMeetsLive
  <2> SUFFICES ASSUME BaseInv, SeamInv, NEW s \in Subscribers
               PROVE  \A k \in DOMAIN replay[s] : replay[s][k] =
                        log[topic[s]][start[s] - Len(replay[s]) + k]
    BY DEF ReplayMeetsLive
  <2>1. DOMAIN replay[s] = 1 .. Len(replay[s])
    BY SeamTypes, LenProperties
  <2> QED BY <2>1 DEF SeamInv
<1> QED BY <1>1, OrderInvariants, HubInvariants, PTL

-----------------------------------------------------------------------------
(* The hub implements FanOut.                                              *)

(* IDs are those publishers chose, or numbers idSeq has reached: no more   *)
(* than there were calls of Publish.                                       *)
IdInv ==
  /\ calls <= MaxPublish
  /\ idSeq <= calls
  /\ \A p \in Publishers : pev[p].ev.id \in CustomIDs \cup 0 .. MaxPublish

LEMMA IdInit == HubAssumption /\ Init => IdInv
BY DEF HubAssumption, Init, IdInv, NoEvent, NoID

LEMMA IdStep ==
  ASSUME BaseInv, IdInv, [Next]_vars
  PROVE  IdInv'
<1> USE DEF hubVars, pubVars, subVars, endVars, history
<1> DEFINE IDs == CustomIDs \cup 0 .. MaxPublish
<1>1. /\ calls \in Nat /\ idSeq \in Nat /\ MaxPublish \in Nat
      /\ pev \in [Publishers -> [topic : Topics \cup {NoTopic}, ev : Event]]
  BY DEF BaseInv, TypeOK, HubTypes, PublisherTypes, HubAssumption
<1>2. CASE UNCHANGED <<calls, idSeq>>
           /\ \A p \in Publishers : pev'[p].ev.id \in {pev[p].ev.id, NoID}
  <2>1. NoID \in IDs
    BY <1>1 DEF NoID
  <2> QED BY <1>2, <2>1 DEF IdInv
<1>3. ASSUME NEW p \in Publishers, NEW t \in Topics,
             NEW id \in CustomIDs \cup {NoID}, PublishBegin(p, t, id)
      PROVE  IdInv'
  <2> DEFINE auto == id = NoID /\ replaySize > 0
             new == [topic |-> t,
                     ev |-> [pos |-> 0, id |-> IF auto THEN idSeq + 1 ELSE id]]
  <2>1. /\ calls < MaxPublish /\ calls' = calls + 1
        /\ idSeq' = IF auto THEN idSeq + 1 ELSE idSeq
        /\ pev' = [pev EXCEPT ![p] = new]
    BY <1>3 DEF PublishBegin
  <2>2. new.ev.id \in IDs
    <3>1. new.ev.id = IF auto THEN idSeq + 1 ELSE id
      OBVIOUS
    <3>2. idSeq + 1 \in 0 .. MaxPublish
      BY <1>1, <2>1 DEF IdInv
    <3> QED BY <1>1, <3>1, <3>2 DEF NoID
  <2>3. idSeq' <= calls' /\ calls' <= MaxPublish
    <3>1. idSeq' = idSeq + 1 \/ idSeq' = idSeq
      BY <2>1
    <3> QED BY <1>1, <2>1, <3>1 DEF IdInv
  <2> HIDE DEF new
  <2>4. \A q \in Publishers : pev'[q].ev.id \in IDs
    BY <1>1, <2>1, <2>2 DEF IdInv
  <2> QED BY <2>3, <2>4 DEF IdInv
<1>4. ASSUME NEW p \in Publishers, PublisherStep(p) PROVE IdInv'
  <2>1. ASSUME PublishLock(p) PROVE IdInv'
    <3>1. pev' = [pev EXCEPT ![p].ev =
                     [pos |-> Len(log[pev[p].topic]) + 1, id |-> pev[p].ev.id]]
          /\ UNCHANGED <<calls, idSeq>>
      BY <2>1 DEF PublishLock
    <3>2. \A q \in Publishers : pev'[q].ev.id = pev[q].ev.id
      BY <1>1, <3>1
    <3> QED BY <1>2, <3>1, <3>2
  <2>2. ASSUME PublishClosed(p) \/ PublishReturn(p) PROVE IdInv'
    <3>1. pev' = [pev EXCEPT ![p] = [topic |-> NoTopic, ev |-> NoEvent]]
          /\ UNCHANGED <<calls, idSeq>>
      BY <2>2 DEF PublishClosed, PublishReturn
    <3>2. \A q \in Publishers : pev'[q].ev.id \in {pev[q].ev.id, NoID}
      BY <1>1, <3>1 DEF NoEvent
    <3> QED BY <1>2, <3>1, <3>2
  <2>3. ASSUME PublishCount(p) \/ \E s \in Subscribers : Send(p, s) PROVE IdInv'
    BY <1>2, <2>3 DEF PublishCount, Send
  <2> QED BY <1>3, <1>4, <2>1, <2>2, <2>3 DEF PublisherStep
<1>5. ASSUME NEW s \in Subscribers, SubscriberStep(s) PROVE IdInv'
  BY <1>2, <1>5
  DEF SubscriberStep, Subscribe, SubscribeSince, Join, SubscribeClosed,
      ReplayOne, ReplayCount, SubscribeReturn, Receive, Unsubscribe,
      UnsubscribeClose
<1>6. ASSUME NEW c \in Closers, CloserStep(c) PROVE IdInv'
  BY <1>2, <1>6 DEF CloserStep, CloseLock, CloseAgain, CloseOne, CloseReturn
<1>7. ASSUME NEW n \in ReplaySizes, EnableReplay(n) PROVE IdInv'
  BY <1>2, <1>7 DEF EnableReplay
<1>8. CASE UNCHANGED vars
  BY <1>2, <1>8 DEF vars
<1> QED BY <1>4, <1>5, <1>6, <1>7, <1>8 DEF Next, Terminating

LEMMA FanOutInit == HubAssumption /\ Init => Contract!Init
<1> SUFFICES ASSUME HubAssumption, Init PROVE Contract!Init
  OBVIOUS
<1>1. ASSUME NEW s \in Subscribers
      PROVE  Status(s) = "new" /\ Rest(s) = << >> /\ Cursor(s) = 0 /\ Stream(s) = << >>
  <2>1. spc[s] = "new" /\ ~Registered(s)
    BY DEF Init, Registered
  <2>2. replay[s] = << >> /\ ri[s] = 0 /\ Len(replay[s]) = 0 /\ ch[s] = << >> /\ got[s] = << >>
    BY DEF Init
  <2>3. SubSeq(<< >>, 1, 0) = << >>
    OBVIOUS
  <2>4. << >> \o << >> = << >>
    BY EmptySeq, ConcatEmptySeq
  <2> QED BY <2>1, <2>2, <2>3, <2>4 DEF Status, Rest, Cursor, Stream
<1>2. closed = FALSE /\ log = [t \in Topics |-> << >>]
      /\ topic = [s \in Subscribers |-> NoTopic] /\ drops = [s \in Subscribers |-> 0]
  BY DEF Init
<1> QED BY <1>1, <1>2 DEF Contract!Init

(* FanOut sees nothing of s change.                                        *)
Same(s) ==
  /\ Status(s)' = Status(s) /\ Rest(s)' = Rest(s) /\ Cursor(s)' = Cursor(s)
  /\ Stream(s)' = Stream(s)

LEMMA SameKept ==
  ASSUME NEW s \in Subscribers,
         spc'[s] = "new" <=> spc[s] = "new",
         topic'[s] = topic[s], ch'[s] = ch[s], got'[s] = got[s],
         ri'[s] = ri[s], replay'[s] = replay[s], log' = log,
         Registered(s)' <=> Registered(s),
         Pending(s)' <=> Pending(s)
  PROVE  Same(s)
<1>1. Status(s)' = Status(s)
  BY DEF Status
<1>2. Rest(s)' = Rest(s)
  BY DEF Rest
<1>3. Cursor(s)' = Cursor(s)
  BY DEF Cursor
<1>4. Stream(s)' = Stream(s)
  BY DEF Stream
<1> QED BY <1>1, <1>2, <1>3, <1>4 DEF Same

(* A step FanOut does not see.                                             *)
LEMMA Stutter ==
  ASSUME \A s \in Subscribers : Same(s),
         UNCHANGED <<closed, log, topic, drops>>
  PROVE  UNCHANGED Contract!vars
<1>1. /\ [s \in Subscribers |-> Status(s)]' = [s \in Subscribers |-> Status(s)]
      /\ [s \in Subscribers |-> Rest(s)]' = [s \in Subscribers |-> Rest(s)]
      /\ [s \in Subscribers |-> Cursor(s)]' = [s \in Subscribers |-> Cursor(s)]
      /\ [s \in Subscribers |-> Stream(s)]' = [s \in Subscribers |-> Stream(s)]
  BY DEF Same
<1> QED BY <1>1 DEF Contract!vars

LEMMA AttachedFacts ==
  ASSUME BaseInv, LockInv, NEW s \in Subscribers
  PROVE  /\ Status(s) = "attached" <=> Registered(s)
         /\ Status(s) = "new" <=> spc[s] = "new"
         /\ Cursor(s) = IF Registered(s) THEN Served(s) ELSE 0
         /\ Status(s) = "new" => Cursor(s) = 0
<1>1. Registered(s) => spc[s] # "new"
  BY RegisteredFacts
<1> QED BY <1>1 DEF Status, Cursor, Served

-----------------------------------------------------------------------------

(* Publish takes the lock: FanOut accepts the event.  Whoever is           *)
(* registered has it pending, nobody has decided it.                       *)
LEMMA PublishLockAccepts ==
  ASSUME BaseInv, LockInv, IdInv, NEW p \in Publishers, PublishLock(p)
  PROVE  Contract!Next
<1> USE DEF BaseInv, TypeOK, subVars, endVars
<1> DEFINE t == pev[p].topic
           e == [pos |-> Len(log[t]) + 1, id |-> pev[p].ev.id]
<1>1. t \in Topics /\ pev[p].ev.id \in CustomIDs \cup 0 .. MaxPublish
  BY DEF PublishLock, PublisherTypes, IdInv
<1>2. /\ mu = Free /\ mu' = p /\ ~closed
      /\ todo' = [todo EXCEPT ![p] = subs[t]]
      /\ log' = [log EXCEPT ![t] = Append(@, e)]
      /\ UNCHANGED <<closed, subs, spc, topic, ch, drops, replay, ri, start, got>>
  BY DEF PublishLock
<1>3. Contract!Accept(t) <=>
        /\ ~closed
        /\ \E id \in CustomIDs \cup 0 .. MaxPublish :
             log' = [log EXCEPT ![t] = Append(@, [pos |-> Len(@) + 1, id |-> id])]
        /\ UNCHANGED <<closed, topic, drops>>
        /\ [s \in Subscribers |-> Status(s)]' = [s \in Subscribers |-> Status(s)]
        /\ [s \in Subscribers |-> Rest(s)]' = [s \in Subscribers |-> Rest(s)]
        /\ [s \in Subscribers |-> Cursor(s)]' = [s \in Subscribers |-> Cursor(s)]
        /\ [s \in Subscribers |-> Stream(s)]' = [s \in Subscribers |-> Stream(s)]
  BY DEF Contract!Accept
<1>4. \A s \in Subscribers : Same(s)
  <2> SUFFICES ASSUME NEW s \in Subscribers PROVE Same(s)
    OBVIOUS
  <2>1. Registered(s)' <=> Registered(s)
    BY <1>2 DEF Registered
  <2>2. Status(s)' = Status(s) /\ Rest(s)' = Rest(s) /\ Stream(s)' = Stream(s)
    BY <1>2, <2>1 DEF Status, Rest, Stream
  <2>3. Cursor(s)' = Cursor(s)
    <3>1. CASE ~Registered(s)
      BY <2>1, <3>1 DEF Cursor
    <3>2. CASE Registered(s)
      <4>1. /\ topic[s] \in Topics /\ Len(log[topic[s]]) \in Nat
            /\ (s \in subs[t] <=> topic[s] = t)
        BY <1>1, <3>2, RegisteredFacts
      <4>2. ~Pending(s) /\ (Pending(s)' <=> s \in subs[t])
        BY <1>2 DEF Pending, HubAssumption, PublisherTypes
      <4>3. Cursor(s) = Len(log[topic[s]])
        BY <3>2, <4>1, <4>2 DEF Cursor
      <4>4. Cursor(s)' = Len(log'[topic[s]]) - (IF topic[s] = t THEN 1 ELSE 0)
        BY <1>2, <2>1, <3>2, <4>1, <4>2 DEF Cursor
      <4>5. CASE topic[s] = t
        <5>1. log[t] \in Seq(Event) /\ e \in Event
          BY <1>1, LenProperties DEF HistoryTypes, PublishLock, PublisherTypes, Event
        <5> HIDE DEF e
        <5>2. log'[t] = Append(log[t], e)
          BY <1>1, <1>2 DEF HistoryTypes
        <5>3. Len(log'[t]) = Len(log[t]) + 1
          BY <5>1, <5>2, AppendProperties
        <5> HIDE DEF t
        <5> QED BY <4>1, <4>3, <4>4, <4>5, <5>3
      <4>6. CASE topic[s] # t
        <5>1. log'[topic[s]] = log[topic[s]]
          BY <1>2, <4>1, <4>6 DEF HistoryTypes
        <5> QED BY <4>1, <4>3, <4>4, <4>6, <5>1
      <4> QED BY <4>5, <4>6
    <3> QED BY <3>1, <3>2
  <2> QED BY <2>2, <2>3 DEF Same
<1>5. \E id \in CustomIDs \cup 0 .. MaxPublish :
        log' = [log EXCEPT ![t] = Append(@, [pos |-> Len(@) + 1, id |-> id])]
  BY <1>1, <1>2 DEF HistoryTypes
<1>6. /\ [s \in Subscribers |-> Status(s)]' = [s \in Subscribers |-> Status(s)]
      /\ [s \in Subscribers |-> Rest(s)]' = [s \in Subscribers |-> Rest(s)]
      /\ [s \in Subscribers |-> Cursor(s)]' = [s \in Subscribers |-> Cursor(s)]
      /\ [s \in Subscribers |-> Stream(s)]' = [s \in Subscribers |-> Stream(s)]
  BY <1>4 DEF Same
<1>7. Contract!Accept(t)
  BY <1>2, <1>3, <1>5, <1>6
<1> QED BY <1>1, <1>7 DEF Contract!Next

(* What FanOut's variables become when only r's part of them changes.      *)
OnlyAt(r) ==
  \A s \in Subscribers \ {r} : Same(s)

(* One turn of the delivery loop: FanOut decides the next live event.      *)
LEMMA SendDecides ==
  ASSUME BaseInv, LockInv, NEW p \in Publishers, NEW r \in Subscribers, Send(p, r)
  PROVE  Contract!Next
<1> USE DEF BaseInv, TypeOK
<1>1. /\ r \in todo[p] /\ mu = p
      /\ todo' = [todo EXCEPT ![p] = @ \ {r}]
      /\ UNCHANGED <<log, subs, mu, closed, topic, replay, ri, start, got, spc>>
  BY DEF Send, LockInv, hubVars, history
<1>2. \/ ch' = [ch EXCEPT ![r] = Append(@, pev[p].ev)] /\ drops' = drops
      \/ ch' = ch /\ drops' = [drops EXCEPT
                                 ![r] = IF subClosed[r] THEN @ ELSE @ + 1]
  BY DEF Send
<1>3. \A s \in Subscribers : Registered(s)' <=> Registered(s)
  BY <1>1 DEF Registered
<1>4. OnlyAt(r)
  <2> SUFFICES ASSUME NEW s \in Subscribers \ {r} PROVE Same(s)
    BY DEF OnlyAt
  <2>1. Pending(s)' <=> Pending(s)
    BY <1>1 DEF Pending, PublisherTypes
  <2>2. ch'[s] = ch[s]
    BY <1>2 DEF SubscriberTypes
  <2> QED BY <1>1, <1>3, <2>1, <2>2, SameKept
<1>5. Pending(r) /\ ~Pending(r)'
  BY <1>1 DEF Pending, PublisherTypes
<1>6. /\ Registered(r) /\ spc[r] # "new" /\ ~subClosed[r]
      /\ Len(log[topic[r]]) > 0 /\ Len(log[topic[r]]) \in Nat
      /\ pev[p].ev = Latest(r) /\ Latest(r) \in Event
  BY <1>1, <1>5, RegisteredFacts, ElementOfSeq DEF Latest
<1>7. /\ Status(r) = "attached" /\ Status(r)' = Status(r) /\ Rest(r)' = Rest(r)
      /\ Cursor(r) = Len(log[topic[r]]) - 1
      /\ Cursor(r)' = Len(log[topic[r]]) - 0
  BY <1>1, <1>3, <1>5, <1>6 DEF Status, Rest, Cursor
<1>8. /\ Cursor(r) < Len(log[topic[r]]) /\ Cursor(r)' = Cursor(r) + 1
      /\ log[topic[r]][Cursor(r) + 1] = Latest(r)
  <2>1. Cursor(r) + 1 = Len(log[topic[r]])
    BY <1>6, <1>7
  <2> QED BY <1>6, <1>7, <2>1 DEF Latest
<1>9. \/ Stream(r)' = Append(Stream(r), Latest(r)) /\ UNCHANGED drops
      \/ Stream(r)' = Stream(r) /\ drops' = [drops EXCEPT ![r] = @ + 1]
  <2>1. CASE ch' = [ch EXCEPT ![r] = Append(@, pev[p].ev)] /\ drops' = drops
    <3>1. ch'[r] = Append(ch[r], Latest(r)) /\ got'[r] = got[r]
      BY <1>1, <1>6, <2>1 DEF SubscriberTypes
    <3> QED BY <1>6, <2>1, <3>1, StreamAppend
  <2>2. CASE ch' = ch /\ drops' = [drops EXCEPT
                                    ![r] = IF subClosed[r] THEN @ ELSE @ + 1]
    BY <1>1, <1>6, <2>2 DEF Stream, SubscriberTypes
  <2> QED BY <1>2, <2>1, <2>2
<1> DEFINE status == [s \in Subscribers |-> Status(s)]
           rest == [s \in Subscribers |-> Rest(s)]
           cursor == [s \in Subscribers |-> Cursor(s)]
           stream == [s \in Subscribers |-> Stream(s)]
<1>10. status' = status /\ rest' = rest
  BY <1>4, <1>7 DEF OnlyAt, Same
<1>11. cursor' = [cursor EXCEPT ![r] = @ + 1]
  BY <1>4, <1>8 DEF OnlyAt, Same
<1>12. \/ stream' = [stream EXCEPT ![r] = Append(@, Latest(r))] /\ UNCHANGED drops
       \/ drops' = [drops EXCEPT ![r] = @ + 1] /\ stream' = stream
  BY <1>4, <1>9 DEF OnlyAt, Same
<1>13. Contract!Decide(r, Latest(r))
  BY <1>12 DEF Contract!Decide
<1>14. Contract!Decide(r, log[topic[r]][cursor[r] + 1])
  BY <1>8, <1>13
<1>15. Contract!DecideLive(r)
  BY <1>1, <1>7, <1>8, <1>10, <1>11, <1>14 DEF Contract!DecideLive
<1> QED BY <1>15 DEF Contract!Next

(* A run of a log that ends where the log ends is a SubSeq of it.          *)
LEMMA EndOfLog ==
  ASSUME NEW g \in Seq(Event), NEW e \in Seq(Event), Len(e) <= Len(g),
         \A k \in 1 .. Len(e) : e[k] = g[Len(g) - Len(e) + k]
  PROVE  /\ Len(g) - Len(e) \in 0 .. Len(g)
         /\ e = SubSeq(g, Len(g) - Len(e) + 1, Len(g))
<1> DEFINE n == Len(g)
           l == Len(e)
           m == n - l + 1
<1>1. n \in Nat /\ l \in Nat /\ l <= n
  BY LenProperties
<1>2. \A k \in 1 .. l : e[k] = g[m + k - 1]
  <2> SUFFICES ASSUME NEW k \in 1 .. l PROVE e[k] = g[m + k - 1]
    OBVIOUS
  <2>1. e[k] = g[n - l + k]
    OBVIOUS
  <2> HIDE DEF n, l
  <2>2. n - l + k = m + k - 1
    BY <1>1
  <2> QED BY <2>1, <2>2
<1>3. /\ m \in 1 .. n + 1
      /\ SubSeq(g, m, n) \in Seq(Event)
      /\ Len(SubSeq(g, m, n)) = l
      /\ \A k \in 1 .. l : SubSeq(g, m, n)[k] = g[m + k - 1]
  <2> HIDE DEF l
  <2>1. m \in 1 .. n + 1 /\ n - m + 1 = l /\ (m > n => l = 0)
    <3> HIDE DEF n
    <3> QED BY <1>1
  <2>2. /\ SubSeq(g, m, n) \in Seq(Event)
        /\ Len(SubSeq(g, m, n)) = IF m <= n THEN n - m + 1 ELSE 0
        /\ \A k \in 1 .. n - m + 1 : SubSeq(g, m, n)[k] = g[m + k - 1]
    <3> HIDE DEF m
    <3> QED BY <2>1, SubSeqProperties
  <2> HIDE DEF n, m
  <2>3. m \in Int /\ n \in Int
    BY <1>1, <2>1
  <2> QED BY <1>1, <2>1, <2>2, <2>3
<1>4. e = SubSeq(g, m, n)
  <2> HIDE DEF m, n
  <2> QED BY <1>2, <1>3, SeqEqual
<1>5. n - l \in 0 .. n
  <2> HIDE DEF n, l
  <2> QED BY <1>1
<1> QED BY <1>4, <1>5

(* A subscription joins: FanOut attaches it at the end of the log, with a  *)
(* run of the log that ends there to be replayed.                          *)
LEMMA JoinAttaches ==
  ASSUME BaseInv, LockInv, CountInv, RingsInv,
         NEW r \in Subscribers, NEW t \in Topics, NEW events,
         Join(r, t, events),
         \/ events = Snapshot(replays[t])
         \/ \E id \in Nat : events = Since(replays[t], id),
         TypeOK'
  PROVE  Contract!Next
<1> USE DEF BaseInv, TypeOK
<1>1. /\ spc[r] = "new" /\ mu = Free /\ mu' = Free /\ ~closed
      /\ subs' = [subs EXCEPT ![t] = @ \cup {r}]
      /\ topic' = [topic EXCEPT ![r] = t]
      /\ replay' = [replay EXCEPT ![r] = events]
      /\ spc' = [spc EXCEPT ![r] = "replay"]
      /\ UNCHANGED <<closed, ch, drops, ri, log, got>>
  BY DEF Join
<1>2. \A s \in Subscribers : ~Pending(s) /\ ~Pending(s)'
  BY <1>1 DEF Pending, HubAssumption
<1>3. OnlyAt(r)
  <2> SUFFICES ASSUME NEW s \in Subscribers \ {r} PROVE Same(s)
    BY DEF OnlyAt
  <2>1. Registered(s)' <=> Registered(s)
    BY <1>1 DEF Registered, HubTypes
  <2> QED BY <1>1, <1>2, <2>1, SameKept DEF SubscriberTypes
<1>4. /\ topic'[r] = t /\ replay'[r] = events /\ spc'[r] = "replay"
      /\ Registered(r)' /\ ri[r] = 0 /\ events \in Seq(Event)
      /\ log[t] \in Seq(Event) /\ Len(log[t]) \in Nat
  <2>1. events = replay'[r]
    BY <1>1 DEF SubscriberTypes
  <2> QED BY <1>1, <2>1, LenProperties
      DEF SubscriberTypes, HistoryTypes, HubTypes, Registered, CountInv
<1>5. Status(r) = "new" /\ Status(r)' = "attached" /\ Stream(r)' = Stream(r)
  BY <1>1, <1>4 DEF Status, Stream
<1>6. Cursor(r)' = Len(log[t])
  <2>1. Cursor(r)' = Len(log[t]) - 0
    BY <1>1, <1>2, <1>4 DEF Cursor
  <2> QED BY <1>4, <2>1
<1>7. Rest(r)' = events
  <2>1. Rest(r)' = SubSeq(events, 0 + 1, Len(events))
    BY <1>1, <1>4 DEF Rest
  <2>2. Rest(r)' = SubSeq(events, 1, Len(events))
    BY <2>1
  <2> QED BY <1>4, <2>2, SubSeqFull
<1>8. PICK k \in 0 .. Len(log[t]) : events = SubSeq(log[t], k + 1, Len(log[t]))
  <2>1. /\ Len(events) <= Len(log[t])
        /\ \A k \in 1 .. Len(events) :
             events[k] = log[t][Len(log[t]) - Len(events) + k]
    BY ReplayIsSuffix
  <2>2. /\ Len(log[t]) - Len(events) \in 0 .. Len(log[t])
        /\ events = SubSeq(log[t], Len(log[t]) - Len(events) + 1, Len(log[t]))
    BY <1>4, <2>1, EndOfLog
  <2> QED BY <2>2
<1> DEFINE status == [s \in Subscribers |-> Status(s)]
           rest == [s \in Subscribers |-> Rest(s)]
           cursor == [s \in Subscribers |-> Cursor(s)]
           stream == [s \in Subscribers |-> Stream(s)]
<1>9. status[r] = "new" /\ status' = [status EXCEPT ![r] = "attached"]
  BY <1>3, <1>5 DEF OnlyAt, Same
<1>10. cursor' = [cursor EXCEPT ![r] = Len(log[t])]
  BY <1>3, <1>6 DEF OnlyAt, Same
<1>11. stream' = stream
  BY <1>3, <1>5 DEF OnlyAt, Same
<1>12. rest' = [rest EXCEPT ![r] = SubSeq(log[t], k + 1, Len(log[t]))]
  BY <1>3, <1>7, <1>8 DEF OnlyAt, Same
<1>13. Contract!Attach(r, t)
  BY <1>1, <1>9, <1>10, <1>11, <1>12 DEF Contract!Attach
<1> QED BY <1>13 DEF Contract!Next

(* A subscription that comes to a closed hub is detached from the start.   *)
LEMMA SubscribeClosedAttaches ==
  ASSUME BaseInv, LockInv, NEW r \in Subscribers, NEW t \in Topics,
         SubscribeClosed(r, t)
  PROVE  Contract!Next
<1> USE DEF BaseInv, TypeOK
<1>1. /\ spc[r] = "new" /\ mu = Free /\ closed
      /\ topic' = [topic EXCEPT ![r] = t]
      /\ spc' = [spc EXCEPT ![r] = "done"]
      /\ UNCHANGED <<mu, closed, subs, todo, ch, drops, ri, replay, log, got>>
  BY DEF SubscribeClosed, hubVars, pubVars, history
<1>2. \A s \in Subscribers : ~Registered(s) /\ ~Registered(s)'
  BY <1>1 DEF OwnershipInv, RegisteredOpen, Registered
<1>3. OnlyAt(r)
  <2> SUFFICES ASSUME NEW s \in Subscribers \ {r} PROVE Same(s)
    BY DEF OnlyAt
  <2>1. Pending(s)' <=> Pending(s)
    BY <1>1 DEF Pending
  <2> QED BY <1>1, <1>2, <2>1, SameKept DEF SubscriberTypes
<1>4. /\ Status(r) = "new" /\ Status(r)' = "detached"
      /\ Cursor(r) = 0 /\ Cursor(r)' = 0
      /\ Stream(r)' = Stream(r) /\ Rest(r)' = Rest(r)
  BY <1>1, <1>2 DEF Status, Cursor, Stream, Rest, SubscriberTypes
<1> DEFINE status == [s \in Subscribers |-> Status(s)]
           rest == [s \in Subscribers |-> Rest(s)]
           cursor == [s \in Subscribers |-> Cursor(s)]
           stream == [s \in Subscribers |-> Stream(s)]
<1>5. status[r] = "new" /\ status' = [status EXCEPT ![r] = "detached"]
  BY <1>3, <1>4 DEF OnlyAt, Same
<1>6. cursor' = cursor /\ stream' = stream /\ rest' = rest
  BY <1>3, <1>4 DEF OnlyAt, Same
<1>7. Contract!AttachClosed(r, t)
  BY <1>1, <1>5, <1>6 DEF Contract!AttachClosed
<1> QED BY <1>7 DEF Contract!Next

(* One turn of the replay loop: FanOut decides the next event to be        *)
(* replayed, unless the turn panics, which FanOut does not see.            *)
LEMMA ReplayOneDecides ==
  ASSUME BaseInv, LockInv, NEW r \in Subscribers, ReplayOne(r)
  PROVE  Contract!Next \/ UNCHANGED Contract!vars
<1> USE DEF BaseInv, TypeOK
<1>1. /\ spc[r] = "replay" /\ ri[r] < Len(replay[r])
      /\ UNCHANGED <<mu, subs, todo, closed, topic, replay, start, log, got>>
  BY DEF ReplayOne, hubVars, pubVars, history
<1>2. \A s \in Subscribers : /\ Registered(s)' <=> Registered(s)
                             /\ Pending(s)' <=> Pending(s)
  BY <1>1 DEF Registered, Pending
<1>3. CASE spc' = [spc EXCEPT ![r] = "panicked"] /\ UNCHANGED <<ch, drops, ri>>
  <2>1. \A s \in Subscribers : spc'[s] = "new" <=> spc[s] = "new"
    BY <1>1, <1>3 DEF SubscriberTypes
  <2>2. \A s \in Subscribers : Same(s)
    BY <1>1, <1>2, <1>3, <2>1, SameKept
  <2> QED BY <1>1, <1>3, <2>2, Stutter
<1>4. CASE /\ ri' = [ri EXCEPT ![r] = @ + 1]
           /\ \/ /\ ch' = [ch EXCEPT ![r] = Append(@, replay[r][ri[r] + 1])]
                 /\ UNCHANGED <<spc, drops>>
              \/ /\ drops' = [drops EXCEPT ![r] = @ + 1]
                 /\ spc' = [spc EXCEPT ![r] = "count"]
                 /\ UNCHANGED ch
  <2>1. OnlyAt(r)
    <3> SUFFICES ASSUME NEW s \in Subscribers \ {r} PROVE Same(s)
      BY DEF OnlyAt
    <3>1. ch'[s] = ch[s] /\ ri'[s] = ri[s] /\ spc'[s] = spc[s]
      BY <1>4 DEF SubscriberTypes
    <3> QED BY <1>1, <1>2, <3>1, SameKept
  <2> DEFINE next == replay[r][ri[r] + 1]
  <2>2. /\ replay[r] \in Seq(Event) /\ Len(replay[r]) \in Nat
        /\ ri[r] \in Nat /\ next \in Event
    <3>1. replay[r] \in Seq(Event) /\ ri[r] + 1 \in 1 .. Len(replay[r])
      BY <1>1, LenProperties DEF SubscriberTypes
    <3> QED BY <3>1, ElementOfSeq, LenProperties DEF SubscriberTypes
  <2>3. /\ Status(r)' = Status(r) /\ Cursor(r)' = Cursor(r)
    <3>1. spc'[r] # "new"
      BY <1>1, <1>4 DEF SubscriberTypes
    <3> QED BY <1>1, <1>2, <3>1 DEF Status, Cursor
  <2>4. /\ Rest(r) # << >> /\ Head(Rest(r)) = next
        /\ Rest(r)' = Tail(Rest(r))
    <3> DEFINE g == replay[r]
               m == ri[r] + 1
               n == Len(g)
    <3>1. /\ g \in Seq(Event) /\ m \in 1 .. n /\ n = Len(g) /\ n \in Nat
          /\ Rest(r) = SubSeq(g, m, n) /\ next = g[m]
      BY <1>1, <2>2 DEF Rest
    <3>2. Rest(r)' = SubSeq(g, m + 1, n)
      BY <1>1, <1>4 DEF Rest, SubscriberTypes
    <3> HIDE DEF g, m, n, next
    <3>3. n \in m .. Len(g)
      BY <3>1
    <3>4. Head(SubSeq(g, m, n)) = g[m] /\ Tail(SubSeq(g, m, n)) = SubSeq(g, m + 1, n)
      BY <3>1, <3>3, HeadTailOfSubSeq
    <3>5. Len(SubSeq(g, m, n)) = IF m <= n THEN n - m + 1 ELSE 0
      BY <3>1, SubSeqProperties
    <3>6. SubSeq(g, m, n) # << >>
      <4>1. Len(SubSeq(g, m, n)) # 0
        BY <3>1, <3>5
      <4>2. Len(<< >>) = 0
        OBVIOUS
      <4> QED BY <4>1, <4>2, Zenon
    <3> QED BY <3>1, <3>2, <3>4, <3>6
  <2>5. \/ Stream(r)' = Append(Stream(r), next) /\ UNCHANGED drops
        \/ Stream(r)' = Stream(r) /\ drops' = [drops EXCEPT ![r] = @ + 1]
    <3>1. CASE /\ ch' = [ch EXCEPT ![r] = Append(@, replay[r][ri[r] + 1])]
               /\ UNCHANGED <<spc, drops>>
      <4>1. ch'[r] = Append(ch[r], next) /\ got'[r] = got[r]
        BY <1>1, <3>1 DEF SubscriberTypes
      <4>2. Stream(r)' = Append(Stream(r), next)
        BY <2>2, <4>1, StreamAppend
      <4> QED BY <3>1, <4>2
    <3>2. CASE drops' = [drops EXCEPT ![r] = @ + 1] /\ UNCHANGED ch
      BY <1>1, <3>2 DEF Stream
    <3> QED BY <1>4, <3>1, <3>2
  <2> HIDE DEF next
  <2> DEFINE status == [s \in Subscribers |-> Status(s)]
             rest == [s \in Subscribers |-> Rest(s)]
             cursor == [s \in Subscribers |-> Cursor(s)]
             stream == [s \in Subscribers |-> Stream(s)]
  <2>6. status' = status /\ cursor' = cursor
    BY <2>1, <2>3 DEF OnlyAt, Same
  <2>7. rest[r] # << >> /\ rest' = [rest EXCEPT ![r] = Tail(@)]
    BY <2>1, <2>4 DEF OnlyAt, Same
  <2>8. \/ stream' = [stream EXCEPT ![r] = Append(@, next)] /\ UNCHANGED drops
        \/ drops' = [drops EXCEPT ![r] = @ + 1] /\ stream' = stream
    BY <2>1, <2>5 DEF OnlyAt, Same
  <2>9. Contract!Decide(r, next)
    BY <2>8 DEF Contract!Decide
  <2>10. Contract!Decide(r, Head(rest[r]))
    BY <2>4, <2>9
  <2>11. Contract!DecideReplay(r)
    BY <1>1, <2>6, <2>7, <2>10 DEF Contract!DecideReplay
  <2> QED BY <2>11 DEF Contract!Next
<1> QED BY <1>3, <1>4 DEF ReplayOne

(* unsubscribe takes the subscription out of its topic, if Close has not.  *)
LEMMA UnsubscribeDetaches ==
  ASSUME BaseInv, LockInv, NEW r \in Subscribers, Unsubscribe(r)
  PROVE  Contract!Next \/ UNCHANGED Contract!vars
<1> USE DEF BaseInv, TypeOK
<1>1. /\ spc[r] = "ready" /\ mu = Free /\ mu' = Free
      /\ subs' = [subs EXCEPT ![topic[r]] = @ \ {r}]
      /\ spc' = [spc EXCEPT ![r] = "cancel"]
      /\ UNCHANGED <<closed, topic, ch, drops, replay, ri, log, got>>
  BY DEF Unsubscribe, history
<1>2. \A s \in Subscribers : ~Pending(s) /\ ~Pending(s)'
  BY <1>1 DEF Pending, HubAssumption
<1>3. OnlyAt(r)
  <2> SUFFICES ASSUME NEW s \in Subscribers \ {r} PROVE Same(s)
    BY DEF OnlyAt
  <2>1. Registered(s)' <=> Registered(s)
    BY <1>1 DEF Registered, HubTypes
  <2> QED BY <1>1, <1>2, <2>1, SameKept DEF SubscriberTypes
<1>4. ~Registered(r)' /\ spc'[r] = "cancel"
  BY <1>1, RegisteredFacts DEF Registered, HubTypes, SubscriberTypes
<1>5. CASE ~Registered(r)
  <2>1. Same(r)
    BY <1>1, <1>2, <1>4, <1>5, SameKept DEF SubscriberTypes
  <2>2. \A s \in Subscribers : Same(s)
    BY <1>3, <2>1 DEF OnlyAt
  <2> QED BY <1>1, <2>2, Stutter
<1>6. CASE Registered(r)
  <2>1. /\ Status(r) = "attached" /\ Status(r)' = "detached" /\ Cursor(r)' = 0
        /\ Stream(r)' = Stream(r) /\ Rest(r)' = Rest(r)
    BY <1>1, <1>4, <1>6 DEF Status, Cursor, Stream, Rest
  <2> DEFINE status == [s \in Subscribers |-> Status(s)]
             rest == [s \in Subscribers |-> Rest(s)]
             cursor == [s \in Subscribers |-> Cursor(s)]
             stream == [s \in Subscribers |-> Stream(s)]
  <2>2. status[r] = "attached" /\ status' = [status EXCEPT ![r] = "detached"]
    BY <1>3, <2>1 DEF OnlyAt, Same
  <2>3. cursor' = [cursor EXCEPT ![r] = 0]
    BY <1>3, <2>1 DEF OnlyAt, Same
  <2>4. stream' = stream /\ rest' = rest
    BY <1>3, <2>1 DEF OnlyAt, Same
  <2>5. Contract!Detach(r)
    BY <1>1, <2>2, <2>3, <2>4 DEF Contract!Detach
  <2> QED BY <2>5 DEF Contract!Next
<1> QED BY <1>5, <1>6

(* Close takes every subscription out of the hub at once.                  *)
LEMMA CloseLockShutsDown ==
  ASSUME BaseInv, LockInv, NEW c \in Closers, CloseLock(c)
  PROVE  Contract!Next
<1> USE DEF BaseInv, TypeOK
<1>1. /\ mu = Free /\ mu' = Free /\ ~closed /\ closed' = TRUE
      /\ subs' = [t \in Topics |-> {}]
      /\ UNCHANGED <<spc, topic, ch, drops, replay, ri, log, got>>
  BY DEF CloseLock, subVars, history
<1>2. \A s \in Subscribers : ~Registered(s)'
  BY <1>1 DEF Registered
<1> DEFINE status == [s \in Subscribers |-> Status(s)]
           rest == [s \in Subscribers |-> Rest(s)]
           cursor == [s \in Subscribers |-> Cursor(s)]
           stream == [s \in Subscribers |-> Stream(s)]
           attached == {s \in Subscribers : status[s] = "attached"}
<1>3. \A s \in Subscribers :
        /\ Status(s)' = IF Status(s) = "attached" THEN "detached" ELSE Status(s)
        /\ Cursor(s)' = IF Status(s) = "attached" THEN 0 ELSE Cursor(s)
        /\ Stream(s)' = Stream(s) /\ Rest(s)' = Rest(s)
  <2> SUFFICES ASSUME NEW s \in Subscribers
               PROVE  /\ Status(s)' = IF Status(s) = "attached" THEN "detached"
                                                                ELSE Status(s)
                      /\ Cursor(s)' = IF Status(s) = "attached" THEN 0
                                                                ELSE Cursor(s)
                      /\ Stream(s)' = Stream(s) /\ Rest(s)' = Rest(s)
    OBVIOUS
  <2>1. Status(s) = "attached" <=> Registered(s)
    BY AttachedFacts
  <2>2. Cursor(s)' = 0 /\ (~Registered(s) => Cursor(s) = 0)
    BY <1>2 DEF Cursor
  <2>3. Status(s)' = IF spc[s] = "new" THEN "new" ELSE "detached"
    BY <1>1, <1>2 DEF Status
  <2>4. Registered(s) => spc[s] # "new"
    BY RegisteredFacts
  <2>5. Stream(s)' = Stream(s) /\ Rest(s)' = Rest(s)
    BY <1>1 DEF Stream, Rest
  <2>6. ~Registered(s) => Status(s) = IF spc[s] = "new" THEN "new" ELSE "detached"
    BY DEF Status
  <2> QED BY <2>1, <2>2, <2>3, <2>4, <2>5, <2>6
<1>4. /\ status' = [s \in Subscribers |->
                      IF s \in attached THEN "detached" ELSE status[s]]
      /\ cursor' = [s \in Subscribers |->
                      IF s \in attached THEN 0 ELSE cursor[s]]
      /\ stream' = stream /\ rest' = rest
  BY <1>3
<1>5. Contract!Shutdown
  BY <1>1, <1>4 DEF Contract!Shutdown
<1> QED BY <1>5 DEF Contract!Next

(* Every other step is one FanOut does not see.                            *)
LEMMA OthersStutter ==
  ASSUME BaseInv, LockInv,
         \/ \E n \in ReplaySizes : EnableReplay(n)
         \/ \E p \in Publishers :
              \/ \E t \in Topics, id \in CustomIDs \cup {NoID} :
                   PublishBegin(p, t, id)
              \/ PublishClosed(p) \/ PublishCount(p)
         \/ \E r \in Subscribers :
              \/ ReplayCount(r) \/ SubscribeReturn(r) \/ UnsubscribeClose(r)
         \/ \E c \in Closers :
              \/ CloseAgain(c) \/ CloseReturn(c)
              \/ \E r \in Subscribers : CloseOne(c, r)
         \/ UNCHANGED vars
  PROVE  UNCHANGED Contract!vars
<1> USE DEF BaseInv, TypeOK, hubVars, pubVars, subVars, endVars, history
<1>1. UNCHANGED <<topic, ch, got, drops, ri, replay, log, subs, mu, todo, closed>>
  BY DEF EnableReplay, PublishBegin, PublishClosed, PublishCount, ReplayCount,
         SubscribeReturn, UnsubscribeClose, CloseAgain, CloseReturn, CloseOne,
         vars
<1>2. ASSUME NEW s \in Subscribers PROVE Same(s)
  <2>1. spc'[s] = "new" <=> spc[s] = "new"
    BY DEF EnableReplay, PublishBegin, PublishClosed, PublishCount, ReplayCount,
           SubscribeReturn, UnsubscribeClose, CloseAgain, CloseReturn, CloseOne,
           vars, SubscriberTypes
  <2> QED BY <1>1, <2>1, SameKept DEF Registered, Pending
<1> QED BY <1>1, <1>2, Stutter

LEMMA PublishReturnStutters ==
  ASSUME BaseInv, LockInv, NEW p \in Publishers, PublishReturn(p)
  PROVE  UNCHANGED Contract!vars
<1>1. /\ todo[p] = {} /\ mu = p /\ mu' = Free
      /\ UNCHANGED <<todo, log, subs, closed, subVars, got>>
  BY DEF PublishReturn, LockInv, history
<1>2. ASSUME NEW s \in Subscribers PROVE Same(s)
  <2>1. ~Pending(s) /\ ~Pending(s)'
    BY <1>1 DEF Pending, BaseInv, HubAssumption
  <2> QED BY <1>1, <2>1, SameKept DEF Registered, subVars
<1> QED BY <1>1, <1>2, Stutter DEF subVars

(* The consumer receives: its stream stays what it was.                    *)
LEMMA ReceiveStutters ==
  ASSUME BaseInv, LockInv, NEW r \in Subscribers, Receive(r)
  PROVE  UNCHANGED Contract!vars
<1> USE DEF BaseInv, TypeOK
<1>1. /\ ch[r] # << >>
      /\ got' = [got EXCEPT ![r] = Append(@, Head(ch[r]))]
      /\ ch' = [ch EXCEPT ![r] = Tail(@)]
      /\ UNCHANGED <<mu, subs, todo, closed, spc, topic, drops, replay, ri, log>>
  BY DEF Receive, hubVars, pubVars
<1>2. ASSUME NEW s \in Subscribers PROVE Same(s)
  <2>1. CASE s # r
    BY <1>1, <2>1, SameKept DEF Registered, Pending, SubscriberTypes, HistoryTypes
  <2>2. CASE s = r
    <3>1. /\ got[s] \in Seq(Event) /\ ch[s] \in Seq(Event) /\ ch[s] # << >>
          /\ got'[s] = Append(got[s], Head(ch[s])) /\ ch'[s] = Tail(ch[s])
      BY <1>1, <2>2 DEF SubscriberTypes, HistoryTypes
    <3>2. \A g, c \in Seq(Event) :
            c # << >> => Append(g, Head(c)) \o Tail(c) = g \o c
      BY StreamLaws
    <3>3. Stream(s)' = Stream(s)
      BY <3>1, <3>2 DEF Stream
    <3> QED BY <1>1, <3>3 DEF Same, Status, Rest, Cursor, Registered, Pending
  <2> QED BY <2>1, <2>2
<1> QED BY <1>1, <1>2, Stutter

(* Every step of the hub is a step of FanOut, or one it does not see.      *)
LEMMA FanOutStep ==
  ASSUME BaseInv, LockInv, CountInv, RingsInv, IdInv, [Next]_vars
  PROVE  Contract!Next \/ UNCHANGED Contract!vars
<1>1. TypeOK'
  BY TypeStep DEF BaseInv
<1>2. ASSUME NEW p \in Publishers, PublisherStep(p)
      PROVE  Contract!Next \/ UNCHANGED Contract!vars
  BY <1>2, PublishLockAccepts, SendDecides, PublishReturnStutters, OthersStutter
  DEF PublisherStep
<1>3. ASSUME NEW r \in Subscribers, NEW t \in Topics,
             Subscribe(r, t) \/ \E id \in KnownIDs(t) : SubscribeSince(r, t, id)
      PROVE  Contract!Next
  <2>1. KnownIDs(t) \subseteq Nat
    <3> SUFFICES ASSUME NEW q \in Subscribers, got[q] # << >>
                 PROVE  got[q][Len(got[q])].id \in Nat
      BY DEF KnownIDs
    <3>1. got[q] \in Seq(Event) /\ Len(got[q]) \in 1 .. Len(got[q])
      BY EmptySeq DEF BaseInv, TypeOK, HistoryTypes
    <3>2. got[q][Len(got[q])] \in Event
      BY <3>1, ElementOfSeq
    <3> QED BY <3>2 DEF Event
  <2>2. PICK events :
          /\ Join(r, t, events)
          /\ \/ events = Snapshot(replays[t])
             \/ \E id \in Nat : events = Since(replays[t], id)
    BY <1>3, <2>1 DEF Subscribe, SubscribeSince
  <2> QED BY <1>1, <2>2, JoinAttaches
<1>4. ASSUME NEW r \in Subscribers, SubscriberStep(r)
      PROVE  Contract!Next \/ UNCHANGED Contract!vars
  BY <1>3, <1>4, SubscribeClosedAttaches, ReplayOneDecides, ReceiveStutters,
     UnsubscribeDetaches, OthersStutter
  DEF SubscriberStep
<1>5. ASSUME NEW c \in Closers, CloserStep(c)
      PROVE  Contract!Next \/ UNCHANGED Contract!vars
  BY <1>5, CloseLockShutsDown, OthersStutter DEF CloserStep
<1>6. ASSUME (\E n \in ReplaySizes : EnableReplay(n)) \/ UNCHANGED vars
      PROVE  UNCHANGED Contract!vars
  BY <1>6, OthersStutter
<1> QED BY <1>2, <1>4, <1>5, <1>6 DEF Next, Terminating

(* The hub, with its locks, rings and channels, does for every subscriber  *)
(* what FanOut promises: each event of its replay and each event accepted  *)
(* while it is attached is decided once and in order, none is skipped.     *)
THEOREM HubImplementsFanOut == NeverSwitchedOff => (Spec => ImplementsFanOut)
<1> SUFFICES ASSUME NeverSwitchedOff PROVE Spec => ImplementsFanOut
  OBVIOUS
<1>1. HubAssumption
  BY HubAssumption
<1>2. Init => Contract!Init /\ IdInv
  BY <1>1, FanOutInit, IdInit
<1>3. BaseInv /\ IdInv /\ [Next]_vars => IdInv'
  BY IdStep
<1>4. BaseInv /\ LockInv /\ CountInv /\ RingsInv /\ IdInv /\ [Next]_vars
        => [Contract!Next]_(Contract!vars)
  BY FanOutStep
<1>5. Spec => [](BaseInv /\ LockInv /\ CountInv)
  BY HubInvariants
<1>6. Spec => [](RingsInv /\ SeamInv /\ OrderInv)
  BY OrderInvariants
<1> QED BY <1>2, <1>3, <1>4, <1>5, <1>6, PTL DEF Spec, ImplementsFanOut, Contract!Spec
=============================================================================
