# A verification of sugaar

sugaar is a Go library for servers that stream events: a topic hub with replay,
Server-Sent Events and WebSocket handlers on top of it, a middleware pipeline
around pooled request contexts, and a `Run` that ties HTTP and gRPC servers to
one context. This directory holds TLA+ models of those parts, TLC
configurations that check them on small instances, and proofs of their main
safety properties for every size. Paths and lines below are those of the
repository.

## The system

| Component | State it keeps | Operations | Works with | Hard behaviours | Correct when |
|---|---|---|---|---|---|
| Replay buffer, `hub_replay.go` | a ring, `head`, `full` | push, snapshot, since | owned by the hub, used under `h.mu` | wrapping, evicted or reused IDs | a snapshot is the window of the latest events; a resume has no gap and no repeat |
| Hub, `hub.go` | `subs`, `replays`, `closed`, `idSeq`, `dropCount`; per subscription a channel, `closed`, `Drops` | Publish, Subscribe, SubscribeSince, cancel, Close, EnableReplay | called by handlers, queue and application; locks `h.mu`, then `sub.mu` | replay outside the lock, Close against everything, full channels, IDs taken outside the lock | no panic; nothing lost uncounted; streams in order; every call returns |
| SSE handler, `sse.go` | its subscription, a ticker, the event in hand | subscribe, select loop, write, OnDrop | the hub; a client that reconnects with `Last-Event-ID` | broken connections, silent clients, stale handlers, a restart, events without JSON | a resumed client misses only what it was dropped; every gap is reported; no handler or subscription leaks |
| WebSocket handler, `websocket.go` | handler, reader goroutine, ping ticker, deadlines | upgrade, stream, ping, pong, close | the hub, a client | three timers racing, two goroutines that end each other | a live client stays; a dead one is released |
| Lifecycle, `sugaar.go`, `grpc.go` | listeners, result channels, shutdown deadline | Run, listeners failing, shutdown, GracefulStop | net/http, grpc, the caller's context | one server failing while others serve, deadlines | Run returns; nil means drained; nothing stays behind |
| Request pipeline, `sugaar.go`, `context.go`, `context_extra.go`, `middleware.go`, `errors.go` | the Context pool, `reqCtxMap`, three nested writers | ServeHTTP, each middleware, Handle, binding, writing, ErrorHandler | net/http's mux between two halves of the chain | pooled objects shared by requests, a replaced `*http.Request`, panics, late deadlines | contexts are exclusive; one answer, the same as if the request were alone |
| Registration, `sugaar.go`, `group.go`, `profile.go` | `App.mws` and `chained`, each Group's `mws`, the mux | Use, Group, Group.Use, Handle, mountPprof | the pipeline runs the chains it makes | which middleware is fixed when | a route is behind every guard declared for it |
| Authenticators, `auth.go`, `auth_builtin.go`, `jwtauth/jwt.go` | none | Basic, Bearer, API key, JWT, AnyOf, AllOf, roles | the Auth and Authorize middleware | empty lists, order of alternatives, nil identities, leeway | only who satisfies a guard passes it |
| Queue, `queue.go` | a FIFO per topic | Enqueue, Dequeue, Drain, Broadcast, BroadcastAll | publishes to the hub after releasing its own lock | two broadcasts of a topic overtake each other, a hub that closes meanwhile | each event goes to one place, once; first in, first out |
| Static files, codecs, test helpers, examples | none shared | | | | see the last section |

The goroutines of one process call each other's functions; they share the
hub, the pool and `reqCtxMap`, and talk through channels (a subscription's,
and those that carry the outcome of a server to `Run`). Nothing is persisted.

## The modules

`ReplayBuffer` holds the ring's methods as pure operators, and is used by
`ReplayRing`, `Hub` and `Sse`. `FanOut` is the abstract hub, which `Hub`
implements and from which `Sse` and `Queue` take their view of the hub.
`Pipeline` composes `Routes`, which makes the chains, and `Access`, which decides
what a guard makes of a request. Each `MC...` module fixes the constants of one
component for TLC.

| Module | What it is |
|---|---|
| `ReplayBuffer` | `Push`, `Snapshot`, `Since` on a record of the fields of `replayBuffer` |
| `ReplayRing` | one ring, the history of pushes beside it, and what the ring must be in terms of that history |
| `Hub` | publishers, subscribers and closers at the grain of the locks |
| `FanOut` | per topic one log; each subscription decides each of its events once, in order: given or counted as lost |
| `Sse` | an EventSource client that connects again, the handlers of its old and new connections, the network between |
| `WebSocket` | one stream: handler, reader, client and time |
| `Lifecycle` | `Run`, the HTTP goroutine, listeners, the gRPC server and its stop function |
| `Queue` | producers, consumers and broadcasting goroutines at the grain of `q.mu` and of each Publish |
| `Access` | authenticators and authorizers as functions of what a request presents |
| `Routes` | the calls of registration and the chains each makes, and beside it what they declare |
| `Pipeline` | requests going down and up the middleware chain |
| `ReplayBufferProofs`, `ReplayRingProofs`, `HubProofs`, `SseProofs`, `LifecycleProofs`, `QueueProofs`, `WebSocketProofs`, `PipelineProofs` | the proofs |

### How actions correspond to the code

*Hub.* A critical section that only assigns is one action, enabled while
`mu = Free`. `Publish` is five: `PublishBegin` up to `h.mu.Lock` (the ID is
taken there, without the lock), `PublishLock` (ring and set of receivers),
`Send` once per receiver in any order (the map iteration), `PublishCount` (the
hub's counter, bumped apart from the subscription's), `PublishReturn`.
`mu` names the publisher that holds the lock across its loop. `sub.mu` is
never held across a wait, so its sections are part of an action.
`Subscribe` is `Join`, then one `ReplayOne` for each buffered event, with no
lock held. `cancel` is `Unsubscribe` (under `h.mu`) and `UnsubscribeClose`
(under `sub.mu`); `Close` is `CloseLock` and one `CloseOne` per subscription.
Go's channel panics are modelled: a send on a closed channel, or a second
close, puts the goroutine into `panicked`. An event is its position in the
log, which the code does not have, and its ID; its type, time and data are
not told apart. `log`, `start` and `got` are history.

*Sse.* The handler's program counter `hpc` follows `SSETopicWith`: open, the
replay loop of Subscribe, the select, a ping or an event to be written. When the hub
closes, the replay may still send until Close reaches this channel, and
panics after that (`ReplayOne`). A write waits while the kernel's buffer is full and fails when the client is
gone or, with a write deadline set, when it waits for too long. The client
has its own part: it reads frames, keeps the last ID, and may abandon a
connection whose handler then goes on until it notices. Publishing is one
step here, as `Hub` shows it may be seen (`FanOut`). `Restart` is the process
crashing and coming up again: every handler is over, the new hub (`NewHub`) has
an empty ring and numbers events from 1, and the client still holds the ID it
was given by the old one. The numbers in `Poison` are events that
`json.Marshal` refuses, after their id line is out. `sent`, `warned`,
`excused`, `overtaken` and `stale` are history.

*Queue.* A method is one action under `q.mu`; `Broadcast` and `BroadcastAll` are
`Take` (the map or the topic leaves the queue for the caller's hand), one
`Publish` per event, and `Return`. Topics of a batch come in any order (the map
iteration), the events of one topic in theirs. An event is its number in the
order of enqueueing, so order can be read off it.

*WebSocket.* Time passes in ticks of ten seconds, and only when no goroutine
can act, because a tick is long for a goroutine: `Tick` is guarded by
`~Busy`. The ticker, the read deadline (renewed by each pong) and
the write deadline count down. The upgrade succeeds, or the upgrader has
refused the request and the handler returns. `Start` is Subscribe, whose replay
leaves any number of events in the channel. `TakeEvent` may take an event that
`json` cannot marshal: `WriteJSON` fails on it (`CannotEncode`) after sending the
empty frame it had begun. `SendTooMuch` is a message beyond `SetReadLimit`, on
which NextReader fails. `poisoned` and `refused` remember those two.

*Lifecycle.* `run` is the goroutine of `Run`, `http` the one it starts.
The channels have room for all their sends, so each is the set of outcomes
sent and not yet received. `runPlain` and `runStaticTLS` have the same
control and are mode "plain"; "autocert" has two listeners with one shutdown
deadline. net/http and grpc are external: a server listens, fails, or is shut
down, Shutdown waits for requests in flight but not beyond its deadline,
GracefulStop waits for RPCs, and Stop cuts them. `Hijack` is a handler that
upgrades to a WebSocket: net/http lets go of the connection and Shutdown does not
wait for it (`streams`). `AppStop` and `AppGracefulStop` are the application
stopping the server it finds in `GRPC.Server`, on which Serve ends as nil.
`Run(nil)` (`nilCtx`) makes a signal context: a signal is that context being
cancelled, and the deferred stop cancels it when Run returns
(`ReturnFromRun`). A caller that passes a context gets no signal handling
(`sugaar.go:339`), against what `sugaar.go:335` says.

*Pipeline.* A request is at a layer of the chain, on its way down or up with
a result. Each middleware is an action for what it does before calling next
and, where it does something afterwards, one for that. The Context of the
app's layers is found again by `Handle` through `reqCtxMap`; the model has
both, and the pool. A response is a status, the pieces of its body, and the
three writers it may go through. `adapt` (`profile.go`) is `Handle` once more.
An app is set up by a script, the sequence of its calls of Use, Group, Group.Use
and Handle: `Setup` makes one call, which changes the slices of middleware as
the code does, and requests are served once all are `made`. A request presents credentials by carrier (header, query,
cookie); an authenticator is a record of its configuration, `Single` says
what it makes of them, and `AnyOf` and `AllOf` combine outcomes. Of a JWT the
claims are modelled, times relative to now.

## What is checked

All runs together take a few minutes. Deadlock is checked everywhere: each
module has an action for the state in which all calls have returned and
the bounds allow no other.

| Run | Instance | Distinct states | Properties |
|---|---|---|---|
| `replay_ring` | ring of 3, 7 pushes, each with no ID or one of two reusable ones | 3,280 | the window, slots, resume without gap and without repeat |
| `hub_core` | 2 publishers, 2 subscriptions, 1 closer, channels of 1, ring of 2 enabled at any time, 3 publishes | 1,407,300 | panics, accounting, order, seam of replay and live, `ImplementsFanOut` |
| `hub_live` | 2 publishers, 1 subscription, 2 closers, 3 publishes | 72,140 | every call returns, Close ends subscriptions |
| `hub_replay_order` | 1 publisher, 1 subscription, ring of 2 | | violation, below |
| `hub_no_panic` | 1 publisher, 1 subscription, 1 closer | | violation, below |
| `sse` | 2 connections, 3 events per process, 1 crash, ring of 2, channel and socket of 1, the second event has no JSON | 233,921 | resume, reported gaps, leaks, handlers that end |
| `queue` | 2 callers, 2 topics of 3 events, the hub may close | 207,482 | each event in one place, order, calls return |
| `websocket` | ping every 3 ticks, read deadline 6, write deadline 1, client's patience 2, any event without JSON | 72,839 | a live client stays, a lost one is released |
| `lifecycle` | plain and autocert, with and without gRPC and a context, 2 requests, hijacked connections and RPCs at a time | 101,414 | nil means drained, Run returns, nothing stays behind |
| `lifecycle_shared` | plain, with gRPC | | violation, below |
| `pipeline` | 2 requests through 11 configurations, up to 14 kinds of request each | 376,131 | exclusive contexts, no cross-talk, guards, one answer, the right answer, access log |
| `pipeline_identity` | App.Use(Auth), App.Use(Timeout) | | violation, below |

Why these bounds are enough to be of interest: seven pushes take a ring of three
through filling, wrapping, and wrapping again. With channels of one slot and
three events, drops, a full channel during replay, and a subscription that
starts anywhere between the first event and the last all occur, and the second
publisher makes IDs enter the ring out of order. Topics share only `h.mu` and
`closed`, so one topic is enough for TLC, and the proofs have any number. A
second connection is enough for a stale handler to run beside the fresh one;
the channel of one event makes drops common, and the event without JSON comes
after one that gives the client an ID to resume from. One crash is enough
for an ID that means another event. In `queue`, three events and two callers are
what it takes for a batch to be overtaken by a later one while a third is
enqueued. The WebSocket timers keep the
proportions of the code (30, 60 and 10 seconds). Four configurations put Auth,
Timeout, GZip, CORS, RequestID, BasicAuth and Authorize inside and outside each
other, application wide and per route, under requests that end in
every way a handler can; one nests groups two deep, with middleware added
before and after what it should guard, and pprof behind two factors; four have the
authenticators with credentials just right and just wrong (a token
at the second its leeway ends, a key in the header that hides one in the query,
roles that are not strings, `AllOf()`); two bind bodies with and without a
limit. Two requests share one configuration and are otherwise independent.
Symmetry is used for safety only, over sets whose members the models treat
alike.

### What the properties say

*Ring.* `SnapshotIsWindow`: at every fill level the snapshot is the latest
`Size` events, oldest first. `ResumeHasNoGap` and `ResumeHasNoRepeat` say the
same of `Since`. With an ID that a publisher used twice, a resume is exact
only for the later of the two, which is why both carry a hypothesis.

*Hub.* `PublishCancelCloseNeverPanic`: what Publish can find is open, so Publish,
cancel and Close cannot make each other panic. `DeliveredOrCounted`: given plus
dropped equals decided, exactly, in every state. `StreamsInOrder` and
`ReplayMeetsLive`: the replayed events are an unbroken run up to the moment of
joining, none comes twice, and live events come in the order of acceptance.
`ClosedIsFinal` is an action property. `ImplementsFanOut` is refinement: every
step maps to a decision about one event of one subscription, or to nothing.
`CallsReturn`: Publish, Subscribe and cancel return, whoever holds the locks.

*Sse.* `ResumeWithoutGap` relates what the client reads now to what it read
over earlier connections: anything it lacks was dropped for its present
subscription or had left the ring when that began. Runs in which a live event
overtook a replay are excepted; that they exist is the first finding. After a
crash it lacks, besides, what its old ID hides: a new event with that number is
taken for one it has seen, and the replay starts after it. `GapIsReported`: no
event is written after a gap without OnDrop being called for it, also when
Drops is counted up between the event being taken and being written.
`HandlersEnd` and `NoLeakedSubscription` are about handlers that must end.

*Queue.* `EveryEventOnce`: in the queue, in the hand of one caller, in the hub,
with a consumer, or refused by a closed hub. `FirstInFirstOut` has the exception
that the code needs: a topic whose events were in the hands of two callers at a
time. `CallsReturn` holds although enqueueing never stops.

*WebSocket.* `AliveStaysConnected`: no combination of ticker, deadlines and a
client that reads and answers within twenty seconds cuts a stream. What does,
besides the end of the hub or the context, is an event that cannot be marshalled
and a message of the client beyond the read limit. A client that leaves frames
unread, so that pings wait behind them, is not alive in this sense.
`PeerGoneReleased` and `HubCloseEndsStream`: all else ends, though the reader not
always before the handler. `CtxDonePrompt`: once the context is done no tick
passes until both have ended, except in a write that the handler is in, which
may wait for its deadline.

*Lifecycle.* `NilMeansDrained`: a Run that returns nil was asked to stop and cut
nothing short that net/http or grpc had in their care. Excepted are hijacked
connections and a gRPC server that the application stopped (`appStop`), which
makes Run return nil unasked. `RPCsCutLast` is about the RPCs that Run cuts, for
which the HTTP side has drained; that they may be cut with some of the
shutdown timeout left is what `grpc.go:74-78` does. `GRPCNeverOutlivesRun`,
`CancelReturns`, `NothingStaysBehind`. `HalfFailed` excepts autocert's other
listener after one has failed (`sugaar.go:445` returns without closing it).

*Pipeline.* `ContextsExclusive` and `NoCrossTalk`: pool and map never mix two
requests up. `HandlerGuarded`: the handler runs only for requests that satisfy every guard
the script declares for its route (`Routes!Guards`, which follows a layer through
the calls by which it reaches a route's group, and does not look at the chains), by what the authenticators are documented to require;
whatever the order, and whatever Context they see. Roles are asked of the
identity that `AnyOf` and `AllOf` are documented to return (`DocumentedIdentity`,
stated without their operators), which matters for a request with the credentials
of two people. `AnswersAsAlone` is the other
direction: with another request in flight, a request gets the status that the
first layer that refuses it, or else the mux or its handler, gives it, unless
its deadline passed or it asks for an event stream through GZip (`StreamsZipped`,
see below). What the code shares with that reference is not tested by it:
`Single` and with it the checks of a JWT's times and leeway, `Bind`, `IsLoopback`.
`OneAnswer` and `AccessLog` say when the client gets one consistent answer and
when the log line tells the truth; their exceptions name what the code does not
guarantee.

### What the code does against its documentation

1. `hub_replay_order`: Subscribe registers under `h.mu` and replays after
   releasing it, so a Publish in between puts its event ahead of the buffered
   ones (`hub.go:101`, against `hub.go:75-76` and `hub_replay.go:5-7`).
2. `hub_no_panic`: the replay loop sends without `sub.mu` while Close may close
   the channel, and panics (`hub.go:103`).
3. `lifecycle_shared`: when the gRPC server fails, Run returns its error and
   cancels nothing; while its caller leaves the context open, the HTTP servers go
   on taking requests (`sugaar.go:368`, against `sugaar.go:336-337`). In the trace
   the context is never done. Once it is, they end (`NothingStaysBehind`).
4. `pipeline_identity`: Timeout replaces the request pointer, so with an
   app-level Timeout `Handle` does not find the Context and the Identity is
   lost (`middleware.go:136`, against `auth.go:67`). It fails closed:
   `HandlerGuarded` holds all the same.

Seen while modelling, and without a run of their own:

- `SubscribeSince` looks for the position of the ID, not for "strictly greater"
  IDs (`hub.go:113`); as IDs are taken outside the lock, the two differ.
- `EnableReplay` with 0, or with another size, leaves the rings of existing
  topics: with 0 they are still replayed but no longer pushed to, which
  leaves a gap. `hub_replay.go:68` asks for one call, before Subscribe; the
  checked instance has one call, at any time.
- `idSeq` restarts from 1 with the process, so an old `Last-Event-ID` may match
  a new event (see `ResumeWithoutGap`).
- `sub.Drops` is never reset, so after one drop OnDrop is called for every later
  event, where `sse.go:36` says once per dropped event.
- On all exits but one the WebSocket handler does not wait for its reader,
  which may outlive it for a moment (`websocket.go:115-116`).
- An event without JSON (`websocket.go:156-157`) and a message beyond the read
  limit (`websocket.go:126`) end the WebSocket stream of a client that is there,
  which `websocket.go:95-97` leaves out of its list.
- Run may return nil while WebSocket handlers still run: `http.Server.Shutdown`
  (`sugaar.go:452-453`, `467`) does not wait for hijacked connections.
- An application that stops `GRPC.Server` itself makes Run return nil with its
  context open and HTTP listening (`grpc.go:65-68`, `sugaar.go:368-372`).
- When one of autocert's listeners fails the other is left open (`sugaar.go:445`).
- Timeout turns a request that was answered in full into a 504 if the deadline
  has passed meanwhile (`middleware.go:138`): the body is appended to.
- `gzipWriter` is neither a Flusher nor a Hijacker, so behind GZip upgrades fail
  and SSE fails with 500, where `middleware.go:178-180` says streaming is skipped.
  `AnswersAsAlone` takes neither for right and excepts such requests.
  It hands a second status 200 to the writer below, which is what the
  log then shows; an error answered after its Close is cut off.
- requestLog writes no line for a panic and status 0 for an error that a
  middleware returned (`sugaar.go:253`).
- `AllOf()` of nothing succeeds with a nil Identity, which Auth stores; a handler
  that uses it panics, Authorize refuses it.
- A field that cannot be decoded is 400 in BindJSON and 500 in BindForm and
  BindQuery, whose error has no status (`context_extra.go:150`).
- `WithLeeway` speaks of iat (`jwtauth/jwt.go:139`), which the parser does not
  check unless told to.
- App.Use after New is not synchronised with ServeHTTP (`sugaar.go:155-156`).
- An AnyOf with a Basic alternative that fails leaves its WWW-Authenticate header
  on the answer of a request that another alternative accepts.
- An event that cannot be marshalled ends an SSE stream, and again after each
  resume until it leaves the ring.

## Fairness

Safety runs use none. For liveness:

- the Go scheduler runs every goroutine that can run: weak fairness of the
  steps inside a call, never of making a call;
- `sync.Mutex` hands the lock to a waiter that has starved for a millisecond:
  strong fairness of `PublishLock \/ PublishClosed`, the one place where a lock
  is taken and retaken while others wait and the property needs it;
- `select` picks among ready cases at random: strong fairness of
  `TakeEvent \/ Ended` in `Sse`, so a ticker does not starve events;
- in `Queue`, weak fairness of the steps inside a call: its Publish is one step,
  which happens because the hub's calls return (`Hub!CallsReturn`);
- time passes and timers fire: weak fairness of `Tick` and `DeadlinePasses`.

Nothing is assumed of consumers, of clients (but for one that is alive in
`WebSocket`, which reads and answers), of requests and RPCs in flight, which may
last for ever, or of the caller's context.

## What is proved

`tlapm` checks the proofs for all values of the constants, from
`RingAssumption`, `HubAssumption`, `SseAssumption`, `LifecycleAssumption`,
`QueueAssumption`, `WebSocketAssumption`, `AccessAssumption` and
`PipelineAssumption`. These state types, that `Free`, `NoTopic` and `None` are
not members of the sets they are added to, and that there are two Contexts for
every request, as `sync.Pool` makes one whenever it has none. TLC evaluates
them in every run.

*Ring.* `RingInv` adds to the types that every event's position is its index
and that `HoldsSuffix(buf, log)`: the slots before `head` are the latest events
and, once full, those from `head` on the ones before. The snapshot alone would
not be inductive: it does not say which slot a push overwrites. From it
follow `TypeCorrect`, `SnapshotCorrect`, `ResumeComplete` and `ResumeNoRepeat`.
The lemmas on `Push`, `Snapshot` and `Since` in `ReplayBufferProofs` are stated
for any ring and any log, so the hub's proofs use them too.

*Hub.* `TypeCorrect`. `Ownership`: `RegisteredOpen` and
`PublishCancelCloseNeverPanic` are not inductive by themselves; `OwnershipInv`
adds that `sub.closed` and the channel agree, that a subscription not yet made
is open, and that whatever a closer has still to close was made, and its hub
is closed. From it `RegisteredStayOpen` and `NeverPanic`.
`LockInv` goes on: only the publisher that holds `mu` is in its delivery loop,
the event in its hand is the latest of its topic, and its receivers are
registered. `Effects` then says what any step of any goroutine is to one
subscription: it idles, rests, meets the latest live event, meets the next event
of its replay, joins, or finds the hub closed. With this, `CountInv`, and from
it `NothingLostUncounted`, is a matter of arithmetic per kind. `ClosedForGood`
is the action property. `RingsInv` (every ring is the end of its topic's log),
`SeamInv` (a replay ends where the subscription joined, which is no further than
it has been served) and `OrderInv` (the events of a stream, split at that point,
are in order and not ahead of what was decided) give `StreamsStayInOrder` and
`ReplaysMeetLive`. `HubImplementsFanOut` is the refinement: initial states of the
hub are initial states of `FanOut`, and every step of a goroutine is a step of
`FanOut` or changes nothing it can see. This and the theorems of order assume
`NeverSwitchedOff`, that EnableReplay is not called with 0: a ring left over
from before then misses events and is replayed all the same.

*Queue.* `QueueInv` is about where the events of one topic are: in the queue,
in the hand of a caller or of the worker, in the hub, with a consumer, or
refused. What a step of the queue does to them is one of three things (`Effect`):
nothing, put a new event at the end of the queue, or move the first few events
of one place to the end of another. That the places hold every event once
(`Counted`) and that their contents follow each other in order (`Ordered`) is
proved of any set of places under those three, and once of the actions.
`EventsCounted` and `FirstOut` follow.

*WebSocket.* `AliveNeverCut`: a peer that reads and answers pings in time is never
cut but for the reasons that `AliveStaysConnected` names, if a ping, the
patience of the peer and the answer fit in `PongWait` (`AnswersInTime`, as the
code's 30 and 60 seconds do). `CutInv` says why: at any time
the reader's deadline is further off than what is left until the next pong, summed over
the ticker, the ping on the wire and the peer's patience (`DeadlineFar`), for which
`StageInv` and `AliveInv` keep track of which of these is under way.
`CtxDoneIsPrompt` is the action property: `StageInv` says where the reader is for
each place of the handler, and in each but a write something can act.

*SSE.* `GapIsReported` speaks of a step, and what makes it true is where the
events of a stream are: `Gapless` says that, unless one was dropped or a replay
overtaken, those after the last one written follow each other through the
handler's hand, the channel and the rest of the replay, up to the end of the log
while the subscription is registered. Two more parts make it inductive: `LogInv`
(events are numbered, the ring is the end of the log, so that a replay ends
where live events begin) and `SubInv` (a registered subscription has an open hub and a
handler that serves it, and is empty before that). `TypeCorrect` needs `LogInv`
too, `NoLeak` follows from `SubInv`, `GapAlwaysReported` from `Gapless`: for any
number of connections, crashes and broken streams, and every size of ring,
channel and socket.

`ResumeWithoutGap` looks further, to what the client has read over earlier
connections, and allows for drops; `SightInv` is its invariant. What is on its way
to the client, on the wire (`Wired`), in the hand (`Held`), in the channel
(`Queued`) or still to be replayed (`Left`), comes in that order and after what
it has seen (`Order`); and an event it has not seen, ahead of one that is on its
way, is on its way too or excused (`Cover`), up to the end of the log while the
subscription is registered. `ReplayStart` says where a replay begins for a given
ID, one that is empty, evicted or of a process that crashed included: there
`Cover` starts. `NumberInv` (IDs are numbers of the log, the ring is as full as it
can be) and `ItemInv` (frames are of the log) make it inductive, and
`NothingMissed` follows. TLC finds no violation of `SightInv` with the bounds of
`MCSse`, nor with a kernel of two frames and no event without JSON.

*Lifecycle.* `LifecycleInv` adds to the types the order of shutdown (`HTTPInv`), that
a nil result has come from a clean shutdown or, if the application stopped the
gRPC server, from that (`ResultInv`), and who stops the gRPC server and when
(`GRPCInv`): `LifecycleTypes`, `GRPCEndsWithRun`, `NilIsGraceful`,
`RPCsAreCutLast`.

*Pipeline.* Of every program: every script of `Use`, `Group` and `Handle`, for
any number of requests, whatever they ask for. Since the chains
are built one call at a time (`Setup`), what a chain holds is an invariant:
`ConfigInv` says that a chain has at least what the calls so far gave it
(`RegisterGuards`) and `DeclaredInv` that it has nothing else
(`RegisterDeclares`, which gives `ChainsDeclared`). Nesting of groups has no
bound: `Trails` follows a trail of calls from a route up to the `App`.
`PlaceInv` says where a goroutine may be in its chain and with what result, and
that its base Context is in `reqCtxMap` exactly between `ServeHTTP` and the
deferred function; `CtxInv` who owns each Context, down to the
request that its writer, its request and its fields belong to, and that a Context
never writes through the `statusWriter` of one that goes back to the pool
before it. From these and `NetInv` (the pieces of a
response) come `TypeCorrect`, `ContextsStayExclusive` and `NothingCrosses`.
`GuardInv` says that a goroutine on its way down has passed every guard
above it, and that an Identity a Context holds is one that an authenticator
made of this request's credentials, and gives `HandlersAreGuarded`; the lemma
`ReturnsDocumented` makes that Identity the documented one.

`AnswerInv` says what a request has been answered, layer by layer: nothing on the
way down, nor before an error still to be answered (`Unheard`); below
`requestLog`, only through its `statusWriter`, which then has the client's status
(`Logged`); once, unless the handler or `Timeout` does it again
(`AnsweredOnce`); and nothing is left in a `gzip.Writer` but while a `GZip` is
still to return (`Unzipped`). `Journey` puts each step of a goroutine in one of the
classes `Goes` lists, by what it does to place and answer; the parts of
`AnswerInv` are shown class by class, not action by action. It gives
`AnswersAreSingle` and `LinesAreTrue`. TLC finds no violation of `AnswerInv` on
`MCPipeline`.

`AloneInv` is the other direction, and gives `AnswersStandAlone`. `AnswersAsAlone`
computes a request's status from its chain and content (`Verdict`); the
code gets there one layer at a time, with Contexts that others have used before.
On the way down (`OnItsWay`) no layer above refuses this request, and the Context of
the frame that runs has exactly what they put there: a `gzipWriter`, an Identity
unless an app-level `Timeout` made `Handle` take another Context, a derived pointer (which
decides, at the mux, whether the Identity is lost). `Bearing` concludes that a layer
carries the request on, or decides. Once it is
turned back, what is sent or still to be sent for the result that climbs (`Answer`)
is the `Verdict`, until a deadline passes and but for `StreamsZipped` (`Upward`). It rests on `GuardInv`, for whose
Identity it is, and `AnswerInv`, since nothing is sent before the chain decides.
`PprofApart` (nothing shares a route with `PprofAuth`) makes the one
Identity `Authorize` may find that of `Auth`. TLC finds no violation of `AloneInv` on
`MCPipeline`.

*Model-checked only:* liveness, which the prover does not do: it needs `ENABLED`
and fairness. Every invariant and every action property of the passing runs is
proved.

## Not modelled

Which origins `SameOriginCheck` and `AllowOrigins` accept: to `WebSocket` an upgrade
succeeds or is refused, and no property would tell more. The hub's `dropCount` is a
variable of `Hub` but in no property. A second call of EnableReplay. Two GZip
layers on one request, which would nest two writers: a script names GZip once
(`OneGZip`). How the mux matches methods, patterns and prefixes: a request comes with the
route it leads to. Cookies, redirects, headers and `ClientIP` read or write one
header each. The bodies of static files and of net/http/pprof are those of
net/http. `codec` chooses by the Accept header between third-party encodings: to
the pipeline one more body that is bound or written. In `jwtauth`, parsing
and cryptography are the library's. `UpgradeWS` hands the connection to
application code, after the upgrade that `WebSocket` models. `Peek`, `Len`,
`Topics` and the counters only read. `sugaartest`, `golden` and `examples` use
the library. Registration while requests are served is left out, a data race
in the code that no caller in the repository makes.

## Left open

That the mux refuses a pattern registered twice is a condition on scripts
(`WellFormed`), not a step of `Routes`. The choice of a codec by the Accept header is
sequential, keeps nothing between calls, and would be a module of its own.
