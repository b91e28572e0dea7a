----------------------------- MODULE Lifecycle ------------------------------
(***************************************************************************)
(* App.Run (sugaar.go) and runGRPC (grpc.go): how the HTTP servers and the *)
(* gRPC server start, fail and stop together.                              *)
(*                                                                         *)
(* The goroutines are Run itself, the HTTP goroutine it starts (runPlain,  *)
(* runStaticTLS or runAutoCert), one listener per HTTP server, the gRPC    *)
(* listener and the goroutine inside the stop function.  They talk through *)
(* channels with room for every send, so a send never waits and a channel  *)
(* is the set of outcomes that were sent and not received.  net/http and   *)
(* grpc are modelled by what Run sees of them: a server listens, fails or  *)
(* is shut down; Shutdown waits for requests in flight and for no longer   *)
(* than its deadline; GracefulStop waits for RPCs, Stop cuts them.         *)
(***************************************************************************)
EXTENDS Naturals, Sequences, FiniteSets, SequencesExt

CONSTANTS
  Modes,    (* which of "plain" and "autocert" the options may select       *)
  GRPC,     (* whether EnableGRPC was called: a set of booleans             *)
  MaxLoad   (* bound: requests of a server, and RPCs, in flight at a time   *)

ASSUME LifecycleAssumption ==
  /\ Modes \subseteq {"plain", "autocert"}
  /\ GRPC \subseteq BOOLEAN
  /\ MaxLoad \in Nat

VARIABLES
  mode, grpc,  (* the configuration                                         *)
  nilCtx,      (* Run was given no context and made one of signals          *)
  ctxDone,     (* the context is done                                       *)
  run,         (* Run: start, spawn, select, wait, stop, stopping, returned *)
  result,      (* what Run returns: nil, err, or none yet                   *)
  http,        (* the HTTP goroutine: off, start, serve, shutdown or done   *)
  httpErrCh,   (* outcomes the HTTP goroutine sent to Run                   *)
  errCh,       (* failures the HTTP listeners sent to the HTTP goroutine    *)
  pending,     (* the servers it has still to shut down, in order           *)
  server,      (* per HTTP server: off, listening, failed or closed         *)
  inflight,    (* per HTTP server: requests being served                    *)
  streams,     (* connections hijacked for a WebSocket, beyond net/http     *)
  deadline,    (* the shutdown context has expired                          *)
  gsrv,        (* the gRPC server: off, serving, failed, graceful, stopped  *)
  grpcErrCh,   (* outcomes the gRPC listener sent to Run                    *)
  appStop,     (* history: the application has stopped GRPC.Server itself   *)
  rpcs         (* RPCs being served                                         *)

runVars == <<run, result>>
httpVars == <<http, httpErrCh, errCh, pending, server, deadline>>
load == <<inflight, streams>>
grpcVars == <<gsrv, grpcErrCh, appStop>>
config == <<mode, grpc, nilCtx>>
vars == <<config, ctxDone, runVars, httpVars, load, grpcVars, rpcs>>

(* The server that has the App as its handler comes last: autocert's port  *)
(* 80 server only answers challenges and redirects.                        *)
ServerOrder == IF mode = "autocert" THEN <<"redirect", "app">> ELSE <<"app">>

AllServers == {"redirect", "app"}

Servers == ToSet(ServerOrder)

Init ==
  /\ mode \in Modes
  /\ grpc \in GRPC
  /\ nilCtx \in BOOLEAN
  /\ ctxDone = FALSE
  /\ run = "start"
  /\ result = "none"
  /\ http = "off"
  /\ httpErrCh = {}
  /\ errCh = {}
  /\ pending = << >>
  /\ server = [s \in AllServers |-> "off"]
  /\ inflight = [s \in AllServers |-> 0]
  /\ streams = 0
  /\ deadline = FALSE
  /\ gsrv = "off"
  /\ grpcErrCh = {}
  /\ appStop = FALSE
  /\ rpcs = 0

-----------------------------------------------------------------------------
(* The world: the caller's context, load, and listeners that fail.         *)

Cancel ==
  /\ ~ctxDone
  /\ ctxDone' = TRUE
  /\ UNCHANGED <<config, runVars, httpVars, load, grpcVars, rpcs>>

BeginRequest(s) ==
  /\ server[s] = "listening"
  /\ inflight[s] < MaxLoad
  /\ inflight' = [inflight EXCEPT ![s] = @ + 1]
  /\ UNCHANGED <<config, ctxDone, runVars, httpVars, streams, grpcVars, rpcs>>

EndRequest(s) ==
  /\ inflight[s] > 0
  /\ inflight' = [inflight EXCEPT ![s] = @ - 1]
  /\ UNCHANGED <<config, ctxDone, runVars, httpVars, streams, grpcVars, rpcs>>

(* A handler upgrades to a WebSocket: net/http lets go of the connection.  *)
Hijack ==
  /\ inflight["app"] > 0
  /\ streams < MaxLoad
  /\ inflight' = [inflight EXCEPT !["app"] = @ - 1]
  /\ streams' = streams + 1
  /\ UNCHANGED <<config, ctxDone, runVars, httpVars, grpcVars, rpcs>>

EndStream ==
  /\ streams > 0
  /\ streams' = streams - 1
  /\ UNCHANGED <<config, ctxDone, runVars, httpVars, inflight, grpcVars, rpcs>>

BeginRPC ==
  /\ gsrv = "serving"
  /\ rpcs < MaxLoad
  /\ rpcs' = rpcs + 1
  /\ UNCHANGED <<config, ctxDone, runVars, httpVars, load, grpcVars>>

EndRPC ==
  /\ rpcs > 0
  /\ rpcs' = rpcs - 1
  /\ UNCHANGED <<config, ctxDone, runVars, httpVars, load, grpcVars>>

(* ListenAndServe returns an error, at once or after a while.              *)
ListenerFails(s) ==
  /\ server[s] = "listening"
  /\ server' = [server EXCEPT ![s] = "failed"]
  /\ errCh' = errCh \cup {"err"}
  /\ UNCHANGED <<config, ctxDone, runVars, http, httpErrCh, pending, deadline>>
  /\ UNCHANGED <<load, grpcVars, rpcs>>

(* Server.Serve of gRPC returns an error other than ErrServerStopped.      *)
ServeFails ==
  /\ gsrv = "serving"
  /\ gsrv' = "failed"
  /\ grpcErrCh' = grpcErrCh \cup {"err"}
  /\ UNCHANGED <<config, ctxDone, runVars, httpVars, load, appStop, rpcs>>

(* The application calls Stop on the GRPC.Server it was given, before Run  *)
(* or at any time: RPCs are cut and Serve returns nil, or ErrServerStopped *)
(* when it starts after that.                                              *)
AppStop ==
  /\ grpc
  /\ gsrv # "stopped"
  /\ gsrv' = "stopped"
  /\ rpcs' = 0
  /\ appStop' = TRUE
  /\ grpcErrCh' = IF gsrv = "serving" \/ (gsrv = "graceful" /\ appStop)
                  THEN grpcErrCh \cup {"nil"} ELSE grpcErrCh
  /\ UNCHANGED <<config, ctxDone, runVars, httpVars, load>>

(* ... or GracefulStop.                                                    *)
AppGracefulStop ==
  /\ gsrv = "serving"
  /\ gsrv' = "graceful"
  /\ appStop' = TRUE
  /\ UNCHANGED <<config, ctxDone, runVars, httpVars, load, grpcErrCh, rpcs>>

(* The timer of the shutdown context fires.                                *)
DeadlinePasses ==
  /\ http = "shutdown"
  /\ ~deadline
  /\ deadline' = TRUE
  /\ UNCHANGED <<config, ctxDone, runVars, http, httpErrCh, errCh, pending>>
  /\ UNCHANGED <<server, load, grpcVars, rpcs>>

-----------------------------------------------------------------------------
(* Run.                                                                    *)

(* Run returns; the signal context it made, if any, ends with it (the      *)
(* deferred stop).                                                         *)
ReturnFromRun ==
  /\ run' = "returned"
  /\ ctxDone' = (ctxDone \/ nilCtx)

(* runGRPC: without EnableGRPC nothing, else the port is taken and Serve   *)
(* started, or Run returns the error.  Serve on a server that was stopped  *)
(* already ends at once, as nil.                                           *)
RunGRPC ==
  /\ run = "start"
  /\ \/ /\ run' = "spawn"
        /\ gsrv' = IF grpc /\ gsrv = "off" THEN "serving" ELSE gsrv
        /\ grpcErrCh' = IF gsrv = "stopped" THEN {"nil"} ELSE grpcErrCh
        /\ UNCHANGED <<result, ctxDone>>
     \/ /\ grpc
        /\ ReturnFromRun
        /\ result' = "err"
        /\ UNCHANGED <<gsrv, grpcErrCh>>
  /\ UNCHANGED <<config, httpVars, load, appStop, rpcs>>

SpawnHTTP ==
  /\ run = "spawn"
  /\ run' = "select"
  /\ http' = "start"
  /\ UNCHANGED <<config, ctxDone, result, httpErrCh, errCh, pending, server>>
  /\ UNCHANGED <<deadline, load, grpcVars, rpcs>>

SelectCtx ==
  /\ run = "select"
  /\ ctxDone
  /\ run' = "wait"
  /\ UNCHANGED <<config, ctxDone, result, httpVars, load, grpcVars, rpcs>>

(* The outcome of the HTTP goroutine, in the select or after ctx.Done().   *)
ReceiveHTTP ==
  /\ run \in {"select", "wait"}
  /\ \E e \in httpErrCh : httpErrCh' = httpErrCh \ {e} /\ result' = e
  /\ run' = "stop"
  /\ UNCHANGED <<config, ctxDone, http, errCh, pending, server, deadline>>
  /\ UNCHANGED <<load, grpcVars, rpcs>>

SelectGRPC ==
  /\ run = "select"
  /\ \E e \in grpcErrCh : grpcErrCh' = grpcErrCh \ {e} /\ result' = e
  /\ run' = "stop"
  /\ UNCHANGED <<config, ctxDone, httpVars, load, gsrv, appStop, rpcs>>

(* Mutant of StopGRPC: Run does not wait for GracefulStop.                 *)
StopGRPCInBackground ==
  /\ run = "stop"
  /\ ReturnFromRun
  /\ gsrv' = IF ~grpc \/ gsrv = "stopped" THEN gsrv ELSE "graceful"
  /\ UNCHANGED <<config, result, httpVars, load, grpcErrCh, appStop, rpcs>>

(* The deferred stopGRPC: without a gRPC server nothing, else GracefulStop *)
(* starts in a goroutine of its own, and makes Serve, if it still runs,    *)
(* return nil to a channel nobody reads any more.                          *)
StopGRPC ==
  /\ run = "stop"
  /\ \/ /\ ~grpc
        /\ ReturnFromRun
        /\ UNCHANGED gsrv
     \/ /\ grpc
        /\ run' = "stopping"
        /\ gsrv' = IF gsrv = "stopped" THEN gsrv ELSE "graceful"
        /\ UNCHANGED ctxDone
  /\ UNCHANGED <<config, result, httpVars, load, grpcErrCh, appStop, rpcs>>

(* GracefulStop returns once no RPC is left, and Serve with it.            *)
GracefulDone ==
  /\ gsrv = "graceful"
  /\ rpcs = 0
  /\ gsrv' = "stopped"
  /\ grpcErrCh' = IF appStop THEN grpcErrCh \cup {"nil"} ELSE grpcErrCh
  /\ UNCHANGED <<config, ctxDone, runVars, httpVars, load, appStop, rpcs>>

(* case <-done.                                                            *)
Stopped ==
  /\ run = "stopping"
  /\ gsrv = "stopped"
  /\ ReturnFromRun
  /\ UNCHANGED <<config, result, httpVars, load, grpcVars, rpcs>>

(* Mutant of StopNow: Stop does not wait to be allowed to.                 *)
StopNowAlways ==
  /\ run = "stopping"
  /\ gsrv' = "stopped"
  /\ rpcs' = 0
  /\ ReturnFromRun
  /\ UNCHANGED <<config, result, httpVars, load, grpcErrCh, appStop>>

(* case <-ctx.Done(): Stop cuts the RPCs that are left.                    *)
StopNow ==
  /\ run = "stopping"
  /\ ctxDone
  /\ gsrv' = "stopped"
  /\ rpcs' = 0
  /\ ReturnFromRun
  /\ UNCHANGED <<config, result, httpVars, load, grpcErrCh, appStop>>

-----------------------------------------------------------------------------
(* The HTTP goroutine.                                                     *)

(* The servers are made and their listeners started; autocert may fail     *)
(* before that on its cache directory.                                     *)
StartHTTP ==
  /\ http = "start"
  /\ \/ /\ http' = "serve"
        /\ server' = [s \in AllServers |->
                        IF s \in Servers THEN "listening" ELSE "off"]
        /\ UNCHANGED httpErrCh
     \/ /\ mode = "autocert"
        /\ http' = "done"
        /\ httpErrCh' = httpErrCh \cup {"err"}
        /\ UNCHANGED server
  /\ UNCHANGED <<config, ctxDone, runVars, errCh, pending, deadline>>
  /\ UNCHANGED <<load, grpcVars, rpcs>>

(* The first server in order is shut down: its listener closes.  Its       *)
(* listener goroutine returns ErrServerClosed to a channel nobody reads.   *)
CloseNext(order) ==
  server' = [server EXCEPT ![Head(order)] =
               IF @ = "listening" THEN "closed" ELSE @]

(* Mutant of HTTPCtxDone: the first server is closed and not waited for.   *)
HTTPCtxDoneSkipsWait ==
  /\ http = "serve"
  /\ ctxDone
  /\ http' = "shutdown"
  /\ pending' = Tail(ServerOrder)
  /\ CloseNext(ServerOrder)
  /\ UNCHANGED <<config, ctxDone, runVars, httpErrCh, errCh, deadline>>
  /\ UNCHANGED <<load, grpcVars, rpcs>>

(* case <-ctx.Done().                                                      *)
HTTPCtxDone ==
  /\ http = "serve"
  /\ ctxDone
  /\ http' = "shutdown"
  /\ pending' = ServerOrder
  /\ CloseNext(ServerOrder)
  /\ UNCHANGED <<config, ctxDone, runVars, httpErrCh, errCh, deadline>>
  /\ UNCHANGED <<load, grpcVars, rpcs>>

(* case err := <-errCh: the error is returned; a second server is left as  *)
(* it is.                                                                  *)
HTTPFailed ==
  /\ http = "serve"
  /\ "err" \in errCh
  /\ errCh' = {}
  /\ http' = "done"
  /\ httpErrCh' = httpErrCh \cup {"err"}
  /\ UNCHANGED <<config, ctxDone, runVars, pending, server, deadline>>
  /\ UNCHANGED <<load, grpcVars, rpcs>>

(* Mutant of ShutdownReturns: the error of Shutdown is ignored.            *)
ShutdownReturnsNil ==
  /\ http = "shutdown"
  /\ inflight[Head(pending)] = 0 \/ deadline
  /\ pending' = Tail(pending)
  /\ IF Len(pending) > 1
     THEN CloseNext(Tail(pending)) /\ UNCHANGED <<http, httpErrCh>>
     ELSE /\ http' = "done"
          /\ httpErrCh' = httpErrCh \cup {"nil"}
          /\ UNCHANGED server
  /\ UNCHANGED <<config, ctxDone, runVars, errCh, deadline>>
  /\ UNCHANGED <<load, grpcVars, rpcs>>

(* Mutant of ShutdownReturns: the shutdown context has no deadline.        *)
ShutdownWaitsForever ==
  /\ http = "shutdown"
  /\ inflight[Head(pending)] = 0
  /\ pending' = Tail(pending)
  /\ IF Len(pending) > 1
     THEN CloseNext(Tail(pending)) /\ UNCHANGED <<http, httpErrCh>>
     ELSE /\ http' = "done"
          /\ httpErrCh' = httpErrCh \cup {"nil"}
          /\ UNCHANGED server
  /\ UNCHANGED <<config, ctxDone, runVars, errCh, deadline>>
  /\ UNCHANGED <<load, grpcVars, rpcs>>

(* Mutant of ShutdownReturns: only the first server is shut down.          *)
ShutdownFirstOnly ==
  /\ http = "shutdown"
  /\ inflight[Head(pending)] = 0 \/ deadline
  /\ pending' = << >>
  /\ http' = "done"
  /\ httpErrCh' = httpErrCh \cup
                    {IF inflight[Head(pending)] = 0 THEN "nil" ELSE "err"}
  /\ UNCHANGED server
  /\ UNCHANGED <<config, ctxDone, runVars, errCh, deadline>>
  /\ UNCHANGED <<load, grpcVars, rpcs>>

(* Shutdown of the server at hand returns, nil when nothing is in flight   *)
(* and an error at the deadline.  The next server's turn comes then; the   *)
(* error of the last one is what is returned.                              *)
ShutdownReturns ==
  /\ http = "shutdown"
  /\ inflight[Head(pending)] = 0 \/ deadline
  /\ pending' = Tail(pending)
  /\ IF Len(pending) > 1
     THEN CloseNext(Tail(pending)) /\ UNCHANGED <<http, httpErrCh>>
     ELSE /\ http' = "done"
          /\ httpErrCh' = httpErrCh \cup
                            {IF inflight[Head(pending)] = 0 THEN "nil" ELSE "err"}
          /\ UNCHANGED server
  /\ UNCHANGED <<config, ctxDone, runVars, errCh, deadline>>
  /\ UNCHANGED <<load, grpcVars, rpcs>>

-----------------------------------------------------------------------------

World ==
  \/ Cancel
  \/ \E s \in AllServers : BeginRequest(s) \/ EndRequest(s) \/ ListenerFails(s)
  \/ Hijack \/ EndStream
  \/ BeginRPC \/ EndRPC \/ ServeFails \/ AppStop \/ AppGracefulStop

RunGoroutine ==
  \/ RunGRPC \/ SpawnHTTP
  \/ SelectCtx \/ ReceiveHTTP \/ SelectGRPC
  \/ StopGRPC \/ Stopped \/ StopNow

HTTPGoroutine == StartHTTP \/ HTTPCtxDone \/ HTTPFailed \/ ShutdownReturns

Terminating ==
  /\ run = "returned"
  /\ ctxDone
  /\ rpcs = 0 /\ streams = 0 /\ inflight = [s \in AllServers |-> 0]
  /\ UNCHANGED vars

Next ==
  \/ World
  \/ RunGoroutine
  \/ HTTPGoroutine
  \/ GracefulDone
  \/ DeadlinePasses
  \/ Terminating

Spec == Init /\ [][Next]_vars

(* Goroutines run and the shutdown timer fires.  Requests and RPCs may     *)
(* last for ever, as event streams do, and listeners need not fail.        *)
Fairness ==
  /\ WF_vars(RunGoroutine)
  /\ WF_vars(HTTPGoroutine)
  /\ WF_vars(GracefulDone)
  /\ WF_vars(DeadlinePasses)

FairSpec == Spec /\ Fairness

-----------------------------------------------------------------------------
(* Properties.                                                             *)

(* The type invariant.                                                     *)
TypeOK ==
  /\ mode \in {"plain", "autocert"}
  /\ grpc \in BOOLEAN /\ nilCtx \in BOOLEAN
  /\ ctxDone \in BOOLEAN
  /\ run \in {"start", "spawn", "select", "wait", "stop", "stopping",
              "returned"}
  /\ result \in {"none", "nil", "err"}
  /\ http \in {"off", "start", "serve", "shutdown", "done"}
  /\ httpErrCh \subseteq {"nil", "err"}
  /\ errCh \subseteq {"err"}
  /\ pending \in Seq(AllServers)
  /\ http = "shutdown" => pending # << >>
  /\ server \in [AllServers -> {"off", "listening", "failed", "closed"}]
  /\ inflight \in [AllServers -> Nat] /\ streams \in Nat
  /\ deadline \in BOOLEAN
  /\ gsrv \in {"off", "serving", "failed", "graceful", "stopped"}
  /\ grpcErrCh \subseteq {"nil", "err"} /\ appStop \in BOOLEAN
  /\ rpcs \in Nat

Listening == {s \in AllServers : server[s] = "listening"}

GRPCDown == gsrv \in {"off", "stopped"}

(* An autocert listener that fails leaves the other one alone.             *)
HalfFailed == mode = "autocert" /\ \E s \in AllServers : server[s] = "failed"

(* README.md:89: a Run that returns nil was asked to stop and cut nothing  *)
(* short: the requests net/http had in its care were served to the end, no *)
(* listener is left, and the gRPC server is down with no RPC left.  Out of *)
(* net/http's care are the connections hijacked for WebSockets, which may  *)
(* be served on; and an application that stops the gRPC server itself      *)
(* makes Run return nil without having been asked.                         *)
NilMeansDrained ==
  run = "returned" /\ result = "nil" /\ ~appStop =>
    /\ ctxDone
    /\ inflight["app"] = 0
    /\ HalfFailed \/ Listening = {}
    /\ GRPCDown /\ rpcs = 0

(* sugaar.go:336-337: the gRPC server never outlives Run.                  *)
GRPCNeverOutlivesRun ==
  run = "returned" => GRPCDown /\ rpcs = 0

(* Run cuts RPCs off only when the context is done, and only after the     *)
(* HTTP side has had its time to drain, unless it is ending on a failure.  *)
RPCsCutLast ==
  [][run' # run /\ rpcs' < rpcs =>
       ctxDone /\ (http = "done" \/ result = "err")]_vars

(* README.md:89: after cancellation Run returns within the shutdown        *)
(* timeout, whatever streams and RPCs are open and whatever failed.        *)
CancelReturns == ctxDone ~> run = "returned"

(* ... and no goroutine of it and no listener stays behind, even when Run  *)
(* had returned before on a failure of the gRPC server.                    *)
NothingStaysBehind ==
  ctxDone ~> /\ http \in {"off", "done"}
             /\ HalfFailed \/ Listening = {}
             /\ GRPCDown

(* sugaar.go:336-337, README.md:93: HTTP and gRPC share one lifecycle:     *)
(* when Run has returned on a failure, with its context still open (which  *)
(* would end the HTTP servers too), neither takes requests any more.       *)
SharedLifecycle ==
  run = "returned" /\ ~ctxDone /\ ~appStop => Listening = {} /\ GRPCDown
=============================================================================
