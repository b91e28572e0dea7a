-------------------------- MODULE LifecycleProofs ---------------------------
(***************************************************************************)
(* What a Run that has returned left behind, for every configuration and   *)
(* every load.                                                             *)
(***************************************************************************)
EXTENDS Lifecycle, TLAPS, SequenceTheorems

-----------------------------------------------------------------------------
(* The inductive invariant.                                                *)

(* Everything the shutdown of the HTTP servers promises once it ends well. *)
Drained ==
  /\ ctxDone
  /\ http = "done"
  /\ inflight["app"] = 0
  /\ server["app"] # "listening"
  /\ HalfFailed \/ Listening = {}

(* The servers are shut down in order, after the context is done.          *)
HTTPInv ==
  /\ run \in {"start", "spawn"} => http = "off"
  /\ http \in {"off", "start"} => \A s \in AllServers : server[s] = "off"
  /\ mode = "plain" => server["redirect"] = "off"
  /\ http = "shutdown" =>
       /\ ctxDone
       /\ \/ pending = <<"app">> /\ Listening = {}
          \/ pending = <<"redirect", "app">> /\ server["redirect"] # "listening"

(* The application has stopped the gRPC server, and that is over.          *)
StoppedByApp == appStop /\ gsrv = "stopped"

(* A nil result has come from an HTTP shutdown that ended well, or from a  *)
(* gRPC server that the application had stopped.                           *)
ResultInv ==
  /\ "nil" \in httpErrCh => Drained
  /\ "nil" \in grpcErrCh => StoppedByApp
  /\ result = "nil" => Drained \/ StoppedByApp
  /\ run \in {"stop", "stopping"} => result \in {"nil", "err"}

(* The gRPC server is stopped by Run or by the application, for good.      *)
GRPCInv ==
  /\ ~grpc => gsrv = "off"
  /\ run = "start" => gsrv = "off" \/ StoppedByApp
  /\ GRPCDown => rpcs = 0
  /\ run = "stopping" => gsrv \in {"graceful", "stopped"}
  /\ run = "returned" => GRPCDown

LifecycleInv == TypeOK /\ HTTPInv /\ ResultInv /\ GRPCInv

-----------------------------------------------------------------------------

(* The two orders in which servers are shut down.                          *)
LEMMA Orders ==
  /\ <<"app">> \in Seq(AllServers) /\ <<"redirect", "app">> \in Seq(AllServers)
  /\ << >> \in Seq(AllServers)
  /\ Len(<<"app">>) = 1 /\ Len(<<"redirect", "app">>) = 2
  /\ Head(<<"app">>) = "app" /\ Head(<<"redirect", "app">>) = "redirect"
  /\ Tail(<<"app">>) = << >> /\ Tail(<<"redirect", "app">>) = <<"app">>
  /\ <<"app">> # << >> /\ <<"redirect", "app">> # << >>
  /\ <<"app">> # <<"redirect", "app">>
<1>1. <<"app">> \in Seq(AllServers) /\ <<"redirect", "app">> \in Seq(AllServers)
  BY DEF AllServers
<1>2. Tail(<<"redirect", "app">>) = <<"app">> /\ Tail(<<"app">>) = << >>
  OBVIOUS
<1> QED BY <1>1, <1>2

LEMMA LifecycleInit == LifecycleAssumption /\ Init => LifecycleInv
<1> SUFFICES ASSUME LifecycleAssumption, Init PROVE LifecycleInv
  OBVIOUS
<1>1. TypeOK
  BY Orders DEF Init, TypeOK, LifecycleAssumption
<1>2. HTTPInv /\ ResultInv /\ GRPCInv
  BY DEF Init, HTTPInv, ResultInv, GRPCInv, GRPCDown, AllServers
<1> QED BY <1>1, <1>2 DEF LifecycleInv

(* What the world does: only ListenerFails touches a server.               *)
LEMMA WorldStep ==
  ASSUME LifecycleInv, World
  PROVE  LifecycleInv'
<1> USE DEF LifecycleInv, runVars, httpVars, grpcVars, config, load,
           StoppedByApp, ReturnFromRun
<1>1. CASE Cancel
  BY <1>1 DEF Cancel, TypeOK, HTTPInv, ResultInv, GRPCInv, Drained, HalfFailed,
              Listening, GRPCDown
<1>2. ASSUME NEW s \in AllServers, BeginRequest(s) PROVE LifecycleInv'
  <2>1. TypeOK'
    BY <1>2 DEF BeginRequest, TypeOK
  <2>2. server[s] = "listening" /\ inflight' = [inflight EXCEPT ![s] = @ + 1]
    BY <1>2 DEF BeginRequest
  <2>3. Drained => Drained'
    BY <1>2, <2>2 DEF BeginRequest, Drained, HalfFailed, Listening, TypeOK
  <2> QED
    BY <1>2, <2>1, <2>3
    DEF BeginRequest, HTTPInv, ResultInv, GRPCInv, Listening, GRPCDown
<1>3. ASSUME NEW s \in AllServers, EndRequest(s) PROVE LifecycleInv'
  <2>1. TypeOK'
    BY <1>3 DEF EndRequest, TypeOK
  <2>2. Drained => Drained'
    BY <1>3 DEF EndRequest, Drained, HalfFailed, Listening, TypeOK
  <2> QED
    BY <1>3, <2>1, <2>2
    DEF EndRequest, HTTPInv, ResultInv, GRPCInv, Listening, GRPCDown
<1>4. ASSUME NEW s \in AllServers, ListenerFails(s) PROVE LifecycleInv'
  <2>1. TypeOK'
    BY <1>4 DEF ListenerFails, TypeOK
  <2>2. /\ server[s] = "listening"
        /\ server' = [server EXCEPT ![s] = "failed"]
    BY <1>4 DEF ListenerFails
  <2>3. Listening' \subseteq Listening /\ (HalfFailed => HalfFailed')
    BY <1>4, <2>2 DEF ListenerFails, Listening, HalfFailed, TypeOK
  <2>4. HTTPInv'
    BY <1>4, <2>2, <2>3 DEF ListenerFails, HTTPInv, Listening, TypeOK
  <2>5. Drained => Drained'
    BY <1>4, <2>2, <2>3 DEF ListenerFails, Drained, TypeOK
  <2> QED
    BY <1>4, <2>1, <2>4, <2>5 DEF ListenerFails, ResultInv, GRPCInv, GRPCDown
<1>5. CASE BeginRPC
  BY <1>5 DEF BeginRPC, TypeOK, HTTPInv, ResultInv, GRPCInv, Drained,
              HalfFailed, Listening, GRPCDown
<1>6. CASE EndRPC
  BY <1>6 DEF EndRPC, TypeOK, HTTPInv, ResultInv, GRPCInv, Drained,
              HalfFailed, Listening, GRPCDown
<1>7. CASE ServeFails
  BY <1>7 DEF ServeFails, TypeOK, HTTPInv, ResultInv, GRPCInv, Drained,
              HalfFailed, Listening, GRPCDown
<1>8. CASE Hijack
  <2>1. TypeOK'
    BY <1>8 DEF Hijack, TypeOK, AllServers
  <2>2. Drained => Drained'
    BY <1>8 DEF Hijack, Drained, HalfFailed, Listening
  <2> QED
    BY <1>8, <2>1, <2>2 DEF Hijack, HTTPInv, ResultInv, GRPCInv, Listening,
                            GRPCDown
<1>9. CASE EndStream
  BY <1>9 DEF EndStream, TypeOK, HTTPInv, ResultInv, GRPCInv, Drained,
              HalfFailed, Listening, GRPCDown
<1>10. CASE AppStop
  BY <1>10 DEF AppStop, TypeOK, HTTPInv, ResultInv, GRPCInv, Drained,
               HalfFailed, Listening, GRPCDown
<1>11. CASE AppGracefulStop
  BY <1>11 DEF AppGracefulStop, TypeOK, HTTPInv, ResultInv, GRPCInv, Drained,
               HalfFailed, Listening, GRPCDown
<1> QED
  BY <1>1, <1>2, <1>3, <1>4, <1>5, <1>6, <1>7, <1>8, <1>9, <1>10, <1>11
  DEF World

(* Run itself, and the goroutine in which GracefulStop waits: no server is *)
(* touched, the gRPC server is.                                            *)
LEMMA RunStep ==
  ASSUME LifecycleInv, RunGoroutine \/ GracefulDone
  PROVE  LifecycleInv'
<1> USE DEF LifecycleInv, runVars, httpVars, grpcVars, config, load,
           StoppedByApp, ReturnFromRun
<1>1. CASE RunGRPC
  BY <1>1 DEF RunGRPC, TypeOK, HTTPInv, ResultInv, GRPCInv, Drained,
              HalfFailed, Listening, GRPCDown
<1>2. CASE SpawnHTTP
  BY <1>2 DEF SpawnHTTP, TypeOK, HTTPInv, ResultInv, GRPCInv, Drained,
              HalfFailed, Listening, GRPCDown
<1>3. CASE SelectCtx
  BY <1>3 DEF SelectCtx, TypeOK, HTTPInv, ResultInv, GRPCInv, Drained,
              HalfFailed, Listening, GRPCDown
<1>4. CASE ReceiveHTTP
  BY <1>4 DEF ReceiveHTTP, TypeOK, HTTPInv, ResultInv, GRPCInv, Drained,
              HalfFailed, Listening, GRPCDown
<1>5. CASE SelectGRPC
  BY <1>5 DEF SelectGRPC, TypeOK, HTTPInv, ResultInv, GRPCInv, Drained,
              HalfFailed, Listening, GRPCDown
<1>6. CASE StopGRPC
  <2>1. /\ run = "stop" /\ run' \in {"stopping", "returned"}
        /\ UNCHANGED <<config, result, httpVars, load, grpcErrCh, appStop, rpcs>>
        /\ gsrv' = gsrv \/ (gsrv' = "graceful" /\ gsrv # "stopped" /\ grpc)
        /\ run' = "returned" => ~grpc /\ gsrv' = gsrv
        /\ run' = "stopping" => grpc /\ gsrv' \in {"graceful", "stopped"}
    BY <1>6, SMT DEF StopGRPC
  <2>2. ctxDone' \in BOOLEAN /\ (ctxDone => ctxDone')
    BY <1>6 DEF StopGRPC, TypeOK
  <2>3. TypeOK'
    BY <2>1, <2>2 DEF TypeOK
  <2>4. HTTPInv' /\ ResultInv'
    BY <2>1, <2>2 DEF HTTPInv, ResultInv, Drained, HalfFailed, Listening
  <2>5. GRPCInv'
    BY <2>1, SMT DEF GRPCInv, GRPCDown, TypeOK
  <2> QED BY <2>3, <2>4, <2>5
<1>7. CASE Stopped
  BY <1>7 DEF Stopped, TypeOK, HTTPInv, ResultInv, GRPCInv, Drained,
              HalfFailed, Listening, GRPCDown
<1>8. CASE StopNow
  BY <1>8 DEF StopNow, TypeOK, HTTPInv, ResultInv, GRPCInv, Drained,
              HalfFailed, Listening, GRPCDown
<1>9. CASE GracefulDone
  BY <1>9 DEF GracefulDone, TypeOK, HTTPInv, ResultInv, GRPCInv, Drained,
              HalfFailed, Listening, GRPCDown
<1> QED
  BY <1>1, <1>2, <1>3, <1>4, <1>5, <1>6, <1>7, <1>8, <1>9 DEF RunGoroutine

(* Closing the first listener of an order closes no other and reopens none. *)
LEMMA Closing ==
  ASSUME TypeOK, NEW order, Head(order) \in AllServers, CloseNext(order)
  PROVE  /\ server' \in [AllServers -> {"off", "listening", "failed", "closed"}]
         /\ server'[Head(order)] # "listening"
         /\ \A s \in AllServers \ {Head(order)} : server'[s] = server[s]
         /\ \A s \in AllServers : server[s] = "off" => server'[s] = "off"
BY DEF TypeOK, CloseNext

LEMMA HTTPStep ==
  ASSUME LifecycleInv, HTTPGoroutine \/ DeadlinePasses
  PROVE  LifecycleInv'
<1> USE DEF LifecycleInv, runVars, httpVars, grpcVars, config, load,
           StoppedByApp, ReturnFromRun
<1>1. CASE StartHTTP
  <2>1. /\ http = "start" /\ http' \in {"serve", "done"}
        /\ httpErrCh' \subseteq httpErrCh \cup {"err"}
        /\ UNCHANGED <<config, ctxDone, runVars, errCh, pending, deadline,
                       load, grpcVars, rpcs>>
    BY <1>1 DEF StartHTTP
  <2>2. /\ server' \in [AllServers -> {"off", "listening", "failed", "closed"}]
        /\ mode = "plain" => server'["redirect"] = "off"
    BY <1>1 DEF StartHTTP, TypeOK, HTTPInv, Servers, ServerOrder, AllServers, ToSet
  <2>3. TypeOK'
    BY <2>1, <2>2 DEF TypeOK
  <2>4. HTTPInv'
    BY <2>1, <2>2 DEF HTTPInv
  <2>5. "nil" \notin httpErrCh' /\ (result' = "nil" => StoppedByApp)
    BY <2>1 DEF ResultInv, Drained
  <2> QED BY <2>1, <2>3, <2>4, <2>5 DEF ResultInv, GRPCInv, GRPCDown
<1>2. CASE HTTPCtxDone
  <2>1. /\ http = "serve" /\ ctxDone /\ http' = "shutdown"
        /\ pending' = ServerOrder
        /\ UNCHANGED <<config, ctxDone, runVars, httpErrCh, errCh, deadline,
                       load, grpcVars, rpcs>>
    BY <1>2 DEF HTTPCtxDone
  <2>2. CloseNext(ServerOrder)
    BY <1>2 DEF HTTPCtxDone
  <2>3. CASE mode = "plain"
    <3>1. ServerOrder = <<"app">>
      BY <2>3 DEF ServerOrder
    <3>2. TypeOK'
      BY <2>1, <2>2, <3>1, Orders, Closing DEF TypeOK, AllServers
    <3>3. server'["app"] # "listening" /\ server'["redirect"] = "off"
      BY <2>2, <2>3, <3>1, Orders, Closing DEF HTTPInv, AllServers
    <3> QED
      BY <2>1, <3>1, <3>2, <3>3
      DEF HTTPInv, ResultInv, GRPCInv, Drained, Listening, GRPCDown, AllServers
  <2>4. CASE mode = "autocert"
    <3>1. ServerOrder = <<"redirect", "app">>
      BY <2>4 DEF ServerOrder
    <3>2. TypeOK'
      BY <2>1, <2>2, <3>1, Orders, Closing DEF TypeOK, AllServers
    <3>3. server'["redirect"] # "listening"
      BY <2>2, <3>1, Orders, Closing DEF AllServers
    <3> QED
      BY <2>1, <2>4, <3>1, <3>2, <3>3
      DEF HTTPInv, ResultInv, GRPCInv, Drained, GRPCDown
  <2> QED BY <2>3, <2>4 DEF TypeOK
<1>3. CASE HTTPFailed
  BY <1>3 DEF HTTPFailed, TypeOK, HTTPInv, ResultInv, GRPCInv, Drained,
              HalfFailed, Listening, GRPCDown
<1>4. CASE ShutdownReturns
  <2>1. /\ http = "shutdown" /\ pending' = Tail(pending)
        /\ UNCHANGED <<config, ctxDone, runVars, errCh, deadline, load,
                       grpcVars, rpcs>>
    BY <1>4 DEF ShutdownReturns
  <2>2. CASE pending = <<"app">>
    <3>1. /\ http' = "done" /\ pending' = << >> /\ UNCHANGED server
          /\ httpErrCh' = httpErrCh \cup
                            {IF inflight["app"] = 0 THEN "nil" ELSE "err"}
      BY <1>4, <2>1, <2>2, Orders DEF ShutdownReturns
    <3>2. TypeOK'
      BY <2>1, <3>1, Orders DEF TypeOK
    <3>3. ctxDone /\ Listening = {} /\ server["app"] # "listening"
      BY <2>1, <2>2, Orders DEF HTTPInv, Listening, AllServers
    <3>4. ResultInv'
      BY <2>1, <3>1, <3>3 DEF ResultInv, Drained, Listening
    <3> QED
      BY <2>1, <3>1, <3>2, <3>4 DEF HTTPInv, ResultInv, GRPCInv, GRPCDown
  <2>3. CASE pending = <<"redirect", "app">>
    <3>1. /\ http' = http /\ httpErrCh' = httpErrCh /\ pending' = <<"app">>
          /\ CloseNext(<<"app">>)
      BY <1>4, <2>1, <2>3, Orders DEF ShutdownReturns
    <3>2. TypeOK'
      BY <2>1, <3>1, Orders, Closing DEF TypeOK, AllServers
    <3>3. Listening' = {}
      <4>1. server["redirect"] # "listening"
        BY <2>1, <2>3, Orders DEF HTTPInv
      <4>2. server'["app"] # "listening" /\ server'["redirect"] = server["redirect"]
        BY <3>1, Orders, Closing DEF AllServers
      <4> QED BY <4>1, <4>2 DEF Listening, AllServers
    <3>4. mode' = "plain" => server'["redirect"] = "off"
      BY <2>1, <3>1, Orders, Closing DEF HTTPInv, AllServers
    <3> QED
      BY <2>1, <3>1, <3>2, <3>3, <3>4
      DEF HTTPInv, ResultInv, GRPCInv, Drained, GRPCDown
  <2> QED BY <2>1, <2>2, <2>3 DEF HTTPInv
<1>5. CASE DeadlinePasses
  BY <1>5 DEF DeadlinePasses, TypeOK, HTTPInv, ResultInv, GRPCInv, Drained,
              HalfFailed, Listening, GRPCDown
<1> QED BY <1>1, <1>2, <1>3, <1>4, <1>5 DEF HTTPGoroutine

LEMMA LifecycleStep ==
  ASSUME LifecycleInv, [Next]_vars
  PROVE  LifecycleInv'
<1>1. CASE UNCHANGED vars
  BY <1>1 DEF vars, LifecycleInv, runVars, httpVars, grpcVars, config, TypeOK,
              HTTPInv, ResultInv, GRPCInv, Drained, HalfFailed, Listening,
              GRPCDown, StoppedByApp, load
<1>2. CASE Terminating
  BY <1>1, <1>2 DEF Terminating
<1> QED
  BY <1>1, <1>2, WorldStep, RunStep, HTTPStep DEF Next

(* The invariant, and with it that the state is well typed.                *)
THEOREM LifecycleInvariant == Spec => []LifecycleInv
<1>1. LifecycleAssumption
  BY LifecycleAssumption
<1>2. LifecycleInv /\ [Next]_vars => LifecycleInv'
  BY LifecycleStep
<1> QED BY <1>1, <1>2, LifecycleInit, PTL DEF Spec

(* The type invariant on its own.                                          *)
THEOREM LifecycleTypes == Spec => []TypeOK
<1>1. LifecycleInv => TypeOK
  BY DEF LifecycleInv
<1> QED BY <1>1, LifecycleInvariant, PTL

(* When Run has returned, for whatever reason, the gRPC server it started  *)
(* is down and has no RPC left (sugaar.go:336-337).                        *)
THEOREM GRPCEndsWithRun == Spec => []GRPCNeverOutlivesRun
<1>1. LifecycleInv => GRPCNeverOutlivesRun
  BY DEF LifecycleInv, GRPCInv, GRPCNeverOutlivesRun
<1> QED BY <1>1, LifecycleInvariant, PTL

(* A Run that returns nil, its gRPC server not stopped by the application, *)
(* was asked to stop and cut no RPC short, nor a request that net/http had *)
(* in its care (README.md:89): one hijacked for a WebSocket it has not.    *)
THEOREM NilIsGraceful == Spec => []NilMeansDrained
<1>1. LifecycleInv => NilMeansDrained
  BY DEF LifecycleInv, GRPCInv, ResultInv, Drained, NilMeansDrained, StoppedByApp
<1> QED BY <1>1, LifecycleInvariant, PTL

(* Run cuts RPCs only once the context is done and the HTTP side is, or    *)
(* when Run ends on a failure (grpc.go:74-79).                             *)
THEOREM RPCsAreCutLast == Spec => RPCsCutLast
<1> DEFINE Cut == run' # run /\ rpcs' < rpcs
           Due == ctxDone /\ (http = "done" \/ result = "err")
<1>1. LifecycleInv /\ [Next]_vars => [Cut => Due]_vars
  <2> SUFFICES ASSUME LifecycleInv, Next, Cut PROVE Due
    OBVIOUS
  <2>1. rpcs \in Nat /\ (gsrv = "stopped" => rpcs = 0)
    BY DEF LifecycleInv, TypeOK, GRPCInv, GRPCDown
  <2>2. CASE StopNow
    BY <2>1, <2>2
    DEF StopNow, LifecycleInv, ResultInv, StoppedByApp, Drained
  <2>3. CASE UNCHANGED rpcs
    BY <2>1, <2>3
  <2>4. CASE UNCHANGED run
    BY <2>4
  <2>5. World => UNCHANGED run
    BY DEF World, Cancel, BeginRequest, EndRequest, ListenerFails, ServeFails,
           Hijack, EndStream, BeginRPC, EndRPC, AppStop, AppGracefulStop, runVars
  <2>6. RunGoroutine => StopNow \/ UNCHANGED rpcs
    BY DEF RunGoroutine, RunGRPC, SpawnHTTP, SelectCtx, ReceiveHTTP, SelectGRPC,
           StopGRPC, Stopped
  <2>7. HTTPGoroutine \/ GracefulDone \/ DeadlinePasses \/ Terminating
          => UNCHANGED rpcs
    BY DEF HTTPGoroutine, StartHTTP, HTTPCtxDone, HTTPFailed, ShutdownReturns,
           GracefulDone, DeadlinePasses, Terminating, vars
  <2> QED BY <2>2, <2>3, <2>4, <2>5, <2>6, <2>7 DEF Next
<1> QED BY <1>1, LifecycleInvariant, PTL DEF Spec, RPCsCutLast
=============================================================================
