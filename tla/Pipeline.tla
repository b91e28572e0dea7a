------------------------------ MODULE Pipeline ------------------------------
(***************************************************************************)
(* Requests on their way through App.ServeHTTP (sugaar.go), the middleware *)
(* chain (middleware.go, auth.go), the mux and a route's handler, and back *)
(* out again.                                                              *)
(*                                                                         *)
(* Requests are served by goroutines of their own.  What they share is the *)
(* pool of Contexts and reqCtxMap, through which Handle finds on the far   *)
(* side of the mux the Context that ServeHTTP made.  A goroutine is at one *)
(* layer of the chain, on its way down to the handler or up with a result. *)
(* The chain is the one that the program registered (Routes); what its     *)
(* guards make of a request's credentials is in Access.                    *)
(* What matters of a response is its status, the pieces of its body, and   *)
(* the three writers a Context may write to: the connection, the           *)
(* statusWriter of requestLog around it, and the gzipWriter around that.   *)
(***************************************************************************)
EXTENDS Access, Routes, FiniteSets

CONSTANTS
  Requests,   (* the requests                                               *)
  Contexts,   (* Context objects: sync.Pool makes as many as are needed     *)
  Scenarios,  (* what the program registers and configures, under a name    *)
  Creds,      (* what requests present, under a name                        *)
  Inputs      (* per scenario: what requests ask for, and their handlers do *)

Layers == {"recover", "log", "requestid", "cors", "timeout", "auth",
           "basicauth", "authorize", "gzip", "pprofauth", "mux", "handler"}

(* A request, and what its handler does: it binds something first, and     *)
(* fails if that fails; writes; and ends.  A body is small and of the      *)
(* expected form, or malformed, or has a field that cannot be decoded, or  *)
(* is larger than MaxBodyBytes.                                            *)
Input == [method : {"GET", "POST", "OPTIONS"}, cred : DOMAIN Creds, gzip : BOOLEAN,
          target : {"route", "open", "pprof", "static", "none"},
          remote : {"loopback", "unix", "elsewhere", "unknown"},
          binds : {"nothing", "json", "form", "query"},
          body : {"good", "malformed", "field", "large"},
          writes : {"nothing", "header", "body", "file", "events"},
          ends : {"nil", "fail", "plain", "panic"}]

(* What a HandlerFunc returns: nil, or the status of an error; or a panic.  *)
Nil == 0

Panic == 1

Status == {200, 204, 400, 401, 403, 404, 409, 413, 500, 504}

(* A second GZip on the way of a request would wrap the gzipWriter of the  *)
(* first in another; gz is one, and so a script names GZip once at most.   *)
GZips(call) ==
  IF call.op \in {"use", "group", "groupuse"}
  THEN {i \in DOMAIN call.mws : call.mws[i] = "gzip"} ELSE {}

OneGZip(script) ==
  \A j, k \in DOMAIN script :
    \A i \in GZips(script[j]), l \in GZips(script[k]) : j = k /\ i = l

(* The calls of registration, Auth's authenticator and what AuthOnFail     *)
(* makes of its failure, those of PprofAuth, the roles that Authorize asks *)
(* for, and whether MaxBodyBytes is set.                                   *)
Configuration ==
  [script : {s \in Seq(Registration) : WellFormed(s) /\ OneGZip(s)},
   auth : Configured(Status \cup {Nil}), pprof : Configured({401}),
   roles : [all : BOOLEAN, roles : SUBSET STRING], limited : BOOLEAN]

(* An Identity, or the nil one that an AllOf of nothing accepts with.      *)
Identity == [kind : {"identity"}, sub : STRING, roles : SUBSET STRING]
              \cup {NilIdentity}

ASSUME PipelineAssumption ==
  /\ None \notin Requests \cup Contexts \cup [of : Requests, id : Identity]
  /\ IsFiniteSet(Requests) /\ IsFiniteSet(Contexts)
  /\ Cardinality(Contexts) >= 2 * Cardinality(Requests)
  /\ DOMAIN Inputs = DOMAIN Scenarios
  /\ \A s \in DOMAIN Scenarios : Inputs[s] \subseteq Input
  /\ \A s \in DOMAIN Scenarios : Scenarios[s] \in Configuration
  /\ \A k \in DOMAIN Creds :      (* one Authorization header             *)
       /\ Creds[k] \in Presented
       /\ None \in {Creds[k]["basic"], Creds[k]["bearer"]}

VARIABLES
  scenario,  (* the name of the configuration; nothing changes it           *)
  made,      (* how many calls of registration the program has made         *)
  stack,     (* the chains that they made                                   *)
  input,     (* what the request is                                         *)
  dir,       (* new, down, up, forget, release or done                      *)
  at,        (* the layer of the chain; 0 is ServeHTTP around it            *)
  res,       (* what the layer below returned: Nil, a status, or Panic      *)
  pool,      (* contextPool                                                 *)
  reqCtxMap, (* the Context under the request's pointer, or None            *)
  base,      (* the Context that ServeHTTP and the app's layers use         *)
  inner,     (* the Context that Handle, the route's layers and the handler *)
             (* use                                                         *)
  ctx,       (* the fields of each Context                                  *)
  wire,      (* the response as the client receives it                      *)
  gz,        (* the gzipWriter: wrote, bypass, and what its zw holds        *)
  expired,   (* the deadline that Timeout set has passed                    *)
  log,       (* the statuses of the request's access log lines              *)
  crossed,   (* history: an error or a panic is there and GZip has returned *)
  late       (* history: Timeout failed a request that had been answered    *)

config == <<scenario, made, stack>>
pcVars == <<input, dir, at, res>>
ctxVars == <<pool, reqCtxMap, base, inner>>
netVars == <<wire, gz>>
histVars == <<crossed, late>>
vars == <<config, pcVars, ctxVars, ctx, netVars, expired, log, histVars>>

(* What the program has configured.                                        *)
Conf == Scenarios[scenario]

(* App.Use wraps the mux; the middleware of a route's groups and its       *)
(* handler come after.                                                     *)
Chain(q) ==
  LET target == input[q].target
  IN  IF target \in DOMAIN stack.routes
      THEN stack.app \o <<"mux">> \o stack.routes[target] \o <<"handler">>
      ELSE stack.app \o <<"mux">>

MuxAt == Len(stack.app) + 1

Layer(q) == IF at[q] = 0 THEN "serve" ELSE Chain(q)[at[q]]

Down(q, layer) == dir[q] = "down" /\ Layer(q) = layer

Up(q, layer) == dir[q] = "up" /\ Layer(q) = layer

(* The layer calls next, or returns r to the layer around it.              *)
Call(q) == at' = [at EXCEPT ![q] = @ + 1] /\ UNCHANGED <<input, dir, res>>

Return(q, r) ==
  /\ dir' = [dir EXCEPT ![q] = "up"]
  /\ at' = [at EXCEPT ![q] = @ - 1]
  /\ res' = [res EXCEPT ![q] = r]
  /\ UNCHANGED input

(* A Context as reset leaves it: the writer, the request (Timeout replaces *)
(* the pointer), the App, the store, the request ID, the status in sw.     *)
Direct(q) == [conn |-> q, sw |-> None, gz |-> FALSE]

Fresh(q) == [w |-> Direct(q), r |-> [of |-> q, derived |-> FALSE],
             app |-> q # None, identity |-> None, user |-> None,
             reqID |-> None, status |-> 0]

Clean == Fresh(None)

(* c of the frame that runs: Handle and all below it have their own.       *)
Ctx(q) == IF at[q] >= MuxAt THEN inner[q] ELSE base[q]

Init ==
  /\ scenario \in DOMAIN Scenarios
  /\ made = 0
  /\ stack = NewApp
  /\ input \in [Requests -> Inputs[scenario]]
  /\ dir = [q \in Requests |-> "new"]
  /\ at = [q \in Requests |-> 0]
  /\ res = [q \in Requests |-> Nil]
  /\ pool = Contexts
  /\ reqCtxMap = [q \in Requests |-> None]
  /\ base = [q \in Requests |-> None]
  /\ inner = [q \in Requests |-> None]
  /\ ctx = [c \in Contexts |-> Clean]
  /\ wire = [q \in Requests |-> [status |-> 0, body |-> << >>]]
  /\ gz = [q \in Requests |->
           [wrote |-> FALSE, bypass |-> FALSE, held |-> << >>]]
  /\ expired = [q \in Requests |-> FALSE]
  /\ log = [q \in Requests |-> << >>]
  /\ crossed = [q \in Requests |-> FALSE]
  /\ late = [q \in Requests |-> FALSE]

-----------------------------------------------------------------------------
(* Writing a response.                                                     *)

(* sw keeps the latest status it is given; gzipWriter gives it another 200 *)
(* before its first Write.                                                 *)
StatusSeen(w, code, body) ==
  IF w.gz /\ ~gz[w.conn].wrote /\ body # << >> THEN 200 ELSE code

(* c.w.WriteHeader(code), then c.w.Write(body) unless body is empty.  The  *)
(* first status is the one that is sent.  For a type that is not to be     *)
(* compressed gzipWriter steps aside, and remains so.                      *)
RespondAs(skip, c, code, body) ==
  LET w      == ctx[c].w
      sent   == wire[w.conn].status
      bypass == gz[w.conn].bypass \/ skip
      zipped == w.gz /\ ~bypass
  IN  /\ wire' = [wire EXCEPT ![w.conn] =
                    [status |-> IF sent = 0 THEN code ELSE sent,
                     body |-> IF zipped THEN @.body ELSE @.body \o body]]
      /\ gz' = IF ~w.gz THEN gz
               ELSE [gz EXCEPT ![w.conn] =
                       [wrote |-> @.wrote \/ body # << >>, bypass |-> bypass,
                        held |-> IF zipped THEN @.held \o body ELSE @.held]]
      /\ ctx' = IF w.sw = None THEN ctx
                ELSE [ctx EXCEPT ![w.sw].status = StatusSeen(w, code, body)]

Respond(c, code, body) == RespondAs(FALSE, c, code, body)

Piece(q, code) == <<[of |-> q, code |-> code]>>

(* opts.ErrorHandler, by default a JSON body with the status of the error. *)
ErrorHandler(q, c, code) == Respond(c, code, Piece(q, code))

-----------------------------------------------------------------------------
(* App.ServeHTTP.                                                          *)

(* The program registers before it serves.                                 *)
Setup ==
  /\ made < Len(Conf.script)
  /\ made' = made + 1
  /\ stack' = Register(stack, Conf.script[made'])
  /\ UNCHANGED <<scenario, pcVars, ctxVars, ctx, netVars, expired, log, histVars>>

(* A Context is taken from the pool, reset, and put in reqCtxMap.          *)
ServeHTTP(q) ==
  /\ made = Len(Conf.script)
  /\ dir[q] = "new"
  /\ dir' = [dir EXCEPT ![q] = "down"]
  /\ at' = [at EXCEPT ![q] = 1]
  /\ \E c \in pool :
       /\ pool' = pool \ {c}
       /\ ctx' = [ctx EXCEPT ![c] = Fresh(q)]
       /\ reqCtxMap' = [reqCtxMap EXCEPT ![q] = c]
       /\ base' = [base EXCEPT ![q] = c]
  /\ UNCHANGED <<config, input, res, inner, netVars, expired, log, histVars>>

(* a.chained has returned.  recover is its outermost layer, so there is no *)
(* panic any more.                                                         *)
ServeError(q) ==
  /\ Up(q, "serve")
  /\ dir' = [dir EXCEPT ![q] = "forget"]
  /\ IF res[q] = Nil THEN UNCHANGED <<netVars, ctx>>
     ELSE ErrorHandler(q, base[q], res[q])
  /\ UNCHANGED <<config, input, at, res, ctxVars, expired, log, histVars>>

(* The deferred function: first the entry of reqCtxMap, ...                *)
Forget(q) ==
  /\ dir[q] = "forget"
  /\ dir' = [dir EXCEPT ![q] = "release"]
  /\ reqCtxMap' = [reqCtxMap EXCEPT ![q] = None]
  /\ UNCHANGED <<config, input, at, res, pool, base, inner, ctx, netVars>>
  /\ UNCHANGED <<expired, log, histVars>>

(* Mutant of Release: the Context goes back with what the request left.    *)
ReleaseUnreset(q) ==
  /\ dir[q] = "release"
  /\ dir' = [dir EXCEPT ![q] = "done"]
  /\ pool' = pool \cup {base[q]}
  /\ base' = [base EXCEPT ![q] = None]
  /\ UNCHANGED <<config, input, at, res, reqCtxMap, inner, ctx, netVars>>
  /\ UNCHANGED <<expired, log, histVars>>

(* ... then the Context, reset.  ServeHTTP returns, and net/http sends 200 *)
(* if nothing was.                                                         *)
Release(q) ==
  /\ dir[q] = "release"
  /\ dir' = [dir EXCEPT ![q] = "done"]
  /\ ctx' = [ctx EXCEPT ![base[q]] = Clean]
  /\ pool' = pool \cup {base[q]}
  /\ base' = [base EXCEPT ![q] = None]
  /\ wire' = [wire EXCEPT ![q].status = IF @ = 0 THEN 200 ELSE @]
  /\ UNCHANGED <<config, input, at, res, reqCtxMap, inner, gz, expired, log>>
  /\ UNCHANGED histVars

-----------------------------------------------------------------------------
(* The layers on the way down.                                             *)

Recover(q) ==
  /\ Down(q, "recover")
  /\ Call(q)
  /\ UNCHANGED <<config, ctxVars, ctx, netVars, expired, log, histVars>>

(* requestLog puts the Context's own sw around its writer.                 *)
RequestLog(q) ==
  /\ Down(q, "log")
  /\ ctx' = [ctx EXCEPT ![Ctx(q)].w.sw = Ctx(q), ![Ctx(q)].status = 0]
  /\ Call(q)
  /\ UNCHANGED <<config, ctxVars, netVars, expired, log, histVars>>

RequestID(q) ==
  /\ Down(q, "requestid")
  /\ ctx' = [ctx EXCEPT ![Ctx(q)].reqID = q]
  /\ Call(q)
  /\ UNCHANGED <<config, ctxVars, netVars, expired, log, histVars>>

(* A preflight is answered here, and goes no further.                      *)
CORS(q) ==
  /\ Down(q, "cors")
  /\ \/ /\ input[q].method = "OPTIONS"
        /\ Respond(Ctx(q), 204, << >>)
        /\ Return(q, Nil)
     \/ /\ input[q].method # "OPTIONS"
        /\ Call(q)
        /\ UNCHANGED <<ctx, netVars>>
  /\ UNCHANGED <<config, ctxVars, expired, log, histVars>>

(* The request is replaced by one with a deadline.                         *)
Timeout(q) ==
  /\ Down(q, "timeout")
  /\ ctx' = [ctx EXCEPT ![Ctx(q)].r.derived = TRUE]
  /\ Call(q)
  /\ UNCHANGED <<config, ctxVars, netVars, expired, log, histVars>>

(* Auth: the Identity is kept; or else 401, or what AuthOnFail returns.    *)
Auth(q, layer, a) ==
  LET id == Authenticate(a, Creds[input[q].cred])
  IN  /\ Down(q, layer)
      /\ \/ /\ id = Refused
            /\ Return(q, a.fail)
            /\ UNCHANGED ctx
         \/ /\ id # Refused
            /\ ctx' = [ctx EXCEPT ![Ctx(q)].identity = [of |-> q, id |-> id]]
            /\ Call(q)
      /\ UNCHANGED <<config, ctxVars, netVars, expired, log, histVars>>

(* BasicAuth keeps the name of the user, not an Identity.                  *)
BasicAuth(q) ==
  LET known == Verify(Creds[input[q].cred]["basic"]) # Refused
  IN  /\ Down(q, "basicauth")
      /\ \/ ~known /\ Return(q, 401) /\ UNCHANGED ctx
         \/ known /\ ctx' = [ctx EXCEPT ![Ctx(q)].user = q] /\ Call(q)
      /\ UNCHANGED <<config, ctxVars, netVars, expired, log, histVars>>

(* Authorize: 401 without an Identity, else what the authorizer says.      *)
Authorize(q) ==
  LET held   == ctx[Ctx(q)].identity
      answer == IF held = None THEN 401 ELSE RoleCheck(Conf.roles, held.id)
  IN  /\ Down(q, "authorize")
      /\ \/ answer # Nil /\ Return(q, answer)
         \/ answer = Nil /\ Call(q)
      /\ UNCHANGED <<config, ctxVars, ctx, netVars, expired, log, histVars>>

(* GZip wraps the writer if the client accepts it, and never unwraps it.   *)
GZip(q) ==
  /\ Down(q, "gzip")
  /\ ctx' = IF input[q].gzip THEN [ctx EXCEPT ![Ctx(q)].w.gz = TRUE] ELSE ctx
  /\ Call(q)
  /\ UNCHANGED <<config, ctxVars, netVars, expired, log, histVars>>

(* isLoopback; a Unix socket has an empty address.                         *)
IsLoopback(remote) == remote \in {"loopback", "unix"}

(* What the mux answers without a Context: a file of App.Static, pprof     *)
(* without PprofAuth, which is for loopback callers, and no route at all.  *)
(* None of this is an error.                                               *)
MuxAnswers(q) ==
  LET target == input[q].target
      code   == CASE target = "static" -> 200
                  [] target = "pprof" /\ IsLoopback(input[q].remote) -> 200
                  [] target = "pprof" /\ ~IsLoopback(input[q].remote) -> 403
                  [] OTHER -> 404
  IN  /\ Down(q, "mux")
      /\ target \notin DOMAIN stack.routes
      /\ Respond(base[q], code, Piece(q, code))
      /\ Return(q, Nil)
      /\ UNCHANGED <<config, ctxVars, expired, log, histVars>>

(* Mutant of Handle: any entry of the map will do.                         *)
HandleTakesAny(q) ==
  /\ Down(q, "mux")
  /\ input[q].target \in DOMAIN stack.routes
  /\ \E k \in Requests :
       /\ reqCtxMap[k] # None
       /\ inner' = [inner EXCEPT ![q] = reqCtxMap[k]]
  /\ Call(q)
  /\ UNCHANGED <<config, pool, reqCtxMap, base, ctx, netVars, expired, log>>
  /\ UNCHANGED histVars

(* App.Handle, and adapt, which pprof goes through: the Context under the  *)
(* request's pointer, or a new one for a pointer that is not in the map.   *)
(* The writer is the one the mux was given, so that w is unchanged in the  *)
(* first case and handed on in the second.                                 *)
Handle(q) ==
  /\ Down(q, "mux")
  /\ input[q].target \in DOMAIN stack.routes
  /\ LET r == ctx[base[q]].r
     IN  \/ /\ ~r.derived
            /\ inner' = [inner EXCEPT ![q] = reqCtxMap[r.of]]
            /\ UNCHANGED <<ctx, pool>>
         \/ /\ r.derived
            /\ \E c \in pool :
                 /\ inner' = [inner EXCEPT ![q] = c]
                 /\ pool' = pool \ {c}
                 /\ ctx' = [ctx EXCEPT ![c] =
                      [Fresh(q) EXCEPT !.w = ctx[base[q]].w, !.r = r]]
  /\ Call(q)
  /\ UNCHANGED <<config, reqCtxMap, base, netVars, expired, log, histVars>>

(* decodeValues: an error without a status for the first field that cannot *)
(* be decoded.                                                             *)
DecodeValues(body) == IF body = "field" THEN 500 ELSE Nil

(* BindJSON: 413 for a body beyond MaxBodyBytes, 400 for one that is       *)
(* malformed or has a field that cannot be decoded.                        *)
BindJSON(body, capped) ==
  CASE body = "large" /\ capped -> 413
    [] body \in {"malformed", "field"} -> 400
    [] OTHER -> Nil

(* BindForm: the same, but for the field.                                  *)
BindForm(body, capped) ==
  CASE body = "large" /\ capped -> 413
    [] body = "malformed" -> 400
    [] OTHER -> DecodeValues(body)

Bind(does, capped) ==
  CASE does.binds = "json"  -> BindJSON(does.body, capped)
    [] does.binds = "form"  -> BindForm(does.body, capped)
    [] does.binds = "query" -> DecodeValues(does.body)
    [] OTHER -> Nil

(* The body that JSON, String, HTML, Stream, File and SSETopic write;      *)
(* Status and NoContent write none.                                        *)
Written(q, kind) == IF kind = "header" THEN << >> ELSE Piece(q, 200)

Ending == [nil |-> Nil, fail |-> 409, plain |-> 500, panic |-> Panic]

(* The handler binds, writes, and ends: with nil, with an error that names *)
(* a status or with one that does not, or in a panic.  For a stream of     *)
(* events it needs a Flusher, which gzipWriter is not.                     *)
Handler(q) ==
  LET does  == input[q]
      bound == Bind(does, ctx[Ctx(q)].app /\ Conf.limited)
      stuck == does.writes = "events" /\ ctx[Ctx(q)].w.gz
  IN  /\ Down(q, "handler")
      /\ IF bound # Nil \/ stuck \/ does.writes = "nothing"
         THEN UNCHANGED <<ctx, netVars>>
         ELSE RespondAs(does.writes \in {"file", "events"}, Ctx(q), 200,
                        Written(q, does.writes))
      /\ Return(q, IF bound # Nil THEN bound ELSE IF stuck THEN 500
                   ELSE Ending[does.ends])
      /\ UNCHANGED <<config, ctxVars, expired, log, histVars>>

-----------------------------------------------------------------------------
(* The layers on the way up.                                               *)

(* Layers that return what they were returned.                             *)
PassUp(q) ==
  /\ dir[q] = "up"
  /\ Layer(q) \in {"requestid", "cors", "auth", "pprofauth", "basicauth",
                   "authorize"}
  /\ Return(q, res[q])
  /\ UNCHANGED <<config, ctxVars, ctx, netVars, expired, log, histVars>>

(* The deferred Close writes out what the gzip.Writer holds.               *)
GZipReturns(q) ==
  /\ Up(q, "gzip")
  /\ wire' = [wire EXCEPT ![q].body = @ \o gz[q].held]
  /\ gz' = [gz EXCEPT ![q].held = << >>]
  /\ crossed' = [crossed EXCEPT ![q] =
                   @ \/ (input[q].gzip /\ res[q] # Nil)]
  /\ Return(q, res[q])
  /\ UNCHANGED <<config, ctxVars, ctx, expired, log, late>>

(* The timer fires while the layers below Timeout run.                     *)
DeadlinePasses(q) ==
  /\ dir[q] \in {"down", "up"}
  /\ \E k \in 1 .. at[q] : Chain(q)[k] = "timeout"
  /\ ~expired[q]
  /\ expired' = [expired EXCEPT ![q] = TRUE]
  /\ UNCHANGED <<config, pcVars, ctxVars, ctx, netVars, log, histVars>>

(* Timeout looks at the deadline, not at the response.                     *)
TimeoutReturns(q) ==
  /\ Up(q, "timeout")
  /\ LET fails == expired[q] /\ res[q] # Panic
     IN  /\ Return(q, IF fails THEN 504 ELSE res[q])
         /\ late' = [late EXCEPT ![q] = @ \/ (fails /\ wire[q].status # 0)]
         /\ crossed' = [crossed EXCEPT ![q] =
              @ \/ (/\ fails /\ ctx[Ctx(q)].w.gz
                    /\ \E k \in at[q] .. Len(Chain(q)) : Chain(q)[k] = "gzip")]
  /\ UNCHANGED <<config, ctxVars, ctx, netVars, expired, log>>

(* Mutant of HandleError: the error is answered and returned as well.      *)
HandleErrorBubbles(q) ==
  /\ Up(q, "mux")
  /\ res[q] \notin {Nil, Panic}
  /\ ErrorHandler(q, inner[q], res[q])
  /\ inner' = [inner EXCEPT ![q] = None]
  /\ Return(q, res[q])
  /\ UNCHANGED <<config, pool, reqCtxMap, base, expired, log, histVars>>

(* Handle answers an error of its route itself.                            *)
HandleError(q) ==
  /\ Up(q, "mux")
  /\ res[q] \notin {Nil, Panic}
  /\ ErrorHandler(q, inner[q], res[q])
  /\ res' = [res EXCEPT ![q] = Nil]
  /\ UNCHANGED <<config, input, dir, at, ctxVars, expired, log, histVars>>

(* A Context that Handle took itself goes back, after a panic too.         *)
HandleReturns(q) ==
  LET own == inner[q] # base[q]
  IN  /\ Up(q, "mux")
      /\ res[q] \in {Nil, Panic}
      /\ inner' = [inner EXCEPT ![q] = None]
      /\ pool' = IF own THEN pool \cup {inner[q]} ELSE pool
      /\ ctx' = IF own THEN [ctx EXCEPT ![inner[q]] = Clean] ELSE ctx
      /\ Return(q, res[q])
      /\ UNCHANGED <<config, reqCtxMap, base, netVars, expired, log, histVars>>

(* Mutant of RequestLogReturns: the line is written again if next failed.  *)
RequestLogTwice(q) ==
  /\ Up(q, "log")
  /\ LET line == <<ctx[base[q]].status>>
     IN  log' = [log EXCEPT ![q] = IF res[q] = Nil THEN @ \o line
                                   ELSE @ \o line \o line]
  /\ Return(q, res[q])
  /\ UNCHANGED <<config, ctxVars, ctx, netVars, expired, histVars>>

(* The line is not written by a deferred function: a panic skips it.       *)
RequestLogReturns(q) ==
  /\ Up(q, "log")
  /\ log' = IF res[q] = Panic THEN log
            ELSE [log EXCEPT ![q] = Append(@, ctx[base[q]].status)]
  /\ Return(q, res[q])
  /\ UNCHANGED <<config, ctxVars, ctx, netVars, expired, histVars>>

(* Mutant of RecoverReturns: the panic goes on.                            *)
RecoverRethrows(q) ==
  /\ Up(q, "recover")
  /\ Return(q, res[q])
  /\ UNCHANGED <<config, ctxVars, ctx, netVars, expired, log, histVars>>

(* A panic becomes an error.                                               *)
RecoverReturns(q) ==
  /\ Up(q, "recover")
  /\ Return(q, IF res[q] = Panic THEN 500 ELSE res[q])
  /\ UNCHANGED <<config, ctxVars, ctx, netVars, expired, log, histVars>>

-----------------------------------------------------------------------------

Terminating == (\A q \in Requests : dir[q] = "done") /\ UNCHANGED vars

Goroutine(q) ==
  \/ ServeHTTP(q) \/ ServeError(q) \/ Forget(q) \/ Release(q)
  \/ Recover(q) \/ RequestLog(q) \/ RequestID(q) \/ CORS(q) \/ Timeout(q)
  \/ Auth(q, "auth", Conf.auth) \/ Auth(q, "pprofauth", Conf.pprof)
  \/ BasicAuth(q) \/ Authorize(q) \/ GZip(q)
  \/ MuxAnswers(q) \/ Handle(q) \/ Handler(q)
  \/ PassUp(q) \/ GZipReturns(q) \/ TimeoutReturns(q)
  \/ HandleError(q) \/ HandleReturns(q)
  \/ RequestLogReturns(q) \/ RecoverReturns(q)

Next ==
  \/ Setup
  \/ \E q \in Requests : Goroutine(q) \/ DeadlinePasses(q)
  \/ Terminating

Spec == Init /\ [][Next]_vars

-----------------------------------------------------------------------------
(* Properties.                                                             *)

Pieces == Seq([of : Requests, code : Status])

Holder == Requests \cup {None}

Context == [w : [conn : Holder, sw : Contexts \cup {None}, gz : BOOLEAN],
            r : [of : Holder, derived : BOOLEAN],
            app : BOOLEAN,
            identity : {None} \cup [of : Requests, id : Identity],
            user : Holder, reqID : Holder,
            status : Status \cup {0}]

(* The type invariant.                                                     *)
TypeOK ==
  /\ scenario \in DOMAIN Scenarios
  /\ made \in 0 .. Len(Conf.script)
  /\ stack.app \in Seq(Layers)
  /\ \A route \in DOMAIN stack.routes : stack.routes[route] \in Seq(Layers)
  /\ input \in [Requests -> Inputs[scenario]]
  /\ dir \in [Requests -> {"new", "down", "up", "forget", "release", "done"}]
  /\ \A q \in Requests : at[q] \in 0 .. Len(Chain(q))
  /\ res \in [Requests -> Status \cup {Nil, Panic}]
  /\ pool \subseteq Contexts
  /\ reqCtxMap \in [Requests -> Contexts \cup {None}]
  /\ base \in [Requests -> Contexts \cup {None}]
  /\ inner \in [Requests -> Contexts \cup {None}]
  /\ ctx \in [Contexts -> Context]
  /\ wire \in [Requests -> [status : Status \cup {0}, body : Pieces]]
  /\ gz \in [Requests -> [wrote : BOOLEAN, bypass : BOOLEAN, held : Pieces]]
  /\ expired \in [Requests -> BOOLEAN]
  /\ log \in [Requests -> Seq(Status \cup {0})]
  /\ crossed \in [Requests -> BOOLEAN]
  /\ late \in [Requests -> BOOLEAN]

Using(q) == {base[q], inner[q]} \ {None}

(* context.go:22-24, sugaar.go:194: a Context belongs to one request or to *)
(* the pool and none is lost, a Context in the pool holds nothing of an    *)
(* earlier request, and reqCtxMap knows a request exactly while its        *)
(* goroutine may look for it, under the Context made for it.               *)
ContextsExclusive ==
  /\ \A q, k \in Requests : q # k => Using(q) \cap Using(k) = {}
  /\ \A q \in Requests : Using(q) \cap pool = {}
  /\ pool \cup UNION {Using(q) : q \in Requests} = Contexts
  /\ \A c \in pool : ctx[c] = Clean
  /\ \A q \in Requests :
       reqCtxMap[q] = IF dir[q] \in {"down", "up", "forget"} THEN base[q]
                      ELSE None

(* What a request's Contexts hold, and what its client receives, is its    *)
(* own: no identity, request ID, writer or piece of a response is another  *)
(* request's, however the goroutines interleave.                           *)
NoCrossTalk ==
  \A q \in Requests :
    /\ \A c \in Using(q) : /\ ctx[c].w.conn = q /\ ctx[c].r.of = q
                            /\ ctx[c].w.sw \in Using(q) \cup {None}
                            /\ {ctx[c].user, ctx[c].reqID} \subseteq {q, None}
                            /\ ctx[c].identity # None =>
                                 ctx[c].identity.of = q
    /\ \A k \in DOMAIN wire[q].body : wire[q].body[k].of = q

Above(q, layer) == \E k \in 1 .. at[q] - 1 : Chain(q)[k] = layer

(* What an authenticator is documented to require (auth_builtin.go:88-110): *)
(* one of the alternatives, or every factor.                               *)
Satisfies(a, cred) ==
  IF a.mode = "any" THEN \E k \in DOMAIN a.of : Single(a.of[k], cred) # Refused
  ELSE \A k \in DOMAIN a.of : Single(a.of[k], cred) # Refused

(* The Identity it is documented to return, if any: that of the first      *)
(* alternative that accepts the request, or that of the last factor.       *)
DocumentedIdentity(a, cred) ==
  LET accepts(k) == Single(a.of[k], cred) # Refused
      returned   == IF a.mode = "any"
                    THEN {k \in DOMAIN a.of : accepts(k) /\ \A j \in 1 .. k - 1 : ~accepts(j)}
                    ELSE {k \in DOMAIN a.of : k = Len(a.of) /\ \A j \in 1 .. k : accepts(j)}
  IN  {Single(a.of[k], cred) : k \in returned}

HasRoles(required, id) ==
  IF required.all THEN \A r \in required.roles : r \in id.roles
  ELSE \E r \in required.roles : r \in id.roles

(* group.go:6-7 and 33, auth.go:119-120, profile.go:12-15: the handler runs *)
(* only for a request that satisfies every guard that was registered for   *)
(* its route, in whatever order and by whatever calls; roles are those of  *)
(* the Identity that is documented to be returned; an Identity that got    *)
(* lost on the way, or is nil, fails closed.                               *)
HandlerGuarded ==
  \A q \in Requests : Layer(q) = "handler" =>
    LET guarded(layer) == Guards(Conf.script, input[q].target, layer)
        cred           == Creds[input[q].cred]
    IN  /\ guarded("auth") => Satisfies(Conf.auth, cred)
        /\ guarded("pprofauth") => Satisfies(Conf.pprof, cred)
        /\ guarded("basicauth") => Verify(cred["basic"]) # Refused
        /\ guarded("authorize") =>
             /\ guarded("auth") \/ guarded("pprofauth")
             /\ \E id \in DocumentedIdentity(Conf.auth, cred)
                        \cup DocumentedIdentity(Conf.pprof, cred) :
                  HasRoles(Conf.roles, id)
        /\ guarded("cors") => input[q].method # "OPTIONS"

(* A second answer follows the first: the handler answers and then fails,  *)
(* or Timeout finds that the deadline has passed when all is answered.     *)
AnswersTwice(q) ==
  late[q] \/ (input[q].writes # "nothing" /\ input[q].ends # "nil")

(* Otherwise the client gets one answer, whose body and status agree, also *)
(* when it comes from a middleware, the mux, the ErrorHandler or a panic;  *)
(* and none of it is kept back by GZip, unless it answers an error after   *)
(* GZip has returned and closed the gzip.Writer.                           *)
OneAnswer ==
  \A q \in Requests : dir[q] = "done" =>
    /\ ~AnswersTwice(q) =>
         /\ Len(wire[q].body) <= 1
         /\ \A k \in DOMAIN wire[q].body :
              wire[q].body[k].code = wire[q].status
    /\ ~crossed[q] => gz[q].held = << >>

(* sugaar.go:243: a request leaves one line in the access log, unless it   *)
(* panics.  If the answer was there by then, the only one and not written  *)
(* through GZip, the line has the status that the client got.              *)
AccessLog ==
  \A q \in Requests : dir[q] = "done" =>
    \/ input[q].ends = "panic" /\ log[q] = << >>
    \/ /\ Len(log[q]) = 1
       /\ log[q][1] # 0 /\ ~gz[q].wrote /\ ~AnswersTwice(q) =>
            log[q][1] = wire[q].status

(* The status that layer k of its chain gives a request on which nothing   *)
(* but its own content decides, or Nil if the layer lets it pass.  An      *)
(* Identity is seen where Auth kept it, unless a Timeout of the App makes  *)
(* Handle take another Context (see IdentityReachesHandler).               *)
GuardSays(q, k) ==
  LET layer == Chain(q)[k]
      cred  == Creds[input[q].cred]
      sees  == \E j \in 1 .. k - 1 :
                 /\ Chain(q)[j] = "auth"
                 /\ k > MuxAt /\ "timeout" \in ToSet(stack.app) => j > MuxAt
  IN  CASE layer = "cors" /\ input[q].method = "OPTIONS" -> 204
        [] layer = "auth" /\ ~Satisfies(Conf.auth, cred) ->
             IF Conf.auth.fail = Nil THEN 200 ELSE Conf.auth.fail
        [] layer = "pprofauth" /\ ~Satisfies(Conf.pprof, cred) -> 401
        [] layer = "basicauth" /\ Verify(cred["basic"]) = Refused -> 401
        [] layer = "authorize" ->
             IF ~sees \/ Conf.auth.of = << >> THEN 401
             ELSE IF HasRoles(Conf.roles, Authenticate(Conf.auth, cred)) THEN Nil
             ELSE 403
        [] OTHER -> Nil

(* The status that the end of the chain gives it: the mux, or the handler, *)
(* whose first write counts.                                               *)
EndSays(q) ==
  LET does   == input[q]
      routed == does.target \in DOMAIN stack.routes
      bound  == Bind(does, Conf.limited)
  IN  IF ~routed
      THEN CASE does.target = "static" -> 200
             [] does.target = "pprof"  -> IF IsLoopback(does.remote) THEN 200 ELSE 403
             [] OTHER                  -> 404
      ELSE IF bound # Nil THEN bound
      ELSE IF does.writes # "nothing" \/ does.ends = "nil" THEN 200
      ELSE IF does.ends = "fail" THEN 409 ELSE 500

(* The status that the chain has in store for a request: that of the first *)
(* layer in the order of registration that refuses it, or else of its end. *)
Verdict(q) ==
  LET refusing == {k \in DOMAIN Chain(q) : GuardSays(q, k) # Nil}
  IN  IF refusing = {} THEN EndSays(q) ELSE GuardSays(q, Min(refusing))

(* middleware.go:178-180 says that GZip skips event streams.  It does not: *)
(* a handler behind it that streams events fails with 500.                 *)
StreamsZipped(q) ==
  input[q].writes = "events" /\ input[q].gzip /\ "gzip" \in ToSet(Chain(q))

(* sugaar.go:154-160: a request is answered as if it were alone: whatever  *)
(* others the server works on, it gets the status that its chain has in    *)
(* store for it, unless its deadline passed or it asks for a stream of     *)
(* events through GZip.                                                    *)
AnswersAsAlone ==
  \A q \in Requests :
    dir[q] = "done" /\ ~expired[q] /\ ~StreamsZipped(q) =>
      wire[q].status = Verdict(q)

(* auth.go:66-67: MustIdentity is safe inside handlers wrapped with Auth:  *)
(* there is an Identity on the Context.                                    *)
IdentityReachesHandler ==
  \A q \in Requests : Layer(q) = "handler" /\ dir[q] = "down"
                       /\ Above(q, "auth") => ctx[Ctx(q)].identity # None
=============================================================================
