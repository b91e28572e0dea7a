----------------------------- MODULE MCPipeline -----------------------------
(* Two requests over configurations that put each middleware, app-wide or   *)
(* on the route, inside and outside of those it could disturb, and each     *)
(* guard and each call of registration in one of them.                      *)
EXTENDS Pipeline, TLC

Accounts == [alice |-> {"admin", "editor"}, bob |-> {"editor"}]

-----------------------------------------------------------------------------
(* What requests present.                                                   *)

Secret(who) == [who |-> who, jwt |-> {}]

Wrong == Secret("nobody")

GoodClaims == [alg |-> "HMAC", signed |-> TRUE, exp |-> {60}, nbf |-> {0},
               iss |-> {"us"}, aud |-> {"api"}, sub |-> "carol",
               roles |-> [shape |-> "list", of |-> {"admin", NotAString}]]

Token(claims) == [who |-> "nobody", jwt |-> {claims}]

Nothing == [c \in Carriers |-> None]

Presents(carrier, value) == [Nothing EXCEPT ![carrier] = value]

MCCreds ==
  [nothing    |-> Nothing,
   alice      |-> Presents("bearer", Secret("alice")),
   bob        |-> Presents("bearer", Secret("bob")),
   wrong      |-> Presents("bearer", Wrong),
   password   |-> Presents("basic", Secret("alice")),
   key        |-> Presents("keyheader", Secret("bob")),
   querykey   |-> [Presents("keyquery", Secret("alice")) EXCEPT
                     !["keyheader"] = Wrong],
   twopeople  |-> [Presents("keyheader", Secret("bob")) EXCEPT
                     !["keyquery"] = Secret("alice")],
   both       |-> [Presents("keyquery", Secret("bob")) EXCEPT
                     !["bearer"] = Secret("alice")],
   half       |-> [Presents("keyquery", Wrong) EXCEPT
                     !["bearer"] = Secret("alice")],
   token      |-> Presents("bearer", Token(GoodClaims)),
   late       |-> Presents("bearer", Token([GoodClaims EXCEPT !.exp = {-4}])),
   expired    |-> Presents("bearer", Token([GoodClaims EXCEPT !.exp = {-5}])),
   early      |-> Presents("bearer", Token([GoodClaims EXCEPT !.nbf = {6}])),
   forged     |-> Presents("bearer", Token([GoodClaims EXCEPT !.signed = FALSE])),
   rsa        |-> Presents("bearer", Token([GoodClaims EXCEPT !.alg = "RSA"])),
   otheraud   |-> Presents("bearer", Token([GoodClaims EXCEPT !.aud = {"web"}])),
   noroles    |-> Presents("bearer", Token([GoodClaims EXCEPT
                                      !.roles = [shape |-> "number", of |-> {}]])),
   cookie     |-> Presents("cookie", Token(GoodClaims))]

-----------------------------------------------------------------------------
(* What the program configures and registers.                               *)

Alternatives(as) == [mode |-> "any", of |-> as, fail |-> 401]

Factors(as) == [Alternatives(as) EXCEPT !.mode = "all"]

Bearer == [kind |-> "bearer"]

Key(header, query) == [kind |-> "apikey", header |-> header, query |-> query]

SignedToken(from) ==
  [kind |-> "jwt", alg |-> "HMAC", from |-> from, leeway |-> 5,
   iss |-> {}, aud |-> {"api"}, sub |-> {}]

UseCall(mws) == [op |-> "use", mws |-> mws]
GroupCall(g, p, mws) ==
  [op |-> "group", group |-> g, parent |-> p, mws |-> mws]
GroupUseCall(g, mws) == [op |-> "groupuse", group |-> g, mws |-> mws]
HandleCall(g, r) == [op |-> "handle", group |-> g, route |-> r]
Pprof(auth) == [op |-> "pprof", auth |-> auth]

(* App.Use(app...), a group with the middleware of the route, a route.      *)
Plain(app, route) ==
  [script  |-> <<Pprof(FALSE), UseCall(app), GroupCall("api", TopLevel, route),
                 HandleCall("api", "route")>>,
   auth    |-> Alternatives(<<Bearer>>), pprof |-> Alternatives(<<Bearer>>),
   roles   |-> [all |-> TRUE, roles |-> {"admin", "editor"}],
   limited |-> TRUE]

MCScenarios ==
  [inner |-> Plain(<<"requestid", "cors", "auth">>, <<"authorize", "gzip">>),
   outer |-> Plain(<<"gzip", "auth", "timeout">>, <<"authorize">>),
   timed |-> Plain(<<"cors">>, <<"timeout", "gzip", "auth">>),
   basic |-> Plain(<<"timeout", "basicauth", "gzip">>, << >>),
   (* Nested groups, middleware before and after what it should guard.     *)
   groups |->
     [Plain(<< >>, << >>) EXCEPT
        !.script = <<Pprof(TRUE), GroupCall("api", TopLevel, <<"auth">>),
                     HandleCall(TopLevel, "open"),
                     GroupCall("staff", "api", << >>),
                     GroupCall("admin", "staff", <<"authorize">>),
                     GroupUseCall("api", <<"basicauth">>),
                     HandleCall("admin", "route"),
                     GroupUseCall("admin", <<"gzip">>),
                     UseCall(<<"cors", "timeout">>)>>,
        !.pprof = [Factors(<<Bearer, Key(FALSE, TRUE)>>) EXCEPT !.fail = 401],
        !.roles = [all |-> FALSE, roles |-> {"admin", "owner"}]],
   keys |->
     [Plain(<<"auth">>, <<"authorize">>) EXCEPT
        !.auth = Alternatives(<<Key(FALSE, FALSE), Key(FALSE, TRUE), SignedToken("cookie")>>),
        !.roles = [all |-> FALSE, roles |-> {"admin", "owner"}]],
   factors |->
     [Plain(<<"auth">>, <<"authorize">>) EXCEPT
        !.auth = [Factors(<<Key(TRUE, TRUE), Bearer>>) EXCEPT !.fail = Nil]],
   tokens |->
     [Plain(<<"auth">>, <<"authorize">>) EXCEPT
        !.auth = Alternatives(<<Bearer, SignedToken("bearer")>>),
        !.roles = [all |-> TRUE, roles |-> {"admin"}]],
   nofactors |->
     [Plain(<<"auth">>, <<"authorize">>) EXCEPT !.auth = Factors(<< >>)],
   binding |-> [Plain(<<"timeout">>, << >>) EXCEPT !.limited = TRUE],
   unlimited |-> [Plain(<< >>, << >>) EXCEPT !.limited = FALSE]]

-----------------------------------------------------------------------------
(* What requests ask for.                                                   *)

Ask == [method |-> "GET", cred |-> "alice", gzip |-> TRUE, target |-> "route",
        remote |-> "elsewhere", binds |-> "nothing", body |-> "good",
        writes |-> "body", ends |-> "nil"]

(* Requests that go through, that are refused, that are not routed, and     *)
(* that end in every way a handler can.                                     *)
Common ==
  {Ask,
   [Ask EXCEPT !.gzip = FALSE],
   [Ask EXCEPT !.cred = "wrong"],
   [Ask EXCEPT !.cred = "bob"],
   [Ask EXCEPT !.method = "OPTIONS", !.target = "none"],
   [Ask EXCEPT !.writes = "nothing"],
   [Ask EXCEPT !.writes = "nothing", !.ends = "fail"],
   [Ask EXCEPT !.writes = "nothing", !.ends = "panic"],
   [Ask EXCEPT !.writes = "header", !.ends = "plain"],
   [Ask EXCEPT !.writes = "file", !.ends = "fail"],
   [Ask EXCEPT !.writes = "events"],
   [Ask EXCEPT !.target = "static"],
   [Ask EXCEPT !.target = "pprof"],
   [Ask EXCEPT !.target = "pprof", !.remote = "loopback"]}

With(creds) == {[Ask EXCEPT !.gzip = FALSE, !.cred = k] : k \in creds}

Binding ==
  {[Ask EXCEPT !.method = "POST", !.binds = b, !.body = v] :
     b \in {"json", "form", "query"}, v \in {"malformed", "field", "large"}}

MCInputs ==
  [s \in DOMAIN MCScenarios |->
     CASE s = "basic" -> {[i EXCEPT !.cred = IF @ = "alice" THEN "password"
                                             ELSE @] : i \in Common}
       [] s = "groups" -> With({"nothing", "alice", "bob"})
            \cup {[Ask EXCEPT !.target = "open", !.cred = "nothing"],
                  [Ask EXCEPT !.method = "OPTIONS"]}
            \cup {[Ask EXCEPT !.target = "pprof", !.cred = k] :
                    k \in {"alice", "half", "both"}}
       [] s = "keys" -> With({"nothing", "key", "querykey", "twopeople", "half",
                              "cookie"})
       [] s = "factors" -> With({"nothing", "alice", "key", "both", "half"})
       [] s = "tokens" -> With({"alice", "token", "late", "expired", "early",
                                "forged", "rsa", "otheraud", "noroles"})
       [] s = "nofactors" -> With({"nothing", "alice"})
       [] s \in {"binding", "unlimited"} -> Binding
       [] OTHER -> Common]

LoseIdentity ==
  [lost |-> Plain(<<"auth", "timeout">>, << >>)]

LoseInputs == [lost |-> Common]

Symmetry == Permutations(Requests) \cup Permutations(Contexts)
=============================================================================
