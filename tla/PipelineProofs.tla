---------------------------- MODULE PipelineProofs -----------------------------
(***************************************************************************)
(* The request pipeline for any number of requests and Contexts, and every *)
(* configuration and script of registration: Contexts are exclusive and    *)
(* clean, nothing of one request reaches another, a handler runs only for  *)
(* a request that every guard of its route let pass, and what a request is *)
(* answered is single, logged truly, and what its chain has in store.      *)
(***************************************************************************)
EXTENDS Pipeline, SequenceTheorems, WellFoundedInduction, TLAPS

-----------------------------------------------------------------------------
(* What authenticators make of what is presented.                          *)

LEMMA MinOfNaturals ==
  ASSUME NEW S \in SUBSET Nat, S # {}
  PROVE  Min(S) \in S /\ \A m \in S : Min(S) <= m
<1> DEFINE R == OpToRel(<, Nat)
<1>1. PICK n \in S : \A m \in S : ~ (<<m, n>> \in R)
  BY NatLessThanWellFounded, WFMin
<1>2. \A m \in S : m < n => <<m, n>> \in R
  BY DEF OpToRel
<1>3. ASSUME NEW m \in S PROVE n <= m
  <2> HIDE DEF R
  <2>1. ~ (m < n)
    BY <1>1, <1>2
  <2>2. m \in Nat /\ n \in Nat
    OBVIOUS
  <2> QED BY <2>1, <2>2
<1> QED BY <1>3 DEF Min

(* What one authenticator can return: an Identity or a refusal.            *)
Outcome == [kind : {"identity"}, sub : STRING, roles : SUBSET STRING]
             \cup {Refused}

LEMMA VerifyType ==
  ASSUME AccessAssumption, NEW value \in Value \cup {None}
  PROVE  Verify(value) \in Outcome
BY DEF AccessAssumption, Verify, Accepted, Outcome, Value

LEMMA SingleType ==
  ASSUME AccessAssumption, NEW fails, NEW a \in Configured(fails),
         NEW k \in DOMAIN a.of, NEW cred \in Presented
  PROVE  Single(a.of[k], cred) \in Outcome
<1> DEFINE one == a.of[k]
<1>1. \A c \in Carriers : cred[c] \in Value \cup {None} /\ Verify(cred[c]) \in Outcome
  BY VerifyType DEF Presented
<1>2. \/ one.kind \in {"basic", "bearer"}
      \/ one.kind = "apikey"
      \/ one.kind = "jwt" /\ one.from \in Carriers
  BY DEF Configured
<1>3. Refused \in Outcome
  BY DEF Outcome
<1>4. CASE one.kind \in {"basic", "bearer"}
  BY <1>1, <1>4 DEF Single, Carriers
<1>5. CASE one.kind = "apikey"
  <2>1. Single(one, cred) = APIKey(one, cred)
    BY <1>5 DEF Single
  <2>2. APIKey(one, cred) \in {Verify(cred["keyheader"]), Verify(cred["keyquery"]),
                               Refused}
    BY DEF APIKey
  <2> QED BY <1>1, <1>3, <2>1, <2>2 DEF Carriers
<1>6. CASE one.kind = "jwt"
  <2> DEFINE tokens == IF cred[one.from] = None THEN {} ELSE cred[one.from].jwt
             claims == CHOOSE t \in tokens : TRUE
  <2>1. Single(one, cred) = JWT(one, cred)
    BY <1>6 DEF Single
  <2>2. tokens \subseteq Claims
    BY <1>1, <1>2, <1>6 DEF Value
  <2>3. CASE tokens = {}
    BY <1>3, <2>1, <2>3 DEF JWT
  <2>4. CASE tokens # {}
    <3>1. claims \in Claims
      BY <2>2, <2>4
    <3>2. claims.sub \in STRING /\ claims.roles.of \in SUBSET STRING
      BY <3>1 DEF Claims
    <3>3. ClaimsRoles(claims.roles) \in SUBSET STRING
      BY <3>2 DEF ClaimsRoles
    <3> DEFINE id == [kind |-> "identity", sub |-> claims.sub,
                      roles |-> ClaimsRoles(claims.roles)]
    <3>4. id \in Outcome
      BY <3>2, <3>3 DEF Outcome
    <3>5. JWT(one, cred) \in {id, Refused}
      BY DEF JWT
    <3> QED BY <1>3, <2>1, <3>4, <3>5
  <2> QED BY <2>3, <2>4
<1> QED BY <1>2, <1>4, <1>5, <1>6

(* An authenticator's verdict is an Identity or a refusal; it refuses what *)
(* does not satisfy the composition, and only that; and it accepts without *)
(* an Identity when it is composed of nothing, and only then.              *)
LEMMA AuthenticateSound ==
  ASSUME AccessAssumption, NEW fails, NEW a \in Configured(fails),
         NEW cred \in Presented
  PROVE  /\ Authenticate(a, cred) \in Identity \cup {Refused}
         /\ Authenticate(a, cred) # Refused <=> Satisfies(a, cred)
         /\ Authenticate(a, cred) # Refused =>
              (Authenticate(a, cred) = NilIdentity <=> a.of = << >>)
<1> DEFINE n == Len(a.of)
           outcomes == [k \in DOMAIN a.of |-> Single(a.of[k], cred)]
           successes == {k \in DOMAIN outcomes : outcomes[k] # Refused}
<1>1. \A k \in DOMAIN a.of : outcomes[k] \in Outcome
  BY SingleType
<1>2. /\ n \in Nat /\ DOMAIN a.of = 1 .. n /\ (a.of = << >> <=> n = 0)
      /\ a.mode \in {"any", "all"}
  <2>1. a.of \in Seq([kind : {"basic", "bearer"}]
            \cup [kind : {"apikey"}, header : BOOLEAN, query : BOOLEAN]
            \cup [kind : {"jwt"}, alg : STRING, from : Carriers, leeway : Int,
                  iss : SUBSET STRING, aud : SUBSET STRING, sub : SUBSET STRING])
        /\ a.mode \in {"any", "all"}
    BY DEF Configured
  <2> QED BY <2>1, LenProperties, EmptySeq
<1>3. /\ Outcome \subseteq Identity \cup {Refused} /\ NilIdentity \in Identity
      /\ NilIdentity \notin Outcome /\ NilIdentity # Refused
  BY DEF Outcome, Identity, NilIdentity, Refused
<1> HIDE DEF n
<1>4. /\ outcomes \in Seq(Outcome) /\ Len(outcomes) = n /\ DOMAIN outcomes = 1 .. n
      /\ (outcomes = << >> <=> n = 0)
  <2>1. DOMAIN outcomes = 1 .. n /\ outcomes \in [1 .. n -> Outcome]
    BY <1>1, <1>2
  <2> HIDE DEF outcomes
  <2> QED BY <1>2, <2>1, EmptySeq
<1>5. Satisfies(a, cred) <=> IF a.mode = "any" THEN \E k \in 1 .. n : outcomes[k] # Refused
                             ELSE \A k \in 1 .. n : outcomes[k] # Refused
  BY <1>2 DEF Satisfies
<1>6. Authenticate(a, cred) = IF a.mode = "any" THEN AnyOf(outcomes) ELSE AllOf(outcomes)
  BY DEF Authenticate
<1>7. \A k \in 1 .. n : outcomes[k] \in Outcome
  BY <1>1, <1>2
<1> HIDE DEF outcomes
<1>8. CASE a.mode = "any"
  <2>1. CASE successes = {}
    BY <1>3, <1>4, <1>5, <1>6, <1>8, <2>1 DEF AnyOf
  <2>2. CASE successes # {}
    <3>1. successes \in SUBSET Nat
      BY <1>2, <1>4
    <3> DEFINE first == Min(successes)
    <3>2. AnyOf(outcomes) = outcomes[first]
      BY <2>2 DEF AnyOf
    <3>3. first \in successes
      <4> HIDE DEF successes
      <4> QED BY <2>2, <3>1, MinOfNaturals
    <3> HIDE DEF first
    <3>4. first \in 1 .. n /\ outcomes[first] # Refused /\ n # 0
      BY <1>2, <1>4, <3>3
    <3> QED BY <1>2, <1>3, <1>5, <1>6, <1>7, <1>8, <3>2, <3>4
  <2> QED BY <2>1, <2>2
<1>9. CASE a.mode # "any"
  <2>1. CASE outcomes = << >>
    <3>1. AllOf(outcomes) = NilIdentity /\ n = 0 /\ 1 .. n = {}
      BY <1>4, <2>1 DEF AllOf
    <3> QED BY <1>2, <1>3, <1>5, <1>6, <1>9, <3>1
  <2>2. CASE \E k \in DOMAIN outcomes : outcomes[k] = Refused
    <3>1. AllOf(outcomes) = Refused
      BY <1>2, <1>4, <2>2 DEF AllOf
    <3> QED BY <1>4, <1>5, <1>6, <1>9, <2>2, <3>1
  <2>3. CASE outcomes # << >> /\ ~\E k \in DOMAIN outcomes : outcomes[k] = Refused
    <3>1. AllOf(outcomes) = outcomes[n]
      BY <1>4, <2>3 DEF AllOf
    <3>2. n \in 1 .. n /\ n # 0
      BY <1>2, <1>4, <2>3
    <3>3. outcomes[n] \in Outcome /\ outcomes[n] # Refused
      BY <1>4, <1>7, <2>3, <3>2
    <3> QED BY <1>2, <1>3, <1>4, <1>5, <1>6, <1>9, <2>3, <3>1, <3>2, <3>3
  <2> QED BY <2>1, <2>2, <2>3
<1> QED BY <1>8, <1>9

(* An Identity that a composition returns is the documented one.           *)
LEMMA ReturnsDocumented ==
  ASSUME AccessAssumption, NEW fails, NEW a \in Configured(fails),
         NEW cred \in Presented,
         Authenticate(a, cred) # Refused, Authenticate(a, cred) # NilIdentity
  PROVE  Authenticate(a, cred) \in DocumentedIdentity(a, cred)
<1> DEFINE n == Len(a.of)
           outcomes == [k \in DOMAIN a.of |-> Single(a.of[k], cred)]
           successes == {k \in DOMAIN outcomes : outcomes[k] # Refused}
<1>1. n \in Nat /\ DOMAIN a.of = 1 .. n
  <2>1. a.of \in Seq([kind : {"basic", "bearer"}]
            \cup [kind : {"apikey"}, header : BOOLEAN, query : BOOLEAN]
            \cup [kind : {"jwt"}, alg : STRING, from : Carriers, leeway : Int,
                  iss : SUBSET STRING, aud : SUBSET STRING, sub : SUBSET STRING])
    BY DEF Configured
  <2> QED BY <2>1, LenProperties
<1>2. Authenticate(a, cred) = IF a.mode = "any" THEN AnyOf(outcomes) ELSE AllOf(outcomes)
  BY DEF Authenticate
<1>3. /\ DOMAIN outcomes = 1 .. n
      /\ \A k \in 1 .. n : outcomes[k] = Single(a.of[k], cred)
  BY <1>1
<1>4. Len(outcomes) = n /\ (outcomes = << >> <=> n = 0)
  <2>1. DOMAIN outcomes = 1 .. n /\ outcomes \in [1 .. n -> Outcome]
    BY <1>1, <1>3, SingleType
  <2> HIDE DEF outcomes, n
  <2> QED BY <1>1, <1>3, <2>1, EmptySeq
<1> HIDE DEF outcomes, n
<1>5. CASE a.mode = "any"
  <2>1. successes # {} /\ AnyOf(outcomes) = outcomes[Min(successes)]
    BY <1>2, <1>5 DEF AnyOf
  <2>2. /\ Min(successes) \in successes
        /\ \A k \in successes : Min(successes) <= k
    <3>1. successes \in SUBSET Nat
      BY <1>1, <1>3
    <3> HIDE DEF successes
    <3> QED BY <2>1, <3>1, MinOfNaturals
  <2> DEFINE first == Min(successes)
  <2>3. /\ first \in 1 .. n /\ outcomes[first] # Refused
        /\ \A j \in 1 .. n : outcomes[j] # Refused => first <= j
    BY <1>3, <2>2
  <2> HIDE DEF first
  <2>4. \A j \in 1 .. first - 1 : j \in 1 .. n /\ ~(first <= j)
    BY <1>1, <2>3
  <2>5. \A j \in 1 .. first - 1 : ~(Single(a.of[j], cred) # Refused)
    BY <1>3, <2>3, <2>4
  <2>6. Single(a.of[first], cred) # Refused /\ first \in DOMAIN a.of
    BY <1>1, <1>3, <2>3
  <2>7. Single(a.of[first], cred) \in DocumentedIdentity(a, cred)
    BY <1>5, <2>5, <2>6 DEF DocumentedIdentity
  <2>8. Authenticate(a, cred) = Single(a.of[first], cred)
    BY <1>2, <1>3, <1>5, <2>1, <2>3 DEF first
  <2> QED BY <2>7, <2>8
<1>6. CASE a.mode # "any"
  <2>1. outcomes # << >> /\ AllOf(outcomes) = outcomes[n]
        /\ \A k \in 1 .. n : outcomes[k] # Refused
    BY <1>2, <1>3, <1>4, <1>6 DEF AllOf
  <2>2. n \in 1 .. n
    BY <1>1, <1>4, <2>1
  <2>3. Single(a.of[n], cred) \in DocumentedIdentity(a, cred)
    <3>1. \A j \in 1 .. n : Single(a.of[j], cred) # Refused
      BY <1>3, <2>1
    <3> QED BY <1>1, <1>6, <2>2, <3>1 DEF DocumentedIdentity, n
  <2> QED BY <1>2, <1>3, <1>6, <2>1, <2>2, <2>3
<1> QED BY <1>5, <1>6

(* The authorizer lets an Identity pass that has the roles; of no Identity *)
(* it says 401, and 403 of one that has not got them.                      *)
LEMMA RoleCheckSound ==
  ASSUME NEW required \in [all : BOOLEAN, roles : SUBSET STRING],
         NEW id \in Identity
  PROVE  RoleCheck(required, id) =
           IF id = NilIdentity THEN 401
           ELSE IF HasRoles(required, id) THEN Nil ELSE 403
<1>1. HasRoles(required, id) <=> IF required.all THEN required.roles \subseteq id.roles
                                 ELSE required.roles \cap id.roles # {}
  BY DEF HasRoles
<1> QED BY <1>1 DEF RoleCheck, Nil

-----------------------------------------------------------------------------
(* Registration.                                                           *)

(* A call names a layer for a group.                                       *)
Gives(call, group, layer) ==
  /\ call.op \in {"group", "groupuse"}
  /\ call.group = group /\ layer \in ToSet(call.mws)

(* The calls of a trail by which a layer comes to groups (GroupGets).      *)
HandsOn(script, n, trail, layer) ==
  \A k \in trail :
    /\ k \in Calls(script, "group") \cup Calls(script, "groupuse") /\ k <= n
    /\ \/ layer \in ToSet(script[k].mws)
       \/ /\ script[k].op = "group"
          /\ \E j \in trail : j < k /\ script[j].group = script[k].parent

LEMMA Trails ==
  ASSUME NEW script, NEW n, NEW group, NEW layer
  PROVE  GroupGets(script, n, group, layer)
           <=> \E trail : /\ HandsOn(script, n, trail, layer)
                          /\ \E k \in trail : script[k].group = group
<1> DEFINE Givers == {k \in Calls(script, "group") \cup Calls(script, "groupuse") :
                        k <= n}
<1>1. ASSUME NEW trail, HandsOn(script, n, trail, layer)
      PROVE  trail \in SUBSET Givers
  BY <1>1 DEF HandsOn
<1> QED BY <1>1 DEF GroupGets, HandsOn

RouteLayers == Middleware \cup {"pprofauth"}

(* The chains are chains of middleware, recover outermost.                 *)
Chains(a) ==
  /\ a = [app |-> a.app, groups |-> a.groups, routes |-> a.routes]
  /\ a.app \in Seq(Middleware \cup {"recover", "log"})
  /\ Len(a.app) > 0 /\ a.app[1] = "recover"
  /\ a.groups \in [DOMAIN a.groups -> Seq(Middleware)]
  /\ a.routes \in [DOMAIN a.routes -> Seq(RouteLayers)]

(* What the first n calls declared is in the chains.                       *)
Guarding(a, script, n) ==
  /\ TopLevel \in DOMAIN a.groups
  /\ \A g \in Calls(script, "group") : g <= n => script[g].group \in DOMAIN a.groups
  /\ \A k \in Calls(script, "use") :
       k <= n => ToSet(script[k].mws) \subseteq ToSet(a.app)
  /\ \A group \in DOMAIN a.groups : \A layer \in Middleware :
       GroupGets(script, n, group, layer) => layer \in ToSet(a.groups[group])
  /\ \A h \in Calls(script, "handle") : h <= n =>
       /\ script[h].route \in DOMAIN a.routes
       /\ \A layer \in Middleware :
            GroupGets(script, h, script[h].group, layer) =>
              layer \in ToSet(a.routes[script[h].route])
  /\ \A k \in Calls(script, "pprof") : k <= n /\ script[k].auth =>
       /\ "pprof" \in DOMAIN a.routes
       /\ "pprofauth" \in ToSet(a.routes["pprof"])

LEMMA CallKinds ==
  ASSUME NEW script, WellFormed(script), NEW k \in DOMAIN script
  PROVE  /\ script[k].op \in {"pprof", "use", "group", "groupuse", "handle"}
         /\ script[k].op = "pprof" => script[k].auth \in BOOLEAN
         /\ script[k].op \in {"use", "group", "groupuse"} =>
              script[k].mws \in Seq(Middleware)
         /\ script[k].op = "group" => script[k].parent \in STRING
         /\ script[k].op \in {"group", "groupuse", "handle"} =>
              script[k].group \in STRING
BY DEF WellFormed, Registration

LEMMA ToSetOf ==
  ASSUME NEW S, NEW s \in Seq(S), NEW t \in Seq(S)
  PROVE  /\ ToSet(s) \subseteq S
         /\ ToSet(s \o t) = ToSet(s) \cup ToSet(t)
         /\ \A x : x \in ToSet(s) <=> \E i \in 1 .. Len(s) : s[i] = x
<1> DEFINE m == Len(s)
           n == Len(t)
<1>1. /\ m \in Nat /\ n \in Nat /\ DOMAIN s = 1 .. m /\ DOMAIN t = 1 .. n
      /\ s \in [1 .. m -> S]
  BY LenProperties
<1>2. /\ DOMAIN (s \o t) = 1 .. m + n
      /\ \A i \in 1 .. m + n : (s \o t)[i] = IF i <= m THEN s[i] ELSE t[i - m]
  <2>1. s \o t \in Seq(S) /\ Len(s \o t) = m + n
    BY ConcatProperties
  <2> QED BY <2>1, ConcatProperties, LenProperties
<1> HIDE DEF m, n
<1>3. ToSet(s) \subseteq S
  BY <1>1 DEF ToSet
<1>4. ToSet(s \o t) \subseteq ToSet(s) \cup ToSet(t)
  BY <1>1, <1>2 DEF ToSet
<1>5. ToSet(s) \subseteq ToSet(s \o t)
  BY <1>1, <1>2 DEF ToSet
<1>6. ASSUME NEW i \in 1 .. n PROVE t[i] \in ToSet(s \o t)
  <2>1. m + i \in 1 .. m + n /\ ~(m + i <= m) /\ (m + i) - m = i
    BY <1>1
  <2>2. (s \o t)[m + i] = t[i]
    BY <1>2, <2>1
  <2> QED BY <1>2, <2>1, <2>2 DEF ToSet
<1>7. \A x : x \in ToSet(s) <=> \E i \in 1 .. m : s[i] = x
  BY <1>1 DEF ToSet
<1>8. ToSet(t) \subseteq ToSet(s \o t)
  BY <1>1, <1>6 DEF ToSet
<1> QED BY <1>3, <1>4, <1>5, <1>7, <1>8 DEF m

LEMMA NewAppChains ==
  ASSUME NEW script, WellFormed(script)
  PROVE  Chains(NewApp) /\ Guarding(NewApp, script, 0)
<1>1. Chains(NewApp)
  BY DEF Chains, NewApp, TopLevel, RouteLayers
<1>2. DOMAIN script = 1 .. Len(script) /\ Len(script) \in Nat
  BY LenProperties DEF WellFormed
<1>3. \A k \in DOMAIN script : ~(k <= 0)
  BY <1>2
<1>4. \A group, layer : ~GroupGets(script, 0, group, layer)
  BY <1>3 DEF GroupGets, Calls
<1>5. Guarding(NewApp, script, 0)
  BY <1>3, <1>4 DEF Guarding, NewApp, Calls
<1> QED BY <1>1, <1>5

(* What one more call gives to a group.                                    *)
LEMMA OneMoreGives ==
  ASSUME NEW script, WellFormed(script), NEW n \in Nat, n + 1 \in DOMAIN script,
         NEW group, NEW layer, GroupGets(script, n + 1, group, layer)
  PROVE  \/ GroupGets(script, n, group, layer)
         \/ Gives(script[n + 1], group, layer)
         \/ /\ script[n + 1].op = "group" /\ script[n + 1].group = group
            /\ GroupGets(script, n, script[n + 1].parent, layer)
<1>0. \A k \in Calls(script, "group") \cup Calls(script, "groupuse") :
        k \in Nat /\ k >= 1
  BY LenProperties DEF WellFormed, Calls
<1>1. PICK trail : /\ HandsOn(script, n + 1, trail, layer)
                   /\ \E k \in trail : script[k].group = group
  BY Trails
<1>2. PICK k \in trail : script[k].group = group
  BY <1>1
<1> DEFINE before == trail \ {n + 1}
<1>3. HandsOn(script, n, before, layer)
  <2> SUFFICES ASSUME NEW m \in before
               PROVE  /\ m \in Calls(script, "group") \cup Calls(script, "groupuse")
                      /\ m <= n
                      /\ \/ layer \in ToSet(script[m].mws)
                         \/ /\ script[m].op = "group"
                            /\ \E j \in before :
                                 j < m /\ script[j].group = script[m].parent
    BY DEF HandsOn
  <2>1. /\ m \in Calls(script, "group") \cup Calls(script, "groupuse")
        /\ m <= n + 1 /\ m # n + 1
        /\ \/ layer \in ToSet(script[m].mws)
           \/ /\ script[m].op = "group"
              /\ \E j \in trail : j < m /\ script[j].group = script[m].parent
    BY <1>1 DEF HandsOn
  <2>2. m <= n
    BY <1>0, <2>1
  <2>3. \A j \in trail : j < m => j \in before
    BY <1>0, <2>1, <2>2
  <2> QED BY <2>1, <2>2, <2>3
<1>4. CASE k # n + 1
  BY <1>2, <1>3, <1>4, Trails
<1>5. CASE k = n + 1
  <2>1. /\ script[k].op \in {"group", "groupuse"}
        /\ \/ layer \in ToSet(script[k].mws)
           \/ /\ script[k].op = "group"
              /\ \E j \in trail : j < k /\ script[j].group = script[k].parent
    BY <1>1 DEF HandsOn, Calls
  <2>2. CASE layer \in ToSet(script[k].mws)
    BY <1>2, <1>5, <2>1, <2>2 DEF Gives
  <2>3. CASE /\ script[k].op = "group"
             /\ \E j \in trail : j < k /\ script[j].group = script[k].parent
    <3>1. PICK j \in trail : j < k /\ script[j].group = script[k].parent
      BY <2>3
    <3>2. j \in before
      BY <1>0, <1>1, <1>5, <3>1 DEF HandsOn
    <3>3. GroupGets(script, n, script[k].parent, layer)
      BY <1>3, <3>1, <3>2, Trails
    <3> QED BY <1>2, <1>5, <2>3, <3>3
  <2> QED BY <2>1, <2>2, <2>3
<1> QED BY <1>4, <1>5

(* Nothing has been given to a group before it is made.                    *)
LEMMA NewGroupHasNothing ==
  ASSUME NEW script, WellFormed(script), NEW n \in Nat,
         n + 1 \in Calls(script, "group"), NEW layer
  PROVE  ~GroupGets(script, n, script[n + 1].group, layer)
<1> DEFINE group == script[n + 1].group
<1>0. \A k \in DOMAIN script : k \in Nat /\ k >= 1
  BY LenProperties DEF WellFormed
<1>1. ~Made(script, n + 1, group)
  BY DEF WellFormed
<1>2. ASSUME NEW k \in Calls(script, "group") \cup Calls(script, "groupuse"),
             k <= n, script[k].group = group
      PROVE  FALSE
  <2>1. k \in DOMAIN script /\ k < n + 1
    BY <1>0, <1>2 DEF Calls
  <2>2. CASE k \in Calls(script, "group")
    BY <1>1, <1>2, <2>1, <2>2 DEF Made
  <2>3. CASE k \in Calls(script, "groupuse")
    <3>1. Made(script, k, group)
      BY <1>2, <2>3 DEF WellFormed
    <3>2. PICK g \in Calls(script, "group") : g < k /\ script[g].group = group
      BY <3>1 DEF Made
    <3>3. g < n + 1
      BY <1>0, <2>1, <3>2 DEF Calls
    <3> QED BY <1>1, <3>2, <3>3 DEF Made
  <2> QED BY <1>2, <2>2, <2>3
<1> QED BY <1>2 DEF GroupGets

LEMMA RegisterChains ==
  ASSUME NEW script, WellFormed(script), NEW n \in Nat, n + 1 \in DOMAIN script,
         NEW a, Chains(a), Guarding(a, script, n)
  PROVE  Chains(Register(a, script[n + 1]))
<1> DEFINE call == script[n + 1]
           b == Register(a, call)
           App == Middleware \cup {"recover", "log"}
<1>1. /\ a = [app |-> a.app, groups |-> a.groups, routes |-> a.routes]
      /\ a.app \in Seq(App) /\ Len(a.app) > 0 /\ a.app[1] = "recover"
      /\ a.groups \in [DOMAIN a.groups -> Seq(Middleware)]
      /\ a.routes \in [DOMAIN a.routes -> Seq(RouteLayers)]
  BY DEF Chains
<1>2. CASE call.op = "pprof"
  <2>1. b = IF call.auth THEN [a EXCEPT !.routes = Put(@, "pprof", <<"pprofauth">>)]
            ELSE a
    BY <1>2 DEF Register, MountPprof
  <2>2. CASE ~call.auth
    BY <2>1, <2>2
  <2>3. CASE call.auth
    <3>1. b = [app |-> a.app, groups |-> a.groups,
               routes |-> Put(a.routes, "pprof", <<"pprofauth">>)]
      BY <1>1, <2>1, <2>3
    <3>2. <<"pprofauth">> \in Seq(RouteLayers)
      BY DEF RouteLayers
    <3>3. b.routes \in [DOMAIN b.routes -> Seq(RouteLayers)]
      BY <1>1, <3>1, <3>2 DEF Put
    <3> QED BY <1>1, <3>1, <3>3 DEF Chains
  <2> QED BY <2>2, <2>3
<1>3. CASE call.op = "use"
  <2>1. b = [app |-> a.app \o call.mws, groups |-> a.groups, routes |-> a.routes]
    BY <1>1, <1>3 DEF Register, Use
  <2>2. call.mws \in Seq(App)
    <3>1. call.mws \in Seq(Middleware)
      BY <1>3, CallKinds
    <3> QED BY <3>1, SeqMonotonic
  <2>3. /\ b.app \in Seq(App) /\ Len(b.app) = Len(a.app) + Len(call.mws)
        /\ \A i \in 1 .. Len(a.app) + Len(call.mws) :
             b.app[i] = IF i <= Len(a.app) THEN a.app[i]
                        ELSE call.mws[i - Len(a.app)]
    BY <1>1, <2>1, <2>2, ConcatProperties
  <2> DEFINE k == Len(a.app)
             m == Len(call.mws)
  <2>4. k \in Nat /\ m \in Nat /\ k > 0 /\ Len(b.app) = k + m
    BY <1>1, <2>2, <2>3, LenProperties
  <2>5. Len(b.app) > 0 /\ 1 \in 1 .. k + m /\ 1 <= k
    <3> HIDE DEF k, m, b
    <3> QED BY <2>4
  <2>6. b.app[1] = "recover"
    BY <1>1, <2>3, <2>5
  <2> QED BY <1>1, <2>1, <2>3, <2>5, <2>6 DEF Chains
<1>4. CASE call.op = "group"
  <2>1. b = [app |-> a.app, routes |-> a.routes,
             groups |-> Put(a.groups, call.group, a.groups[call.parent] \o call.mws)]
    BY <1>1, <1>4 DEF Register, MakeGroup
  <2>2. call.parent \in DOMAIN a.groups
    <3>1. call.parent = TopLevel \/ Made(script, n + 1, call.parent)
      BY <1>4 DEF WellFormed, Calls
    <3>2. ASSUME NEW g \in Calls(script, "group"), g < n + 1 PROVE g <= n
      BY <3>2, LenProperties DEF WellFormed, Calls
    <3> QED BY <3>1, <3>2 DEF Made, Guarding
  <2>3. call.mws \in Seq(Middleware) /\ a.groups[call.parent] \in Seq(Middleware)
    BY <1>1, <1>4, <2>2, CallKinds
  <2>4. a.groups[call.parent] \o call.mws \in Seq(Middleware)
    BY <2>3, ConcatProperties
  <2>5. b.groups \in [DOMAIN b.groups -> Seq(Middleware)]
    BY <1>1, <2>1, <2>4 DEF Put
  <2> QED BY <1>1, <2>1, <2>5 DEF Chains
<1>5. CASE call.op = "groupuse"
  <2>1. b = [app |-> a.app, routes |-> a.routes,
             groups |-> [a.groups EXCEPT ![call.group] = @ \o call.mws]]
    BY <1>1, <1>5 DEF Register, GroupUse
  <2>2. ASSUME call.group \in DOMAIN a.groups
        PROVE  a.groups[call.group] \o call.mws \in Seq(Middleware)
    <3>1. call.mws \in Seq(Middleware) /\ a.groups[call.group] \in Seq(Middleware)
      BY <1>1, <1>5, <2>2, CallKinds
    <3> QED BY <3>1, ConcatProperties
  <2> DEFINE longer == a.groups[call.group] \o call.mws
             gs == [a.groups EXCEPT ![call.group] = longer]
  <2>3. b.groups = gs
    BY <2>1
  <2>4. gs \in [DOMAIN gs -> Seq(Middleware)]
    <3> DEFINE name == call.group
    <3>1. name \in DOMAIN a.groups => longer \in Seq(Middleware)
      BY <2>2
    <3>2. gs = [g \in DOMAIN a.groups |-> IF g = name THEN longer ELSE a.groups[g]]
      OBVIOUS
    <3> HIDE DEF longer, gs, name
    <3>3. DOMAIN gs = DOMAIN a.groups /\ gs = [g \in DOMAIN gs |-> gs[g]]
      BY <3>2
    <3>4. ASSUME NEW g \in DOMAIN a.groups PROVE gs[g] \in Seq(Middleware)
      BY <1>1, <3>1, <3>2
    <3> QED BY <3>3, <3>4
  <2>5. b.groups \in [DOMAIN b.groups -> Seq(Middleware)]
    <3> HIDE DEF gs, b
    <3> QED BY <2>3, <2>4
  <2> QED BY <1>1, <2>1, <2>5 DEF Chains
<1>6. CASE call.op = "handle"
  <2>1. b = [app |-> a.app, groups |-> a.groups,
             routes |-> Put(a.routes, call.route, a.groups[call.group])]
    BY <1>1, <1>6 DEF Register, HandleRoute
  <2>2. call.group \in DOMAIN a.groups
    <3>1. call.group = TopLevel \/ Made(script, n + 1, call.group)
      BY <1>6 DEF WellFormed, Calls
    <3>2. ASSUME NEW g \in Calls(script, "group"), g < n + 1 PROVE g <= n
      BY <3>2, LenProperties DEF WellFormed, Calls
    <3> QED BY <3>1, <3>2 DEF Made, Guarding
  <2>3. a.groups[call.group] \in Seq(RouteLayers)
    <3>1. a.groups[call.group] \in Seq(Middleware)
      BY <1>1, <2>2
    <3> QED BY <3>1, SeqMonotonic DEF RouteLayers
  <2>4. b.routes \in [DOMAIN b.routes -> Seq(RouteLayers)]
    BY <1>1, <2>1, <2>3 DEF Put
  <2> QED BY <1>1, <2>1, <2>4 DEF Chains
<1> QED BY <1>2, <1>3, <1>4, <1>5, <1>6, CallKinds

LEMMA RegisterGuards ==
  ASSUME NEW script, WellFormed(script), NEW n \in Nat, n + 1 \in DOMAIN script,
         NEW a, Chains(a), Guarding(a, script, n)
  PROVE  Guarding(Register(a, script[n + 1]), script, n + 1)
<1> DEFINE call == script[n + 1]
           b == Register(a, call)
<1> SUFFICES Guarding(b, script, n + 1)
  OBVIOUS
<1>1. /\ a = [app |-> a.app, groups |-> a.groups, routes |-> a.routes]
      /\ a.groups \in [DOMAIN a.groups -> Seq(Middleware)]
      /\ a.routes \in [DOMAIN a.routes -> Seq(RouteLayers)]
  BY DEF Chains
<1>2. ASSUME NEW k \in DOMAIN script, k <= n + 1 PROVE k \in Nat /\ (k = n + 1 \/ k <= n)
  BY <1>2, LenProperties DEF WellFormed
<1>3. ASSUME NEW k \in DOMAIN script, k <= n + 1, script[k].op # call.op
      PROVE  k <= n
  BY <1>2, <1>3
<1>4. ASSUME b.groups = a.groups, call.op \notin {"group", "groupuse"}
      PROVE  /\ TopLevel \in DOMAIN b.groups
             /\ \A g \in Calls(script, "group") :
                  g <= n + 1 => script[g].group \in DOMAIN b.groups
             /\ \A group \in DOMAIN b.groups : \A layer \in Middleware :
                  GroupGets(script, n + 1, group, layer) =>
                    layer \in ToSet(b.groups[group])
  <2>1. \A group, layer : GroupGets(script, n + 1, group, layer) =>
                            GroupGets(script, n, group, layer)
    BY <1>4, OneMoreGives DEF Gives
  <2>2. \A g \in Calls(script, "group") : g <= n + 1 => g <= n
    BY <1>3, <1>4 DEF Calls
  <2> QED BY <1>4, <2>1, <2>2 DEF Guarding
<1>5. ASSUME b.routes = a.routes, call.op \notin {"handle", "pprof"}
      PROVE  /\ \A h \in Calls(script, "handle") : h <= n + 1 =>
                  /\ script[h].route \in DOMAIN b.routes
                  /\ \A layer \in Middleware :
                       GroupGets(script, h, script[h].group, layer) =>
                         layer \in ToSet(b.routes[script[h].route])
             /\ \A k \in Calls(script, "pprof") : k <= n + 1 /\ script[k].auth =>
                  /\ "pprof" \in DOMAIN b.routes
                  /\ "pprofauth" \in ToSet(b.routes["pprof"])
  <2>1. \A k \in Calls(script, "handle") \cup Calls(script, "pprof") :
          k <= n + 1 => k <= n
    BY <1>3, <1>5 DEF Calls
  <2> QED BY <1>5, <2>1 DEF Guarding
<1>6. ASSUME b.app = a.app, call.op # "use"
      PROVE  \A k \in Calls(script, "use") :
               k <= n + 1 => ToSet(script[k].mws) \subseteq ToSet(b.app)
  <2>1. \A k \in Calls(script, "use") : k <= n + 1 => k <= n
    BY <1>3, <1>6 DEF Calls
  <2> QED BY <1>6, <2>1 DEF Guarding
<1>7. CASE call.op = "pprof"
  <2>1. b = [app |-> a.app, groups |-> a.groups,
             routes |-> IF call.auth THEN Put(a.routes, "pprof", <<"pprofauth">>)
                        ELSE a.routes]
    <3>1. CASE call.auth
      BY <1>1, <1>7, <3>1 DEF Register, MountPprof
    <3>2. CASE ~call.auth
      BY <1>1, <1>7, <3>2 DEF Register, MountPprof
    <3> QED BY <3>1, <3>2
  <2>2. ToSet(<<"pprofauth">>) = {"pprofauth"}
    BY DEF ToSet
  <2>3. /\ \A route \in DOMAIN a.routes : route \in DOMAIN b.routes
        /\ \A route \in DOMAIN a.routes :
             route # "pprof" => b.routes[route] = a.routes[route]
        /\ call.auth \/ "pprof" \notin DOMAIN a.routes \/ b.routes = a.routes
        /\ call.auth => "pprof" \in DOMAIN b.routes
                        /\ b.routes["pprof"] = <<"pprofauth">>
        /\ ~call.auth => b.routes = a.routes
    BY <2>1 DEF Put
  <2>4. ASSUME NEW h \in Calls(script, "handle"), h <= n + 1
        PROVE  /\ script[h].route \in DOMAIN b.routes
               /\ \A layer \in Middleware :
                    GroupGets(script, h, script[h].group, layer) =>
                      layer \in ToSet(b.routes[script[h].route])
    <3>1. h <= n
      BY <1>3, <1>7, <2>4 DEF Calls
    <3>2. script[h].route # "pprof"
      BY DEF WellFormed
    <3> QED BY <2>3, <3>1, <3>2 DEF Guarding
  <2>5. ASSUME NEW k \in Calls(script, "pprof"), k <= n + 1, script[k].auth
        PROVE  "pprof" \in DOMAIN b.routes /\ "pprofauth" \in ToSet(b.routes["pprof"])
    <3>1. CASE call.auth
      BY <2>2, <2>3, <3>1
    <3>2. CASE ~call.auth
      <4>1. k <= n
        BY <1>2, <2>5, <3>2 DEF Calls
      <4> QED BY <2>3, <2>5, <3>2, <4>1 DEF Guarding
    <3> QED BY <3>1, <3>2
  <2>6. b.groups = a.groups /\ b.app = a.app
    BY <2>1
  <2> HIDE DEF b
  <2> QED BY <1>4, <1>6, <1>7, <2>4, <2>5, <2>6 DEF Guarding
<1>8. CASE call.op = "use"
  <2>1. b = [app |-> a.app \o call.mws, groups |-> a.groups, routes |-> a.routes]
    BY <1>1, <1>8 DEF Register, Use
  <2>2. ToSet(b.app) = ToSet(a.app) \cup ToSet(call.mws)
    <3> DEFINE App == Middleware \cup {"recover", "log"}
    <3>1. call.mws \in Seq(App) /\ a.app \in Seq(App)
      <4>1. call.mws \in Seq(Middleware)
        BY <1>8, CallKinds
      <4> QED BY <4>1, SeqMonotonic DEF Chains
    <3> HIDE DEF App
    <3> QED BY <2>1, <3>1, ToSetOf
  <2>3. ASSUME NEW k \in Calls(script, "use"), k <= n + 1
        PROVE  ToSet(script[k].mws) \subseteq ToSet(b.app)
    <3>1. CASE k <= n
      BY <2>2, <3>1 DEF Guarding
    <3>2. CASE k = n + 1
      BY <2>2, <3>2
    <3> QED BY <1>2, <2>3, <3>1, <3>2 DEF Calls
  <2>4. b.groups = a.groups /\ b.routes = a.routes
    BY <2>1
  <2> HIDE DEF b
  <2> QED BY <1>4, <1>5, <1>8, <2>3, <2>4 DEF Guarding
<1>9. CASE call.op = "group"
  <2> DEFINE added == a.groups[call.parent] \o call.mws
  <2>1. b = [app |-> a.app, routes |-> a.routes,
             groups |-> Put(a.groups, call.group, added)]
    BY <1>1, <1>9 DEF Register, MakeGroup
  <2>2. call.parent \in DOMAIN a.groups
    <3>1. call.parent = TopLevel \/ Made(script, n + 1, call.parent)
      BY <1>9 DEF WellFormed, Calls
    <3>2. ASSUME NEW g \in Calls(script, "group"), g < n + 1 PROVE g <= n
      BY <3>2, LenProperties DEF WellFormed, Calls
    <3> QED BY <3>1, <3>2 DEF Made, Guarding
  <2>3. ToSet(added) = ToSet(a.groups[call.parent]) \cup ToSet(call.mws)
    <3>1. call.mws \in Seq(Middleware) /\ a.groups[call.parent] \in Seq(Middleware)
      BY <1>1, <1>9, <2>2, CallKinds
    <3> QED BY <3>1, ToSetOf
  <2>4. /\ DOMAIN b.groups = DOMAIN a.groups \cup {call.group}
        /\ b.groups[call.group] = added
        /\ \A group \in DOMAIN a.groups :
             group # call.group => b.groups[group] = a.groups[group]
    <3> HIDE DEF added
    <3> QED BY <2>1 DEF Put
  <2>5. ASSUME NEW group \in DOMAIN b.groups, NEW layer \in Middleware,
               GroupGets(script, n + 1, group, layer)
        PROVE  layer \in ToSet(b.groups[group])
    <3>1. CASE group = call.group
      <4>1. ~GroupGets(script, n, group, layer)
        BY <1>9, <3>1, NewGroupHasNothing DEF Calls
      <4>2. CASE Gives(call, group, layer)
        BY <2>3, <2>4, <3>1, <4>2 DEF Gives
      <4>3. CASE GroupGets(script, n, call.parent, layer)
        BY <2>2, <2>3, <2>4, <3>1, <4>3 DEF Guarding
      <4> QED BY <2>5, <4>1, <4>2, <4>3, OneMoreGives
    <3>2. CASE group # call.group
      <4>1. GroupGets(script, n, group, layer)
        BY <2>5, <3>2, OneMoreGives DEF Gives
      <4> QED BY <2>4, <3>2, <4>1 DEF Guarding
    <3> QED BY <3>1, <3>2
  <2>6. ASSUME NEW g \in Calls(script, "group"), g <= n + 1
        PROVE  script[g].group \in DOMAIN b.groups
    <3>1. CASE g <= n
      BY <2>4, <3>1 DEF Guarding
    <3>2. CASE g = n + 1
      BY <2>4, <3>2
    <3> QED BY <1>2, <2>6, <3>1, <3>2 DEF Calls
  <2>7. TopLevel \in DOMAIN b.groups
    BY <2>4 DEF Guarding
  <2>8. b.app = a.app /\ b.routes = a.routes
    BY <2>1
  <2> HIDE DEF b
  <2> QED BY <1>5, <1>6, <1>9, <2>5, <2>6, <2>7, <2>8 DEF Guarding
<1>10. CASE call.op = "groupuse"
  <2> DEFINE added == a.groups[call.group] \o call.mws
  <2>1. b = [app |-> a.app, routes |-> a.routes,
             groups |-> [a.groups EXCEPT ![call.group] = added]]
    BY <1>1, <1>10 DEF Register, GroupUse
  <2>2. ToSet(added) = ToSet(a.groups[call.group]) \cup ToSet(call.mws)
    <3>1. call.group \in DOMAIN a.groups
      <4>1. Made(script, n + 1, call.group)
        BY <1>10 DEF WellFormed, Calls
      <4>2. ASSUME NEW g \in Calls(script, "group"), g < n + 1 PROVE g <= n
        BY <4>2, LenProperties DEF WellFormed, Calls
      <4> QED BY <4>1, <4>2 DEF Made, Guarding
    <3>2. call.mws \in Seq(Middleware) /\ a.groups[call.group] \in Seq(Middleware)
      BY <1>1, <1>10, <3>1, CallKinds
    <3> QED BY <3>2, ToSetOf
  <2>3. /\ DOMAIN b.groups = DOMAIN a.groups
        /\ \A group \in DOMAIN a.groups :
             b.groups[group] = IF group = call.group THEN added ELSE a.groups[group]
    <3> HIDE DEF added
    <3> QED BY <1>1, <2>1
  <2>4. ASSUME NEW group \in DOMAIN b.groups, NEW layer \in Middleware,
               GroupGets(script, n + 1, group, layer)
        PROVE  layer \in ToSet(b.groups[group])
    <3>1. GroupGets(script, n, group, layer) \/ Gives(call, group, layer)
      BY <1>10, <2>4, OneMoreGives
    <3>2. CASE GroupGets(script, n, group, layer)
      BY <2>2, <2>3, <3>2 DEF Guarding
    <3>3. CASE Gives(call, group, layer)
      BY <2>2, <2>3, <3>3 DEF Gives
    <3> QED BY <3>1, <3>2, <3>3
  <2>5. \A g \in Calls(script, "group") : g <= n + 1 => g <= n
    BY <1>3, <1>10 DEF Calls
  <2>6. b.app = a.app /\ b.routes = a.routes
    BY <2>1
  <2>7. /\ TopLevel \in DOMAIN b.groups
        /\ \A g \in Calls(script, "group") :
             g <= n + 1 => script[g].group \in DOMAIN b.groups
    BY <2>3, <2>5 DEF Guarding
  <2> HIDE DEF b
  <2> QED BY <1>5, <1>6, <1>10, <2>4, <2>6, <2>7 DEF Guarding
<1>11. CASE call.op = "handle"
  <2>1. b = [app |-> a.app, groups |-> a.groups,
             routes |-> Put(a.routes, call.route, a.groups[call.group])]
    BY <1>1, <1>11 DEF Register, HandleRoute
  <2>2. /\ DOMAIN b.routes = DOMAIN a.routes \cup {call.route}
        /\ b.routes[call.route] = a.groups[call.group]
        /\ \A route \in DOMAIN a.routes :
             route # call.route => b.routes[route] = a.routes[route]
    BY <2>1 DEF Put
  <2>3. n + 1 \in Calls(script, "handle") /\ call.route # "pprof"
    BY <1>11 DEF WellFormed, Calls
  <2>4. call.group \in DOMAIN a.groups
    <3>1. call.group = TopLevel \/ Made(script, n + 1, call.group)
      BY <1>11 DEF WellFormed, Calls
    <3>2. ASSUME NEW g \in Calls(script, "group"), g < n + 1 PROVE g <= n
      BY <3>2, LenProperties DEF WellFormed, Calls
    <3> QED BY <3>1, <3>2 DEF Made, Guarding
  <2>5. ASSUME NEW h \in Calls(script, "handle"), h <= n + 1
        PROVE  /\ script[h].route \in DOMAIN b.routes
               /\ \A layer \in Middleware :
                    GroupGets(script, h, script[h].group, layer) =>
                      layer \in ToSet(b.routes[script[h].route])
    <3>1. CASE h = n + 1
      <4>1. ASSUME NEW layer, GroupGets(script, n + 1, call.group, layer)
            PROVE  GroupGets(script, n, call.group, layer)
        BY <1>11, <4>1, OneMoreGives DEF Gives
      <4> QED BY <2>2, <2>4, <3>1, <4>1 DEF Guarding
    <3>2. CASE h # n + 1
      <4>1. h <= n
        BY <1>2, <2>5, <3>2 DEF Calls
      <4>2. script[h].route # call.route
        BY <2>3, <3>2 DEF WellFormed
      <4> QED BY <2>2, <4>1, <4>2 DEF Guarding
    <3> QED BY <3>1, <3>2
  <2>6. ASSUME NEW k \in Calls(script, "pprof"), k <= n + 1, script[k].auth
        PROVE  "pprof" \in DOMAIN b.routes /\ "pprofauth" \in ToSet(b.routes["pprof"])
    <3>1. k <= n
      BY <1>3, <1>11, <2>6 DEF Calls
    <3> QED BY <2>2, <2>3, <2>6, <3>1 DEF Guarding
  <2>7. b.groups = a.groups /\ b.app = a.app
    BY <2>1
  <2> HIDE DEF b
  <2> QED BY <1>4, <1>6, <1>11, <2>5, <2>6, <2>7 DEF Guarding
<1> QED BY <1>7, <1>8, <1>9, <1>10, <1>11, CallKinds

(* What is in the chains was declared.                                     *)
Declared(a, script, n) ==
  /\ \A layer \in ToSet(a.app) :
       \/ layer \in {"recover", "log"}
       \/ \E k \in Calls(script, "use") : layer \in ToSet(script[k].mws)
  /\ \A group \in DOMAIN a.groups : \A layer \in ToSet(a.groups[group]) :
       GroupGets(script, n, group, layer)
  /\ \A route \in DOMAIN a.routes : \A layer \in ToSet(a.routes[route]) :
       \/ \E h \in Calls(script, "handle") :
            script[h].route = route /\ GroupGets(script, h, script[h].group, layer)
       \/ /\ route = "pprof" /\ layer = "pprofauth"
          /\ \E k \in Calls(script, "pprof") : script[k].auth

LEMMA NewAppDeclared ==
  ASSUME NEW script PROVE Declared(NewApp, script, 0)
<1>1. ToSet(<<"recover", "log">>) = {"recover", "log"} /\ ToSet(<< >>) = {}
  BY DEF ToSet
<1> QED BY <1>1 DEF Declared, NewApp

(* A later call takes nothing away, and inheritance adds up.               *)
LEMMA GetsMore ==
  ASSUME NEW script, WellFormed(script), NEW n \in Nat, n + 1 \in DOMAIN script,
         NEW group, NEW layer
  PROVE  /\ GroupGets(script, n, group, layer) => GroupGets(script, n + 1, group, layer)
         /\ Gives(script[n + 1], group, layer) => GroupGets(script, n + 1, group, layer)
         /\ /\ script[n + 1].op = "group" /\ script[n + 1].group = group
            /\ GroupGets(script, n, script[n + 1].parent, layer)
            => GroupGets(script, n + 1, group, layer)
<1>0. /\ n + 1 <= n + 1
      /\ \A k \in Calls(script, "group") \cup Calls(script, "groupuse") :
           k \in Nat /\ (k <= n => k <= n + 1 /\ k < n + 1)
  BY LenProperties DEF WellFormed, Calls
<1>1. ASSUME NEW trail, HandsOn(script, n, trail, layer)
      PROVE  HandsOn(script, n + 1, trail, layer)
  BY <1>0, <1>1 DEF HandsOn
<1>2. ASSUME GroupGets(script, n, group, layer)
      PROVE  GroupGets(script, n + 1, group, layer)
  BY <1>1, <1>2, Trails
<1>3. ASSUME Gives(script[n + 1], group, layer)
      PROVE  GroupGets(script, n + 1, group, layer)
  <2>1. n + 1 \in Calls(script, "group") \cup Calls(script, "groupuse")
    BY <1>3 DEF Gives, Calls
  <2>2. HandsOn(script, n + 1, {n + 1}, layer) /\ script[n + 1].group = group
    BY <1>0, <1>3, <2>1 DEF HandsOn, Gives
  <2> QED BY <2>2, Trails
<1>4. ASSUME script[n + 1].op = "group", script[n + 1].group = group,
             GroupGets(script, n, script[n + 1].parent, layer)
      PROVE  GroupGets(script, n + 1, group, layer)
  <2>1. PICK trail : /\ HandsOn(script, n, trail, layer)
                     /\ \E j \in trail : script[j].group = script[n + 1].parent
    BY <1>4, Trails
  <2>2. PICK j \in trail : script[j].group = script[n + 1].parent
    BY <2>1
  <2>3. j < n + 1
    BY <1>0, <2>1 DEF HandsOn
  <2>4. n + 1 \in Calls(script, "group")
    BY <1>4 DEF Calls
  <2> DEFINE longer == trail \cup {n + 1}
  <2>5. HandsOn(script, n + 1, longer, layer)
    BY <1>0, <1>1, <1>4, <2>1, <2>2, <2>3, <2>4 DEF HandsOn
  <2> QED BY <1>4, <2>5, Trails
<1> QED BY <1>2, <1>3, <1>4

LEMMA RegisterDeclares ==
  ASSUME NEW script, WellFormed(script),
         NEW n \in Nat, n + 1 \in DOMAIN script,
         NEW a, Chains(a), Guarding(a, script, n), Declared(a, script, n)
  PROVE  Declared(Register(a, script[n + 1]), script, n + 1)
<1> DEFINE call == script[n + 1]
           b == Register(a, call)
<1> SUFFICES Declared(b, script, n + 1)
  OBVIOUS
<1>1. /\ a = [app |-> a.app, groups |-> a.groups, routes |-> a.routes]
      /\ a.groups \in [DOMAIN a.groups -> Seq(Middleware)]
      /\ a.routes \in [DOMAIN a.routes -> Seq(RouteLayers)]
  BY DEF Chains
<1>2. ASSUME NEW name, Made(script, n + 1, name)
      PROVE  name \in DOMAIN a.groups
  <2>1. ASSUME NEW g \in Calls(script, "group"), g < n + 1 PROVE g <= n
    BY <2>1, LenProperties DEF WellFormed, Calls
  <2> QED BY <1>2, <2>1 DEF Made, Guarding
<1>3. ASSUME b.groups = a.groups
      PROVE  \A group \in DOMAIN b.groups : \A layer \in ToSet(b.groups[group]) :
               GroupGets(script, n + 1, group, layer)
  BY <1>3, GetsMore DEF Declared
<1>4. CASE call.op = "pprof"
  <2>1. b = [app |-> a.app, groups |-> a.groups,
             routes |-> IF call.auth THEN Put(a.routes, "pprof", <<"pprofauth">>)
                        ELSE a.routes]
    <3>1. CASE call.auth
      BY <1>1, <1>4, <3>1 DEF Register, MountPprof
    <3>2. CASE ~call.auth
      BY <1>1, <1>4, <3>2 DEF Register, MountPprof
    <3> QED BY <3>1, <3>2
  <2>2. b.groups = a.groups /\ b.app = a.app
    BY <2>1
  <2>3. CASE ~call.auth
    <3>1. b.routes = a.routes
      BY <2>1, <2>3
    <3> HIDE DEF b
    <3> QED BY <1>3, <2>2, <3>1 DEF Declared
  <2>4. CASE call.auth
    <3>1. /\ DOMAIN b.routes = DOMAIN a.routes \cup {"pprof"}
          /\ b.routes["pprof"] = <<"pprofauth">>
          /\ \A route \in DOMAIN a.routes :
               route # "pprof" => b.routes[route] = a.routes[route]
      BY <2>1, <2>4 DEF Put
    <3>2. ToSet(<<"pprofauth">>) = {"pprofauth"}
      BY DEF ToSet
    <3>3. n + 1 \in Calls(script, "pprof") /\ script[n + 1].auth
      BY <1>4, <2>4 DEF Calls
    <3>4. \A route \in DOMAIN b.routes : \A layer \in ToSet(b.routes[route]) :
       \/ \E h \in Calls(script, "handle") :
            script[h].route = route /\ GroupGets(script, h, script[h].group, layer)
       \/ /\ route = "pprof" /\ layer = "pprofauth"
          /\ \E k \in Calls(script, "pprof") : script[k].auth
      <4> HIDE DEF b
      <4> SUFFICES ASSUME NEW route \in DOMAIN b.routes,
                          NEW layer \in ToSet(b.routes[route])
                   PROVE  \/ \E h \in Calls(script, "handle") :
                               /\ script[h].route = route
                               /\ GroupGets(script, h, script[h].group, layer)
                          \/ /\ route = "pprof" /\ layer = "pprofauth"
                             /\ \E k \in Calls(script, "pprof") : script[k].auth
        OBVIOUS
      <4>1. CASE route = "pprof"
        BY <3>1, <3>2, <3>3, <4>1
      <4>2. CASE route # "pprof"
        <5>1. route \in DOMAIN a.routes /\ layer \in ToSet(a.routes[route])
          BY <3>1, <4>2
        <5> QED BY <5>1 DEF Declared
      <4> QED BY <4>1, <4>2
    <3> HIDE DEF b
    <3> QED BY <1>3, <2>2, <3>4 DEF Declared
  <2> QED BY <2>3, <2>4
<1>5. CASE call.op = "use"
  <2>1. b = [app |-> a.app \o call.mws, groups |-> a.groups, routes |-> a.routes]
    BY <1>1, <1>5 DEF Register, Use
  <2>2. ToSet(b.app) = ToSet(a.app) \cup ToSet(call.mws)
    <3> DEFINE App == Middleware \cup {"recover", "log"}
    <3>1. call.mws \in Seq(App) /\ a.app \in Seq(App)
      <4>1. call.mws \in Seq(Middleware)
        BY <1>5, CallKinds
      <4> QED BY <4>1, SeqMonotonic DEF Chains
    <3> HIDE DEF App
    <3> QED BY <2>1, <3>1, ToSetOf
  <2>3. n + 1 \in Calls(script, "use")
    BY <1>5 DEF Calls
  <2>4. \A layer \in ToSet(b.app) :
       \/ layer \in {"recover", "log"}
       \/ \E k \in Calls(script, "use") : layer \in ToSet(script[k].mws)
    <3> HIDE DEF b
    <3> QED BY <2>2, <2>3 DEF Declared
  <2>5. b.groups = a.groups /\ b.routes = a.routes
    BY <2>1
  <2> HIDE DEF b
  <2> QED BY <1>3, <2>4, <2>5 DEF Declared
<1>6. CASE call.op = "group"
  <2> DEFINE added == a.groups[call.parent] \o call.mws
  <2>1. b = [app |-> a.app, routes |-> a.routes,
             groups |-> Put(a.groups, call.group, added)]
    BY <1>1, <1>6 DEF Register, MakeGroup
  <2>2. call.parent \in DOMAIN a.groups
    <3>1. call.parent = TopLevel \/ Made(script, n + 1, call.parent)
      BY <1>6 DEF WellFormed, Calls
    <3> QED BY <1>2, <3>1 DEF Guarding
  <2>3. ToSet(added) = ToSet(a.groups[call.parent]) \cup ToSet(call.mws)
    <3>1. call.mws \in Seq(Middleware) /\ a.groups[call.parent] \in Seq(Middleware)
      BY <1>1, <1>6, <2>2, CallKinds
    <3> QED BY <3>1, ToSetOf
  <2>4. /\ DOMAIN b.groups = DOMAIN a.groups \cup {call.group}
        /\ b.groups[call.group] = added
        /\ \A group \in DOMAIN a.groups :
             group # call.group => b.groups[group] = a.groups[group]
    <3> HIDE DEF added
    <3> QED BY <2>1 DEF Put
  <2>5. ASSUME NEW group \in DOMAIN b.groups, NEW layer \in ToSet(b.groups[group])
        PROVE  GroupGets(script, n + 1, group, layer)
    <3>1. CASE group # call.group
      BY <2>4, <3>1, GetsMore DEF Declared
    <3>2. CASE group = call.group /\ layer \in ToSet(call.mws)
      <4>1. Gives(call, group, layer)
        BY <1>6, <3>2 DEF Gives
      <4> QED BY <4>1, GetsMore
    <3>3. CASE group = call.group /\ layer \in ToSet(a.groups[call.parent])
      <4>1. GroupGets(script, n, call.parent, layer)
        BY <2>2, <3>3 DEF Declared
      <4> QED BY <1>6, <3>3, <4>1, GetsMore
    <3> QED BY <2>3, <2>4, <3>1, <3>2, <3>3
  <2>6. b.app = a.app /\ b.routes = a.routes
    BY <2>1
  <2> HIDE DEF b
  <2> QED BY <2>5, <2>6 DEF Declared
<1>7. CASE call.op = "groupuse"
  <2> DEFINE added == a.groups[call.group] \o call.mws
  <2>1. b = [app |-> a.app, routes |-> a.routes,
             groups |-> [a.groups EXCEPT ![call.group] = added]]
    BY <1>1, <1>7 DEF Register, GroupUse
  <2>2. ToSet(added) = ToSet(a.groups[call.group]) \cup ToSet(call.mws)
    <3>1. call.group \in DOMAIN a.groups
      BY <1>2, <1>7 DEF WellFormed, Calls
    <3>2. call.mws \in Seq(Middleware) /\ a.groups[call.group] \in Seq(Middleware)
      BY <1>1, <1>7, <3>1, CallKinds
    <3> QED BY <3>2, ToSetOf
  <2>3. /\ DOMAIN b.groups = DOMAIN a.groups
        /\ \A group \in DOMAIN a.groups :
             b.groups[group] = IF group = call.group THEN added ELSE a.groups[group]
    <3> HIDE DEF added
    <3> QED BY <1>1, <2>1
  <2>4. ASSUME NEW group \in DOMAIN b.groups, NEW layer \in ToSet(b.groups[group])
        PROVE  GroupGets(script, n + 1, group, layer)
    <3>1. CASE layer \in ToSet(a.groups[group])
      BY <2>3, <3>1, GetsMore DEF Declared
    <3>2. CASE group = call.group /\ layer \in ToSet(call.mws)
      <4>1. Gives(call, group, layer)
        BY <1>7, <3>2 DEF Gives
      <4> QED BY <4>1, GetsMore
    <3> QED BY <2>2, <2>3, <3>1, <3>2
  <2>5. b.app = a.app /\ b.routes = a.routes
    BY <2>1
  <2> HIDE DEF b
  <2> QED BY <2>4, <2>5 DEF Declared
<1>8. CASE call.op = "handle"
  <2>1. b = [app |-> a.app, groups |-> a.groups,
             routes |-> Put(a.routes, call.route, a.groups[call.group])]
    BY <1>1, <1>8 DEF Register, HandleRoute
  <2>2. /\ DOMAIN b.routes = DOMAIN a.routes \cup {call.route}
        /\ b.routes[call.route] = a.groups[call.group]
        /\ \A route \in DOMAIN a.routes :
             route # call.route => b.routes[route] = a.routes[route]
    BY <2>1 DEF Put
  <2>3. n + 1 \in Calls(script, "handle")
    BY <1>8 DEF Calls
  <2>4. call.group \in DOMAIN a.groups
    <3>1. call.group = TopLevel \/ Made(script, n + 1, call.group)
      BY <2>3 DEF WellFormed
    <3> QED BY <1>2, <3>1 DEF Guarding
  <2>5. ASSUME NEW layer \in ToSet(a.groups[call.group])
        PROVE  GroupGets(script, n + 1, call.group, layer)
    BY <2>4, GetsMore DEF Declared
  <2>6. \A route \in DOMAIN b.routes : \A layer \in ToSet(b.routes[route]) :
       \/ \E h \in Calls(script, "handle") :
            script[h].route = route /\ GroupGets(script, h, script[h].group, layer)
       \/ /\ route = "pprof" /\ layer = "pprofauth"
          /\ \E k \in Calls(script, "pprof") : script[k].auth
    <3> HIDE DEF b
    <3> SUFFICES ASSUME NEW route \in DOMAIN b.routes,
                        NEW layer \in ToSet(b.routes[route])
                 PROVE  \/ \E h \in Calls(script, "handle") :
                             /\ script[h].route = route
                             /\ GroupGets(script, h, script[h].group, layer)
                        \/ /\ route = "pprof" /\ layer = "pprofauth"
                           /\ \E k \in Calls(script, "pprof") : script[k].auth
      OBVIOUS
    <3>1. CASE route = call.route
      <4>1. GroupGets(script, n + 1, call.group, layer)
        BY <2>2, <2>5, <3>1
      <4> QED BY <2>3, <3>1, <4>1
    <3>2. CASE route # call.route
      <4>1. route \in DOMAIN a.routes /\ layer \in ToSet(a.routes[route])
        BY <2>2, <3>2
      <4> QED BY <4>1 DEF Declared
    <3> QED BY <3>1, <3>2
  <2>7. b.groups = a.groups /\ b.app = a.app
    BY <2>1
  <2> HIDE DEF b
  <2> QED BY <1>3, <2>6, <2>7 DEF Declared
<1> QED BY <1>4, <1>5, <1>6, <1>7, <1>8, CallKinds

(* A guard that was declared for a route is in its chain, ...              *)
LEMMA GuardsInChain ==
  ASSUME NEW script, WellFormed(script), NEW a, Chains(a),
         Guarding(a, script, Len(script)),
         NEW route \in DOMAIN a.routes, NEW layer, Guards(script, route, layer)
  PROVE  layer \in ToSet(a.app) \cup ToSet(a.routes[route])
<1>0. /\ Len(script) \in Nat /\ DOMAIN script = 1 .. Len(script)
      /\ \A k \in DOMAIN script : k \in Nat /\ k >= 1 /\ k <= Len(script)
  BY LenProperties DEF WellFormed
<1>1. CASE \E k \in Calls(script, "use") : layer \in ToSet(script[k].mws)
  <2>1. PICK k \in Calls(script, "use") : layer \in ToSet(script[k].mws)
    BY <1>1
  <2>2. k <= Len(script)
    BY <1>0 DEF Calls
  <2> QED BY <2>1, <2>2 DEF Guarding
<1>2. ASSUME NEW group, NEW n, GroupGets(script, n, group, layer)
      PROVE  layer \in Middleware
  <2>1. PICK trail : /\ HandsOn(script, n, trail, layer)
                     /\ \E k \in trail : script[k].group = group
    BY <1>2, Trails
  <2>2. \A k \in trail : k \in Nat /\ k \in DOMAIN script
    BY <1>0, <2>1 DEF HandsOn, Calls
  <2> DEFINE k == Min(trail)
  <2>3. k \in trail /\ \A j \in trail : k <= j
    BY <2>1, <2>2, MinOfNaturals
  <2> HIDE DEF k
  <2>4. ~\E j \in trail : j < k
    BY <2>2, <2>3
  <2>5. layer \in ToSet(script[k].mws) /\ script[k].op \in {"group", "groupuse"}
    BY <2>1, <2>3, <2>4 DEF HandsOn, Calls
  <2>6. script[k].mws \in Seq(Middleware)
    BY <2>2, <2>3, <2>5, CallKinds
  <2> QED BY <2>5, <2>6, ToSetOf
<1>3. CASE \E h \in Calls(script, "handle") :
             script[h].route = route /\ GroupGets(script, h, script[h].group, layer)
  <2>1. PICK h \in Calls(script, "handle") :
             script[h].route = route /\ GroupGets(script, h, script[h].group, layer)
    BY <1>3
  <2>2. h <= Len(script) /\ layer \in Middleware
    BY <1>0, <1>2, <2>1 DEF Calls
  <2> QED BY <2>1, <2>2 DEF Guarding
<1>4. CASE /\ route = "pprof" /\ layer = "pprofauth"
           /\ \E k \in Calls(script, "pprof") : script[k].auth
  <2>1. PICK k \in Calls(script, "pprof") : script[k].auth
    BY <1>4
  <2>2. k <= Len(script)
    BY <1>0 DEF Calls
  <2> QED BY <1>4, <2>1, <2>2 DEF Guarding
<1> QED BY <1>1, <1>3, <1>4 DEF Guards

(* ... and what is in it was declared.                                     *)
LEMMA ChainWasDeclared ==
  ASSUME NEW script, NEW n, NEW a, Declared(a, script, n),
         NEW route \in DOMAIN a.routes, NEW layer,
         layer \in ToSet(a.app) \cup ToSet(a.routes[route]),
         layer \notin {"recover", "log"}
  PROVE  Guards(script, route, layer)
<1>1. CASE layer \in ToSet(a.app)
  BY <1>1 DEF Declared, Guards
<1>2. CASE layer \in ToSet(a.routes[route])
  <2>1. CASE \E h \in Calls(script, "handle") :
               script[h].route = route /\ GroupGets(script, h, script[h].group, layer)
    BY <2>1 DEF Guards
  <2>2. CASE /\ route = "pprof" /\ layer = "pprofauth"
             /\ \E k \in Calls(script, "pprof") : script[k].auth
    BY <2>2 DEF Guards
  <2> QED BY <1>2, <2>1, <2>2 DEF Declared
<1> QED BY <1>1, <1>2

-----------------------------------------------------------------------------
(* Configuration: the chains are there when the first request comes.       *)

ConfigInv ==
  /\ scenario \in DOMAIN Scenarios /\ made \in 0 .. Len(Conf.script)
  /\ Chains(stack) /\ Guarding(stack, Conf.script, made)
  /\ input \in [Requests -> Inputs[scenario]]
  /\ dir \in [Requests -> {"new", "down", "up", "forget", "release", "done"}]
  /\ at \in [Requests -> Nat]
  /\ \A q \in Requests : dir[q] # "new" => made = Len(Conf.script)

LEMMA ConfTyped ==
  ASSUME PipelineAssumption, scenario \in DOMAIN Scenarios
  PROVE  /\ WellFormed(Conf.script) /\ Conf.script \in Seq(Registration)
         /\ Len(Conf.script) \in Nat /\ DOMAIN Conf.script = 1 .. Len(Conf.script)
         /\ Conf.auth \in Configured(Status \cup {Nil})
         /\ Conf.pprof \in Configured({401})
         /\ Conf.roles \in [all : BOOLEAN, roles : SUBSET STRING]
         /\ Conf.limited \in BOOLEAN
         /\ Inputs[scenario] \subseteq Input
<1>1. Conf \in Configuration /\ Inputs[scenario] \subseteq Input
  BY DEF PipelineAssumption, Conf
<1>2. Conf.script \in Seq(Registration) /\ WellFormed(Conf.script)
  BY <1>1 DEF Configuration
<1> QED BY <1>1, <1>2, LenProperties DEF Configuration

(* Once a request is served the configuration stays.                       *)
LEMMA GoroutineConfig ==
  ASSUME ConfigInv, NEW q \in Requests, Goroutine(q) \/ DeadlinePasses(q)
  PROVE  /\ UNCHANGED config /\ UNCHANGED input
         /\ made = Len(Conf.script)
         /\ dir' \in [Requests -> {"new", "down", "up", "forget", "release", "done"}]
         /\ \A k \in Requests : k # q => dir'[k] = dir[k] /\ at'[k] = at[k]
         /\ at' = [at EXCEPT ![q] = at'[q]]
         /\ dir[q] = "new" <=> ServeHTTP(q)
<1>1. CASE ServeHTTP(q)
  BY <1>1 DEF ServeHTTP, ConfigInv
<1>2. CASE Recover(q) \/ RequestLog(q) \/ RequestID(q) \/ Timeout(q) \/ GZip(q)
           \/ Handle(q)
  BY <1>2 DEF Recover, RequestLog, RequestID, Timeout, GZip, Handle, Call, Down,
              ConfigInv, ServeHTTP
<1>3. CASE CORS(q) \/ Auth(q, "auth", Conf.auth) \/ Auth(q, "pprofauth", Conf.pprof)
           \/ BasicAuth(q) \/ Authorize(q) \/ MuxAnswers(q) \/ Handler(q)
  BY <1>3 DEF CORS, Auth, BasicAuth, Authorize, MuxAnswers, Handler, Call, Return,
              Down, ConfigInv, ServeHTTP
<1>4. CASE PassUp(q) \/ GZipReturns(q) \/ TimeoutReturns(q) \/ HandleReturns(q)
           \/ RequestLogReturns(q) \/ RecoverReturns(q)
  BY <1>4 DEF PassUp, GZipReturns, TimeoutReturns, HandleReturns,
              RequestLogReturns, RecoverReturns, Return, Up, ConfigInv, ServeHTTP
<1>5. CASE ServeError(q) \/ Forget(q) \/ Release(q) \/ HandleError(q)
  BY <1>5 DEF ServeError, Forget, Release, HandleError, Up, ConfigInv, ServeHTTP
<1>6. CASE DeadlinePasses(q)
  BY <1>6 DEF DeadlinePasses, pcVars, ConfigInv, ServeHTTP
<1> QED BY <1>1, <1>2, <1>3, <1>4, <1>5, <1>6 DEF Goroutine

LEMMA ConcatLengths ==
  ASSUME NEW S, NEW s \in Seq(S), NEW t \in Seq(S),
         NEW m, NEW n, Len(s) = m, Len(t) = n
  PROVE  /\ s \o t \in Seq(S) /\ Len(s \o t) = m + n
         /\ \A k \in 1 .. m + n : (s \o t)[k] = IF k <= m THEN s[k] ELSE t[k - m]
BY ConcatProperties

(* A chain: the App's layers, the mux and, behind it, those of a route.    *)
LEMMA ChainParts ==
  ASSUME ConfigInv, NEW q \in Requests
  PROVE  /\ MuxAt \in Nat /\ MuxAt > 1 /\ Len(Chain(q)) \in Nat
         /\ Chain(q) \in Seq(Layers) /\ DOMAIN Chain(q) = 1 .. Len(Chain(q))
         /\ \A k \in 1 .. MuxAt - 1 : Chain(q)[k] = stack.app[k]
         /\ Chain(q)[1] = "recover" /\ Chain(q)[MuxAt] = "mux"
         /\ input[q].target \notin DOMAIN stack.routes => Len(Chain(q)) = MuxAt
         /\ input[q].target \in DOMAIN stack.routes =>
              LET r == stack.routes[input[q].target]
                  p == Len(r)
              IN  /\ p \in Nat /\ r \in Seq(RouteLayers)
                  /\ Len(Chain(q)) = MuxAt + p + 1
                  /\ \A k \in 1 .. p : Chain(q)[MuxAt + k] = r[k]
                  /\ Chain(q)[MuxAt + p + 1] = "handler"
<1> DEFINE m == Len(stack.app)
           front == stack.app \o <<"mux">>
           App == Middleware \cup {"recover", "log"}
<1>1. stack.app \in Seq(Layers) /\ m \in Nat /\ m > 0 /\ stack.app[1] = "recover"
  <2>1. stack.app \in Seq(App) /\ m > 0 /\ stack.app[1] = "recover"
    BY DEF ConfigInv, Chains
  <2>2. App \subseteq Layers
    BY DEF Middleware, Layers
  <2> HIDE DEF App
  <2> QED BY <2>1, <2>2, SeqMonotonic, LenProperties
<1>2. <<"mux">> \in Seq(Layers) /\ Len(<<"mux">>) = 1 /\ <<"mux">>[1] = "mux"
  BY DEF Layers
<1>3. /\ front \in Seq(Layers) /\ Len(front) = m + 1
      /\ \A k \in 1 .. m + 1 :
           front[k] = IF k <= m THEN stack.app[k] ELSE <<"mux">>[k - m]
  BY <1>1, <1>2, ConcatProperties
<1>4. MuxAt = m + 1
  BY DEF MuxAt
<1> HIDE DEF m, front, App
<1>5. /\ \A k \in 1 .. m : front[k] = stack.app[k]
      /\ front[m + 1] = "mux"
  <2>1. m + 1 \in 1 .. m + 1 /\ ~(m + 1 <= m) /\ (m + 1) - m = 1
    BY <1>1
  <2> QED BY <1>1, <1>2, <1>3, <2>1
<1>6. MuxAt \in Nat /\ MuxAt > 1 /\ MuxAt - 1 = m /\ 1 \in 1 .. m
  BY <1>1, <1>4
<1>7. CASE input[q].target \notin DOMAIN stack.routes
  <2>1. Chain(q) = front
    BY <1>7 DEF Chain, front
  <2> QED BY <1>1, <1>3, <1>4, <1>5, <1>6, <1>7, <2>1, LenProperties
<1>8. CASE input[q].target \in DOMAIN stack.routes
  <2> DEFINE r == stack.routes[input[q].target]
             p == Len(r)
             whole == front \o r
  <2>1. r \in Seq(RouteLayers) /\ r \in Seq(Layers) /\ p \in Nat
    <3>1. r \in Seq(RouteLayers)
      BY <1>8 DEF ConfigInv, Chains
    <3>2. RouteLayers \subseteq Layers
      BY DEF RouteLayers, Middleware, Layers
    <3> HIDE DEF r
    <3> QED BY <3>1, <3>2, SeqMonotonic, LenProperties
  <2>2. /\ whole \in Seq(Layers) /\ Len(whole) = (m + 1) + p
        /\ \A k \in 1 .. (m + 1) + p :
             whole[k] = IF k <= m + 1 THEN front[k] ELSE r[k - (m + 1)]
    <3>1. Len(r) = p
      OBVIOUS
    <3> HIDE DEF r, p
    <3> QED BY <1>3, <2>1, <3>1, ConcatLengths
  <2>3. <<"handler">> \in Seq(Layers) /\ Len(<<"handler">>) = 1
        /\ <<"handler">>[1] = "handler"
    BY DEF Layers
  <2> DEFINE all == whole \o <<"handler">>
  <2>4. /\ all \in Seq(Layers) /\ Len(all) = (m + 1) + p + 1
        /\ \A k \in 1 .. (m + 1) + p + 1 :
             all[k] = IF k <= (m + 1) + p THEN whole[k]
                      ELSE <<"handler">>[k - ((m + 1) + p)]
    <3> HIDE DEF r, p, whole
    <3> QED BY <2>2, <2>3, ConcatLengths
  <2>5. Chain(q) = all
    BY <1>8 DEF Chain, front
  <2> HIDE DEF r, p, whole, all
  <2>6. \A k \in 1 .. m + 1 : all[k] = front[k]
    BY <1>1, <2>1, <2>2, <2>4
  <2>7. ASSUME NEW k \in 1 .. p PROVE all[MuxAt + k] = r[k]
    <3>1. /\ MuxAt + k \in 1 .. (m + 1) + p + 1 /\ MuxAt + k <= (m + 1) + p
          /\ ~(MuxAt + k <= m + 1) /\ (MuxAt + k) - (m + 1) = k
          /\ MuxAt + k \in 1 .. (m + 1) + p
      BY <1>1, <1>4, <2>1
    <3> QED BY <2>2, <2>4, <3>1
  <2>8. all[MuxAt + p + 1] = "handler"
    <3> DEFINE k == MuxAt + p + 1
    <3>1. /\ k \in 1 .. (m + 1) + p + 1 /\ ~(k <= (m + 1) + p)
          /\ k - ((m + 1) + p) = 1
      BY <1>1, <1>4, <2>1
    <3> QED BY <2>3, <2>4, <3>1
  <2>9. m + 1 \in 1 .. m + 1 /\ \A k \in 1 .. m : k \in 1 .. m + 1
    BY <1>1
  <2>10. Len(all) = MuxAt + p + 1 /\ Len(all) \in Nat /\ DOMAIN all = 1 .. Len(all)
    BY <1>1, <1>4, <2>1, <2>4, LenProperties
  <2>11. all[MuxAt] = "mux" /\ \A k \in 1 .. MuxAt - 1 : all[k] = stack.app[k]
    BY <1>4, <1>5, <1>6, <2>6, <2>9
  <2>12. all[1] = "recover"
    BY <1>1, <1>6, <2>11
  <2> QED BY <1>6, <1>8, <2>1, <2>4, <2>5, <2>7, <2>8, <2>10, <2>11, <2>12
          DEF p, r
<1> QED BY <1>7, <1>8

LEMMA ChainShape ==
  ASSUME ConfigInv, NEW q \in Requests, NEW k \in 1 .. Len(Chain(q))
  PROVE  /\ Chain(q)[k] = "mux" <=> k = MuxAt
         /\ Chain(q)[k] = "handler" <=> k = Len(Chain(q)) /\ k > MuxAt
         /\ Chain(q)[k] = "recover" => k < MuxAt
         /\ k > MuxAt => input[q].target \in DOMAIN stack.routes
         /\ k < Len(Chain(q)) /\ k # MuxAt =>
              Chain(q)[k] \in ToSet(stack.app)
                \cup (IF input[q].target \in DOMAIN stack.routes
                      THEN ToSet(stack.routes[input[q].target]) ELSE {})
         /\ MuxAt <= Len(Chain(q))
<1> DEFINE App == Middleware \cup {"recover", "log"}
           n == Len(Chain(q))
           routed == input[q].target \in DOMAIN stack.routes
           r == stack.routes[input[q].target]
           p == Len(r)
<1>1. /\ MuxAt \in Nat /\ MuxAt > 1 /\ n \in Nat
      /\ \A i \in 1 .. MuxAt - 1 : Chain(q)[i] = stack.app[i]
      /\ Chain(q)[MuxAt] = "mux"
      /\ ~routed => n = MuxAt
      /\ routed => /\ p \in Nat /\ r \in Seq(RouteLayers) /\ n = MuxAt + p + 1
                   /\ \A i \in 1 .. p : Chain(q)[MuxAt + i] = r[i]
                   /\ Chain(q)[MuxAt + p + 1] = "handler"
  BY ChainParts
<1>2. stack.app \in Seq(App) /\ MuxAt = Len(stack.app) + 1
  BY DEF ConfigInv, Chains, MuxAt
<1> HIDE DEF n, routed, r, p
<1>3. k \in Nat /\ k <= n /\ k >= 1 /\ MuxAt <= n
  BY <1>1 DEF n
<1>4. CASE k < MuxAt
  <2>1. Chain(q)[k] \in App /\ Chain(q)[k] \in ToSet(stack.app)
    <3>1. k \in 1 .. MuxAt - 1 /\ k \in 1 .. Len(stack.app)
      BY <1>1, <1>2, <1>3, <1>4, LenProperties
    <3> QED BY <1>1, <1>2, <3>1, ElementOfSeq, ToSetOf
  <2>2. Chain(q)[k] \notin {"mux", "handler"}
    BY <2>1 DEF Middleware
  <2> QED BY <1>1, <1>3, <1>4, <2>1, <2>2 DEF n, routed, r
<1>5. CASE k = MuxAt
  BY <1>1, <1>3, <1>5 DEF n, routed, r
<1>6. CASE k > MuxAt /\ k < n
  <2>1. routed /\ k - MuxAt \in 1 .. p /\ MuxAt + (k - MuxAt) = k
    BY <1>1, <1>3, <1>6
  <2>2. Chain(q)[k] = r[k - MuxAt]
    BY <1>1, <2>1
  <2>3. Chain(q)[k] \in RouteLayers /\ Chain(q)[k] \in ToSet(r)
    BY <1>1, <2>1, <2>2, ElementOfSeq, ToSetOf DEF p
  <2>4. Chain(q)[k] \notin {"mux", "handler", "recover"}
    BY <2>3 DEF RouteLayers, Middleware
  <2> QED BY <1>1, <1>3, <1>6, <2>1, <2>3, <2>4 DEF n, routed, r
<1>7. CASE k > MuxAt /\ k = n
  <2>1. routed /\ k = MuxAt + p + 1
    BY <1>1, <1>7
  <2>2. Chain(q)[k] = "handler"
    BY <1>1, <2>1
  <2> QED BY <1>1, <1>3, <1>7, <2>1, <2>2 DEF n, routed, r
<1> QED BY <1>1, <1>3, <1>4, <1>5, <1>6, <1>7

LEMMA ChainHas ==
  ASSUME ConfigInv, NEW q \in Requests, input[q].target \in DOMAIN stack.routes,
         NEW layer, layer \in ToSet(stack.app) \cup ToSet(stack.routes[input[q].target])
  PROVE  \E k \in 1 .. Len(Chain(q)) - 1 : Chain(q)[k] = layer
<1> DEFINE App == Middleware \cup {"recover", "log"}
           n == Len(Chain(q))
           r == stack.routes[input[q].target]
           p == Len(r)
<1>1. /\ MuxAt \in Nat /\ MuxAt > 1 /\ n \in Nat
      /\ \A i \in 1 .. MuxAt - 1 : Chain(q)[i] = stack.app[i]
      /\ p \in Nat /\ r \in Seq(RouteLayers) /\ n = MuxAt + p + 1
      /\ \A i \in 1 .. p : Chain(q)[MuxAt + i] = r[i]
  BY ChainParts
<1>2. stack.app \in Seq(App) /\ MuxAt = Len(stack.app) + 1 /\ Len(stack.app) \in Nat
  BY LenProperties DEF ConfigInv, Chains, MuxAt
<1>3. CASE layer \in ToSet(stack.app)
  <2>1. PICK i \in 1 .. Len(stack.app) : stack.app[i] = layer
    BY <1>2, <1>3, ToSetOf
  <2>2. i \in 1 .. MuxAt - 1 /\ i \in 1 .. n - 1
    <3> HIDE DEF n, p
    <3> QED BY <1>1, <1>2
  <2> QED BY <1>1, <2>1, <2>2
<1>4. CASE layer \in ToSet(r)
  <2>0. \E i \in 1 .. Len(r) : r[i] = layer
    <3> HIDE DEF r
    <3> QED BY <1>1, <1>4, ToSetOf
  <2>1. PICK i \in 1 .. p : r[i] = layer
    BY <2>0
  <2>2. MuxAt + i \in 1 .. n - 1
    <3> HIDE DEF n, p
    <3> QED BY <1>1
  <2> QED BY <1>1, <2>1, <2>2
<1> QED BY <1>3, <1>4

-----------------------------------------------------------------------------
(* Places: where a goroutine is, and which Contexts it holds there.        *)

Serving(q) == dir[q] \in {"down", "up", "forget", "release"}

Inside(q) == \/ dir[q] = "down" /\ at[q] > MuxAt
             \/ dir[q] = "up" /\ at[q] >= MuxAt

Place(q) ==
  /\ dir[q] \in {"new", "forget", "release", "done"} => at[q] = 0
  /\ dir[q] = "down" => at[q] \in 1 .. Len(Chain(q))
  /\ dir[q] = "up" => at[q] \in 0 .. Len(Chain(q)) - 1
  /\ dir[q] = "up" /\ at[q] = 0 => res[q] # Panic
  /\ IF Serving(q) THEN base[q] \in Contexts ELSE base[q] = None
  /\ IF Inside(q) THEN inner[q] \in Contexts ELSE inner[q] = None

(* The Context that ServeHTTP made carries the request's pointer.          *)
Pointed(q) == Serving(q) => ctx[base[q]].r.of = q

(* What a step does to the place of its request: ServeHTTP begins, ...     *)
Begins(q) ==
  /\ dir[q] = "new" /\ dir'[q] = "down" /\ at'[q] = 1
  /\ base'[q] \in Contexts /\ inner'[q] = inner[q]

(* ... a layer calls the next, ...                                         *)
Calling(q) ==
  /\ dir[q] = "down" /\ dir'[q] = "down" /\ at'[q] = at[q] + 1
  /\ Layer(q) # "handler" /\ base'[q] = base[q]
  /\ IF Layer(q) = "mux"
     THEN inner'[q] \in Contexts /\ input[q].target \in DOMAIN stack.routes
     ELSE inner'[q] = inner[q]

(* ... or returns, never recover itself without having called, ...         *)
Returning(q) ==
  /\ dir[q] \in {"down", "up"} /\ dir'[q] = "up" /\ at'[q] = at[q] - 1
  /\ Layer(q) # "serve" /\ base'[q] = base[q]
  /\ Layer(q) = "recover" => dir[q] = "up" /\ res'[q] # Panic
  /\ inner'[q] = IF dir[q] = "up" /\ Layer(q) = "mux" THEN None ELSE inner[q]

(* ... ServeHTTP answers an error and lets its Context go, ...             *)
Leaving(q) ==
  /\ \/ dir[q] = "up" /\ Layer(q) = "serve" /\ dir'[q] = "forget"
     \/ dir[q] = "forget" /\ dir'[q] = "release"
     \/ dir[q] = "release" /\ dir'[q] = "done"
  /\ at'[q] = at[q] /\ inner'[q] = inner[q]
  /\ base'[q] = IF dir[q] = "release" THEN None ELSE base[q]

(* ... or all stay where they are.                                         *)
Staying(q) ==
  /\ dir[q] \in {"down", "up"} /\ dir'[q] = dir[q] /\ at'[q] = at[q]
  /\ base'[q] = base[q] /\ inner'[q] = inner[q] /\ res'[q] \in {res[q], Nil}

Moves(q) == Begins(q) \/ Calling(q) \/ Returning(q) \/ Leaving(q) \/ Staying(q)

PlaceInv ==
  /\ ConfigInv
  /\ res \in [Requests -> Status \cup {Nil, Panic}]
  /\ pool \subseteq Contexts
  /\ reqCtxMap \in [Requests -> Contexts \cup {None}]
  /\ base \in [Requests -> Contexts \cup {None}]
  /\ inner \in [Requests -> Contexts \cup {None}]
  /\ \A q \in Requests :
       /\ Place(q)
       /\ reqCtxMap[q] = IF dir[q] \in {"down", "up", "forget"} THEN base[q]
                         ELSE None

(* The places of the others, and how the map of requests changes.          *)
Others(q) ==
  /\ \A k \in Requests : k # q =>
       /\ dir'[k] = dir[k] /\ at'[k] = at[k] /\ res'[k] = res[k]
       /\ base'[k] = base[k] /\ inner'[k] = inner[k]
       /\ reqCtxMap'[k] = reqCtxMap[k]
  /\ reqCtxMap'[q] = CASE dir[q] = "new" -> base'[q]
                       [] dir[q] = "forget" -> None
                       [] OTHER -> reqCtxMap[q]

LEMMA EndingType == \A e \in {"nil", "fail", "plain", "panic"} :
                      Ending[e] \in Status \cup {Nil, Panic}
BY DEF Ending, Status, Nil, Panic

LEMMA BindType ==
  ASSUME NEW does, NEW capped
  PROVE  Bind(does, capped) \in Status \cup {Nil}
BY DEF Bind, BindJSON, BindForm, DecodeValues, Status, Nil

LEMMA LayerNotServe ==
  ASSUME PlaceInv, NEW q \in Requests, Layer(q) # "serve"
  PROVE  at[q] # 0
BY DEF Layer

LEMMA GoroutineMoves ==
  ASSUME PipelineAssumption, PlaceInv, NEW q \in Requests, Pointed(q),
         Goroutine(q) \/ DeadlinePasses(q)
  PROVE  /\ Moves(q) /\ Others(q)
         /\ res' \in [Requests -> Status \cup {Nil, Panic}]
         /\ base' \in [Requests -> Contexts \cup {None}]
         /\ inner' \in [Requests -> Contexts \cup {None}]
         /\ reqCtxMap' \in [Requests -> Contexts \cup {None}]
<1>1. /\ dir \in [Requests -> {"new", "down", "up", "forget", "release", "done"}]
      /\ at \in [Requests -> Nat]
      /\ res \in [Requests -> Status \cup {Nil, Panic}]
      /\ base \in [Requests -> Contexts \cup {None}]
      /\ inner \in [Requests -> Contexts \cup {None}]
      /\ reqCtxMap \in [Requests -> Contexts \cup {None}]
      /\ input[q] \in Input /\ pool \subseteq Contexts
      /\ Conf.auth.fail \in Status \cup {Nil} /\ Conf.pprof.fail \in Status \cup {Nil}
  <2>1. input[q] \in Input
    BY ConfTyped DEF PlaceInv, ConfigInv
  <2>2. Conf.auth.fail \in Status \cup {Nil} /\ Conf.pprof.fail \in Status \cup {Nil}
    <3>1. 401 \in Status
      BY DEF Status
    <3> QED BY <3>1, ConfTyped DEF PlaceInv, ConfigInv, Configured
  <2> QED BY <2>1, <2>2 DEF PlaceInv, ConfigInv
<1> DEFINE Goal == /\ Moves(q) /\ Others(q)
                   /\ res' \in [Requests -> Status \cup {Nil, Panic}]
                   /\ base' \in [Requests -> Contexts \cup {None}]
                   /\ inner' \in [Requests -> Contexts \cup {None}]
                   /\ reqCtxMap' \in [Requests -> Contexts \cup {None}]
<1> SUFFICES Goal
  OBVIOUS
<1>2. ASSUME Call(q), UNCHANGED ctxVars, dir[q] = "down",
             Layer(q) \notin {"handler", "mux"}
      PROVE  Goal
  BY <1>1, <1>2 DEF Call, ctxVars, Moves, Calling, Others
<1>3. ASSUME NEW r \in Status \cup {Nil, Panic}, Return(q, r), UNCHANGED ctxVars,
             dir[q] \in {"down", "up"}, Layer(q) # "serve",
             Layer(q) = "recover" => dir[q] = "up" /\ r # Panic,
             Layer(q) = "mux" => dir[q] = "down"
      PROVE  Goal
  BY <1>1, <1>3 DEF Return, ctxVars, Moves, Returning, Others
<1>4. {Nil, 200, 204, 401, 403, 500, 504} \subseteq Status \cup {Nil}
  BY DEF Status
<1>5. CASE ServeHTTP(q)
  <2>1. PICK c \in pool : base' = [base EXCEPT ![q] = c]
                          /\ reqCtxMap' = [reqCtxMap EXCEPT ![q] = c]
    BY <1>5 DEF ServeHTTP
  <2>2. /\ dir[q] = "new" /\ dir' = [dir EXCEPT ![q] = "down"]
        /\ at' = [at EXCEPT ![q] = 1] /\ UNCHANGED <<res, inner>>
    BY <1>5 DEF ServeHTTP
  <2> QED BY <1>1, <2>1, <2>2 DEF Moves, Begins, Others
<1>6. CASE ServeError(q)
  <2>1. /\ dir[q] = "up" /\ Layer(q) = "serve"
        /\ dir' = [dir EXCEPT ![q] = "forget"] /\ UNCHANGED <<at, res, ctxVars>>
    BY <1>6 DEF ServeError, Up
  <2> QED BY <1>1, <2>1 DEF Moves, Leaving, Others, ctxVars
<1>7. CASE Forget(q)
  BY <1>1, <1>7 DEF Forget, Moves, Leaving, Others
<1>8. CASE Release(q)
  BY <1>1, <1>8 DEF Release, Moves, Leaving, Others
<1>9. CASE Recover(q) \/ RequestLog(q) \/ RequestID(q) \/ Timeout(q) \/ GZip(q)
  <2>1. /\ Call(q) /\ UNCHANGED ctxVars /\ dir[q] = "down"
        /\ Layer(q) \in {"recover", "log", "requestid", "timeout", "gzip"}
    BY <1>9 DEF Recover, RequestLog, RequestID, Timeout, GZip, Down
  <2> QED BY <1>2, <2>1
<1>10. CASE CORS(q)
  <2>1. /\ dir[q] = "down" /\ Layer(q) = "cors" /\ UNCHANGED ctxVars
        /\ Return(q, Nil) \/ Call(q)
    BY <1>10 DEF CORS, Down
  <2> QED BY <1>2, <1>3, <2>1
<1>11. CASE Auth(q, "auth", Conf.auth) \/ Auth(q, "pprofauth", Conf.pprof)
  <2>1. PICK a \in {Conf.auth, Conf.pprof} :
          /\ dir[q] = "down" /\ Layer(q) \in {"auth", "pprofauth"} /\ UNCHANGED ctxVars
          /\ Return(q, a.fail) \/ Call(q)
    BY <1>11 DEF Auth, Down
  <2> QED BY <1>1, <1>2, <1>3, <2>1
<1>12. CASE BasicAuth(q)
  <2>1. /\ dir[q] = "down" /\ Layer(q) = "basicauth" /\ UNCHANGED ctxVars
        /\ Return(q, 401) \/ Call(q)
    BY <1>12 DEF BasicAuth, Down
  <2> QED BY <1>2, <1>3, <1>4, <2>1
<1>13. CASE Authorize(q)
  <2> DEFINE held == ctx[Ctx(q)].identity
             answer == IF held = None THEN 401 ELSE RoleCheck(Conf.roles, held.id)
  <2>1. /\ dir[q] = "down" /\ Layer(q) = "authorize" /\ UNCHANGED ctxVars
        /\ Return(q, answer) \/ Call(q)
    BY <1>13 DEF Authorize, Down
  <2>2. answer \in Status \cup {Nil}
    BY <1>4 DEF RoleCheck, Nil
  <2> HIDE DEF answer
  <2> QED BY <1>2, <1>3, <2>1, <2>2
<1>14. CASE MuxAnswers(q)
  <2>1. /\ dir[q] = "down" /\ Layer(q) = "mux" /\ UNCHANGED ctxVars /\ Return(q, Nil)
    BY <1>14 DEF MuxAnswers, Down
  <2> QED BY <1>3, <2>1
<1>15. CASE Handle(q)
  <2>1. /\ dir[q] = "down" /\ Layer(q) = "mux" /\ Call(q)
        /\ input[q].target \in DOMAIN stack.routes /\ UNCHANGED <<reqCtxMap, base>>
    BY <1>15 DEF Handle, Down
  <2>2. base[q] \in Contexts /\ reqCtxMap[q] = base[q] /\ ctx[base[q]].r.of = q
    BY <2>1 DEF PlaceInv, Place, Serving, Pointed
  <2>3. PICK c \in Contexts : inner' = [inner EXCEPT ![q] = c]
    BY <1>1, <1>15, <2>2 DEF Handle
  <2> QED BY <1>1, <2>1, <2>3 DEF Call, Moves, Calling, Others
<1>16. CASE Handler(q)
  <2> DEFINE does == input[q]
             bound == Bind(does, ctx[Ctx(q)].app /\ Conf.limited)
             stuck == does.writes = "events" /\ ctx[Ctx(q)].w.gz
             r == IF bound # Nil THEN bound ELSE IF stuck THEN 500
                  ELSE Ending[does.ends]
  <2>1. /\ dir[q] = "down" /\ Layer(q) = "handler" /\ UNCHANGED ctxVars
        /\ Return(q, r)
    BY <1>16 DEF Handler, Down
  <2>2. r \in Status \cup {Nil, Panic}
    <3>1. bound \in Status \cup {Nil}
      BY BindType
    <3>2. Ending[does.ends] \in Status \cup {Nil, Panic}
      BY <1>1, EndingType DEF Input
    <3> HIDE DEF bound, stuck
    <3> QED BY <1>4, <3>1, <3>2
  <2> HIDE DEF r
  <2> QED BY <1>3, <2>1, <2>2
<1>17. CASE PassUp(q)
  <2>1. /\ dir[q] = "up" /\ UNCHANGED ctxVars /\ Return(q, res[q])
        /\ Layer(q) \notin {"serve", "recover", "mux"}
    BY <1>17 DEF PassUp
  <2> QED BY <1>1, <1>3, <2>1
<1>18. CASE GZipReturns(q) \/ RequestLogReturns(q)
  <2>1. /\ dir[q] = "up" /\ UNCHANGED ctxVars /\ Return(q, res[q])
        /\ Layer(q) \in {"gzip", "log"}
    BY <1>18 DEF GZipReturns, RequestLogReturns, Up
  <2> QED BY <1>1, <1>3, <2>1
<1>19. CASE TimeoutReturns(q)
  <2>1. /\ dir[q] = "up" /\ UNCHANGED ctxVars /\ Layer(q) = "timeout"
        /\ Return(q, IF expired[q] /\ res[q] # Panic THEN 504 ELSE res[q])
    BY <1>19 DEF TimeoutReturns, Up
  <2>2. (IF expired[q] /\ res[q] # Panic THEN 504 ELSE res[q])
          \in Status \cup {Nil, Panic}
    BY <1>1, <1>4
  <2> QED BY <1>3, <2>1, <2>2
<1>20. CASE RecoverReturns(q)
  <2>1. /\ dir[q] = "up" /\ UNCHANGED ctxVars /\ Layer(q) = "recover"
        /\ Return(q, IF res[q] = Panic THEN 500 ELSE res[q])
    BY <1>20 DEF RecoverReturns, Up
  <2>2. /\ (IF res[q] = Panic THEN 500 ELSE res[q]) \in Status \cup {Nil, Panic}
        /\ (IF res[q] = Panic THEN 500 ELSE res[q]) # Panic
    BY <1>1, <1>4 DEF Panic
  <2> QED BY <1>3, <2>1, <2>2
<1>21. CASE HandleError(q)
  <2>1. /\ dir[q] = "up" /\ UNCHANGED <<dir, at, ctxVars>>
        /\ res' = [res EXCEPT ![q] = Nil]
    BY <1>21 DEF HandleError, Up
  <2> QED BY <1>1, <2>1 DEF Moves, Staying, Others, ctxVars
<1>22. CASE HandleReturns(q)
  <2>1. /\ dir[q] = "up" /\ Layer(q) = "mux" /\ UNCHANGED <<reqCtxMap, base>>
        /\ inner' = [inner EXCEPT ![q] = None] /\ Return(q, res[q])
    BY <1>22 DEF HandleReturns, Up
  <2> QED BY <1>1, <2>1 DEF Return, Moves, Returning, Others
<1>23. CASE DeadlinePasses(q)
  <2>1. UNCHANGED <<pcVars, ctxVars>> /\ dir[q] \in {"down", "up"}
    BY <1>23 DEF DeadlinePasses
  <2> QED BY <1>1, <2>1 DEF pcVars, ctxVars, Moves, Staying, Others
<1> QED BY <1>5, <1>6, <1>7, <1>8, <1>9, <1>10, <1>11, <1>12, <1>13, <1>14, <1>15,
           <1>16, <1>17, <1>18, <1>19, <1>20, <1>21, <1>22, <1>23 DEF Goroutine

LEMMA PlaceInit == ASSUME PipelineAssumption, Init PROVE PlaceInv
<1>1. scenario \in DOMAIN Scenarios /\ made = 0 /\ stack = NewApp
  BY DEF Init
<1>2. /\ WellFormed(Conf.script) /\ Len(Conf.script) \in Nat
      /\ Inputs[scenario] \subseteq Input
  BY <1>1, ConfTyped
<1>3. Chains(stack) /\ Guarding(stack, Conf.script, made)
  BY <1>1, <1>2, NewAppChains
<1>4. ConfigInv
  BY <1>1, <1>2, <1>3 DEF Init, ConfigInv
<1> QED BY <1>4 DEF Init, PlaceInv, Place, Serving, Inside, Nil, Panic

(* Registration happens while there are no requests.                       *)
LEMMA SetupConfig ==
  ASSUME PipelineAssumption, ConfigInv, Setup
  PROVE  /\ ConfigInv' /\ UNCHANGED <<pcVars, ctxVars, ctx, netVars, log>>
         /\ UNCHANGED <<scenario, expired, histVars>>
         /\ \A q \in Requests : dir[q] = "new"
         /\ made' = made + 1 /\ made \in Nat /\ made + 1 \in DOMAIN Conf.script
         /\ stack' = Register(stack, Conf.script[made + 1])
<1>1. /\ made < Len(Conf.script) /\ made' = made + 1 /\ UNCHANGED scenario
      /\ stack' = Register(stack, Conf.script[made + 1])
      /\ UNCHANGED <<pcVars, ctxVars, ctx, netVars, log>>
      /\ UNCHANGED <<scenario, expired, histVars>>
  BY DEF Setup
<1>2. Conf' = Conf
  BY <1>1 DEF Conf
<1>3. /\ WellFormed(Conf.script) /\ Len(Conf.script) \in Nat
      /\ DOMAIN Conf.script = 1 .. Len(Conf.script)
  BY ConfTyped DEF ConfigInv
<1>4. made \in Nat /\ made + 1 \in DOMAIN Conf.script
      /\ made + 1 \in 0 .. Len(Conf.script)
  BY <1>1, <1>3 DEF ConfigInv
<1>5. Chains(stack') /\ Guarding(stack', Conf.script, made')
  BY <1>1, <1>3, <1>4, RegisterChains, RegisterGuards DEF ConfigInv
<1>6. \A q \in Requests : dir[q] = "new"
  BY <1>1, <1>3 DEF ConfigInv
<1>7. UNCHANGED <<input, dir, at>>
  BY <1>1 DEF pcVars
<1>8. Chains(stack)' /\ Guarding(stack, Conf.script, made)'
  BY <1>2, <1>5 DEF Chains, Guarding
<1>9. (made \in 0 .. Len(Conf.script))'
  BY <1>1, <1>2, <1>4
<1> HIDE DEF Conf
<1>10. ConfigInv'
  BY <1>1, <1>6, <1>7, <1>8, <1>9 DEF ConfigInv
<1> QED BY <1>1, <1>4, <1>6, <1>10

LEMMA PlaceStep ==
  ASSUME PipelineAssumption, PlaceInv, NEW q \in Requests, Pointed(q),
         Goroutine(q) \/ DeadlinePasses(q), pool' \subseteq Contexts
  PROVE  PlaceInv' /\ UNCHANGED Chain(q) /\ UNCHANGED MuxAt
<1> DEFINE n == Len(Chain(q))
           m == MuxAt
<1>1. /\ Moves(q) /\ Others(q)
      /\ res' \in [Requests -> Status \cup {Nil, Panic}]
      /\ base' \in [Requests -> Contexts \cup {None}]
      /\ inner' \in [Requests -> Contexts \cup {None}]
      /\ reqCtxMap' \in [Requests -> Contexts \cup {None}]
  BY GoroutineMoves
<1>2. ConfigInv
  BY DEF PlaceInv
<1>3. /\ UNCHANGED <<scenario, made, stack, input>> /\ made = Len(Conf.script)
      /\ dir' \in [Requests -> {"new", "down", "up", "forget", "release", "done"}]
      /\ at' = [at EXCEPT ![q] = at'[q]]
  BY <1>2, GoroutineConfig DEF config
<1>4. /\ \A k \in Requests : Chain(k)' = Chain(k)
      /\ MuxAt' = MuxAt /\ Conf' = Conf
  BY <1>3 DEF Chain, MuxAt, Conf
<1>5. /\ m \in Nat /\ m > 1 /\ n \in Nat /\ m <= n
      /\ Chain(q)[1] = "recover" /\ Chain(q)[m] = "mux"
      /\ \A k \in 1 .. n : (Chain(q)[k] = "mux" <=> k = m)
      /\ \A k \in 1 .. n : Chain(q)[k] = "handler" <=> k = n /\ k > m
      /\ input[q].target \in DOMAIN stack.routes => n > m
  <2>1. 1 \in 1 .. n /\ m \in Nat /\ m > 1 /\ n \in Nat
        /\ Chain(q)[1] = "recover" /\ Chain(q)[m] = "mux"
        /\ (input[q].target \in DOMAIN stack.routes => n > m)
    <3>1. /\ m \in Nat /\ m > 1 /\ n \in Nat
          /\ Chain(q)[1] = "recover" /\ Chain(q)[m] = "mux"
          /\ DOMAIN Chain(q) = 1 .. n
      BY <1>2, ChainParts
    <3>2. CASE input[q].target \in DOMAIN stack.routes
      <4>1. PICK p \in Nat : n = m + p + 1
        BY <1>2, <3>2, ChainParts
      <4> HIDE DEF n, m
      <4> QED BY <3>1, <4>1
    <3>3. CASE input[q].target \notin DOMAIN stack.routes
      <4>1. n = m
        BY <1>2, <3>3, ChainParts
      <4> HIDE DEF n, m
      <4> QED BY <3>1, <3>3, <4>1
    <3> QED BY <3>1, <3>2, <3>3
  <2>2. m <= n
    BY <1>2, <2>1, ChainShape
  <2> QED BY <1>2, <2>1, <2>2, ChainShape
<1>6. /\ Place(q) /\ at[q] \in Nat /\ dir \in [Requests -> {"new", "down", "up", "forget", "release", "done"}]
      /\ at \in [Requests -> Nat] /\ Layer(q) = IF at[q] = 0 THEN "serve" ELSE Chain(q)[at[q]]
  BY DEF PlaceInv, ConfigInv, Layer
<1> HIDE DEF n, m
<1>7. Place(q)' /\ at'[q] \in Nat
  <2>1. Place(q)' <=>
          /\ dir'[q] \in {"new", "forget", "release", "done"} => at'[q] = 0
          /\ dir'[q] = "down" => at'[q] \in 1 .. n
          /\ dir'[q] = "up" => at'[q] \in 0 .. n - 1
          /\ dir'[q] = "up" /\ at'[q] = 0 => res'[q] # Panic
          /\ IF dir'[q] \in {"down", "up", "forget", "release"}
             THEN base'[q] \in Contexts ELSE base'[q] = None
          /\ IF \/ dir'[q] = "down" /\ at'[q] > m
                \/ dir'[q] = "up" /\ at'[q] >= m
             THEN inner'[q] \in Contexts ELSE inner'[q] = None
    BY <1>4 DEF Place, Serving, Inside, n, m
  <2>2. /\ dir[q] \in {"new", "forget", "release", "done"} => at[q] = 0
        /\ dir[q] = "down" => at[q] \in 1 .. n
        /\ dir[q] = "up" => at[q] \in 0 .. n - 1
        /\ dir[q] = "up" /\ at[q] = 0 => res[q] # Panic
        /\ IF dir[q] \in {"down", "up", "forget", "release"}
           THEN base[q] \in Contexts ELSE base[q] = None
        /\ IF \/ dir[q] = "down" /\ at[q] > m
              \/ dir[q] = "up" /\ at[q] >= m
           THEN inner[q] \in Contexts ELSE inner[q] = None
    BY <1>6 DEF Place, Serving, Inside, n, m
  <2> DEFINE Goal == Place(q)' /\ at'[q] \in Nat
  <2> SUFFICES Goal
    OBVIOUS
  <2>3. CASE Begins(q)
    BY <1>5, <1>6, <2>1, <2>2, <2>3 DEF Begins
  <2>4. CASE Calling(q)
    <3>1. /\ dir[q] = "down" /\ dir'[q] = "down" /\ at'[q] = at[q] + 1
          /\ Layer(q) # "handler" /\ base'[q] = base[q]
          /\ IF Layer(q) = "mux"
             THEN inner'[q] \in Contexts /\ input[q].target \in DOMAIN stack.routes
             ELSE inner'[q] = inner[q]
      BY <2>4 DEF Calling
    <3>2. at[q] \in 1 .. n /\ Layer(q) = Chain(q)[at[q]] /\ (Layer(q) = "mux" <=> at[q] = m)
      BY <1>5, <1>6, <2>2, <3>1
    <3>3. at[q] # n
      BY <1>5, <3>1, <3>2
    <3>4. at'[q] \in 1 .. n
      BY <1>5, <3>1, <3>2, <3>3
    <3> QED BY <1>5, <2>1, <2>2, <3>1, <3>2, <3>4
  <2>5. CASE Returning(q)
    <3>1. /\ dir[q] \in {"down", "up"} /\ dir'[q] = "up" /\ at'[q] = at[q] - 1
          /\ Layer(q) # "serve" /\ base'[q] = base[q]
          /\ Layer(q) = "recover" => dir[q] = "up" /\ res'[q] # Panic
          /\ inner'[q] = IF dir[q] = "up" /\ Layer(q) = "mux" THEN None ELSE inner[q]
      BY <2>5 DEF Returning
    <3>2. at[q] \in 1 .. n /\ Layer(q) = Chain(q)[at[q]] /\ (Layer(q) = "mux" <=> at[q] = m)
      BY <1>5, <1>6, <2>2, <3>1
    <3>3. at'[q] \in 0 .. n - 1 /\ (at'[q] = 0 => Layer(q) = "recover")
      BY <1>5, <3>1, <3>2
    <3> QED BY <1>5, <2>1, <2>2, <3>1, <3>2, <3>3
  <2>6. CASE Leaving(q)
    <3>1. dir[q] = "up" /\ Layer(q) = "serve" => at[q] = 0
      <4>1. dir[q] = "up" /\ at[q] # 0 => Chain(q)[at[q]] \in Layers
        <5>1. Chain(q) \in Seq(Layers)
          BY <1>2, ChainParts
        <5>2. dir[q] = "up" /\ at[q] # 0 => at[q] \in 1 .. n
          BY <1>5, <2>2
        <5> QED BY <5>1, <5>2, ElementOfSeq DEF n
      <4> QED BY <1>6, <4>1 DEF Layers
    <3> QED BY <1>5, <1>6, <2>1, <2>2, <2>6, <3>1 DEF Leaving
  <2>7. CASE Staying(q)
    BY <1>5, <1>6, <2>1, <2>2, <2>7 DEF Staying, Nil, Panic
  <2> QED BY <1>1, <2>3, <2>4, <2>5, <2>6, <2>7 DEF Moves
<1>8. ASSUME NEW k \in Requests, k # q PROVE Place(k)'
  BY <1>1, <1>4, <1>8 DEF PlaceInv, Place, Others, Serving, Inside
<1>9. ASSUME NEW k \in Requests
      PROVE  reqCtxMap'[k] = IF dir'[k] \in {"down", "up", "forget"} THEN base'[k]
                             ELSE None
  <2>1. reqCtxMap[k] = IF dir[k] \in {"down", "up", "forget"} THEN base[k] ELSE None
    BY DEF PlaceInv
  <2>2. CASE k = q
    <3>1. /\ reqCtxMap'[q] = CASE dir[q] = "new" -> base'[q]
                                [] dir[q] = "forget" -> None
                                [] OTHER -> reqCtxMap[q]
          /\ reqCtxMap[q] = IF dir[q] \in {"down", "up", "forget"} THEN base[q] ELSE None
      BY <1>1, <2>1, <2>2 DEF Others
    <3>2. CASE dir[q] = "forget"
      BY <1>1, <2>2, <3>1, <3>2 DEF Moves, Begins, Calling, Returning, Leaving, Staying
    <3>3. CASE Begins(q)
      BY <2>2, <3>1, <3>3 DEF Begins
    <3>4. CASE dir[q] # "forget" /\ (Calling(q) \/ Returning(q) \/ Staying(q))
      BY <1>6, <2>2, <3>1, <3>4 DEF Calling, Returning, Staying, Place, Serving
    <3>5. CASE dir[q] # "forget" /\ Leaving(q)
      BY <2>2, <3>1, <3>5 DEF Leaving
    <3> QED BY <1>1, <3>2, <3>3, <3>4, <3>5 DEF Moves
  <2>3. CASE k # q
    BY <1>1, <2>1, <2>3 DEF Others
  <2> QED BY <2>2, <2>3
<1>10. ASSUME NEW k \in Requests PROVE dir'[k] # "new" => made' = Len(Conf.script)'
  BY <1>3, <1>4
<1>11. Chains(stack)' /\ Guarding(stack, Conf.script, made)'
  BY <1>2, <1>3, <1>4 DEF Chains, Guarding, ConfigInv
<1>12. at' \in [Requests -> Nat]
  BY <1>3, <1>6, <1>7
<1>13. (scenario \in DOMAIN Scenarios)' /\ (made \in 0 .. Len(Conf.script))'
       /\ (input \in [Requests -> Inputs[scenario]])'
  BY <1>2, <1>3, <1>4 DEF ConfigInv
<1>14. ConfigInv'
  <2> HIDE DEF Conf
  <2> QED BY <1>3, <1>10, <1>11, <1>12, <1>13 DEF ConfigInv
<1> QED BY <1>1, <1>4, <1>7, <1>8, <1>9, <1>14 DEF PlaceInv

-----------------------------------------------------------------------------
(* Contexts: whose they are, and what they hold.                           *)

OwnedBy(x, q, writers) ==
  /\ x.w.conn = q /\ x.r.of = q /\ x.w.sw \in writers \cup {None}
  /\ x.user \in {q, None} /\ x.reqID \in {q, None}
  /\ x.identity # None => x.identity.of = q

(* What ServeHTTP's Context holds outlives what Handle's holds, so that it *)
(* never writes through the other's statusWriter.                          *)
OwnContexts(q) ==
  /\ base[q] # None => OwnedBy(ctx[base[q]], q, {base[q]})
  /\ inner[q] # None => OwnedBy(ctx[inner[q]], q, {base[q], inner[q]})

Exclusive ==
  /\ \A q, k \in Requests : q # k => Using(q) \cap Using(k) = {}
  /\ \A q \in Requests : Using(q) \cap pool = {}
  /\ \A c \in Contexts : c \in pool \/ \E q \in Requests : c \in Using(q)
  /\ \A c \in pool : ctx[c] = Clean

CtxInv ==
  /\ ctx \in [Contexts -> Context]
  /\ Exclusive
  /\ \A q \in Requests : OwnContexts(q)

(* What a step of q does that leaves every Context where it is.            *)
Kept(q) ==
  /\ UNCHANGED <<pool, base, inner>>
  /\ ctx' \in [Contexts -> Context]
  /\ \A c \in Contexts \ Using(q) : ctx'[c] = ctx[c]
  /\ OwnContexts(q)'

LEMMA KeptContexts ==
  ASSUME PipelineAssumption, PlaceInv, CtxInv, NEW q \in Requests, Kept(q)
  PROVE  CtxInv'
<1>1. UNCHANGED <<pool, base, inner>> /\ pool \subseteq Contexts
      /\ \A k \in Requests : Using(k)' = Using(k) /\ Using(k) \subseteq Contexts
  BY DEF Kept, Using, PlaceInv
<1>2. ASSUME NEW k \in Requests, k # q PROVE OwnContexts(k)'
  <2>1. \A c \in Using(k) : ctx'[c] = ctx[c]
    BY <1>1, <1>2 DEF Kept, CtxInv, Exclusive
  <2> QED BY <1>1, <2>1 DEF CtxInv, OwnContexts, Using
<1>3. Exclusive'
  <2>1. \A c \in pool : ctx'[c] = ctx[c]
    BY <1>1 DEF Kept, CtxInv, Exclusive
  <2>2. Clean' = Clean
    BY DEF Clean, Fresh, Direct
  <2> QED BY <1>1, <2>1, <2>2 DEF CtxInv, Exclusive
<1> QED BY <1>2, <1>3 DEF Kept, CtxInv

(* The usual step: one field of one Context in use.                        *)
LEMMA OneContext ==
  ASSUME PipelineAssumption, PlaceInv, CtxInv, NEW q \in Requests,
         UNCHANGED <<pool, base, inner>>, NEW c \in Using(q), NEW y \in Context,
         OwnedBy(y, q, {base[q]} \cup {c}), ctx' = [ctx EXCEPT ![c] = y]
  PROVE  Kept(q)
<1>1. c \in Contexts /\ Using(q) \subseteq Contexts
  BY DEF Using, PlaceInv
<1>2. ctx' \in [Contexts -> Context] /\ ctx'[c] = y
      /\ \A d \in Contexts : d # c => ctx'[d] = ctx[d]
  BY <1>1 DEF CtxInv
<1>3. OwnContexts(q) /\ base[q] \in Contexts \cup {None} /\ inner[q] \in Contexts \cup {None}
      /\ base' = base /\ inner' = inner
  BY DEF CtxInv, PlaceInv
<1>4. base[q] # None => OwnedBy(ctx'[base[q]], q, {base[q]})
  <2>1. CASE base[q] = c
    BY <1>2, <2>1 DEF OwnedBy
  <2>2. CASE base[q] # c
    BY <1>2, <1>3, <2>2 DEF OwnContexts
  <2> QED BY <2>1, <2>2
<1>5. inner[q] # None => OwnedBy(ctx'[inner[q]], q, {base[q], inner[q]})
  <2>1. CASE inner[q] = c
    BY <1>2, <2>1 DEF OwnedBy
  <2>2. CASE inner[q] # c
    BY <1>2, <1>3, <2>2 DEF OwnContexts
  <2> QED BY <2>1, <2>2
<1>6. OwnContexts(q)'
  BY <1>3, <1>4, <1>5 DEF OwnContexts
<1> QED BY <1>1, <1>2, <1>6 DEF Kept

(* Every field that a layer may set.                                       *)
LEMMA FieldsOwned ==
  ASSUME PipelineAssumption, NEW q \in Requests, NEW x \in Context, NEW W,
         OwnedBy(x, q, W)
  PROVE  /\ [x EXCEPT !.reqID = q] \in Context /\ OwnedBy([x EXCEPT !.reqID = q], q, W)
         /\ [x EXCEPT !.user = q] \in Context /\ OwnedBy([x EXCEPT !.user = q], q, W)
         /\ \A id \in Identity :
              LET y == [x EXCEPT !.identity = [of |-> q, id |-> id]]
              IN  y \in Context /\ OwnedBy(y, q, W)
         /\ \A s \in Status \cup {0} :
              LET y == [x EXCEPT !.status = s]
              IN  y \in Context /\ OwnedBy(y, q, W)
BY DEF Context, OwnedBy, Holder

LEMMA WritersOwned ==
  ASSUME PipelineAssumption, NEW q \in Requests, NEW x \in Context, NEW W,
         OwnedBy(x, q, W)
  PROVE  /\ [x EXCEPT !.r.derived = TRUE] \in Context
         /\ OwnedBy([x EXCEPT !.r.derived = TRUE], q, W)
         /\ [x EXCEPT !.w.gz = TRUE] \in Context
         /\ OwnedBy([x EXCEPT !.w.gz = TRUE], q, W)
         /\ \A c \in Contexts :
              LET y == [x EXCEPT !.w.sw = c, !.status = 0]
              IN  y \in Context /\ OwnedBy(y, q, {c} \cup W)
BY DEF Context, OwnedBy, Holder

(* The Context of a layer that runs.                                       *)
LEMMA LayerContext ==
  ASSUME PipelineAssumption, PlaceInv, CtxInv, NEW q \in Requests,
         dir[q] \in {"down", "up"}, Layer(q) \notin {"serve", "mux"}
  PROVE  /\ Ctx(q) \in Using(q) /\ Ctx(q) \in Contexts /\ ctx[Ctx(q)] \in Context
         /\ OwnedBy(ctx[Ctx(q)], q, {base[q]} \cup {Ctx(q)})
         /\ base[q] \in Using(q)
<1>1. /\ base[q] \in Contexts /\ None \notin Contexts /\ OwnContexts(q)
      /\ MuxAt \in Nat /\ at[q] \in Nat
  BY ChainParts DEF PlaceInv, Place, Serving, PipelineAssumption, CtxInv, ConfigInv
<1>2. CASE at[q] >= MuxAt
  <2>1. at[q] # MuxAt
    <3>1. Chain(q)[MuxAt] = "mux"
      BY ChainParts DEF PlaceInv
    <3>2. at[q] # 0
      BY DEF Layer
    <3> QED BY <3>1, <3>2 DEF Layer
  <2>2. inner[q] \in Contexts /\ Ctx(q) = inner[q]
    BY <1>1, <1>2, <2>1 DEF PlaceInv, Place, Inside, Ctx
  <2> QED BY <1>1, <2>2 DEF Using, OwnContexts, CtxInv
<1>3. CASE ~(at[q] >= MuxAt)
  <2>1. Ctx(q) = base[q]
    BY <1>3 DEF Ctx
  <2> QED BY <1>1, <2>1 DEF Using, OwnContexts, CtxInv
<1> QED BY <1>2, <1>3

-----------------------------------------------------------------------------
(* Responses.                                                              *)

OwnPieces(q) == Seq([of : {q}, code : Status])

NetInv ==
  /\ wire \in [Requests -> [status : Status \cup {0}, body : Pieces]]
  /\ gz \in [Requests -> [wrote : BOOLEAN, bypass : BOOLEAN, held : Pieces]]
  /\ \A q \in Requests : /\ wire[q].body \in OwnPieces(q)
                         /\ gz[q].held \in OwnPieces(q)

LEMMA PiecesOwn ==
  ASSUME NEW q \in Requests
  PROVE  /\ OwnPieces(q) \subseteq Pieces /\ << >> \in OwnPieces(q)
         /\ \A code \in Status : Piece(q, code) \in OwnPieces(q)
         /\ \A s, t \in OwnPieces(q) : s \o t \in OwnPieces(q)
<1>1. [of : {q}, code : Status] \subseteq [of : Requests, code : Status]
  OBVIOUS
<1> DEFINE A == [of : {q}, code : Status]
           B == [of : Requests, code : Status]
<1>2. OwnPieces(q) \subseteq Pieces
  <2>1. A \subseteq B /\ OwnPieces(q) = Seq(A) /\ Pieces = Seq(B)
    BY <1>1 DEF OwnPieces, Pieces
  <2> HIDE DEF A, B
  <2> QED BY <2>1, SeqMonotonic
<1>3. \A code \in Status : Piece(q, code) \in OwnPieces(q)
  BY DEF Piece, OwnPieces
<1>4. << >> \in OwnPieces(q) /\ \A s, t \in OwnPieces(q) : s \o t \in OwnPieces(q)
  <2>1. OwnPieces(q) = Seq(A)
    BY DEF OwnPieces
  <2> HIDE DEF A
  <2> QED BY <2>1, ConcatProperties
<1> QED BY <1>2, <1>3, <1>4

(* Only q's response changes.                                              *)
LEMMA NetStep ==
  ASSUME NetInv, NEW q \in Requests,
         NEW status \in Status \cup {0}, NEW body \in OwnPieces(q),
         wire' = [wire EXCEPT ![q] = [status |-> status, body |-> body]],
         NEW wrote \in BOOLEAN, NEW bypass \in BOOLEAN, NEW held \in OwnPieces(q),
         \/ gz' = gz
         \/ gz' = [gz EXCEPT ![q] = [wrote |-> wrote, bypass |-> bypass, held |-> held]]
  PROVE  NetInv'
<1>1. body \in Pieces /\ held \in Pieces
  BY PiecesOwn
<1>2. /\ wire \in [Requests -> [status : Status \cup {0}, body : Pieces]]
      /\ gz \in [Requests -> [wrote : BOOLEAN, bypass : BOOLEAN, held : Pieces]]
      /\ \A k \in Requests : wire[k].body \in OwnPieces(k) /\ gz[k].held \in OwnPieces(k)
  BY DEF NetInv
<1>3. wire' \in [Requests -> [status : Status \cup {0}, body : Pieces]]
  BY <1>1, <1>2
<1>4. gz' \in [Requests -> [wrote : BOOLEAN, bypass : BOOLEAN, held : Pieces]]
  BY <1>1, <1>2
<1>5. \A k \in Requests : wire'[k].body \in OwnPieces(k)
  BY <1>2
<1>6. \A k \in Requests : gz'[k].held \in OwnPieces(k)
  BY <1>2
<1>7. NetInv' <=>
        /\ wire' \in [Requests -> [status : Status \cup {0}, body : Pieces]]
        /\ gz' \in [Requests -> [wrote : BOOLEAN, bypass : BOOLEAN, held : Pieces]]
        /\ \A k \in Requests : wire'[k].body \in OwnPieces(k) /\ gz'[k].held \in OwnPieces(k)
  BY DEF NetInv
<1> QED BY <1>3, <1>4, <1>5, <1>6, <1>7

LEMMA Responding ==
  ASSUME PipelineAssumption, PlaceInv, CtxInv, NetInv, NEW q \in Requests,
         UNCHANGED <<pool, base, inner>>, NEW c \in Using(q), NEW skip \in BOOLEAN,
         NEW code \in Status, NEW body \in OwnPieces(q), RespondAs(skip, c, code, body)
  PROVE  Kept(q) /\ NetInv'
<1> DEFINE w == ctx[c].w
           sent == wire[q].status
           bypass == gz[q].bypass \/ skip
           zipped == w.gz /\ ~bypass
<1>1. /\ c \in Contexts /\ w.conn = q /\ w.gz \in BOOLEAN
      /\ w.sw # None => w.sw \in Using(q)
      /\ \A d \in Using(q) : d \in Contexts /\ ctx[d] \in Context
                             /\ OwnedBy(ctx[d], q, {base[q]} \cup {d})
      /\ w.sw # None => w.sw \in Contexts
      /\ Using(q) \subseteq Contexts
  <2>1. \A d \in Using(q) : d \in Contexts /\ ctx[d] \in Context
                            /\ OwnedBy(ctx[d], q, {base[q]} \cup {d})
    <3>1. ASSUME NEW d \in Using(q) PROVE d \in Contexts /\ d # None
                                         /\ (d = base[q] \/ d = inner[q])
      BY DEF Using, PlaceInv
    <3>2. ASSUME NEW d \in Using(q) PROVE OwnedBy(ctx[d], q, {base[q]} \cup {d})
      <4>1. {base[q]} \cup {d} = {base[q], d}
        OBVIOUS
      <4>2. CASE d = base[q]
        <5>1. OwnedBy(ctx[d], q, {base[q]}) /\ {base[q]} \cup {d} = {base[q]}
          BY <3>1, <3>2, <4>2 DEF CtxInv, OwnContexts
        <5> QED BY <5>1
      <4>3. CASE d = inner[q]
        BY <3>1, <3>2, <4>1, <4>3 DEF CtxInv, OwnContexts
      <4> QED BY <3>1, <3>2, <4>2, <4>3
    <3> QED BY <3>1, <3>2 DEF CtxInv
  <2>2. w.conn = q /\ w.sw \in {base[q], c, None} /\ w.gz \in BOOLEAN
    BY <2>1 DEF OwnedBy, Context
  <2> QED BY <2>1, <2>2 DEF Using
<1>2. /\ wire' = [wire EXCEPT ![w.conn] =
                    [status |-> IF wire[w.conn].status = 0 THEN code
                                ELSE wire[w.conn].status,
                     body |-> IF w.gz /\ ~(gz[w.conn].bypass \/ skip)
                              THEN wire[w.conn].body ELSE wire[w.conn].body \o body]]
      /\ gz' = IF ~w.gz THEN gz
               ELSE [gz EXCEPT ![w.conn] =
                       [wrote |-> gz[w.conn].wrote \/ body # << >>,
                        bypass |-> gz[w.conn].bypass \/ skip,
                        held |-> IF w.gz /\ ~(gz[w.conn].bypass \/ skip)
                                 THEN gz[w.conn].held \o body ELSE gz[w.conn].held]]
      /\ ctx' = IF w.sw = None THEN ctx
                ELSE [ctx EXCEPT ![w.sw].status = StatusSeen(w, code, body)]
  BY <1>1 DEF RespondAs, NetInv
<1>3. Kept(q)
  <2>1. CASE w.sw = None
    BY <1>2, <2>1 DEF Kept, CtxInv, OwnContexts
  <2>2. CASE w.sw # None
    <3> DEFINE d == w.sw
               s == StatusSeen(w, code, body)
    <3>1. d \in Using(q) /\ ctx[d] \in Context /\ OwnedBy(ctx[d], q, {base[q]} \cup {d})
      BY <1>1, <2>2
    <3>2. s \in Status \cup {0}
      BY DEF StatusSeen, Status
    <3>3. ctx' = [ctx EXCEPT ![d] = [ctx[d] EXCEPT !.status = s]]
      BY <1>1, <1>2, <2>2 DEF CtxInv
    <3> HIDE DEF d, s
    <3>4. /\ [ctx[d] EXCEPT !.status = s] \in Context
          /\ OwnedBy([ctx[d] EXCEPT !.status = s], q, {base[q]} \cup {d})
      BY <3>1, <3>2, FieldsOwned
    <3> QED BY <3>1, <3>3, <3>4, OneContext
  <2> QED BY <2>1, <2>2
<1>4. NetInv'
  <2>1. /\ wire[q].body \in OwnPieces(q) /\ gz[q].held \in OwnPieces(q)
        /\ wire[q].body \o body \in OwnPieces(q) /\ gz[q].held \o body \in OwnPieces(q)
        /\ gz[q].wrote \in BOOLEAN /\ gz[q].bypass \in BOOLEAN
        /\ wire[q].status \in Status \cup {0}
    BY PiecesOwn DEF NetInv
  <2> DEFINE status == IF sent = 0 THEN code ELSE sent
             text == IF zipped THEN wire[q].body ELSE wire[q].body \o body
             wrote == gz[q].wrote \/ body # << >>
             held == IF zipped THEN gz[q].held \o body ELSE gz[q].held
  <2>2. status \in Status \cup {0} /\ text \in OwnPieces(q) /\ held \in OwnPieces(q)
        /\ wrote \in BOOLEAN /\ bypass \in BOOLEAN
    BY <2>1
  <2>3. /\ wire' = [wire EXCEPT ![q] = [status |-> status, body |-> text]]
        /\ \/ gz' = gz
           \/ gz' = [gz EXCEPT ![q] = [wrote |-> wrote, bypass |-> bypass, held |-> held]]
    BY <1>1, <1>2
  <2> HIDE DEF status, text, wrote, bypass, held
  <2> QED BY <2>2, <2>3, NetStep
<1> QED BY <1>3, <1>4

(* The layers that leave every Context where it is.                        *)
LEMMA LayersKeep ==
  ASSUME PipelineAssumption, PlaceInv, CtxInv, NetInv, NEW q \in Requests,
         Goroutine(q) \/ DeadlinePasses(q)
  PROVE  \/ Kept(q) /\ NetInv'
         \/ ServeHTTP(q) \/ Release(q) \/ Handle(q) \/ HandleReturns(q)
<1> DEFINE c == Ctx(q)
           Goal == Kept(q) /\ NetInv'
<1> SUFFICES ASSUME ~(ServeHTTP(q) \/ Release(q) \/ Handle(q) \/ HandleReturns(q))
             PROVE  Goal
  OBVIOUS
<1>1. ASSUME UNCHANGED <<pool, base, inner, ctx>> PROVE Kept(q)
  BY <1>1 DEF Kept, CtxInv, OwnContexts
<1>2. ASSUME UNCHANGED netVars PROVE NetInv'
  BY <1>2 DEF netVars, NetInv, OwnPieces
<1>3. ASSUME UNCHANGED <<ctxVars, ctx, netVars>> PROVE Goal
  BY <1>1, <1>2, <1>3 DEF ctxVars
<1>4. ASSUME dir[q] \in {"down", "up"}, Layer(q) \notin {"serve", "mux"}
      PROVE  /\ c \in Using(q) /\ c \in Contexts /\ ctx[c] \in Context
             /\ OwnedBy(ctx[c], q, {base[q]} \cup {c})
  BY <1>4, LayerContext
<1>5. ASSUME UNCHANGED <<ctxVars, netVars>>,
             NEW y \in Context, ctx' = [ctx EXCEPT ![c] = y],
             c \in Using(q), OwnedBy(y, q, {base[q]} \cup {c})
      PROVE  Goal
  <2>1. UNCHANGED <<pool, base, inner>>
    BY <1>5 DEF ctxVars
  <2> HIDE DEF c
  <2> QED BY <1>2, <1>5, <2>1, OneContext
<1>6. ASSUME UNCHANGED ctxVars, NEW d \in Using(q), NEW skip \in BOOLEAN,
             NEW code \in Status, NEW body \in OwnPieces(q),
             RespondAs(skip, d, code, body)
      PROVE  Goal
  BY <1>6, Responding DEF ctxVars
<1>7. ctx \in [Contexts -> Context]
  BY DEF CtxInv
<1> HIDE DEF c
<1>8. CASE Recover(q) \/ Authorize(q) \/ PassUp(q) \/ TimeoutReturns(q)
           \/ RequestLogReturns(q) \/ RecoverReturns(q) \/ DeadlinePasses(q)
  BY <1>3, <1>8 DEF Recover, Authorize, PassUp, TimeoutReturns, RequestLogReturns,
                    RecoverReturns, DeadlinePasses
<1>9. CASE Forget(q)
  BY <1>1, <1>2, <1>9 DEF Forget
<1>10. CASE RequestLog(q)
  <2>1. /\ dir[q] = "down" /\ Layer(q) = "log" /\ UNCHANGED <<ctxVars, netVars>>
        /\ ctx' = [ctx EXCEPT ![c].w.sw = c, ![c].status = 0]
    BY <1>10 DEF RequestLog, Down, c
  <2> DEFINE y == [ctx[c] EXCEPT !.w.sw = c, !.status = 0]
  <2>2. y \in Context /\ OwnedBy(y, q, {c} \cup ({base[q]} \cup {c}))
    BY <1>4, <2>1, WritersOwned
  <2>3. ctx' = [ctx EXCEPT ![c] = y]
    BY <1>4, <1>7, <2>1
  <2>4. {c} \cup ({base[q]} \cup {c}) = {base[q]} \cup {c}
    OBVIOUS
  <2> HIDE DEF y
  <2> QED BY <1>4, <1>5, <2>1, <2>2, <2>3, <2>4
<1>11. CASE RequestID(q)
  <2>1. /\ dir[q] = "down" /\ Layer(q) = "requestid" /\ UNCHANGED <<ctxVars, netVars>>
        /\ ctx' = [ctx EXCEPT ![c].reqID = q]
    BY <1>11 DEF RequestID, Down, c
  <2> DEFINE y == [ctx[c] EXCEPT !.reqID = q]
  <2>2. y \in Context /\ OwnedBy(y, q, {base[q]} \cup {c})
    BY <1>4, <2>1, FieldsOwned
  <2>3. ctx' = [ctx EXCEPT ![c] = y]
    BY <1>4, <1>7, <2>1
  <2> HIDE DEF y
  <2> QED BY <1>4, <1>5, <2>1, <2>2, <2>3
<1>12. CASE Timeout(q)
  <2>1. /\ dir[q] = "down" /\ Layer(q) = "timeout" /\ UNCHANGED <<ctxVars, netVars>>
        /\ ctx' = [ctx EXCEPT ![c].r.derived = TRUE]
    BY <1>12 DEF Timeout, Down, c
  <2> DEFINE y == [ctx[c] EXCEPT !.r.derived = TRUE]
  <2>2. y \in Context /\ OwnedBy(y, q, {base[q]} \cup {c})
    BY <1>4, <2>1, WritersOwned
  <2>3. ctx' = [ctx EXCEPT ![c] = y]
    BY <1>4, <1>7, <2>1
  <2> HIDE DEF y
  <2> QED BY <1>4, <1>5, <2>1, <2>2, <2>3
<1>13. CASE GZip(q)
  <2>1. /\ dir[q] = "down" /\ Layer(q) = "gzip" /\ UNCHANGED <<ctxVars, netVars>>
        /\ ctx' = IF input[q].gzip THEN [ctx EXCEPT ![c].w.gz = TRUE] ELSE ctx
    BY <1>13 DEF GZip, Down, c
  <2>2. CASE input[q].gzip
    <3> DEFINE y == [ctx[c] EXCEPT !.w.gz = TRUE]
    <3>1. y \in Context /\ OwnedBy(y, q, {base[q]} \cup {c})
      BY <1>4, <2>1, WritersOwned
    <3>2. ctx' = [ctx EXCEPT ![c] = y]
      BY <1>4, <1>7, <2>1, <2>2
    <3> HIDE DEF y
    <3> QED BY <1>4, <1>5, <2>1, <3>1, <3>2
  <2>3. CASE ~input[q].gzip
    BY <1>3, <2>1, <2>3
  <2> QED BY <2>2, <2>3
<1>14. ASSUME NEW layer \in {"auth", "pprofauth"}, NEW a \in {Conf.auth, Conf.pprof},
              Auth(q, layer, a)
       PROVE  Goal
  <2> DEFINE id == Authenticate(a, Creds[input[q].cred])
  <2>1. /\ dir[q] = "down" /\ Layer(q) = layer /\ UNCHANGED <<ctxVars, netVars>>
        /\ \/ UNCHANGED ctx
           \/ /\ id # Refused
              /\ ctx' = [ctx EXCEPT ![c].identity = [of |-> q, id |-> id]]
    BY <1>14 DEF Auth, Down, c
  <2>2. id # Refused => id \in Identity
    <3>1. PICK fails : a \in Configured(fails)
      BY ConfTyped DEF PlaceInv, ConfigInv
    <3>2. Creds[input[q].cred] \in Presented
      BY ConfTyped DEF PlaceInv, ConfigInv, Input, PipelineAssumption
    <3> QED BY <3>1, <3>2, AuthenticateSound, AccessAssumption
  <2>3. CASE UNCHANGED ctx
    BY <1>3, <2>1, <2>3
  <2>4. CASE ctx' = [ctx EXCEPT ![c].identity = [of |-> q, id |-> id]] /\ id # Refused
    <3> DEFINE y == [ctx[c] EXCEPT !.identity = [of |-> q, id |-> id]]
    <3>1. y \in Context /\ OwnedBy(y, q, {base[q]} \cup {c})
      <4> HIDE DEF id
      <4> QED BY <1>4, <2>1, <2>2, <2>4, FieldsOwned
    <3>2. ctx' = [ctx EXCEPT ![c] = y]
      BY <1>4, <1>7, <2>1, <2>4
    <3> HIDE DEF y
    <3> QED BY <1>4, <1>5, <2>1, <3>1, <3>2
  <2> QED BY <2>1, <2>3, <2>4
<1>15. CASE BasicAuth(q)
  <2>1. /\ dir[q] = "down" /\ Layer(q) = "basicauth" /\ UNCHANGED <<ctxVars, netVars>>
        /\ UNCHANGED ctx \/ ctx' = [ctx EXCEPT ![c].user = q]
    BY <1>15 DEF BasicAuth, Down, c
  <2>2. CASE UNCHANGED ctx
    BY <1>3, <2>1, <2>2
  <2>3. CASE ctx' = [ctx EXCEPT ![c].user = q]
    <3> DEFINE y == [ctx[c] EXCEPT !.user = q]
    <3>1. y \in Context /\ OwnedBy(y, q, {base[q]} \cup {c})
      BY <1>4, <2>1, FieldsOwned
    <3>2. ctx' = [ctx EXCEPT ![c] = y]
      BY <1>4, <1>7, <2>1, <2>3
    <3> HIDE DEF y
    <3> QED BY <1>4, <1>5, <2>1, <3>1, <3>2
  <2> QED BY <2>1, <2>2, <2>3
<1>16. /\ << >> \in OwnPieces(q) /\ \A code \in Status : Piece(q, code) \in OwnPieces(q)
       /\ {200, 204, 403, 404} \subseteq Status
       /\ res[q] \in Status \cup {Nil, Panic}
       /\ None \notin Contexts
  BY PiecesOwn DEF PlaceInv, Status, PipelineAssumption
<1>17. CASE ServeError(q)
  <2>1. /\ dir[q] = "up" /\ Layer(q) = "serve" /\ UNCHANGED ctxVars
        /\ IF res[q] = Nil THEN UNCHANGED <<netVars, ctx>>
           ELSE RespondAs(FALSE, base[q], res[q], Piece(q, res[q]))
    BY <1>17 DEF ServeError, Up, ErrorHandler, Respond
  <2>2. CASE res[q] = Nil
    BY <1>3, <2>1, <2>2
  <2>3. CASE res[q] # Nil
    <3>1. at[q] = 0
      <4>1. at[q] # 0 => Chain(q)[at[q]] \in Layers
        <5>1. Chain(q) \in Seq(Layers) /\ Len(Chain(q)) \in Nat /\ at[q] \in 0 .. Len(Chain(q)) - 1
          BY <2>1, ChainParts DEF PlaceInv, Place
        <5>2. at[q] # 0 => at[q] \in 1 .. Len(Chain(q))
          <6> DEFINE n == Len(Chain(q))
          <6>1. n \in Nat /\ at[q] \in 0 .. n - 1
            BY <5>1
          <6> HIDE DEF n
          <6>2. at[q] # 0 => at[q] \in 1 .. n
            BY <6>1
          <6> QED BY <6>2 DEF n
        <5> QED BY <5>1, <5>2, ElementOfSeq
      <4> QED BY <2>1, <4>1 DEF Layer, Layers
    <3>2. res[q] \in Status
      BY <1>16, <2>1, <2>3, <3>1 DEF PlaceInv, Place
    <3>3. base[q] \in Using(q)
      BY <1>16, <2>1 DEF PlaceInv, Place, Serving, Using
    <3> QED BY <1>6, <1>16, <2>1, <2>3, <3>2, <3>3
  <2> QED BY <2>2, <2>3
<1>18. CASE CORS(q)
  <2>1. /\ dir[q] = "down" /\ Layer(q) = "cors" /\ UNCHANGED ctxVars
        /\ \/ RespondAs(FALSE, c, 204, << >>)
           \/ UNCHANGED <<ctx, netVars>>
    BY <1>18 DEF CORS, Down, Respond, c
  <2> QED BY <1>3, <1>4, <1>6, <1>16, <2>1
<1>19. CASE MuxAnswers(q)
  <2> DEFINE target == input[q].target
             code == CASE target = "static" -> 200
                       [] target = "pprof" /\ IsLoopback(input[q].remote) -> 200
                       [] target = "pprof" /\ ~IsLoopback(input[q].remote) -> 403
                       [] OTHER -> 404
  <2>1. RespondAs(FALSE, base[q], code, Piece(q, code))
    BY <1>19 DEF MuxAnswers, Respond
  <2>4. code \in {200, 403, 404}
    OBVIOUS
  <2>2. dir[q] = "down" /\ UNCHANGED ctxVars
    BY <1>19 DEF MuxAnswers, Down
  <2>3. base[q] \in Using(q)
    BY <1>16, <2>2 DEF PlaceInv, Place, Serving, Using
  <2> HIDE DEF code
  <2>5. code \in Status /\ Piece(q, code) \in OwnPieces(q)
    BY <1>16, <2>4
  <2> QED BY <1>6, <2>1, <2>2, <2>3, <2>5
<1>20. CASE Handler(q)
  <2> DEFINE body == Written(q, input[q].writes)
             skip == input[q].writes \in {"file", "events"}
  <2>1. /\ dir[q] = "down" /\ Layer(q) = "handler" /\ UNCHANGED ctxVars
        /\ \/ UNCHANGED <<ctx, netVars>>
           \/ RespondAs(skip, c, 200, body)
    BY <1>20 DEF Handler, Down, c
  <2>2. body \in OwnPieces(q) /\ skip \in BOOLEAN
    BY <1>16 DEF Written
  <2> HIDE DEF body, skip
  <2> QED BY <1>3, <1>4, <1>6, <1>16, <2>1, <2>2
<1>21. CASE HandleError(q)
  <2>1. /\ dir[q] = "up" /\ Layer(q) = "mux" /\ UNCHANGED ctxVars
        /\ res[q] \notin {Nil, Panic}
        /\ RespondAs(FALSE, inner[q], res[q], Piece(q, res[q]))
    BY <1>21 DEF HandleError, Up, ErrorHandler, Respond
  <2>2. inner[q] \in Using(q)
    <3>1. at[q] >= MuxAt
      <4>1. Chain(q) \in Seq(Layers) /\ Len(Chain(q)) \in Nat /\ at[q] \in 0 .. Len(Chain(q)) - 1
            /\ MuxAt \in Nat
        BY <2>1, ChainParts DEF PlaceInv, Place
      <4>2. at[q] # 0
        BY <2>1 DEF Layer
      <4>3. at[q] \in 1 .. Len(Chain(q))
        <5> DEFINE n == Len(Chain(q))
        <5>1. n \in Nat /\ at[q] \in 0 .. n - 1
          BY <4>1
        <5> HIDE DEF n
        <5>2. at[q] \in 1 .. n
          BY <4>2, <5>1
        <5> QED BY <5>2 DEF n
      <4>4. at[q] = MuxAt
        BY <2>1, <4>2, <4>3, ChainShape DEF PlaceInv, Layer
      <4> QED BY <4>1, <4>4
    <3> QED BY <1>16, <2>1, <3>1 DEF PlaceInv, Place, Inside, Using
  <2> QED BY <1>6, <1>16, <2>1, <2>2
<1>22. CASE GZipReturns(q)
  <2>1. /\ wire' = [wire EXCEPT ![q].body = wire[q].body \o gz[q].held]
        /\ gz' = [gz EXCEPT ![q].held = << >>] /\ UNCHANGED <<ctxVars, ctx>>
    BY <1>22 DEF GZipReturns, NetInv
  <2>2. /\ wire[q] \in [status : Status \cup {0}, body : Pieces]
        /\ gz[q] \in [wrote : BOOLEAN, bypass : BOOLEAN, held : Pieces]
        /\ wire[q].body \in OwnPieces(q) /\ gz[q].held \in OwnPieces(q)
    BY DEF NetInv
  <2> DEFINE text == wire[q].body \o gz[q].held
  <2>3. text \in OwnPieces(q)
    BY <2>2, PiecesOwn
  <2>4. /\ wire' = [wire EXCEPT ![q] = [status |-> wire[q].status, body |-> text]]
        /\ gz' = [gz EXCEPT ![q] = [wrote |-> gz[q].wrote, bypass |-> gz[q].bypass,
                                    held |-> << >>]]
    <3>1. [wire[q] EXCEPT !.body = text] = [status |-> wire[q].status, body |-> text]
      <4> HIDE DEF text
      <4> QED BY <2>2
    <3>2. [gz[q] EXCEPT !.held = << >>]
            = [wrote |-> gz[q].wrote, bypass |-> gz[q].bypass, held |-> << >>]
      BY <2>2
    <3>3. /\ wire' = [wire EXCEPT ![q] = [wire[q] EXCEPT !.body = text]]
          /\ gz' = [gz EXCEPT ![q] = [gz[q] EXCEPT !.held = << >>]]
      BY <2>1
    <3> QED BY <3>1, <3>2, <3>3
  <2> HIDE DEF text
  <2>5. NetInv'
    BY <1>16, <2>2, <2>3, <2>4, NetStep
  <2> QED BY <1>1, <2>1, <2>5 DEF ctxVars
<1> QED BY <1>8, <1>9, <1>10, <1>11, <1>12, <1>13, <1>14, <1>15, <1>17, <1>18,
           <1>19, <1>20, <1>21, <1>22 DEF Goroutine

LEMMA FreshContext ==
  ASSUME PipelineAssumption, NEW q \in Requests
  PROVE  /\ Clean \in Context /\ Fresh(q) \in Context /\ OwnedBy(Fresh(q), q, {})
         /\ Clean' = Clean
BY DEF Clean, Fresh, Direct, Context, Holder, OwnedBy, PipelineAssumption

(* A Context changes hands.                                                *)
LEMMA Handover ==
  ASSUME PipelineAssumption, PlaceInv, CtxInv, NEW q \in Requests,
         \A k \in Requests : k # q => base'[k] = base[k] /\ inner'[k] = inner[k],
         ctx' \in [Contexts -> Context], NEW c \in Contexts,
         \A d \in Contexts : d # c => ctx'[d] = ctx[d],
         \/ /\ c \in pool /\ pool' = pool \ {c} /\ Using(q)' = Using(q) \cup {c}
         \/ /\ c \in Using(q) /\ pool' = pool \cup {c} /\ Using(q)' = Using(q) \ {c}
            /\ ctx'[c] = Clean,
         OwnContexts(q)'
  PROVE  CtxInv' /\ pool' \subseteq Contexts
<1>1. \A k \in Requests : k # q => Using(k)' = Using(k)
  BY DEF Using
<1>2. pool \subseteq Contexts /\ Clean' = Clean
  BY FreshContext DEF PlaceInv
<1>3. /\ \A k, l \in Requests : k # l => Using(k) \cap Using(l) = {}
      /\ \A k \in Requests : Using(k) \cap pool = {}
      /\ \A d \in Contexts : d \in pool \/ \E k \in Requests : d \in Using(k)
      /\ \A d \in pool : ctx[d] = Clean
  BY DEF CtxInv, Exclusive
<1>4. \A k \in Requests : k # q => c \notin Using(k)
  BY <1>3
<1>5. ASSUME NEW k \in Requests, k # q PROVE OwnContexts(k)'
  <2>1. base'[k] = base[k] /\ inner'[k] = inner[k] /\ OwnContexts(k)
        /\ base[k] \in Contexts \cup {None} /\ inner[k] \in Contexts \cup {None}
    BY <1>5 DEF CtxInv, PlaceInv
  <2>2. \A d \in Using(k) : d \in Contexts /\ ctx'[d] = ctx[d]
    BY <1>4, <1>5, <2>1 DEF Using
  <2> QED BY <2>1, <2>2 DEF OwnContexts, Using
<1>6. \A k, l \in Requests : k # l => Using(k)' \cap Using(l)' = {}
  BY <1>1, <1>3, <1>4
<1>7. \A k \in Requests : Using(k)' \cap pool' = {}
  BY <1>1, <1>3, <1>4
<1>8. ASSUME NEW d \in Contexts PROVE d \in pool' \/ \E k \in Requests : d \in Using(k)'
  <2>1. CASE d = c
    BY <2>1
  <2>2. CASE d # c
    BY <1>1, <1>3, <2>2
  <2> QED BY <2>1, <2>2
<1>9. \A d \in pool' : ctx'[d] = Clean
  BY <1>2, <1>3
<1>10. Exclusive'
  BY <1>2, <1>6, <1>7, <1>8, <1>9 DEF Exclusive
<1> QED BY <1>2, <1>5, <1>10 DEF CtxInv

LEMMA ContextsMove ==
  ASSUME PipelineAssumption, PlaceInv, CtxInv, NetInv, NEW q \in Requests,
         ServeHTTP(q) \/ Release(q) \/ Handle(q) \/ HandleReturns(q)
  PROVE  CtxInv' /\ NetInv' /\ pool' \subseteq Contexts
<1>0. /\ base \in [Requests -> Contexts \cup {None}] /\ pool \subseteq Contexts
      /\ inner \in [Requests -> Contexts \cup {None}] /\ None \notin Contexts
      /\ ctx \in [Contexts -> Context] /\ OwnContexts(q) /\ Place(q)
      /\ \A c \in pool : c \notin Using(q)
      /\ q # None
  BY DEF PlaceInv, CtxInv, Exclusive, PipelineAssumption
<1> DEFINE Goal == CtxInv' /\ NetInv' /\ pool' \subseteq Contexts
<1> SUFFICES Goal
  OBVIOUS
<1>1. ASSUME UNCHANGED netVars PROVE NetInv'
  BY <1>1 DEF netVars, NetInv, OwnPieces
<1>2. CASE ServeHTTP(q)
  <2>1. PICK c \in pool : /\ pool' = pool \ {c} /\ ctx' = [ctx EXCEPT ![c] = Fresh(q)]
                          /\ base' = [base EXCEPT ![q] = c]
    BY <1>2 DEF ServeHTTP
  <2>2. inner' = inner /\ UNCHANGED netVars /\ dir[q] = "new"
    BY <1>2 DEF ServeHTTP
  <2>3. base[q] = None /\ inner[q] = None
    BY <1>0, <2>2 DEF Place, Serving, Inside
  <2>4. c \in Contexts /\ ctx'[c] = Fresh(q) /\ ctx' \in [Contexts -> Context]
        /\ \A d \in Contexts : d # c => ctx'[d] = ctx[d]
    BY <1>0, <2>1, FreshContext
  <2>5. Using(q)' = Using(q) \cup {c}
    BY <1>0, <2>1, <2>2, <2>3, <2>4 DEF Using
  <2>6. OwnContexts(q)'
    BY <1>0, <2>1, <2>2, <2>3, <2>4, FreshContext DEF OwnContexts, OwnedBy
  <2>7. \A k \in Requests : k # q => base'[k] = base[k] /\ inner'[k] = inner[k]
    BY <1>0, <2>1, <2>2
  <2>8. CtxInv' /\ pool' \subseteq Contexts
    BY <2>1, <2>4, <2>5, <2>6, <2>7, Handover
  <2> QED BY <1>1, <2>2, <2>8
<1>3. CASE Release(q)
  <2> DEFINE c == base[q]
  <2>1. /\ pool' = pool \cup {c} /\ ctx' = [ctx EXCEPT ![c] = Clean]
        /\ base' = [base EXCEPT ![q] = None] /\ inner' = inner /\ dir[q] = "release"
        /\ wire' = [wire EXCEPT ![q].status = IF wire[q].status = 0 THEN 200
                                              ELSE wire[q].status]
        /\ gz' = gz
    BY <1>3 DEF Release, NetInv
  <2>2. c \in Contexts /\ inner[q] = None
    BY <1>0, <2>1 DEF Place, Serving, Inside
  <2>3. ctx'[c] = Clean /\ ctx' \in [Contexts -> Context]
        /\ \A d \in Contexts : d # c => ctx'[d] = ctx[d]
    BY <1>0, <2>1, <2>2, FreshContext
  <2>4. c \in Using(q) /\ Using(q)' = Using(q) \ {c}
    BY <1>0, <2>1, <2>2 DEF Using
  <2>5. OwnContexts(q)'
    BY <1>0, <2>1, <2>2 DEF OwnContexts
  <2>6. \A k \in Requests : k # q => base'[k] = base[k] /\ inner'[k] = inner[k]
    BY <1>0, <2>1
  <2>7. CtxInv' /\ pool' \subseteq Contexts
    BY <2>1, <2>2, <2>3, <2>4, <2>5, <2>6, Handover
  <2>8. NetInv'
    <3> DEFINE status == IF wire[q].status = 0 THEN 200 ELSE wire[q].status
    <3>1. wire[q] \in [status : Status \cup {0}, body : Pieces]
          /\ wire[q].body \in OwnPieces(q) /\ << >> \in OwnPieces(q)
      BY PiecesOwn DEF NetInv
    <3>2. status \in Status \cup {0}
      BY <3>1 DEF Status
    <3>3. wire' = [wire EXCEPT ![q] = [status |-> status, body |-> wire[q].body]]
      <4>1. wire' = [wire EXCEPT ![q] = [wire[q] EXCEPT !.status = status]]
        BY <2>1
      <4> HIDE DEF status
      <4>2. [wire[q] EXCEPT !.status = status]
              = [status |-> status, body |-> wire[q].body]
        BY <3>1
      <4> QED BY <4>1, <4>2
    <3> HIDE DEF status
    <3> QED BY <2>1, <3>1, <3>2, <3>3, NetStep
  <2> QED BY <2>7, <2>8
<1>4. CASE Handle(q)
  <2> DEFINE r == ctx[base[q]].r
             old == ctx[base[q]]
  <2>1. /\ dir[q] = "down" /\ Layer(q) = "mux" /\ UNCHANGED <<base, netVars>>
        /\ \/ /\ inner' = [inner EXCEPT ![q] = reqCtxMap[r.of]]
              /\ UNCHANGED <<ctx, pool>>
           \/ \E c \in pool :
                /\ inner' = [inner EXCEPT ![q] = c] /\ pool' = pool \ {c}
                /\ ctx' = [ctx EXCEPT ![c] = [Fresh(q) EXCEPT !.w = old.w, !.r = r]]
    BY <1>4 DEF Handle, Down
  <2>2. /\ base[q] \in Contexts /\ reqCtxMap[q] = base[q] /\ r.of = q
        /\ OwnedBy(old, q, {base[q]}) /\ old \in Context
    BY <1>0, <2>1 DEF Place, Serving, PlaceInv, OwnContexts, OwnedBy
  <2>3. inner[q] = None
    <3>1. at[q] = MuxAt
      <4>1. at[q] # 0 /\ at[q] \in 1 .. Len(Chain(q))
        BY <1>0, <2>1 DEF Place, Layer
      <4> QED BY <2>1, <4>1, ChainShape DEF PlaceInv, Layer
    <3>2. MuxAt \in Nat
      BY ChainParts DEF PlaceInv
    <3> QED BY <1>0, <2>1, <3>1, <3>2 DEF Place, Inside
  <2>4. \A k \in Requests : k # q => base'[k] = base[k] /\ inner'[k] = inner[k]
    BY <1>0, <2>1
  <2>5. NetInv'
    BY <1>1, <2>1
  <2>6. CASE inner' = [inner EXCEPT ![q] = reqCtxMap[r.of]] /\ UNCHANGED <<ctx, pool>>
    <3>1. inner'[q] = base[q] /\ base' = base
      BY <1>0, <2>1, <2>2, <2>6
    <3>2. Using(q)' = Using(q)
      BY <2>3, <3>1 DEF Using
    <3>3. \A k \in Requests : Using(k)' = Using(k)
      BY <2>4, <3>2 DEF Using
    <3>4. OwnContexts(q)' /\ \A k \in Requests : k # q => OwnContexts(k)'
      BY <2>2, <2>4, <2>6, <3>1 DEF OwnContexts, OwnedBy, CtxInv
    <3>5. Exclusive'
      BY <2>6, <3>3, FreshContext DEF Exclusive, CtxInv
    <3> QED BY <1>0, <2>5, <2>6, <3>4, <3>5 DEF CtxInv
  <2>7. CASE \E c \in pool :
               /\ inner' = [inner EXCEPT ![q] = c] /\ pool' = pool \ {c}
               /\ ctx' = [ctx EXCEPT ![c] = [Fresh(q) EXCEPT !.w = old.w, !.r = r]]
    <3>1. PICK c \in pool :
               /\ inner' = [inner EXCEPT ![q] = c] /\ pool' = pool \ {c}
               /\ ctx' = [ctx EXCEPT ![c] = [Fresh(q) EXCEPT !.w = old.w, !.r = r]]
      BY <2>7
    <3> DEFINE y == [Fresh(q) EXCEPT !.w = old.w, !.r = r]
    <3>2. y \in Context /\ OwnedBy(y, q, {base[q], c})
      BY <1>0, <2>2 DEF Fresh, Direct, Context, OwnedBy, Holder
    <3>3. c \in Contexts /\ c # base[q]
      BY <1>0, <2>2 DEF Using
    <3>4. ctx' = [ctx EXCEPT ![c] = y]
      BY <3>1
    <3> HIDE DEF y, r, old
    <3>5. ctx' \in [Contexts -> Context] /\ ctx'[c] = y
          /\ \A d \in Contexts : d # c => ctx'[d] = ctx[d]
      BY <1>0, <3>2, <3>3, <3>4
    <3>6. inner'[q] = c /\ base'[q] = base[q]
      BY <1>0, <2>1, <3>1
    <3>7. Using(q)' = Using(q) \cup {c}
      BY <1>0, <2>3, <3>3, <3>6 DEF Using
    <3>8. ctx'[base[q]] = ctx[base[q]]
      BY <2>2, <3>3, <3>5
    <3>9. OwnContexts(q)'
      BY <1>0, <2>2, <3>2, <3>5, <3>6, <3>8 DEF OwnContexts
    <3>10. CtxInv' /\ pool' \subseteq Contexts
      BY <2>4, <3>1, <3>3, <3>5, <3>7, <3>9, Handover
    <3> QED BY <2>5, <3>10
  <2> HIDE DEF r, old
  <2> QED BY <2>1, <2>6, <2>7
<1>5. CASE HandleReturns(q)
  <2> DEFINE c == inner[q]
  <2>1. /\ dir[q] = "up" /\ Layer(q) = "mux" /\ UNCHANGED <<base, netVars>>
        /\ inner' = [inner EXCEPT ![q] = None]
        /\ pool' = IF c # base[q] THEN pool \cup {c} ELSE pool
        /\ ctx' = IF c # base[q] THEN [ctx EXCEPT ![c] = Clean] ELSE ctx
    BY <1>5 DEF HandleReturns, Up
  <2>2. base[q] \in Contexts /\ c \in Contexts
    <3>1. Chain(q) \in Seq(Layers) /\ Len(Chain(q)) \in Nat /\ at[q] \in 0 .. Len(Chain(q)) - 1
          /\ MuxAt \in Nat
      BY <1>0, <2>1, ChainParts DEF PlaceInv, Place
    <3>2. at[q] # 0
      BY <2>1 DEF Layer
    <3>3. at[q] \in 1 .. Len(Chain(q))
      <4> DEFINE n == Len(Chain(q))
      <4>1. n \in Nat /\ at[q] \in 0 .. n - 1
        BY <3>1
      <4> HIDE DEF n
      <4>2. at[q] \in 1 .. n
        BY <3>2, <4>1
      <4> QED BY <4>2 DEF n
    <3>4. at[q] = MuxAt
      BY <2>1, <3>2, <3>3, ChainShape DEF PlaceInv, Layer
    <3>5. at[q] >= MuxAt
      BY <3>1, <3>4
    <3> QED BY <1>0, <2>1, <3>5 DEF Place, Inside, Serving
  <2>3. inner'[q] = None /\ base'[q] = base[q]
        /\ \A k \in Requests : k # q => base'[k] = base[k] /\ inner'[k] = inner[k]
    BY <1>0, <2>1
  <2>4. NetInv'
    BY <1>1, <2>1
  <2>5. CASE c = base[q]
    <3>1. UNCHANGED <<ctx, pool>>
      BY <2>1, <2>5
    <3>2. Using(q)' = Using(q)
      BY <1>0, <2>2, <2>3, <2>5 DEF Using
    <3>3. \A k \in Requests : Using(k)' = Using(k)
      BY <2>3, <3>2 DEF Using
    <3>4. OwnContexts(q)' /\ \A k \in Requests : k # q => OwnContexts(k)'
      BY <1>0, <2>3, <3>1 DEF OwnContexts, CtxInv
    <3>5. Exclusive'
      BY <3>1, <3>3, FreshContext DEF Exclusive, CtxInv
    <3> QED BY <1>0, <2>4, <3>1, <3>4, <3>5 DEF CtxInv
  <2>6. CASE c # base[q]
    <3>1. pool' = pool \cup {c} /\ ctx' = [ctx EXCEPT ![c] = Clean]
      BY <2>1, <2>6
    <3>2. ctx'[c] = Clean /\ ctx' \in [Contexts -> Context]
          /\ \A d \in Contexts : d # c => ctx'[d] = ctx[d]
      BY <1>0, <2>2, <3>1, FreshContext
    <3>3. c \in Using(q) /\ Using(q)' = Using(q) \ {c}
      BY <1>0, <2>2, <2>3, <2>6 DEF Using
    <3>4. ctx'[base[q]] = ctx[base[q]]
      BY <2>2, <2>6, <3>2
    <3>5. OwnContexts(q)'
      BY <1>0, <2>3, <3>4 DEF OwnContexts
    <3>6. CtxInv' /\ pool' \subseteq Contexts
      BY <2>2, <2>3, <3>1, <3>2, <3>3, <3>5, Handover
    <3> QED BY <2>4, <3>6
  <2> QED BY <2>5, <2>6
<1> QED BY <1>2, <1>3, <1>4, <1>5

-----------------------------------------------------------------------------
(* The invariant, and what follows from it.                                *)

TailInv ==
  /\ expired \in [Requests -> BOOLEAN]
  /\ log \in [Requests -> Seq(Status \cup {0})]
  /\ crossed \in [Requests -> BOOLEAN]
  /\ late \in [Requests -> BOOLEAN]

RequestInv == PlaceInv /\ CtxInv /\ NetInv /\ TailInv

LEMMA TailStep ==
  ASSUME PipelineAssumption, RequestInv, NEW q \in Requests,
         Goroutine(q) \/ DeadlinePasses(q)
  PROVE  TailInv'
<1>1. /\ expired \in [Requests -> BOOLEAN] /\ late \in [Requests -> BOOLEAN]
      /\ crossed \in [Requests -> BOOLEAN] /\ log \in [Requests -> Seq(Status \cup {0})]
  BY DEF RequestInv, TailInv
<1>2. ASSUME UNCHANGED <<expired, log, histVars>> PROVE TailInv'
  BY <1>1, <1>2 DEF TailInv, histVars
<1>3. CASE GZipReturns(q)
  <2>1. /\ crossed' = [crossed EXCEPT ![q] =
                         crossed[q] \/ (input[q].gzip /\ res[q] # Nil)]
        /\ UNCHANGED <<expired, log, late>>
    BY <1>1, <1>3 DEF GZipReturns
  <2>2. (crossed[q] \/ (input[q].gzip /\ res[q] # Nil)) \in BOOLEAN
    OBVIOUS
  <2>3. crossed' \in [Requests -> BOOLEAN]
    BY <1>1, <2>1, <2>2
  <2> QED BY <1>1, <2>1, <2>3 DEF TailInv
<1>4. CASE DeadlinePasses(q)
  BY <1>1, <1>4 DEF DeadlinePasses, TailInv, histVars
<1>5. CASE TimeoutReturns(q)
  <2> DEFINE fails == expired[q] /\ res[q] # Panic
             a == late[q] \/ (fails /\ wire[q].status # 0)
             b == crossed[q] \/ (/\ fails /\ ctx[Ctx(q)].w.gz
                                 /\ \E k \in at[q] .. Len(Chain(q)) : Chain(q)[k] = "gzip")
  <2>1. /\ late' = [late EXCEPT ![q] = a] /\ crossed' = [crossed EXCEPT ![q] = b]
        /\ UNCHANGED <<expired, log>>
    BY <1>1, <1>5 DEF TimeoutReturns
  <2>2. a \in BOOLEAN /\ b \in BOOLEAN
    OBVIOUS
  <2> HIDE DEF a, b
  <2>3. late' \in [Requests -> BOOLEAN] /\ crossed' \in [Requests -> BOOLEAN]
    BY <1>1, <2>1, <2>2
  <2> QED BY <1>1, <2>1, <2>3 DEF TailInv
<1>6. CASE RequestLogReturns(q)
  <2>1. /\ log' = IF res[q] = Panic THEN log
                  ELSE [log EXCEPT ![q] = Append(log[q], ctx[base[q]].status)]
        /\ UNCHANGED <<expired, histVars>> /\ dir[q] = "up"
    BY <1>1, <1>6 DEF RequestLogReturns, Up
  <2>2. ctx[base[q]] \in Context
    BY <2>1 DEF RequestInv, PlaceInv, Place, Serving, CtxInv
  <2>3. ctx[base[q]].status \in Status \cup {0}
    BY <2>2 DEF Context
  <2>4. Append(log[q], ctx[base[q]].status) \in Seq(Status \cup {0})
    BY <1>1, <2>3, AppendProperties
  <2>5. log' \in [Requests -> Seq(Status \cup {0})]
    BY <1>1, <2>1, <2>4
  <2> QED BY <1>1, <2>1, <2>5 DEF TailInv, histVars
<1> QED BY <1>2, <1>3, <1>4, <1>5, <1>6
        DEF Goroutine, ServeHTTP, ServeError, Forget, Release, Recover, RequestLog,
            RequestID, CORS, Timeout, Auth, BasicAuth, Authorize, GZip, MuxAnswers,
            Handle, Handler, PassUp, HandleError, HandleReturns, RecoverReturns

LEMMA RequestInit == ASSUME PipelineAssumption, Init PROVE RequestInv
<1>1. PlaceInv
  BY PlaceInit
<1>2. CtxInv
  <2>1. /\ pool = Contexts /\ base = [q \in Requests |-> None]
        /\ inner = [q \in Requests |-> None] /\ ctx = [c \in Contexts |-> Clean]
    BY DEF Init
  <2>2. Clean \in Context
    BY DEF Clean, Fresh, Direct, Context, Holder, PipelineAssumption
  <2> QED BY <2>1, <2>2 DEF CtxInv, Exclusive, OwnContexts, Using
<1>3. NetInv
  BY PiecesOwn DEF Init, NetInv
<1>4. TailInv
  BY DEF Init, TailInv
<1> QED BY <1>1, <1>2, <1>3, <1>4 DEF RequestInv

LEMMA GoroutineStep ==
  ASSUME PipelineAssumption, RequestInv, NEW q \in Requests,
         Goroutine(q) \/ DeadlinePasses(q)
  PROVE  /\ RequestInv' /\ Moves(q) /\ Others(q) /\ UNCHANGED <<config, input>>
         /\ Chain(q)' = Chain(q) /\ MuxAt' = MuxAt
         /\ made = Len(Conf.script)
<1>1. PlaceInv /\ CtxInv /\ NetInv
  BY DEF RequestInv
<1>2. Pointed(q)
  BY <1>1 DEF Pointed, PlaceInv, Place, CtxInv, OwnContexts, OwnedBy, PipelineAssumption
<1>3. CtxInv' /\ NetInv' /\ pool' \subseteq Contexts
  <2>1. CASE Kept(q) /\ NetInv'
    BY <1>1, <2>1, KeptContexts DEF Kept, PlaceInv
  <2>2. CASE ServeHTTP(q) \/ Release(q) \/ Handle(q) \/ HandleReturns(q)
    BY <1>1, <2>2, ContextsMove
  <2> QED BY <1>1, <2>1, <2>2, LayersKeep
<1>4. PlaceInv' /\ Chain(q)' = Chain(q) /\ MuxAt' = MuxAt
  BY <1>1, <1>2, <1>3, PlaceStep
<1>5. Moves(q) /\ Others(q)
  BY <1>1, <1>2, GoroutineMoves
<1>6. UNCHANGED <<config, input>> /\ made = Len(Conf.script)
  BY <1>1, GoroutineConfig DEF PlaceInv
<1> QED BY <1>3, <1>4, <1>5, <1>6, TailStep DEF RequestInv

LEMMA SetupStep ==
  ASSUME PipelineAssumption, RequestInv, Setup PROVE RequestInv'
<1>1. /\ ConfigInv' /\ UNCHANGED <<pcVars, ctxVars, ctx, netVars, log>>
      /\ UNCHANGED <<scenario, expired, histVars>> /\ \A q \in Requests : dir[q] = "new"
  BY SetupConfig DEF RequestInv, PlaceInv
<1>2. /\ UNCHANGED <<input, dir, at, res, pool, reqCtxMap, base, inner, ctx, wire, gz, log>>
      /\ UNCHANGED <<expired, crossed, late>>
  BY <1>1 DEF pcVars, ctxVars, netVars, histVars
<1>3. PlaceInv'
  BY <1>1, <1>2 DEF RequestInv, PlaceInv, Place, Serving, Inside
<1>4. CtxInv'
  <2>1. Clean' = Clean
    BY DEF Clean, Fresh, Direct
  <2>2. \A q \in Requests : Using(q)' = Using(q) /\ (OwnContexts(q)' <=> OwnContexts(q))
    BY <1>2 DEF Using, OwnContexts
  <2> QED BY <1>2, <2>1, <2>2 DEF RequestInv, CtxInv, Exclusive
<1>5. NetInv' /\ TailInv'
  BY <1>2 DEF RequestInv, NetInv, TailInv, OwnPieces
<1> QED BY <1>3, <1>4, <1>5 DEF RequestInv

LEMMA StutterStep ==
  ASSUME RequestInv, UNCHANGED vars PROVE RequestInv'
<1>1. /\ UNCHANGED <<input, dir, at, res, pool, reqCtxMap, base, inner, ctx, wire, gz, log>>
      /\ UNCHANGED <<scenario, made, stack, expired, crossed, late>>
  BY DEF vars, config, pcVars, ctxVars, netVars, histVars
<1>2. ConfigInv'
  BY <1>1 DEF RequestInv, PlaceInv, ConfigInv, Conf, Chains, Guarding
<1>3. PlaceInv'
  BY <1>1, <1>2 DEF RequestInv, PlaceInv, Place, Serving, Inside, Chain, MuxAt
<1>4. CtxInv'
  <2>1. Clean' = Clean
    BY DEF Clean, Fresh, Direct
  <2>2. \A q \in Requests : Using(q)' = Using(q) /\ (OwnContexts(q)' <=> OwnContexts(q))
    BY <1>1 DEF Using, OwnContexts
  <2> QED BY <1>1, <2>1, <2>2 DEF RequestInv, CtxInv, Exclusive
<1>5. NetInv' /\ TailInv'
  BY <1>1 DEF RequestInv, NetInv, TailInv, OwnPieces
<1> QED BY <1>3, <1>4, <1>5 DEF RequestInv

THEOREM RequestInvariant == Spec => []RequestInv
<1>1. Init => RequestInv
  BY PipelineAssumption, RequestInit
<1>2. RequestInv /\ [Next]_vars => RequestInv'
  BY PipelineAssumption, GoroutineStep, SetupStep, StutterStep DEF Next, Terminating
<1> QED BY <1>1, <1>2, PTL DEF Spec

(* Every variable has its type.                                            *)
THEOREM TypeCorrect == Spec => []TypeOK
<1>1. ASSUME RequestInv PROVE TypeOK
  <2>1. ConfigInv
    BY <1>1 DEF RequestInv, PlaceInv
  <2>2. stack.app \in Seq(Layers)
        /\ \A route \in DOMAIN stack.routes : stack.routes[route] \in Seq(Layers)
    <3> DEFINE App == Middleware \cup {"recover", "log"}
    <3>1. stack.app \in Seq(App)
          /\ \A route \in DOMAIN stack.routes : stack.routes[route] \in Seq(RouteLayers)
      BY <2>1 DEF ConfigInv, Chains
    <3>2. App \subseteq Layers /\ RouteLayers \subseteq Layers
      BY DEF Layers, Middleware, RouteLayers
    <3> HIDE DEF App
    <3> QED BY <3>1, <3>2, SeqMonotonic
  <2>3. \A q \in Requests : at[q] \in 0 .. Len(Chain(q))
    <3>1. ASSUME NEW q \in Requests PROVE at[q] \in 0 .. Len(Chain(q))
      <4> DEFINE n == Len(Chain(q))
      <4>1. n \in Nat
        BY <2>1, ChainParts
      <4>2. at[q] = 0 \/ at[q] \in 1 .. n \/ at[q] \in 0 .. n - 1
        BY <1>1 DEF RequestInv, PlaceInv, ConfigInv, Place
      <4> HIDE DEF n
      <4>3. at[q] \in 0 .. n
        BY <4>1, <4>2
      <4> QED BY <4>3 DEF n
    <3> QED BY <3>1
  <2>4. CtxInv /\ NetInv /\ TailInv /\ PlaceInv
    BY <1>1 DEF RequestInv
  <2> QED BY <2>1, <2>2, <2>3, <2>4
          DEF TypeOK, ConfigInv, PlaceInv, CtxInv, NetInv, TailInv
<1> QED BY <1>1, RequestInvariant, PTL

(* A Context belongs to one request or to the pool, none is lost, a Context *)
(* in the pool is clean, and reqCtxMap knows exactly the requests whose     *)
(* goroutines may look for theirs (context.go:22-24, sugaar.go:194).        *)
THEOREM ContextsStayExclusive == Spec => []ContextsExclusive
<1>1. ASSUME RequestInv PROVE ContextsExclusive
  <2>1. Exclusive /\ PlaceInv
    BY <1>1 DEF RequestInv, CtxInv
  <2>2. pool \cup UNION {Using(q) : q \in Requests} = Contexts
    <3>1. \A q \in Requests : Using(q) \subseteq Contexts
      BY <2>1 DEF PlaceInv, Using
    <3> QED BY <2>1, <3>1 DEF Exclusive, PlaceInv
  <2> QED BY <2>1, <2>2 DEF ContextsExclusive, Exclusive, PlaceInv
<1> QED BY <1>1, RequestInvariant, PTL

(* No identity, request ID, writer or piece of a response is another       *)
(* request's, however the goroutines interleave.                           *)
THEOREM NothingCrosses == Spec => []NoCrossTalk
<1>1. ASSUME RequestInv, NEW q \in Requests, NEW c \in Using(q)
      PROVE  /\ ctx[c].w.conn = q /\ ctx[c].r.of = q
             /\ ctx[c].w.sw \in Using(q) \cup {None}
             /\ {ctx[c].user, ctx[c].reqID} \subseteq {q, None}
             /\ ctx[c].identity # None => ctx[c].identity.of = q
  <2>1. OwnContexts(q) /\ c # None /\ c \in {base[q], inner[q]}
    BY <1>1 DEF RequestInv, CtxInv, Using
  <2>2. OwnedBy(ctx[c], q, {base[q], inner[q]})
    BY <2>1 DEF OwnContexts, OwnedBy
  <2> QED BY <2>2 DEF OwnedBy, Using
<1>2. ASSUME RequestInv, NEW q \in Requests, NEW k \in DOMAIN wire[q].body
      PROVE  wire[q].body[k].of = q
  <2>1. wire[q].body \in OwnPieces(q)
    BY <1>2 DEF RequestInv, NetInv
  <2> DEFINE S == [of : {q}, code : Status]
  <2>2. wire[q].body \in Seq(S)
    BY <2>1 DEF OwnPieces
  <2>3. wire[q].body[k] \in S
    <3> HIDE DEF S
    <3> QED BY <1>2, <2>2, LenProperties, ElementOfSeq
  <2> QED BY <2>3
<1>3. RequestInv => NoCrossTalk
  BY <1>1, <1>2 DEF NoCrossTalk
<1> QED BY <1>3, RequestInvariant, PTL

-----------------------------------------------------------------------------
(* Guards.                                                                 *)

Cred(q) == Creds[input[q].cred]

(* A layer above has authenticated the request as id.                      *)
Vouches(q, id) ==
  \E j \in 1 .. at[q] - 1 :
    \/ Chain(q)[j] = "auth" /\ id = Authenticate(Conf.auth, Cred(q))
    \/ Chain(q)[j] = "pprofauth" /\ id = Authenticate(Conf.pprof, Cred(q))

(* What it means that a layer has let the request pass.                    *)
Passed(q, layer) ==
  /\ layer = "auth" => Authenticate(Conf.auth, Cred(q)) # Refused
  /\ layer = "pprofauth" => Authenticate(Conf.pprof, Cred(q)) # Refused
  /\ layer = "basicauth" => Verify(Cred(q)["basic"]) # Refused
  /\ layer = "cors" => input[q].method # "OPTIONS"
  /\ layer = "authorize" =>
       \E id \in Identity : Vouches(q, id) /\ RoleCheck(Conf.roles, id) = Nil

Vouched(q, x) ==
  x.identity # None => x.identity.id \in Identity /\ Vouches(q, x.identity.id)

(* On the way down all layers above have let the request pass, and an      *)
(* Identity on one of its Contexts is what one of them made of its         *)
(* credentials.                                                            *)
Guarded(q) ==
  dir[q] = "down" =>
    /\ \A j \in 1 .. at[q] - 1 : Passed(q, Chain(q)[j])
    /\ \A c \in Using(q) : Vouched(q, ctx[c])

GuardInv == \A q \in Requests : Guarded(q)

(* A step leaves the Contexts of the others alone.                         *)
LEMMA OthersContexts ==
  ASSUME PipelineAssumption, RequestInv, NEW q \in Requests,
         Goroutine(q) \/ DeadlinePasses(q), NEW k \in Requests, k # q
  PROVE  Using(k)' = Using(k) /\ \A c \in Using(k) : ctx'[c] = ctx[c]
<1>1. PlaceInv /\ CtxInv /\ NetInv
  BY DEF RequestInv
<1>2. Using(k)' = Using(k)
  <2>1. Others(q)
    BY GoroutineStep
  <2> QED BY <2>1 DEF Others, Using
<1>3. ASSUME NEW c \in Using(k)
      PROVE  c \in Contexts /\ c \notin pool /\ c \notin Using(q) /\ c # None
  BY <1>1 DEF CtxInv, Exclusive, Using, PlaceInv, PipelineAssumption
<1>4. ASSUME NEW c \in Using(k) PROVE ctx'[c] = ctx[c]
  <2>0. c \in Contexts /\ c \notin pool /\ c \notin Using(q) /\ c # None
    BY <1>3
  <2>1. CASE Kept(q)
    BY <2>0, <2>1 DEF Kept
  <2>2. CASE ServeHTTP(q) \/ Handle(q)
    <3>1. ctx' = ctx \/ \E d \in pool : \E y : ctx' = [ctx EXCEPT ![d] = y]
      BY <2>2 DEF ServeHTTP, Handle
    <3> QED BY <1>1, <2>0, <3>1 DEF CtxInv
  <2>3. CASE Release(q) \/ HandleReturns(q)
    <3>1. ctx' = ctx \/ \E d \in {base[q], inner[q]} : ctx' = [ctx EXCEPT ![d] = Clean]
      BY <2>3 DEF Release, HandleReturns
    <3>2. c \notin {base[q], inner[q]}
      BY <2>0 DEF Using
    <3> QED BY <1>1, <2>0, <3>1, <3>2 DEF CtxInv
  <2> QED BY <1>1, <2>1, <2>2, <2>3, LayersKeep
<1> QED BY <1>2, <1>4

(* The layers of the way down: q enters the chain, or ...                  *)
Enters(q) ==
  /\ dir[q] = "new" /\ at'[q] = 1
  /\ \A c \in Using(q)' : ctx'[c].identity = None

(* ... a layer lets it pass, and an Identity on a Context was there before *)
(* or is what the layer made, or ...                                       *)
LetsPass(q) ==
  /\ dir[q] = "down" /\ at'[q] = at[q] + 1
  /\ LET layer == Layer(q)
     IN  /\ layer = "auth" => Authenticate(Conf.auth, Cred(q)) # Refused
         /\ layer = "pprofauth" => Authenticate(Conf.pprof, Cred(q)) # Refused
         /\ layer = "basicauth" => Verify(Cred(q)["basic"]) # Refused
         /\ layer = "cors" => input[q].method # "OPTIONS"
         /\ layer = "authorize" =>
              \E c \in Using(q) : /\ ctx[c].identity # None
                                  /\ RoleCheck(Conf.roles, ctx[c].identity.id) = Nil
         /\ \A c \in Using(q)' :
              \/ ctx'[c].identity = None
              \/ c \in Using(q) /\ ctx'[c].identity = ctx[c].identity
              \/ /\ layer = "auth"
                 /\ ctx'[c].identity.id = Authenticate(Conf.auth, Cred(q))
              \/ /\ layer = "pprofauth"
                 /\ ctx'[c].identity.id = Authenticate(Conf.pprof, Cred(q))

(* ... the deadline passes.                                                *)
Waits(q) ==
  /\ dir[q] = "down" /\ at'[q] = at[q] /\ ctx' = ctx /\ Using(q)' = Using(q)

LEMMA Descent ==
  ASSUME PipelineAssumption, RequestInv, NEW q \in Requests,
         Goroutine(q) \/ DeadlinePasses(q), dir'[q] = "down"
  PROVE  Enters(q) \/ LetsPass(q) \/ Waits(q)
<1>1. /\ PlaceInv /\ CtxInv /\ dir \in [Requests -> {"new", "down", "up", "forget", "release", "done"}]
      /\ at \in [Requests -> Nat] /\ ctx \in [Contexts -> Context]
      /\ base \in [Requests -> Contexts \cup {None}] /\ pool \subseteq Contexts
      /\ inner \in [Requests -> Contexts \cup {None}] /\ None \notin Contexts
      /\ Using(q) \subseteq Contexts /\ Place(q)
  BY DEF RequestInv, PlaceInv, ConfigInv, CtxInv, Using, PipelineAssumption
<1> DEFINE c == Ctx(q)
<1>2. ASSUME dir[q] = "down", Layer(q) \notin {"serve", "mux"}
      PROVE  c \in Using(q) /\ c \in Contexts /\ ctx[c] \in Context
  BY <1>1, <1>2, LayerContext
<1>3. ASSUME Call(q) PROVE at'[q] = at[q] + 1 /\ dir'[q] = dir[q]
  BY <1>1, <1>3 DEF Call
<1>4. ASSUME NEW r, Return(q, r) PROVE FALSE
  BY <1>1, <1>4 DEF Return
<1>5. ASSUME UNCHANGED ctxVars PROVE Using(q)' = Using(q)
  BY <1>5 DEF ctxVars, Using
<1>6. ASSUME Call(q), UNCHANGED ctxVars, dir[q] = "down",
             Layer(q) \notin {"auth", "pprofauth", "basicauth", "cors", "authorize"},
             \A d \in Using(q) : ctx'[d].identity = ctx[d].identity
      PROVE  LetsPass(q)
  BY <1>3, <1>5, <1>6 DEF LetsPass
<1> HIDE DEF c
<1>7. CASE ServeHTTP(q)
  <2>1. PICK d \in pool : /\ ctx' = [ctx EXCEPT ![d] = Fresh(q)]
                          /\ base' = [base EXCEPT ![q] = d]
    BY <1>7 DEF ServeHTTP
  <2>2. inner' = inner /\ dir[q] = "new" /\ at' = [at EXCEPT ![q] = 1]
    BY <1>7 DEF ServeHTTP
  <2>3. inner[q] = None
    BY <1>1, <2>2 DEF Place, Inside
  <2>4. ctx'[d].identity = None
    BY <1>1, <2>1 DEF Fresh
  <2>5. Using(q)' \subseteq {d}
    BY <1>1, <2>1, <2>2, <2>3 DEF Using
  <2> QED BY <1>1, <2>2, <2>4, <2>5 DEF Enters
<1>8. CASE Recover(q)
  BY <1>6, <1>8 DEF Recover, Down
<1>9. CASE RequestLog(q) \/ RequestID(q) \/ Timeout(q) \/ GZip(q)
  <2>1. /\ dir[q] = "down" /\ Layer(q) \in {"log", "requestid", "timeout", "gzip"}
        /\ Call(q) /\ UNCHANGED ctxVars
    BY <1>9 DEF RequestLog, RequestID, Timeout, GZip, Down
  <2>2. \/ ctx' = [ctx EXCEPT ![c].w.sw = c, ![c].status = 0]
        \/ ctx' = [ctx EXCEPT ![c].reqID = q]
        \/ ctx' = [ctx EXCEPT ![c].r.derived = TRUE]
        \/ ctx' = [ctx EXCEPT ![c].w.gz = TRUE]
        \/ ctx' = ctx
    BY <1>9 DEF RequestLog, RequestID, Timeout, GZip, c
  <2>3. c \in Using(q) /\ c \in Contexts /\ ctx[c] \in Context
    BY <1>2, <2>1
  <2>4. ASSUME NEW y \in {[ctx[c] EXCEPT !.w.sw = c, !.status = 0],
                          [ctx[c] EXCEPT !.reqID = q],
                          [ctx[c] EXCEPT !.r.derived = TRUE],
                          [ctx[c] EXCEPT !.w.gz = TRUE]}
        PROVE  y.identity = ctx[c].identity
    BY <2>3 DEF Context
  <2>5. \A d \in Using(q) : ctx'[d].identity = ctx[d].identity
    BY <1>1, <2>2, <2>3, <2>4
  <2> QED BY <1>6, <2>1, <2>5
<1>10. CASE CORS(q)
  <2>1. /\ dir[q] = "down" /\ Layer(q) = "cors" /\ input[q].method # "OPTIONS"
        /\ Call(q) /\ UNCHANGED <<ctxVars, ctx>>
    BY <1>4, <1>10 DEF CORS, Down
  <2> QED BY <1>3, <1>5, <2>1 DEF LetsPass
<1>11. CASE Auth(q, "auth", Conf.auth)
  <2> DEFINE id == Authenticate(Conf.auth, Cred(q))
  <2>1. /\ dir[q] = "down" /\ Layer(q) = "auth" /\ id # Refused
        /\ Call(q) /\ UNCHANGED ctxVars
        /\ ctx' = [ctx EXCEPT ![c].identity = [of |-> q, id |-> id]]
    BY <1>4, <1>11 DEF Auth, Down, c, Cred
  <2>2. c \in Contexts /\ ctx[c] \in Context
    BY <1>2, <2>1
  <2> HIDE DEF id
  <2>3. ctx'[c].identity.id = id
    BY <1>1, <2>1, <2>2 DEF Context
  <2>4. \A d \in Using(q) : d # c => ctx'[d] = ctx[d]
    BY <1>1, <2>1
  <2> QED BY <1>3, <1>5, <2>1, <2>3, <2>4 DEF LetsPass, id
<1>12. CASE Auth(q, "pprofauth", Conf.pprof)
  <2> DEFINE id == Authenticate(Conf.pprof, Cred(q))
  <2>1. /\ dir[q] = "down" /\ Layer(q) = "pprofauth" /\ id # Refused
        /\ Call(q) /\ UNCHANGED ctxVars
        /\ ctx' = [ctx EXCEPT ![c].identity = [of |-> q, id |-> id]]
    BY <1>4, <1>12 DEF Auth, Down, c, Cred
  <2>2. c \in Contexts /\ ctx[c] \in Context
    BY <1>2, <2>1
  <2> HIDE DEF id
  <2>3. ctx'[c].identity.id = id
    BY <1>1, <2>1, <2>2 DEF Context
  <2>4. \A d \in Using(q) : d # c => ctx'[d] = ctx[d]
    BY <1>1, <2>1
  <2> QED BY <1>3, <1>5, <2>1, <2>3, <2>4 DEF LetsPass, id
<1>13. CASE BasicAuth(q)
  <2>1. /\ dir[q] = "down" /\ Layer(q) = "basicauth"
        /\ Verify(Cred(q)["basic"]) # Refused
        /\ Call(q) /\ UNCHANGED ctxVars /\ ctx' = [ctx EXCEPT ![c].user = q]
    BY <1>4, <1>13 DEF BasicAuth, Down, c, Cred
  <2>2. c \in Contexts /\ ctx[c] \in Context
    BY <1>2, <2>1
  <2>3. \A d \in Using(q) : ctx'[d].identity = ctx[d].identity
    BY <1>1, <2>1, <2>2 DEF Context
  <2> QED BY <1>3, <1>5, <2>1, <2>3 DEF LetsPass
<1>14. CASE Authorize(q)
  <2>1. /\ dir[q] = "down" /\ Layer(q) = "authorize"
        /\ (IF ctx[c].identity = None THEN 401
            ELSE RoleCheck(Conf.roles, ctx[c].identity.id)) = Nil
        /\ Call(q) /\ UNCHANGED <<ctxVars, ctx>>
    BY <1>4, <1>14 DEF Authorize, Down, c
  <2>2. c \in Using(q) /\ ctx[c].identity # None
        /\ RoleCheck(Conf.roles, ctx[c].identity.id) = Nil
    BY <1>2, <2>1 DEF Nil
  <2> QED BY <1>3, <1>5, <2>1, <2>2 DEF LetsPass
<1>15. CASE Handle(q)
  <2>1. /\ dir[q] = "down" /\ Layer(q) = "mux" /\ Call(q) /\ base' = base
        /\ \/ /\ inner' = [inner EXCEPT ![q] = reqCtxMap[ctx[base[q]].r.of]]
              /\ ctx' = ctx
           \/ \E d \in pool :
                /\ inner' = [inner EXCEPT ![q] = d]
                /\ ctx' = [ctx EXCEPT ![d] =
                     [Fresh(q) EXCEPT !.w = ctx[base[q]].w, !.r = ctx[base[q]].r]]
    BY <1>15 DEF Handle, Down
  <2>2. /\ base[q] \in Contexts /\ reqCtxMap[q] = base[q]
        /\ ctx[base[q]].r.of = q /\ base[q] \in Using(q) /\ base[q] \notin pool
    BY <1>1, <2>1 DEF PlaceInv, Place, Serving, CtxInv, OwnContexts, OwnedBy, Using, Exclusive
  <2>3. ASSUME NEW d \in Using(q)'
        PROVE  \/ ctx'[d].identity = None
               \/ d \in Using(q) /\ ctx'[d].identity = ctx[d].identity
    <3>1. d \in {base'[q], inner'[q]}
      BY <2>3 DEF Using
    <3>2. CASE /\ inner' = [inner EXCEPT ![q] = reqCtxMap[ctx[base[q]].r.of]]
               /\ ctx' = ctx
      BY <1>1, <2>1, <2>2, <3>1, <3>2
    <3>3. ASSUME NEW e \in pool, inner' = [inner EXCEPT ![q] = e],
                 ctx' = [ctx EXCEPT ![e] =
                     [Fresh(q) EXCEPT !.w = ctx[base[q]].w, !.r = ctx[base[q]].r]]
          PROVE  \/ ctx'[d].identity = None
                 \/ d \in Using(q) /\ ctx'[d].identity = ctx[d].identity
      <4>1. ctx'[e].identity = None /\ ctx'[base[q]] = ctx[base[q]]
        BY <1>1, <2>2, <3>3 DEF Fresh
      <4>2. d = e \/ d = base[q]
        BY <1>1, <2>1, <3>1, <3>3
      <4> QED BY <2>2, <4>1, <4>2
    <3> QED BY <2>1, <3>2, <3>3
  <2> QED BY <1>3, <2>1, <2>3 DEF LetsPass
<1>16. CASE DeadlinePasses(q)
  BY <1>5, <1>16 DEF DeadlinePasses, pcVars, Waits
<1>17. CASE MuxAnswers(q) \/ Handler(q) \/ PassUp(q) \/ GZipReturns(q) \/ TimeoutReturns(q)
            \/ HandleReturns(q) \/ RequestLogReturns(q) \/ RecoverReturns(q)
  <2>1. CASE MuxAnswers(q) \/ PassUp(q) \/ GZipReturns(q) \/ HandleReturns(q)
             \/ RequestLogReturns(q)
    <3>1. Return(q, Nil) \/ Return(q, res[q])
      BY <2>1 DEF MuxAnswers, PassUp, GZipReturns, HandleReturns, RequestLogReturns
    <3> QED BY <1>4, <3>1
  <2>2. CASE TimeoutReturns(q) \/ RecoverReturns(q)
    <3>1. dir' = [dir EXCEPT ![q] = "up"]
      BY <2>2 DEF TimeoutReturns, RecoverReturns, Return
    <3> QED BY <1>1, <3>1
  <2>3. CASE Handler(q)
    <3>1. dir' = [dir EXCEPT ![q] = "up"]
      BY <2>3 DEF Handler, Return
    <3> QED BY <1>1, <3>1
  <2> QED BY <1>17, <2>1, <2>2, <2>3
<1>18. CASE ServeError(q) \/ Forget(q) \/ Release(q) \/ HandleError(q)
  BY <1>1, <1>18 DEF ServeError, Forget, Release, HandleError, Up
<1> QED BY <1>7, <1>8, <1>9, <1>10, <1>11, <1>12, <1>13, <1>14, <1>15, <1>16, <1>17,
           <1>18 DEF Goroutine

LEMMA GuardsHold ==
  ASSUME PipelineAssumption, RequestInv, GuardInv, NEW q \in Requests,
         Goroutine(q) \/ DeadlinePasses(q)
  PROVE  GuardInv'
<1>1. /\ UNCHANGED <<scenario, made, stack, input>> /\ Others(q)
      /\ at \in [Requests -> Nat]
  BY GoroutineStep DEF config, RequestInv, PlaceInv, ConfigInv
<1>2. /\ Conf' = Conf /\ MuxAt' = MuxAt
      /\ \A k \in Requests : Chain(k)' = Chain(k) /\ Cred(k)' = Cred(k)
  BY <1>1 DEF Conf, MuxAt, Chain, Cred
<1> HIDE DEF Conf
<1>3. ASSUME NEW k \in Requests, at'[k] \in Nat, at'[k] >= at[k],
             NEW id, Vouches(k, id)
      PROVE  Vouches(k, id)'
  <2>1. PICK j \in 1 .. at[k] - 1 :
          \/ Chain(k)[j] = "auth" /\ id = Authenticate(Conf.auth, Cred(k))
          \/ Chain(k)[j] = "pprofauth" /\ id = Authenticate(Conf.pprof, Cred(k))
    BY <1>3 DEF Vouches
  <2>2. j \in 1 .. at'[k] - 1
    BY <1>1, <1>3
  <2> QED BY <1>2, <2>1, <2>2 DEF Vouches
<1>4. ASSUME NEW k \in Requests, at'[k] \in Nat, at'[k] >= at[k],
             NEW layer, Passed(k, layer)
      PROVE  Passed(k, layer)'
  <2>1. layer = "authorize" =>
          \E id \in Identity : Vouches(k, id)' /\ RoleCheck(Conf.roles, id) = Nil
    BY <1>3, <1>4 DEF Passed
  <2> QED BY <1>1, <1>2, <1>4, <2>1 DEF Passed
<1>5. ASSUME NEW k \in Requests, k # q PROVE Guarded(k)'
  <2>1. dir'[k] = dir[k] /\ at'[k] = at[k] /\ at[k] \in Nat
    BY <1>1, <1>5 DEF Others
  <2>2. Using(k)' = Using(k) /\ \A c \in Using(k) : ctx'[c] = ctx[c]
    BY <1>5, OthersContexts
  <2>3. Guarded(k)
    BY DEF GuardInv
  <2>4. at'[k] >= at[k] /\ at'[k] \in Nat
    BY <2>1
  <2>5. ASSUME dir[k] = "down", NEW c \in Using(k) PROVE Vouched(k, ctx[c])'
    <3>1. Vouched(k, ctx[c])
      BY <2>3, <2>5 DEF Guarded
    <3> QED BY <1>3, <2>2, <2>4, <3>1 DEF Vouched
  <2>6. ASSUME dir[k] = "down", NEW j \in 1 .. at[k] - 1
        PROVE  Passed(k, Chain(k)[j])'
    <3>1. Passed(k, Chain(k)[j])
      BY <2>3, <2>6 DEF Guarded
    <3>2. Passed(k, Chain(k)[j])' <=> \A l : l = Chain(k)[j] => Passed(k, l)'
      BY <1>2
    <3> QED BY <1>4, <2>4, <3>1, <3>2
  <2> QED BY <2>1, <2>2, <2>5, <2>6 DEF Guarded
<1>6. ASSUME dir'[q] = "down" PROVE Guarded(q)'
  <2> DEFINE cred == Cred(q)
             layer == Layer(q)
  <2>1. /\ Authenticate(Conf.auth, cred) # Refused => Authenticate(Conf.auth, cred) \in Identity
        /\ Authenticate(Conf.pprof, cred) # Refused => Authenticate(Conf.pprof, cred) \in Identity
    <3>1. Conf.auth \in Configured(Status \cup {Nil}) /\ Conf.pprof \in Configured({401})
          /\ cred \in Presented
      BY ConfTyped DEF RequestInv, PlaceInv, ConfigInv, Input, PipelineAssumption, Cred
    <3> HIDE DEF cred
    <3> QED BY <3>1, AuthenticateSound, AccessAssumption
  <2>2. Guarded(q) /\ at[q] \in Nat
    BY <1>1 DEF GuardInv
  <2>3. CASE Enters(q)
    <3>1. /\ at'[q] = 1 /\ \A c \in Using(q)' : ctx'[c].identity = None
      BY <2>3 DEF Enters
    <3>2. \A c \in Using(q)' : Vouched(q, ctx[c])'
      BY <3>1 DEF Vouched
    <3>3. 1 .. at'[q] - 1 = {}
      BY <3>1
    <3> QED BY <3>2, <3>3 DEF Guarded
  <2>4. CASE LetsPass(q)
    <3>1. dir[q] = "down" /\ at'[q] = at[q] + 1
      BY <2>4 DEF LetsPass
    <3>2. at'[q] \in Nat /\ at'[q] >= at[q] /\ at'[q] - 1 = at[q]
      BY <2>2, <3>1
    <3>3. at[q] \in 1 .. at'[q] - 1 /\ layer = Chain(q)[at[q]]
      <4>1. at[q] # 0
        BY <3>1 DEF RequestInv, PlaceInv, Place
      <4> QED BY <2>2, <3>2, <4>1 DEF Layer
    <3>4. \A l : l = layer => Passed(q, l)'
      <4>1. ASSUME layer = "authorize"
            PROVE  \E id \in Identity : Vouches(q, id)' /\ RoleCheck(Conf.roles, id) = Nil
        <5>1. PICK c \in Using(q) : /\ ctx[c].identity # None
                                    /\ RoleCheck(Conf.roles, ctx[c].identity.id) = Nil
          BY <2>4, <4>1 DEF LetsPass
        <5>2. ctx[c].identity.id \in Identity /\ Vouches(q, ctx[c].identity.id)
          BY <2>2, <3>1, <5>1 DEF Guarded, Vouched
        <5> QED BY <1>3, <3>2, <5>1, <5>2
      <4>2. /\ layer = "auth" => Authenticate(Conf.auth, Cred(q)) # Refused
            /\ layer = "pprofauth" => Authenticate(Conf.pprof, Cred(q)) # Refused
            /\ layer = "basicauth" => Verify(Cred(q)["basic"]) # Refused
            /\ layer = "cors" => input[q].method # "OPTIONS"
        BY <2>4 DEF LetsPass
      <4> HIDE DEF layer
      <4> QED BY <1>1, <1>2, <4>1, <4>2 DEF Passed
    <3>5. ASSUME NEW j \in 1 .. at'[q] - 1 PROVE Passed(q, Chain(q)[j])'
      <4>1. Passed(q, Chain(q)[j])' <=> \A l : l = Chain(q)[j] => Passed(q, l)'
        BY <1>2
      <4>2. CASE j = at[q]
        BY <3>3, <3>4, <4>1, <4>2
      <4>3. CASE j # at[q]
        <5>1. j \in 1 .. at[q] - 1
          BY <2>2, <3>2, <4>3
        <5>2. Passed(q, Chain(q)[j])
          BY <2>2, <3>1, <5>1 DEF Guarded
        <5> QED BY <1>4, <3>2, <4>1, <5>2
      <4> QED BY <4>2, <4>3
    <3>6. ASSUME NEW c \in Using(q)' PROVE Vouched(q, ctx[c])'
      <4>1. \/ ctx'[c].identity = None
            \/ c \in Using(q) /\ ctx'[c].identity = ctx[c].identity
            \/ /\ layer = "auth" /\ Authenticate(Conf.auth, cred) # Refused
               /\ ctx'[c].identity.id = Authenticate(Conf.auth, cred)
            \/ /\ layer = "pprofauth" /\ Authenticate(Conf.pprof, cred) # Refused
               /\ ctx'[c].identity.id = Authenticate(Conf.pprof, cred)
        BY <2>4, <3>6 DEF LetsPass
      <4>2. CASE ctx'[c].identity = None
        BY <4>2 DEF Vouched
      <4>3. CASE c \in Using(q) /\ ctx'[c].identity = ctx[c].identity
        <5>1. Vouched(q, ctx[c])
          BY <2>2, <3>1, <4>3 DEF Guarded
        <5> QED BY <1>3, <3>2, <4>3, <5>1 DEF Vouched
      <4>4. CASE \/ /\ layer = "auth" /\ Authenticate(Conf.auth, cred) # Refused
                    /\ ctx'[c].identity.id = Authenticate(Conf.auth, cred)
                 \/ /\ layer = "pprofauth" /\ Authenticate(Conf.pprof, cred) # Refused
                    /\ ctx'[c].identity.id = Authenticate(Conf.pprof, cred)
        <5>1. ctx'[c].identity.id \in Identity
          BY <2>1, <4>4
        <5>2. ASSUME NEW id, id = ctx'[c].identity.id PROVE Vouches(q, id)'
          <6>1. \/ Chain(q)[at[q]] = "auth" /\ id = Authenticate(Conf.auth, Cred(q))
                \/ Chain(q)[at[q]] = "pprofauth" /\ id = Authenticate(Conf.pprof, Cred(q))
            BY <3>3, <4>4, <5>2
          <6>2. \E j \in 1 .. at'[q] - 1 :
                  \/ Chain(q)'[j] = "auth" /\ id = Authenticate(Conf.auth, Cred(q))'
                  \/ Chain(q)'[j] = "pprofauth" /\ id = Authenticate(Conf.pprof, Cred(q))'
            BY <1>2, <3>3, <6>1
          <6> QED BY <6>2 DEF Vouches
        <5> QED BY <5>1, <5>2 DEF Vouched
      <4> QED BY <4>1, <4>2, <4>3, <4>4
    <3> QED BY <3>5, <3>6 DEF Guarded
  <2>5. CASE Waits(q)
    <3>1. dir[q] = "down" /\ at'[q] = at[q] /\ ctx' = ctx /\ Using(q)' = Using(q)
      BY <2>5 DEF Waits
    <3>2. at'[q] \in Nat /\ at'[q] >= at[q]
      BY <2>2, <3>1
    <3>3. ASSUME NEW c \in Using(q) PROVE Vouched(q, ctx[c])'
      <4>1. Vouched(q, ctx[c])
        BY <2>2, <3>1, <3>3 DEF Guarded
      <4> QED BY <1>3, <3>1, <3>2, <4>1 DEF Vouched
    <3>4. ASSUME NEW j \in 1 .. at[q] - 1 PROVE Passed(q, Chain(q)[j])'
      <4>1. Passed(q, Chain(q)[j])
        BY <2>2, <3>1, <3>4 DEF Guarded
      <4>2. Passed(q, Chain(q)[j])' <=> \A l : l = Chain(q)[j] => Passed(q, l)'
        BY <1>2
      <4> QED BY <1>4, <3>2, <4>1, <4>2
    <3> QED BY <3>1, <3>3, <3>4 DEF Guarded
  <2> QED BY <1>6, <2>3, <2>4, <2>5, Descent
<1>7. dir'[q] # "down" => Guarded(q)'
  BY DEF Guarded
<1>8. \A k \in Requests : Guarded(k)'
  BY <1>5, <1>6, <1>7
<1> QED BY <1>8 DEF GuardInv

THEOREM GuardInvariant == Spec => [](RequestInv /\ GuardInv)
<1>1. ASSUME Init PROVE RequestInv /\ GuardInv
  <2>1. \A q \in Requests : dir[q] = "new"
    BY <1>1 DEF Init
  <2> QED BY <1>1, <2>1, PipelineAssumption, RequestInit DEF GuardInv, Guarded
<1>2. ASSUME RequestInv, GuardInv, [Next]_vars PROVE RequestInv' /\ GuardInv'
  <2>1. CASE Setup
    <3>1. \A q \in Requests : dir'[q] = "new"
      BY <1>2, <2>1, PipelineAssumption, SetupConfig DEF RequestInv, PlaceInv, pcVars
    <3> QED BY <1>2, <2>1, <3>1, PipelineAssumption, SetupStep DEF GuardInv, Guarded
  <2>2. CASE \E q \in Requests : Goroutine(q) \/ DeadlinePasses(q)
    BY <1>2, <2>2, PipelineAssumption, GoroutineStep, GuardsHold
  <2>3. CASE UNCHANGED vars
    <3>1. /\ UNCHANGED <<scenario, stack, input, dir, at, base, inner, ctx>>
      BY <2>3 DEF vars, config, pcVars, ctxVars
    <3>2. Conf' = Conf /\ \A q \in Requests : /\ Chain(q)' = Chain(q) /\ Cred(q)' = Cred(q)
                                              /\ Using(q)' = Using(q)
      BY <3>1 DEF Conf, Chain, Cred, Using
    <3> HIDE DEF Conf
    <3>3. \A q \in Requests : \A id : Vouches(q, id)' <=> Vouches(q, id)
      BY <3>1, <3>2 DEF Vouches
    <3>4. \A q \in Requests : \A layer : Passed(q, layer) => Passed(q, layer)'
      BY <3>1, <3>2, <3>3 DEF Passed
    <3>5. ASSUME NEW q \in Requests, dir[q] = "down", NEW j \in 1 .. at[q] - 1
          PROVE  Passed(q, Chain(q)[j])'
      <4>1. Passed(q, Chain(q)[j])
        BY <1>2, <3>5 DEF GuardInv, Guarded
      <4>2. Passed(q, Chain(q)[j])' <=> \A l : l = Chain(q)[j] => Passed(q, l)'
        BY <3>2
      <4> QED BY <3>4, <4>1, <4>2
    <3>6. ASSUME NEW q \in Requests, dir[q] = "down", NEW c \in Using(q)
          PROVE  Vouched(q, ctx[c])'
      <4>1. Vouched(q, ctx[c])
        BY <1>2, <3>6 DEF GuardInv, Guarded
      <4> QED BY <3>1, <3>3, <4>1 DEF Vouched
    <3>7. GuardInv'
      BY <3>1, <3>2, <3>5, <3>6 DEF GuardInv, Guarded
    <3> QED BY <1>2, <2>3, <3>7, StutterStep
  <2> QED BY <1>2, <2>1, <2>2, <2>3 DEF Next, Terminating
<1> QED BY <1>1, <1>2, PTL DEF Spec

(* Chains hold nothing that was not declared.                              *)
DeclaredInv == Declared(stack, Conf.script, made)

THEOREM ChainsDeclared == Spec => []DeclaredInv
<1>1. Init => DeclaredInv
  BY NewAppDeclared DEF Init, DeclaredInv
<1>2. ASSUME RequestInv, DeclaredInv, [Next]_vars PROVE DeclaredInv'
  <2>1. ConfigInv
    BY <1>2 DEF RequestInv, PlaceInv
  <2>2. CASE Setup
    <3>1. /\ made' = made + 1 /\ made \in Nat /\ made + 1 \in DOMAIN Conf.script
          /\ stack' = Register(stack, Conf.script[made + 1]) /\ UNCHANGED scenario
      BY <2>1, <2>2, PipelineAssumption, SetupConfig
    <3>2. Conf' = Conf /\ WellFormed(Conf.script)
      BY <2>1, <3>1, PipelineAssumption, ConfTyped DEF Conf, ConfigInv
    <3>3. Chains(stack) /\ Guarding(stack, Conf.script, made)
          /\ Declared(stack, Conf.script, made)
      BY <1>2, <2>1 DEF ConfigInv, DeclaredInv
    <3> HIDE DEF Conf
    <3>4. Declared(Register(stack, Conf.script[made + 1]), Conf.script, made + 1)
      BY <3>1, <3>2, <3>3, RegisterDeclares
    <3> QED BY <3>1, <3>2, <3>4 DEF DeclaredInv, Declared
  <2>3. CASE UNCHANGED config
    <3>1. UNCHANGED <<made, stack>> /\ Conf' = Conf
      BY <2>3 DEF config, Conf
    <3> HIDE DEF Conf
    <3> QED BY <1>2, <3>1 DEF DeclaredInv, Declared
  <2>4. CASE \E q \in Requests : Goroutine(q) \/ DeadlinePasses(q)
    BY <2>1, <2>3, <2>4, GoroutineConfig
  <2>5. CASE UNCHANGED vars
    BY <2>3, <2>5 DEF vars
  <2> QED BY <1>2, <2>2, <2>4, <2>5 DEF Next, Terminating
<1> QED BY <1>1, <1>2, RequestInvariant, PTL DEF Spec

(* The handler runs only for a request that satisfies every guard that was *)
(* registered for its route, in whatever order and by whatever calls       *)
(* (group.go:6-7 and 33, auth.go:119-120, profile.go:12-15).               *)
THEOREM HandlersAreGuarded == Spec => []HandlerGuarded
<1>1. ASSUME RequestInv, GuardInv, DeclaredInv PROVE HandlerGuarded
  <2> SUFFICES ASSUME NEW q \in Requests, Layer(q) = "handler"
               PROVE  LET guarded(layer) == Guards(Conf.script, input[q].target, layer)
                          cred           == Creds[input[q].cred]
                      IN  /\ guarded("auth") => Satisfies(Conf.auth, cred)
                          /\ guarded("pprofauth") => Satisfies(Conf.pprof, cred)
                          /\ guarded("basicauth") => Verify(cred["basic"]) # Refused
                          /\ guarded("authorize") =>
                               /\ guarded("auth") \/ guarded("pprofauth")
                               /\ \E id \in DocumentedIdentity(Conf.auth, cred)
                                          \cup DocumentedIdentity(Conf.pprof, cred) :
                                    HasRoles(Conf.roles, id)
                          /\ guarded("cors") => input[q].method # "OPTIONS"
    BY DEF HandlerGuarded
  <2> DEFINE n == Len(Chain(q))
             target == input[q].target
             guarded(layer) == Guards(Conf.script, target, layer)
             cred == Creds[input[q].cred]
  <2>1. ConfigInv /\ Place(q)
    BY <1>1 DEF RequestInv, PlaceInv
  <2>2. n \in Nat /\ MuxAt \in Nat
    BY <2>1, ChainParts
  <2>3. at[q] # 0
    BY DEF Layer
  <2>4. dir[q] \in {"down", "up"} /\ at[q] \in 1 .. n
    <3>1. dir[q] \in {"down", "up"}
      BY <2>1, <2>3 DEF Place, ConfigInv
    <3>2. at[q] \in 1 .. n \/ at[q] \in 0 .. n - 1
      BY <2>1, <3>1 DEF Place
    <3> HIDE DEF n
    <3>3. at[q] \in 1 .. n
      BY <2>2, <2>3, <3>2
    <3> QED BY <3>1, <3>3
  <2>5. at[q] = n /\ n > MuxAt /\ target \in DOMAIN stack.routes
    BY <2>1, <2>3, <2>4, ChainShape DEF Layer
  <2>6. dir[q] = "down"
    <3>1. dir[q] = "up" => at[q] \in 0 .. n - 1
      BY <2>1 DEF Place
    <3> HIDE DEF n
    <3>2. dir[q] # "up"
      BY <2>2, <2>5, <3>1
    <3> QED BY <2>4, <3>2
  <2>7. \A j \in 1 .. n - 1 : Passed(q, Chain(q)[j])
    BY <1>1, <2>5, <2>6 DEF GuardInv, Guarded
  <2>8. /\ Chains(stack) /\ Guarding(stack, Conf.script, Len(Conf.script))
        /\ WellFormed(Conf.script)
    BY <2>1, <2>6, ConfTyped, PipelineAssumption DEF ConfigInv
  <2>9. ASSUME NEW layer, guarded(layer) PROVE Passed(q, layer)
    <3>1. layer \in ToSet(stack.app) \cup ToSet(stack.routes[target])
      BY <2>5, <2>8, <2>9, GuardsInChain
    <3>2. \E j \in 1 .. n - 1 : Chain(q)[j] = layer
      BY <2>1, <2>5, <3>1, ChainHas
    <3> QED BY <2>7, <3>2
  <2>10. /\ Conf.auth \in Configured(Status \cup {Nil}) /\ Conf.pprof \in Configured({401})
         /\ Conf.roles \in [all : BOOLEAN, roles : SUBSET STRING]
         /\ cred \in Presented /\ cred = Cred(q)
    BY <2>1, ConfTyped, PipelineAssumption
       DEF ConfigInv, Input, PipelineAssumption, Cred
  <2>11. /\ Authenticate(Conf.auth, cred) # Refused => Satisfies(Conf.auth, cred)
         /\ Authenticate(Conf.pprof, cred) # Refused => Satisfies(Conf.pprof, cred)
    <3> HIDE DEF cred
    <3> QED BY <2>10, AuthenticateSound, AccessAssumption
  <2>12. ASSUME guarded("authorize")
         PROVE  /\ guarded("auth") \/ guarded("pprofauth")
                /\ \E id \in DocumentedIdentity(Conf.auth, cred)
                           \cup DocumentedIdentity(Conf.pprof, cred) :
                     HasRoles(Conf.roles, id)
    <3>1. PICK id \in Identity : Vouches(q, id) /\ RoleCheck(Conf.roles, id) = Nil
      BY <2>9, <2>12 DEF Passed
    <3>2. HasRoles(Conf.roles, id) /\ id # NilIdentity
      <4>1. RoleCheck(Conf.roles, id) = IF id = NilIdentity THEN 401
              ELSE IF HasRoles(Conf.roles, id) THEN Nil ELSE 403
        BY <2>10, <3>1, RoleCheckSound
      <4> QED BY <3>1, <4>1 DEF Nil
    <3>3. PICK j \in 1 .. at[q] - 1 :
            \/ Chain(q)[j] = "auth" /\ id = Authenticate(Conf.auth, cred)
            \/ Chain(q)[j] = "pprofauth" /\ id = Authenticate(Conf.pprof, cred)
      BY <2>10, <3>1 DEF Vouches
    <3>4. guarded(Chain(q)[j])
      <4>1. j \in 1 .. n /\ j < n
        <5> HIDE DEF n
        <5> QED BY <2>2, <2>5
      <4>2. j # MuxAt
        BY <2>1, <3>3, <4>1, ChainShape
      <4>3. Chain(q)[j] \in ToSet(stack.app) \cup ToSet(stack.routes[target])
        BY <2>1, <2>5, <4>1, <4>2, ChainShape
      <4>4. Chain(q)[j] \notin {"recover", "log"}
        BY <3>3
      <4> QED BY <1>1, <2>5, <4>3, <4>4, ChainWasDeclared DEF DeclaredInv
    <3>5. id \in DocumentedIdentity(Conf.auth, cred) \cup DocumentedIdentity(Conf.pprof, cred)
      <4>1. id # Refused
        <5>1. id.kind = "identity"
          BY <3>2 DEF Identity
        <5>2. Refused.kind = "refused"
          BY DEF Refused
        <5> QED BY <5>1, <5>2
      <4> HIDE DEF cred
      <4>2. CASE id = Authenticate(Conf.auth, cred)
        BY <2>10, <3>2, <4>1, <4>2, ReturnsDocumented, AccessAssumption
      <4>3. CASE id = Authenticate(Conf.pprof, cred)
        BY <2>10, <3>2, <4>1, <4>3, ReturnsDocumented, AccessAssumption
      <4> QED BY <3>3, <4>2, <4>3
    <3> QED BY <3>2, <3>3, <3>4, <3>5
  <2> HIDE DEF guarded, cred
  <2>13. /\ guarded("auth") => Satisfies(Conf.auth, cred)
         /\ guarded("pprofauth") => Satisfies(Conf.pprof, cred)
         /\ guarded("basicauth") => Verify(cred["basic"]) # Refused
         /\ guarded("cors") => input[q].method # "OPTIONS"
    BY <2>9, <2>10, <2>11 DEF Passed
  <2> QED BY <2>12, <2>13 DEF guarded, cred
<1> QED BY <1>1, GuardInvariant, ChainsDeclared, PTL
-----------------------------------------------------------------------------
(* Answers.                                                                *)

(* The chain begins with recover and requestLog, and has no other.         *)
LoggedOnce(a) ==
  /\ Len(a.app) >= 2 /\ a.app[2] = "log"
  /\ \A i \in 3 .. Len(a.app) : a.app[i] \in Middleware

(* The goroutine is below requestLog.                                      *)
Logging(q) == \/ dir[q] = "down" /\ at[q] > 2
              \/ dir[q] = "up" /\ at[q] >= 2

Unanswered(q) == /\ wire[q].status = 0 /\ wire[q].body = << >>
                 /\ ~gz[q].wrote /\ gz[q].held = << >>

(* Nothing is answered on the way down, nor before an error that is still  *)
(* to be answered, unless the request is answered twice.                   *)
Unheard(q) ==
  /\ dir[q] \in {"new", "down"} => Unanswered(q)
  /\ dir[q] = "up" /\ res[q] # Nil /\ ~AnswersTwice(q) => wire[q].status = 0
  /\ dir[q] = "up" /\ res[q] = Panic => input[q].ends = "panic"

(* Below requestLog all writes go through its statusWriter, which has the  *)
(* status that the client gets; above it the line is written, ...          *)
Logged(q) ==
  /\ Logging(q) =>
       /\ \A c \in Using(q) : ctx[c].w.sw = base[q]
       /\ dir[q] = "down" => ctx[base[q]].status = 0
       /\ ~gz[q].wrote /\ ~AnswersTwice(q) => ctx[base[q]].status = wire[q].status
  /\ IF dir[q] \in {"new", "down"} \/ Logging(q) THEN log[q] = << >>
     ELSE \/ input[q].ends = "panic" /\ log[q] = << >>
          \/ /\ Len(log[q]) = 1
             /\ log[q][1] # 0 /\ ~gz[q].wrote /\ ~AnswersTwice(q) =>
                  log[q][1] = wire[q].status

(* ... what was written, to the client or the gzip.Writer, is one piece,   *)
(* ...                                                                     *)
AnsweredOnce(q) ==
  ~AnswersTwice(q) =>
    /\ Len(wire[q].body) <= 1 /\ Len(gz[q].held) <= 1
    /\ wire[q].body = << >> \/ gz[q].held = << >>
    /\ \A k \in DOMAIN wire[q].body : wire[q].body[k].code = wire[q].status
    /\ \A k \in DOMAIN gz[q].held : gz[q].held[k].code = wire[q].status
    /\ wire[q].status = 0 => wire[q].body = << >> /\ gz[q].held = << >>

(* ... and a gzip.Writer holds something only while a layer of GZip is     *)
(* still to return.                                                        *)
Pending(q) == \E k \in 1 .. at[q] : Chain(q)[k] = "gzip"

WrappedBy(q, c, k) ==
  /\ Chain(q)[k] = "gzip"
  /\ dir[q] = "down" => k < at[q]
  /\ inner[q] \notin {None, c} => k < MuxAt

Unzipped(q) ==
  /\ \A c \in Using(q) : ctx[c].w.gz =>
       /\ input[q].gzip
       /\ dir[q] \in {"down", "up"} => \E k \in DOMAIN Chain(q) : WrappedBy(q, c, k)
  /\ ~crossed[q] =>
       /\ dir[q] = "up" /\ res[q] # Nil =>
            \A c \in Using(q) : ctx[c].w.gz => Pending(q)
       /\ gz[q].held # << >> => dir[q] = "up" /\ Pending(q)

Answered(q) == Unheard(q) /\ Logged(q) /\ AnsweredOnce(q) /\ Unzipped(q)

AnswerInv == LoggedOnce(stack) /\ \A q \in Requests : Answered(q)

(* Where the layers are that every chain begins with.                      *)
LEMMA FirstLayers ==
  ASSUME ConfigInv, LoggedOnce(stack), NEW q \in Requests
  PROVE  /\ MuxAt > 2
         /\ \A k \in 1 .. Len(Chain(q)) : /\ Chain(q)[k] = "recover" <=> k = 1
                                          /\ Chain(q)[k] = "log" <=> k = 2
<1>1. /\ MuxAt \in Nat /\ Len(Chain(q)) \in Nat /\ Len(stack.app) \in Nat
      /\ MuxAt = Len(stack.app) + 1 /\ Chain(q)[1] = "recover"
      /\ \A k \in 1 .. MuxAt - 1 : Chain(q)[k] = stack.app[k]
      /\ Chain(q)[MuxAt] = "mux"
      /\ input[q].target \notin DOMAIN stack.routes => Len(Chain(q)) = MuxAt
      /\ stack.app \in Seq(Middleware \cup {"recover", "log"})
  BY ChainParts, LenProperties DEF MuxAt, ConfigInv, Chains
<1>2. MuxAt > 2 /\ Chain(q)[2] = "log"
  BY <1>1 DEF LoggedOnce
<1>3. ASSUME NEW k \in 1 .. Len(Chain(q)), k > 2
      PROVE  Chain(q)[k] \notin {"recover", "log"}
  <2>1. CASE k < MuxAt
    <3>1. k \in 3 .. Len(stack.app) /\ Chain(q)[k] = stack.app[k]
      BY <1>1, <1>3, <2>1
    <3>2. stack.app[k] \in Middleware
      BY <3>1 DEF LoggedOnce
    <3> QED BY <3>1, <3>2 DEF Middleware
  <2>2. CASE k = MuxAt
    BY <1>1, <2>2
  <2>3. CASE k > MuxAt
    <3> DEFINE r == stack.routes[input[q].target]
               p == Len(r)
               n == Len(Chain(q))
    <3>1. input[q].target \in DOMAIN stack.routes
      BY <1>1, <1>3, <2>3
    <3>2. /\ p \in Nat /\ r \in Seq(RouteLayers) /\ n = MuxAt + p + 1
          /\ \A i \in 1 .. p : Chain(q)[MuxAt + i] = r[i]
      BY <3>1, ChainParts
    <3>3. CASE k = n
      BY <2>3, <3>3, ChainShape
    <3>4. CASE k # n
      <4>0. /\ k \in 1 .. n /\ n \in Nat /\ MuxAt \in Nat /\ p \in Nat
            /\ n = MuxAt + p + 1 /\ k > MuxAt /\ k # n
        BY <1>1, <2>3, <3>2, <3>4
      <4> HIDE DEF p, r, n
      <4>1. k - MuxAt \in 1 .. p /\ k = MuxAt + (k - MuxAt)
        BY <4>0
      <4>2. Chain(q)[k] = r[k - MuxAt]
        BY <3>2, <4>1
      <4>3. r[k - MuxAt] \in RouteLayers
        BY <3>2, <4>1, ElementOfSeq DEF p
      <4> QED BY <4>2, <4>3 DEF RouteLayers, Middleware
    <3> QED BY <3>3, <3>4
  <2> QED BY <1>1, <2>1, <2>2, <2>3
<1>4. ASSUME NEW k \in 1 .. Len(Chain(q))
      PROVE  /\ Chain(q)[k] = "recover" <=> k = 1
             /\ Chain(q)[k] = "log" <=> k = 2
  <2>1. k = 1 \/ k = 2 \/ k > 2
    BY <1>1
  <2> QED BY <1>1, <1>2, <1>3, <2>1
<1> QED BY <1>2, <1>4

LEMMA NewAppLogs == LoggedOnce(NewApp)
BY DEF LoggedOnce, NewApp

LEMMA RegisterLogs ==
  ASSUME NEW a, Chains(a), LoggedOnce(a), NEW script, WellFormed(script),
         NEW k \in DOMAIN script
  PROVE  LoggedOnce(Register(a, script[k]))
<1> DEFINE call == script[k]
<1>1. /\ call.op \in {"pprof", "use", "group", "groupuse", "handle"}
      /\ call.op = "use" => call.mws \in Seq(Middleware)
  BY CallKinds
<1>2. CASE call.op = "use"
  <2> DEFINE m == Len(a.app)
             n == Len(call.mws)
             b == a.app \o call.mws
  <2>1. /\ m \in Nat /\ n \in Nat /\ Len(b) = m + n
        /\ \A i \in 1 .. m : b[i] = a.app[i]
        /\ \A i \in 1 .. n : b[m + i] = call.mws[i] /\ call.mws[i] \in Middleware
    <3> DEFINE App == Middleware \cup {"recover", "log"}
    <3>1. a.app \in Seq(App) /\ call.mws \in Seq(Middleware) /\ Middleware \subseteq App
      BY <1>1, <1>2 DEF Chains
    <3> HIDE DEF App, call
    <3>2. m \in Nat /\ n \in Nat /\ call.mws \in Seq(App)
      BY <3>1, SeqMonotonic, LenProperties
    <3>3. \A i \in 1 .. n : call.mws[i] \in Middleware
      BY <3>1, ElementOfSeq
    <3>4. Len(b) = m + n /\ \A i \in 1 .. m + n :
            b[i] = IF i <= m THEN a.app[i] ELSE call.mws[i - m]
      BY <3>1, <3>2, ConcatProperties
    <3>5. ASSUME NEW i \in 1 .. n PROVE b[m + i] = call.mws[i]
      <4> HIDE DEF m, n, b
      <4>1. m + i \in 1 .. m + n /\ ~(m + i <= m) /\ (m + i) - m = i
        BY <3>2
      <4> QED BY <3>4, <4>1
    <3>6. ASSUME NEW i \in 1 .. m PROVE b[i] = a.app[i]
      <4> HIDE DEF m, n, b
      <4>1. i \in 1 .. m + n /\ i <= m
        BY <3>2
      <4> QED BY <3>4, <4>1
    <3> QED BY <3>2, <3>3, <3>4, <3>5, <3>6
  <2>2. Register(a, call).app = b
    BY <1>2 DEF Register, Use, Chains
  <2>3. ASSUME NEW i \in 3 .. Len(b) PROVE b[i] \in Middleware
    <3> HIDE DEF b, n, call
    <3>1. CASE i <= m
      BY <2>1, <2>3, <3>1 DEF LoggedOnce, m
    <3>2. CASE i > m
      <4>1. i - m \in 1 .. n /\ i = m + (i - m)
        BY <2>1, <2>3, <3>2
      <4> QED BY <2>1, <4>1
    <3> QED BY <2>1, <2>3, <3>1, <3>2
  <2>4. Len(b) >= 2 /\ b[2] = "log"
    <3> HIDE DEF b, n, call
    <3> QED BY <2>1 DEF LoggedOnce, m
  <2> HIDE DEF b
  <2> QED BY <2>2, <2>3, <2>4 DEF LoggedOnce
<1>3. CASE call.op # "use"
  <2>1. Register(a, call).app = a.app
    BY <1>1, <1>3 DEF Register, MountPprof, MakeGroup, GroupUse, HandleRoute, Chains
  <2> QED BY <2>1 DEF LoggedOnce
<1> QED BY <1>2, <1>3

-----------------------------------------------------------------------------
(* What a step is to the answer.                                           *)

Quiet(q) ==
  /\ wire'[q] = wire[q] /\ gz'[q] = gz[q] /\ log'[q] = log[q]
  /\ crossed'[q] = crossed[q] /\ late'[q] = late[q]

SameUse(q) ==
  /\ base'[q] = base[q] /\ inner'[q] \in {inner[q], None}
  /\ \A c \in Using(q)' : ctx'[c].w = ctx[c].w /\ ctx'[c].status = ctx[c].status

(* The response that is written through c, with status code.               *)
Writes(q, c, code, body) ==
  /\ c \in Using(q) /\ code \in Status /\ body \in {<< >>, Piece(q, code)}
  /\ base'[q] = base[q] /\ inner'[q] = inner[q]
  /\ log'[q] = log[q] /\ crossed'[q] = crossed[q] /\ late'[q] = late[q]
  /\ \A d \in Using(q) : ctx'[d].w = ctx[d].w
  /\ ctx[c].w.sw # None /\ ~gz'[q].wrote => ctx'[ctx[c].w.sw].status = code
  /\ wire'[q].status = IF wire[q].status = 0 THEN code ELSE wire[q].status
  /\ gz[q].wrote => gz'[q].wrote
  /\ \/ wire'[q].body = wire[q].body \o body /\ gz'[q].held = gz[q].held
     \/ /\ ctx[c].w.gz /\ wire'[q].body = wire[q].body
        /\ gz'[q].held = gz[q].held \o body

Descends(q) ==
  /\ dir[q] = "down" /\ dir'[q] = "down" /\ at'[q] = at[q] + 1
  /\ Quiet(q) /\ base'[q] = base[q]

Ascends(q) ==
  /\ dir[q] = "up" /\ dir'[q] = "up" /\ at'[q] = at[q] - 1
  /\ SameUse(q)

Turns(q) ==
  /\ dir[q] = "down" /\ dir'[q] = "up" /\ at'[q] = at[q] - 1
  /\ Layer(q) \notin {"serve", "recover", "log"}
  /\ res'[q] = Panic => input[q].ends = "panic"

(* On the way down ...                                                     *)
Opens(q) ==
  /\ dir[q] = "new" /\ dir'[q] = "down" /\ at'[q] = 1 /\ Quiet(q)
  /\ \A c \in Using(q)' : ~ctx'[c].w.gz

Passes(q) ==
  /\ Descends(q) /\ SameUse(q) /\ inner'[q] = inner[q]
  /\ Layer(q) \notin {"serve", "log", "mux"}

StartsLog(q) ==
  /\ Descends(q) /\ inner'[q] = inner[q] /\ Layer(q) = "log"
  /\ \A c \in Using(q) : ctx'[c].w.gz = ctx[c].w.gz
  /\ ctx'[Ctx(q)].w.sw = Ctx(q) /\ ctx'[Ctx(q)].status = 0

StartsZip(q) ==
  /\ Descends(q) /\ inner'[q] = inner[q] /\ Layer(q) = "gzip"
  /\ \A c \in Using(q) :
       /\ ctx'[c].w.sw = ctx[c].w.sw /\ ctx'[c].status = ctx[c].status
       /\ ctx'[c].w.gz => ctx[c].w.gz \/ (c = Ctx(q) /\ input[q].gzip)

Hands(q) ==
  /\ Descends(q) /\ Layer(q) = "mux"
  /\ \A c \in Using(q)' : ctx'[c].w = ctx[base[q]].w
  /\ ctx'[base[q]].status = ctx[base[q]].status

(* ... or turning back, ...                                                *)
Refuses(q) == Turns(q) /\ Quiet(q) /\ SameUse(q)

Answers(q) ==
  /\ Turns(q)
  /\ \E c \in Using(q), code \in Status : \E body \in {<< >>, Piece(q, code)} :
       Writes(q, c, code, body)
  /\ res'[q] # Nil => AnswersTwice(q)

(* ... on the way up ...                                                   *)
Climbs(q) ==
  /\ Ascends(q) /\ Quiet(q) /\ res'[q] = res[q]
  /\ Layer(q) \notin {"serve", "recover", "log", "gzip"}

Unzips(q) ==
  /\ Ascends(q) /\ res'[q] = res[q] /\ Layer(q) = "gzip"
  /\ log'[q] = log[q] /\ late'[q] = late[q]
  /\ crossed'[q] <=> crossed[q] \/ (input[q].gzip /\ res[q] # Nil)
  /\ wire'[q].status = wire[q].status /\ wire'[q].body = wire[q].body \o gz[q].held
  /\ gz'[q].wrote = gz[q].wrote /\ gz'[q].held = << >>

TimesOut(q) ==
  LET fails == expired[q] /\ res[q] # Panic
  IN  /\ Ascends(q) /\ inner'[q] = inner[q] /\ Layer(q) = "timeout"
      /\ res'[q] = IF fails THEN 504 ELSE res[q]
      /\ wire'[q] = wire[q] /\ gz'[q] = gz[q] /\ log'[q] = log[q]
      /\ late'[q] <=> late[q] \/ (fails /\ wire[q].status # 0)
      /\ crossed'[q] <=> \/ crossed[q]
                         \/ /\ fails /\ ctx[Ctx(q)].w.gz
                            /\ \E k \in at[q] .. Len(Chain(q)) : Chain(q)[k] = "gzip"

Fixes(q) ==
  /\ dir[q] = "up" /\ dir'[q] = "up" /\ at'[q] = at[q] /\ Layer(q) = "mux"
  /\ res[q] # Nil /\ res'[q] = Nil
  /\ Writes(q, inner[q], res[q], Piece(q, res[q]))

Logs(q) ==
  /\ Ascends(q) /\ res'[q] = res[q] /\ Layer(q) = "log"
  /\ wire'[q] = wire[q] /\ gz'[q] = gz[q]
  /\ crossed'[q] = crossed[q] /\ late'[q] = late[q]
  /\ log'[q] = IF res[q] = Panic THEN log[q]
               ELSE Append(log[q], ctx[base[q]].status)

Recovers(q) ==
  /\ Ascends(q) /\ Quiet(q) /\ Layer(q) = "recover"
  /\ res'[q] = IF res[q] = Panic THEN 500 ELSE res[q]

(* ... and outside the chain.                                              *)
Closes(q) ==
  /\ dir[q] = "up" /\ Layer(q) = "serve" /\ dir'[q] = "forget" /\ at'[q] = at[q]
  /\ res[q] # Nil /\ Writes(q, base[q], res[q], Piece(q, res[q]))

Leaves(q) ==
  /\ \/ dir[q] = "up" /\ Layer(q) = "serve" /\ dir'[q] = "forget"
     \/ dir[q] = "forget" /\ dir'[q] = "release"
  /\ at'[q] = at[q] /\ res'[q] = res[q] /\ Quiet(q) /\ SameUse(q)
  /\ dir[q] = "up" => res[q] = Nil

Ends(q) ==
  /\ dir[q] = "release" /\ dir'[q] = "done" /\ at'[q] = at[q] /\ Using(q)' = {}
  /\ log'[q] = log[q] /\ crossed'[q] = crossed[q] /\ late'[q] = late[q]
  /\ gz'[q] = gz[q] /\ wire'[q].body = wire[q].body
  /\ wire'[q].status = IF wire[q].status = 0 THEN 200 ELSE wire[q].status

Rests(q) ==
  /\ dir[q] \in {"down", "up"} /\ dir'[q] = dir[q] /\ at'[q] = at[q]
  /\ res'[q] = res[q] /\ Quiet(q) /\ SameUse(q) /\ inner'[q] = inner[q]

Goes(q) ==
  \/ Opens(q) \/ Passes(q) \/ StartsLog(q) \/ StartsZip(q) \/ Hands(q)
  \/ Refuses(q) \/ Answers(q)
  \/ Climbs(q) \/ Unzips(q) \/ TimesOut(q) \/ Fixes(q) \/ Logs(q) \/ Recovers(q)
  \/ Closes(q) \/ Leaves(q) \/ Ends(q) \/ Rests(q)

LEMMA Writing ==
  ASSUME PipelineAssumption, RequestInv, NEW q \in Requests,
         UNCHANGED <<base, inner, log, crossed, late>>,
         NEW c \in Using(q), NEW skip \in BOOLEAN, NEW code \in Status,
         NEW body \in {<< >>, Piece(q, code)}, RespondAs(skip, c, code, body)
  PROVE  Writes(q, c, code, body)
<1> DEFINE w == ctx[c].w
           bypass == gz[q].bypass \/ skip
           zipped == w.gz /\ ~bypass
<1>1. /\ c \in Contexts /\ w.conn = q /\ w.gz \in BOOLEAN
      /\ w.sw \in Contexts \cup {None} /\ None \notin Contexts
      /\ \A d \in Using(q) : d \in Contexts /\ ctx[d] \in Context
      /\ ctx \in [Contexts -> Context]
  <2>1. OwnContexts(q) /\ ctx \in [Contexts -> Context] /\ None \notin Contexts
        /\ \A d \in Using(q) : d \in Contexts
    BY DEF RequestInv, CtxInv, PlaceInv, Using, PipelineAssumption
  <2>2. OwnedBy(ctx[c], q, {base[q], inner[q]}) /\ c \in Contexts
    BY <2>1 DEF OwnContexts, OwnedBy, Using
  <2>3. ctx[c] \in Context
    BY <2>1
  <2>4. w.conn = q /\ w.gz \in BOOLEAN /\ w.sw \in Contexts \cup {None}
    BY <2>2, <2>3 DEF OwnedBy, Context
  <2> QED BY <2>1, <2>4
<1>2. /\ wire \in [Requests -> [status : Status \cup {0}, body : Pieces]]
      /\ gz \in [Requests -> [wrote : BOOLEAN, bypass : BOOLEAN, held : Pieces]]
  BY DEF RequestInv, NetInv
<1>3. /\ wire' = [wire EXCEPT ![w.conn] =
                    [status |-> IF wire[w.conn].status = 0 THEN code
                                ELSE wire[w.conn].status,
                     body |-> IF w.gz /\ ~(gz[w.conn].bypass \/ skip)
                              THEN wire[w.conn].body ELSE wire[w.conn].body \o body]]
      /\ gz' = IF ~w.gz THEN gz
               ELSE [gz EXCEPT ![w.conn] =
                       [wrote |-> gz[w.conn].wrote \/ body # << >>,
                        bypass |-> gz[w.conn].bypass \/ skip,
                        held |-> IF w.gz /\ ~(gz[w.conn].bypass \/ skip)
                                 THEN gz[w.conn].held \o body ELSE gz[w.conn].held]]
      /\ ctx' = IF w.sw = None THEN ctx
                ELSE [ctx EXCEPT ![w.sw].status = StatusSeen(w, code, body)]
  BY <1>1, <1>2 DEF RespondAs
<1>4. \A d \in Using(q) : ctx'[d].w = ctx[d].w
  BY <1>1, <1>3 DEF Context
<1>5. /\ wire'[q].status = IF wire[q].status = 0 THEN code ELSE wire[q].status
      /\ wire'[q].body = IF zipped THEN wire[q].body ELSE wire[q].body \o body
  BY <1>1, <1>2, <1>3
<1>6. /\ ~w.gz => gz' = gz
      /\ w.gz => /\ gz'[q].wrote = (gz[q].wrote \/ body # << >>)
                 /\ gz'[q].held = IF zipped THEN gz[q].held \o body ELSE gz[q].held
  BY <1>1, <1>2, <1>3
<1>7. ASSUME w.sw # None, ~gz'[q].wrote PROVE ctx'[w.sw].status = code
  <2>1. StatusSeen(w, code, body) = code
    BY <1>1, <1>6, <1>7 DEF StatusSeen
  <2> QED BY <1>1, <1>3, <1>7, <2>1 DEF Context
<1>8. \/ wire'[q].body = wire[q].body \o body /\ gz'[q].held = gz[q].held
      \/ w.gz /\ wire'[q].body = wire[q].body /\ gz'[q].held = gz[q].held \o body
  BY <1>5, <1>6
<1>9. gz[q].wrote => gz'[q].wrote
  BY <1>6
<1> QED BY <1>4, <1>5, <1>7, <1>8, <1>9 DEF Writes

(* While Handle is on its way back, the Context it runs with is in use.    *)
LEMMA HandleHasContext ==
  ASSUME PipelineAssumption, PlaceInv, NEW q \in Requests,
         dir[q] = "up", Layer(q) = "mux"
  PROVE  inner[q] \in Using(q)
<1> DEFINE n == Len(Chain(q))
<1>1. Place(q) /\ None \notin Contexts
  BY DEF PlaceInv, PipelineAssumption
<1>2. n \in Nat /\ MuxAt \in Nat /\ at[q] \in 0 .. n - 1
  BY <1>1, ChainParts DEF PlaceInv, Place
<1>3. at[q] # 0
  BY DEF Layer
<1>4. at[q] \in 1 .. n
  <2> HIDE DEF n
  <2> QED BY <1>2, <1>3
<1>5. at[q] = MuxAt
  BY <1>3, <1>4, ChainShape DEF PlaceInv, Layer
<1> QED BY <1>1, <1>2, <1>5 DEF Place, Inside, Using

LEMMA Journey ==
  ASSUME PipelineAssumption, RequestInv, NEW q \in Requests,
         Goroutine(q) \/ DeadlinePasses(q)
  PROVE  Goes(q)
<1> DEFINE c == Ctx(q)
<1>1. /\ PlaceInv /\ CtxInv /\ Place(q) /\ q # None
      /\ dir \in [Requests -> {"new", "down", "up", "forget", "release", "done"}]
      /\ at \in [Requests -> Nat] /\ res \in [Requests -> Status \cup {Nil, Panic}]
      /\ base \in [Requests -> Contexts \cup {None}]
      /\ inner \in [Requests -> Contexts \cup {None}]
      /\ reqCtxMap \in [Requests -> Contexts \cup {None}]
      /\ ctx \in [Contexts -> Context] /\ pool \subseteq Contexts /\ None \notin Contexts
      /\ Using(q) \subseteq Contexts
      /\ wire \in [Requests -> [status : Status \cup {0}, body : Pieces]]
      /\ gz \in [Requests -> [wrote : BOOLEAN, bypass : BOOLEAN, held : Pieces]]
      /\ log \in [Requests -> Seq(Status \cup {0})]
      /\ crossed \in [Requests -> BOOLEAN] /\ late \in [Requests -> BOOLEAN]
      /\ input[q] \in Input
  <2>1. input[q] \in Input
    BY ConfTyped DEF RequestInv, PlaceInv, ConfigInv
  <2>2. PlaceInv /\ CtxInv /\ NetInv /\ TailInv /\ ConfigInv
    BY DEF RequestInv, PlaceInv
  <2>3. q # None /\ None \notin Contexts
    BY DEF PipelineAssumption
  <2>4. Using(q) \subseteq Contexts
    BY <2>2 DEF PlaceInv, Using
  <2> QED BY <2>1, <2>2, <2>3, <2>4 DEF PlaceInv, ConfigInv, CtxInv, NetInv, TailInv
<1>2. ASSUME dir[q] = "down", Layer(q) \notin {"serve", "mux"}
      PROVE  c \in Using(q) /\ c \in Contexts /\ ctx[c] \in Context
  BY <1>1, <1>2, LayerContext
<1>3. ASSUME Call(q) PROVE at'[q] = at[q] + 1 /\ dir'[q] = dir[q] /\ res'[q] = res[q]
  BY <1>1, <1>3 DEF Call
<1>4. ASSUME NEW r, Return(q, r)
      PROVE  at'[q] = at[q] - 1 /\ dir'[q] = "up" /\ res'[q] = r
  BY <1>1, <1>4 DEF Return
<1>5. ASSUME UNCHANGED <<netVars, log, histVars>> PROVE Quiet(q)
  BY <1>5 DEF netVars, histVars, Quiet
<1>6. ASSUME UNCHANGED ctxVars
      PROVE  /\ base' = base /\ inner' = inner /\ pool' = pool /\ Using(q)' = Using(q)
  BY <1>6 DEF ctxVars, Using
<1>7. ASSUME UNCHANGED <<ctxVars, ctx>>
      PROVE  SameUse(q) /\ inner'[q] = inner[q]
  BY <1>6, <1>7 DEF SameUse
<1>8. ASSUME UNCHANGED ctxVars, c \in Contexts, NEW y, y.w = ctx[c].w,
             y.status = ctx[c].status, ctx' = [ctx EXCEPT ![c] = y]
      PROVE  SameUse(q) /\ inner'[q] = inner[q]
  <2>1. \A d \in Using(q) : ctx'[d].w = ctx[d].w /\ ctx'[d].status = ctx[d].status
    BY <1>1, <1>8
  <2> QED BY <1>6, <1>8, <2>1 DEF SameUse
<1>9. ASSUME Layer(q) = "serve" PROVE at[q] = 0
  <2>1. at[q] # 0 => Chain(q)[at[q]] \in Layers
    <3>1. Chain(q) \in Seq(Layers) /\ Len(Chain(q)) \in Nat
      BY <1>1, ChainParts DEF PlaceInv
    <3> DEFINE n == Len(Chain(q))
    <3>2. at[q] = 0 \/ at[q] \in 1 .. n \/ at[q] \in 0 .. n - 1
      BY <1>1 DEF Place
    <3>3. n \in Nat
      BY <3>1
    <3> HIDE DEF n
    <3>4. at[q] # 0 => at[q] \in 1 .. n
      BY <3>2, <3>3
    <3> QED BY <3>1, <3>4, ElementOfSeq DEF n
  <2> QED BY <1>9, <2>1 DEF Layer, Layers
<1>10. ASSUME UNCHANGED <<ctxVars, log, histVars>>, NEW d \in Using(q),
              NEW skip \in BOOLEAN, NEW code \in Status,
              NEW body \in {<< >>, Piece(q, code)}, RespondAs(skip, d, code, body)
       PROVE  Writes(q, d, code, body)
  <2>1. UNCHANGED <<base, inner, log, crossed, late>>
    BY <1>6, <1>10 DEF histVars
  <2> QED BY <1>10, <2>1, Writing
<1> HIDE DEF c
<1>11. CASE ServeHTTP(q)
  <2>1. PICK d \in pool : /\ ctx' = [ctx EXCEPT ![d] = Fresh(q)]
                          /\ base' = [base EXCEPT ![q] = d]
    BY <1>11 DEF ServeHTTP
  <2>2. /\ inner' = inner /\ dir[q] = "new" /\ at'[q] = 1 /\ dir'[q] = "down"
        /\ UNCHANGED <<netVars, log, histVars>>
    BY <1>1, <1>11 DEF ServeHTTP
  <2>3. inner[q] = None
    BY <1>1, <2>2 DEF Place, Inside
  <2>4. ~ctx'[d].w.gz
    BY <1>1, <2>1 DEF Fresh, Direct
  <2>5. Using(q)' \subseteq {d}
    BY <1>1, <2>1, <2>2, <2>3 DEF Using
  <2>6. Opens(q)
    BY <1>5, <2>2, <2>4, <2>5 DEF Opens
  <2> QED BY <2>6 DEF Goes
<1>12. ASSUME dir[q] = "down", Layer(q) \notin {"serve", "log", "mux"}, Call(q),
              SameUse(q), inner'[q] = inner[q], UNCHANGED <<netVars, log, histVars>>
       PROVE  Goes(q)
  BY <1>3, <1>5, <1>12 DEF Descends, SameUse, Passes, Goes
<1>13. ASSUME dir[q] = "down", Layer(q) \notin {"serve", "recover", "log"},
              NEW r, Return(q, r), r = Panic => input[q].ends = "panic",
              UNCHANGED <<ctxVars, ctx, netVars, log, histVars>>
       PROVE  Goes(q)
  <2>1. Quiet(q) /\ SameUse(q)
    BY <1>5, <1>7, <1>13
  <2>2. Turns(q)
    BY <1>4, <1>13 DEF Turns
  <2> QED BY <2>1, <2>2 DEF Refuses, Goes
<1>14. CASE Recover(q)
  BY <1>7, <1>12, <1>14 DEF Recover, Down
<1>15. CASE RequestLog(q)
  <2>1. /\ dir[q] = "down" /\ Layer(q) = "log" /\ Call(q) /\ UNCHANGED ctxVars
        /\ ctx' = [ctx EXCEPT ![c].w.sw = c, ![c].status = 0]
        /\ UNCHANGED <<netVars, log, histVars>>
    BY <1>15 DEF RequestLog, Down, c
  <2>2. c \in Contexts /\ ctx[c] \in Context
    BY <1>2, <2>1
  <2>3. /\ \A d \in Using(q) : ctx'[d].w.gz = ctx[d].w.gz
        /\ ctx'[c].w.sw = c /\ ctx'[c].status = 0
    BY <1>1, <2>1, <2>2 DEF Context
  <2>4. StartsLog(q)
    BY <1>3, <1>5, <1>6, <2>1, <2>3 DEF StartsLog, Descends, c
  <2> QED BY <2>4 DEF Goes
<1>16. CASE RequestID(q) \/ Timeout(q)
  <2>1. /\ dir[q] = "down" /\ Layer(q) \in {"requestid", "timeout"} /\ Call(q)
        /\ UNCHANGED ctxVars
        /\ \/ ctx' = [ctx EXCEPT ![c].reqID = q]
           \/ ctx' = [ctx EXCEPT ![c].r.derived = TRUE]
        /\ UNCHANGED <<netVars, log, histVars>>
    BY <1>16 DEF RequestID, Timeout, Down, c
  <2>2. c \in Contexts /\ ctx[c] \in Context
    BY <1>2, <2>1
  <2>3. \E y : /\ y.w = ctx[c].w /\ y.status = ctx[c].status
               /\ ctx' = [ctx EXCEPT ![c] = y]
    <3>1. ASSUME NEW y \in {[ctx[c] EXCEPT !.reqID = q], [ctx[c] EXCEPT !.r.derived = TRUE]}
          PROVE  y.w = ctx[c].w /\ y.status = ctx[c].status
      BY <2>2 DEF Context
    <3>2. \/ ctx' = [ctx EXCEPT ![c] = [ctx[c] EXCEPT !.reqID = q]]
          \/ ctx' = [ctx EXCEPT ![c] = [ctx[c] EXCEPT !.r.derived = TRUE]]
      BY <1>1, <2>1, <2>2
    <3> QED BY <3>1, <3>2
  <2>4. SameUse(q) /\ inner'[q] = inner[q]
    BY <1>8, <2>1, <2>2, <2>3
  <2> QED BY <1>12, <2>1, <2>4
<1>17. CASE CORS(q)
  <2>1. CASE input[q].method = "OPTIONS"
    <3>1. /\ dir[q] = "down" /\ Layer(q) = "cors" /\ Return(q, Nil)
          /\ RespondAs(FALSE, c, 204, << >>) /\ UNCHANGED <<ctxVars, log, histVars>>
      BY <1>17, <2>1 DEF CORS, Down, Respond, c
    <3>2. c \in Using(q) /\ 204 \in Status
      BY <1>2, <3>1 DEF Status
    <3>3. Writes(q, c, 204, << >>)
      BY <1>10, <3>1, <3>2
    <3>4. Turns(q) /\ res'[q] = Nil
      BY <1>4, <3>1 DEF Turns, Nil, Panic
    <3> QED BY <3>2, <3>3, <3>4 DEF Answers, Goes
  <2>2. CASE input[q].method # "OPTIONS"
    <3>1. /\ dir[q] = "down" /\ Layer(q) = "cors" /\ Call(q)
          /\ UNCHANGED <<ctxVars, ctx, netVars, log, histVars>>
      BY <1>17, <2>2 DEF CORS, Down
    <3> QED BY <1>7, <1>12, <3>1
  <2> QED BY <2>1, <2>2
<1>18. ASSUME NEW layer \in {"auth", "pprofauth"}, NEW a \in {Conf.auth, Conf.pprof},
              Auth(q, layer, a)
       PROVE  Goes(q)
  <2>1. /\ dir[q] = "down" /\ Layer(q) = layer
        /\ UNCHANGED <<ctxVars, netVars, log, histVars>>
        /\ \/ Return(q, a.fail) /\ UNCHANGED ctx
           \/ /\ Call(q)
              /\ \E id : ctx' = [ctx EXCEPT ![c].identity = [of |-> q, id |-> id]]
    BY <1>18 DEF Auth, Down, c
  <2>2. CASE Return(q, a.fail) /\ UNCHANGED ctx
    <3>1. a.fail \in Status \cup {Nil}
      BY <1>1, ConfTyped DEF PlaceInv, ConfigInv, Configured, Status, Nil
    <3>2. a.fail # Panic
      BY <3>1 DEF Status, Nil, Panic
    <3> QED BY <1>13, <2>1, <2>2, <3>2
  <2>3. CASE /\ Call(q)
             /\ \E id : ctx' = [ctx EXCEPT ![c].identity = [of |-> q, id |-> id]]
    <3>1. PICK id : ctx' = [ctx EXCEPT ![c].identity = [of |-> q, id |-> id]]
      BY <2>3
    <3> DEFINE y == [ctx[c] EXCEPT !.identity = [of |-> q, id |-> id]]
    <3>2. c \in Contexts /\ ctx[c] \in Context
      BY <1>2, <2>1
    <3>3. y.w = ctx[c].w /\ y.status = ctx[c].status
      BY <3>2 DEF Context
    <3>4. ctx' = [ctx EXCEPT ![c] = y]
      BY <1>1, <3>1, <3>2
    <3> HIDE DEF y
    <3>5. SameUse(q) /\ inner'[q] = inner[q]
      BY <1>8, <2>1, <3>2, <3>3, <3>4
    <3> QED BY <1>12, <2>1, <2>3, <3>5
  <2> QED BY <2>1, <2>2, <2>3
<1>19. CASE BasicAuth(q)
  <2>1. /\ dir[q] = "down" /\ Layer(q) = "basicauth"
        /\ UNCHANGED <<ctxVars, netVars, log, histVars>>
        /\ \/ Return(q, 401) /\ UNCHANGED ctx
           \/ Call(q) /\ ctx' = [ctx EXCEPT ![c].user = q]
    BY <1>19 DEF BasicAuth, Down, c
  <2>2. CASE Return(q, 401) /\ UNCHANGED ctx
    BY <1>13, <2>1, <2>2 DEF Panic
  <2>3. CASE Call(q) /\ ctx' = [ctx EXCEPT ![c].user = q]
    <3> DEFINE y == [ctx[c] EXCEPT !.user = q]
    <3>2. c \in Contexts /\ ctx[c] \in Context
      BY <1>2, <2>1
    <3>3. y.w = ctx[c].w /\ y.status = ctx[c].status
      BY <3>2 DEF Context
    <3>4. ctx' = [ctx EXCEPT ![c] = y]
      BY <1>1, <2>3, <3>2
    <3> HIDE DEF y
    <3>5. SameUse(q) /\ inner'[q] = inner[q]
      BY <1>8, <2>1, <3>2, <3>3, <3>4
    <3> QED BY <1>12, <2>1, <2>3, <3>5
  <2> QED BY <2>1, <2>2, <2>3
<1>20. CASE Authorize(q)
  <2> DEFINE answer == IF ctx[c].identity = None THEN 401
                       ELSE RoleCheck(Conf.roles, ctx[c].identity.id)
  <2>1. /\ dir[q] = "down" /\ Layer(q) = "authorize"
        /\ UNCHANGED <<ctxVars, ctx, netVars, log, histVars>>
        /\ Return(q, answer) \/ Call(q)
    BY <1>20 DEF Authorize, Down, c
  <2>2. answer # Panic
    BY DEF RoleCheck, Panic, Nil
  <2> HIDE DEF answer
  <2> QED BY <1>7, <1>12, <1>13, <2>1, <2>2
<1>21. CASE GZip(q)
  <2>1. /\ dir[q] = "down" /\ Layer(q) = "gzip" /\ Call(q) /\ UNCHANGED ctxVars
        /\ ctx' = IF input[q].gzip THEN [ctx EXCEPT ![c].w.gz = TRUE] ELSE ctx
        /\ UNCHANGED <<netVars, log, histVars>>
    BY <1>21 DEF GZip, Down, c
  <2>2. c \in Contexts /\ ctx[c] \in Context
    BY <1>2, <2>1
  <2>3. \A d \in Using(q) :
          /\ ctx'[d].w.sw = ctx[d].w.sw /\ ctx'[d].status = ctx[d].status
          /\ ctx'[d].w.gz => ctx[d].w.gz \/ (d = c /\ input[q].gzip)
    BY <1>1, <2>1, <2>2 DEF Context
  <2>4. StartsZip(q)
    BY <1>3, <1>5, <1>6, <2>1, <2>3 DEF StartsZip, Descends, c
  <2> QED BY <2>4 DEF Goes
<1>22. CASE MuxAnswers(q)
  <2> DEFINE target == input[q].target
             code == CASE target = "static" -> 200
                       [] target = "pprof" /\ IsLoopback(input[q].remote) -> 200
                       [] target = "pprof" /\ ~IsLoopback(input[q].remote) -> 403
                       [] OTHER -> 404
  <2>1. /\ RespondAs(FALSE, base[q], code, Piece(q, code))
        /\ dir[q] = "down" /\ Layer(q) = "mux" /\ Return(q, Nil)
        /\ UNCHANGED <<ctxVars, log, histVars>>
    BY <1>22 DEF MuxAnswers, Respond, Down
  <2>2. code \in Status
    BY DEF Status
  <2>3. base[q] \in Using(q)
    BY <1>1, <2>1 DEF Place, Serving, Using
  <2> HIDE DEF code
  <2>4. Writes(q, base[q], code, Piece(q, code))
    BY <1>10, <2>1, <2>2, <2>3
  <2>5. Turns(q) /\ res'[q] = Nil
    BY <1>4, <2>1 DEF Turns, Nil, Panic
  <2> QED BY <2>2, <2>3, <2>4, <2>5 DEF Answers, Goes
<1>23. CASE Handle(q)
  <2>1. /\ dir[q] = "down" /\ Layer(q) = "mux" /\ Call(q) /\ base' = base
        /\ UNCHANGED <<netVars, log, histVars>>
        /\ \/ /\ inner' = [inner EXCEPT ![q] = reqCtxMap[ctx[base[q]].r.of]]
              /\ ctx' = ctx
           \/ \E d \in pool :
                /\ inner' = [inner EXCEPT ![q] = d]
                /\ ctx' = [ctx EXCEPT ![d] =
                     [Fresh(q) EXCEPT !.w = ctx[base[q]].w, !.r = ctx[base[q]].r]]
    BY <1>23 DEF Handle, Down
  <2>2. /\ base[q] \in Contexts /\ reqCtxMap[q] = base[q]
        /\ ctx[base[q]].r.of = q /\ base[q] \in Using(q) /\ base[q] \notin pool
    BY <1>1, <2>1 DEF PlaceInv, Place, Serving, CtxInv, OwnContexts, OwnedBy, Using, Exclusive
  <2>3. /\ \A d \in Using(q)' : ctx'[d].w = ctx[base[q]].w
        /\ ctx'[base[q]].status = ctx[base[q]].status
    <3>1. Using(q)' \subseteq {base[q], inner'[q]}
      BY <2>1 DEF Using
    <3>2. CASE /\ inner' = [inner EXCEPT ![q] = reqCtxMap[ctx[base[q]].r.of]]
               /\ ctx' = ctx
      BY <1>1, <2>2, <3>1, <3>2
    <3>3. ASSUME NEW e \in pool, inner' = [inner EXCEPT ![q] = e],
                 ctx' = [ctx EXCEPT ![e] =
                     [Fresh(q) EXCEPT !.w = ctx[base[q]].w, !.r = ctx[base[q]].r]]
          PROVE  /\ \A d \in Using(q)' : ctx'[d].w = ctx[base[q]].w
                 /\ ctx'[base[q]].status = ctx[base[q]].status
      <4>1. ctx'[e].w = ctx[base[q]].w /\ ctx'[base[q]] = ctx[base[q]]
        BY <1>1, <2>2, <3>3 DEF Fresh
      <4>2. inner'[q] = e
        BY <1>1, <3>3
      <4> QED BY <3>1, <4>1, <4>2
    <3> QED BY <2>1, <3>2, <3>3
  <2>4. Hands(q)
    BY <1>3, <1>5, <2>1, <2>3 DEF Hands, Descends
  <2> QED BY <2>4 DEF Goes
<1>24. CASE Handler(q)
  <2> DEFINE does == input[q]
             bound == Bind(does, ctx[c].app /\ Conf.limited)
             stuck == does.writes = "events" /\ ctx[c].w.gz
             silent == bound # Nil \/ stuck \/ does.writes = "nothing"
             body == Written(q, does.writes)
             skip == does.writes \in {"file", "events"}
             r == IF bound # Nil THEN bound ELSE IF stuck THEN 500 ELSE Ending[does.ends]
  <2>1. /\ dir[q] = "down" /\ Layer(q) = "handler" /\ Return(q, r)
        /\ IF silent THEN UNCHANGED <<ctx, netVars>> ELSE RespondAs(skip, c, 200, body)
        /\ UNCHANGED <<ctxVars, log, histVars>>
    BY <1>24 DEF Handler, Down, c
  <2>2. /\ bound \in Status \cup {Nil}
        /\ does.ends \in {"nil", "fail", "plain", "panic"}
    BY <1>1, BindType DEF Input
  <2>3. /\ r = Panic => does.ends = "panic"
        /\ ~silent /\ r # Nil => does.writes # "nothing" /\ does.ends # "nil"
    <3>1. /\ Ending["nil"] = Nil /\ \A e \in {"nil", "fail", "plain"} : Ending[e] # Panic
          /\ 500 # Panic /\ bound # Panic
      BY <2>2 DEF Ending, Nil, Panic, Status
    <3> HIDE DEF bound, stuck, does
    <3> QED BY <2>2, <3>1
  <2>4. CASE silent
    <3> HIDE DEF r, bound, stuck
    <3> QED BY <1>13, <2>1, <2>3, <2>4
  <2>5. CASE ~silent
    <3>1. c \in Using(q) /\ 200 \in Status
      BY <1>2, <2>1 DEF Status
    <3>2. body \in {<< >>, Piece(q, 200)} /\ skip \in BOOLEAN
      BY DEF Written
    <3> HIDE DEF body, skip, r
    <3>3. Writes(q, c, 200, body)
      BY <1>10, <2>1, <2>5, <3>1, <3>2
    <3>4. Turns(q) /\ res'[q] = r
      BY <1>4, <2>1, <2>3 DEF Turns
    <3>5. res'[q] # Nil => AnswersTwice(q)
      BY <2>3, <2>5, <3>4 DEF AnswersTwice
    <3> QED BY <3>1, <3>2, <3>3, <3>4, <3>5 DEF Answers, Goes
  <2> QED BY <2>4, <2>5
<1>25. CASE PassUp(q)
  <2>1. /\ dir[q] = "up" /\ Return(q, res[q])
        /\ Layer(q) \in {"requestid", "cors", "auth", "pprofauth", "basicauth", "authorize"}
        /\ UNCHANGED <<ctxVars, ctx, netVars, log, histVars>>
    BY <1>25 DEF PassUp
  <2> QED BY <1>4, <1>5, <1>7, <2>1 DEF Ascends, Climbs, Goes
<1>26. CASE GZipReturns(q)
  <2>1. /\ dir[q] = "up" /\ Layer(q) = "gzip" /\ Return(q, res[q])
        /\ wire' = [wire EXCEPT ![q].body = wire[q].body \o gz[q].held]
        /\ gz' = [gz EXCEPT ![q].held = << >>]
        /\ crossed' = [crossed EXCEPT ![q] = crossed[q] \/ (input[q].gzip /\ res[q] # Nil)]
        /\ UNCHANGED <<ctxVars, ctx, log, late>>
    BY <1>1, <1>26 DEF GZipReturns, Up
  <2>2. /\ wire'[q].status = wire[q].status /\ wire'[q].body = wire[q].body \o gz[q].held
        /\ gz'[q].wrote = gz[q].wrote /\ gz'[q].held = << >>
        /\ crossed'[q] <=> crossed[q] \/ (input[q].gzip /\ res[q] # Nil)
    <3> DEFINE text == wire[q].body \o gz[q].held
               x == crossed[q] \/ (input[q].gzip /\ res[q] # Nil)
    <3>1. /\ wire' = [wire EXCEPT ![q].body = text]
          /\ gz' = [gz EXCEPT ![q].held = << >>]
          /\ crossed' = [crossed EXCEPT ![q] = x] /\ x \in BOOLEAN
      BY <2>1
    <3> HIDE DEF text, x
    <3>2. crossed'[q] = x
      BY <1>1, <3>1
    <3>3. wire'[q].status = wire[q].status /\ wire'[q].body = text
      BY <1>1, <3>1
    <3>4. gz'[q].wrote = gz[q].wrote /\ gz'[q].held = << >>
      BY <1>1, <3>1
    <3> QED BY <3>2, <3>3, <3>4 DEF text, x
  <2> QED BY <1>4, <1>7, <2>1, <2>2 DEF Ascends, Unzips, Goes
<1>27. CASE TimeoutReturns(q)
  <2> DEFINE fails == expired[q] /\ res[q] # Panic
             lost == /\ fails /\ ctx[c].w.gz
                     /\ \E k \in at[q] .. Len(Chain(q)) : Chain(q)[k] = "gzip"
  <2>1. /\ dir[q] = "up" /\ Layer(q) = "timeout"
        /\ Return(q, IF fails THEN 504 ELSE res[q])
        /\ late' = [late EXCEPT ![q] = late[q] \/ (fails /\ wire[q].status # 0)]
        /\ crossed' = [crossed EXCEPT ![q] = crossed[q] \/ lost]
        /\ UNCHANGED <<ctxVars, ctx, netVars, log>>
    BY <1>1, <1>27 DEF TimeoutReturns, Up, c
  <2> HIDE DEF lost
  <2>2. /\ late'[q] <=> late[q] \/ (fails /\ wire[q].status # 0)
        /\ crossed'[q] <=> crossed[q] \/ lost
    BY <1>1, <2>1
  <2>3. UNCHANGED <<wire, gz, log>>
    BY <2>1 DEF netVars
  <2>4. TimesOut(q)
    BY <1>4, <1>7, <2>1, <2>2, <2>3 DEF TimesOut, Ascends, lost, c
  <2> QED BY <2>4 DEF Goes
<1>28. CASE HandleError(q)
  <2>1. /\ dir[q] = "up" /\ Layer(q) = "mux" /\ UNCHANGED <<ctxVars, log, histVars>>
        /\ res[q] \notin {Nil, Panic} /\ dir' = dir /\ at' = at
        /\ res' = [res EXCEPT ![q] = Nil]
        /\ RespondAs(FALSE, inner[q], res[q], Piece(q, res[q]))
    BY <1>28 DEF HandleError, Up, ErrorHandler, Respond
  <2>2. inner[q] \in Using(q)
    BY <1>1, <2>1, HandleHasContext
  <2>3. res[q] \in Status
    BY <1>1, <2>1
  <2>4. Writes(q, inner[q], res[q], Piece(q, res[q]))
    BY <1>10, <2>1, <2>2, <2>3
  <2>5. Fixes(q)
    BY <1>1, <2>1, <2>4 DEF Fixes
  <2> QED BY <2>5 DEF Goes
<1>29. CASE HandleReturns(q)
  <2>1. /\ dir[q] = "up" /\ Layer(q) = "mux" /\ Return(q, res[q])
        /\ inner' = [inner EXCEPT ![q] = None] /\ base' = base
        /\ ctx' = IF inner[q] # base[q] THEN [ctx EXCEPT ![inner[q]] = Clean] ELSE ctx
        /\ UNCHANGED <<netVars, log, histVars>>
    BY <1>29 DEF HandleReturns, Up
  <2>2. Using(q)' \subseteq {base[q]} \ {None}
    BY <1>1, <2>1 DEF Using
  <2>3. base[q] \in Contexts => ctx'[base[q]] = ctx[base[q]]
    BY <1>1, <2>1
  <2>4. SameUse(q)
    BY <1>1, <2>1, <2>2, <2>3 DEF SameUse
  <2> QED BY <1>4, <1>5, <2>1, <2>4 DEF Ascends, Climbs, Goes
<1>30. CASE RequestLogReturns(q)
  <2>1. /\ dir[q] = "up" /\ Layer(q) = "log" /\ Return(q, res[q])
        /\ log' = IF res[q] = Panic THEN log
                  ELSE [log EXCEPT ![q] = Append(log[q], ctx[base[q]].status)]
        /\ UNCHANGED <<ctxVars, ctx, netVars, histVars>>
    BY <1>1, <1>30 DEF RequestLogReturns, Up
  <2>2. /\ wire' = wire /\ gz' = gz /\ crossed' = crossed /\ late' = late
        /\ log'[q] = IF res[q] = Panic THEN log[q]
                     ELSE Append(log[q], ctx[base[q]].status)
    BY <1>1, <2>1 DEF netVars, histVars
  <2> QED BY <1>4, <1>7, <2>1, <2>2 DEF Ascends, Logs, Goes
<1>31. CASE RecoverReturns(q)
  <2>1. /\ dir[q] = "up" /\ Layer(q) = "recover"
        /\ Return(q, IF res[q] = Panic THEN 500 ELSE res[q])
        /\ UNCHANGED <<ctxVars, ctx, netVars, log, histVars>>
    BY <1>31 DEF RecoverReturns, Up
  <2> QED BY <1>4, <1>5, <1>7, <2>1 DEF Ascends, Recovers, Goes
<1>32. CASE ServeError(q)
  <2>1. /\ dir[q] = "up" /\ Layer(q) = "serve" /\ UNCHANGED <<ctxVars, log, histVars>>
        /\ dir' = [dir EXCEPT ![q] = "forget"] /\ at' = at /\ res' = res
        /\ IF res[q] = Nil THEN UNCHANGED <<netVars, ctx>>
           ELSE RespondAs(FALSE, base[q], res[q], Piece(q, res[q]))
    BY <1>32 DEF ServeError, Up, ErrorHandler, Respond
  <2>2. CASE res[q] = Nil
    BY <1>1, <1>5, <1>7, <2>1, <2>2 DEF Leaves, Goes
  <2>3. CASE res[q] # Nil
    <3>1. res[q] \in Status
      BY <1>1, <1>9, <2>1, <2>3 DEF Place
    <3>2. base[q] \in Using(q)
      BY <1>1, <2>1 DEF Place, Serving, Using
    <3>3. Writes(q, base[q], res[q], Piece(q, res[q]))
      BY <1>10, <2>1, <2>3, <3>1, <3>2
    <3>4. Closes(q)
      BY <1>1, <2>1, <2>3, <3>3 DEF Closes
    <3> QED BY <3>4 DEF Goes
  <2> QED BY <2>2, <2>3
<1>33. CASE Forget(q)
  <2>1. /\ dir[q] = "forget" /\ dir' = [dir EXCEPT ![q] = "release"] /\ at' = at
        /\ res' = res /\ UNCHANGED <<base, inner, ctx, netVars, log, histVars>>
    BY <1>33 DEF Forget
  <2>2. SameUse(q)
    BY <2>1 DEF SameUse
  <2> QED BY <1>1, <1>5, <2>1, <2>2 DEF Leaves, Goes
<1>34. CASE Release(q)
  <2>1. /\ dir[q] = "release" /\ dir' = [dir EXCEPT ![q] = "done"] /\ at' = at
        /\ base' = [base EXCEPT ![q] = None] /\ inner' = inner /\ gz' = gz
        /\ wire' = [wire EXCEPT ![q].status = IF wire[q].status = 0 THEN 200
                                              ELSE wire[q].status]
        /\ UNCHANGED <<log, histVars>>
    BY <1>1, <1>34 DEF Release
  <2>2. inner[q] = None
    BY <1>1, <2>1 DEF Place, Inside
  <2>3. Using(q)' = {}
    BY <1>1, <2>1, <2>2 DEF Using
  <2>4. /\ wire'[q].body = wire[q].body
        /\ wire'[q].status = IF wire[q].status = 0 THEN 200 ELSE wire[q].status
        /\ crossed' = crossed /\ late' = late
    BY <1>1, <2>1 DEF histVars
  <2>5. dir'[q] = "done" /\ at'[q] = at[q] /\ log'[q] = log[q] /\ gz'[q] = gz[q]
    BY <1>1, <2>1
  <2>6. Ends(q)
    BY <2>1, <2>3, <2>4, <2>5 DEF Ends
  <2> QED BY <2>6 DEF Goes
<1>35. CASE DeadlinePasses(q)
  <2>1. /\ dir[q] \in {"down", "up"} /\ UNCHANGED <<dir, at, res>>
        /\ UNCHANGED <<ctxVars, ctx, netVars, log, histVars>>
    BY <1>35 DEF DeadlinePasses, pcVars
  <2> QED BY <1>5, <1>7, <2>1 DEF Rests, Goes
<1> QED BY <1>11, <1>14, <1>15, <1>16, <1>17, <1>18, <1>19, <1>20, <1>21, <1>22, <1>23,
           <1>24, <1>25, <1>26, <1>27, <1>28, <1>29, <1>30, <1>31, <1>32, <1>33, <1>34,
           <1>35 DEF Goroutine

(* Where q is among the layers.                                            *)
Located(q) ==
  /\ at[q] \in Nat /\ MuxAt \in Nat /\ MuxAt > 2
  /\ Layer(q) = "serve" <=> at[q] = 0
  /\ Layer(q) = "recover" <=> at[q] = 1
  /\ Layer(q) = "log" <=> at[q] = 2
  /\ Layer(q) = "mux" <=> at[q] = MuxAt
  /\ at[q] # 0 => at[q] \in DOMAIN Chain(q) /\ Layer(q) = Chain(q)[at[q]]
  /\ DOMAIN Chain(q) = 1 .. Len(Chain(q)) /\ Len(Chain(q)) \in Nat

LEMMA Locating ==
  ASSUME PipelineAssumption, RequestInv, LoggedOnce(stack), NEW q \in Requests,
         dir[q] \in {"down", "up"}
  PROVE  Located(q)
<1> DEFINE n == Len(Chain(q))
<1>1. /\ ConfigInv /\ Place(q) /\ at[q] \in Nat
  BY DEF RequestInv, PlaceInv, ConfigInv
<1>2. /\ MuxAt \in Nat /\ MuxAt > 2 /\ n \in Nat /\ Chain(q) \in Seq(Layers)
      /\ DOMAIN Chain(q) = 1 .. n
      /\ \A k \in 1 .. n : /\ Chain(q)[k] = "recover" <=> k = 1
                           /\ Chain(q)[k] = "log" <=> k = 2
                           /\ Chain(q)[k] = "mux" <=> k = MuxAt
                           /\ Chain(q)[k] # "serve"
  <2>1. \A k \in 1 .. n : Chain(q)[k] \in Layers
    BY <1>1, ChainParts, ElementOfSeq
  <2>2. \A k \in 1 .. n : Chain(q)[k] # "serve"
    BY <2>1 DEF Layers
  <2> QED BY <1>1, <2>2, ChainParts, FirstLayers, ChainShape
<1>3. at[q] \in 0 .. n
  <2>1. at[q] \in 1 .. n \/ at[q] \in 0 .. n - 1
    BY <1>1 DEF Place
  <2> HIDE DEF n
  <2> QED BY <1>2, <2>1
<1>4. CASE at[q] = 0
  BY <1>2, <1>4 DEF Located, Layer
<1>5. CASE at[q] # 0
  <2>1. at[q] \in 1 .. n /\ Layer(q) = Chain(q)[at[q]]
    <3>1. at[q] \in 1 .. n
      <4> HIDE DEF n
      <4> QED BY <1>2, <1>3, <1>5
    <3> QED BY <1>5, <3>1 DEF Layer
  <2> QED BY <1>1, <1>2, <1>5, <2>1 DEF Located
<1> QED BY <1>4, <1>5

(* A second answer stays one.                                              *)
LEMMA TwiceStays ==
  ASSUME NEW q \in Requests, Goes(q), input' = input
  PROVE  /\ AnswersTwice(q) => AnswersTwice(q)'
         /\ late'[q] = late[q] => (AnswersTwice(q)' <=> AnswersTwice(q))
<1>1. late[q] => late'[q]
  BY DEF Goes, Opens, Passes, StartsLog, StartsZip, Hands, Refuses, Answers, Climbs,
         Unzips, TimesOut, Fixes, Logs, Recovers, Closes, Leaves, Ends, Rests,
         Descends, Quiet, Writes
<1> QED BY <1>1 DEF AnswersTwice

LEMMA UnheardStep ==
  ASSUME PipelineAssumption, RequestInv, LoggedOnce(stack), NEW q \in Requests,
         Answered(q), Goes(q), input' = input
  PROVE  Unheard(q)'
<1>1. /\ AnswersTwice(q) => AnswersTwice(q)'
      /\ late'[q] = late[q] => (AnswersTwice(q)' <=> AnswersTwice(q))
  BY TwiceStays
<1>2. Unheard(q) /\ res[q] \in Status \cup {Nil, Panic}
  BY DEF Answered, RequestInv, PlaceInv
<1>3. ASSUME Unanswered(q), Quiet(q) PROVE Unanswered(q)'
  BY <1>3 DEF Unanswered, Quiet
<1>4. CASE Opens(q)
  BY <1>2, <1>3, <1>4 DEF Opens, Unheard
<1>5. CASE Descends(q)
  BY <1>2, <1>3, <1>5 DEF Descends, Unheard
<1>6. CASE Refuses(q)
  <2>1. Unanswered(q)'
    BY <1>2, <1>3, <1>6 DEF Refuses, Turns, Unheard
  <2> QED BY <1>6, <2>1 DEF Refuses, Turns, Unheard, Unanswered
<1>7. CASE Answers(q)
  BY <1>1, <1>7 DEF Answers, Turns, Unheard
<1>8. CASE Climbs(q) \/ Unzips(q) \/ Logs(q)
  <2>1. /\ dir[q] = "up" /\ dir'[q] = "up" /\ res'[q] = res[q]
        /\ wire'[q].status = wire[q].status
    BY <1>8 DEF Climbs, Unzips, Logs, Ascends, Quiet
  <2> QED BY <1>1, <1>2, <2>1 DEF Unheard
<1>9. CASE TimesOut(q)
  <2> DEFINE fails == expired[q] /\ res[q] # Panic
  <2>1. /\ dir[q] = "up" /\ dir'[q] = "up" /\ wire'[q] = wire[q]
        /\ res'[q] = IF fails THEN 504 ELSE res[q]
        /\ late'[q] <=> late[q] \/ (fails /\ wire[q].status # 0)
    BY <1>9 DEF TimesOut, Ascends
  <2>2. CASE fails
    <3>1. wire[q].status # 0 => AnswersTwice(q)'
      BY <2>1, <2>2 DEF AnswersTwice
    <3> QED BY <2>1, <2>2, <3>1 DEF Unheard, Panic
  <2>3. CASE ~fails
    BY <1>1, <1>2, <2>1, <2>3 DEF Unheard
  <2> QED BY <2>2, <2>3
<1>10. CASE Fixes(q)
  BY <1>10 DEF Fixes, Unheard, Nil, Panic
<1>11. CASE Recovers(q)
  <2>1. /\ dir[q] = "up" /\ dir'[q] = "up" /\ wire'[q] = wire[q] /\ late'[q] = late[q]
        /\ res'[q] = IF res[q] = Panic THEN 500 ELSE res[q]
    BY <1>11 DEF Recovers, Ascends, Quiet
  <2>2. res'[q] # Panic /\ (res'[q] # Nil => res[q] # Nil)
    BY <2>1 DEF Panic, Nil
  <2> QED BY <1>1, <1>2, <2>1, <2>2 DEF Unheard
<1>12. CASE Closes(q) \/ Leaves(q) \/ Ends(q)
  BY <1>12 DEF Closes, Leaves, Ends, Unheard
<1>13. CASE Rests(q)
  <2>1. /\ dir'[q] = dir[q] /\ res'[q] = res[q] /\ Quiet(q) /\ wire'[q] = wire[q]
    BY <1>13 DEF Rests, Quiet
  <2> QED BY <1>1, <1>2, <1>3, <2>1 DEF Unheard
<1> QED BY <1>4, <1>5, <1>6, <1>7, <1>8, <1>9, <1>10, <1>11, <1>12, <1>13
        DEF Goes, Passes, StartsLog, StartsZip, Hands

(* What a step leaves of the Contexts that q uses.                         *)
LEMMA UsingKept ==
  ASSUME PipelineAssumption, RequestInv, NEW q \in Requests
  PROVE  /\ None \notin Contexts
         /\ dir[q] \in {"down", "up"} => base[q] \in Using(q)
         /\ SameUse(q) => /\ Using(q)' \subseteq Using(q)
                          /\ base'[q] = base[q]
                          /\ dir[q] \in {"down", "up"} => base[q] \in Using(q)'
         /\ base'[q] = base[q] /\ inner'[q] = inner[q] => Using(q)' = Using(q)
         /\ dir[q] \in {"down", "up"} /\ at[q] \in Nat /\ MuxAt \in Nat =>
              /\ at[q] < MuxAt => Ctx(q) = base[q] /\ inner[q] = None
              /\ at[q] >= MuxAt => Ctx(q) = inner[q]
              /\ dir[q] = "down" /\ at[q] <= MuxAt => inner[q] = None
<1>1. /\ None \notin Contexts /\ Place(q)
  BY DEF RequestInv, PlaceInv, PipelineAssumption
<1>2. dir[q] \in {"down", "up"} => base[q] # None /\ base[q] \in Using(q)
  BY <1>1 DEF Place, Serving, Using
<1>3. ASSUME dir[q] \in {"down", "up"}, at[q] \in Nat, MuxAt \in Nat
      PROVE  /\ at[q] < MuxAt => Ctx(q) = base[q] /\ inner[q] = None
             /\ at[q] >= MuxAt => Ctx(q) = inner[q]
             /\ dir[q] = "down" /\ at[q] <= MuxAt => inner[q] = None
  BY <1>1, <1>3 DEF Place, Inside, Ctx
<1> QED BY <1>1, <1>2, <1>3 DEF SameUse, Using

LEMMA LoggedStep ==
  ASSUME PipelineAssumption, RequestInv, LoggedOnce(stack), NEW q \in Requests,
         Answered(q), Goes(q), input' = input
  PROVE  Logged(q)'
<1> DEFINE Sw == \A c \in Using(q) : ctx[c].w.sw = base[q]
           Zero == dir[q] = "down" => ctx[base[q]].status = 0
           Agrees == ~gz[q].wrote /\ ~AnswersTwice(q) =>
                       ctx[base[q]].status = wire[q].status
           Line == \/ input[q].ends = "panic" /\ log[q] = << >>
                   \/ /\ Len(log[q]) = 1
                      /\ log[q][1] # 0 /\ ~gz[q].wrote /\ ~AnswersTwice(q) =>
                           log[q][1] = wire[q].status
           Before == dir[q] \in {"new", "down"} \/ Logging(q)
<1>1. /\ AnswersTwice(q) => AnswersTwice(q)'
      /\ late'[q] = late[q] => (AnswersTwice(q)' <=> AnswersTwice(q))
  BY TwiceStays
<1>2. /\ Unheard(q) /\ res[q] \in Status \cup {Nil, Panic}
      /\ Logging(q) => Sw /\ Zero /\ Agrees
      /\ IF Before THEN log[q] = << >> ELSE Line
  BY DEF Answered, Logged, RequestInv, PlaceInv
<1>3. /\ Logged(q)' <=> /\ Logging(q)' => Sw' /\ Zero' /\ Agrees'
                        /\ IF Before' THEN (log[q] = << >>)' ELSE Line'
  BY DEF Logged
<1>4. dir[q] \in {"down", "up"} => Located(q)
  BY Locating
<1>5. /\ None \notin Contexts
      /\ dir[q] \in {"down", "up"} => base[q] \in Using(q)
      /\ SameUse(q) => /\ Using(q)' \subseteq Using(q)
                       /\ base'[q] = base[q]
                       /\ dir[q] \in {"down", "up"} => base[q] \in Using(q)'
      /\ base'[q] = base[q] /\ inner'[q] = inner[q] => Using(q)' = Using(q)
      /\ dir[q] \in {"down", "up"} /\ at[q] \in Nat /\ MuxAt \in Nat =>
           /\ at[q] < MuxAt => Ctx(q) = base[q] /\ inner[q] = None
           /\ dir[q] = "down" /\ at[q] <= MuxAt => inner[q] = None
  BY UsingKept
<1>6. ASSUME dir[q] \in {"down", "up"}, Logging(q), SameUse(q),
             wire'[q].status = wire[q].status, gz'[q].wrote = gz[q].wrote,
             dir'[q] = "down" => dir[q] = "down"
      PROVE  Sw' /\ Zero' /\ Agrees'
  <2>1. Sw /\ Zero /\ Agrees /\ base'[q] = base[q]
        /\ ctx'[base[q]].status = ctx[base[q]].status
    BY <1>2, <1>5, <1>6 DEF SameUse
  <2>2. Sw'
    BY <1>5, <1>6, <2>1 DEF SameUse
  <2> QED BY <1>1, <1>6, <2>1, <2>2
<1>7. ASSUME NEW c \in Using(q), NEW code \in Status, NEW body,
             Writes(q, c, code, body), Logging(q), dir[q] \in {"down", "up"},
             dir'[q] = "up", ~AnswersTwice(q) => wire[q].status = 0
      PROVE  Sw' /\ Zero' /\ Agrees'
  <2>1. Sw /\ Using(q)' = Using(q) /\ base'[q] = base[q] /\ base[q] # None
    BY <1>2, <1>5, <1>7 DEF Writes, Using
  <2>2. Sw'
    BY <1>7, <2>1 DEF Writes
  <2>3. ~gz'[q].wrote => ctx'[base[q]].status = code
    BY <1>7, <2>1 DEF Writes
  <2>4. ~AnswersTwice(q) => wire'[q].status = code
    BY <1>7 DEF Writes
  <2> QED BY <1>1, <1>7, <2>1, <2>2, <2>3, <2>4
<1> HIDE DEF Sw, Zero, Agrees, Line, Before
<1>8. CASE Opens(q)
  <2>1. ~Logging(q)' /\ Before /\ Before' /\ log'[q] = log[q]
    BY <1>8 DEF Opens, Logging, Before, Quiet
  <2> QED BY <1>2, <1>3, <2>1
<1>9. CASE Passes(q)
  <2>1. /\ dir[q] = "down" /\ dir'[q] = "down" /\ at'[q] = at[q] + 1
        /\ Quiet(q) /\ SameUse(q) /\ Layer(q) \notin {"serve", "log", "mux"}
    BY <1>9 DEF Passes, Descends
  <2>2. Before /\ Before' /\ log'[q] = log[q] /\ wire'[q] = wire[q] /\ gz'[q] = gz[q]
    BY <2>1 DEF Before, Quiet
  <2>3. Logging(q)' => Logging(q)
    BY <1>4, <2>1 DEF Located, Logging
  <2>4. Logging(q)' => Sw' /\ Zero' /\ Agrees'
    BY <1>6, <2>1, <2>2, <2>3
  <2> QED BY <1>2, <1>3, <2>2, <2>4
<1>10. CASE StartsLog(q)
  <2>1. /\ dir[q] = "down" /\ dir'[q] = "down" /\ Quiet(q) /\ base'[q] = base[q]
        /\ inner'[q] = inner[q] /\ Layer(q) = "log"
        /\ ctx'[Ctx(q)].w.sw = Ctx(q) /\ ctx'[Ctx(q)].status = 0
    BY <1>10 DEF StartsLog, Descends
  <2>2. Before /\ Before' /\ log'[q] = log[q] /\ wire'[q] = wire[q] /\ gz'[q] = gz[q]
    BY <2>1 DEF Before, Quiet
  <2>3. Ctx(q) = base[q] /\ inner[q] = None
    BY <1>4, <1>5, <2>1 DEF Located
  <2>4. Using(q)' = {base[q]}
    BY <1>5, <2>1, <2>3 DEF Using
  <2>5. wire[q].status = 0
    BY <1>2, <2>1 DEF Unheard, Unanswered
  <2>6. Sw' /\ Zero' /\ Agrees'
    BY <2>1, <2>2, <2>3, <2>4, <2>5 DEF Sw, Zero, Agrees
  <2> QED BY <1>2, <1>3, <2>2, <2>6
<1>11. CASE StartsZip(q)
  <2>1. /\ dir[q] = "down" /\ dir'[q] = "down" /\ Quiet(q) /\ base'[q] = base[q]
        /\ inner'[q] = inner[q] /\ Layer(q) = "gzip" /\ late'[q] = late[q]
        /\ \A c \in Using(q) : ctx'[c].w.sw = ctx[c].w.sw /\ ctx'[c].status = ctx[c].status
    BY <1>11 DEF StartsZip, Descends, Quiet
  <2>2. Before /\ Before' /\ log'[q] = log[q] /\ wire'[q] = wire[q] /\ gz'[q] = gz[q]
    BY <2>1 DEF Before, Quiet
  <2>3. Logging(q)
    BY <1>4, <2>1 DEF Located, Logging
  <2>4. Using(q)' = Using(q) /\ base[q] \in Using(q)
    BY <1>5, <2>1
  <2>5. Sw' /\ Zero' /\ Agrees'
    BY <1>1, <1>2, <2>1, <2>2, <2>3, <2>4 DEF Sw, Zero, Agrees
  <2> QED BY <1>2, <1>3, <2>2, <2>5
<1>12. CASE Hands(q)
  <2>1. /\ dir[q] = "down" /\ dir'[q] = "down" /\ Quiet(q) /\ base'[q] = base[q]
        /\ Layer(q) = "mux" /\ late'[q] = late[q]
        /\ \A c \in Using(q)' : ctx'[c].w = ctx[base[q]].w
        /\ ctx'[base[q]].status = ctx[base[q]].status
    BY <1>12 DEF Hands, Descends, Quiet
  <2>2. Before /\ Before' /\ log'[q] = log[q] /\ wire'[q] = wire[q] /\ gz'[q] = gz[q]
    BY <2>1 DEF Before, Quiet
  <2>3. Logging(q)
    BY <1>4, <2>1 DEF Located, Logging
  <2>4. base[q] \in Using(q)
    BY <1>5, <2>1
  <2>5. Sw' /\ Zero' /\ Agrees'
    BY <1>1, <1>2, <2>1, <2>2, <2>3, <2>4 DEF Sw, Zero, Agrees
  <2> QED BY <1>2, <1>3, <2>2, <2>5
<1>13. ASSUME Turns(q) PROVE /\ Logging(q) /\ Logging(q)' /\ Before /\ Before'
                             /\ dir[q] = "down" /\ dir'[q] = "up"
  BY <1>4, <1>13 DEF Turns, Located, Logging, Before
<1>14. CASE Refuses(q)
  <2>1. /\ Turns(q) /\ SameUse(q) /\ log'[q] = log[q] /\ wire'[q] = wire[q]
        /\ gz'[q] = gz[q]
    BY <1>14 DEF Refuses, Quiet
  <2>2. Sw' /\ Zero' /\ Agrees'
    BY <1>6, <1>13, <2>1
  <2> QED BY <1>2, <1>3, <1>13, <2>1, <2>2
<1>15. CASE Answers(q)
  <2>1. Turns(q)
    BY <1>15 DEF Answers
  <2>2. PICK c \in Using(q), code \in Status : \E body \in {<< >>, Piece(q, code)} :
          Writes(q, c, code, body)
    BY <1>15 DEF Answers
  <2>3. wire[q].status = 0
    BY <1>2, <1>13, <2>1 DEF Unheard, Unanswered
  <2>4. Sw' /\ Zero' /\ Agrees'
    BY <1>7, <1>13, <2>1, <2>2, <2>3
  <2>5. log'[q] = log[q]
    BY <2>2 DEF Writes
  <2> QED BY <1>2, <1>3, <1>13, <2>1, <2>4, <2>5
<1>16. ASSUME Ascends(q), Layer(q) \notin {"serve", "recover", "log"},
              wire'[q].status = wire[q].status, gz'[q].wrote = gz[q].wrote,
              log'[q] = log[q]
       PROVE  Logged(q)'
  <2>1. /\ dir[q] = "up" /\ dir'[q] = "up" /\ at'[q] = at[q] - 1 /\ SameUse(q)
    BY <1>16 DEF Ascends
  <2>2. Logging(q) /\ Logging(q)' /\ Before /\ Before'
    BY <1>4, <1>16, <2>1 DEF Located, Logging, Before
  <2>3. Sw' /\ Zero' /\ Agrees'
    BY <1>6, <1>16, <2>1, <2>2
  <2> QED BY <1>2, <1>3, <1>16, <2>2, <2>3
<1>17. CASE Climbs(q) \/ Unzips(q) \/ TimesOut(q)
  <2>1. /\ Ascends(q) /\ Layer(q) \notin {"serve", "recover", "log"}
        /\ wire'[q].status = wire[q].status /\ gz'[q].wrote = gz[q].wrote
        /\ log'[q] = log[q]
    BY <1>17 DEF Climbs, Unzips, TimesOut, Quiet
  <2> QED BY <1>16, <2>1
<1>18. CASE Fixes(q)
  <2>1. /\ dir[q] = "up" /\ dir'[q] = "up" /\ at'[q] = at[q] /\ Layer(q) = "mux"
        /\ res[q] # Nil /\ Writes(q, inner[q], res[q], Piece(q, res[q]))
    BY <1>18 DEF Fixes
  <2>2. Logging(q) /\ Logging(q)' /\ Before /\ Before'
    BY <1>4, <2>1 DEF Located, Logging, Before
  <2>3. ~AnswersTwice(q) => wire[q].status = 0
    BY <1>2, <2>1 DEF Unheard
  <2>4. Sw' /\ Zero' /\ Agrees'
    BY <1>7, <2>1, <2>2, <2>3 DEF Writes
  <2>5. log'[q] = log[q]
    BY <2>1 DEF Writes
  <2> QED BY <1>2, <1>3, <2>2, <2>4, <2>5
<1>19. CASE Logs(q)
  <2>1. /\ dir[q] = "up" /\ dir'[q] = "up" /\ at'[q] = at[q] - 1 /\ Layer(q) = "log"
        /\ wire'[q] = wire[q] /\ gz'[q] = gz[q] /\ late'[q] = late[q]
        /\ log'[q] = IF res[q] = Panic THEN log[q]
                     ELSE Append(log[q], ctx[base[q]].status)
    BY <1>19 DEF Logs, Ascends
  <2>2. Logging(q) /\ ~Logging(q)' /\ Before /\ ~Before'
    BY <1>4, <2>1 DEF Located, Logging, Before
  <2>3. log[q] = << >> /\ Agrees
    BY <1>2, <2>2
  <2>4. Line'
    <3>1. CASE res[q] = Panic
      <4>1. input[q].ends = "panic" /\ log'[q] = << >>
        BY <1>2, <2>1, <2>3, <3>1 DEF Unheard
      <4> QED BY <4>1 DEF Line
    <3>2. CASE res[q] # Panic
      <4>1. log'[q] = <<ctx[base[q]].status>>
        BY <2>1, <2>3, <3>2
      <4>2. Len(log'[q]) = 1 /\ log'[q][1] = ctx[base[q]].status
        BY <4>1
      <4> QED BY <1>1, <2>1, <2>3, <4>2 DEF Line, Agrees
    <3> QED BY <3>1, <3>2
  <2> QED BY <1>3, <2>2, <2>4
<1>20. ASSUME ~Before, ~Before', ~Logging(q)', log'[q] = log[q],
              gz[q].wrote => gz'[q].wrote,
              log[q][1] # 0 /\ ~gz[q].wrote /\ ~AnswersTwice(q)
                /\ log[q][1] = wire[q].status => wire'[q].status = wire[q].status
       PROVE  Logged(q)'
  <2>1. Line
    BY <1>2, <1>20
  <2>2. Line'
    BY <1>1, <1>20, <2>1 DEF Line
  <2> QED BY <1>3, <1>20, <2>2
<1>21. CASE Recovers(q)
  <2>1. /\ dir[q] = "up" /\ dir'[q] = "up" /\ at'[q] = at[q] - 1
        /\ Layer(q) = "recover" /\ log'[q] = log[q] /\ late'[q] = late[q]
        /\ gz'[q] = gz[q] /\ wire'[q] = wire[q]
    BY <1>21 DEF Recovers, Ascends, Quiet
  <2>2. ~Before /\ ~Before' /\ ~Logging(q)'
    BY <1>4, <2>1 DEF Located, Logging, Before
  <2> QED BY <1>20, <2>1, <2>2
<1>22. CASE Closes(q)
  <2>1. /\ dir[q] = "up" /\ dir'[q] = "forget" /\ Layer(q) = "serve" /\ res[q] # Nil
        /\ Writes(q, base[q], res[q], Piece(q, res[q]))
    BY <1>22 DEF Closes
  <2>2. ~Before /\ ~Before' /\ ~Logging(q)'
    BY <1>4, <2>1 DEF Located, Logging, Before
  <2>3. ~AnswersTwice(q) => wire[q].status = 0
    BY <1>2, <2>1 DEF Unheard
  <2> QED BY <1>20, <2>1, <2>2, <2>3 DEF Writes
<1>23. CASE Leaves(q)
  <2>1. /\ (dir[q] = "up" /\ Layer(q) = "serve") \/ dir[q] = "forget"
        /\ dir'[q] \in {"forget", "release"} /\ log'[q] = log[q] /\ late'[q] = late[q]
        /\ gz'[q] = gz[q] /\ wire'[q] = wire[q]
    BY <1>23 DEF Leaves, Quiet
  <2>2. ~Before /\ ~Before' /\ ~Logging(q)'
    BY <1>4, <2>1 DEF Located, Logging, Before
  <2> QED BY <1>20, <2>1, <2>2
<1>24. CASE Ends(q)
  <2>1. /\ dir[q] = "release" /\ dir'[q] = "done" /\ log'[q] = log[q]
        /\ late'[q] = late[q] /\ gz'[q] = gz[q]
        /\ wire'[q].status = IF wire[q].status = 0 THEN 200 ELSE wire[q].status
    BY <1>24 DEF Ends
  <2>2. ~Before /\ ~Before' /\ ~Logging(q)'
    BY <2>1 DEF Logging, Before
  <2> QED BY <1>20, <2>1, <2>2
<1>25. CASE Rests(q)
  <2>1. /\ dir[q] \in {"down", "up"} /\ dir'[q] = dir[q] /\ at'[q] = at[q]
        /\ SameUse(q) /\ log'[q] = log[q] /\ late'[q] = late[q]
        /\ wire'[q] = wire[q] /\ gz'[q] = gz[q]
    BY <1>25 DEF Rests, Quiet
  <2>2. (Logging(q)' <=> Logging(q)) /\ (Before' <=> Before)
    BY <2>1 DEF Logging, Before
  <2>3. Logging(q)' => Sw' /\ Zero' /\ Agrees'
    BY <1>6, <2>1, <2>2
  <2>4. IF Before' THEN log'[q] = << >> ELSE Line'
    BY <1>1, <1>2, <2>1, <2>2 DEF Line
  <2> QED BY <1>3, <2>3, <2>4
<1> QED BY <1>8, <1>9, <1>10, <1>11, <1>12, <1>14, <1>15, <1>17, <1>18, <1>19, <1>21,
           <1>22, <1>23, <1>24, <1>25 DEF Goes

(* Where there is no status yet, a write makes the only answer.            *)
LEMMA WriteOnce ==
  ASSUME PipelineAssumption, RequestInv, NEW q \in Requests, AnsweredOnce(q),
         ~AnswersTwice(q), wire[q].status = 0,
         NEW c, NEW code, NEW body, Writes(q, c, code, body)
  PROVE  /\ wire'[q].status = code /\ code # 0
         /\ \/ wire'[q].body = body /\ gz'[q].held = << >>
            \/ wire'[q].body = << >> /\ gz'[q].held = body
         /\ Len(body) <= 1 /\ \A k \in DOMAIN body : body[k].code = code
         /\ wire[q].body = << >> /\ gz[q].held = << >>
<1>1. wire[q].body = << >> /\ gz[q].held = << >>
  BY DEF AnsweredOnce
<1>2. code \in Status /\ body \in {<< >>, Piece(q, code)} /\ wire'[q].status = code
  BY DEF Writes
<1>3. << >> \o body = body
  <2>1. body \in OwnPieces(q)
    BY <1>2, PiecesOwn
  <2> QED BY <2>1, ConcatEmptySeq DEF OwnPieces
<1>4. \/ wire'[q].body = body /\ gz'[q].held = << >>
      \/ wire'[q].body = << >> /\ gz'[q].held = body
  BY <1>1, <1>3 DEF Writes
<1>5. Len(body) <= 1 /\ \A k \in DOMAIN body : body[k].code = code
  <2>1. CASE body = << >>
    BY <2>1
  <2>2. CASE body = <<[of |-> q, code |-> code]>>
    <3>1. Len(body) = 1 /\ DOMAIN body = {1} /\ body[1] = [of |-> q, code |-> code]
      BY <2>2
    <3> QED BY <3>1
  <2> QED BY <1>2, <2>1, <2>2 DEF Piece
<1>6. code # 0
  BY <1>2 DEF Status
<1> QED BY <1>1, <1>2, <1>4, <1>5, <1>6

LEMMA OnceStep ==
  ASSUME PipelineAssumption, RequestInv, LoggedOnce(stack), NEW q \in Requests,
         Answered(q), Goes(q), input' = input
  PROVE  AnsweredOnce(q)'
<1>1. Unheard(q) /\ AnsweredOnce(q) /\ (AnswersTwice(q) => AnswersTwice(q)')
  BY TwiceStays DEF Answered
<1>2. ASSUME wire'[q].status = wire[q].status, wire'[q].body = wire[q].body,
             gz'[q].held = gz[q].held
      PROVE  AnsweredOnce(q)'
  BY <1>1, <1>2 DEF AnsweredOnce
<1>3. ASSUME NEW c, NEW code, NEW body, Writes(q, c, code, body),
             ~AnswersTwice(q) => wire[q].status = 0
      PROVE  AnsweredOnce(q)'
  <2> SUFFICES ASSUME ~AnswersTwice(q) PROVE AnsweredOnce(q)'
    BY <1>1 DEF AnsweredOnce
  <2>1. /\ wire'[q].status = code /\ code # 0
        /\ \/ wire'[q].body = body /\ gz'[q].held = << >>
           \/ wire'[q].body = << >> /\ gz'[q].held = body
        /\ Len(body) <= 1 /\ \A k \in DOMAIN body : body[k].code = code
    BY <1>1, <1>3, WriteOnce
  <2> QED BY <2>1 DEF AnsweredOnce
<1>4. CASE Opens(q) \/ Descends(q) \/ Refuses(q) \/ Climbs(q) \/ TimesOut(q) \/ Logs(q)
           \/ Recovers(q) \/ Leaves(q) \/ Rests(q)
  BY <1>2, <1>4 DEF Opens, Descends, Refuses, Climbs, TimesOut, Logs, Recovers, Leaves,
                    Rests, Quiet
<1>5. CASE Answers(q)
  <2>1. wire[q].status = 0
    BY <1>1, <1>5 DEF Answers, Turns, Unheard, Unanswered
  <2> QED BY <1>3, <1>5, <2>1 DEF Answers
<1>6. CASE Fixes(q) \/ Closes(q)
  <2>1. ~AnswersTwice(q) => wire[q].status = 0
    BY <1>1, <1>6 DEF Fixes, Closes, Unheard
  <2> QED BY <1>3, <1>6, <2>1 DEF Fixes, Closes
<1>7. CASE Unzips(q)
  <2> SUFFICES ASSUME ~AnswersTwice(q) PROVE AnsweredOnce(q)'
    BY <1>1 DEF AnsweredOnce
  <2> DEFINE body == wire[q].body
             held == gz[q].held
  <2>1. body \in OwnPieces(q) /\ held \in OwnPieces(q)
    BY DEF RequestInv, NetInv
  <2>2. /\ Len(body) <= 1 /\ Len(held) <= 1 /\ (body = << >> \/ held = << >>)
        /\ \A k \in DOMAIN body : body[k].code = wire[q].status
        /\ \A k \in DOMAIN held : held[k].code = wire[q].status
        /\ wire[q].status = 0 => body = << >> /\ held = << >>
    BY <1>1 DEF AnsweredOnce
  <2>3. /\ wire'[q].status = wire[q].status /\ wire'[q].body = body \o held
        /\ gz'[q].held = << >>
    BY <1>7 DEF Unzips
  <2>4. body = << >> => body \o held = held
    <3> HIDE DEF body, held
    <3> QED BY <2>1, ConcatEmptySeq DEF OwnPieces
  <2>5. held = << >> => body \o held = body
    <3> HIDE DEF body, held
    <3> QED BY <2>1, ConcatEmptySeq DEF OwnPieces
  <2> HIDE DEF body, held
  <2>6. body \o held = body \/ body \o held = held
    BY <2>2, <2>4, <2>5
  <2> QED BY <2>2, <2>3, <2>6 DEF AnsweredOnce
<1>8. CASE Ends(q)
  <2>1. /\ wire'[q].body = wire[q].body /\ gz'[q].held = gz[q].held
        /\ wire'[q].status = IF wire[q].status = 0 THEN 200 ELSE wire[q].status
    BY <1>8 DEF Ends
  <2>2. CASE wire[q].status = 0
    <3> SUFFICES ASSUME ~AnswersTwice(q) PROVE AnsweredOnce(q)'
      BY <1>1 DEF AnsweredOnce
    <3>1. wire'[q].body = << >> /\ gz'[q].held = << >> /\ wire'[q].status = 200
      BY <1>1, <2>1, <2>2 DEF AnsweredOnce
    <3> QED BY <3>1 DEF AnsweredOnce
  <2>3. CASE wire[q].status # 0
    BY <1>2, <2>1, <2>3
  <2> QED BY <2>2, <2>3
<1> QED BY <1>4, <1>5, <1>6, <1>7, <1>8 DEF Goes, Passes, StartsLog, StartsZip, Hands

LEMMA ZippedStep ==
  ASSUME PipelineAssumption, RequestInv, LoggedOnce(stack), NEW q \in Requests,
         Answered(q), Goes(q), input' = input, Chain(q)' = Chain(q), MuxAt' = MuxAt
  PROVE  Unzipped(q)'
<1> DEFINE Inside0(c) == /\ input[q].gzip
                         /\ dir[q] \in {"down", "up"} =>
                              \E k \in DOMAIN Chain(q) : WrappedBy(q, c, k)
           Owed == dir[q] = "up" /\ res[q] # Nil =>
                     \A c \in Using(q) : ctx[c].w.gz => Pending(q)
           Kept0 == gz[q].held # << >> => dir[q] = "up" /\ Pending(q)
<1>1. /\ \A c \in Using(q) : ctx[c].w.gz => Inside0(c)
      /\ ~crossed[q] => Owed /\ Kept0
      /\ Unheard(q)
  BY DEF Answered, Unzipped
<1>2. ASSUME \A c \in Using(q)' : ctx'[c].w.gz => Inside0(c)',
             ~crossed'[q] => Owed' /\ Kept0'
      PROVE  Unzipped(q)'
  BY <1>2 DEF Unzipped
<1>3. dir[q] \in {"down", "up"} => Located(q)
  BY Locating
<1>4. /\ None \notin Contexts
      /\ SameUse(q) => Using(q)' \subseteq Using(q) /\ base'[q] = base[q]
      /\ base'[q] = base[q] /\ inner'[q] = inner[q] => Using(q)' = Using(q)
      /\ dir[q] \in {"down", "up"} => base[q] \in Using(q)
      /\ dir[q] \in {"down", "up"} /\ at[q] \in Nat /\ MuxAt \in Nat =>
           /\ at[q] < MuxAt => Ctx(q) = base[q] /\ inner[q] = None
           /\ at[q] >= MuxAt => Ctx(q) = inner[q]
           /\ dir[q] = "down" /\ at[q] <= MuxAt => inner[q] = None
  BY UsingKept
<1>5. ASSUME NEW c, NEW k \in DOMAIN Chain(q), WrappedBy(q, c, k),
             dir[q] \in {"down", "up"},
             inner'[q] \in {inner[q], None, c},
             \/ dir'[q] = "up"
             \/ dir[q] = "down" /\ at'[q] \in {at[q], at[q] + 1}
      PROVE  WrappedBy(q, c, k)'
  BY <1>3, <1>5 DEF Located, WrappedBy
<1>6. ASSUME SameUse(q) \/ (/\ base'[q] = base[q] /\ inner'[q] = inner[q]
                            /\ \A c \in Using(q) : ctx'[c].w = ctx[c].w),
             \/ dir'[q] \notin {"down", "up"}
             \/ dir[q] \in {"down", "up"} /\ dir'[q] = "up"
             \/ /\ dir[q] = "down" /\ dir'[q] = "down"
                /\ at'[q] \in {at[q], at[q] + 1}
      PROVE  \A c \in Using(q)' : ctx'[c].w.gz => ctx[c].w.gz /\ Inside0(c)' /\ c \in Using(q)
  <2> SUFFICES ASSUME NEW c \in Using(q)', ctx'[c].w.gz
               PROVE  ctx[c].w.gz /\ Inside0(c)' /\ c \in Using(q)
    OBVIOUS
  <2>1. c \in Using(q) /\ ctx'[c].w = ctx[c].w /\ inner'[q] \in {inner[q], None}
    BY <1>4, <1>6 DEF SameUse
  <2>2. ctx[c].w.gz /\ Inside0(c)
    BY <1>1, <2>1
  <2>3. dir'[q] \in {"down", "up"} => \E k \in DOMAIN Chain(q) : WrappedBy(q, c, k)'
    BY <1>5, <1>6, <2>1, <2>2
  <2> QED BY <2>1, <2>2, <2>3
<1>7. ASSUME Pending(q), Layer(q) # "gzip", at'[q] = at[q] - 1, Located(q)
      PROVE  Pending(q)'
  <2>1. PICK k \in 1 .. at[q] : Chain(q)[k] = "gzip"
    BY <1>7 DEF Pending
  <2>2. k # at[q]
    BY <1>7, <2>1 DEF Located
  <2>3. k \in 1 .. at'[q]
    BY <1>7, <2>1, <2>2 DEF Located
  <2> QED BY <2>1, <2>3 DEF Pending
<1>8. ASSUME dir[q] = "down", NEW c \in Using(q), ctx[c].w.gz, at'[q] = at[q] - 1
      PROVE  Pending(q)'
  <2>1. PICK k \in DOMAIN Chain(q) : WrappedBy(q, c, k)
    BY <1>1, <1>8
  <2>2. k \in 1 .. at'[q]
    BY <1>3, <1>8, <2>1 DEF Located, WrappedBy
  <2> QED BY <2>1, <2>2 DEF Pending, WrappedBy
<1> HIDE DEF Inside0, Owed, Kept0
<1>9. CASE Opens(q)
  <2>1. /\ dir'[q] = "down" /\ \A c \in Using(q)' : ~ctx'[c].w.gz
        /\ gz'[q].held = << >>
    BY <1>1, <1>9 DEF Opens, Quiet, Unheard, Unanswered
  <2> QED BY <1>2, <2>1 DEF Owed, Kept0
<1>10. ASSUME dir'[q] = "down", dir[q] = "down", Quiet(q) PROVE Owed' /\ Kept0'
  BY <1>1, <1>10 DEF Owed, Kept0, Quiet, Unheard, Unanswered
<1>11. CASE Passes(q)
  <2>1. /\ dir'[q] = "down" /\ dir[q] = "down" /\ Quiet(q) /\ SameUse(q)
        /\ at'[q] = at[q] + 1
    BY <1>11 DEF Passes, Descends
  <2> QED BY <1>2, <1>6, <1>10, <2>1
<1>12. CASE StartsLog(q)
  <2>1. /\ dir'[q] = "down" /\ dir[q] = "down" /\ Quiet(q) /\ at'[q] = at[q] + 1
        /\ Using(q)' = Using(q) /\ inner'[q] = inner[q]
        /\ \A c \in Using(q) : ctx'[c].w.gz = ctx[c].w.gz
    BY <1>4, <1>12 DEF StartsLog, Descends
  <2>2. ASSUME NEW c \in Using(q)', ctx'[c].w.gz PROVE Inside0(c)'
    <3>1. Inside0(c)
      BY <1>1, <2>1, <2>2
    <3>2. \E k \in DOMAIN Chain(q) : WrappedBy(q, c, k)'
      BY <1>5, <2>1, <3>1 DEF Inside0
    <3> QED BY <3>1, <3>2 DEF Inside0
  <2> QED BY <1>2, <1>10, <2>1, <2>2
<1>13. CASE StartsZip(q)
  <2>1. /\ dir'[q] = "down" /\ dir[q] = "down" /\ Quiet(q) /\ at'[q] = at[q] + 1
        /\ Using(q)' = Using(q) /\ inner'[q] = inner[q] /\ Layer(q) = "gzip"
        /\ \A c \in Using(q) :
              ctx'[c].w.gz => ctx[c].w.gz \/ (c = Ctx(q) /\ input[q].gzip)
    BY <1>4, <1>13 DEF StartsZip, Descends
  <2>2. ASSUME NEW c \in Using(q)', ctx'[c].w.gz PROVE Inside0(c)'
    <3>1. CASE ctx[c].w.gz
      <4>1. Inside0(c)
        BY <1>1, <2>1, <2>2, <3>1
      <4>2. \E k \in DOMAIN Chain(q) : WrappedBy(q, c, k)'
        BY <1>5, <2>1, <4>1 DEF Inside0
      <4> QED BY <4>1, <4>2 DEF Inside0
    <3>2. CASE c = Ctx(q) /\ input[q].gzip
      <4>1. PICK k \in DOMAIN Chain(q) : k = at[q] /\ Chain(q)[k] = "gzip"
        BY <1>3, <2>1 DEF Located
      <4>2. inner[q] \notin {None, c} => at[q] < MuxAt
        BY <1>3, <1>4, <2>1, <3>2 DEF Located
      <4>3. k < at'[q] /\ k \in DOMAIN Chain(q)'
        BY <1>3, <2>1, <4>1 DEF Located
      <4>4. WrappedBy(q, c, k)'
        BY <2>1, <4>1, <4>2, <4>3 DEF WrappedBy
      <4> QED BY <3>2, <4>3, <4>4 DEF Inside0
    <3> QED BY <2>1, <2>2, <3>1, <3>2
  <2> QED BY <1>2, <1>10, <2>1, <2>2
<1>14. CASE Hands(q)
  <2>1. /\ dir'[q] = "down" /\ dir[q] = "down" /\ Quiet(q) /\ at'[q] = at[q] + 1
        /\ base'[q] = base[q] /\ Layer(q) = "mux"
        /\ \A c \in Using(q)' : ctx'[c].w = ctx[base[q]].w
    BY <1>14 DEF Hands, Descends
  <2>2. ASSUME NEW c \in Using(q)', ctx'[c].w.gz PROVE Inside0(c)'
    <3>1. base[q] \in Using(q) /\ ctx[base[q]].w.gz
      BY <1>4, <2>1, <2>2
    <3>2. PICK k \in DOMAIN Chain(q) : WrappedBy(q, base[q], k)
      BY <1>1, <2>1, <3>1 DEF Inside0
    <3>3. k < at'[q] /\ k < MuxAt /\ Chain(q)[k] = "gzip"
      BY <1>3, <2>1, <3>2 DEF Located, WrappedBy
    <3>4. WrappedBy(q, c, k)'
      BY <3>3 DEF WrappedBy
    <3>5. input[q].gzip
      BY <1>1, <3>1 DEF Inside0
    <3> QED BY <3>4, <3>5 DEF Inside0
  <2> QED BY <1>2, <1>10, <2>1, <2>2
<1>15. ASSUME Turns(q) \/ Ascends(q)
       PROVE  dir[q] \in {"down", "up"} /\ dir'[q] = "up" /\ at'[q] = at[q] - 1
  BY <1>15 DEF Turns, Ascends
<1>16. CASE Refuses(q)
  <2>1. /\ Turns(q) /\ SameUse(q) /\ dir[q] = "down" /\ gz'[q].held = << >>
    BY <1>1, <1>16 DEF Refuses, Turns, Quiet, Unheard, Unanswered
  <2>2. \A c \in Using(q)' : ctx'[c].w.gz => ctx[c].w.gz /\ Inside0(c)' /\ c \in Using(q)
    BY <1>6, <1>15, <2>1
  <2>3. Owed' /\ Kept0'
    BY <1>8, <1>15, <2>1, <2>2 DEF Owed, Kept0
  <2> QED BY <1>2, <2>2, <2>3
<1>17. CASE Answers(q)
  <2>1. Turns(q) /\ dir[q] = "down" /\ wire[q].status = 0 /\ gz[q].held = << >>
    BY <1>1, <1>17 DEF Answers, Turns, Unheard, Unanswered
  <2>2. PICK d \in Using(q), code \in Status : \E body \in {<< >>, Piece(q, code)} :
          Writes(q, d, code, body)
    BY <1>17 DEF Answers
  <2>3. /\ base'[q] = base[q] /\ inner'[q] = inner[q]
        /\ \A c \in Using(q) : ctx'[c].w = ctx[c].w
        /\ gz'[q].held = << >> \/ ctx[d].w.gz
    BY <2>1, <2>2 DEF Writes
  <2>4. \A c \in Using(q)' : ctx'[c].w.gz => ctx[c].w.gz /\ Inside0(c)' /\ c \in Using(q)
    BY <1>6, <1>15, <2>1, <2>3
  <2>5. Owed' /\ Kept0'
    BY <1>8, <1>15, <2>1, <2>3, <2>4 DEF Owed, Kept0
  <2> QED BY <1>2, <2>4, <2>5
<1>18. ASSUME Ascends(q), Layer(q) # "gzip", gz'[q].held = gz[q].held,
              crossed'[q] = crossed[q], res'[q] # Nil => res[q] # Nil
       PROVE  Unzipped(q)'
  <2>1. SameUse(q) /\ dir[q] = "up" /\ dir'[q] = "up" /\ at'[q] = at[q] - 1 /\ Located(q)
    BY <1>3, <1>18 DEF Ascends
  <2>2. \A c \in Using(q)' : ctx'[c].w.gz => ctx[c].w.gz /\ Inside0(c)' /\ c \in Using(q)
    BY <1>6, <2>1
  <2>3. Pending(q) => Pending(q)'
    BY <1>7, <1>18, <2>1
  <2>4. ~crossed'[q] => Owed' /\ Kept0'
    BY <1>1, <1>18, <2>1, <2>2, <2>3 DEF Owed, Kept0
  <2> QED BY <1>2, <2>2, <2>4
<1>19. CASE Climbs(q) \/ Logs(q) \/ Recovers(q)
  <2>1. /\ Ascends(q) /\ Layer(q) # "gzip" /\ gz'[q] = gz[q] /\ crossed'[q] = crossed[q]
        /\ res'[q] # Nil => res[q] # Nil
    BY <1>19 DEF Climbs, Logs, Recovers, Quiet, Nil, Panic
  <2> QED BY <1>18, <2>1
<1>20. CASE Unzips(q)
  <2>1. /\ SameUse(q) /\ dir[q] = "up" /\ dir'[q] = "up" /\ at'[q] = at[q] - 1
        /\ res'[q] = res[q] /\ gz'[q].held = << >>
        /\ crossed'[q] <=> crossed[q] \/ (input[q].gzip /\ res[q] # Nil)
    BY <1>20 DEF Unzips, Ascends
  <2>2. \A c \in Using(q)' : ctx'[c].w.gz => ctx[c].w.gz /\ Inside0(c)' /\ c \in Using(q)
    BY <1>6, <2>1
  <2>3. \A c \in Using(q)' : ctx'[c].w.gz => input[q].gzip
    BY <1>1, <2>2 DEF Inside0
  <2>4. ~crossed'[q] => Owed' /\ Kept0'
    BY <2>1, <2>3 DEF Owed, Kept0
  <2> QED BY <1>2, <2>2, <2>4
<1>21. CASE TimesOut(q)
  <2> DEFINE fails == expired[q] /\ res[q] # Panic
             below == \E k \in at[q] .. Len(Chain(q)) : Chain(q)[k] = "gzip"
  <2>1. /\ SameUse(q) /\ dir[q] = "up" /\ dir'[q] = "up" /\ at'[q] = at[q] - 1
        /\ inner'[q] = inner[q] /\ Layer(q) = "timeout" /\ gz'[q] = gz[q]
        /\ res'[q] = IF fails THEN 504 ELSE res[q]
        /\ crossed'[q] <=> crossed[q] \/ (fails /\ ctx[Ctx(q)].w.gz /\ below)
    BY <1>21 DEF TimesOut, Ascends
  <2>2. Located(q) /\ (Pending(q) => Pending(q)')
    BY <1>3, <1>7, <2>1
  <2>3. \A c \in Using(q)' : ctx'[c].w.gz => ctx[c].w.gz /\ Inside0(c)' /\ c \in Using(q)
    BY <1>6, <2>1
  <2>4. ASSUME ~crossed'[q] PROVE Kept0'
    BY <1>1, <2>1, <2>2, <2>4 DEF Kept0
  <2>5. ASSUME ~crossed'[q], ~fails PROVE Owed'
    BY <1>1, <2>1, <2>2, <2>3, <2>5 DEF Owed
  <2>6. ASSUME ~crossed'[q], fails, NEW c \in Using(q), ctx[c].w.gz PROVE Pending(q)'
    <3>1. PICK k \in DOMAIN Chain(q) : WrappedBy(q, c, k)
      BY <1>1, <2>1, <2>6 DEF Inside0
    <3>2. Chain(q)[k] = "gzip" /\ (inner[q] \notin {None, c} => k < MuxAt)
      BY <3>1 DEF WrappedBy
    <3>3. CASE k < at[q]
      <4>1. k \in 1 .. at'[q]
        BY <2>1, <2>2, <3>3 DEF Located
      <4> QED BY <3>2, <4>1 DEF Pending
    <3>4. CASE k >= at[q]
      <4>1. k \in at[q] .. Len(Chain(q))
        BY <2>2, <3>4 DEF Located
      <4>2. c # Ctx(q)
        BY <2>1, <2>6, <3>2, <4>1
      <4>3. c \in {base[q], inner[q]} /\ c # None
        BY DEF Using
      <4>4. at[q] < MuxAt => FALSE
        BY <1>4, <2>1, <2>2, <4>2, <4>3 DEF Located
      <4>5. at[q] >= MuxAt => FALSE
        <5>1. ASSUME at[q] >= MuxAt PROVE FALSE
          <6>1. Ctx(q) = inner[q] /\ at[q] \in Nat /\ MuxAt \in Nat /\ at[q] # MuxAt
            BY <1>4, <2>1, <2>2, <5>1 DEF Located
          <6>2. inner[q] # None
            BY <2>1, <5>1, <6>1, <1>4 DEF RequestInv, PlaceInv, Place, Inside
          <6>3. k < MuxAt
            BY <3>2, <4>2, <6>1, <6>2
          <6> QED BY <2>2, <3>4, <5>1, <6>1, <6>3 DEF Located
        <5> QED BY <5>1
      <4> QED BY <2>2, <4>4, <4>5 DEF Located
    <3> QED BY <2>2, <3>3, <3>4 DEF Located
  <2>7. ~crossed'[q] => Owed' /\ Kept0'
    BY <2>3, <2>4, <2>5, <2>6 DEF Owed
  <2> QED BY <1>2, <2>3, <2>7
<1>22. CASE Fixes(q)
  <2>1. /\ dir[q] = "up" /\ dir'[q] = "up" /\ at'[q] = at[q]
        /\ res[q] # Nil /\ res'[q] = Nil
        /\ Writes(q, inner[q], res[q], Piece(q, res[q]))
    BY <1>22 DEF Fixes
  <2>2. /\ base'[q] = base[q] /\ inner'[q] = inner[q] /\ crossed'[q] = crossed[q]
        /\ \A c \in Using(q) : ctx'[c].w = ctx[c].w
        /\ gz'[q].held = gz[q].held \/ ctx[inner[q]].w.gz
        /\ inner[q] \in Using(q)
    BY <2>1 DEF Writes
  <2>3. \A c \in Using(q)' : ctx'[c].w.gz => ctx[c].w.gz /\ Inside0(c)' /\ c \in Using(q)
    BY <1>6, <2>1, <2>2
  <2>4. Pending(q) => Pending(q)'
    BY <2>1 DEF Pending
  <2>5. ~crossed'[q] => Owed' /\ Kept0'
    BY <1>1, <2>1, <2>2, <2>4 DEF Owed, Kept0
  <2> QED BY <1>2, <2>3, <2>5
<1>23. CASE Closes(q)
  <2>1. /\ dir[q] = "up" /\ dir'[q] = "forget" /\ Layer(q) = "serve" /\ res[q] # Nil
        /\ Writes(q, base[q], res[q], Piece(q, res[q]))
    BY <1>23 DEF Closes
  <2>2. /\ base'[q] = base[q] /\ inner'[q] = inner[q] /\ crossed'[q] = crossed[q]
        /\ \A c \in Using(q) : ctx'[c].w = ctx[c].w
        /\ gz'[q].held = gz[q].held \/ ctx[base[q]].w.gz
        /\ base[q] \in Using(q)
    BY <2>1 DEF Writes
  <2>3. \A c \in Using(q)' : ctx'[c].w.gz => ctx[c].w.gz /\ Inside0(c)' /\ c \in Using(q)
    BY <1>6, <2>1, <2>2
  <2>4. ~Pending(q)
    BY <1>3, <2>1 DEF Located, Pending
  <2>5. ~crossed'[q] => Owed' /\ Kept0'
    BY <1>1, <2>1, <2>2, <2>4 DEF Owed, Kept0
  <2> QED BY <1>2, <2>3, <2>5
<1>24. CASE Leaves(q)
  <2>1. /\ (dir[q] = "up" /\ Layer(q) = "serve") \/ dir[q] = "forget"
        /\ dir'[q] \in {"forget", "release"} /\ SameUse(q)
        /\ gz'[q] = gz[q] /\ crossed'[q] = crossed[q]
    BY <1>24 DEF Leaves, Quiet
  <2>2. \A c \in Using(q)' : ctx'[c].w.gz => ctx[c].w.gz /\ Inside0(c)' /\ c \in Using(q)
    BY <1>6, <2>1
  <2>3. dir[q] = "up" => ~Pending(q)
    BY <1>3, <2>1 DEF Located, Pending
  <2>4. ~crossed'[q] => Owed' /\ Kept0'
    BY <1>1, <2>1, <2>3 DEF Owed, Kept0
  <2> QED BY <1>2, <2>2, <2>4
<1>25. CASE Ends(q)
  <2>1. /\ dir[q] = "release" /\ dir'[q] = "done" /\ Using(q)' = {}
        /\ gz'[q] = gz[q] /\ crossed'[q] = crossed[q]
    BY <1>25 DEF Ends
  <2>2. ~crossed'[q] => Owed' /\ Kept0'
    BY <1>1, <2>1 DEF Owed, Kept0
  <2> QED BY <1>2, <2>1, <2>2
<1>26. CASE Rests(q)
  <2>1. /\ dir[q] \in {"down", "up"} /\ dir'[q] = dir[q] /\ at'[q] = at[q]
        /\ res'[q] = res[q] /\ SameUse(q) /\ gz'[q] = gz[q] /\ crossed'[q] = crossed[q]
    BY <1>26 DEF Rests, Quiet
  <2>2. \A c \in Using(q)' : ctx'[c].w.gz => ctx[c].w.gz /\ Inside0(c)' /\ c \in Using(q)
    BY <1>6, <2>1
  <2>3. Pending(q)' <=> Pending(q)
    BY <2>1 DEF Pending
  <2>4. ~crossed'[q] => Owed' /\ Kept0'
    BY <1>1, <2>1, <2>2, <2>3 DEF Owed, Kept0
  <2> QED BY <1>2, <2>2, <2>4
<1> QED BY <1>9, <1>11, <1>12, <1>13, <1>14, <1>16, <1>17, <1>19, <1>20, <1>21, <1>22,
           <1>23, <1>24, <1>25, <1>26 DEF Goes

(* A step of q is nothing to the answers of the others.                    *)
LEMMA OthersQuiet ==
  ASSUME PipelineAssumption, RequestInv, NEW q \in Requests,
         Goroutine(q) \/ DeadlinePasses(q), NEW k \in Requests, k # q
  PROVE  Quiet(k)
<1>1. /\ \A c \in Using(q) : ctx[c].w.conn = q
      /\ dir[q] \in {"down", "up"} => base[q] \in Using(q)
      /\ dir[q] \in {"down", "up"} /\ Layer(q) \notin {"serve", "mux"} =>
           Ctx(q) \in Using(q)
      /\ Using(q) = {base[q], inner[q]} \ {None}
  <2>1. PlaceInv /\ CtxInv
    BY DEF RequestInv
  <2>2. \A c \in Using(q) : ctx[c].w.conn = q
    BY <2>1 DEF CtxInv, OwnContexts, OwnedBy, Using
  <2> QED BY <2>1, <2>2, LayerContext, UsingKept DEF Using
<1>2. /\ wire \in [Requests -> [status : Status \cup {0}, body : Pieces]]
      /\ gz \in [Requests -> [wrote : BOOLEAN, bypass : BOOLEAN, held : Pieces]]
      /\ log \in [Requests -> Seq(Status \cup {0})]
      /\ crossed \in [Requests -> BOOLEAN] /\ late \in [Requests -> BOOLEAN]
  BY DEF RequestInv, NetInv, TailInv
<1>3. ASSUME UNCHANGED <<log, histVars>>,
             \/ UNCHANGED netVars
             \/ \E c \in Using(q) : \E skip, code, body :
                  RespondAs(skip, c, code, body)
      PROVE  Quiet(k)
  <2>1. /\ wire' = wire \/ \E x : wire' = [wire EXCEPT ![q] = x]
        /\ gz' = gz \/ \E x : gz' = [gz EXCEPT ![q] = x]
    <3>1. ASSUME NEW c \in Using(q), NEW skip, NEW code, NEW body,
                 RespondAs(skip, c, code, body)
          PROVE  /\ \E x : wire' = [wire EXCEPT ![q] = x]
                 /\ gz' = gz \/ \E x : gz' = [gz EXCEPT ![q] = x]
      BY <1>1, <3>1 DEF RespondAs
    <3> QED BY <1>3, <3>1 DEF netVars
  <2> QED BY <1>2, <1>3, <2>1 DEF Quiet, histVars
<1>4. CASE ServeError(q)
  <2>1. /\ dir[q] = "up" /\ UNCHANGED <<log, histVars>>
        /\ UNCHANGED netVars \/ RespondAs(FALSE, base[q], res[q], Piece(q, res[q]))
    BY <1>4 DEF ServeError, Up, ErrorHandler, Respond
  <2> QED BY <1>1, <1>3, <2>1
<1>5. CASE CORS(q) \/ Handler(q)
  <2>1. /\ dir[q] = "down" /\ Layer(q) \in {"cors", "handler"} /\ UNCHANGED <<log, histVars>>
        /\ \/ UNCHANGED netVars
           \/ \E skip, code, body : RespondAs(skip, Ctx(q), code, body)
    BY <1>5 DEF CORS, Handler, Down, Respond
  <2> QED BY <1>1, <1>3, <2>1
<1>6. CASE MuxAnswers(q)
  <2> DEFINE target == input[q].target
             code == CASE target = "static" -> 200
                       [] target = "pprof" /\ IsLoopback(input[q].remote) -> 200
                       [] target = "pprof" /\ ~IsLoopback(input[q].remote) -> 403
                       [] OTHER -> 404
  <2>1. /\ dir[q] = "down" /\ UNCHANGED <<log, histVars>>
        /\ RespondAs(FALSE, base[q], code, Piece(q, code))
    BY <1>6 DEF MuxAnswers, Down, Respond
  <2> HIDE DEF code
  <2> QED BY <1>1, <1>3, <2>1
<1>7. CASE HandleError(q)
  <2>1. /\ dir[q] = "up" /\ Layer(q) = "mux" /\ UNCHANGED <<log, histVars>>
        /\ RespondAs(FALSE, inner[q], res[q], Piece(q, res[q]))
    BY <1>7 DEF HandleError, Up, ErrorHandler, Respond
  <2>2. inner[q] \in Using(q)
    BY <2>1, HandleHasContext DEF RequestInv
  <2> QED BY <1>3, <2>1, <2>2
<1>8. CASE GZipReturns(q) \/ TimeoutReturns(q) \/ RequestLogReturns(q) \/ Release(q)
  BY <1>2, <1>8 DEF GZipReturns, TimeoutReturns, RequestLogReturns, Release, Quiet,
                    netVars, histVars
<1> QED BY <1>3, <1>4, <1>5, <1>6, <1>7, <1>8
        DEF Goroutine, ServeHTTP, Forget, Recover, RequestLog, RequestID, Timeout,
            Auth, BasicAuth, Authorize, GZip, Handle, PassUp, HandleReturns,
            RecoverReturns, DeadlinePasses

(* What does not change for q does not change its answer.                  *)
LEMMA Untouched ==
  ASSUME PipelineAssumption, RequestInv, NEW q \in Requests, Answered(q), Quiet(q),
         input' = input, Chain(q)' = Chain(q), MuxAt' = MuxAt,
         dir'[q] = dir[q], at'[q] = at[q], res'[q] = res[q],
         base'[q] = base[q], inner'[q] = inner[q], Using(q)' = Using(q),
         \A c \in Using(q) : ctx'[c] = ctx[c]
  PROVE  Answered(q)'
<1>1. /\ wire'[q] = wire[q] /\ gz'[q] = gz[q] /\ log'[q] = log[q]
      /\ crossed'[q] = crossed[q] /\ late'[q] = late[q]
      /\ dir[q] \in {"down", "up"} => base[q] \in Using(q)
  BY UsingKept DEF Quiet
<1>2. /\ AnswersTwice(q)' <=> AnswersTwice(q)
      /\ Logging(q)' <=> Logging(q)
      /\ Pending(q)' <=> Pending(q)
      /\ \A c, k : WrappedBy(q, c, k)' <=> WrappedBy(q, c, k)
  BY <1>1 DEF AnswersTwice, Logging, Pending, WrappedBy
<1>3. Unheard(q) /\ Logged(q) /\ AnsweredOnce(q) /\ Unzipped(q)
  BY DEF Answered
<1>4. Unheard(q)'
  BY <1>1, <1>2, <1>3 DEF Unheard, Unanswered
<1>5. Logged(q)'
  <2>1. Logging(q) => ctx'[base[q]] = ctx[base[q]]
    BY <1>1 DEF Logging
  <2> QED BY <1>1, <1>2, <1>3, <2>1 DEF Logged
<1>6. AnsweredOnce(q)'
  BY <1>1, <1>2, <1>3 DEF AnsweredOnce
<1>7. Unzipped(q)'
  BY <1>1, <1>2, <1>3 DEF Unzipped
<1> QED BY <1>4, <1>5, <1>6, <1>7 DEF Answered

LEMMA NothingYet ==
  ASSUME NEW q \in Requests, dir[q] = "new", Unanswered(q), log[q] = << >>,
         Using(q) = {}
  PROVE  Answered(q)
BY DEF Answered, Unheard, Logged, Logging, AnsweredOnce, Unzipped, Unanswered

LEMMA AnswerInit == ASSUME PipelineAssumption, Init PROVE AnswerInv
<1>1. stack = NewApp /\ LoggedOnce(stack)
  BY NewAppLogs DEF Init
<1>2. ASSUME NEW q \in Requests PROVE Answered(q)
  <2>1. /\ dir[q] = "new" /\ log[q] = << >> /\ Unanswered(q) /\ Using(q) = {}
    BY DEF Init, Unanswered, Using
  <2> QED BY <2>1, NothingYet
<1> QED BY <1>1, <1>2 DEF AnswerInv

LEMMA AnswerStep ==
  ASSUME PipelineAssumption, RequestInv, AnswerInv, NEW q \in Requests,
         Goroutine(q) \/ DeadlinePasses(q)
  PROVE  AnswerInv'
<1>1. /\ stack' = stack /\ input' = input /\ MuxAt' = MuxAt /\ Others(q)
      /\ \A k \in Requests : Chain(k)' = Chain(k)
  <2>1. UNCHANGED <<config, input>> /\ Others(q)
    BY GoroutineStep
  <2> QED BY <2>1 DEF config, MuxAt, Chain
<1>2. LoggedOnce(stack) /\ \A k \in Requests : Answered(k)
  BY DEF AnswerInv
<1>3. Answered(q)'
  <2>1. Goes(q)
    BY Journey
  <2> QED BY <1>1, <1>2, <2>1, UnheardStep, LoggedStep, OnceStep, ZippedStep DEF Answered
<1>4. ASSUME NEW k \in Requests, k # q PROVE Answered(k)'
  <2>1. /\ Quiet(k) /\ Using(k)' = Using(k) /\ \A c \in Using(k) : ctx'[c] = ctx[c]
    BY <1>4, OthersQuiet, OthersContexts
  <2>2. /\ dir'[k] = dir[k] /\ at'[k] = at[k] /\ res'[k] = res[k]
        /\ base'[k] = base[k] /\ inner'[k] = inner[k]
    BY <1>1, <1>4 DEF Others
  <2> QED BY <1>1, <1>2, <2>1, <2>2, Untouched
<1> QED BY <1>1, <1>2, <1>3, <1>4 DEF AnswerInv, LoggedOnce

LEMMA AnswerSetup ==
  ASSUME PipelineAssumption, RequestInv, AnswerInv, Setup
  PROVE  AnswerInv'
<1>1. /\ ConfigInv /\ UNCHANGED <<pcVars, ctxVars, ctx, netVars, log>>
      /\ UNCHANGED <<scenario, expired, histVars>> /\ \A q \in Requests : dir[q] = "new"
      /\ made' = made + 1 /\ made \in Nat /\ made + 1 \in DOMAIN Conf.script
      /\ stack' = Register(stack, Conf.script[made + 1])
  BY SetupConfig DEF RequestInv, PlaceInv
<1>2. LoggedOnce(stack)'
  <2>1. WellFormed(Conf.script) /\ Chains(stack)
    BY <1>1, ConfTyped DEF ConfigInv
  <2>2. LoggedOnce(Register(stack, Conf.script[made + 1]))
    BY <1>1, <2>1, RegisterLogs DEF AnswerInv
  <2> QED BY <1>1, <2>2 DEF LoggedOnce
<1>3. ASSUME NEW q \in Requests PROVE Answered(q)'
  <2>1. /\ dir[q] = "new" /\ base[q] = None /\ inner[q] = None
    BY <1>1 DEF RequestInv, PlaceInv, Place, Serving, Inside
  <2>2. Unanswered(q) /\ log[q] = << >>
    BY <2>1 DEF AnswerInv, Answered, Unheard, Logged
  <2>3. /\ dir'[q] = "new" /\ log'[q] = << >> /\ Using(q)' = {} /\ Unanswered(q)'
    BY <1>1, <2>1, <2>2 DEF pcVars, ctxVars, netVars, Using, Unanswered
  <2> QED BY <2>3 DEF Answered, Unheard, Logged, Logging, AnsweredOnce, Unzipped, Unanswered
<1> QED BY <1>2, <1>3 DEF AnswerInv

THEOREM AnswerInvariant == Spec => [](RequestInv /\ AnswerInv)
<1>1. Init => RequestInv /\ AnswerInv
  BY PipelineAssumption, RequestInit, AnswerInit
<1>2. ASSUME RequestInv, AnswerInv, [Next]_vars PROVE RequestInv' /\ AnswerInv'
  <2>1. CASE Setup
    BY <1>2, <2>1, PipelineAssumption, SetupStep, AnswerSetup
  <2>2. CASE \E q \in Requests : Goroutine(q) \/ DeadlinePasses(q)
    BY <1>2, <2>2, PipelineAssumption, GoroutineStep, AnswerStep
  <2>3. CASE UNCHANGED vars
    <3>1. /\ UNCHANGED <<stack, input, dir, at, res, base, inner, ctx, wire, gz, log>>
          /\ UNCHANGED <<crossed, late>>
      BY <2>3 DEF vars, config, pcVars, ctxVars, netVars, histVars
    <3>2. ASSUME NEW q \in Requests PROVE Answered(q)'
      <4>1. /\ Quiet(q) /\ Chain(q)' = Chain(q) /\ MuxAt' = MuxAt /\ Using(q)' = Using(q)
        BY <3>1 DEF Quiet, Chain, MuxAt, Using
      <4> QED BY <1>2, <3>1, <4>1, PipelineAssumption, Untouched DEF AnswerInv
    <3>3. LoggedOnce(stack)'
      BY <1>2, <3>1 DEF AnswerInv, LoggedOnce
    <3> QED BY <1>2, <2>3, <3>2, <3>3, StutterStep DEF AnswerInv
  <2> QED BY <1>2, <2>1, <2>2, <2>3 DEF Next, Terminating
<1> QED BY <1>1, <1>2, PTL DEF Spec

(* A request is answered once, with a body that agrees with its status,    *)
(* unless its handler or Timeout answers it again; and nothing of the      *)
(* answer stays in the gzip.Writer unless an error crosses GZip            *)
(* (sugaar.go:231, middleware.go:181).                                     *)
THEOREM AnswersAreSingle == Spec => []OneAnswer
<1>1. AnswerInv => OneAnswer
  BY DEF AnswerInv, Answered, AnsweredOnce, Unzipped, OneAnswer
<1> QED BY <1>1, AnswerInvariant, PTL

(* A request leaves one line in the access log, unless it panics, and the  *)
(* line has the status that the client got when the answer was there by    *)
(* then, the only one and not written through GZip (sugaar.go:243).        *)
THEOREM LinesAreTrue == Spec => []AccessLog
<1>1. AnswerInv => AccessLog
  BY DEF AnswerInv, Answered, Logged, Logging, AccessLog
<1> QED BY <1>1, AnswerInvariant, PTL
-----------------------------------------------------------------------------
(* Answers without company: what a request is told does not depend on the  *)
(* others, or on when its goroutine ran.                                   *)

(* The Context of the frame that runs, also before Handle has taken its    *)
(* own.                                                                    *)
Frame(q) == IF inner[q] = None THEN base[q] ELSE inner[q]

Met(q, layer) == \E j \in 1 .. at[q] - 1 : Chain(q)[j] = layer

(* An authenticator has put an Identity on the frame's Context.            *)
Known(q) ==
  \E j \in 1 .. at[q] - 1 :
    /\ Chain(q)[j] \in {"auth", "pprofauth"}
    /\ at[q] > MuxAt /\ "timeout" \in ToSet(stack.app) => j > MuxAt

(* On the way down no layer has had a reason to refuse the request, and    *)
(* the Context has exactly what the layers above have put there.           *)
OnItsWay(q) ==
  /\ \A j \in 1 .. at[q] - 1 : GuardSays(q, j) = Nil
  /\ ctx[Frame(q)].app
  /\ ctx[Frame(q)].w.gz <=> input[q].gzip /\ Met(q, "gzip")
  /\ ctx[Frame(q)].identity # None <=> Known(q)
  /\ at[q] <= MuxAt => (ctx[Frame(q)].r.derived <=> Met(q, "timeout"))

(* What the client gets if nothing more goes wrong: what was sent, or what *)
(* will be for the result that is on its way up.                           *)
Answer(q) ==
  IF wire[q].status # 0 THEN wire[q].status
  ELSE IF res[q] = Nil THEN 200
  ELSE IF res[q] = Panic THEN 500
  ELSE res[q]

(* From where a layer turns the request back, what the client will get is  *)
(* what its chain had in store for it.                                     *)
Alone(q) ==
  /\ dir[q] = "down" => OnItsWay(q)
  /\ dir[q] \in {"up", "forget", "release", "done"} /\ ~expired[q]
       /\ ~StreamsZipped(q) => Answer(q) = Verdict(q)
  /\ dir[q] \in {"forget", "release"} /\ wire[q].status = 0 => res[q] = Nil
  /\ dir[q] = "done" => wire[q].status # 0

(* pprof runs behind PprofAuth alone, and nothing else does.               *)
PprofApart(a) ==
  \A route \in DOMAIN a.routes :
    IF route = "pprof" THEN a.routes[route] = <<"pprofauth">>
    ELSE a.routes[route] \in Seq(Middleware)

AloneInv == PprofApart(stack) /\ \A q \in Requests : Alone(q)

LEMMA NewAppApart == PprofApart(NewApp)
BY DEF PprofApart, NewApp

LEMMA RegisterApart ==
  ASSUME NEW script, WellFormed(script), NEW n \in Nat, n + 1 \in DOMAIN script,
         NEW a, Chains(a), Guarding(a, script, n), PprofApart(a)
  PROVE  PprofApart(Register(a, script[n + 1]))
<1> DEFINE call == script[n + 1]
           b == Register(a, call)
<1> SUFFICES PprofApart(b)
  OBVIOUS
<1>1. a = [app |-> a.app, groups |-> a.groups, routes |-> a.routes]
      /\ a.groups \in [DOMAIN a.groups -> Seq(Middleware)]
  BY DEF Chains
<1>2. CASE call.op = "pprof"
  <2>1. b.routes = Put(a.routes, "pprof", <<"pprofauth">>) \/ b.routes = a.routes
    BY <1>1, <1>2 DEF Register, MountPprof
  <2> HIDE DEF b
  <2> QED BY <2>1 DEF PprofApart, Put
<1>3. CASE call.op \in {"use", "group", "groupuse"}
  <2>1. b.routes = a.routes
    BY <1>1, <1>3 DEF Register, Use, MakeGroup, GroupUse
  <2> QED BY <2>1 DEF PprofApart
<1>4. CASE call.op = "handle"
  <2>1. b.routes = Put(a.routes, call.route, a.groups[call.group])
    BY <1>1, <1>4 DEF Register, HandleRoute
  <2>2. call.group \in DOMAIN a.groups
    <3>1. call.group = TopLevel \/ Made(script, n + 1, call.group)
      BY <1>4 DEF WellFormed, Calls
    <3>2. ASSUME NEW g \in Calls(script, "group"), g < n + 1 PROVE g <= n
      BY <3>2, LenProperties DEF WellFormed, Calls
    <3> QED BY <3>1, <3>2 DEF Made, Guarding
  <2>3. call.route # "pprof"
    BY <1>4 DEF WellFormed, Calls
  <2>4. a.groups[call.group] \in Seq(Middleware)
    BY <1>1, <2>2
  <2> HIDE DEF b, call
  <2> QED BY <2>1, <2>3, <2>4 DEF PprofApart, Put
<1> QED BY <1>2, <1>3, <1>4, CallKinds

(* Nothing that asks for roles is behind PprofAuth.                        *)
LEMMA NoPprofAbove ==
  ASSUME ConfigInv, PprofApart(stack), NEW q \in Requests,
         NEW k \in 1 .. Len(Chain(q)), Chain(q)[k] = "authorize",
         NEW j \in 1 .. k - 1
  PROVE  Chain(q)[j] # "pprofauth"
<1> DEFINE n == Len(Chain(q))
           route == input[q].target
           r == stack.routes[route]
           p == Len(r)
<1>1. /\ MuxAt \in Nat /\ MuxAt > 1 /\ n \in Nat
      /\ \A i \in 1 .. MuxAt - 1 : Chain(q)[i] = stack.app[i]
      /\ MuxAt = Len(stack.app) + 1 /\ Len(stack.app) \in Nat
      /\ stack.app \in Seq(Middleware \cup {"recover", "log"})
      /\ Chain(q)[MuxAt] = "mux"
      /\ route \notin DOMAIN stack.routes => n = MuxAt
      /\ k \in 1 .. n /\ j \in 1 .. k - 1
  BY ChainParts, LenProperties DEF ConfigInv, Chains, MuxAt
<1>2. \A i \in 1 .. MuxAt - 1 : Chain(q)[i] # "pprofauth"
  <2>1. \A i \in 1 .. Len(stack.app) : stack.app[i] \in Middleware \cup {"recover", "log"}
    BY <1>1, ElementOfSeq
  <2> QED BY <1>1, <2>1 DEF Middleware
<1>3. CASE j < MuxAt
  <2> HIDE DEF n
  <2>1. j \in 1 .. MuxAt - 1
    BY <1>1, <1>3
  <2> QED BY <1>2, <2>1
<1>4. CASE j = MuxAt
  BY <1>1, <1>4
<1>5. CASE j > MuxAt
  <2>1. route \in DOMAIN stack.routes
    <3> HIDE DEF n
    <3> QED BY <1>1, <1>5
  <2>2. /\ p \in Nat /\ r \in Seq(RouteLayers) /\ n = MuxAt + p + 1
        /\ \A i \in 1 .. p : Chain(q)[MuxAt + i] = r[i]
        /\ Chain(q)[n] = "handler"
    BY <2>1, ChainParts
  <2>3. k # n
    BY <2>2
  <2>4. /\ j - MuxAt \in 1 .. p /\ MuxAt + (j - MuxAt) = j
        /\ k - MuxAt \in 1 .. p /\ MuxAt + (k - MuxAt) = k
        /\ k - MuxAt # 1
    <3> DEFINE m == MuxAt
    <3>1. /\ k \in 1 .. n /\ j \in 1 .. k - 1 /\ m \in Nat /\ p \in Nat /\ n = m + p + 1
          /\ k # n /\ j > m
      BY <1>1, <1>5, <2>2, <2>3
    <3> HIDE DEF n, p, m
    <3>2. /\ j - m \in 1 .. p /\ m + (j - m) = j
          /\ k - m \in 1 .. p /\ m + (k - m) = k /\ k - m # 1
      BY <3>1
    <3> QED BY <3>2 DEF m
  <2>5. Chain(q)[j] = r[j - MuxAt]
    BY <2>2, <2>4
  <2>6. CASE route = "pprof"
    <3>1. r = <<"pprofauth">>
      BY <2>1, <2>6 DEF PprofApart
    <3>2. p = 1
      <4> HIDE DEF r
      <4> QED BY <3>1
    <3> HIDE DEF p, r
    <3> QED BY <2>4, <3>2
  <2>7. CASE route # "pprof"
    <3>1. r \in Seq(Middleware)
      BY <2>1, <2>7 DEF PprofApart
    <3>2. r[j - MuxAt] \in Middleware
      <4> HIDE DEF r
      <4> QED BY <2>4, <3>1, ElementOfSeq
    <3> QED BY <2>5, <3>2 DEF Middleware
  <2> QED BY <2>6, <2>7
<1> QED BY <1>1, <1>3, <1>4, <1>5

(* What a chain has in store does not change while a request is served.    *)
LEMMA StoreKept ==
  ASSUME NEW q \in Requests, UNCHANGED <<scenario, stack, input>>
  PROVE  /\ \A k : GuardSays(q, k)' = GuardSays(q, k)
         /\ Verdict(q)' = Verdict(q)
         /\ StreamsZipped(q)' <=> StreamsZipped(q)
<1>1. /\ Chain(q)' = Chain(q) /\ MuxAt' = MuxAt /\ Conf' = Conf
      /\ UNCHANGED <<stack, input>>
  BY DEF Chain, MuxAt, Conf
<1>2. \A k : GuardSays(q, k)' = GuardSays(q, k)
  <2> HIDE DEF Chain, MuxAt, Conf
  <2> QED BY <1>1 DEF GuardSays
<1>3. EndSays(q)' = EndSays(q)
  <2> HIDE DEF Chain, Conf
  <2> QED BY <1>1 DEF EndSays
<1> DEFINE refusing == {k \in DOMAIN Chain(q) : GuardSays(q, k) # Nil}
<1>4. refusing' = refusing
  <2> HIDE DEF GuardSays
  <2> QED BY <1>1, <1>2
<1>5. Min(refusing)' = Min(refusing)
  <2> HIDE DEF refusing
  <2> QED BY <1>4
<1>6. GuardSays(q, Min(refusing))' = GuardSays(q, Min(refusing))
  <2> HIDE DEF refusing, GuardSays
  <2> QED BY <1>2, <1>5
<1>7. StreamsZipped(q)' <=> StreamsZipped(q)
  <2> HIDE DEF Chain, Conf
  <2> QED BY <1>1 DEF StreamsZipped
<1> QED BY <1>2, <1>3, <1>4, <1>6, <1>7 DEF Verdict

(* The first layer that refuses gives the verdict, ...                     *)
LEMMA VerdictOfLayer ==
  ASSUME ConfigInv, NEW q \in Requests, NEW k \in 1 .. Len(Chain(q)),
         \A j \in 1 .. k - 1 : GuardSays(q, j) = Nil, GuardSays(q, k) # Nil
  PROVE  Verdict(q) = GuardSays(q, k)
<1> DEFINE n == Len(Chain(q))
           refusing == {i \in DOMAIN Chain(q) : GuardSays(q, i) # Nil}
           first == Min(refusing)
<1>1. DOMAIN Chain(q) = 1 .. n /\ n \in Nat
  BY ChainParts
<1>2. refusing \in SUBSET Nat /\ k \in refusing /\ \A i \in refusing : i \in 1 .. n
  BY <1>1
<1>3. first \in refusing /\ first <= k
  <2> HIDE DEF refusing
  <2> QED BY <1>2, MinOfNaturals
<1>4. first \in 1 .. n /\ GuardSays(q, first) # Nil
  BY <1>2, <1>3
<1> HIDE DEF first, n
<1>5. first = k
  <2>1. first \notin 1 .. k - 1
    BY <1>4
  <2>2. first \in Nat /\ first >= 1 /\ k \in Nat
    BY <1>1, <1>2, <1>4 DEF n
  <2> QED BY <1>3, <2>1, <2>2
<1>6. Verdict(q) = GuardSays(q, first)
  BY <1>2 DEF Verdict, first
<1> QED BY <1>5, <1>6

(* ... or the end of the chain.                                            *)
LEMMA VerdictOfEnd ==
  ASSUME ConfigInv, NEW q \in Requests,
         \A j \in 1 .. Len(Chain(q)) : GuardSays(q, j) = Nil
  PROVE  Verdict(q) = EndSays(q)
<1>1. DOMAIN Chain(q) = 1 .. Len(Chain(q))
  BY ChainParts
<1> QED BY <1>1 DEF Verdict

(* The Context of the frame that runs on the way down.                     *)
LEMMA FrameContext ==
  ASSUME PipelineAssumption, RequestInv, LoggedOnce(stack), NEW q \in Requests,
         dir[q] = "down"
  PROVE  /\ Frame(q) \in Using(q) /\ Frame(q) \in Contexts /\ Frame(q) # None
         /\ ctx[Frame(q)] \in Context /\ base[q] \in Using(q) /\ base[q] \in Contexts
         /\ Layer(q) # "mux" => Ctx(q) = Frame(q)
         /\ Layer(q) = "mux" => Frame(q) = base[q] /\ inner[q] = None
         /\ at[q] \in 1 .. Len(Chain(q)) /\ Layer(q) = Chain(q)[at[q]]
         /\ Layer(q) # "serve"
<1>1. Place(q) /\ Located(q) /\ None \notin Contexts /\ ctx \in [Contexts -> Context]
  BY Locating DEF RequestInv, PlaceInv, PipelineAssumption, CtxInv
<1>2. base[q] \in Contexts /\ at[q] \in 1 .. Len(Chain(q)) /\ at[q] # 0
  BY <1>1 DEF Place, Serving, Located
<1>3. CASE at[q] > MuxAt
  <2>1. inner[q] \in Contexts /\ at[q] >= MuxAt /\ at[q] # MuxAt
    BY <1>1, <1>3 DEF Place, Inside, Located
  <2>2. Frame(q) = inner[q] /\ Ctx(q) = inner[q] /\ Layer(q) # "mux"
    BY <1>1, <2>1 DEF Frame, Ctx, Located
  <2> QED BY <1>1, <1>2, <2>1, <2>2 DEF Using, Located
<1>4. CASE ~(at[q] > MuxAt)
  <2>1. inner[q] = None
    BY <1>1, <1>4 DEF Place, Inside
  <2>2. Frame(q) = base[q]
    BY <2>1 DEF Frame
  <2>3. Layer(q) # "mux" => Ctx(q) = base[q]
    BY <1>1, <1>4 DEF Ctx, Located
  <2> QED BY <1>1, <1>2, <2>1, <2>2, <2>3 DEF Using, Located
<1> QED BY <1>3, <1>4

(* When a layer lets the request pass, the frame's Context changes by what *)
(* the layer is there for.  Handle's has an Identity if ServeHTTP's has    *)
(* one that the pointer of the request leads to.                           *)
Carries(q) ==
  /\ dir[q] = "down" /\ dir'[q] = "down" /\ at'[q] = at[q] + 1
  /\ GuardSays(q, at[q]) = Nil
  /\ LET x == ctx[Frame(q)]
         y == ctx'[Frame(q)']
         layer == Layer(q)
     IN  /\ y.app
         /\ y.w.gz <=> x.w.gz \/ (layer = "gzip" /\ input[q].gzip)
         /\ layer # "mux" =>
              /\ y.identity # None <=>
                   x.identity # None \/ layer \in {"auth", "pprofauth"}
              /\ y.r.derived <=> x.r.derived \/ layer = "timeout"
         /\ layer = "mux" => (y.identity # None <=> x.identity # None /\ ~x.r.derived)

(* When it turns the request back, its client will get what the layer, or  *)
(* the end of the chain, has in store.                                     *)
Decides(q) ==
  /\ dir[q] = "down" /\ dir'[q] = "up"
  /\ \/ GuardSays(q, at[q]) # Nil /\ Answer(q)' = GuardSays(q, at[q])
     \/ /\ at[q] = Len(Chain(q)) /\ GuardSays(q, at[q]) = Nil
        /\ ~StreamsZipped(q) => Answer(q)' = EndSays(q)

(* Authorize finds the Identity that its chain has for it.                 *)
LEMMA AuthorizeSays ==
  ASSUME PipelineAssumption, RequestInv, GuardInv, LoggedOnce(stack), PprofApart(stack),
         NEW q \in Requests, dir[q] = "down", Layer(q) = "authorize", OnItsWay(q)
  PROVE  (IF ctx[Ctx(q)].identity = None THEN 401
          ELSE RoleCheck(Conf.roles, ctx[Ctx(q)].identity.id)) = GuardSays(q, at[q])
<1> DEFINE x == ctx[Frame(q)]
           cred == Cred(q)
           sees == \E j \in 1 .. at[q] - 1 :
                     /\ Chain(q)[j] = "auth"
                     /\ at[q] > MuxAt /\ "timeout" \in ToSet(stack.app) => j > MuxAt
<1>1. /\ Ctx(q) = Frame(q) /\ Frame(q) \in Using(q) /\ ConfigInv
      /\ at[q] \in 1 .. Len(Chain(q)) /\ Chain(q)[at[q]] = "authorize"
  BY FrameContext DEF RequestInv, PlaceInv
<1>2. \A j \in 1 .. at[q] - 1 : Chain(q)[j] # "pprofauth"
  BY <1>1, NoPprofAbove
<1>3. x.identity # None <=> sees
  BY <1>2 DEF OnItsWay, Known
<1>4. GuardSays(q, at[q]) =
        IF ~sees \/ Conf.auth.of = << >> THEN 401
        ELSE IF HasRoles(Conf.roles, Authenticate(Conf.auth, cred)) THEN Nil ELSE 403
  BY <1>1 DEF GuardSays, Cred
<1>5. /\ Conf.auth \in Configured(Status \cup {Nil}) /\ cred \in Presented
      /\ Conf.roles \in [all : BOOLEAN, roles : SUBSET STRING]
  BY <1>1, ConfTyped DEF ConfigInv, Input, PipelineAssumption, Cred
<1> HIDE DEF sees, cred
<1>6. CASE x.identity = None
  BY <1>1, <1>3, <1>4, <1>6
<1>7. CASE x.identity # None
  <2> DEFINE id == x.identity.id
  <2>1. id \in Identity /\ Vouches(q, id)
    <3>1. Guarded(q)
      BY DEF GuardInv
    <3>2. Vouched(q, ctx[Frame(q)])
      BY <1>1, <3>1 DEF Guarded
    <3> QED BY <1>7, <3>2 DEF Vouched
  <2>2. id = Authenticate(Conf.auth, cred)
    BY <1>2, <2>1 DEF Vouches, cred
  <2>3. id # Refused
    <3>1. ASSUME NEW i \in Identity PROVE i.kind \in {"identity", "nil"}
      <4>1. i = NilIdentity \/ i.kind = "identity"
        BY DEF Identity
      <4>2. NilIdentity.kind = "nil"
        BY DEF NilIdentity
      <4> QED BY <4>1, <4>2
    <3>2. Refused.kind = "refused"
      BY DEF Refused
    <3> HIDE DEF id
    <3> QED BY <2>1, <3>1, <3>2
  <2> HIDE DEF id
  <2>4. id = NilIdentity <=> Conf.auth.of = << >>
    BY <1>5, <2>2, <2>3, AuthenticateSound, AccessAssumption
  <2>5. RoleCheck(Conf.roles, id) = IF id = NilIdentity THEN 401
                                    ELSE IF HasRoles(Conf.roles, id) THEN Nil ELSE 403
    BY <1>5, <2>1, RoleCheckSound
  <2> QED BY <1>1, <1>3, <1>4, <1>7, <2>2, <2>4, <2>5 DEF id
<1> QED BY <1>6, <1>7

(* What a step does to a request on its way down.                          *)
LEMMA Bearing ==
  ASSUME PipelineAssumption, RequestInv, GuardInv, AnswerInv, PprofApart(stack),
         NEW q \in Requests, dir[q] = "down", OnItsWay(q),
         Goroutine(q) \/ DeadlinePasses(q)
  PROVE  \/ Carries(q) \/ Decides(q)
         \/ UNCHANGED <<dir, at, base, inner, ctx>>
<1> DEFINE c == Frame(q)
           x == ctx[c]
           n == Len(Chain(q))
<1>1. /\ PlaceInv /\ CtxInv /\ ConfigInv /\ LoggedOnce(stack)
      /\ dir \in [Requests -> {"new", "down", "up", "forget", "release", "done"}]
      /\ at \in [Requests -> Nat] /\ res \in [Requests -> Status \cup {Nil, Panic}]
      /\ inner \in [Requests -> Contexts \cup {None}]
      /\ ctx \in [Contexts -> Context] /\ pool \subseteq Contexts /\ None \notin Contexts
      /\ input[q] \in Input /\ wire[q].status = 0 /\ q # None
  <2>1. input[q] \in Input
    BY ConfTyped DEF RequestInv, PlaceInv, ConfigInv
  <2>2. wire[q].status = 0 /\ LoggedOnce(stack)
    BY DEF AnswerInv, Answered, Unheard, Unanswered
  <2>3. PlaceInv /\ CtxInv /\ ConfigInv /\ None \notin Contexts /\ q # None
    BY DEF RequestInv, PlaceInv, PipelineAssumption
  <2> QED BY <2>1, <2>2, <2>3 DEF PlaceInv, ConfigInv, CtxInv
<1>2. /\ c \in Using(q) /\ c \in Contexts /\ x \in Context /\ Layer(q) # "serve"
      /\ Layer(q) # "mux" => Ctx(q) = c
      /\ at[q] \in 1 .. n /\ Layer(q) = Chain(q)[at[q]]
  BY <1>1, FrameContext
<1>3. /\ Layer(q) \notin {"cors", "auth", "pprofauth", "basicauth", "authorize"} =>
           GuardSays(q, at[q]) = Nil
      /\ Layer(q) = "cors" => GuardSays(q, at[q]) =
           IF input[q].method = "OPTIONS" THEN 204 ELSE Nil
      /\ Layer(q) = "basicauth" => GuardSays(q, at[q]) =
           IF Verify(Cred(q)["basic"]) = Refused THEN 401 ELSE Nil
      /\ Layer(q) = "auth" => GuardSays(q, at[q]) =
           IF Satisfies(Conf.auth, Cred(q)) THEN Nil
           ELSE IF Conf.auth.fail = Nil THEN 200 ELSE Conf.auth.fail
      /\ Layer(q) = "pprofauth" => GuardSays(q, at[q]) =
           IF Satisfies(Conf.pprof, Cred(q)) THEN Nil ELSE 401
  <2> DEFINE layer == Chain(q)[at[q]]
  <2>1. Layer(q) = layer
    BY <1>2
  <2> HIDE DEF layer
  <2>2. layer \notin {"cors", "auth", "pprofauth", "basicauth", "authorize"} =>
          GuardSays(q, at[q]) = Nil
    BY DEF GuardSays, layer
  <2>3. layer = "cors" => GuardSays(q, at[q]) =
          IF input[q].method = "OPTIONS" THEN 204 ELSE Nil
    BY DEF GuardSays, layer
  <2>4. layer = "basicauth" => GuardSays(q, at[q]) =
          IF Verify(Cred(q)["basic"]) = Refused THEN 401 ELSE Nil
    BY DEF GuardSays, layer, Cred
  <2>5. layer = "auth" => GuardSays(q, at[q]) =
          IF Satisfies(Conf.auth, Cred(q)) THEN Nil
          ELSE IF Conf.auth.fail = Nil THEN 200 ELSE Conf.auth.fail
    BY DEF GuardSays, layer, Cred
  <2>6. layer = "pprofauth" => GuardSays(q, at[q]) =
          IF Satisfies(Conf.pprof, Cred(q)) THEN Nil ELSE 401
    BY DEF GuardSays, layer, Cred
  <2> QED BY <2>1, <2>2, <2>3, <2>4, <2>5, <2>6
<1>4. x.app /\ x.app \in BOOLEAN /\ x.w.gz \in BOOLEAN /\ x.r.derived \in BOOLEAN
      /\ input[q].gzip \in BOOLEAN
  BY <1>1, <1>2 DEF OnItsWay, Context, Input
<1> HIDE DEF c, x, n
<1>5. ASSUME Call(q) PROVE at'[q] = at[q] + 1 /\ dir'[q] = "down"
  BY <1>1, <1>5 DEF Call
<1>6. ASSUME Call(q), UNCHANGED ctxVars, Layer(q) # "mux",
             GuardSays(q, at[q]) = Nil, ctx'[c].app,
             ctx'[c].w.gz <=> x.w.gz \/ (Layer(q) = "gzip" /\ input[q].gzip),
             ctx'[c].identity # None <=>
               x.identity # None \/ Layer(q) \in {"auth", "pprofauth"},
             ctx'[c].r.derived <=> x.r.derived \/ Layer(q) = "timeout"
      PROVE  Carries(q)
  <2>1. Frame(q)' = c
    BY <1>6 DEF ctxVars, Frame, c
  <2> QED BY <1>5, <1>6, <2>1 DEF Carries, x, c
<1>7. ASSUME NEW r \in Status \cup {Nil}, Return(q, r), UNCHANGED netVars,
             GuardSays(q, at[q]) = IF r = Nil THEN 200 ELSE r
      PROVE  Decides(q)
  <2>1. dir'[q] = "up" /\ res'[q] = r /\ wire'[q].status = 0
    BY <1>1, <1>7 DEF Return, netVars
  <2>2. r # Panic /\ GuardSays(q, at[q]) # Nil
    BY <1>7 DEF Status, Nil, Panic
  <2> QED BY <1>7, <2>1, <2>2 DEF Decides, Answer
<1>8. ASSUME UNCHANGED <<ctxVars, log, histVars>>, NEW d \in Using(q),
             NEW skip \in BOOLEAN, NEW code \in Status,
             NEW body \in {<< >>, Piece(q, code)}, RespondAs(skip, d, code, body)
      PROVE  wire'[q].status = code /\ code # 0
  <2>1. UNCHANGED <<base, inner, log, crossed, late>>
    BY <1>8 DEF ctxVars, histVars
  <2>2. Writes(q, d, code, body)
    BY <1>8, <2>1, Writing
  <2> QED BY <1>1, <2>2 DEF Writes, Status
<1>9. ASSUME NEW r, Return(q, r) PROVE dir'[q] = "up" /\ res'[q] = r
  BY <1>1, <1>9 DEF Return
<1>10. CASE Recover(q)
  <2>1. Layer(q) = "recover" /\ Call(q) /\ UNCHANGED ctxVars /\ ctx' = ctx
    BY <1>10 DEF Recover, Down
  <2> QED BY <1>3, <1>4, <1>6, <2>1 DEF x
<1>11. CASE RequestLog(q) \/ RequestID(q) \/ Timeout(q) \/ GZip(q)
  <2>1. /\ Layer(q) \in {"log", "requestid", "timeout", "gzip"}
        /\ Call(q) /\ UNCHANGED ctxVars
    BY <1>11 DEF RequestLog, RequestID, Timeout, GZip, Down
  <2>2. Ctx(q) = c
    BY <1>2, <2>1
  <2>3. \/ Layer(q) = "log" /\ ctx' = [ctx EXCEPT ![c].w.sw = c, ![c].status = 0]
        \/ Layer(q) = "requestid" /\ ctx' = [ctx EXCEPT ![c].reqID = q]
        \/ Layer(q) = "timeout" /\ ctx' = [ctx EXCEPT ![c].r.derived = TRUE]
        \/ Layer(q) = "gzip" /\ input[q].gzip /\ ctx' = [ctx EXCEPT ![c].w.gz = TRUE]
        \/ Layer(q) = "gzip" /\ ~input[q].gzip /\ ctx' = ctx
    BY <1>11, <2>2 DEF RequestLog, RequestID, Timeout, GZip, Down
  <2>4. /\ ctx'[c].app = x.app /\ ctx'[c].identity = x.identity
        /\ ctx'[c].w.gz = IF Layer(q) = "gzip" /\ input[q].gzip THEN TRUE ELSE x.w.gz
        /\ ctx'[c].r.derived = IF Layer(q) = "timeout" THEN TRUE ELSE x.r.derived
    <3>1. CASE Layer(q) = "log" /\ ctx' = [ctx EXCEPT ![c].w.sw = c, ![c].status = 0]
      BY <1>1, <1>2, <3>1 DEF Context, x
    <3>2. CASE Layer(q) = "requestid" /\ ctx' = [ctx EXCEPT ![c].reqID = q]
      BY <1>1, <1>2, <3>2 DEF Context, x
    <3>3. CASE Layer(q) = "timeout" /\ ctx' = [ctx EXCEPT ![c].r.derived = TRUE]
      BY <1>1, <1>2, <3>3 DEF Context, x
    <3>4. CASE /\ Layer(q) = "gzip" /\ input[q].gzip
               /\ ctx' = [ctx EXCEPT ![c].w.gz = TRUE]
      BY <1>1, <1>2, <3>4 DEF Context, x
    <3>5. CASE Layer(q) = "gzip" /\ ~input[q].gzip /\ ctx' = ctx
      BY <3>5 DEF x
    <3> QED BY <2>3, <3>1, <3>2, <3>3, <3>4, <3>5
  <2>5. /\ Layer(q) # "mux" /\ GuardSays(q, at[q]) = Nil
        /\ Layer(q) \notin {"auth", "pprofauth"}
    BY <1>3, <2>1
  <2> QED BY <1>4, <1>6, <2>1, <2>4, <2>5
<1>12. CASE CORS(q)
  <2>1. Layer(q) = "cors" /\ Ctx(q) = c
    BY <1>2, <1>12 DEF CORS, Down
  <2>2. CASE input[q].method = "OPTIONS"
    <3>1. /\ Return(q, Nil) /\ RespondAs(FALSE, c, 204, << >>)
          /\ UNCHANGED <<ctxVars, log, histVars>>
      BY <1>12, <2>1, <2>2 DEF CORS, Respond
    <3>2. wire'[q].status = 204
      <4> DEFINE code == 204
                 body == << >>
      <4>1. code \in Status /\ body \in {<< >>, Piece(q, code)}
        BY DEF Status
      <4>2. RespondAs(FALSE, c, code, body)
        BY <3>1
      <4> DEFINE skip == FALSE
      <4>3. skip \in BOOLEAN /\ RespondAs(skip, c, code, body)
        BY <4>2
      <4> HIDE DEF code, body, skip
      <4>4. wire'[q].status = code
        BY <1>2, <1>8, <3>1, <4>1, <4>3
      <4> QED BY <4>4 DEF code
    <3>3. GuardSays(q, at[q]) = 204
      BY <1>3, <2>1, <2>2
    <3> QED BY <1>9, <3>1, <3>2, <3>3 DEF Decides, Answer, Nil
  <2>3. CASE input[q].method # "OPTIONS"
    <3>1. Call(q) /\ UNCHANGED ctxVars /\ ctx' = ctx
      BY <1>12, <2>3 DEF CORS
    <3> QED BY <1>3, <1>4, <1>6, <2>1, <2>3, <3>1 DEF x
  <2> QED BY <2>2, <2>3
<1>13. ASSUME NEW layer \in {"auth", "pprofauth"}, NEW fails, NEW a \in Configured(fails),
              a.fail \in Status \cup {Nil}, Auth(q, layer, a),
              Layer(q) = layer => GuardSays(q, at[q]) =
                IF Satisfies(a, Cred(q)) THEN Nil
                ELSE IF a.fail = Nil THEN 200 ELSE a.fail
       PROVE  Carries(q) \/ Decides(q)
  <2> DEFINE id == Authenticate(a, Cred(q))
  <2>1. Layer(q) = layer /\ Ctx(q) = c /\ UNCHANGED <<ctxVars, netVars>>
    BY <1>2, <1>13 DEF Auth, Down
  <2>2. id # Refused <=> Satisfies(a, Cred(q))
    <3>1. Cred(q) \in Presented
      BY <1>1 DEF Input, PipelineAssumption, Cred
    <3> QED BY <1>13, <3>1, AuthenticateSound, AccessAssumption
  <2>3. \/ id = Refused /\ Return(q, a.fail)
        \/ /\ id # Refused /\ Call(q)
           /\ ctx' = [ctx EXCEPT ![c].identity = [of |-> q, id |-> id]]
    BY <1>13, <2>1 DEF Auth, Cred
  <2>4. CASE id = Refused /\ Return(q, a.fail)
    BY <1>7, <1>13, <2>1, <2>2, <2>4
  <2>5. CASE /\ id # Refused /\ Call(q)
             /\ ctx' = [ctx EXCEPT ![c].identity = [of |-> q, id |-> id]]
    <3> DEFINE known == [of |-> q, id |-> id]
    <3>1. known.of = q /\ ctx' = [ctx EXCEPT ![c].identity = known]
      BY <2>5
    <3>2. known # None
      <4>1. id \in Identity
        <5>1. Cred(q) \in Presented
          BY <1>1 DEF Input, PipelineAssumption, Cred
        <5> QED BY <2>5, <5>1, AuthenticateSound, AccessAssumption
      <4> HIDE DEF id
      <4> QED BY <4>1 DEF PipelineAssumption
    <3> HIDE DEF known
    <3>3. /\ ctx'[c].app = x.app /\ ctx'[c].identity = known
          /\ ctx'[c].w.gz = x.w.gz /\ ctx'[c].r.derived = x.r.derived
      BY <1>1, <1>2, <3>1 DEF Context, x
    <3>4. GuardSays(q, at[q]) = Nil /\ Layer(q) \in {"auth", "pprofauth"}
      BY <1>13, <2>1, <2>2, <2>5
    <3> QED BY <1>4, <1>6, <2>1, <2>5, <3>2, <3>3, <3>4
  <2> QED BY <2>3, <2>4, <2>5
<1>14. CASE Auth(q, "auth", Conf.auth) \/ Auth(q, "pprofauth", Conf.pprof)
  <2>1. /\ Conf.auth \in Configured(Status \cup {Nil}) /\ Conf.pprof \in Configured({401})
        /\ Conf.auth.fail \in Status \cup {Nil} /\ Conf.pprof.fail = 401
    BY <1>1, ConfTyped DEF ConfigInv, Configured
  <2>2. 401 \in Status \cup {Nil} /\ 401 # Nil
    BY DEF Status, Nil
  <2>3. Layer(q) = "auth" => GuardSays(q, at[q]) =
          IF Satisfies(Conf.auth, Cred(q)) THEN Nil
          ELSE IF Conf.auth.fail = Nil THEN 200 ELSE Conf.auth.fail
    BY <1>3
  <2>4. Layer(q) = "pprofauth" => GuardSays(q, at[q]) =
          IF Satisfies(Conf.pprof, Cred(q)) THEN Nil
          ELSE IF Conf.pprof.fail = Nil THEN 200 ELSE Conf.pprof.fail
    BY <1>3, <2>1, <2>2
  <2>5. CASE Auth(q, "auth", Conf.auth)
    BY <1>13, <2>1, <2>3, <2>5
  <2>6. CASE Auth(q, "pprofauth", Conf.pprof)
    BY <1>13, <2>1, <2>2, <2>4, <2>6
  <2> QED BY <1>14, <2>5, <2>6
<1>15. CASE BasicAuth(q)
  <2>1. Layer(q) = "basicauth" /\ Ctx(q) = c /\ UNCHANGED <<ctxVars, netVars>>
    BY <1>2, <1>15 DEF BasicAuth, Down
  <2>2. \/ Verify(Cred(q)["basic"]) = Refused /\ Return(q, 401)
        \/ /\ Verify(Cred(q)["basic"]) # Refused /\ Call(q)
           /\ ctx' = [ctx EXCEPT ![c].user = q]
    BY <1>15, <2>1 DEF BasicAuth, Cred
  <2>3. CASE Verify(Cred(q)["basic"]) = Refused /\ Return(q, 401)
    BY <1>3, <1>7, <2>1, <2>3 DEF Status, Nil
  <2>4. CASE /\ Verify(Cred(q)["basic"]) # Refused /\ Call(q)
             /\ ctx' = [ctx EXCEPT ![c].user = q]
    <3>1. /\ ctx'[c].app = x.app /\ ctx'[c].identity = x.identity
          /\ ctx'[c].w.gz = x.w.gz /\ ctx'[c].r.derived = x.r.derived
      BY <1>1, <1>2, <2>4 DEF Context, x
    <3> QED BY <1>3, <1>4, <1>6, <2>1, <2>4, <3>1
  <2> QED BY <2>2, <2>3, <2>4
<1>16. CASE Authorize(q)
  <2> DEFINE answer == IF ctx[Ctx(q)].identity = None THEN 401
                       ELSE RoleCheck(Conf.roles, ctx[Ctx(q)].identity.id)
  <2>1. /\ Layer(q) = "authorize" /\ UNCHANGED <<ctxVars, ctx, netVars>>
        /\ \/ answer # Nil /\ Return(q, answer)
           \/ answer = Nil /\ Call(q)
    BY <1>16 DEF Authorize, Down
  <2>2. answer = GuardSays(q, at[q])
    BY <1>1, <2>1, AuthorizeSays
  <2>3. answer \in Status \cup {Nil}
    BY DEF RoleCheck, Status, Nil
  <2> HIDE DEF answer
  <2>4. CASE answer # Nil /\ Return(q, answer)
    BY <1>7, <2>1, <2>2, <2>3, <2>4
  <2>5. CASE answer = Nil /\ Call(q)
    BY <1>4, <1>6, <2>1, <2>2, <2>5 DEF x
  <2> QED BY <2>1, <2>4, <2>5
<1>17. CASE MuxAnswers(q)
  <2> DEFINE target == input[q].target
             code == CASE target = "static" -> 200
                       [] target = "pprof" /\ IsLoopback(input[q].remote) -> 200
                       [] target = "pprof" /\ ~IsLoopback(input[q].remote) -> 403
                       [] OTHER -> 404
  <2>1. /\ RespondAs(FALSE, base[q], code, Piece(q, code)) /\ target \notin DOMAIN stack.routes
        /\ Layer(q) = "mux" /\ Return(q, Nil) /\ UNCHANGED <<ctxVars, log, histVars>>
    BY <1>17 DEF MuxAnswers, Respond, Down
  <2>2. code \in Status
    BY DEF Status
  <2>3. code = EndSays(q)
    BY <2>1 DEF EndSays
  <2>4. base[q] \in Using(q)
    BY <1>1, FrameContext
  <2>5. at[q] = n
    <3>1. at[q] = MuxAt
      BY <1>1, <2>1, Locating DEF Located
    <3>2. n = MuxAt
      BY <1>1, <2>1, ChainParts DEF n
    <3> QED BY <3>1, <3>2
  <2> HIDE DEF code
  <2>6. wire'[q].status = code /\ code # 0
    BY <1>8, <2>1, <2>2, <2>4
  <2>7. Answer(q)' = code /\ dir'[q] = "up"
    BY <1>9, <2>1, <2>6 DEF Answer
  <2>8. GuardSays(q, at[q]) = Nil
    BY <1>3, <2>1
  <2> QED BY <2>3, <2>5, <2>7, <2>8 DEF Decides, n
<1>18. CASE Handle(q)
  <2>1. /\ Layer(q) = "mux" /\ Call(q) /\ base' = base
        /\ \/ /\ ~ctx[base[q]].r.derived
              /\ inner' = [inner EXCEPT ![q] = reqCtxMap[ctx[base[q]].r.of]]
              /\ ctx' = ctx
           \/ /\ ctx[base[q]].r.derived
              /\ \E d \in pool :
                   /\ inner' = [inner EXCEPT ![q] = d]
                   /\ ctx' = [ctx EXCEPT ![d] =
                        [Fresh(q) EXCEPT !.w = ctx[base[q]].w, !.r = ctx[base[q]].r]]
    BY <1>18 DEF Handle, Down
  <2>2. c = base[q] /\ x = ctx[base[q]]
    BY <1>1, <2>1, FrameContext DEF c, x
  <2>3. reqCtxMap[q] = base[q] /\ x.r.of = q
    BY <1>1, <1>2, <2>2 DEF PlaceInv, CtxInv, OwnContexts, OwnedBy
  <2>4. GuardSays(q, at[q]) = Nil
    BY <1>3, <2>1
  <2>5. CASE /\ ~x.r.derived /\ ctx' = ctx
             /\ inner' = [inner EXCEPT ![q] = reqCtxMap[ctx[base[q]].r.of]]
    <3>1. inner'[q] = c
      BY <1>1, <2>2, <2>3, <2>5
    <3>2. Frame(q)' = c
      BY <1>1, <1>2, <3>1 DEF Frame
    <3>3. ctx'[Frame(q)'] = x
      BY <2>2, <2>5, <3>2
    <3> QED BY <1>4, <1>5, <2>1, <2>4, <2>5, <3>3 DEF Carries, x, c
  <2>6. ASSUME x.r.derived, NEW d \in pool, inner' = [inner EXCEPT ![q] = d],
               ctx' = [ctx EXCEPT ![d] =
                        [Fresh(q) EXCEPT !.w = ctx[base[q]].w, !.r = ctx[base[q]].r]]
        PROVE  Carries(q)
    <3>1. inner'[q] = d /\ d # None /\ d \in Contexts
      BY <1>1, <2>6
    <3>2. Frame(q)' = d
      BY <3>1 DEF Frame
    <3>3. ctx'[d].w = x.w /\ ctx'[d].app /\ ctx'[d].identity = None
      BY <1>1, <2>2, <2>6, <3>1 DEF Fresh
    <3>4. LET y == ctx'[Frame(q)'] IN y.w = x.w /\ y.app /\ y.identity = None
      BY <3>2, <3>3
    <3> QED BY <1>4, <1>5, <2>1, <2>4, <2>6, <3>4 DEF Carries, x, c
  <2> QED BY <2>1, <2>2, <2>5, <2>6
<1>19. CASE Handler(q)
  <2> DEFINE does == input[q]
             bound == Bind(does, Conf.limited)
             zipped == does.gzip /\ "gzip" \in ToSet(Chain(q))
             stuck == does.writes = "events" /\ zipped
             silent == bound # Nil \/ stuck \/ does.writes = "nothing"
             body == Written(q, does.writes)
             skip == does.writes \in {"file", "events"}
             r == IF bound # Nil THEN bound ELSE IF stuck THEN 500 ELSE Ending[does.ends]
  <2>1. Layer(q) = "handler" /\ Ctx(q) = c /\ UNCHANGED <<ctxVars, log, histVars>>
    BY <1>2, <1>19 DEF Handler, Down
  <2>2. at[q] = n /\ does.target \in DOMAIN stack.routes
    <3>1. at[q] \in 1 .. Len(Chain(q)) /\ Chain(q)[at[q]] = "handler"
      BY <1>2, <2>1 DEF n
    <3>2. at[q] = Len(Chain(q)) /\ at[q] > MuxAt
      BY <1>1, <3>1, ChainShape
    <3>3. does.target \in DOMAIN stack.routes
      BY <1>1, <3>1, <3>2, ChainShape
    <3> QED BY <3>2, <3>3 DEF n
  <2>3. (x.w.gz <=> zipped) /\ (stuck <=> StreamsZipped(q))
    <3>1. n \in Nat /\ Chain(q) \in Seq(Layers) /\ Chain(q)[n] = "handler"
      BY <1>1, <1>2, <2>1, <2>2, ChainParts DEF n
    <3>2. "gzip" \in ToSet(Chain(q)) <=> \E i \in 1 .. n : Chain(q)[i] = "gzip"
      BY <3>1, ToSetOf DEF n
    <3>3. Met(q, "gzip") <=> \E i \in 1 .. n - 1 : Chain(q)[i] = "gzip"
      BY <2>2 DEF Met
    <3>4. \A i \in 1 .. n : i # n => i \in 1 .. n - 1
      BY <3>1
    <3>5. 1 .. n - 1 \subseteq 1 .. n
      BY <3>1
    <3>6. Met(q, "gzip") <=> "gzip" \in ToSet(Chain(q))
      BY <3>1, <3>2, <3>3, <3>4, <3>5
    <3> QED BY <3>6 DEF OnItsWay, x, c, StreamsZipped
  <2>4. Bind(does, x.app /\ Conf.limited) = bound /\ Conf.limited \in BOOLEAN
    <3>1. Conf.limited \in BOOLEAN
      BY <1>1, ConfTyped DEF ConfigInv
    <3>2. (x.app /\ Conf.limited) = Conf.limited
      BY <1>4, <3>1
    <3> QED BY <3>1, <3>2
  <2>5. /\ Return(q, r)
        /\ IF silent THEN UNCHANGED <<ctx, netVars>> ELSE RespondAs(skip, c, 200, body)
    <3> DEFINE b == Bind(does, x.app /\ Conf.limited)
               s == does.writes = "events" /\ x.w.gz
    <3>1. /\ Return(q, IF b # Nil THEN b ELSE IF s THEN 500 ELSE Ending[does.ends])
          /\ IF b # Nil \/ s \/ does.writes = "nothing" THEN UNCHANGED <<ctx, netVars>>
             ELSE RespondAs(skip, c, 200, body)
      BY <1>19, <2>1 DEF Handler, x
    <3>2. b = bound /\ (s <=> stuck)
      BY <2>3, <2>4
    <3> HIDE DEF b, s, bound, stuck
    <3> QED BY <3>1, <3>2
  <2>6. EndSays(q) = IF bound # Nil THEN bound
                     ELSE IF does.writes # "nothing" \/ does.ends = "nil" THEN 200
                     ELSE IF does.ends = "fail" THEN 409 ELSE 500
    BY <2>2 DEF EndSays
  <2>7. bound \in Status \cup {Nil} /\ does.ends \in {"nil", "fail", "plain", "panic"}
    BY <1>1, BindType DEF Input
  <2>8. GuardSays(q, at[q]) = Nil
    BY <1>3, <2>1
  <2>9. dir'[q] = "up" /\ res'[q] = r
    BY <1>9, <2>5
  <2>10. CASE silent
    <3>1. wire'[q].status = 0
      BY <1>1, <2>5, <2>10 DEF netVars
    <3>2. Answer(q)' = IF r = Nil THEN 200 ELSE IF r = Panic THEN 500 ELSE r
      BY <2>9, <3>1 DEF Answer
    <3>3. ~stuck => (IF r = Nil THEN 200 ELSE IF r = Panic THEN 500 ELSE r) = EndSays(q)
      <4> HIDE DEF bound, stuck, does
      <4> QED BY <2>6, <2>7, <2>10 DEF Ending, Status, Nil, Panic
    <3> HIDE DEF stuck
    <3> QED BY <2>2, <2>3, <2>8, <2>9, <3>2, <3>3 DEF Decides, n
  <2>11. CASE ~silent
    <3>1. body \in {<< >>, Piece(q, 200)} /\ skip \in BOOLEAN /\ 200 \in Status
      BY DEF Written, Status
    <3>2. EndSays(q) = 200
      BY <2>6, <2>11
    <3> HIDE DEF body, skip, silent
    <3>3. wire'[q].status = 200
      BY <1>2, <1>8, <2>1, <2>5, <2>11, <3>1
    <3>4. Answer(q)' = 200
      BY <3>3 DEF Answer
    <3> QED BY <2>2, <2>8, <2>9, <3>2, <3>4 DEF Decides, n
  <2> QED BY <2>10, <2>11
<1>20. CASE DeadlinePasses(q)
  BY <1>20 DEF DeadlinePasses, pcVars, ctxVars
<1>21. CASE \/ ServeHTTP(q) \/ ServeError(q) \/ Forget(q) \/ Release(q) \/ PassUp(q)
            \/ GZipReturns(q) \/ TimeoutReturns(q) \/ HandleError(q) \/ HandleReturns(q)
            \/ RequestLogReturns(q) \/ RecoverReturns(q)
  BY <1>21 DEF ServeHTTP, ServeError, Forget, Release, PassUp, GZipReturns, TimeoutReturns,
               HandleError, HandleReturns, RequestLogReturns, RecoverReturns, Up
<1> QED BY <1>10, <1>11, <1>12, <1>14, <1>15, <1>16, <1>17, <1>18, <1>19, <1>20, <1>21
        DEF Goroutine

(* What stays where it is stays on its way.                                *)
LEMMA StaysOnItsWay ==
  ASSUME NEW q \in Requests, UNCHANGED <<scenario, stack, input>>, OnItsWay(q),
         at'[q] = at[q], base'[q] = base[q], inner'[q] = inner[q],
         ctx'[Frame(q)] = ctx[Frame(q)]
  PROVE  OnItsWay(q)'
<1>1. /\ Chain(q)' = Chain(q) /\ MuxAt' = MuxAt /\ Frame(q)' = Frame(q)
      /\ UNCHANGED <<stack, input>> /\ \A k : GuardSays(q, k)' = GuardSays(q, k)
  BY StoreKept DEF Chain, MuxAt, Frame
<1>2. /\ \A layer : Met(q, layer)' <=> Met(q, layer)
      /\ Known(q)' <=> Known(q)
  BY <1>1 DEF Met, Known
<1>3. \A j \in 1 .. at[q] - 1 : GuardSays(q, j) = Nil
  BY DEF OnItsWay
<1>4. (\A j \in 1 .. at[q] - 1 : GuardSays(q, j) = Nil)'
  BY <1>1, <1>3
<1>5. ctx[Frame(q)]' = ctx[Frame(q)]
  BY <1>1
<1> QED BY <1>1, <1>2, <1>4, <1>5 DEF OnItsWay

LEMMA CarriedOn ==
  ASSUME PipelineAssumption, RequestInv, LoggedOnce(stack), NEW q \in Requests,
         UNCHANGED <<scenario, stack, input>>, OnItsWay(q), Carries(q)
  PROVE  OnItsWay(q)'
<1> DEFINE k == at[q]
           layer == Layer(q)
           x == ctx[Frame(q)]
           y == ctx'[Frame(q)']
<1>1. /\ k \in 1 .. Len(Chain(q)) /\ k \in Nat /\ MuxAt \in Nat /\ layer = Chain(q)[k]
      /\ layer = "mux" <=> k = MuxAt
      /\ \A j \in 1 .. MuxAt - 1 : Chain(q)[j] = stack.app[j]
      /\ Chain(q)[MuxAt] = "mux"
  <2>1. dir[q] = "down" /\ ConfigInv
    BY DEF Carries, RequestInv, PlaceInv
  <2>2. Located(q)
    BY <2>1, Locating
  <2> QED BY <2>1, <2>2, FrameContext, ChainParts DEF Located
<1>2. /\ Chain(q)' = Chain(q) /\ MuxAt' = MuxAt /\ UNCHANGED <<stack, input>>
      /\ \A j : GuardSays(q, j)' = GuardSays(q, j)
  BY StoreKept DEF Chain, MuxAt
<1>3. /\ at'[q] = k + 1 /\ GuardSays(q, k) = Nil /\ y.app
      /\ y.w.gz <=> x.w.gz \/ (layer = "gzip" /\ input[q].gzip)
      /\ layer # "mux" => (y.identity # None <=>
           x.identity # None \/ layer \in {"auth", "pprofauth"})
      /\ layer # "mux" => (y.r.derived <=> x.r.derived \/ layer = "timeout")
      /\ layer = "mux" => (y.identity # None <=> x.identity # None /\ ~x.r.derived)
  BY DEF Carries
<1>4. /\ \A j \in 1 .. k - 1 : GuardSays(q, j) = Nil
      /\ x.w.gz <=> input[q].gzip /\ Met(q, "gzip")
      /\ x.identity # None <=> Known(q)
      /\ k <= MuxAt => (x.r.derived <=> Met(q, "timeout"))
  BY DEF OnItsWay
<1> HIDE DEF k, layer, x, y
<1>5. /\ at'[q] - 1 = k /\ k \in 1 .. k /\ 1 .. k - 1 \subseteq 1 .. k
      /\ \A j \in 1 .. k : j = k \/ j \in 1 .. k - 1
  BY <1>1, <1>3
<1>6. (\A j \in 1 .. at[q] - 1 : GuardSays(q, j) = Nil)'
  <2>1. \A j \in 1 .. k : GuardSays(q, j) = Nil
    BY <1>3, <1>4, <1>5
  <2> QED BY <1>2, <1>5, <2>1
<1>7. \A l : Met(q, l)' <=> Met(q, l) \/ layer = l
  BY <1>1, <1>2, <1>5 DEF Met, k
<1>8. ctx[Frame(q)]' = y
  BY DEF y
<1>9. input[q]'.gzip = input[q].gzip
  BY <1>2
<1>10. y.w.gz <=> input[q].gzip /\ Met(q, "gzip")'
  BY <1>3, <1>4, <1>7
<1>11. at'[q] <= MuxAt => (y.r.derived <=> Met(q, "timeout")')
  <2> SUFFICES ASSUME at'[q] <= MuxAt PROVE y.r.derived <=> Met(q, "timeout")'
    OBVIOUS
  <2>1. k # MuxAt /\ k <= MuxAt
    BY <1>1, <1>3
  <2> QED BY <1>1, <1>3, <1>4, <1>7, <2>1
<1>12. y.identity # None <=> Known(q)'
  <2> DEFINE keeps == {"auth", "pprofauth"}
             renewed == "timeout" \in ToSet(stack.app)
  <2>1. Known(q) <=> \E j \in 1 .. k - 1 :
          Chain(q)[j] \in keeps /\ (k > MuxAt /\ renewed => j > MuxAt)
    BY DEF Known, k
  <2>2. Known(q)' <=> \E j \in 1 .. k :
          Chain(q)[j] \in keeps /\ (k + 1 > MuxAt /\ renewed => j > MuxAt)
    BY <1>2, <1>3, <1>5 DEF Known
  <2> HIDE DEF keeps, renewed
  <2>3. CASE k = MuxAt
    <3>1. x.r.derived <=> renewed
      <4> DEFINE m == Len(stack.app)
      <4>1. /\ stack.app \in Seq(Middleware \cup {"recover", "log"}) /\ MuxAt = m + 1
            /\ m \in Nat
        BY LenProperties DEF RequestInv, PlaceInv, ConfigInv, Chains, MuxAt
      <4>2. renewed <=> \E j \in 1 .. m : stack.app[j] = "timeout"
        BY <4>1, ToSetOf DEF renewed
      <4> HIDE DEF m
      <4>3. MuxAt - 1 = m
        BY <4>1
      <4>4. Met(q, "timeout") <=> \E j \in 1 .. m : stack.app[j] = "timeout"
        BY <1>1, <2>3, <4>3 DEF Met, k
      <4> QED BY <1>1, <1>4, <2>3, <4>2, <4>4
    <3>2. layer \notin keeps /\ Chain(q)[k] \notin keeps
      BY <1>1, <2>3 DEF keeps
    <3>3. Known(q) <=> \E j \in 1 .. k - 1 : Chain(q)[j] \in keeps
      BY <1>1, <2>1, <2>3
    <3>4. Known(q)' <=> ~renewed /\ \E j \in 1 .. k : Chain(q)[j] \in keeps
      BY <1>1, <2>2, <2>3
    <3>5. Known(q)' <=> ~renewed /\ Known(q)
      BY <1>5, <3>2, <3>3, <3>4
    <3> QED BY <1>1, <1>3, <1>4, <2>3, <3>1, <3>5
  <2>4. CASE k # MuxAt
    <3>1. k + 1 > MuxAt <=> k > MuxAt
      BY <1>1, <2>4
    <3>2. Known(q)' <=> Known(q) \/ Chain(q)[k] \in keeps
      BY <1>5, <2>1, <2>2, <3>1
    <3> QED BY <1>1, <1>3, <1>4, <2>4, <3>2 DEF keeps
  <2> QED BY <2>3, <2>4
<1> QED BY <1>2, <1>3, <1>6, <1>8, <1>9, <1>10, <1>11, <1>12 DEF OnItsWay

(* ServeHTTP puts the request on its way.                                  *)
LEMMA SetOut ==
  ASSUME PipelineAssumption, RequestInv, NEW q \in Requests, ServeHTTP(q)
  PROVE  dir'[q] = "down" /\ OnItsWay(q)'
<1>1. /\ Place(q) /\ pool \subseteq Contexts /\ None \notin Contexts /\ q # None
      /\ at \in [Requests -> Nat] /\ base \in [Requests -> Contexts \cup {None}]
      /\ ctx \in [Contexts -> Context]
      /\ dir \in [Requests -> {"new", "down", "up", "forget", "release", "done"}]
  BY DEF RequestInv, PlaceInv, ConfigInv, CtxInv, PipelineAssumption
<1>2. PICK d \in pool : ctx' = [ctx EXCEPT ![d] = Fresh(q)] /\ base' = [base EXCEPT ![q] = d]
  BY DEF ServeHTTP
<1>3. at'[q] = 1 /\ dir'[q] = "down" /\ dir[q] = "new" /\ inner' = inner
  BY <1>1 DEF ServeHTTP
<1>4. inner[q] = None
  BY <1>1, <1>3 DEF Place, Inside
<1>5. Frame(q)' = d
  BY <1>1, <1>2, <1>3, <1>4 DEF Frame
<1>6. ctx[Frame(q)]' = Fresh(q)
  BY <1>1, <1>2, <1>5
<1>7. Fresh(q).app /\ ~Fresh(q).w.gz /\ Fresh(q).identity = None /\ ~Fresh(q).r.derived
  BY <1>1 DEF Fresh, Direct
<1>8. at'[q] - 1 = 0 /\ 1 .. at'[q] - 1 = {}
  BY <1>3
<1>9. ~Known(q)' /\ \A layer : ~Met(q, layer)'
  BY <1>8 DEF Known, Met
<1>10. (\A j \in 1 .. at[q] - 1 : GuardSays(q, j) = Nil)'
  BY <1>8
<1> HIDE DEF Fresh
<1> QED BY <1>3, <1>6, <1>7, <1>9, <1>10 DEF OnItsWay

(* The layer that turns the request back gives it its verdict.             *)
LEMMA TurnsToVerdict ==
  ASSUME PipelineAssumption, RequestInv, LoggedOnce(stack), NEW q \in Requests,
         UNCHANGED <<scenario, stack, input>>, OnItsWay(q), Decides(q)
  PROVE  dir'[q] = "up" /\ (~StreamsZipped(q)' => Answer(q)' = Verdict(q)')
<1>1. /\ ConfigInv /\ dir[q] = "down" /\ dir'[q] = "up" /\ Verdict(q)' = Verdict(q)
      /\ StreamsZipped(q)' <=> StreamsZipped(q)
  BY StoreKept DEF RequestInv, PlaceInv, Decides
<1>2. at[q] \in 1 .. Len(Chain(q)) /\ Len(Chain(q)) \in Nat
  BY <1>1, FrameContext, ChainParts
<1>3. \A j \in 1 .. at[q] - 1 : GuardSays(q, j) = Nil
  BY DEF OnItsWay
<1>4. CASE GuardSays(q, at[q]) # Nil /\ Answer(q)' = GuardSays(q, at[q])
  BY <1>1, <1>2, <1>3, <1>4, VerdictOfLayer
<1>5. CASE /\ at[q] = Len(Chain(q)) /\ GuardSays(q, at[q]) = Nil
           /\ ~StreamsZipped(q) => Answer(q)' = EndSays(q)
  <2>1. \A j \in 1 .. Len(Chain(q)) : j = at[q] \/ j \in 1 .. at[q] - 1
    <3> DEFINE n == Len(Chain(q))
    <3>1. at[q] = n /\ n \in Nat
      BY <1>2, <1>5
    <3> HIDE DEF n
    <3>2. \A j \in 1 .. n : j = at[q] \/ j \in 1 .. at[q] - 1
      BY <3>1
    <3> QED BY <3>2 DEF n
  <2>2. \A j \in 1 .. Len(Chain(q)) : GuardSays(q, j) = Nil
    BY <1>3, <1>5, <2>1
  <2> QED BY <1>1, <1>5, <2>2, VerdictOfEnd
<1> QED BY <1>1, <1>4, <1>5 DEF Decides

(* A deadline stays passed, and is the request's own.                      *)
LEMMA ExpiredStays ==
  ASSUME PipelineAssumption, RequestInv, NEW q \in Requests,
         Goroutine(q) \/ DeadlinePasses(q)
  PROVE  /\ expired[q] => expired'[q]
         /\ \A k \in Requests : k # q => expired'[k] = expired[k]
<1>1. expired \in [Requests -> BOOLEAN]
  BY DEF RequestInv, TailInv
<1>2. expired' = expired \/ expired' = [expired EXCEPT ![q] = TRUE]
  BY DEF Goroutine, ServeHTTP, ServeError, Forget, Release, Recover, RequestLog,
         RequestID, CORS, Timeout, Auth, BasicAuth, Authorize, GZip, MuxAnswers,
         Handle, Handler, PassUp, GZipReturns, TimeoutReturns, HandleError,
         HandleReturns, RequestLogReturns, RecoverReturns, DeadlinePasses
<1> QED BY <1>1, <1>2

(* On the way up nothing but a deadline changes what the client will get.  *)
LEMMA Upward ==
  ASSUME PipelineAssumption, RequestInv, RequestInv', NEW q \in Requests,
         dir[q] \notin {"new", "down"}, Alone(q), Goes(q),
         expired[q] => expired'[q], Verdict(q)' = Verdict(q),
         StreamsZipped(q)' <=> StreamsZipped(q)
  PROVE  Alone(q)'
<1>1. /\ res[q] \in Status \cup {Nil, Panic} /\ wire[q].status \in Status \cup {0}
      /\ wire'[q].status \in Status \cup {0}
  <2>1. res \in [Requests -> Status \cup {Nil, Panic}]
    BY DEF RequestInv, PlaceInv
  <2>2. /\ wire \in [Requests -> [status : Status \cup {0}, body : Pieces]]
        /\ (wire \in [Requests -> [status : Status \cup {0}, body : Pieces]])'
    BY DEF RequestInv, NetInv
  <2> QED BY <2>1, <2>2
<1>2. /\ Nil \notin Status /\ Panic \notin Status /\ 0 \notin Status /\ Nil # Panic
      /\ 500 \in Status /\ Nil = 0
  BY DEF Nil, Panic, Status
<1>3. /\ dir[q] \in {"up", "forget", "release", "done"} /\ ~expired[q]
           /\ ~StreamsZipped(q) => Answer(q) = Verdict(q)
      /\ dir[q] \in {"forget", "release"} /\ wire[q].status = 0 => res[q] = Nil
      /\ dir[q] = "done" => wire[q].status # 0
  BY DEF Alone
<1>4. Answer(q)' = IF wire'[q].status # 0 THEN wire'[q].status
                   ELSE IF res'[q] = Nil THEN 200
                   ELSE IF res'[q] = Panic THEN 500 ELSE res'[q]
  BY DEF Answer
<1>5. Answer(q) = IF wire[q].status # 0 THEN wire[q].status
                  ELSE IF res[q] = Nil THEN 200
                  ELSE IF res[q] = Panic THEN 500 ELSE res[q]
  BY DEF Answer
<1>6. ASSUME dir[q] = "up", dir'[q] = "up", ~expired[q] => Answer(q)' = Answer(q)
      PROVE  Alone(q)'
  BY <1>3, <1>6 DEF Alone
<1>7. CASE \/ Climbs(q) \/ Unzips(q) \/ Logs(q) \/ (Rests(q) /\ dir[q] = "up")
  <2>1. dir[q] = "up" /\ dir'[q] = "up" /\ res'[q] = res[q]
        /\ wire'[q].status = wire[q].status
    BY <1>7 DEF Climbs, Unzips, Logs, Rests, Ascends, Quiet
  <2> QED BY <1>4, <1>5, <1>6, <2>1
<1>8. CASE TimesOut(q)
  <2>1. /\ dir[q] = "up" /\ dir'[q] = "up" /\ wire'[q].status = wire[q].status
        /\ ~expired[q] => res'[q] = res[q]
    BY <1>8 DEF TimesOut, Ascends
  <2> QED BY <1>4, <1>5, <1>6, <2>1
<1>9. CASE Recovers(q)
  <2>1. /\ dir[q] = "up" /\ dir'[q] = "up" /\ wire'[q].status = wire[q].status
        /\ res'[q] = IF res[q] = Panic THEN 500 ELSE res[q]
    BY <1>9 DEF Recovers, Ascends, Quiet
  <2> QED BY <1>2, <1>4, <1>5, <1>6, <2>1
<1>10. CASE Fixes(q)
  <2>1. /\ dir[q] = "up" /\ dir'[q] = "up" /\ res[q] \in Status
        /\ wire'[q].status = IF wire[q].status = 0 THEN res[q] ELSE wire[q].status
    BY <1>10 DEF Fixes, Writes
  <2> QED BY <1>2, <1>4, <1>5, <1>6, <2>1
<1>11. CASE Closes(q)
  <2>1. /\ dir[q] = "up" /\ dir'[q] = "forget" /\ res[q] \in Status
        /\ wire'[q].status = IF wire[q].status = 0 THEN res[q] ELSE wire[q].status
    BY <1>11 DEF Closes, Writes
  <2>2. wire'[q].status # 0 /\ Answer(q)' = Answer(q)
    BY <1>2, <1>4, <1>5, <2>1
  <2> QED BY <1>3, <2>1, <2>2 DEF Alone
<1>12. CASE Leaves(q)
  <2>1. /\ dir[q] \in {"up", "forget"} /\ dir'[q] \in {"forget", "release"}
        /\ res'[q] = res[q] /\ wire'[q].status = wire[q].status
        /\ wire[q].status = 0 => res[q] = Nil
    BY <1>3, <1>12 DEF Leaves, Quiet
  <2>2. Answer(q)' = Answer(q)
    BY <1>4, <1>5, <2>1
  <2> QED BY <1>3, <2>1, <2>2 DEF Alone
<1>13. CASE Ends(q)
  <2>1. /\ dir[q] = "release" /\ dir'[q] = "done"
        /\ wire'[q].status = IF wire[q].status = 0 THEN 200 ELSE wire[q].status
    BY <1>13 DEF Ends
  <2>2. wire'[q].status # 0 /\ Answer(q)' = Answer(q)
    BY <1>3, <1>4, <1>5, <2>1
  <2> QED BY <1>3, <2>1, <2>2 DEF Alone
<1>14. CASE \/ Opens(q) \/ Passes(q) \/ StartsLog(q) \/ StartsZip(q) \/ Hands(q)
            \/ Refuses(q) \/ Answers(q) \/ (Rests(q) /\ dir[q] # "up")
  BY <1>14 DEF Opens, Passes, StartsLog, StartsZip, Hands, Refuses, Answers, Rests,
               Descends, Turns
<1> QED BY <1>7, <1>8, <1>9, <1>10, <1>11, <1>12, <1>13, <1>14 DEF Goes

(* What does not change for q does not change what it is told.             *)
LEMMA AloneKept ==
  ASSUME PipelineAssumption, RequestInv, LoggedOnce(stack), NEW q \in Requests, Alone(q),
         UNCHANGED <<scenario, stack, input>>, wire'[q] = wire[q],
         dir'[q] = dir[q], at'[q] = at[q], res'[q] = res[q], expired'[q] = expired[q],
         base'[q] = base[q], inner'[q] = inner[q],
         \A c \in Using(q) : ctx'[c] = ctx[c]
  PROVE  Alone(q)'
<1>1. /\ Answer(q)' = Answer(q) /\ Verdict(q)' = Verdict(q)
      /\ StreamsZipped(q)' <=> StreamsZipped(q)
  BY StoreKept DEF Answer
<1>2. CASE dir[q] = "down"
  <2>1. Frame(q) \in Using(q) /\ OnItsWay(q)
    BY <1>2, FrameContext DEF Alone
  <2>2. OnItsWay(q)'
    BY <2>1, StaysOnItsWay
  <2> QED BY <1>2, <2>2 DEF Alone
<1>3. CASE dir[q] # "down"
  BY <1>1, <1>3 DEF Alone
<1> QED BY <1>2, <1>3

LEMMA AloneStep ==
  ASSUME PipelineAssumption, RequestInv, GuardInv, AnswerInv, AloneInv,
         NEW q \in Requests, Goroutine(q) \/ DeadlinePasses(q)
  PROVE  AloneInv'
<1>1. /\ UNCHANGED <<scenario, stack, input>> /\ Others(q) /\ RequestInv'
      /\ LoggedOnce(stack) /\ PprofApart(stack) /\ ConfigInv
      /\ \A k \in Requests : Alone(k)
  BY GoroutineStep DEF config, AnswerInv, AloneInv, RequestInv, PlaceInv
<1>2. /\ expired[q] => expired'[q]
      /\ \A k \in Requests : k # q => expired'[k] = expired[k]
  BY ExpiredStays
<1>3. Alone(q)'
  <2>1. CASE dir[q] = "new"
    <3>1. ServeHTTP(q)
      BY <1>1, <2>1, GoroutineConfig
    <3>2. dir'[q] = "down" /\ OnItsWay(q)'
      BY <3>1, SetOut
    <3> QED BY <3>2 DEF Alone
  <2>2. CASE dir[q] = "down"
    <3>1. OnItsWay(q)
      BY <1>1, <2>2 DEF Alone
    <3>2. Carries(q) \/ Decides(q) \/ UNCHANGED <<dir, at, base, inner, ctx>>
      BY <1>1, <2>2, <3>1, Bearing
    <3>3. CASE Carries(q)
      <4>1. OnItsWay(q)' /\ dir'[q] = "down"
        BY <1>1, <3>1, <3>3, CarriedOn DEF Carries
      <4> QED BY <4>1 DEF Alone
    <3>4. CASE Decides(q)
      <4>1. dir'[q] = "up" /\ (~StreamsZipped(q)' => Answer(q)' = Verdict(q)')
        BY <1>1, <3>1, <3>4, TurnsToVerdict
      <4> QED BY <4>1 DEF Alone
    <3>5. CASE UNCHANGED <<dir, at, base, inner, ctx>>
      <4>1. OnItsWay(q)' /\ dir'[q] = "down"
        BY <1>1, <2>2, <3>1, <3>5, StaysOnItsWay
      <4> QED BY <4>1 DEF Alone
    <3> QED BY <3>2, <3>3, <3>4, <3>5
  <2>3. CASE dir[q] \notin {"new", "down"}
    <3>1. Goes(q) /\ Verdict(q)' = Verdict(q) /\ (StreamsZipped(q)' <=> StreamsZipped(q))
      BY <1>1, Journey, StoreKept
    <3> QED BY <1>1, <1>2, <2>3, <3>1, Upward
  <2> QED BY <2>1, <2>2, <2>3
<1>4. ASSUME NEW k \in Requests, k # q PROVE Alone(k)'
  <2>1. /\ Quiet(k) /\ \A c \in Using(k) : ctx'[c] = ctx[c]
    BY <1>4, OthersQuiet, OthersContexts
  <2>2. /\ dir'[k] = dir[k] /\ at'[k] = at[k] /\ res'[k] = res[k]
        /\ base'[k] = base[k] /\ inner'[k] = inner[k] /\ wire'[k] = wire[k]
        /\ expired'[k] = expired[k]
    BY <1>1, <1>2, <1>4, <2>1 DEF Others, Quiet
  <2> QED BY <1>1, <2>1, <2>2, AloneKept
<1>5. PprofApart(stack)'
  BY <1>1 DEF PprofApart
<1> QED BY <1>3, <1>4, <1>5 DEF AloneInv

LEMMA AloneSetup ==
  ASSUME PipelineAssumption, RequestInv, AloneInv, Setup
  PROVE  AloneInv'
<1>1. /\ ConfigInv /\ UNCHANGED <<pcVars, ctxVars, ctx, netVars, log>>
      /\ \A q \in Requests : dir[q] = "new"
      /\ made \in Nat /\ made + 1 \in DOMAIN Conf.script
      /\ stack' = Register(stack, Conf.script[made + 1])
  BY SetupConfig DEF RequestInv, PlaceInv
<1>2. PprofApart(stack)'
  <2>1. /\ WellFormed(Conf.script) /\ Chains(stack) /\ Guarding(stack, Conf.script, made)
    BY <1>1, ConfTyped DEF ConfigInv
  <2>2. PprofApart(Register(stack, Conf.script[made + 1]))
    BY <1>1, <2>1, RegisterApart DEF AloneInv
  <2> QED BY <1>1, <2>2 DEF PprofApart
<1>3. \A q \in Requests : Alone(q)'
  BY <1>1 DEF Alone, pcVars
<1> QED BY <1>2, <1>3 DEF AloneInv

THEOREM AloneInvariant == Spec => [](RequestInv /\ GuardInv /\ AnswerInv /\ AloneInv)
<1>1. ASSUME Init PROVE AloneInv
  <2>1. stack = NewApp /\ \A q \in Requests : dir[q] = "new"
    BY <1>1 DEF Init
  <2> QED BY <2>1, NewAppApart DEF AloneInv, Alone
<1>2. ASSUME RequestInv, GuardInv, AnswerInv, AloneInv, [Next]_vars PROVE AloneInv'
  <2>1. CASE Setup
    BY <1>2, <2>1, PipelineAssumption, AloneSetup
  <2>2. CASE \E q \in Requests : Goroutine(q) \/ DeadlinePasses(q)
    BY <1>2, <2>2, PipelineAssumption, AloneStep
  <2>3. CASE UNCHANGED vars
    <3>1. /\ UNCHANGED <<scenario, stack, input>>
          /\ UNCHANGED <<dir, at, res, base, inner, ctx, wire, expired>>
      BY <2>3 DEF vars, config, pcVars, ctxVars, netVars
    <3>2. PprofApart(stack)' /\ LoggedOnce(stack)
      BY <1>2, <3>1 DEF AloneInv, AnswerInv, PprofApart
    <3>3. ASSUME NEW q \in Requests PROVE Alone(q)'
      BY <1>2, <3>1, <3>2, PipelineAssumption, AloneKept DEF AloneInv
    <3> QED BY <3>2, <3>3 DEF AloneInv
  <2> QED BY <1>2, <2>1, <2>2, <2>3 DEF Next, Terminating
<1>3. Init => AloneInv
  BY <1>1
<1>4. RequestInv /\ GuardInv /\ AnswerInv /\ AloneInv /\ [Next]_vars => AloneInv'
  BY <1>2
<1> QED BY <1>3, <1>4, GuardInvariant, AnswerInvariant, PTL DEF Spec

(* Whatever else the server works on and however its goroutines run, a     *)
(* request whose deadline has not passed, and that does not ask for a      *)
(* stream of events through GZip, gets the status that its chain has in    *)
(* store for it: that of the first layer, in the order of registration,    *)
(* that refuses it, or else of the mux or its handler (sugaar.go:154-160,  *)
(* sugaar.go:230).                                                         *)
THEOREM AnswersStandAlone == Spec => []AnswersAsAlone
<1>1. AloneInv => AnswersAsAlone
  BY DEF AloneInv, Alone, Answer, AnswersAsAlone
<1> QED BY <1>1, AloneInvariant, PTL
=============================================================================
