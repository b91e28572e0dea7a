------------------------------- MODULE Access -------------------------------
(***************************************************************************)
(* The built-in authenticators and authorizers (auth_builtin.go, auth.go,  *)
(* jwtauth/jwt.go) as functions of what a request presents.                *)
(*                                                                         *)
(* A request presents a value, or none, in each of the places an           *)
(* authenticator looks at.  A value is the secret of a person, or of       *)
(* nobody, and may besides be a JWT; of that its claims are told apart,    *)
(* times being given relative to now.  The verify functions of the         *)
(* application and the JWT library are external.                           *)
(***************************************************************************)
EXTENDS Integers, Sequences, FiniteSetsExt

CONSTANTS
  None,     (* nothing: no value, no Identity, no request                   *)
  RolesOf   (* the application's accounts: the roles of each person         *)

ASSUME AccessAssumption ==
  /\ DOMAIN RolesOf \subseteq STRING
  /\ \A who \in DOMAIN RolesOf : RolesOf[who] \subseteq STRING

(* The Authorization header carries a Basic or a Bearer credential; an API *)
(* key may come in a header and in the query; a JWT in a query parameter   *)
(* or a cookie too.                                                        *)
Carriers == {"basic", "bearer", "keyheader", "keyquery", "param", "cookie"}

(* Outcomes of Authenticate: an Identity, (nil, err) and (nil, nil).       *)
Refused == [kind |-> "refused", sub |-> "", roles |-> {}]

NilIdentity == [kind |-> "nil", sub |-> "", roles |-> {}]

Accepted(who) == [kind |-> "identity", sub |-> who, roles |-> RolesOf[who]]

(* What a request presents.  A JWT is the set of its claims, so that no    *)
(* token and one are told apart.                                           *)
Claims == [alg : STRING, signed : BOOLEAN, exp : SUBSET Int, nbf : SUBSET Int,
           iss : SUBSET STRING, aud : SUBSET STRING, sub : STRING,
           roles : [shape : STRING, of : SUBSET STRING]]

Value == [who : STRING, jwt : SUBSET Claims]

Presented == [Carriers -> Value \cup {None}]

(* What a program configures.                                              *)
Configured(fails) ==
  [mode : {"any", "all"}, fail : fails,
   of : Seq([kind : {"basic", "bearer"}]
            \cup [kind : {"apikey"}, header : BOOLEAN, query : BOOLEAN]
            \cup [kind : {"jwt"}, alg : STRING, from : Carriers, leeway : Int,
                  iss : SUBSET STRING, aud : SUBSET STRING, sub : SUBSET STRING])]

-----------------------------------------------------------------------------
(* Single authenticators.                                                  *)

(* Basic, Bearer and StaticBearer: the secret, if there is one, is         *)
(* verified.                                                               *)
Verify(value) ==
  IF value # None /\ value.who \in DOMAIN RolesOf THEN Accepted(value.who)
  ELSE Refused

(* APIKeyAuth: the header, and the query only if the header is empty.      *)
(* With neither configured it is the default header.                       *)
APIKey(a, cred) ==
  LET header == a.header \/ ~a.query
  IN  IF header /\ cred["keyheader"] # None THEN Verify(cred["keyheader"])
      ELSE IF a.query THEN Verify(cred["keyquery"]) ELSE Refused

NotAString == "not a string"

(* claimsRoles: a string is one role, of a list the strings count, and any *)
(* other claim gives none.                                                 *)
ClaimsRoles(claim) ==
  CASE claim.shape = "string" -> claim.of
    [] claim.shape = "list"   -> claim.of \ {NotAString}
    [] OTHER                  -> {}

(* jwt.Parse with the options of newAuthenticator.  Of exp, nbf, iss, aud  *)
(* and sub the ones that the token has, or that are configured, are        *)
(* checked; the leeway applies to both times.                              *)
Parses(a, claims) ==
  /\ claims.alg = a.alg
  /\ claims.signed
  /\ \A t \in claims.exp : 0 < t + a.leeway
  /\ \A t \in claims.nbf : t - a.leeway <= 0
  /\ a.iss \subseteq claims.iss /\ a.aud \subseteq claims.aud
  /\ a.sub \subseteq {claims.sub}

(* The Extractor finds a value, it is a token that parses, and             *)
(* defaultMapper makes an Identity of its claims.                          *)
JWT(a, cred) ==
  LET tokens == IF cred[a.from] = None THEN {} ELSE cred[a.from].jwt
  IN  IF \E claims \in tokens : Parses(a, claims)
      THEN LET claims == CHOOSE t \in tokens : TRUE
           IN  [kind |-> "identity", sub |-> claims.sub,
                roles |-> ClaimsRoles(claims.roles)]
      ELSE Refused

Single(a, cred) ==
  CASE a.kind = "basic"  -> Verify(cred["basic"])
    [] a.kind = "bearer" -> Verify(cred["bearer"])
    [] a.kind = "apikey" -> APIKey(a, cred)
    [] a.kind = "jwt"    -> JWT(a, cred)

-----------------------------------------------------------------------------
(* Composition.  The outcomes are those of the authenticators in order.    *)

(* Mutant of AnyOf: it goes on, and the last outcome counts.               *)
AnyOfTakesLast(outcomes) ==
  IF outcomes = << >> THEN Refused ELSE outcomes[Len(outcomes)]

(* The first success.                                                      *)
AnyOf(outcomes) ==
  LET successes == {k \in DOMAIN outcomes : outcomes[k] # Refused}
  IN  IF successes = {} THEN Refused ELSE outcomes[Min(successes)]

(* The last, if all succeed; of none at all, no Identity and no error.     *)
AllOf(outcomes) ==
  CASE outcomes = << >> -> NilIdentity
    [] \E k \in DOMAIN outcomes : outcomes[k] = Refused -> Refused
    [] OTHER -> outcomes[Len(outcomes)]

Authenticate(a, cred) ==
  LET outcomes == [k \in DOMAIN a.of |-> Single(a.of[k], cred)]
  IN  IF a.mode = "any" THEN AnyOf(outcomes) ELSE AllOf(outcomes)

(* roleAuthorizer.Authorize: 0 for nil, or the status of the error.        *)
RoleCheck(required, id) ==
  LET enough == IF required.all THEN required.roles \subseteq id.roles
                ELSE required.roles \cap id.roles # {}
  IN  IF id = NilIdentity THEN 401 ELSE IF enough THEN 0 ELSE 403
=============================================================================
