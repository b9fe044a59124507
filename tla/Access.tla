------------------------------- MODULE Access -------------------------------
(***************************************************************************)
(* How a request gets in: the middlewares and checks every request walks   *)
(* through, in their order (main.ts:configureApplication): body parser,    *)
(* AuthenticationMiddleware, RateLimitMiddleware, and the guards at the    *)
(* head of the DataAccessController's handlers.                            *)
(*                                                                         *)
(* Authentication awaits: a promise of the key resolver that all requests  *)
(* share (OidcAuthenticationService.jwksResolverPromise), fed by one       *)
(* discovery request to the identity provider, and the verification of     *)
(* the token.  The rest of a request's way is synchronous; between two     *)
(* awaits the other requests, the provider and the clock move.             *)
(***************************************************************************)
EXTENDS Authorization, Integers, FiniteSets

CONSTANTS
    Requests,
    Subjects, Addresses,
    Asked,              \* the requests the clients send
    Configs,            \* the runtime configurations
    NoPolicy,           \* config.authentication.authorization is left out
    RateLimitMax, StatusRateLimitMax, WindowMs, MaxLate, MaxTime, MaxCount

-----------------------------------------------------------------------------
(* Requests and configurations. *)

(***************************************************************************)
(* The handlers, with the channel each one authorizes: the schema channel, *)
(* a CRUD operation, or none at all.                                       *)
(***************************************************************************)
Channel ==
    [tableNames |-> "schema", tableInfo |-> "schema", describeTable |-> "schema",
     fetch |-> "read", index |-> "read", getRecord |-> "read",
     getColumnFromRecord |-> "read", createRecord |-> "create",
     updateColumnForRecord |-> "update", updateRecord |-> "update",
     deleteRecord |-> "delete", docs |-> "none", status |-> "none"]

Endpoints == DOMAIN Channel

\* The handlers that ask the database for the key columns before anything else.
RecordEndpoints == {"getRecord", "getColumnFromRecord", "updateColumnForRecord",
                    "updateRecord", "deleteRecord"}

(***************************************************************************)
(* A bearer token: whose it is and its roles, and whether it verifies and  *)
(* maps to a principal.  NoHeader and NotBearer are what else can be sent. *)
(***************************************************************************)
Tokens    == [subject : Subjects, roles : SUBSET Roles, valid : BOOLEAN]
NoHeader  == [subject |-> "", roles |-> {}, valid |-> FALSE]
NotBearer == [subject |-> "?", roles |-> {}, valid |-> FALSE]

(***************************************************************************)
(* A request.  fault is what is wrong with it: its body is too large or    *)
(* no JSON, its table name or fetch envelope does not validate, or one of  *)
(* its other arguments does not.                                           *)
(***************************************************************************)
Faults == {"none", "tooLarge", "noJson", "table", "arguments"}

Request ==
    [endpoint : Endpoints, table : Tables, address : Addresses,
     header : Tokens \cup {NoHeader, NotBearer}, fault : Faults]

\* An accepted configuration; authentication needs an authorization section.
IsConfig(c) ==
    /\ DOMAIN c = {"enabled", "jwksUrl", "enableSchemaFeatures", "authorization"}
    /\ c.enabled \in BOOLEAN
    /\ c.enableSchemaFeatures \in BOOLEAN
    /\ c.jwksUrl \in {"none", "valid", "invalid"}
    /\ c.authorization = NoPolicy \/ IsPolicy(c.authorization)
    /\ c.enabled => c.authorization # NoPolicy

\* The principals mapPrincipal makes.
Principal == [subject : Subjects, roles : SUBSET Roles]

ASSUME AccessAssumption ==
    /\ Asked \subseteq Request
    /\ \A c \in Configs : IsConfig(c)
    /\ NoPrincipal \notin Subjects \cup Principal
    /\ \A roles \in SUBSET Roles : NoPrincipal # roles
    /\ {NoHeader, NotBearer} \cap Tokens = {}

\* What RateLimiter assumes (readPositiveInteger accepts nothing else).
ASSUME LimitsAssumption ==
    /\ RateLimitMax \in Nat \ {0}
    /\ StatusRateLimitMax \in Nat \ {0}
    /\ WindowMs \in Nat \ {0}
    /\ MaxLate \in Nat
    /\ MaxTime \in Nat
    /\ MaxCount \in Nat
    /\ NoPrincipal \notin [count : Nat \ {0}, resetAt : Nat]

VARIABLES
    now, buckets, nextPrune, pruning, verdict, recent, \* the RateLimiter
    config,     \* the runtime configuration
    provider,   \* "up" or "out": does the identity provider answer?
    resolver,   \* jwksResolverPromise: null, pending, resolved, rejected
    discoveries,\* history: how often discovery was started
    ask,        \* [Requests -> what it asks]
    pc,         \* [Requests -> what it waits for]
    principal,  \* [Requests -> the principal of its context, or NoPrincipal]
    status,     \* [Requests -> the status of its response, 0 before]
    charged,    \* history: [Requests -> the budgets it was counted in]
    outage      \* history: [Requests -> was the provider out while it ran?]

limiterVars == <<now, buckets, nextPrune, pruning, verdict, recent>>
oidcVars    == <<provider, resolver, discoveries>>
vars == <<limiterVars, oidcVars, config, ask, pc, principal, status, charged, outage>>

Limiter == INSTANCE RateLimiter WITH Nobody <- NoPrincipal,
    Asked <- [principal : Subjects \cup {NoPrincipal}, address : Addresses,
              isStatus : BOOLEAN]

\* Whatever the service answers stands for its success.
Served == 200

TypeOK ==
    /\ Limiter!TypeOK
    /\ config \in Configs
    /\ provider \in {"up", "out"}
    /\ resolver \in {"null", "pending", "resolved", "rejected"}
    /\ discoveries \in Nat
    /\ ask \in [Requests -> Asked]
    /\ pc \in [Requests -> {"idle", "jwks", "verify", "handler", "service",
                            "answered"}]
    /\ principal \in [Requests -> Principal \cup {NoPrincipal}]
    /\ status \in [Requests -> {0, Served, 400, 401, 403, 404, 413, 429, 503}]
    /\ charged \in [Requests -> SUBSET Limiter!Keys]
    /\ outage \in [Requests -> BOOLEAN]

Init ==
    /\ Limiter!Init
    /\ config \in Configs
    /\ provider \in {"up", "out"}
    /\ resolver = "null"
    /\ discoveries = 0
    /\ ask \in [Requests -> Asked]
    /\ pc = [r \in Requests |-> "idle"]
    /\ principal = [r \in Requests |-> NoPrincipal]
    /\ status = [r \in Requests |-> 0]
    /\ charged = [r \in Requests |-> {}]
    /\ outage = [r \in Requests |-> FALSE]

-----------------------------------------------------------------------------
(* Helpers. *)

Goto(r, next) == pc' = [pc EXCEPT ![r] = next] /\ UNCHANGED status

Answer(r, code) ==
    /\ pc' = [pc EXCEPT ![r] = "answered"]
    /\ status' = [status EXCEPT ![r] = code]

LimiterUnchanged == UNCHANGED <<limiterVars, charged>>

\* RateLimitMiddleware.use, called by next() with the request's context.
RateLimit(r, p) ==
    /\ Limiter!Use(IF p = NoPrincipal THEN p ELSE p.subject,
                   ask[r].address, ask[r].endpoint = "status")
    /\ charged' = [charged EXCEPT ![r] = @ \cup {verdict'.key}]
    /\ IF verdict'.admitted THEN Goto(r, "handler") ELSE Answer(r, 429)

-----------------------------------------------------------------------------
(* Authentication. *)

\* Requests outside /api/data-access and /api/docs need none.
RequiresAuthentication(r) == ask[r].endpoint # "status"

\* Slip: the promise is remembered only once it has settled.
GetJwksResolverAwaited ==
    IF resolver \in {"null", "pending"}
    THEN /\ resolver' = CASE config.jwksUrl = "none"  -> "pending"
                          [] config.jwksUrl = "valid" -> "resolved"
                          [] OTHER                    -> "rejected"
         /\ discoveries' = IF config.jwksUrl = "none" THEN discoveries + 1
                           ELSE discoveries
    ELSE UNCHANGED <<resolver, discoveries>>

\* The promise is made once: a configured URL needs no discovery.
GetJwksResolver ==
    IF resolver = "null"
    THEN /\ resolver' = CASE config.jwksUrl = "none"  -> "pending"
                          [] config.jwksUrl = "valid" -> "resolved"
                          [] OTHER                    -> "rejected"
         /\ discoveries' = IF config.jwksUrl = "none" THEN discoveries + 1
                           ELSE discoveries
    ELSE UNCHANGED <<resolver, discoveries>>

(***************************************************************************)
(* The body is read and the middlewares run up to the first await: a body  *)
(* that cannot be taken is refused before anyone asks who sent it; a       *)
(* request without an Authorization header goes on without a principal.    *)
(***************************************************************************)
Enter(r) ==
    /\ pc[r] = "idle"
    /\ outage' = [outage EXCEPT ![r] = provider = "out"]
    /\ IF ask[r].fault \in {"tooLarge", "noJson"}
       THEN /\ Answer(r, IF ask[r].fault = "tooLarge" THEN 413 ELSE 400)
            /\ LimiterUnchanged
            /\ UNCHANGED <<resolver, discoveries>>
       ELSE IF ~config.enabled \/ ~RequiresAuthentication(r) \/ ask[r].header = NoHeader
       THEN RateLimit(r, NoPrincipal) /\ UNCHANGED <<resolver, discoveries>>
       ELSE IF ask[r].header = NotBearer
       THEN /\ Answer(r, 401) /\ LimiterUnchanged
            /\ UNCHANGED <<resolver, discoveries>>
       ELSE GetJwksResolver /\ Goto(r, "jwks") /\ LimiterUnchanged
    /\ UNCHANGED <<provider, config, ask, principal>>

\* discoverJwksUrl ends: it got a JWKS endpoint from the provider, or threw.
DiscoveryEnds ==
    /\ resolver = "pending"
    /\ resolver' = IF provider = "up" THEN "resolved" ELSE "rejected"
    /\ UNCHANGED <<limiterVars, provider, discoveries, config, ask, pc,
                   principal, status, charged, outage>>

\* Slip: the rejection of the promise is not caught.
JwksAwaitedUncaught(r) ==
    /\ pc[r] = "jwks"
    /\ resolver = "resolved" /\ Goto(r, "verify")
    /\ LimiterUnchanged
    /\ UNCHANGED <<oidcVars, config, ask, principal, outage>>

\* authenticateAuthorizationHeader gets the resolver, or its rejection.
JwksAwaited(r) ==
    /\ pc[r] = "jwks"
    /\ \/ resolver = "resolved" /\ Goto(r, "verify")
       \/ resolver = "rejected" /\ Answer(r, 503)
    /\ LimiterUnchanged
    /\ UNCHANGED <<oidcVars, config, ask, principal, outage>>

\* Slip: the payload is attached as it is.
MapPrincipalRaw(token) == token

\* mapPrincipal: the claims that are mapped, and no others.
MapPrincipal(token) == [subject |-> token.subject, roles |-> token.roles]

\* Slip: the next middleware is called before the principal is attached.
VerifyTokenLate(r) ==
    /\ pc[r] = "verify"
    /\ \/ /\ ask[r].header.valid
          /\ principal' = [principal EXCEPT ![r] = MapPrincipal(ask[r].header)]
          /\ RateLimit(r, principal[r])
       \/ /\ ~ask[r].header.valid \/ provider = "out"
          /\ Answer(r, 401) /\ LimiterUnchanged /\ UNCHANGED principal
    /\ UNCHANGED <<oidcVars, config, ask, outage>>

(***************************************************************************)
(* jwtVerify and mapPrincipal; the context gets the principal and next()   *)
(* is called.  A good token is refused too when the keys it needs cannot   *)
(* be fetched (jose, outside this repository, may or may not have them).   *)
(***************************************************************************)
VerifyToken(r) ==
    /\ pc[r] = "verify"
    /\ \/ /\ ask[r].header.valid
          /\ principal' = [principal EXCEPT ![r] = MapPrincipal(ask[r].header)]
          /\ RateLimit(r, MapPrincipal(ask[r].header))
       \/ /\ ~ask[r].header.valid \/ provider = "out"
          /\ Answer(r, 401) /\ LimiterUnchanged /\ UNCHANGED principal
    /\ UNCHANGED <<oidcVars, config, ask, outage>>

-----------------------------------------------------------------------------
(* The head of a handler, up to its first call of the service. *)

\* authorizeSchemaAccess, authorizeCrud: does it return, or throw a 403?
Authorized(r) ==
    \/ config.authorization = NoPolicy
    \/ LET policy == config.authorization
           channel == Channel[ask[r].endpoint]
       IN  EvaluateGate(IF channel = "schema" THEN policy.schema
                        ELSE CrudGate(policy, ask[r].table, channel),
                        IF principal[r] = NoPrincipal THEN NoPrincipal
                        ELSE principal[r].roles)

\* The first check of the handler that fails, as a status, or 0.
Refusal(r) ==
    LET channel == Channel[ask[r].endpoint]
        fault   == ask[r].fault
    IN  CASE channel = "none" -> 0
          [] channel = "schema" ->
               IF ~config.enableSchemaFeatures THEN 404
               ELSE IF ~Authorized(r) THEN 403
               ELSE IF fault = "table" THEN 400 ELSE 0
          [] OTHER ->
               IF fault = "table" THEN 400
               ELSE IF ~Authorized(r) THEN 403
               ELSE IF fault = "arguments" /\ ask[r].endpoint \notin RecordEndpoints
               THEN 400 ELSE 0

Handle(r) ==
    /\ pc[r] = "handler"
    /\ IF Refusal(r) = 0 THEN Goto(r, "service") ELSE Answer(r, Refusal(r))
    /\ LimiterUnchanged
    /\ UNCHANGED <<oidcVars, config, ask, principal, outage>>

\* The service answers; a record endpoint checks its column or body on the way.
Serve(r) ==
    /\ pc[r] = "service"
    /\ Answer(r, IF ask[r].fault = "arguments" THEN 400 ELSE Served)
    /\ LimiterUnchanged
    /\ UNCHANGED <<oidcVars, config, ask, principal, outage>>

-----------------------------------------------------------------------------
(* The environment. *)

ProviderChanges ==
    /\ provider' = IF provider = "up" THEN "out" ELSE "up"
    /\ outage' = [r \in Requests |->
                    outage[r] \/ (provider' = "out" /\ pc[r] \notin {"idle", "answered"})]
    /\ UNCHANGED <<limiterVars, resolver, discoveries, config, ask, pc, principal,
                   status, charged>>

\* The clock and the timer of the rate limiter.
LimiterMoves ==
    /\ Limiter!Tick \/ Limiter!PruneExpiredBuckets
    /\ UNCHANGED <<oidcVars, config, ask, pc, principal, status, charged, outage>>

Step(r) == JwksAwaited(r) \/ VerifyToken(r) \/ Handle(r) \/ Serve(r)

Next ==
    \/ \E r \in Requests : Enter(r) \/ Step(r)
    \/ DiscoveryEnds
    \/ ProviderChanges
    \/ LimiterMoves

Spec == Init /\ [][Next]_vars

\* fetch() settles, and a settled promise resumes those who await it.
FairSpec == Spec /\ WF_vars(DiscoveryEnds) /\ \A r \in Requests : WF_vars(Step(r))

-----------------------------------------------------------------------------
(* Properties. *)

\* Who sent the request, told from its header and the configuration alone.
Sender(r) ==
    LET h == ask[r].header
    IN  IF config.enabled /\ ask[r].endpoint # "status" /\ h.valid
        THEN [subject |-> h.subject, roles |-> h.roles] ELSE NoPrincipal

\* A header that was sent where it counts has to be good.
HeaderAccepted(r) ==
    config.enabled /\ ask[r].endpoint # "status" =>
        ask[r].header = NoHeader \/ ask[r].header.valid

\* The gate that counts admits the sender.
GateAdmits(r) ==
    LET policy  == config.authorization
        channel == Channel[ask[r].endpoint]
        table   == ask[r].table
        roles   == IF Sender(r) = NoPrincipal THEN NoPrincipal ELSE Sender(r).roles
        special == table \in DOMAIN policy.tables /\ channel \in DOMAIN policy.tables[table]
    IN  policy # NoPolicy /\ channel # "none" =>
            IF channel = "schema" THEN Admits(policy.schema, roles)
            ELSE /\ special  => Admits(policy.tables[table][channel], roles)
                 /\ ~special => Admits(policy.default[channel], roles)

(***************************************************************************)
(* Whatever runs at the same time, each answer of the chain has its        *)
(* reason.  The service works for a request only when the header it sent,  *)
(* if any, is good, the endpoint is enabled and the gate of its channel    *)
(* admits the sender; a request without a header goes on as an anonymous   *)
(* one, whatever it asks for (TokenRequired is about those).  A 401 means  *)
(* a header that is no good, or a provider that was out meanwhile; a 403,  *)
(* a gate that does not admit the sender; a 404 of the chain, a schema     *)
(* endpoint that is switched off (authentication.middleware.ts:22-77,      *)
(* authorization.service.ts:13-33, data-access.controller.ts:147-488).     *)
(***************************************************************************)
AccessDecided ==
    \A r \in Requests :
        /\ pc[r] = "service" \/ status[r] = Served =>
               /\ HeaderAccepted(r)
               /\ GateAdmits(r)
               /\ Channel[ask[r].endpoint] = "schema" => config.enableSchemaFeatures
        /\ status[r] = 401 => ~HeaderAccepted(r) \/ outage[r]
        /\ status[r] = 403 => ~GateAdmits(r)
        /\ status[r] = 404 =>
               Channel[ask[r].endpoint] = "schema" /\ ~config.enableSchemaFeatures

(***************************************************************************)
(* A request is counted in the budget of the subject of its token, or of   *)
(* its address when it is anonymous, and in no other; it gets no further   *)
(* without; and one that authentication turns away is not counted at all   *)
(* (main.ts:141-150, rate-limit.middleware.ts:117-124).                    *)
(***************************************************************************)
ChargedToSender ==
    \A r \in Requests :
        LET s == Sender(r)
            budget == [status |-> ask[r].endpoint = "status",
                       who |-> IF s = NoPrincipal THEN <<"ip", ask[r].address>>
                               ELSE <<"subject", s.subject>>]
        IN  /\ charged[r] \subseteq {budget}
            /\ pc[r] \in {"handler", "service"} \/ status[r] \in {Served, 403, 429}
                   => charged[r] = {budget}
            /\ status[r] \in {401, 413, 503} => charged[r] = {}

(***************************************************************************)
(* However many requests wait for it, discovery is asked for once          *)
(* (oidc-authentication.service.ts:112-120).                               *)
(***************************************************************************)
DiscoveredOnce == discoveries <= 1

(***************************************************************************)
(* Every request is answered, also while the provider is out               *)
(* (authentication.middleware.ts:22-77).                                   *)
(***************************************************************************)
EveryRequestAnswered == \A r \in Requests : pc[r] # "idle" ~> pc[r] = "answered"

(***************************************************************************)
(* "Fetchlane could not reach the configured OIDC issuer discovery         *)
(* endpoint" (oidc-authentication.service.ts:160): a 503 of the            *)
(* authentication means that the provider was out while the request ran.   *)
(***************************************************************************)
UnavailableIsCurrent ==
    \A r \in Requests : status[r] = 503 => outage[r] \/ config.jwksUrl = "invalid"

(***************************************************************************)
(* "The request must carry a valid bearer JWT (...).  If not -> `401       *)
(* Unauthorized`" (README.md:95-97), "`/api/docs` requires a bearer token" *)
(* (README.md:214): with authentication enabled a request without one is   *)
(* not served, and the answer is not 403, unless its gate is open to       *)
(* anonymous callers (authorization.service.ts:21-22); the docs have no    *)
(* gate.                                                                   *)
(***************************************************************************)
TokenRequired ==
    \A r \in Requests :
        /\ config.enabled
        /\ ask[r].endpoint # "status"
        /\ Sender(r) = NoPrincipal
        /\ Channel[ask[r].endpoint] = "none" \/ ~GateAdmits(r)
        => status[r] \notin {Served, 403}
=============================================================================
