---------------------------- MODULE AccessProofs ----------------------------
(***************************************************************************)
(* Theorems about Access, for any requests, any configurations, any role   *)
(* policies, any limits and however the requests, the identity provider    *)
(* and the clock interleave.                                               *)
(***************************************************************************)
EXTENDS Access, AuthorizationProofs, TLAPS

-----------------------------------------------------------------------------
(* The rate limiter inside. *)

(***************************************************************************)
(* A request that is counted leaves the limiter's state well typed, and    *)
(* its verdict carries the budget of the identity it was called with       *)
(* (RateLimitMiddleware.use).                                              *)
(***************************************************************************)
LEMMA LimiterCounts ==
    ASSUME Limiter!TypeOK, NEW who \in Subjects \cup {NoPrincipal},
           NEW address \in Addresses, NEW isStatus \in BOOLEAN,
           Limiter!Use(who, address, isStatus)
    PROVE  /\ Limiter!TypeOK'
           /\ verdict'.key = [status |-> isStatus,
                              who |-> IF who = NoPrincipal THEN <<"ip", address>>
                                      ELSE <<"subject", who>>]
           /\ verdict'.key \in Limiter!Keys
           /\ verdict'.admitted \in BOOLEAN
<1> DEFINE k == Limiter!BuildRateLimitKey(who, address, isStatus)
           limit == IF isStatus THEN StatusRateLimitMax ELSE RateLimitMax
           b == Limiter!CountedBucket(k)
           pass == b.count <= limit
           left == Limiter!Remaining(limit, b.count)
           a == [at |-> now, nth |-> b.count, resetAt |-> b.resetAt]
<1>1. /\ k = [status |-> isStatus,
              who |-> IF who = NoPrincipal THEN <<"ip", address>> ELSE <<"subject", who>>]
      /\ k = [status |-> isStatus, who |-> Limiter!Identity(who, address)]
      /\ k \in Limiter!Keys
  BY AccessAssumption
     DEF Limiter!BuildRateLimitKey, Limiter!Identity, Limiter!Keys, Limiter!Who
<1>2. limit \in Nat
  BY LimitsAssumption
<1>3. b \in Limiter!Bucket /\ b.count \in Nat \ {0} /\ b.resetAt \in Nat
  BY <1>1, LimitsAssumption
     DEF Limiter!TypeOK, Limiter!CountedBucket, Limiter!Expired, Limiter!Bucket
<1>4. pass \in BOOLEAN /\ left \in Nat
  BY <1>2, <1>3 DEF Limiter!Remaining
<1>5. a \in Limiter!Admission
  BY <1>3 DEF Limiter!Admission, Limiter!TypeOK
<1>6. /\ buckets' = [x \in DOMAIN buckets \cup {k} |-> IF x = k THEN b ELSE buckets[x]]
      /\ verdict' = [key |-> k, admitted |-> pass, remaining |-> left, resetAt |-> b.resetAt]
      /\ recent' = [recent EXCEPT ![k] = IF pass THEN @ \cup {a} ELSE @]
      /\ UNCHANGED <<now, nextPrune, pruning>>
  BY <1>1 DEF Limiter!Use
<1> HIDE DEF k, b, limit, pass, left, a
<1>7. DOMAIN buckets' \subseteq Limiter!Keys /\ buckets' \in [DOMAIN buckets' -> Limiter!Bucket]
  BY <1>1, <1>3, <1>6 DEF Limiter!TypeOK
<1>8. verdict' \in Limiter!Response
  BY <1>1, <1>3, <1>4, <1>6 DEF Limiter!Response
<1>9. recent' \in [Limiter!Keys -> SUBSET Limiter!Admission]
  BY <1>1, <1>5, <1>6 DEF Limiter!TypeOK
<1> QED
  BY <1>1, <1>4, <1>6, <1>7, <1>8, <1>9 DEF Limiter!TypeOK

\* The clock and the sweep keep the limiter's types.
LEMMA LimiterTurns ==
    ASSUME Limiter!TypeOK, Limiter!Tick \/ Limiter!PruneExpiredBuckets
    PROVE  Limiter!TypeOK'
<1>1. CASE Limiter!Tick
  <2>1. now' \in Nat
    BY <1>1 DEF Limiter!Tick, Limiter!TypeOK
  <2>2. recent' \in [Limiter!Keys -> SUBSET Limiter!Admission]
    BY <1>1 DEF Limiter!Tick, Limiter!TypeOK
  <2> QED
    BY <1>1, <2>1, <2>2 DEF Limiter!TypeOK, Limiter!Tick
<1>2. CASE Limiter!PruneExpiredBuckets
  BY <1>2, LimitsAssumption
     DEF Limiter!TypeOK, Limiter!PruneExpiredBuckets, Limiter!Survivors
<1> QED
  BY <1>1, <1>2

\* What leaves the limiter alone keeps its types.
LEMMA LimiterStays ==
    ASSUME Limiter!TypeOK, UNCHANGED limiterVars
    PROVE  Limiter!TypeOK'
  BY DEF Limiter!TypeOK, limiterVars

\* A middleware starts with no bucket, no verdict and no history.
LEMMA LimiterStarts == Limiter!Init => Limiter!TypeOK
  BY LimitsAssumption
     DEF Limiter!Init, Limiter!TypeOK, Limiter!NoResponse, Limiter!Bucket

-----------------------------------------------------------------------------
(* Types. *)

\* What a client sends and how the server is configured (loadRuntimeConfig).
LEMMA AskType ==
    ASSUME TypeOK, NEW r \in Requests
    PROVE  /\ ask[r].endpoint \in Endpoints
           /\ ask[r].table \in Tables
           /\ ask[r].address \in Addresses
           /\ ask[r].header \in Tokens \cup {NoHeader, NotBearer}
           /\ ask[r].fault \in Faults
           /\ IsConfig(config)
<1>1. ask[r] \in Request
  BY AccessAssumption DEF TypeOK
<1>2. IsConfig(config)
  BY AccessAssumption DEF TypeOK
<1> QED
  BY <1>1, <1>2 DEF Request

\* A header that verifies is a bearer token, and maps to a principal
\* (mapPrincipal).
LEMMA TokenType ==
    ASSUME NEW h \in Tokens \cup {NoHeader, NotBearer}
    PROVE  /\ h.valid \in BOOLEAN
           /\ h.valid => h \in Tokens
           /\ h \in Tokens => /\ MapPrincipal(h) \in Principal
                              /\ MapPrincipal(h) # NoPrincipal
                              /\ MapPrincipal(h).subject \in Subjects
           /\ h \notin {NoHeader, NotBearer} => h \in Tokens
<1>1. CASE h \in Tokens
  <2>1. h.valid \in BOOLEAN /\ h.subject \in Subjects /\ h.roles \in SUBSET Roles
    BY <1>1 DEF Tokens
  <2>2. MapPrincipal(h) \in Principal /\ MapPrincipal(h).subject = h.subject
    BY <2>1 DEF MapPrincipal, Principal
  <2> QED
    BY <1>1, <2>1, <2>2, AccessAssumption
<1>2. CASE h \in {NoHeader, NotBearer}
  <2>1. h.valid = FALSE
    <3>1. NoHeader.valid = FALSE
      BY DEF NoHeader
    <3>2. NotBearer.valid = FALSE
      BY DEF NotBearer
    <3> QED
      BY <1>2, <3>1, <3>2
  <2>2. h \notin Tokens
    BY <1>2, AccessAssumption
  <2> QED
    BY <1>2, <2>1, <2>2
<1> QED
  BY <1>1, <1>2

\* The budget in which a request with the principal p in its context counts.
Owed(r, p) ==
    [status |-> ask[r].endpoint = "status",
     who |-> IF p = NoPrincipal THEN <<"ip", ask[r].address>>
             ELSE <<"subject", p.subject>>]

(***************************************************************************)
(* The rate limiter counts a request in the budget it owes and lets it     *)
(* pass or refuses it (RateLimitMiddleware.use).                           *)
(***************************************************************************)
LEMMA RateLimitCharges ==
    ASSUME TypeOK, NEW r \in Requests, NEW p \in Principal \cup {NoPrincipal},
           RateLimit(r, p)
    PROVE  /\ Limiter!TypeOK'
           /\ Owed(r, p) \in Limiter!Keys
           /\ charged' = [charged EXCEPT ![r] = @ \cup {Owed(r, p)}]
           /\ Goto(r, "handler") \/ Answer(r, 429)
<1> DEFINE who == IF p = NoPrincipal THEN p ELSE p.subject
           isStatus == ask[r].endpoint = "status"
<1>1. who \in Subjects \cup {NoPrincipal} /\ (who = NoPrincipal <=> p = NoPrincipal)
  BY AccessAssumption DEF Principal
<1>2. ask[r].address \in Addresses
  BY AskType
<1>3. isStatus \in BOOLEAN
  OBVIOUS
<1>4. Limiter!Use(who, ask[r].address, isStatus)
  BY DEF RateLimit
<1>5. p # NoPrincipal => who = p.subject
  OBVIOUS
<1> HIDE DEF who, isStatus
<1>6. /\ Limiter!TypeOK'
      /\ verdict'.key = [status |-> isStatus,
                         who |-> IF who = NoPrincipal THEN <<"ip", ask[r].address>>
                                 ELSE <<"subject", who>>]
      /\ verdict'.key \in Limiter!Keys
  BY <1>1, <1>2, <1>3, <1>4, LimiterCounts DEF TypeOK
<1>7. verdict'.key = Owed(r, p)
  BY <1>1, <1>5, <1>6 DEF Owed, isStatus
<1> QED
  BY <1>6, <1>7 DEF RateLimit

\* Where a request stands and what it was answered, typed.
Placed ==
    /\ pc \in [Requests -> {"idle", "jwks", "verify", "handler", "service", "answered"}]
    /\ status \in [Requests -> {0, Served, 400, 401, 403, 404, 413, 429, 503}]

\* A request goes on to its next await, unanswered.
LEMMA GotoPlaced ==
    ASSUME Placed, NEW r \in Requests,
           NEW next \in {"idle", "jwks", "verify", "handler", "service", "answered"},
           Goto(r, next)
    PROVE  Placed'
  BY DEF Placed, Goto

\* A request is answered.
LEMMA AnswerPlaced ==
    ASSUME Placed, NEW r \in Requests,
           NEW code \in {0, Served, 400, 401, 403, 404, 413, 429, 503},
           Answer(r, code)
    PROVE  Placed'
  BY DEF Placed, Answer

\* The handlers refuse with 400, 403 or 404 (data-access.controller.ts).
LEMMA RefusalType ==
    ASSUME NEW r \in Requests
    PROVE  Refusal(r) \in {0, 404, 403, 400}
  BY DEF Refusal

\* The first state of the service is well typed.
LEMMA TypeInit == Init => TypeOK
  BY LimiterStarts DEF Init, TypeOK, Served

\* A promise of the resolver that is made is pending or settled.
LEMMA ResolverType ==
    ASSUME TypeOK, GetJwksResolver
    PROVE  /\ resolver' \in {"null", "pending", "resolved", "rejected"}
           /\ discoveries' \in Nat
  BY DEF TypeOK, GetJwksResolver

(***************************************************************************)
(* Every middleware, handler and callback keeps the types.                 *)
(***************************************************************************)
LEMMA TypeStep == TypeOK /\ [Next]_vars => TypeOK'
<1> SUFFICES ASSUME TypeOK, [Next]_vars PROVE TypeOK'
  OBVIOUS
<1> USE DEF Served
<1>0. Placed
  BY DEF TypeOK, Placed
<1>1. ASSUME NEW r \in Requests, Enter(r)
      PROVE  TypeOK'
  <2>1. /\ UNCHANGED <<provider, config, ask, principal>>
        /\ outage' = [outage EXCEPT ![r] = provider = "out"]
    BY <1>1 DEF Enter
  <2>2. outage' \in [Requests -> BOOLEAN]
    BY <2>1 DEF TypeOK
  <2>3. /\ Limiter!TypeOK'
        /\ charged' \in [Requests -> SUBSET Limiter!Keys]
        /\ resolver' \in {"null", "pending", "resolved", "rejected"}
        /\ discoveries' \in Nat
        /\ Placed'
    <3>1. CASE RateLimit(r, NoPrincipal) /\ UNCHANGED <<resolver, discoveries>>
      <4>1. /\ Limiter!TypeOK'
            /\ Owed(r, NoPrincipal) \in Limiter!Keys
            /\ charged' = [charged EXCEPT ![r] = @ \cup {Owed(r, NoPrincipal)}]
            /\ Goto(r, "handler") \/ Answer(r, 429)
        BY <3>1, RateLimitCharges
      <4>2. charged' \in [Requests -> SUBSET Limiter!Keys]
        BY <4>1 DEF TypeOK
      <4>3. Placed'
        BY <1>0, <4>1, GotoPlaced, AnswerPlaced
      <4> QED
        BY <3>1, <4>1, <4>2, <4>3 DEF TypeOK
    <3>2. CASE /\ LimiterUnchanged /\ UNCHANGED <<resolver, discoveries>>
               /\ Answer(r, 413) \/ Answer(r, 400) \/ Answer(r, 401)
      <4>1. Placed'
        BY <1>0, <3>2, AnswerPlaced
      <4> QED
        BY <3>2, <4>1, LimiterStays DEF LimiterUnchanged, TypeOK
    <3>3. CASE GetJwksResolver /\ Goto(r, "jwks") /\ LimiterUnchanged
      <4>1. Placed'
        BY <1>0, <3>3, GotoPlaced
      <4> QED
        BY <3>3, <4>1, LimiterStays, ResolverType DEF LimiterUnchanged, TypeOK
    <3> QED
      BY <1>1, <3>1, <3>2, <3>3 DEF Enter
  <2> QED
    BY <2>1, <2>2, <2>3 DEF TypeOK, Placed
<1>2. ASSUME NEW r \in Requests, JwksAwaited(r) \/ Handle(r) \/ Serve(r)
      PROVE  TypeOK'
  <2>1. /\ LimiterUnchanged
        /\ UNCHANGED <<oidcVars, config, ask, principal, outage>>
    BY <1>2 DEF JwksAwaited, Handle, Serve
  <2>2. Placed'
    <3>1. CASE JwksAwaited(r)
      BY <1>0, <3>1, GotoPlaced, AnswerPlaced DEF JwksAwaited
    <3>2. CASE Handle(r)
      BY <1>0, <3>2, GotoPlaced, AnswerPlaced, RefusalType DEF Handle
    <3>3. CASE Serve(r)
      BY <1>0, <3>3, AnswerPlaced DEF Serve
    <3> QED
      BY <1>2, <3>1, <3>2, <3>3
  <2> QED
    BY <2>1, <2>2, LimiterStays DEF TypeOK, Placed, LimiterUnchanged, oidcVars
<1>3. ASSUME NEW r \in Requests, VerifyToken(r)
      PROVE  TypeOK'
  <2>1. UNCHANGED <<oidcVars, config, ask, outage>>
    BY <1>3 DEF VerifyToken
  <2>2. /\ Limiter!TypeOK' /\ Placed'
        /\ charged' \in [Requests -> SUBSET Limiter!Keys]
        /\ principal' \in [Requests -> Principal \cup {NoPrincipal}]
    <3>1. CASE /\ ask[r].header.valid
               /\ principal' = [principal EXCEPT ![r] = MapPrincipal(ask[r].header)]
               /\ RateLimit(r, MapPrincipal(ask[r].header))
      <4>1. PICK p \in Principal : p = MapPrincipal(ask[r].header)
        BY <3>1, AskType, TokenType
      <4>2. principal' = [principal EXCEPT ![r] = p] /\ RateLimit(r, p)
        BY <3>1, <4>1
      <4>3. /\ Limiter!TypeOK'
            /\ Owed(r, p) \in Limiter!Keys
            /\ charged' = [charged EXCEPT ![r] = @ \cup {Owed(r, p)}]
            /\ Goto(r, "handler") \/ Answer(r, 429)
        BY <4>2, RateLimitCharges
      <4>4. Placed'
        BY <1>0, <4>3, GotoPlaced, AnswerPlaced
      <4> QED
        BY <4>2, <4>3, <4>4 DEF TypeOK
    <3>2. CASE Answer(r, 401) /\ LimiterUnchanged /\ UNCHANGED principal
      <4>1. Placed'
        BY <1>0, <3>2, AnswerPlaced
      <4> QED
        BY <3>2, <4>1, LimiterStays DEF LimiterUnchanged, TypeOK
    <3> QED
      BY <1>3, <3>1, <3>2 DEF VerifyToken
  <2> QED
    BY <2>1, <2>2 DEF TypeOK, Placed, oidcVars
<1>4. CASE DiscoveryEnds
  BY <1>4, LimiterStays DEF DiscoveryEnds, TypeOK
<1>5. CASE ProviderChanges
  <2>1. outage' \in [Requests -> BOOLEAN] /\ provider' \in {"up", "out"}
    BY <1>5 DEF ProviderChanges, TypeOK
  <2> QED
    BY <1>5, <2>1, LimiterStays DEF ProviderChanges, TypeOK
<1>6. CASE LimiterMoves
  BY <1>6, LimiterTurns DEF LimiterMoves, TypeOK, oidcVars
<1>7. CASE UNCHANGED vars
  BY <1>7, LimiterStays DEF vars, TypeOK, oidcVars
<1> QED
  BY <1>1, <1>2, <1>3, <1>4, <1>5, <1>6, <1>7 DEF Next, Step

(***************************************************************************)
(* For all requests, configurations and limits: the middlewares keep their *)
(* state well typed; the principal of a context is one that mapPrincipal   *)
(* made, or none (main.ts:141-150).                                        *)
(***************************************************************************)
THEOREM TypeCorrect == Spec => []TypeOK
<1>1. Init => TypeOK
  BY TypeInit
<1>2. TypeOK /\ [Next]_vars => TypeOK'
  BY TypeStep
<1> QED
  BY <1>1, <1>2, PTL DEF Spec

-----------------------------------------------------------------------------
(* Discovery. *)

(***************************************************************************)
(* Why one discovery is enough: the promise is remembered from the moment  *)
(* it is made, also while it is pending (getJwksResolver).                 *)
(***************************************************************************)
DiscoveryInv ==
    /\ discoveries \in {0, 1}
    /\ resolver = "null" => discoveries = 0

\* A request that finds no promise makes it, one that finds it does not.
LEMMA ResolverOnce ==
    ASSUME DiscoveryInv, GetJwksResolver \/ UNCHANGED <<resolver, discoveries>>
    PROVE  DiscoveryInv'
  BY DEF DiscoveryInv, GetJwksResolver

(***************************************************************************)
(* The identity provider is asked at most once for its JWKS endpoint,      *)
(* however many requests arrive before it answers, and also when it fails  *)
(* (oidc-authentication.service.ts:112-120).                               *)
(***************************************************************************)
THEOREM DiscoveryOnce == Spec => []DiscoveredOnce
<1>1. Init => DiscoveryInv
  BY DEF Init, DiscoveryInv
<1>2. DiscoveryInv /\ [Next]_vars => DiscoveryInv'
  <2> SUFFICES ASSUME DiscoveryInv, [Next]_vars PROVE DiscoveryInv'
    OBVIOUS
  <2>1. ASSUME NEW r \in Requests, Enter(r)
        PROVE  GetJwksResolver \/ UNCHANGED <<resolver, discoveries>>
    BY <2>1 DEF Enter
  <2>2. ASSUME NEW r \in Requests, Step(r)
        PROVE  UNCHANGED <<resolver, discoveries>>
    BY <2>2 DEF Step, JwksAwaited, VerifyToken, Handle, Serve, oidcVars
  <2>3. CASE DiscoveryEnds
    BY <2>3 DEF DiscoveryEnds, DiscoveryInv
  <2>4. CASE ProviderChanges \/ LimiterMoves \/ UNCHANGED vars
    BY <2>4 DEF ProviderChanges, LimiterMoves, vars, oidcVars, DiscoveryInv
  <2> QED
    BY <2>1, <2>2, <2>3, <2>4, ResolverOnce DEF Next
<1>3. DiscoveryInv => DiscoveredOnce
  BY DEF DiscoveryInv, DiscoveredOnce
<1> QED
  BY <1>1, <1>2, <1>3, PTL DEF Spec
-----------------------------------------------------------------------------
(* Who is asking, and what the gates say. *)

\* The budget of a request, told from what it sent.
Budget(r) == Owed(r, Sender(r))

\* The sender is nobody, or the principal its token maps to; nothing else counts.
LEMMA SenderType ==
    ASSUME TypeOK, NEW r \in Requests
    PROVE  /\ Sender(r) \in Principal \cup {NoPrincipal}
           /\ ~config.enabled \/ ask[r].endpoint = "status" \/ ask[r].header = NoHeader
                => Sender(r) = NoPrincipal /\ HeaderAccepted(r)
           /\ config.enabled /\ ask[r].endpoint # "status" /\ ask[r].header.valid
                => Sender(r) = MapPrincipal(ask[r].header) /\ HeaderAccepted(r)
<1>1. NoHeader.valid = FALSE
  BY DEF NoHeader
<1>2. PICK h \in Tokens \cup {NoHeader, NotBearer} : h = ask[r].header
  BY AskType
<1>3. /\ h.valid \in BOOLEAN
      /\ h.valid => MapPrincipal(h) \in Principal
  BY TokenType
<1>4. Sender(r) = IF config.enabled /\ ask[r].endpoint # "status" /\ h.valid
                  THEN MapPrincipal(h) ELSE NoPrincipal
  BY <1>2 DEF Sender, MapPrincipal
<1> QED
  BY <1>1, <1>2, <1>3, <1>4 DEF HeaderAccepted

\* Every handler authorizes a CRUD operation, the schema channel, or nothing.
LEMMA ChannelType ==
    ASSUME TypeOK, NEW r \in Requests
    PROVE  Channel[ask[r].endpoint] \in CrudOperations \cup {"schema", "none"}
<1>1. \A e \in Endpoints : Channel[e] \in CrudOperations \cup {"schema", "none"}
  BY DEF Endpoints, Channel, CrudOperations
<1> QED
  BY <1>1, AskType

\* The gate that is found for a channel is one of the configured gates.
LEMMA GateType ==
    ASSUME NEW policy, IsPolicy(policy), NEW t \in Tables, NEW o \in CrudOperations
    PROVE  /\ CrudGate(policy, t, o) \in RoleGate
           /\ policy.schema \in RoleGate
  BY DEF IsPolicy, CrudGate

(***************************************************************************)
(* With the sender in its context, the authorization of a request admits   *)
(* exactly whom the gate of its channel admits (authorizeCrud and          *)
(* authorizeSchemaAccess).                                                 *)
(***************************************************************************)
LEMMA GateDecides ==
    ASSUME TypeOK, NEW r \in Requests, principal[r] = Sender(r),
           Channel[ask[r].endpoint] # "none"
    PROVE  Authorized(r) <=> GateAdmits(r)
<1>1. CASE config.authorization = NoPolicy
  BY <1>1 DEF Authorized, GateAdmits
<1>2. CASE config.authorization # NoPolicy
  <2>1. PICK policy : policy = config.authorization
    OBVIOUS
  <2>2. PICK channel : channel = Channel[ask[r].endpoint]
    OBVIOUS
  <2>3. PICK t : t = ask[r].table
    OBVIOUS
  <2>4. PICK caller : caller = IF Sender(r) = NoPrincipal THEN NoPrincipal
                               ELSE Sender(r).roles
    OBVIOUS
  <2>5. /\ IsPolicy(policy) /\ t \in Tables
        /\ channel \in CrudOperations \cup {"schema"}
    BY <1>2, <2>1, <2>2, <2>3, AskType, ChannelType DEF IsConfig
  <2>6. caller \in Callers
    BY <2>4, SenderType DEF Principal, Callers
  <2>7. CASE channel = "schema"
    <3>1. policy.schema \in RoleGate
      BY <2>5 DEF IsPolicy
    <3>2. EvaluateGate(policy.schema, caller) <=> Admits(policy.schema, caller)
      BY <2>6, <3>1, GateAsDocumented
    <3>3. Authorized(r) <=> EvaluateGate(policy.schema, caller)
      BY <1>2, <2>1, <2>2, <2>4, <2>7 DEF Authorized
    <3>4. GateAdmits(r) <=> Admits(policy.schema, caller)
      BY <1>2, <2>1, <2>2, <2>4, <2>7 DEF GateAdmits
    <3> QED
      BY <3>2, <3>3, <3>4
  <2>8. CASE channel \in CrudOperations
    <3>1. channel # "schema" /\ channel # "none"
      BY <2>8 DEF CrudOperations
    <3>2. CrudGate(policy, t, channel) \in RoleGate
      BY <2>5, <2>8, GateType
    <3>3. EvaluateGate(CrudGate(policy, t, channel), caller)
          <=> Admits(CrudGate(policy, t, channel), caller)
      BY <2>6, <3>2, GateAsDocumented
    <3>4. Authorized(r) <=> EvaluateGate(CrudGate(policy, t, channel), caller)
      BY <1>2, <2>1, <2>2, <2>3, <2>4, <3>1 DEF Authorized
    <3>5. GateAdmits(r) <=> Admits(CrudGate(policy, t, channel), caller)
      BY <1>2, <2>1, <2>2, <2>3, <2>4, <3>1 DEF GateAdmits, CrudGate
    <3> QED
      BY <3>3, <3>4, <3>5
  <2> QED
    BY <2>5, <2>7, <2>8
<1> QED
  BY <1>1, <1>2

(***************************************************************************)
(* What the checks at the head of a handler come to: who passes them all   *)
(* is admitted and asks for nothing that is switched off, who gets a 403   *)
(* is not admitted, and a 404 is for what is switched off                  *)
(* (data-access.controller.ts:147-488).                                    *)
(***************************************************************************)
LEMMA RefusalDecides ==
    ASSUME TypeOK, NEW r \in Requests, principal[r] = Sender(r)
    PROVE  /\ Refusal(r) = 0 =>
                /\ GateAdmits(r)
                /\ Channel[ask[r].endpoint] = "schema" => config.enableSchemaFeatures
           /\ Refusal(r) = 403 => ~GateAdmits(r)
           /\ Refusal(r) = 404 =>
                Channel[ask[r].endpoint] = "schema" /\ ~config.enableSchemaFeatures
<1>1. CASE Channel[ask[r].endpoint] = "none"
  <2>1. GateAdmits(r)
    BY <1>1 DEF GateAdmits
  <2>2. Refusal(r) = 0
    BY <1>1 DEF Refusal
  <2> QED
    BY <1>1, <2>1, <2>2
<1>2. CASE Channel[ask[r].endpoint] = "schema"
  <2>1. Authorized(r) <=> GateAdmits(r)
    BY <1>2, GateDecides
  <2>2. Refusal(r) = IF ~config.enableSchemaFeatures THEN 404
                     ELSE IF ~Authorized(r) THEN 403
                     ELSE IF ask[r].fault = "table" THEN 400 ELSE 0
    BY <1>2 DEF Refusal
  <2>3. CASE ~config.enableSchemaFeatures
    BY <1>2, <2>2, <2>3
  <2>4. CASE config.enableSchemaFeatures
    BY <1>2, <2>1, <2>2, <2>4
  <2> QED
    BY <2>3, <2>4
<1>3. CASE Channel[ask[r].endpoint] \notin {"none", "schema"}
  <2>1. Authorized(r) <=> GateAdmits(r)
    BY <1>3, GateDecides
  <2>2. Refusal(r) = IF ask[r].fault = "table" THEN 400
                     ELSE IF ~Authorized(r) THEN 403
                     ELSE IF ask[r].fault = "arguments"
                             /\ ask[r].endpoint \notin RecordEndpoints
                     THEN 400 ELSE 0
    BY <1>3 DEF Refusal
  <2> QED
    BY <1>3, <2>1, <2>2
<1> QED
  BY <1>1, <1>2, <1>3
-----------------------------------------------------------------------------
(* A request's way through the chain. *)

(***************************************************************************)
(* What is known of a request at each of its awaits: before the rate       *)
(* limiter it has been counted nowhere, and it only awaits the keys with a *)
(* bearer token; past it, it has been counted once, and its context holds  *)
(* the sender; and the service has it only when the handler's checks       *)
(* passed.                                                                 *)
(***************************************************************************)
Stage(r) ==
    /\ status[r] # 0 <=> pc[r] = "answered"
    /\ pc[r] \in {"idle", "jwks", "verify"} => charged[r] = {} /\ principal[r] = NoPrincipal
    /\ pc[r] \in {"jwks", "verify"} =>
           config.enabled /\ ask[r].endpoint # "status" /\ ask[r].header \in Tokens
    /\ pc[r] \in {"handler", "service"} =>
           charged[r] = {Budget(r)} /\ principal[r] = Sender(r) /\ HeaderAccepted(r)
    /\ pc[r] = "service" => Refusal(r) = 0

\* What is known of an answer, by its status.
Answered(r) ==
    /\ charged[r] \subseteq {Budget(r)}
    /\ status[r] \in {Served, 403, 429} => charged[r] = {Budget(r)}
    /\ status[r] \in {401, 413, 503} => charged[r] = {}
    /\ status[r] = Served =>
           /\ HeaderAccepted(r) /\ GateAdmits(r)
           /\ Channel[ask[r].endpoint] = "schema" => config.enableSchemaFeatures
    /\ status[r] = 401 => ~HeaderAccepted(r) \/ outage[r]
    /\ status[r] = 403 => ~GateAdmits(r)
    /\ status[r] = 404 =>
           Channel[ask[r].endpoint] = "schema" /\ ~config.enableSchemaFeatures

StageInv == \A r \in Requests : Stage(r) /\ Answered(r)

\* An outage of the provider is known of every request it meets on its way.
OutageInv ==
    \A r \in Requests :
        pc[r] \notin {"idle", "answered"} /\ provider = "out" => outage[r]

\* A request and the configuration it runs under never change.
Fixed == config' = config /\ ask' = ask

\* Where r is and what is in its context, before and after, is the same.
Unmoved(r) ==
    /\ pc'[r] = pc[r] /\ status'[r] = status[r]
    /\ charged'[r] = charged[r] /\ principal'[r] = principal[r]
    /\ outage[r] => outage'[r]

\* What is told from the request and the configuration is as fixed as they are.
LEMMA FixedFacts ==
    ASSUME NEW r \in Requests, Fixed
    PROVE  /\ Sender(r)' = Sender(r)
           /\ Budget(r)' = Budget(r)
           /\ HeaderAccepted(r)' <=> HeaderAccepted(r)
           /\ GateAdmits(r)' <=> GateAdmits(r)
           /\ ask'[r] = ask[r]
           /\ principal'[r] = principal[r] => Refusal(r)' = Refusal(r)
<1>1. Sender(r)' = Sender(r)
  BY DEF Fixed, Sender
<1>2. Budget(r)' = Budget(r)
  BY <1>1 DEF Fixed, Budget, Owed
<1>3. HeaderAccepted(r)' <=> HeaderAccepted(r)
  BY DEF Fixed, HeaderAccepted
<1>4. GateAdmits(r)' <=> GateAdmits(r)
  BY <1>1 DEF Fixed, GateAdmits
<1>5. ASSUME principal'[r] = principal[r]
      PROVE  Refusal(r)' = Refusal(r)
  <2>1. Authorized(r)' <=> Authorized(r)
    BY <1>5 DEF Fixed, Authorized
  <2> QED
    BY <2>1 DEF Fixed, Refusal
<1> QED
  BY <1>1, <1>2, <1>3, <1>4, <1>5 DEF Fixed

\* Nothing is learnt of a request that does not move.
LEMMA UnmovedKeeps ==
    ASSUME NEW r \in Requests, Stage(r), Answered(r), Fixed, Unmoved(r)
    PROVE  (Stage(r) /\ Answered(r))'
<1>1. Stage(r)'
  BY FixedFacts DEF Stage, Unmoved, Fixed
<1>2. Answered(r)'
  BY FixedFacts DEF Answered, Unmoved, Fixed
<1> QED
  BY <1>1, <1>2

\* A request that goes on, with what its next await needs.
LEMMA GoesOn ==
    ASSUME NEW r \in Requests, Fixed, status'[r] = 0,
           \/ /\ pc'[r] \in {"jwks", "verify"}
              /\ charged'[r] = {} /\ principal'[r] = NoPrincipal
              /\ config.enabled /\ ask[r].endpoint # "status" /\ ask[r].header \in Tokens
           \/ /\ pc'[r] \in {"handler", "service"}
              /\ charged'[r] = {Budget(r)} /\ principal'[r] = Sender(r)
              /\ HeaderAccepted(r)
              /\ pc'[r] = "service" => Refusal(r)' = 0
    PROVE  (Stage(r) /\ Answered(r))'
<1>1. Stage(r)'
  BY FixedFacts DEF Stage, Fixed
<1>2. Answered(r)'
  BY FixedFacts DEF Answered, Served
<1> QED
  BY <1>1, <1>2

\* A request that is answered, with what the status says.
LEMMA GetsAnswer ==
    ASSUME NEW r \in Requests, Fixed,
           NEW code \in {Served, 400, 401, 403, 404, 413, 429, 503},
           pc'[r] = "answered", status'[r] = code,
           charged'[r] \in {{}, {Budget(r)}},
           code \in {Served, 403, 429} => charged'[r] = {Budget(r)},
           code \in {401, 413, 503} => charged'[r] = {},
           code = Served =>
               /\ HeaderAccepted(r) /\ GateAdmits(r)
               /\ Channel[ask[r].endpoint] = "schema" => config.enableSchemaFeatures,
           code = 401 => ~HeaderAccepted(r) \/ outage'[r],
           code = 403 => ~GateAdmits(r),
           code = 404 =>
               Channel[ask[r].endpoint] = "schema" /\ ~config.enableSchemaFeatures
    PROVE  (Stage(r) /\ Answered(r))'
<1>1. Stage(r)'
  BY DEF Stage, Served
<1>2. Answered(r)'
  BY FixedFacts DEF Answered, Fixed
<1> QED
  BY <1>1, <1>2

\* A step of r moves nobody else.
OthersStay(r) == \A q \in Requests : q # r => Unmoved(q)

\* Going on moves r, and r alone.
LEMMA GotoMoves ==
    ASSUME TypeOK, NEW r \in Requests, NEW next, Goto(r, next)
    PROVE  /\ pc'[r] = next /\ status'[r] = status[r]
           /\ \A q \in Requests : q # r => pc'[q] = pc[q] /\ status'[q] = status[q]
  BY DEF Goto, TypeOK

\* Answering moves r, and r alone.
LEMMA AnswerMoves ==
    ASSUME TypeOK, NEW r \in Requests, NEW code, Answer(r, code)
    PROVE  /\ pc'[r] = "answered" /\ status'[r] = code
           /\ \A q \in Requests : q # r => pc'[q] = pc[q] /\ status'[q] = status[q]
  BY DEF Answer, TypeOK

(***************************************************************************)
(* The rate limiter counts a request that was counted nowhere in the       *)
(* budget of its sender, and passes it on with its context, or refuses it  *)
(* (main.ts:141-150).                                                      *)
(***************************************************************************)
LEMMA RateLimitKeeps ==
    ASSUME TypeOK, NEW r \in Requests, Fixed, charged[r] = {}, status[r] = 0,
           HeaderAccepted(r), RateLimit(r, Sender(r)),
           principal'[r] = Sender(r),
           \A q \in Requests : q # r => principal'[q] = principal[q]
                                         /\ outage'[q] = outage[q]
    PROVE  (Stage(r) /\ Answered(r))' /\ OthersStay(r)
<1>1. PICK p \in Principal \cup {NoPrincipal} : p = Sender(r)
  BY SenderType
<1>2. /\ charged' = [charged EXCEPT ![r] = @ \cup {Owed(r, p)}]
      /\ Goto(r, "handler") \/ Answer(r, 429)
  BY <1>1, RateLimitCharges
<1>3. charged'[r] = {Budget(r)}
  BY <1>1, <1>2 DEF Budget, TypeOK
<1>4. \A q \in Requests : q # r => charged'[q] = charged[q]
  BY <1>2 DEF TypeOK
<1>5. CASE Goto(r, "handler")
  BY <1>3, <1>4, <1>5, GotoMoves, GoesOn DEF OthersStay, Unmoved
<1>6. CASE Answer(r, 429)
  BY <1>3, <1>4, <1>6, AnswerMoves, GetsAnswer DEF OthersStay, Unmoved, Served
<1> QED
  BY <1>2, <1>5, <1>6

\* The middlewares up to the first await keep what is known of requests.
LEMMA EnterKeeps ==
    ASSUME TypeOK, NEW r \in Requests, Stage(r), Enter(r)
    PROVE  Fixed /\ (Stage(r) /\ Answered(r))' /\ OthersStay(r)
<1>1. /\ Fixed /\ principal' = principal
      /\ \A q \in Requests : q # r => outage'[q] = outage[q]
  BY DEF Enter, Fixed, TypeOK
<1>2. status[r] = 0 /\ charged[r] = {} /\ principal[r] = NoPrincipal
  BY DEF Enter, Stage
<1>3. CASE /\ ~config.enabled \/ ~RequiresAuthentication(r) \/ ask[r].header = NoHeader
           /\ RateLimit(r, NoPrincipal)
  <2>1. Sender(r) = NoPrincipal /\ HeaderAccepted(r)
    BY <1>3, SenderType DEF RequiresAuthentication
  <2>2. RateLimit(r, Sender(r))
    BY <1>3, <2>1
  <2>3. principal'[r] = Sender(r)
    BY <1>1, <1>2, <2>1
  <2>4. \A q \in Requests : q # r => principal'[q] = principal[q]
                                      /\ outage'[q] = outage[q]
    BY <1>1
  <2> QED
    BY <1>1, <1>2, <2>1, <2>2, <2>3, <2>4, RateLimitKeeps
<1>4. CASE LimiterUnchanged /\ (Answer(r, 413) \/ Answer(r, 400))
  <2>1. charged' = charged
    BY <1>4 DEF LimiterUnchanged
  <2>2. OthersStay(r)
    BY <1>1, <1>4, <2>1, AnswerMoves DEF OthersStay, Unmoved
  <2>3. charged'[r] = {}
    BY <1>2, <2>1
  <2>4. CASE Answer(r, 413)
    BY <1>1, <2>2, <2>3, <2>4, AnswerMoves, GetsAnswer DEF Served
  <2>5. CASE Answer(r, 400)
    BY <1>1, <2>2, <2>3, <2>5, AnswerMoves, GetsAnswer DEF Served
  <2> QED
    BY <1>4, <2>4, <2>5
<1>5. CASE /\ config.enabled /\ RequiresAuthentication(r) /\ ask[r].header = NotBearer
           /\ LimiterUnchanged /\ Answer(r, 401)
  <2>1. charged' = charged
    BY <1>5 DEF LimiterUnchanged
  <2>2. OthersStay(r)
    BY <1>1, <1>5, <2>1, AnswerMoves DEF OthersStay, Unmoved
  <2>3. charged'[r] = {}
    BY <1>2, <2>1
  <2>4. ~HeaderAccepted(r)
    <3>1. NotBearer # NoHeader
      <4>1. NotBearer.subject # NoHeader.subject
        BY DEF NoHeader, NotBearer
      <4> QED
        BY <4>1
    <3>2. NotBearer.valid = FALSE
      BY DEF NotBearer
    <3> QED
      BY <1>5, <3>1, <3>2 DEF HeaderAccepted, RequiresAuthentication
  <2> QED
    BY <1>1, <1>5, <2>2, <2>3, <2>4, AnswerMoves, GetsAnswer DEF Served
<1>6. CASE /\ config.enabled /\ RequiresAuthentication(r)
           /\ ask[r].header \notin {NoHeader, NotBearer}
           /\ Goto(r, "jwks") /\ LimiterUnchanged
  <2>1. charged' = charged
    BY <1>6 DEF LimiterUnchanged
  <2>2. OthersStay(r)
    BY <1>1, <1>6, <2>1, GotoMoves DEF OthersStay, Unmoved
  <2>3. ask[r].header \in Tokens
    BY <1>6, AskType, TokenType
  <2>4. pc'[r] = "jwks" /\ status'[r] = 0
    BY <1>2, <1>6, GotoMoves
  <2>5. charged'[r] = {} /\ principal'[r] = NoPrincipal
    BY <1>1, <1>2, <2>1
  <2> QED
    BY <1>1, <1>6, <2>2, <2>3, <2>4, <2>5, GoesOn DEF RequiresAuthentication
<1> QED
  BY <1>3, <1>4, <1>5, <1>6 DEF Enter

\* The await for the keys, and its rejection, keep what is known of requests.
LEMMA JwksAwaitedKeeps ==
    ASSUME TypeOK, NEW r \in Requests, Stage(r), JwksAwaited(r)
    PROVE  Fixed /\ (Stage(r) /\ Answered(r))' /\ OthersStay(r)
<1>1. Fixed /\ principal' = principal /\ charged' = charged /\ outage' = outage
  BY DEF JwksAwaited, Fixed, LimiterUnchanged
<1>2. /\ status[r] = 0 /\ charged[r] = {} /\ principal[r] = NoPrincipal
      /\ config.enabled /\ ask[r].endpoint # "status" /\ ask[r].header \in Tokens
  BY DEF JwksAwaited, Stage
<1>3. charged'[r] = {} /\ principal'[r] = NoPrincipal
  BY <1>1, <1>2
<1>4. CASE Goto(r, "verify")
  BY <1>1, <1>2, <1>3, <1>4, GotoMoves, GoesOn DEF OthersStay, Unmoved
<1>5. CASE Answer(r, 503)
  BY <1>1, <1>3, <1>5, AnswerMoves, GetsAnswer DEF OthersStay, Unmoved, Served
<1> QED
  BY <1>4, <1>5 DEF JwksAwaited

\* The verification of the token keeps what is known of requests.
LEMMA VerifyTokenKeeps ==
    ASSUME TypeOK, OutageInv, NEW r \in Requests, Stage(r), VerifyToken(r)
    PROVE  Fixed /\ (Stage(r) /\ Answered(r))' /\ OthersStay(r)
<1>1. Fixed /\ outage' = outage
  BY DEF VerifyToken, Fixed
<1>2. /\ status[r] = 0 /\ charged[r] = {} /\ principal[r] = NoPrincipal
      /\ config.enabled /\ ask[r].endpoint # "status" /\ ask[r].header \in Tokens
  BY DEF VerifyToken, Stage
<1>3. CASE /\ ask[r].header.valid
           /\ principal' = [principal EXCEPT ![r] = MapPrincipal(ask[r].header)]
           /\ RateLimit(r, MapPrincipal(ask[r].header))
  <2>1. Sender(r) = MapPrincipal(ask[r].header) /\ HeaderAccepted(r)
    BY <1>2, <1>3, SenderType
  <2>2. RateLimit(r, Sender(r))
    BY <1>3, <2>1
  <2>3. /\ principal'[r] = Sender(r)
        /\ \A q \in Requests : q # r => principal'[q] = principal[q]
                                        /\ outage'[q] = outage[q]
    BY <1>1, <1>3, <2>1 DEF TypeOK
  <2> QED
    BY <1>1, <1>2, <2>1, <2>2, <2>3, RateLimitKeeps
<1>4. CASE /\ ~ask[r].header.valid \/ provider = "out"
           /\ Answer(r, 401) /\ LimiterUnchanged /\ UNCHANGED principal
  <2>1. charged' = charged
    BY <1>4 DEF LimiterUnchanged
  <2>2. charged'[r] = {}
    BY <1>2, <2>1
  <2>3. ask[r].header # NoHeader
    BY <1>2, AccessAssumption
  <2>4. provider = "out" => outage[r]
    BY DEF VerifyToken, OutageInv
  <2>5. ~HeaderAccepted(r) \/ outage'[r]
    BY <1>1, <1>2, <1>4, <2>3, <2>4 DEF HeaderAccepted
  <2> QED
    BY <1>1, <1>4, <2>1, <2>2, <2>5, AnswerMoves, GetsAnswer DEF OthersStay, Unmoved, Served
<1> QED
  BY <1>3, <1>4 DEF VerifyToken

\* The handler's checks keep what is known of requests.
LEMMA HandleKeeps ==
    ASSUME TypeOK, NEW r \in Requests, Stage(r), Handle(r)
    PROVE  Fixed /\ (Stage(r) /\ Answered(r))' /\ OthersStay(r)
<1>1. Fixed /\ principal' = principal /\ charged' = charged /\ outage' = outage
  BY DEF Handle, Fixed, LimiterUnchanged
<1>2. /\ status[r] = 0 /\ charged[r] = {Budget(r)} /\ principal[r] = Sender(r)
      /\ HeaderAccepted(r)
  BY DEF Handle, Stage
<1>3. charged'[r] = {Budget(r)} /\ principal'[r] = Sender(r)
  BY <1>1, <1>2
<1>4. CASE Refusal(r) = 0 /\ Goto(r, "service")
  <2>1. Refusal(r)' = 0
    BY <1>1, <1>4, FixedFacts
  <2>2. pc'[r] = "service" /\ status'[r] = 0
    BY <1>2, <1>4, GotoMoves
  <2>3. OthersStay(r)
    BY <1>1, <1>4, GotoMoves DEF OthersStay, Unmoved
  <2> QED
    BY <1>1, <1>2, <1>3, <2>1, <2>2, <2>3, GoesOn
<1>5. CASE Refusal(r) # 0 /\ Answer(r, Refusal(r))
  <2>1. PICK code \in {404, 403, 400} : code = Refusal(r)
    BY <1>5, RefusalType
  <2>2. /\ code = 403 => ~GateAdmits(r)
        /\ code = 404 =>
             Channel[ask[r].endpoint] = "schema" /\ ~config.enableSchemaFeatures
    BY <1>2, <2>1, RefusalDecides
  <2>3. Answer(r, code)
    BY <1>5, <2>1
  <2> QED
    BY <1>1, <1>3, <2>2, <2>3, AnswerMoves, GetsAnswer DEF OthersStay, Unmoved, Served
<1> QED
  BY <1>4, <1>5 DEF Handle

\* The answer of the service keeps what is known of requests.
LEMMA ServeKeeps ==
    ASSUME TypeOK, NEW r \in Requests, Stage(r), Serve(r)
    PROVE  Fixed /\ (Stage(r) /\ Answered(r))' /\ OthersStay(r)
<1>1. Fixed /\ principal' = principal /\ charged' = charged /\ outage' = outage
  BY DEF Serve, Fixed, LimiterUnchanged
<1>2. /\ charged[r] = {Budget(r)} /\ principal[r] = Sender(r)
      /\ HeaderAccepted(r) /\ Refusal(r) = 0
  BY DEF Serve, Stage
<1>3. /\ GateAdmits(r)
      /\ Channel[ask[r].endpoint] = "schema" => config.enableSchemaFeatures
  BY <1>2, RefusalDecides
<1>4. PICK code \in {400, Served} : Answer(r, code)
  BY DEF Serve
<1>5. charged'[r] = {Budget(r)}
  BY <1>1, <1>2
<1>6. OthersStay(r)
  BY <1>1, <1>4, AnswerMoves DEF OthersStay, Unmoved
<1> QED
  BY <1>1, <1>2, <1>3, <1>4, <1>5, <1>6, AnswerMoves, GetsAnswer DEF Served

\* Nobody is known to be anywhere but at the start.
LEMMA StageInit == Init => StageInv
  BY DEF Init, StageInv, Stage, Answered, Served

\* Every step keeps what is known of every request.
LEMMA StageStep == TypeOK /\ OutageInv /\ StageInv /\ [Next]_vars => StageInv'
<1> SUFFICES ASSUME TypeOK, OutageInv, StageInv, [Next]_vars, NEW q \in Requests
             PROVE  (Stage(q) /\ Answered(q))'
  BY DEF StageInv
<1>0. Stage(q) /\ Answered(q)
  BY DEF StageInv
<1>1. ASSUME NEW r \in Requests, Enter(r) \/ Step(r)
      PROVE  (Stage(q) /\ Answered(q))'
  <2>1. Stage(r)
    BY DEF StageInv
  <2>2. Fixed /\ (Stage(r) /\ Answered(r))' /\ OthersStay(r)
    BY <1>1, <2>1, EnterKeeps, JwksAwaitedKeeps, VerifyTokenKeeps, HandleKeeps,
       ServeKeeps DEF Step
  <2>3. CASE q = r
    BY <2>2, <2>3
  <2>4. CASE q # r
    BY <1>0, <2>2, <2>4, UnmovedKeeps DEF OthersStay
  <2> QED
    BY <2>3, <2>4
<1>2. CASE DiscoveryEnds \/ ProviderChanges \/ LimiterMoves \/ UNCHANGED vars
  <2>1. Fixed /\ Unmoved(q)
    BY <1>2 DEF DiscoveryEnds, ProviderChanges, LimiterMoves, vars, Fixed, Unmoved, TypeOK
  <2> QED
    BY <1>0, <2>1, UnmovedKeeps
<1> QED
  BY <1>1, <1>2 DEF Next

\* Every step keeps what is known of the provider's outages.
LEMMA OutageStep == TypeOK /\ OutageInv /\ [Next]_vars => OutageInv'
<1> SUFFICES ASSUME TypeOK, OutageInv, [Next]_vars, NEW q \in Requests,
                    pc'[q] \notin {"idle", "answered"}, provider' = "out"
             PROVE  outage'[q]
  BY DEF OutageInv
<1>0. outage \in [Requests -> BOOLEAN]
  BY DEF TypeOK
<1>1. ASSUME NEW r \in Requests, Enter(r)
      PROVE  outage'[q]
  <2>1. provider = "out" /\ outage' = [outage EXCEPT ![r] = provider = "out"]
    BY <1>1 DEF Enter
  <2>2. CASE q = r
    BY <1>0, <2>1, <2>2
  <2>3. CASE q # r
    <3>1. pc'[q] = pc[q]
      BY <1>1, <2>3, GotoMoves, AnswerMoves DEF Enter, RateLimit
    <3> QED
      BY <1>0, <2>1, <2>3, <3>1 DEF OutageInv
  <2> QED
    BY <2>2, <2>3
<1>2. ASSUME NEW r \in Requests, Step(r)
      PROVE  outage'[q]
  <2>1. provider = "out" /\ outage' = outage
    BY <1>2 DEF Step, JwksAwaited, VerifyToken, Handle, Serve, oidcVars
  <2>2. pc[q] \notin {"idle", "answered"}
    <3>1. CASE q = r
      BY <1>2, <3>1 DEF Step, JwksAwaited, VerifyToken, Handle, Serve
    <3>2. CASE q # r
      <4>1. pc'[q] = pc[q]
        BY <1>2, <3>2, GotoMoves, AnswerMoves
        DEF Step, JwksAwaited, VerifyToken, RateLimit, Handle, Serve
      <4> QED
        BY <4>1
    <3> QED
      BY <3>1, <3>2
  <2> QED
    BY <2>1, <2>2 DEF OutageInv
<1>3. CASE ProviderChanges
  BY <1>0, <1>3 DEF ProviderChanges
<1>4. CASE DiscoveryEnds \/ LimiterMoves \/ UNCHANGED vars
  BY <1>4 DEF DiscoveryEnds, LimiterMoves, vars, oidcVars, OutageInv
<1> QED
  BY <1>1, <1>2, <1>3, <1>4 DEF Next

-----------------------------------------------------------------------------
(* The theorems. *)

\* What is known of requests holds at every moment.
LEMMA StageInvariant == Spec => [](TypeOK /\ OutageInv /\ StageInv)
<1>1. Init => TypeOK /\ OutageInv /\ StageInv
  BY TypeInit, StageInit DEF Init, OutageInv
<1>2. TypeOK /\ OutageInv /\ StageInv /\ [Next]_vars => (TypeOK /\ OutageInv /\ StageInv)'
  BY TypeStep, OutageStep, StageStep
<1> QED
  BY <1>1, <1>2, PTL DEF Spec

(***************************************************************************)
(* For any policy, any token and any interleaving, each answer of the      *)
(* chain has its reason: what the service works for passed the gate of its *)
(* channel and carried no bad header (a request without a header counts as *)
(* an anonymous sender), and a 401, a 403 and a 404 come of a bad header   *)
(* or an outage, of the gate, and of the switch (main.ts:141-150,          *)
(* data-access.controller.ts:147-488).                                     *)
(***************************************************************************)
THEOREM AccessIsDecided == Spec => []AccessDecided
<1>1. TypeOK /\ StageInv => AccessDecided
  <2> SUFFICES ASSUME TypeOK, StageInv, NEW r \in Requests
               PROVE  /\ pc[r] = "service" \/ status[r] = Served =>
                            /\ HeaderAccepted(r)
                            /\ GateAdmits(r)
                            /\ Channel[ask[r].endpoint] = "schema"
                                  => config.enableSchemaFeatures
                      /\ status[r] = 401 => ~HeaderAccepted(r) \/ outage[r]
                      /\ status[r] = 403 => ~GateAdmits(r)
                      /\ status[r] = 404 =>
                            /\ Channel[ask[r].endpoint] = "schema"
                            /\ ~config.enableSchemaFeatures
    BY DEF AccessDecided
  <2>1. Stage(r) /\ Answered(r)
    BY DEF StageInv
  <2>2. ASSUME pc[r] = "service"
        PROVE  /\ HeaderAccepted(r) /\ GateAdmits(r)
               /\ Channel[ask[r].endpoint] = "schema" => config.enableSchemaFeatures
    BY <2>1, <2>2, RefusalDecides DEF Stage
  <2> QED
    BY <2>1, <2>2 DEF Answered
<1> QED
  BY <1>1, StageInvariant, PTL

(***************************************************************************)
(* A request is counted in the budget of its sender and in no other, on    *)
(* every way through the chain, and before anything is done for it         *)
(* (main.ts:141-150, rate-limit.middleware.ts:117-124).                    *)
(***************************************************************************)
THEOREM ChargesSender == Spec => []ChargedToSender
<1>1. StageInv => ChargedToSender
  <2> SUFFICES ASSUME StageInv, NEW r \in Requests
               PROVE  /\ charged[r] \subseteq {Budget(r)}
                      /\ pc[r] \in {"handler", "service"} \/ status[r] \in {Served, 403, 429}
                            => charged[r] = {Budget(r)}
                      /\ status[r] \in {401, 413, 503} => charged[r] = {}
    BY DEF ChargedToSender, Budget, Owed
  <2>1. Stage(r) /\ Answered(r)
    BY DEF StageInv
  <2> QED
    BY <2>1 DEF Stage, Answered
<1> QED
  BY <1>1, StageInvariant, PTL
=============================================================================
