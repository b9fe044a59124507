---------------------------- MODULE RateLimiter ----------------------------
(***************************************************************************)
(* RateLimitMiddleware (limits/rate-limit.middleware.ts): a map of buckets *)
(* counted up by the requests and swept by an interval timer.  The methods *)
(* run to completion (nothing is awaited), so each is one action; what     *)
(* interleaves is requests, the clock, and a timer that may fire late.     *)
(***************************************************************************)
EXTENDS Integers, FiniteSets

CONSTANTS
    Subjects,           \* the subjects of authenticated principals
    Addresses,          \* the client addresses
    Nobody,             \* no principal; also: no key, no bucket
    Asked,              \* the requests that are sent
    RateLimitMax,       \* limits.rateLimitMax
    StatusRateLimitMax, \* limits.statusRateLimitMax
    WindowMs,           \* limits.rateLimitWindowMs, in ticks of the clock
    MaxLate,            \* how late the event loop may run the sweep
    MaxTime,            \* bound: the clock stops here
    MaxCount            \* bound: no request once a bucket has counted so many

Bucket == [count : Nat \ {0}, resetAt : Nat]

\* readPositiveInteger (config/runtime-config.ts) accepts nothing else.
ASSUME LimitsAssumption ==
    /\ RateLimitMax \in Nat \ {0}
    /\ StatusRateLimitMax \in Nat \ {0}
    /\ WindowMs \in Nat \ {0}
    /\ MaxLate \in Nat
    /\ MaxTime \in Nat
    /\ MaxCount \in Nat
    /\ Nobody \notin Subjects
    /\ Nobody \notin Bucket
    /\ Asked \subseteq [principal : Subjects \cup {Nobody},
                       address : Addresses, isStatus : BOOLEAN]

Who  == ({"subject"} \X Subjects) \cup ({"ip"} \X Addresses)
Keys == [status : BOOLEAN, who : Who]

\* The effective limit of a key: the status endpoint has a budget of its own.
Limit == [k \in Keys |-> IF k.status THEN StatusRateLimitMax ELSE RateLimitMax]

VARIABLES
    now,        \* Date.now()
    buckets,    \* the Map: [some of the Keys -> [count, resetAt]]
    nextPrune,  \* when the interval timer is due
    pruning,    \* is the timer set? (until onModuleDestroy)
    verdict,    \* the last response: its key, admitted or 429, headers, bucket
    recent      \* history: [Keys -> the admissions of the last WindowMs]

vars == <<now, buckets, nextPrune, pruning, verdict, recent>>

Admission == [at : Nat, nth : Nat \ {0}, resetAt : Nat]
Response  == [key : Keys, admitted : BOOLEAN, remaining : Nat, resetAt : Nat]
NoResponse == [key |-> Nobody, admitted |-> TRUE, remaining |-> 0, resetAt |-> 0]

TypeOK ==
    /\ now \in Nat
    /\ DOMAIN buckets \subseteq Keys
    /\ buckets \in [DOMAIN buckets -> Bucket]
    /\ nextPrune \in Nat
    /\ pruning \in BOOLEAN
    /\ verdict \in Response \cup {NoResponse}
    /\ recent \in [Keys -> SUBSET Admission]

Init ==
    /\ now = 0
    /\ buckets = [k \in {} |-> [count |-> 1, resetAt |-> 0]]
    /\ nextPrune = WindowMs
    /\ pruning = TRUE
    /\ verdict = NoResponse
    /\ recent = [k \in Keys |-> {}]

-----------------------------------------------------------------------------
(* use() *)

\* A request: its principal (or Nobody), its address, is it for /api/status?
Identity(principal, address) ==
    IF principal # Nobody THEN <<"subject", principal>> ELSE <<"ip", address>>

\* Slip: status requests share the bucket of the other requests.
BuildSharedKey(principal, address, isStatus) ==
    [status |-> FALSE, who |-> Identity(principal, address)]

BuildRateLimitKey(principal, address, isStatus) ==
    [status |-> isStatus, who |-> Identity(principal, address)]

\* Slip: the window closes one tick early.
ExpiredEarly(b) == b.resetAt <= now + 1

Expired(b) == b.resetAt <= now

\* Slip: a new bucket starts at zero.
UncountedBucket(k) ==
    IF k \notin DOMAIN buckets \/ Expired(buckets[k])
    THEN [count |-> 0, resetAt |-> now + WindowMs]
    ELSE [count |-> buckets[k].count + 1, resetAt |-> buckets[k].resetAt]

\* The bucket of k once this request is counted.
CountedBucket(k) ==
    IF k \notin DOMAIN buckets \/ Expired(buckets[k])
    THEN [count |-> 1, resetAt |-> now + WindowMs]
    ELSE [count |-> buckets[k].count + 1, resetAt |-> buckets[k].resetAt]

\* Slip: the headers are written before the request is counted.
RemainingBefore(limit, count) == IF count <= limit THEN limit - count + 1 ELSE 0

\* Math.max(0, limit - count)
Remaining(limit, count) == IF count < limit THEN limit - count ELSE 0

Use(principal, address, isStatus) ==
    LET k      == BuildRateLimitKey(principal, address, isStatus)
        limit  == IF isStatus THEN StatusRateLimitMax ELSE RateLimitMax
        b      == CountedBucket(k)
        pass   == b.count <= limit
        budget == [status |-> isStatus, who |-> Identity(principal, address)]
    IN  /\ b.count <= MaxCount
        /\ buckets' = [x \in DOMAIN buckets \cup {k} |->
                        IF x = k THEN b ELSE buckets[x]]
        /\ verdict' = [key |-> budget, admitted |-> pass,
                       remaining |-> Remaining(limit, b.count),
                       resetAt |-> b.resetAt]
        /\ recent' = [recent EXCEPT ![budget] = IF pass
                        THEN @ \cup {[at |-> now, nth |-> b.count,
                                      resetAt |-> b.resetAt]}
                        ELSE @]
        /\ UNCHANGED <<now, nextPrune, pruning>>

-----------------------------------------------------------------------------
(* The timer and the clock. *)

\* Slip: the comparison of the sweep is turned round.
StaleOnes == { k \in DOMAIN buckets : Expired(buckets[k]) }

\* Slip: the sweep leaves what expires this very instant.
SurvivorsAndJustExpired == { k \in DOMAIN buckets : buckets[k].resetAt >= now }

\* The keys pruneExpiredBuckets keeps.
Survivors == { k \in DOMAIN buckets : ~Expired(buckets[k]) }

PruneExpiredBuckets ==
    /\ pruning
    /\ nextPrune <= now
    /\ buckets' = [k \in Survivors |-> buckets[k]]
    /\ nextPrune' = now + WindowMs
    /\ UNCHANGED <<now, pruning, verdict, recent>>

\* The timer fires at most MaxLate after it is due.
Tick ==
    /\ now < MaxTime
    /\ pruning => now < nextPrune + MaxLate
    /\ now' = now + 1
    /\ recent' = [k \in Keys |-> { a \in recent[k] : a.at + WindowMs > now' }]
    /\ UNCHANGED <<buckets, nextPrune, pruning, verdict>>

OnModuleDestroy ==
    /\ pruning
    /\ pruning' = FALSE
    /\ UNCHANGED <<now, buckets, nextPrune, verdict, recent>>

Next ==
    \/ \E q \in Asked : Use(q.principal, q.address, q.isStatus)
    \/ PruneExpiredBuckets
    \/ Tick
    \/ OnModuleDestroy

Spec == Init /\ [][Next]_vars

-----------------------------------------------------------------------------
(* Properties. *)

(***************************************************************************)
(* The stored buckets, stale ones and all, the lazy reset on use and the   *)
(* sweep at whatever instant it runs, cannot be told from windows that     *)
(* close by themselves (rate-limit.middleware.ts:48-85, :129-136).         *)
(***************************************************************************)
Windows == INSTANCE FixedWindow WITH
    Closed <- Nobody,
    window <- [k \in Keys |->
                 IF k \in DOMAIN buckets /\ buckets[k].resetAt > now
                 THEN buckets[k] ELSE Nobody]

AsFixedWindow == Windows!Spec

(***************************************************************************)
(* Whatever the moment, the last WindowMs saw at most 2 * limit - 1        *)
(* admissions of one budget: a window's first admission is at its start,   *)
(* so two neighbours never both fit whole (rate-limit.middleware.ts:48-85).*)
(***************************************************************************)
SlidingBound == \A k \in Keys : Cardinality(recent[k]) <= 2 * Limit[k] - 1

(***************************************************************************)
(* A 429 means that the caller's own budget for this kind of request is    *)
(* spent: limit requests of it were admitted in the window that is open    *)
(* (rate-limit.middleware.ts:48-85, :117-124).                             *)
(***************************************************************************)
RefusedOnlyWhenSpent ==
    ~verdict.admitted /\ verdict.resetAt > now =>
        Cardinality({a \in recent[verdict.key] : a.resetAt = verdict.resetAt})
            = Limit[verdict.key]

(***************************************************************************)
(* The headers are a promise: until its window ends (X-RateLimit-Reset is  *)
(* that instant rounded up to a second), the next request of the same key  *)
(* is admitted exactly when X-RateLimit-Remaining was not 0                *)
(* (rate-limit.middleware.ts:90-101).                                      *)
(***************************************************************************)
HeadersKeepTheirWord ==
    [][ verdict' # verdict /\ verdict'.key = verdict.key /\ now < verdict.resetAt
        => (verdict'.admitted <=> verdict.remaining > 0) ]_vars

(***************************************************************************)
(* While the timer is set a bucket outlives its window by less than one    *)
(* window and the timer's lateness: the map holds no key that has been     *)
(* silent for two windows (rate-limit.middleware.ts:28-35, :129-136).      *)
(***************************************************************************)
StaleBound ==
    pruning => \A k \in DOMAIN buckets : now < buckets[k].resetAt + WindowMs + MaxLate
=============================================================================
