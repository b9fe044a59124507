------------------------- MODULE RateLimiterProofs -------------------------
(***************************************************************************)
(* Theorems about RateLimiter, for any limits, any window, any lateness    *)
(* of the timer and any callers.                                           *)
(***************************************************************************)
EXTENDS RateLimiter, FiniteSetTheorems, TLAPS

USE LimitsAssumption

-----------------------------------------------------------------------------
(* Types. *)

(***************************************************************************)
(* Whoever calls, the key of a request is one of the keys                  *)
(* (buildRateLimitKey).                                                    *)
(***************************************************************************)
LEMMA KeyType ==
    ASSUME NEW q \in Asked
    PROVE  /\ BuildRateLimitKey(q.principal, q.address, q.isStatus) \in Keys
           /\ [status |-> q.isStatus, who |-> Identity(q.principal, q.address)] =
              BuildRateLimitKey(q.principal, q.address, q.isStatus)
           /\ BuildRateLimitKey(q.principal, q.address, q.isStatus).status = q.isStatus
           /\ q.isStatus \in BOOLEAN
  BY DEF BuildRateLimitKey, Identity, Keys, Who

(***************************************************************************)
(* A request counted in a bucket leaves a bucket that has counted it, and  *)
(* whose window is still open (the two branches of use()).                 *)
(***************************************************************************)
LEMMA CountedType ==
    ASSUME TypeOK, NEW k \in Keys
    PROVE  /\ CountedBucket(k) \in Bucket
           /\ CountedBucket(k).resetAt > now
  BY DEF TypeOK, CountedBucket, Expired, Bucket

(***************************************************************************)
(* What is left of a budget is never negative.                             *)
(***************************************************************************)
LEMMA RemainingType ==
    ASSUME NEW limit \in Nat, NEW count \in Nat
    PROVE  Remaining(limit, count) \in Nat
  BY DEF Remaining

(***************************************************************************)
(* The map holds buckets under keys, the response is a response and the    *)
(* history a history, in every reachable state.                            *)
(***************************************************************************)
\* The constructor's state has the right types.
LEMMA TypeInit == Init => TypeOK
  BY DEF Init, TypeOK, NoResponse, Bucket

\* Every method, the clock and the timer keep the types.
LEMMA TypeStep == TypeOK /\ [Next]_vars => TypeOK'
<1> SUFFICES ASSUME TypeOK, [Next]_vars PROVE TypeOK'
  OBVIOUS
<1>1. ASSUME NEW q \in Asked, Use(q.principal, q.address, q.isStatus)
      PROVE  TypeOK'
  <2> DEFINE k == BuildRateLimitKey(q.principal, q.address, q.isStatus)
             limit == IF q.isStatus THEN StatusRateLimitMax ELSE RateLimitMax
             b == CountedBucket(k)
             pass == b.count <= limit
             budget == [status |-> q.isStatus, who |-> Identity(q.principal, q.address)]
  <2>1. k \in Keys /\ budget = k /\ limit \in Nat
    BY KeyType
  <2>2. b \in Bucket /\ b.count \in Nat \ {0} /\ b.resetAt \in Nat
    BY <2>1, CountedType DEF Bucket
  <2>3. buckets' = [x \in DOMAIN buckets \cup {k} |-> IF x = k THEN b ELSE buckets[x]]
    BY <1>1 DEF Use
  <2>4. DOMAIN buckets' \subseteq Keys /\ buckets' \in [DOMAIN buckets' -> Bucket]
    BY <2>1, <2>2, <2>3 DEF TypeOK
  <2>5. verdict' \in Response
    <3>1. verdict' = [key |-> budget, admitted |-> pass,
                      remaining |-> Remaining(limit, b.count), resetAt |-> b.resetAt]
      BY <1>1 DEF Use
    <3>2. pass \in BOOLEAN
      BY <2>1, <2>2
    <3>3. Remaining(limit, b.count) \in Nat
      BY <2>1, <2>2, RemainingType
    <3> HIDE DEF b, k, limit, budget, pass
    <3> QED
      BY <3>1, <3>2, <3>3, <2>1, <2>2 DEF Response
  <2>6. recent' \in [Keys -> SUBSET Admission]
    <3> DEFINE a == [at |-> now, nth |-> b.count, resetAt |-> b.resetAt]
    <3>1. recent' = [recent EXCEPT ![budget] =
                        IF pass THEN recent[budget] \cup {a} ELSE recent[budget]]
      BY <1>1, <2>1 DEF Use, TypeOK
    <3>2. a \in Admission
      BY <2>2 DEF Admission, TypeOK
    <3> HIDE DEF a, b, k, limit, budget, pass
    <3> QED
      BY <3>1, <3>2, <2>1 DEF TypeOK
  <2> QED
    BY <1>1, <2>4, <2>5, <2>6 DEF TypeOK, Use
<1>2. CASE PruneExpiredBuckets
  BY <1>2 DEF TypeOK, PruneExpiredBuckets, Survivors
<1>3. CASE Tick
  <2>1. now' \in Nat
    BY <1>3 DEF Tick, TypeOK
  <2>2. recent' \in [Keys -> SUBSET Admission]
    BY <1>3 DEF Tick, TypeOK
  <2> QED
    BY <1>3, <2>1, <2>2 DEF TypeOK, Tick
<1>4. CASE OnModuleDestroy
  BY <1>4 DEF TypeOK, OnModuleDestroy
<1>5. CASE UNCHANGED vars
  BY <1>5 DEF TypeOK, vars
<1> QED
  BY <1>1, <1>2, <1>3, <1>4, <1>5 DEF Next

(***************************************************************************)
(* For all limits: the middleware's state keeps its types, so that no      *)
(* bucket is ever empty or without a deadline (RateLimitMiddleware).       *)
(***************************************************************************)
THEOREM TypeCorrect == Spec => []TypeOK
<1>1. Init => TypeOK
  BY TypeInit
<1>2. TypeOK /\ [Next]_vars => TypeOK'
  BY TypeStep
<1> QED
  BY <1>1, <1>2, PTL DEF Spec

-----------------------------------------------------------------------------
(* What the timer keeps small. *)

(***************************************************************************)
(* Why StaleBound holds: a set timer is never later than MaxLate, it was   *)
(* set at most one window ahead, and what it left behind (or what came     *)
(* since) expires after its last run.                                      *)
(***************************************************************************)
TimerInv ==
    pruning =>
        /\ now <= nextPrune + MaxLate
        /\ nextPrune <= now + WindowMs
        /\ \A k \in DOMAIN buckets : buckets[k].resetAt + WindowMs > nextPrune

\* The timer is set for one window from the start.
LEMMA TimerInit == Init => TimerInv
  BY DEF Init, TimerInv

\* The timer invariant is kept by every step.
LEMMA TimerStep == TypeOK /\ TimerInv /\ [Next]_vars => TimerInv'
<1> SUFFICES ASSUME TypeOK, TimerInv, [Next]_vars PROVE TimerInv'
  OBVIOUS
<1>1. ASSUME NEW q \in Asked, Use(q.principal, q.address, q.isStatus)
      PROVE  TimerInv'
  <2> DEFINE k == BuildRateLimitKey(q.principal, q.address, q.isStatus)
             b == CountedBucket(k)
  <2>1. /\ buckets' = [x \in DOMAIN buckets \cup {k} |-> IF x = k THEN b ELSE buckets[x]]
        /\ UNCHANGED <<now, nextPrune, pruning>>
    BY <1>1 DEF Use
  <2>2. k \in Keys
    BY KeyType
  <2>3. b.resetAt > now /\ b.resetAt \in Nat
    BY <2>2, CountedType DEF Bucket
  <2>4. ASSUME pruning
        PROVE  b.resetAt + WindowMs > nextPrune
    BY <2>3, <2>4 DEF TimerInv, TypeOK
  <2> HIDE DEF b, k
  <2> QED
    BY <2>1, <2>4 DEF TimerInv
<1>2. CASE PruneExpiredBuckets
  <2>1. ASSUME NEW k \in DOMAIN buckets'
        PROVE  buckets'[k].resetAt + WindowMs > nextPrune'
    <3>1. /\ k \in DOMAIN buckets
          /\ buckets'[k] = buckets[k]
          /\ ~(buckets[k].resetAt <= now)
          /\ nextPrune' = now + WindowMs
      BY <1>2, <2>1 DEF PruneExpiredBuckets, Survivors, Expired
    <3>2. buckets[k].resetAt \in Nat /\ now \in Nat
      BY <3>1 DEF TypeOK, Bucket
    <3> QED
      BY <3>1, <3>2
  <2>2. now' <= nextPrune' + MaxLate /\ nextPrune' <= now' + WindowMs
    BY <1>2 DEF PruneExpiredBuckets, TypeOK
  <2> QED
    BY <2>1, <2>2 DEF TimerInv
<1>3. CASE Tick
  BY <1>3 DEF Tick, TimerInv, TypeOK
<1>4. CASE OnModuleDestroy
  BY <1>4 DEF OnModuleDestroy, TimerInv
<1>5. CASE UNCHANGED vars
  BY <1>5 DEF vars, TimerInv
<1> QED
  BY <1>1, <1>2, <1>3, <1>4, <1>5 DEF Next

\* What the timer invariant says of buckets bounds their age.
LEMMA TimerImpliesStaleBound == TypeOK /\ TimerInv => StaleBound
<1> SUFFICES ASSUME TypeOK, TimerInv, pruning, NEW k \in DOMAIN buckets
             PROVE  now < buckets[k].resetAt + WindowMs + MaxLate
  BY DEF StaleBound
<1>1. buckets[k].resetAt \in Nat /\ now \in Nat /\ nextPrune \in Nat
  BY DEF TypeOK, Bucket
<1> QED
  BY <1>1 DEF TimerInv

(***************************************************************************)
(* The map never keeps a bucket longer than a window and the timer's       *)
(* lateness after it expired, however many callers there are               *)
(* (pruneExpiredBuckets).                                                  *)
(***************************************************************************)
THEOREM StaleBucketsGo == Spec => []StaleBound
<1>1. Init => TypeOK /\ TimerInv
  BY TypeInit, TimerInit
<1>2. TypeOK /\ TimerInv /\ [Next]_vars => (TypeOK /\ TimerInv)'
  BY TypeStep, TimerStep
<1>3. TypeOK /\ TimerInv => StaleBound
  BY TimerImpliesStaleBound
<1> QED
  BY <1>1, <1>2, <1>3, PTL DEF Spec

-----------------------------------------------------------------------------
(* RateLimiter implements FixedWindow. *)

\* The window the stored buckets show, as in the refinement mapping.
Window == [k \in Keys |->
             IF k \in DOMAIN buckets /\ buckets[k].resetAt > now
             THEN buckets[k] ELSE Nobody]

\* The empty map is a state in which no window is open.
LEMMA WindowsInit == Init => Windows!Init
  BY DEF Init, Windows!Init, Windows!NoVerdict, NoResponse

(***************************************************************************)
(* A request finds a window open exactly when its bucket has not expired,  *)
(* and leaves the window counted up (use()).                               *)
(***************************************************************************)
LEMMA UseArrives ==
    ASSUME TypeOK, NEW q \in Asked, Use(q.principal, q.address, q.isStatus)
    PROVE  Windows!Next
<1> DEFINE k == BuildRateLimitKey(q.principal, q.address, q.isStatus)
           limit == IF q.isStatus THEN StatusRateLimitMax ELSE RateLimitMax
           b == CountedBucket(k)
           w == IF Window[k] = Nobody
                THEN [count |-> 1, resetAt |-> now + WindowMs]
                ELSE [count |-> Window[k].count + 1, resetAt |-> Window[k].resetAt]
<1>1. k \in Keys
  BY KeyType
<1>2. limit = Limit[k]
  BY KeyType DEF Limit
<1>3. w = b
  <2>1. CASE k \in DOMAIN buckets /\ buckets[k].resetAt > now
    <3>1. buckets[k] \in Bucket
      BY <2>1 DEF TypeOK
    <3>2. Window[k] = buckets[k] /\ Window[k] # Nobody
      BY <1>1, <2>1, <3>1 DEF Window
    <3>3. ~Expired(buckets[k])
      BY <2>1, <3>1 DEF Expired, Bucket, TypeOK
    <3> HIDE DEF k
    <3> QED
      BY <2>1, <3>2, <3>3 DEF CountedBucket
  <2>2. CASE ~(k \in DOMAIN buckets /\ buckets[k].resetAt > now)
    <3>1. Window[k] = Nobody
      BY <1>1, <2>2 DEF Window
    <3>2. k \in DOMAIN buckets => Expired(buckets[k])
      <4> HAVE k \in DOMAIN buckets
      <4>1. buckets[k].resetAt \in Nat /\ now \in Nat
        BY DEF TypeOK, Bucket
      <4> QED
        BY <2>2, <4>1 DEF Expired
    <3> HIDE DEF k
    <3> QED
      BY <3>1, <3>2 DEF CountedBucket
  <2> QED
    BY <2>1, <2>2
<1>4. b \in Bucket /\ b.resetAt > now
  BY <1>1, CountedType
<1>5. /\ buckets' = [x \in DOMAIN buckets \cup {k} |-> IF x = k THEN b ELSE buckets[x]]
      /\ now' = now
  BY DEF Use
<1>6. verdict' = [key |-> k, admitted |-> b.count <= limit,
                  remaining |-> Remaining(limit, b.count), resetAt |-> b.resetAt]
  BY KeyType DEF Use
<1>7. Window' = [Window EXCEPT ![k] = b]
  <2> HIDE DEF k, b
  <2> QED
    BY <1>1, <1>4, <1>5 DEF Window
<1>8. Windows!Arrive(k)
  <2>1. verdict' = Windows!Verdict(k, w)
    <3> HIDE DEF k, b, w, limit
    <3> QED
      BY <1>2, <1>3, <1>6 DEF Windows!Verdict, Windows!Remaining, Remaining
  <2>2. Window' = [Window EXCEPT ![k] = w]
    BY <1>3, <1>7
  <2> HIDE DEF k
  <2> QED
    BY <1>5, <2>1, <2>2 DEF Windows!Arrive, Window
<1> QED
  BY <1>1, <1>8 DEF Windows!Next

(***************************************************************************)
(* The sweep removes nothing that anyone could still see.                  *)
(***************************************************************************)
LEMMA PruneStutters ==
    ASSUME TypeOK, PruneExpiredBuckets
    PROVE  UNCHANGED Windows!windowVars
<1>1. /\ buckets' = [k \in Survivors |-> buckets[k]]
      /\ now' = now /\ verdict' = verdict
  BY DEF PruneExpiredBuckets
<1>2. ASSUME NEW k \in Keys
      PROVE  Window'[k] = Window[k]
  <2>1. CASE k \in Survivors
    BY <1>1, <2>1 DEF Window, Survivors
  <2>2. CASE k \notin Survivors
    <3>1. k \notin DOMAIN buckets'
      BY <1>1, <2>2
    <3>2. ~(k \in DOMAIN buckets /\ buckets[k].resetAt > now)
      BY <2>2 DEF Survivors, Expired, TypeOK, Bucket
    <3> QED
      BY <3>1, <3>2 DEF Window
  <2> QED
    BY <2>1, <2>2
<1>3. Window' = Window
  BY <1>2 DEF Window
<1> QED
  BY <1>1, <1>3 DEF Windows!windowVars, Window

(***************************************************************************)
(* Time closes the windows whose buckets expire.                           *)
(***************************************************************************)
LEMMA TickCloses ==
    ASSUME TypeOK, Tick
    PROVE  Windows!Next
<1>1. now' = now + 1 /\ buckets' = buckets /\ verdict' = verdict
  BY DEF Tick
<1>2. ASSUME NEW k \in Keys
      PROVE  Window'[k] = IF Window[k] # Nobody /\ Window[k].resetAt <= now'
                          THEN Nobody ELSE Window[k]
  <2>1. CASE k \in DOMAIN buckets
    <3>1. buckets[k] \in Bucket /\ buckets[k].resetAt \in Nat /\ now \in Nat
      BY <2>1 DEF TypeOK, Bucket
    <3>2. buckets[k] # Nobody
      BY <3>1
    <3> QED
      BY <1>1, <2>1, <3>1, <3>2 DEF Window
  <2>2. CASE k \notin DOMAIN buckets
    BY <1>1, <2>2 DEF Window
  <2> QED
    BY <2>1, <2>2
<1>3. Window' = [k \in Keys |-> IF Window[k] # Nobody /\ Window[k].resetAt <= now'
                                THEN Nobody ELSE Window[k]]
  BY <1>2 DEF Window
<1> QED
  BY <1>1, <1>3 DEF Windows!Next, Windows!Tick, Window

(***************************************************************************)
(* For all limits: the stored, lazily reset and swept buckets implement    *)
(* windows that close by themselves.                                       *)
(***************************************************************************)
THEOREM BucketsAreWindows == Spec => AsFixedWindow
<1>1. Init => Windows!Init
  BY WindowsInit
<1>2. TypeOK /\ [Next]_vars => [Windows!Next]_Windows!windowVars
  <2> SUFFICES ASSUME TypeOK, [Next]_vars
               PROVE  [Windows!Next]_Windows!windowVars
    OBVIOUS
  <2>1. ASSUME NEW q \in Asked, Use(q.principal, q.address, q.isStatus)
        PROVE  Windows!Next
    BY <2>1, UseArrives
  <2>2. CASE PruneExpiredBuckets
    BY <2>2, PruneStutters
  <2>3. CASE Tick
    BY <2>3, TickCloses
  <2>4. CASE OnModuleDestroy
    BY <2>4 DEF OnModuleDestroy, Windows!windowVars
  <2>5. CASE UNCHANGED vars
    BY <2>5 DEF vars, Windows!windowVars
  <2> QED
    BY <2>1, <2>2, <2>3, <2>4, <2>5 DEF Next
<1>3. Spec => []TypeOK
  BY TypeCorrect
<1> QED
  BY <1>1, <1>2, <1>3, PTL DEF Spec, AsFixedWindow, Windows!Spec

-----------------------------------------------------------------------------
(* The headers. *)

(***************************************************************************)
(* Why HeadersKeepTheirWord holds: until it expires, the bucket behind the *)
(* last response stays as that response described it.                      *)
(***************************************************************************)
HeadersInv ==
    verdict # NoResponse /\ now < verdict.resetAt =>
        /\ verdict.key \in DOMAIN buckets
        /\ buckets[verdict.key].resetAt = verdict.resetAt
        /\ verdict.remaining =
              Remaining(Limit[verdict.key], buckets[verdict.key].count)

(***************************************************************************)
(* A response tells the bucket of its request as use() left it.            *)
(***************************************************************************)
LEMMA UseTells ==
    ASSUME TypeOK, NEW q \in Asked, Use(q.principal, q.address, q.isStatus),
           NEW k, k = BuildRateLimitKey(q.principal, q.address, q.isStatus)
    PROVE  /\ k \in Keys
           /\ now' = now
           /\ k \in DOMAIN buckets'
           /\ buckets'[k] = CountedBucket(k)
           /\ verdict'.key = k
           /\ verdict'.resetAt = CountedBucket(k).resetAt
           /\ verdict'.admitted <=> CountedBucket(k).count <= Limit[k]
           /\ verdict'.remaining = Remaining(Limit[k], CountedBucket(k).count)
<1>1. k \in Keys
  BY KeyType
<1>2. Limit[k] = IF q.isStatus THEN StatusRateLimitMax ELSE RateLimitMax
  BY KeyType DEF Limit
<1>3. k = [status |-> q.isStatus, who |-> Identity(q.principal, q.address)]
  BY KeyType
<1> QED
  BY <1>1, <1>2, <1>3 DEF Use

\* The last response goes on telling the state of its key's window.
LEMMA HeadersStep == TypeOK /\ HeadersInv /\ [Next]_vars => HeadersInv'
<1> SUFFICES ASSUME TypeOK, HeadersInv, [Next]_vars PROVE HeadersInv'
  OBVIOUS
<1>1. ASSUME NEW q \in Asked, Use(q.principal, q.address, q.isStatus)
      PROVE  HeadersInv'
  BY <1>1, UseTells DEF HeadersInv
<1>2. CASE PruneExpiredBuckets
  <2>1. ASSUME verdict # NoResponse, now < verdict.resetAt
        PROVE  verdict.key \in Survivors
    <3>1. verdict.key \in DOMAIN buckets /\ buckets[verdict.key].resetAt = verdict.resetAt
      BY <2>1 DEF HeadersInv
    <3>2. verdict.resetAt \in Nat /\ now \in Nat
      BY <2>1, <3>1 DEF TypeOK, Bucket
    <3> QED
      BY <2>1, <3>1, <3>2 DEF Survivors, Expired
  <2> QED
    BY <1>2, <2>1 DEF HeadersInv, PruneExpiredBuckets, NoResponse
<1>3. CASE Tick
  <2>1. verdict.resetAt \in Nat /\ now \in Nat
    BY DEF TypeOK, Response, NoResponse
  <2> QED
    BY <1>3, <2>1 DEF HeadersInv, Tick, NoResponse
<1>4. CASE OnModuleDestroy
  BY <1>4 DEF HeadersInv, OnModuleDestroy, NoResponse
<1>5. CASE UNCHANGED vars
  BY <1>5 DEF HeadersInv, vars, NoResponse
<1> QED
  BY <1>1, <1>2, <1>3, <1>4, <1>5 DEF Next

(***************************************************************************)
(* For all limits: until the announced reset the next request of a key is  *)
(* admitted exactly when the last response left it something               *)
(* (setRateLimitHeaders).                                                  *)
(***************************************************************************)
THEOREM HeadersHonest == Spec => HeadersKeepTheirWord
<1>1. Init => HeadersInv
  BY DEF Init, HeadersInv
<1>2. TypeOK /\ HeadersInv /\ [Next]_vars => HeadersInv'
  BY HeadersStep
<1>3. TypeOK /\ HeadersInv /\ [Next]_vars =>
        [ verdict' # verdict /\ verdict'.key = verdict.key /\ now < verdict.resetAt
          => (verdict'.admitted <=> verdict.remaining > 0) ]_vars
  <2> SUFFICES ASSUME TypeOK, HeadersInv, Next, verdict' # verdict,
                      verdict'.key = verdict.key, now < verdict.resetAt
               PROVE  verdict'.admitted <=> verdict.remaining > 0
    OBVIOUS
  <2>1. PICK q \in Asked : Use(q.principal, q.address, q.isStatus)
    BY DEF Next, PruneExpiredBuckets, Tick, OnModuleDestroy
  <2> DEFINE k == BuildRateLimitKey(q.principal, q.address, q.isStatus)
  <2>2. /\ verdict.key = k
        /\ verdict'.admitted <=> CountedBucket(k).count <= Limit[k]
        /\ k \in Keys
    BY <2>1, UseTells
  <2>3. verdict # NoResponse
    BY DEF NoResponse, TypeOK
  <2>4. /\ k \in DOMAIN buckets
        /\ buckets[k].resetAt = verdict.resetAt
        /\ verdict.remaining = Remaining(Limit[k], buckets[k].count)
    BY <2>2, <2>3 DEF HeadersInv
  <2>5. buckets[k] \in Bucket /\ now \in Nat /\ Limit[k] \in Nat
    BY <2>2, <2>4 DEF TypeOK, Limit
  <2>6. CountedBucket(k).count = buckets[k].count + 1
    <3> HIDE DEF k
    <3> QED
      BY <2>4, <2>5 DEF CountedBucket, Expired, Bucket
  <2> HIDE DEF k
  <2> QED
    BY <2>2, <2>4, <2>5, <2>6 DEF Remaining, Bucket
<1>4. Spec => []TypeOK
  BY TypeCorrect
<1> QED
  BY <1>1, <1>2, <1>3, <1>4, PTL DEF Spec, HeadersKeepTheirWord

-----------------------------------------------------------------------------
(* What the last window has seen. *)

\* The bucket of k, while its window is open.
Open(k) == k \in DOMAIN buckets /\ buckets[k].resetAt > now

(***************************************************************************)
(* An admission of the last WindowMs of k, counted into its window.        *)
(***************************************************************************)
Counted(k, a) ==
    /\ a.at <= now /\ now < a.at + WindowMs
    /\ a.at < a.resetAt /\ a.resetAt <= a.at + WindowMs
    /\ a.nth <= Limit[k]
    /\ a.nth = 1 => a.resetAt = a.at + WindowMs

(***************************************************************************)
(* Two admissions of k: a window counts no number twice, and two windows   *)
(* do not overlap.                                                         *)
(***************************************************************************)
Apart(a, b) ==
    \/ a.resetAt = b.resetAt /\ (a.nth = b.nth => a = b)
    \/ a.resetAt + WindowMs <= b.resetAt
    \/ b.resetAt + WindowMs <= a.resetAt

(***************************************************************************)
(* Why SlidingBound and RefusedOnlyWhenSpent hold: the open bucket counts  *)
(* the admissions of its window and comes a whole window after the earlier *)
(* ones; the history lacks none of what it has counted and admitted.       *)
(***************************************************************************)
RecentInv(k) ==
    /\ \A a \in recent[k] : Counted(k, a)
    /\ \A a, b \in recent[k] : Apart(a, b)
    /\ Open(k) =>
         /\ buckets[k].resetAt <= now + WindowMs
         /\ \A a \in recent[k] :
              \/ a.resetAt = buckets[k].resetAt /\ a.nth <= buckets[k].count
              \/ a.resetAt + WindowMs <= buckets[k].resetAt
         /\ \A n \in 1..Limit[k] : n <= buckets[k].count =>
              \E a \in recent[k] : a.nth = n /\ a.resetAt = buckets[k].resetAt
    /\ ~Open(k) => \A a \in recent[k] : a.resetAt <= now

HistoryInv == \A k \in Keys : RecentInv(k)

\* A response that refuses says that nothing is left.
RefusalInv == ~verdict.admitted => verdict.remaining = 0

(***************************************************************************)
(* The types of a key's admissions and of its open bucket.                 *)
(***************************************************************************)
LEMMA HistoryType ==
    ASSUME TypeOK, NEW k \in Keys
    PROVE  /\ now \in Nat /\ Limit[k] \in Nat \ {0}
           /\ \A a \in recent[k] :
                a.at \in Nat /\ a.nth \in Nat \ {0} /\ a.resetAt \in Nat
           /\ Open(k) => buckets[k].count \in Nat \ {0} /\ buckets[k].resetAt \in Nat
<1>1. \A a \in recent[k] : a.at \in Nat /\ a.nth \in Nat \ {0} /\ a.resetAt \in Nat
  <2>1. recent[k] \subseteq Admission
    BY DEF TypeOK
  <2> QED
    BY <2>1 DEF Admission
<1> QED
  BY <1>1 DEF TypeOK, Limit, Open, Bucket

(***************************************************************************)
(* A request opens a window for its bucket or counts in the open one.      *)
(***************************************************************************)
LEMMA CountedOpen ==
    ASSUME TypeOK, NEW k \in Keys
    PROVE  CountedBucket(k) = IF Open(k)
                              THEN [count |-> buckets[k].count + 1, resetAt |-> buckets[k].resetAt]
                              ELSE [count |-> 1, resetAt |-> now + WindowMs]
BY DEF TypeOK, CountedBucket, Expired, Open, Bucket

(***************************************************************************)
(* What a request does to the history of its key and of the others.        *)
(***************************************************************************)
LEMMA UseRecords ==
    ASSUME TypeOK, NEW q \in Asked, Use(q.principal, q.address, q.isStatus),
           NEW k, k = BuildRateLimitKey(q.principal, q.address, q.isStatus)
    PROVE  /\ now' = now /\ k \in DOMAIN buckets' /\ buckets'[k] = CountedBucket(k)
           /\ recent'[k] = recent[k] \cup
                (IF CountedBucket(k).count <= Limit[k]
                 THEN {[at |-> now, nth |-> CountedBucket(k).count,
                        resetAt |-> CountedBucket(k).resetAt]}
                 ELSE {})
           /\ \A x \in Keys \ {k} :
                /\ recent'[x] = recent[x]
                /\ x \in DOMAIN buckets' <=> x \in DOMAIN buckets
                /\ x \in DOMAIN buckets => buckets'[x] = buckets[x]
<1>1. k \in Keys
  BY KeyType
<1>2. Limit[k] = IF q.isStatus THEN StatusRateLimitMax ELSE RateLimitMax
  BY KeyType DEF Limit
<1>3. k = [status |-> q.isStatus, who |-> Identity(q.principal, q.address)]
  BY KeyType
<1>4. recent' = [recent EXCEPT ![k] = IF CountedBucket(k).count <= Limit[k]
                   THEN recent[k] \cup {[at |-> now, nth |-> CountedBucket(k).count,
                                         resetAt |-> CountedBucket(k).resetAt]}
                   ELSE recent[k]]
  BY <1>1, <1>2, <1>3 DEF Use, TypeOK
<1>5. /\ buckets' = [x \in DOMAIN buckets \cup {k} |->
                       IF x = k THEN CountedBucket(k) ELSE buckets[x]]
      /\ now' = now
  BY DEF Use
<1> QED
  BY <1>1, <1>4, <1>5 DEF TypeOK

(***************************************************************************)
(* A key whose history, bucket and clock stay keeps its invariant.         *)
(***************************************************************************)
LEMMA RecentFrame ==
    ASSUME NEW k \in Keys, RecentInv(k), now' = now, recent'[k] = recent[k],
           Open(k)' <=> Open(k), Open(k) => buckets'[k] = buckets[k]
    PROVE  RecentInv(k)'
BY DEF RecentInv, Counted, Apart, Limit

(***************************************************************************)
(* A request that is counted keeps the history of its key in order.        *)
(***************************************************************************)
LEMMA UseRecent ==
    ASSUME TypeOK, HistoryInv, NEW q \in Asked, Use(q.principal, q.address, q.isStatus)
    PROVE  HistoryInv'
<1> SUFFICES ASSUME NEW k, k = BuildRateLimitKey(q.principal, q.address, q.isStatus),
                    NEW b, b = CountedBucket(k),
                    NEW a, a = [at |-> now, nth |-> b.count, resetAt |-> b.resetAt]
             PROVE  HistoryInv'
  OBVIOUS
<1>1. k \in Keys
  BY KeyType
<1>2. /\ now' = now /\ k \in DOMAIN buckets' /\ buckets'[k] = b
      /\ recent'[k] = recent[k] \cup (IF b.count <= Limit[k] THEN {a} ELSE {})
      /\ \A x \in Keys \ {k} :
           /\ recent'[x] = recent[x]
           /\ x \in DOMAIN buckets' <=> x \in DOMAIN buckets
           /\ x \in DOMAIN buckets => buckets'[x] = buckets[x]
  BY UseRecords
<1>3. b \in Bucket /\ b.count \in Nat \ {0} /\ b.resetAt \in Nat /\ b.resetAt > now
  BY <1>1, CountedType DEF Bucket
<1>4. b = IF Open(k) THEN [count |-> buckets[k].count + 1, resetAt |-> buckets[k].resetAt]
          ELSE [count |-> 1, resetAt |-> now + WindowMs]
  BY <1>1, CountedOpen
<1>5. /\ RecentInv(k) /\ now \in Nat /\ Limit[k] \in Nat \ {0}
      /\ \A x \in recent[k] : x.at \in Nat /\ x.nth \in Nat \ {0} /\ x.resetAt \in Nat
      /\ Open(k) => buckets[k].count \in Nat \ {0} /\ buckets[k].resetAt \in Nat
  BY <1>1, HistoryType DEF HistoryInv
<1>6. a.at = now /\ a.nth = b.count /\ a.resetAt = b.resetAt
  OBVIOUS
<1>7. b.resetAt <= now + WindowMs /\ (b.count = 1 => b.resetAt = now + WindowMs)
  BY <1>4, <1>5 DEF RecentInv
<1>8. ASSUME NEW x \in recent[k]
      PROVE  \/ x.resetAt = b.resetAt /\ x.nth < b.count
             \/ x.resetAt + WindowMs <= b.resetAt
  BY <1>4, <1>5 DEF RecentInv
<1>9. Open(k)'
  BY <1>2, <1>3 DEF Open
<1>10. \A x \in recent'[k] : Counted(k, x)'
  <2>1. \A x \in recent[k] : Counted(k, x)'
    BY <1>2, <1>5 DEF RecentInv, Counted
  <2>2. b.count <= Limit[k] => Counted(k, a)'
    BY <1>2, <1>3, <1>5, <1>6, <1>7 DEF Counted
  <2> QED
    BY <1>2, <2>1, <2>2
<1>11. \A x, y \in recent'[k] : Apart(x, y)'
  <2>1. \A x, y \in recent[k] : Apart(x, y)
    BY <1>5 DEF RecentInv
  <2>2. \A x \in recent[k] : Apart(x, a) /\ Apart(a, x)
    BY <1>3, <1>5, <1>6, <1>8 DEF Apart
  <2>3. Apart(a, a)
    BY DEF Apart
  <2>4. \A x, y \in recent'[k] : Apart(x, y)
    BY <1>2, <2>1, <2>2, <2>3
  <2> QED
    BY <2>4 DEF Apart
<1>12. \A x \in recent'[k] :
         \/ x.resetAt = b.resetAt /\ x.nth <= b.count
         \/ x.resetAt + WindowMs <= b.resetAt
  BY <1>2, <1>3, <1>5, <1>6, <1>8
<1>13. ASSUME NEW n \in 1..Limit[k], n <= b.count
       PROVE  \E x \in recent'[k] : x.nth = n /\ x.resetAt = b.resetAt
  <2>1. CASE n = b.count
    <3>1. a \in recent'[k]
      BY <1>2, <1>5, <1>13, <2>1
    <3> QED
      BY <1>6, <2>1, <3>1
  <2>2. CASE n < b.count
    <3>1. Open(k) /\ n <= buckets[k].count /\ b.resetAt = buckets[k].resetAt
      BY <1>4, <1>5, <2>2
    <3>2. PICK x \in recent[k] : x.nth = n /\ x.resetAt = buckets[k].resetAt
      BY <1>5, <3>1 DEF RecentInv
    <3> QED
      BY <1>2, <3>1, <3>2
  <2> QED
    BY <1>3, <1>13, <2>1, <2>2
<1>14. RecentInv(k)'
  <2>1. buckets'[k].resetAt <= now' + WindowMs
    BY <1>2, <1>7
  <2>2. \A x \in recent'[k] :
          \/ x.resetAt = buckets'[k].resetAt /\ x.nth <= buckets'[k].count
          \/ x.resetAt + WindowMs <= buckets'[k].resetAt
    BY <1>2, <1>12
  <2>3. \A n \in 1..Limit[k] : n <= buckets'[k].count =>
          \E x \in recent'[k] : x.nth = n /\ x.resetAt = buckets'[k].resetAt
    BY <1>2, <1>13
  <2> QED
    BY <1>9, <1>10, <1>11, <2>1, <2>2, <2>3 DEF RecentInv
<1>15. ASSUME NEW x \in Keys, x # k
       PROVE  RecentInv(x)'
  <2>1. (Open(x)' <=> Open(x)) /\ (Open(x) => buckets'[x] = buckets[x])
    BY <1>2, <1>15 DEF Open
  <2> QED
    BY <1>2, <1>15, <2>1, RecentFrame DEF HistoryInv
<1> QED
  BY <1>14, <1>15 DEF HistoryInv

(***************************************************************************)
(* The sweep removes closed windows only.                                  *)
(***************************************************************************)
LEMMA PruneRecent ==
    ASSUME TypeOK, HistoryInv, PruneExpiredBuckets
    PROVE  HistoryInv'
<1>1. /\ buckets' = [k \in Survivors |-> buckets[k]] /\ now' = now /\ recent' = recent
  BY DEF PruneExpiredBuckets
<1>2. ASSUME NEW k \in Keys
      PROVE  RecentInv(k)'
  <2>1. (Open(k)' <=> Open(k)) /\ (Open(k) => buckets'[k] = buckets[k])
    BY <1>1 DEF Open, Survivors, Expired, TypeOK, Bucket
  <2> QED
    BY <1>1, <2>1, RecentFrame DEF HistoryInv
<1> QED
  BY <1>2 DEF HistoryInv

(***************************************************************************)
(* What leaves the history belongs to a window that has closed: an open    *)
(* window is no older than the history reaches back.                       *)
(***************************************************************************)
LEMMA TickRecent ==
    ASSUME TypeOK, HistoryInv, Tick
    PROVE  HistoryInv'
<1>1. /\ now' = now + 1 /\ buckets' = buckets
      /\ recent' = [k \in Keys |-> { a \in recent[k] : a.at + WindowMs > now' }]
  BY DEF Tick
<1>2. ASSUME NEW k \in Keys
      PROVE  RecentInv(k)'
  <2>1. /\ RecentInv(k) /\ now \in Nat /\ Limit[k] \in Nat \ {0}
        /\ \A x \in recent[k] : x.at \in Nat /\ x.nth \in Nat \ {0} /\ x.resetAt \in Nat
        /\ Open(k) => buckets[k].count \in Nat \ {0} /\ buckets[k].resetAt \in Nat
    BY HistoryType DEF HistoryInv
  <2>2. recent'[k] \subseteq recent[k] /\ \A x \in recent[k] : x \in recent'[k] <=> x.at + WindowMs > now'
    BY <1>1
  <2>3. \A x \in recent'[k] : Counted(k, x)'
    BY <1>1, <2>1, <2>2 DEF RecentInv, Counted
  <2>4. \A x, y \in recent'[k] : Apart(x, y)'
    BY <2>1, <2>2 DEF RecentInv, Apart
  <2>5. CASE Open(k)'
    <3>1. Open(k) /\ buckets[k].resetAt > now'
      BY <1>1, <2>1, <2>5 DEF Open, TypeOK, Bucket
    <3>2. ASSUME NEW n \in 1..Limit[k], n <= buckets[k].count
          PROVE  \E x \in recent'[k] : x.nth = n /\ x.resetAt = buckets[k].resetAt
      <4>1. PICK x \in recent[k] : x.nth = n /\ x.resetAt = buckets[k].resetAt
        BY <2>1, <3>1, <3>2 DEF RecentInv
      <4>2. x.at + WindowMs > now'
        BY <1>1, <2>1, <3>1, <4>1 DEF RecentInv, Counted
      <4> QED
        BY <2>2, <4>1, <4>2
    <3>3. buckets[k].resetAt <= now' + WindowMs
      BY <1>1, <2>1, <3>1 DEF RecentInv
    <3>4. \A x \in recent'[k] :
            \/ x.resetAt = buckets[k].resetAt /\ x.nth <= buckets[k].count
            \/ x.resetAt + WindowMs <= buckets[k].resetAt
      BY <2>1, <2>2, <3>1 DEF RecentInv
    <3> QED
      BY <1>1, <2>3, <2>4, <2>5, <3>2, <3>3, <3>4 DEF RecentInv, Limit
  <2>6. CASE ~Open(k)'
    <3>1. ASSUME NEW x \in recent'[k]
          PROVE  x.resetAt <= now'
      <4>1. x \in recent[k] /\ x.resetAt \in Nat
        BY <2>1, <2>2
      <4>2. CASE ~Open(k)
        BY <1>1, <2>1, <4>1, <4>2 DEF RecentInv
      <4>3. CASE Open(k)
        <5>1. buckets[k].resetAt <= now'
          BY <1>1, <2>1, <2>6, <4>3 DEF Open
        <5>2. x.resetAt <= buckets[k].resetAt
          BY <2>1, <4>1, <4>3 DEF RecentInv
        <5> QED
          BY <1>1, <2>1, <4>1, <4>3, <5>1, <5>2
      <4> QED
        BY <4>2, <4>3
    <3> QED
      BY <2>3, <2>4, <2>6, <3>1 DEF RecentInv
  <2> QED
    BY <2>5, <2>6
<1> QED
  BY <1>2 DEF HistoryInv

\* Every step keeps the history of every key in order.
LEMMA HistoryStep == TypeOK /\ HistoryInv /\ [Next]_vars => HistoryInv'
<1> SUFFICES ASSUME TypeOK, HistoryInv, [Next]_vars PROVE HistoryInv'
  OBVIOUS
<1>1. ASSUME UNCHANGED <<now, buckets, recent>>
      PROVE  HistoryInv'
  BY <1>1, RecentFrame DEF HistoryInv, Open
<1>2. CASE OnModuleDestroy \/ UNCHANGED vars
  BY <1>1, <1>2 DEF OnModuleDestroy, vars
<1> QED
  BY <1>2, UseRecent, PruneRecent, TickRecent DEF Next

\* Nothing has been admitted at the start.
LEMMA HistoryInit == Init => HistoryInv
BY DEF Init, HistoryInv, RecentInv, Open

\* The admissions S carry different numbers between first and last.
Numbered(S, first, last) ==
    /\ \A a \in S : a.nth \in first..last
    /\ \A a, b \in S : a.nth = b.nth => a = b

\* No number between first and last is missing.
Complete(S, first, last) == \A n \in first..last : \E a \in S : a.nth = n

(***************************************************************************)
(* Admissions of one window carry different numbers up to the limit, so    *)
(* there are at most so many of them; from the second on, one less.        *)
(***************************************************************************)
LEMMA OneWindow ==
    ASSUME NEW S, NEW first \in Nat, NEW last \in Nat, first <= last + 1,
           Numbered(S, first, last)
    PROVE  /\ IsFiniteSet(S) /\ Cardinality(S) \in Nat
           /\ Cardinality(S) <= last - first + 1
           /\ Complete(S, first, last) => Cardinality(S) = last - first + 1
<1> DEFINE nth == [a \in S |-> a.nth]
<1>1. nth \in Injection(S, first..last)
  <2>1. nth \in [S -> first..last]
    BY DEF Numbered
  <2>2. \A a, b \in S : nth[a] = nth[b] => a = b
    BY DEF Numbered
  <2> HIDE DEF nth
  <2>3. IsInjective(nth)
    BY <2>1, <2>2 DEF IsInjective
  <2> QED
    BY <2>1, <2>3 DEF Injection
<1>2. IsFiniteSet(first..last) /\ Cardinality(first..last) = last - first + 1
  BY FS_Interval
<1>3. /\ IsFiniteSet(S) /\ Cardinality(S) <= Cardinality(first..last)
      /\ Cardinality(S) = Cardinality(first..last) <=> nth \in Surjection(S, first..last)
  BY <1>1, <1>2, FS_Injection
<1>4. Complete(S, first, last) => nth \in Surjection(S, first..last)
  <2>1. nth \in [S -> first..last]
    BY DEF Numbered
  <2>2. ASSUME Complete(S, first, last)
        PROVE  \A n \in first..last : \E a \in S : nth[a] = n
    BY <2>2 DEF Complete
  <2> HIDE DEF nth
  <2> QED
    BY <2>1, <2>2 DEF Surjection
<1> QED
  BY <1>2, <1>3, <1>4, FS_CardinalityType

(***************************************************************************)
(* The last WindowMs of a key touch at most two windows, and of the older  *)
(* one no longer its first admission, which was made when it opened.       *)
(***************************************************************************)
LEMMA HistoryImpliesBound ==
    ASSUME TypeOK, HistoryInv
    PROVE  SlidingBound
<1> SUFFICES ASSUME NEW k \in Keys
             PROVE  Cardinality(recent[k]) <= 2 * Limit[k] - 1
  BY DEF SlidingBound
<1> DEFINE S == recent[k]
<1>1. /\ now \in Nat /\ Limit[k] \in Nat \ {0}
      /\ \A x \in S : x.at \in Nat /\ x.nth \in Nat \ {0} /\ x.resetAt \in Nat
      /\ \A x \in S : Counted(k, x)
      /\ \A x, y \in S : Apart(x, y)
  BY HistoryType DEF HistoryInv, RecentInv
<1> HIDE DEF S
<1>2. \A x \in S : x.nth \in 1..Limit[k]
  BY <1>1 DEF Counted
<1>3. CASE \A x, y \in S : x.resetAt = y.resetAt
  <2>1. \A x, y \in S : x.nth = y.nth => x = y
    BY <1>1, <1>3 DEF Apart
  <2>2. Cardinality(S) \in Nat /\ Cardinality(S) <= Limit[k] - 1 + 1
    <3>1. Numbered(S, 1, Limit[k])
      BY <1>2, <2>1 DEF Numbered
    <3>2. Limit[k] \in Nat /\ 1 <= Limit[k] + 1
      BY <1>1
    <3> QED
      BY <3>1, <3>2, OneWindow
  <2> QED
    BY <1>1, <2>2 DEF S
<1>4. CASE \E x, y \in S : x.resetAt < y.resetAt
  <2>1. PICK x \in S, y \in S : x.resetAt < y.resetAt
    BY <1>4
  <2> DEFINE A == { z \in S : z.resetAt = x.resetAt }
             B == { z \in S : z.resetAt = y.resetAt }
  <2>2. x.resetAt + WindowMs <= y.resetAt
    BY <1>1, <2>1 DEF Apart
  <2>3. ASSUME NEW z \in S
        PROVE  z.resetAt = x.resetAt \/ z.resetAt = y.resetAt
    BY <1>1, <2>2, <2>3 DEF Apart, Counted
  <2>4. S = A \cup B
    BY <2>3
  <2>5. \A z \in A : z.nth \in 2..Limit[k]
    <3> SUFFICES ASSUME NEW z \in A
                 PROVE  z.nth # 1
      BY <1>1, <1>2
    <3> QED
      BY <1>1, <2>2 DEF Counted
  <2>6. /\ \A u, v \in A : u.nth = v.nth => u = v
        /\ \A u, v \in B : u.nth = v.nth => u = v
    BY <1>1 DEF Apart
  <2>7. \A z \in B : z.nth \in 1..Limit[k]
    BY <1>2
  <2> HIDE DEF A, B
  <2>8. /\ IsFiniteSet(A) /\ Cardinality(A) \in Nat
        /\ Cardinality(A) <= Limit[k] - 2 + 1
    <3>1. Numbered(A, 2, Limit[k])
      BY <2>5, <2>6 DEF Numbered
    <3>2. Limit[k] \in Nat /\ 2 <= Limit[k] + 1
      BY <1>1
    <3> QED
      BY <3>1, <3>2, OneWindow
  <2>9. /\ IsFiniteSet(B) /\ Cardinality(B) \in Nat
        /\ Cardinality(B) <= Limit[k] - 1 + 1
    <3>1. Numbered(B, 1, Limit[k])
      BY <2>7, <2>6 DEF Numbered
    <3>2. Limit[k] \in Nat /\ 1 <= Limit[k] + 1
      BY <1>1
    <3> QED
      BY <3>1, <3>2, OneWindow
  <2>10. /\ Cardinality(S) = Cardinality(A) + Cardinality(B) - Cardinality(A \cap B)
         /\ Cardinality(A \cap B) \in Nat
    <3>1. IsFiniteSet(A \cap B)
      BY <2>8, FS_Subset
    <3> QED
      BY <2>4, <2>8, <2>9, <3>1, FS_Union, FS_CardinalityType
  <2> QED
    BY <1>1, <2>8, <2>9, <2>10 DEF S
<1> QED
  BY <1>1, <1>3, <1>4

(***************************************************************************)
(* For all limits: no WindowMs, wherever it starts, sees more than         *)
(* 2 * limit - 1 admissions of one budget (use()).                         *)
(***************************************************************************)
THEOREM SlidingWindowBounded == Spec => []SlidingBound
<1>1. Init => TypeOK /\ HistoryInv
  BY TypeInit, HistoryInit
<1>2. TypeOK /\ HistoryInv /\ [Next]_vars => (TypeOK /\ HistoryInv)'
  BY TypeStep, HistoryStep
<1>3. TypeOK /\ HistoryInv => SlidingBound
  BY HistoryImpliesBound
<1> QED
  BY <1>1, <1>2, <1>3, PTL DEF Spec

(***************************************************************************)
(* A refusal that is still in force means a bucket that has counted to its *)
(* limit, and the history holds every admission it has counted.            *)
(***************************************************************************)
LEMMA RefusedMeansSpent ==
    ASSUME TypeOK, HistoryInv, HeadersInv, RefusalInv
    PROVE  RefusedOnlyWhenSpent
<1> SUFFICES ASSUME ~verdict.admitted, verdict.resetAt > now,
                    NEW k, k = verdict.key
             PROVE  Cardinality({a \in recent[k] : a.resetAt = verdict.resetAt}) = Limit[k]
  BY DEF RefusedOnlyWhenSpent
<1>1. verdict # NoResponse /\ verdict \in Response /\ k \in Keys /\ verdict.resetAt \in Nat
  BY DEF TypeOK, NoResponse, Response
<1>2. /\ now \in Nat /\ Limit[k] \in Nat \ {0}
      /\ \A x \in recent[k] : x.at \in Nat /\ x.nth \in Nat \ {0} /\ x.resetAt \in Nat
      /\ Open(k) => buckets[k].count \in Nat \ {0} /\ buckets[k].resetAt \in Nat
      /\ RecentInv(k)
  BY <1>1, HistoryType DEF HistoryInv
<1>3. /\ k \in DOMAIN buckets /\ buckets[k].resetAt = verdict.resetAt
      /\ Remaining(Limit[k], buckets[k].count) = 0
  BY <1>1, <1>2 DEF HeadersInv, RefusalInv
<1>4. Open(k) /\ buckets[k].count >= Limit[k]
  BY <1>2, <1>3 DEF Open, Remaining
<1> DEFINE S == {a \in recent[k] : a.resetAt = verdict.resetAt}
<1>5. \A a \in S : a.nth \in 1..Limit[k]
  BY <1>2 DEF RecentInv, Counted
<1>6. \A a, b \in S : a.nth = b.nth => a = b
  BY <1>2 DEF RecentInv, Apart
<1>7. \A n \in 1..Limit[k] : \E a \in S : a.nth = n
  BY <1>2, <1>3, <1>4 DEF RecentInv
<1> HIDE DEF S
<1>8. Cardinality(S) = Limit[k] - 1 + 1
  <2>1. Numbered(S, 1, Limit[k])
    BY <1>5, <1>6 DEF Numbered
  <2>2. Limit[k] \in Nat /\ 1 <= Limit[k] + 1
    BY <1>2
  <2>3. Complete(S, 1, Limit[k])
    BY <1>7 DEF Complete
  <2> QED
    BY <2>1, <2>2, <2>3, OneWindow
<1> QED
  BY <1>2, <1>8 DEF S

\* A refused request is told that nothing remains.
LEMMA RefusalStep == TypeOK /\ RefusalInv /\ [Next]_vars => RefusalInv'
<1> SUFFICES ASSUME TypeOK, RefusalInv, [Next]_vars PROVE RefusalInv'
  OBVIOUS
<1>1. ASSUME NEW q \in Asked, Use(q.principal, q.address, q.isStatus)
      PROVE  RefusalInv'
  <2> DEFINE k == BuildRateLimitKey(q.principal, q.address, q.isStatus)
  <2>1. /\ k \in Keys
        /\ verdict'.admitted <=> CountedBucket(k).count <= Limit[k]
        /\ verdict'.remaining = Remaining(Limit[k], CountedBucket(k).count)
    BY <1>1, UseTells
  <2>2. CountedBucket(k).count \in Nat /\ Limit[k] \in Nat
    BY <2>1, CountedType DEF Bucket, Limit
  <2> HIDE DEF k
  <2> QED
    BY <2>1, <2>2 DEF RefusalInv, Remaining
<1>2. CASE verdict' = verdict
  BY <1>2 DEF RefusalInv
<1> QED
  BY <1>1, <1>2 DEF Next, PruneExpiredBuckets, Tick, OnModuleDestroy, vars

(***************************************************************************)
(* For all limits: a 429 that is still in force means that the caller's    *)
(* own budget, no more and no less, was admitted in the open window.       *)
(***************************************************************************)
THEOREM RefusalsMeanSpent == Spec => []RefusedOnlyWhenSpent
<1> DEFINE Inv == TypeOK /\ HistoryInv /\ HeadersInv /\ RefusalInv
<1>1. Init => Inv
  BY TypeInit, HistoryInit DEF Init, HeadersInv, RefusalInv, NoResponse
<1>2. Inv /\ [Next]_vars => Inv'
  BY TypeStep, HistoryStep, HeadersStep, RefusalStep
<1>3. Inv => RefusedOnlyWhenSpent
  BY RefusedMeansSpent
<1> QED
  BY <1>1, <1>2, <1>3, PTL DEF Spec

=============================================================================
