------------------------- MODULE AdapterPoolProofs -------------------------
(***************************************************************************)
(* Theorems about AdapterPool, for any number of concurrent statements, of *)
(* pools and of connections in a pool.                                     *)
(***************************************************************************)
EXTENDS AdapterPool, FiniteSetTheorems, TLAPS

USE PoolAssumption DEF Pools, NoPool

-----------------------------------------------------------------------------
(***************************************************************************)
(* Types and connections.  TypeOK says that the connections in use are     *)
(* between 0 and PoolSize; that giving one back keeps them from falling    *)
(* below 0 needs NoConnectionLeaks, and that a statement takes one of its  *)
(* own pool needs to know that it has one.                                 *)
(***************************************************************************)

HasPool == \A s \in Statements : pc[s] \in {"getPool", "connect", "query"} => mine[s] \in Pools

ConnectionInv == TypeOK /\ HasPool /\ NoConnectionLeaks

(***************************************************************************)
(* The users of a pool are finitely many statements.                       *)
(***************************************************************************)
LEMMA UsersFinite ==
    ASSUME NEW p \in Pools
    PROVE  IsFiniteSet(Users(p)) /\ Cardinality(Users(p)) \in Nat
<1>1. Users(p) \subseteq Statements
  BY DEF Users
<1> QED
  BY <1>1, FS_Subset, FS_CardinalityType

(***************************************************************************)
(* A statement that neither ends nor begins a query leaves the users of    *)
(* every pool as they are.                                                 *)
(***************************************************************************)
LEMMA UsersSame ==
    ASSUME TypeOK, NEW s \in Statements, NEW next,
           pc' = [pc EXCEPT ![s] = next], pc[s] # "query", next # "query",
           \A t \in Statements \ {s} : mine'[t] = mine[t]
    PROVE  \A p \in Pools : Users(p)' = Users(p)
<1> SUFFICES ASSUME NEW p \in Pools PROVE Users(p)' = Users(p)
  OBVIOUS
<1>1. \A t \in Statements : (pc'[t] = "query" /\ mine'[t] = p) <=> (pc[t] = "query" /\ mine[t] = p)
  BY DEF TypeOK
<1> QED
  BY <1>1 DEF Users

\* No pool and no statement exists at the start.
LEMMA ConnectionInit == Init => ConnectionInv
<1> SUFFICES ASSUME Init PROVE ConnectionInv
  OBVIOUS
<1>1. TypeOK /\ HasPool
  BY DEF Init, TypeOK, HasPool
<1>2. ASSUME NEW p \in Pools PROVE lent[p] = Cardinality(Users(p))
  <2>1. Users(p) = {}
    BY DEF Init, Users
  <2> QED
    BY <2>1, FS_EmptySet DEF Init
<1> QED
  BY <1>1, <1>2 DEF ConnectionInv, NoConnectionLeaks

(***************************************************************************)
(* getPool gives the caller a pool, a new one only under a fresh number.   *)
(***************************************************************************)
LEMMA GetPoolType ==
    ASSUME TypeOK, NEW s \in Statements, GetPool(s)
    PROVE  /\ poolPromise' \in Pools
           /\ created' \in 0..MaxPools
           /\ state' \in [Pools -> {"none", "pending", "failed", "open", "closing", "ended"}]
           /\ mine' = [mine EXCEPT ![s] = poolPromise']
<1>1. CASE poolPromise = NoPool
  <2>1. CreatePool(s)
    BY <1>1 DEF GetPool
  <2>2. created + 1 \in Pools /\ created' = created + 1 /\ poolPromise' = created + 1
    BY <2>1 DEF CreatePool
  <2> QED
    BY <2>1, <2>2 DEF CreatePool, TypeOK
<1>2. CASE poolPromise # NoPool
  BY <1>2 DEF GetPool, TypeOK
<1> QED
  BY <1>1, <1>2

\* Asking for a pool (getPool) takes no connection.
LEMMA ExecuteKeepsConnections ==
    ASSUME ConnectionInv, NEW s \in Statements, Execute(s)
    PROVE  ConnectionInv'
<1> USE DEF ConnectionInv
<1>1. /\ poolPromise' \in Pools
      /\ created' \in 0..MaxPools
      /\ state' \in [Pools -> {"none", "pending", "failed", "open", "closing", "ended"}]
      /\ mine' = [mine EXCEPT ![s] = poolPromise']
  BY GetPoolType DEF Execute
<1>2. pc' = [pc EXCEPT ![s] = "getPool"] /\ UNCHANGED <<endAsked, dropped, lent>>
  BY DEF Execute, Goto
<1>3. TypeOK'
  BY <1>1, <1>2 DEF TypeOK
<1>4. HasPool'
  BY <1>1, <1>2 DEF HasPool, TypeOK
<1>5. \A p \in Pools : Users(p)' = Users(p)
  <2>1. \A t \in Statements \ {s} : mine'[t] = mine[t]
    BY <1>1 DEF TypeOK
  <2> QED
    BY <1>2, <2>1, UsersSame DEF Execute
<1> QED
  BY <1>2, <1>3, <1>4, <1>5 DEF NoConnectionLeaks

\* Taking a connection makes one user and one connection lent.
LEMMA ConnectKeepsConnections ==
    ASSUME ConnectionInv, NEW s \in Statements, Connect(s)
    PROVE  ConnectionInv'
<1> USE DEF ConnectionInv
<1> DEFINE own == mine[s]
<1>1. /\ pc[s] = "connect" /\ own \in Pools
      /\ lent[own] < PoolSize
      /\ lent' = [lent EXCEPT ![own] = lent[own] + 1]
      /\ pc' = [pc EXCEPT ![s] = "query"] /\ mine' = mine
  BY DEF Connect, Goto, HasPool, TypeOK
<1>2. lent[own] + 1 \in 0..PoolSize
  BY <1>1 DEF TypeOK
<1>3. TypeOK' /\ HasPool'
  BY <1>1, <1>2 DEF TypeOK, HasPool, Connect
<1>4. ASSUME NEW p \in Pools PROVE lent'[p] = Cardinality(Users(p)')
  <2>1. CASE p = own
    <3>1. s \notin Users(p) /\ Users(p)' = Users(p) \cup {s}
      BY <1>1, <2>1 DEF Users, TypeOK
    <3>2. Cardinality(Users(p)') = Cardinality(Users(p)) + 1
      BY <3>1, UsersFinite, FS_AddElement
    <3> QED
      BY <1>1, <2>1, <3>2 DEF NoConnectionLeaks, TypeOK
  <2>2. CASE p # own
    <3>1. Users(p)' = Users(p)
      BY <1>1, <2>2 DEF Users, TypeOK
    <3> QED
      BY <1>1, <2>2, <3>1 DEF NoConnectionLeaks, TypeOK
  <2> QED
    BY <2>1, <2>2
<1> QED
  BY <1>3, <1>4 DEF NoConnectionLeaks

\* The finally of execute gives back exactly what its user held.
LEMMA QueryEndsKeepsConnections ==
    ASSUME ConnectionInv, NEW s \in Statements, QueryEnds(s)
    PROVE  ConnectionInv'
<1> USE DEF ConnectionInv
<1> DEFINE own == mine[s]
<1>1. PICK end \in {"done", "failed"} : pc' = [pc EXCEPT ![s] = end]
  BY DEF QueryEnds, Goto
<1>2. /\ pc[s] = "query" /\ own \in Pools
      /\ lent' = [lent EXCEPT ![own] = lent[own] - 1]
      /\ mine' = mine
  BY DEF QueryEnds, HasPool, TypeOK
<1>3. ASSUME NEW p \in Pools
      PROVE  /\ lent'[p] = Cardinality(Users(p)')
             /\ lent'[p] \in 0..PoolSize
  <2>1. CASE p = own
    <3>1. s \in Users(p) /\ Users(p)' = Users(p) \ {s}
      BY <1>1, <1>2, <2>1 DEF Users, TypeOK
    <3>2. Cardinality(Users(p)') = Cardinality(Users(p)) - 1 /\ IsFiniteSet(Users(p)')
      BY <3>1, UsersFinite, FS_RemoveElement
    <3>3. Cardinality(Users(p)') \in Nat
      BY <3>2, FS_CardinalityType
    <3>4. lent[p] = Cardinality(Users(p)) /\ lent[p] \in 0..PoolSize
      BY DEF NoConnectionLeaks, TypeOK
    <3>5. lent'[p] = lent[p] - 1
      BY <1>2, <2>1 DEF TypeOK
    <3> QED
      BY <3>2, <3>3, <3>4, <3>5
  <2>2. CASE p # own
    <3>1. Users(p)' = Users(p)
      BY <1>1, <1>2, <2>2 DEF Users, TypeOK
    <3> QED
      BY <1>2, <2>2, <3>1 DEF NoConnectionLeaks, TypeOK
  <2> QED
    BY <2>1, <2>2
<1>4. lent' \in [Pools -> 0..PoolSize]
  BY <1>2, <1>3 DEF TypeOK
<1>5. TypeOK' /\ HasPool'
  BY <1>1, <1>2, <1>4 DEF TypeOK, HasPool, QueryEnds
<1> QED
  BY <1>3, <1>5 DEF NoConnectionLeaks

\* The inductive step: every action accounts for its connections.
LEMMA ConnectionStep == ConnectionInv /\ [Next]_vars => ConnectionInv'
<1> SUFFICES ASSUME ConnectionInv, [Next]_vars PROVE ConnectionInv'
  OBVIOUS
<1>1. ASSUME NEW s \in Statements, Execute(s) PROVE ConnectionInv'
  BY <1>1, ExecuteKeepsConnections
<1>2. ASSUME NEW s \in Statements, PoolAwaited(s) \/ ConnectFails(s)
      PROVE  ConnectionInv'
  <2>1. PICK next \in {"connect", "failed"} : pc' = [pc EXCEPT ![s] = next]
    BY <1>2 DEF PoolAwaited, ConnectFails, Goto
  <2>2. /\ pc[s] \in {"getPool", "connect"}
        /\ UNCHANGED <<poolPromise, created, state, endAsked, dropped, lent, mine>>
    BY <1>2 DEF PoolAwaited, ConnectFails
  <2>3. TypeOK' /\ HasPool'
    BY <2>1, <2>2 DEF TypeOK, HasPool, ConnectionInv
  <2>4. \A p \in Pools : Users(p)' = Users(p)
    BY <2>1, <2>2, UsersSame DEF ConnectionInv
  <2> QED
    BY <2>2, <2>3, <2>4 DEF ConnectionInv, NoConnectionLeaks
<1>3. ASSUME NEW s \in Statements, Connect(s) PROVE ConnectionInv'
  BY <1>3, ConnectKeepsConnections
<1>4. ASSUME NEW s \in Statements, QueryEnds(s) PROVE ConnectionInv'
  BY <1>4, QueryEndsKeepsConnections
<1>5. ASSUME UNCHANGED <<lent, pc, mine>>, TypeOK' PROVE ConnectionInv'
  BY <1>5 DEF ConnectionInv, HasPool, NoConnectionLeaks, Users
<1>6. ASSUME NEW p \in Pools, PoolOpens(p) PROVE ConnectionInv'
  BY <1>5, <1>6 DEF TypeOK, PoolOpens, ConnectionInv
<1>7. ASSUME NEW p \in Pools, CreationFails(p) PROVE ConnectionInv'
  BY <1>5, <1>7 DEF TypeOK, CreationFails, ConnectionInv
<1>8. ASSUME NEW p \in Pools, EndBegins(p) PROVE ConnectionInv'
  BY <1>5, <1>8 DEF TypeOK, EndBegins, ConnectionInv
<1>9. ASSUME NEW p \in Pools, PoolEnds(p) PROVE ConnectionInv'
  BY <1>5, <1>9 DEF TypeOK, PoolEnds, ConnectionInv
<1>10. CASE Release
  BY <1>5, <1>10 DEF TypeOK, Release, ConnectionInv
<1>11. CASE UNCHANGED vars
  BY <1>5, <1>11 DEF TypeOK, vars, ConnectionInv
<1> QED
  BY <1>1, <1>2, <1>3, <1>4, <1>6, <1>7, <1>8, <1>9, <1>10, <1>11 DEF Next

\* ConnectionInv is an invariant.
LEMMA ConnectionInvariant == Spec => []ConnectionInv
  BY ConnectionInit, ConnectionStep, PTL DEF Spec

(***************************************************************************)
(* The types of the pool's state: in particular a pool lends between none  *)
(* and PoolSize connections, however its statements fail.                  *)
(***************************************************************************)
THEOREM TypeCorrect == Spec => []TypeOK
<1>1. ConnectionInv => TypeOK
  BY DEF ConnectionInv
<1> QED
  BY <1>1, ConnectionInvariant, PTL

(***************************************************************************)
(* However many statements share a pool and however they fail, a           *)
(* connection in use belongs to a running query (the finally of execute).  *)
(***************************************************************************)
THEOREM ConnectionsComeBack == Spec => []NoConnectionLeaks
<1>1. ConnectionInv => NoConnectionLeaks
  BY DEF ConnectionInv
<1> QED
  BY <1>1, ConnectionInvariant, PTL

-----------------------------------------------------------------------------
(***************************************************************************)
(* The cache.  A number that is not created yet is untouched, the cache    *)
(* holds the newest pool or none, and release() asks exactly the pools it  *)
(* drops to end; so a pool whose creation fails while another is cached is *)
(* an older one, which was dropped or was lost before.                     *)
(***************************************************************************)

Untouched ==
    \A p \in Pools : p > created =>
        state[p] = "none" /\ p \notin endAsked /\ p \notin dropped

CacheInv ==
    /\ TypeOK
    /\ Untouched
    /\ poolPromise \in {NoPool, created}
    /\ dropped = endAsked
    /\ CachedPoolUsable
    /\ OnlyLateFailuresLosePools

\* The cache starts empty.
LEMMA CacheInit == Init => CacheInv
  BY DEF Init, CacheInv, TypeOK, Untouched, CachedPoolUsable,
         OnlyLateFailuresLosePools, Unreachable

\* getPool finds a usable pool in the cache or puts a new one there.
LEMMA ExecuteKeepsCache ==
    ASSUME CacheInv, TypeOK', NEW s \in Statements, Execute(s)
    PROVE  CacheInv'
<1> USE DEF CacheInv
<1>1. CASE poolPromise = NoPool
  <2> DEFINE new == created + 1
  <2>1. /\ new \in Pools /\ created' = new /\ poolPromise' = new
        /\ state' = [state EXCEPT ![new] = "pending"]
        /\ UNCHANGED <<endAsked, dropped>>
    BY <1>1 DEF Execute, GetPool, CreatePool
  <2>2. created \in Nat /\ new > created
    BY DEF TypeOK
  <2>3. state'[new] = "pending" /\ new \notin endAsked
    BY <2>1, <2>2 DEF TypeOK, Untouched
  <2>4. \A p \in Pools : p # new => state'[p] = state[p]
    BY <2>1 DEF TypeOK
  <2>5. Untouched'
    BY <2>1, <2>2, <2>4 DEF Untouched
  <2>6. CachedPoolUsable'
    BY <2>1, <2>3 DEF CachedPoolUsable
  <2>7. OnlyLateFailuresLosePools'
    <3> SUFFICES ASSUME NEW p \in Pools, Unreachable(p)'
                 PROVE  \E q \in dropped' : q < p /\ state'[q] = "failed"
      BY DEF OnlyLateFailuresLosePools
    <3>1. Unreachable(p)
      BY <1>1, <2>1, <2>4 DEF Unreachable
    <3>2. PICK q \in dropped : q < p /\ state[q] = "failed"
      BY <3>1 DEF OnlyLateFailuresLosePools
    <3>3. q \in Pools /\ q # new
      BY <2>1, <2>2, <3>2 DEF TypeOK, Untouched
    <3> QED
      BY <2>1, <2>4, <3>2, <3>3
  <2> QED
    BY <2>1, <2>5, <2>6, <2>7
<1>2. CASE poolPromise # NoPool
  BY <1>2 DEF Execute, GetPool, Untouched, CachedPoolUsable,
              OnlyLateFailuresLosePools, Unreachable
<1> QED
  BY <1>1, <1>2

\* The catch of getPool empties the cache, and what it may lose is accounted for.
LEMMA CreationFailsKeepsCache ==
    ASSUME CacheInv, TypeOK', NEW f \in Pools, CreationFails(f)
    PROVE  CacheInv'
<1> USE DEF CacheInv
<1>1. /\ state[f] = "pending" /\ state' = [state EXCEPT ![f] = "failed"]
      /\ poolPromise' = NoPool
      /\ UNCHANGED <<created, endAsked, dropped>>
  BY DEF CreationFails
<1>2. state'[f] = "failed" /\ \A p \in Pools : p # f => state'[p] = state[p]
  BY <1>1 DEF TypeOK
<1>3. f <= created /\ f \in Nat /\ created \in Nat
  BY <1>1 DEF TypeOK, Untouched
<1>4. Untouched'
  BY <1>1, <1>2, <1>3 DEF Untouched
<1>5. OnlyLateFailuresLosePools'
  <2> SUFFICES ASSUME NEW p \in Pools, Unreachable(p)'
               PROVE  \E q \in dropped' : q < p /\ state'[q] = "failed"
    BY DEF OnlyLateFailuresLosePools
  <2>1. p # f /\ state[p] \in {"pending", "open"} /\ p \notin endAsked
    BY <1>1, <1>2 DEF Unreachable
  <2>2. \A q \in dropped : state[q] = "failed" => q \in Pools /\ state'[q] = "failed"
    BY <1>1, <1>2 DEF TypeOK
  <2>3. CASE p # poolPromise
    BY <1>1, <2>1, <2>2, <2>3 DEF Unreachable, OnlyLateFailuresLosePools
  <2>4. CASE p = poolPromise
    <3>1. f < p
      BY <1>3, <2>1, <2>4 DEF TypeOK
    <3>2. CASE f \in dropped
      BY <1>1, <1>2, <3>1, <3>2
    <3>3. CASE f \notin dropped
      <4>1. Unreachable(f)
        BY <1>1, <2>1, <2>4, <3>3 DEF Unreachable
      <4>2. PICK q \in dropped : q < f /\ state[q] = "failed"
        BY <4>1 DEF OnlyLateFailuresLosePools
      <4>3. q \in Nat /\ q < p
        BY <1>3, <3>1, <4>2 DEF TypeOK
      <4> QED
        BY <1>1, <2>2, <4>2, <4>3
    <3> QED
      BY <3>2, <3>3
  <2> QED
    BY <2>3, <2>4
<1> QED
  BY <1>1, <1>4, <1>5 DEF CachedPoolUsable

(***************************************************************************)
(* The other settlements move one pool on, and never to "failed": what is  *)
(* asked to end is not cached, and what is cached has not ended.           *)
(***************************************************************************)
LEMMA SettlingKeepsCache ==
    ASSUME CacheInv, TypeOK', NEW p \in Pools,
           PoolOpens(p) \/ EndBegins(p) \/ PoolEnds(p)
    PROVE  CacheInv'
<1> USE DEF CacheInv
<1>1. PICK next \in {"open", "closing", "ended"} : state' = [state EXCEPT ![p] = next]
  BY DEF PoolOpens, EndBegins, PoolEnds
<1>2. UNCHANGED <<poolPromise, created, endAsked, dropped>>
  BY DEF PoolOpens, EndBegins, PoolEnds
<1>3. \/ state[p] = "pending" /\ state'[p] = "open"
      \/ state[p] = "open" /\ p \in endAsked
      \/ state[p] = "closing" /\ state'[p] = "ended"
  BY DEF PoolOpens, EndBegins, PoolEnds, TypeOK
<1>4. \A q \in Pools : q # p => state'[q] = state[q]
  BY <1>1 DEF TypeOK
<1>5. Untouched'
  BY <1>2, <1>3, <1>4 DEF Untouched
<1>6. CachedPoolUsable'
  BY <1>2, <1>3, <1>4 DEF CachedPoolUsable, TypeOK
<1>7. OnlyLateFailuresLosePools'
  <2>1. \A q \in Pools : Unreachable(q)' => Unreachable(q)
    BY <1>2, <1>3, <1>4 DEF Unreachable
  <2>2. \A q \in dropped : state[q] = "failed" => state'[q] = "failed"
    BY <1>3, <1>4 DEF TypeOK
  <2> QED
    BY <1>2, <2>1, <2>2 DEF OnlyLateFailuresLosePools
<1> QED
  BY <1>2, <1>5, <1>6, <1>7

\* release() moves the cached pool to the pools asked to end.
LEMMA ReleaseKeepsCache ==
    ASSUME CacheInv, TypeOK', Release
    PROVE  CacheInv'
<1> USE DEF CacheInv
<1>1. /\ poolPromise # NoPool /\ poolPromise' = NoPool
      /\ endAsked' = endAsked \cup {poolPromise}
      /\ dropped' = dropped \cup {poolPromise}
      /\ UNCHANGED <<created, state>>
  BY DEF Release
<1>2. Untouched'
  BY <1>1 DEF Untouched, TypeOK
<1>3. OnlyLateFailuresLosePools'
  <2>1. \A q \in Pools : Unreachable(q)' => Unreachable(q)
    BY <1>1 DEF Unreachable
  <2> QED
    BY <1>1, <2>1 DEF OnlyLateFailuresLosePools
<1> QED
  BY <1>1, <1>2, <1>3 DEF CachedPoolUsable

\* The inductive step of the cache invariant.
LEMMA CacheStep == CacheInv /\ TypeOK' /\ [Next]_vars => CacheInv'
<1> SUFFICES ASSUME CacheInv, TypeOK', [Next]_vars PROVE CacheInv'
  OBVIOUS
<1>1. ASSUME NEW s \in Statements, Execute(s) PROVE CacheInv'
  BY <1>1, ExecuteKeepsCache
<1>2. ASSUME UNCHANGED <<poolPromise, created, state, endAsked, dropped>>
      PROVE  CacheInv'
  BY <1>2 DEF CacheInv, Untouched, CachedPoolUsable, OnlyLateFailuresLosePools,
              Unreachable
<1>3. ASSUME NEW s \in Statements,
             PoolAwaited(s) \/ Connect(s) \/ ConnectFails(s) \/ QueryEnds(s)
      PROVE  CacheInv'
  BY <1>2, <1>3 DEF PoolAwaited, Connect, ConnectFails, QueryEnds
<1>4. ASSUME NEW p \in Pools, CreationFails(p) PROVE CacheInv'
  BY <1>4, CreationFailsKeepsCache
<1>5. ASSUME NEW p \in Pools, PoolOpens(p) \/ EndBegins(p) \/ PoolEnds(p)
      PROVE  CacheInv'
  BY <1>5, SettlingKeepsCache
<1>6. CASE Release
  BY <1>6, ReleaseKeepsCache
<1>7. CASE UNCHANGED vars
  BY <1>2, <1>7 DEF vars
<1> QED
  BY <1>1, <1>3, <1>4, <1>5, <1>6, <1>7 DEF Next

\* CacheInv is an invariant.
LEMMA CacheInvariant == Spec => []CacheInv
  BY CacheInit, CacheStep, TypeCorrect, PTL DEF Spec

(***************************************************************************)
(* For any number of statements and pools: what getPool returns next is    *)
(* never a failed or released pool (getPool, release).                     *)
(***************************************************************************)
THEOREM CacheIsSound == Spec => []CachedPoolUsable
<1>1. CacheInv => CachedPoolUsable
  BY DEF CacheInv
<1> QED
  BY <1>1, CacheInvariant, PTL

(***************************************************************************)
(* Concurrent statements lose no pool from sight but by the late failure   *)
(* of one that release() had dropped (getPool, release).                   *)
(***************************************************************************)
THEOREM PoolsAreShared == Spec => []OnlyLateFailuresLosePools
<1>1. CacheInv => OnlyLateFailuresLosePools
  BY DEF CacheInv
<1> QED
  BY <1>1, CacheInvariant, PTL
=============================================================================
