---------------------------- MODULE AdapterPool ----------------------------
(***************************************************************************)
(* The connection pool of a database adapter (getPool, createPool, execute *)
(* and release, alike in the PostgreSQL, MySQL and SQL Server adapters).   *)
(*                                                                         *)
(* The adapter caches the promise of a pool, so that concurrent statements *)
(* share one creation; a creation that fails empties the cache, and so     *)
(* does release(), which also asks for the pool to be ended once it is     *)
(* there.  Each await is a point where the other actions run: a statement  *)
(* keeps the pool it awaited while the cache moves on.                     *)
(***************************************************************************)
EXTENDS Integers, FiniteSets

CONSTANTS
    Statements, \* the concurrent callers of execute()
    MaxPools,   \* bound: how many pools are created
    PoolSize    \* how many connections a pool hands out at a time

ASSUME PoolAssumption ==
    /\ MaxPools \in Nat
    /\ PoolSize \in Nat \ {0}
    /\ IsFiniteSet(Statements)

Pools  == 1..MaxPools
NoPool == 0

VARIABLES
    poolPromise, \* the cached promise: a pool, or NoPool for null
    created,     \* how many pools createPool was called for
    state,       \* [Pools -> what became of the promise and its pool]
    endAsked,    \* the pools on whose promise release() hung pool.end()
    dropped,     \* history: the pools release() took out of the cache
    lent,        \* [Pools -> the number of its connections in use]
    pc,          \* [Statements -> where its execute() is]
    mine         \* [Statements -> the pool it awaits or uses]

vars == <<poolPromise, created, state, endAsked, dropped, lent, pc, mine>>

TypeOK ==
    /\ poolPromise \in Pools \cup {NoPool}
    /\ created \in 0..MaxPools
    /\ state \in [Pools -> {"none", "pending", "failed", "open", "closing", "ended"}]
    /\ endAsked \subseteq Pools
    /\ dropped \subseteq Pools
    /\ lent \in [Pools -> 0..PoolSize]
    /\ pc \in [Statements -> {"idle", "getPool", "connect", "query", "done", "failed"}]
    /\ mine \in [Statements -> Pools \cup {NoPool}]

Init ==
    /\ poolPromise = NoPool
    /\ created = 0
    /\ state = [p \in Pools |-> "none"]
    /\ endAsked = {}
    /\ dropped = {}
    /\ lent = [p \in Pools |-> 0]
    /\ pc = [s \in Statements |-> "idle"]
    /\ mine = [s \in Statements |-> NoPool]

Users(p) == { s \in Statements : pc[s] = "query" /\ mine[s] = p }

Goto(s, next) == pc' = [pc EXCEPT ![s] = next]

-----------------------------------------------------------------------------
(* getPool *)

\* A new promise goes into the cache.
CreatePool(s) ==
    LET p == created + 1
    IN  /\ p \in Pools
        /\ created' = p
        /\ state' = [state EXCEPT ![p] = "pending"]
        /\ poolPromise' = p
        /\ mine' = [mine EXCEPT ![s] = p]

\* Slip: the cache is filled after the await, everyone creates a pool.
GetPoolUnshared(s) == CreatePool(s)

GetPool(s) ==
    IF poolPromise = NoPool THEN CreatePool(s)
    ELSE mine' = [mine EXCEPT ![s] = poolPromise]
         /\ UNCHANGED <<poolPromise, created, state>>

Execute(s) ==
    /\ pc[s] \in {"idle", "done", "failed"}
    /\ GetPool(s)
    /\ Goto(s, "getPool")
    /\ UNCHANGED <<endAsked, dropped, lent>>

PoolOpens(p) ==
    /\ state[p] = "pending"
    /\ state' = [state EXCEPT ![p] = "open"]
    /\ UNCHANGED <<poolPromise, created, endAsked, dropped, lent, pc, mine>>

\* Slip: the rejected promise stays in the cache.
CreationFailsKept(p) ==
    /\ state[p] = "pending"
    /\ state' = [state EXCEPT ![p] = "failed"]
    /\ UNCHANGED <<poolPromise, created, endAsked, dropped, lent, pc, mine>>

\* The catch of getPool: the cache is emptied, whichever promise it holds by now.
CreationFails(p) ==
    /\ state[p] = "pending"
    /\ state' = [state EXCEPT ![p] = "failed"]
    /\ poolPromise' = NoPool
    /\ UNCHANGED <<created, endAsked, dropped, lent, pc, mine>>

-----------------------------------------------------------------------------
(* execute *)

\* The awaited promise is settled.
PoolAwaited(s) ==
    /\ pc[s] = "getPool"
    /\ \/ state[mine[s]] \in {"open", "closing", "ended"} /\ Goto(s, "connect")
       \/ state[mine[s]] = "failed" /\ Goto(s, "failed")
    /\ UNCHANGED <<poolPromise, created, state, endAsked, dropped, lent, mine>>

\* Slip: the pool does not limit its connections.
ConnectUnlimited(s) ==
    /\ pc[s] = "connect"
    /\ state[mine[s]] = "open"
    /\ lent' = [lent EXCEPT ![mine[s]] = @ + 1]
    /\ Goto(s, "query")
    /\ UNCHANGED <<poolPromise, created, state, endAsked, dropped, mine>>

Connect(s) ==
    /\ pc[s] = "connect"
    /\ state[mine[s]] = "open"
    /\ lent[mine[s]] < PoolSize
    /\ lent' = [lent EXCEPT ![mine[s]] = @ + 1]
    /\ Goto(s, "query")
    /\ UNCHANGED <<poolPromise, created, state, endAsked, dropped, mine>>

\* No connection to be had: the server refuses, or the pool is being ended.
ConnectFails(s) ==
    /\ pc[s] = "connect"
    /\ Goto(s, "failed")
    /\ UNCHANGED <<poolPromise, created, state, endAsked, dropped, lent, mine>>

\* Slip: release is not in a finally, a failing query keeps its connection.
QueryEndsUnprotected(s) ==
    /\ pc[s] = "query"
    /\ \/ Goto(s, "done") /\ lent' = [lent EXCEPT ![mine[s]] = @ - 1]
       \/ Goto(s, "failed") /\ UNCHANGED lent
    /\ UNCHANGED <<poolPromise, created, state, endAsked, dropped, mine>>

\* The query answers or throws; the finally gives the connection back.
QueryEnds(s) ==
    /\ pc[s] = "query"
    /\ \E end \in {"done", "failed"} : Goto(s, end)
    /\ lent' = [lent EXCEPT ![mine[s]] = @ - 1]
    /\ UNCHANGED <<poolPromise, created, state, endAsked, dropped, mine>>

-----------------------------------------------------------------------------
(* release *)

\* Slip: release only forgets the pool.
ReleaseForgets ==
    /\ poolPromise # NoPool
    /\ dropped' = dropped \cup {poolPromise}
    /\ poolPromise' = NoPool
    /\ UNCHANGED <<created, state, endAsked, lent, pc, mine>>

\* release() returns at once: the end of the pool is not awaited.
Release ==
    /\ poolPromise # NoPool
    /\ endAsked' = endAsked \cup {poolPromise}
    /\ dropped' = dropped \cup {poolPromise}
    /\ poolPromise' = NoPool
    /\ UNCHANGED <<created, state, lent, pc, mine>>

\* The then() that release() hung on the promise: pool.end() / pool.close().
EndBegins(p) ==
    /\ p \in endAsked
    /\ state[p] = "open"
    /\ state' = [state EXCEPT ![p] = "closing"]
    /\ UNCHANGED <<poolPromise, created, endAsked, dropped, lent, pc, mine>>

\* The pool is gone once the connections in use are back.
PoolEnds(p) ==
    /\ state[p] = "closing"
    /\ lent[p] = 0
    /\ state' = [state EXCEPT ![p] = "ended"]
    /\ UNCHANGED <<poolPromise, created, endAsked, dropped, lent, pc, mine>>

-----------------------------------------------------------------------------

Next ==
    \/ \E s \in Statements :
          \/ Execute(s) \/ PoolAwaited(s) \/ Connect(s) \/ ConnectFails(s)
          \/ QueryEnds(s)
    \/ \E p \in Pools :
          PoolOpens(p) \/ CreationFails(p) \/ EndBegins(p) \/ PoolEnds(p)
    \/ Release

Spec == Init /\ [][Next]_vars

(***************************************************************************)
(* Promises settle and their callbacks run; a query ends; the pool hands   *)
(* freed connections out in the order they were asked for (strong          *)
(* fairness).  Nothing forces a client to come or release() to be called.  *)
(***************************************************************************)
Fairness ==
    /\ \A p \in Pools : /\ WF_vars(PoolOpens(p) \/ CreationFails(p))
                        /\ WF_vars(EndBegins(p))
                        /\ WF_vars(PoolEnds(p))
    /\ \A s \in Statements : /\ WF_vars(PoolAwaited(s))
                             /\ SF_vars(Connect(s))
                             /\ WF_vars(QueryEnds(s))

FairSpec == Spec /\ Fairness

-----------------------------------------------------------------------------
(* Properties. *)

(***************************************************************************)
(* The cache never offers a pool that failed or that release() took away:  *)
(* the next statement gets a new one, so that a retry can recover          *)
(* (getPool and release, e.g. sqlserver-database.ts:549-567).              *)
(***************************************************************************)
CachedPoolUsable ==
    poolPromise # NoPool =>
        /\ state[poolPromise] \in {"pending", "open"}
        /\ poolPromise \notin endAsked

(***************************************************************************)
(* Every connection in use belongs to a running query: whatever fails, a   *)
(* statement that is over holds nothing (execute, e.g.                     *)
(* postgres-database.ts:182-213).                                          *)
(***************************************************************************)
NoConnectionLeaks == \A p \in Pools : lent[p] = Cardinality(Users(p))

(***************************************************************************)
(* A pool that is neither cached nor asked to end, so that nothing can     *)
(* ever end it.                                                            *)
(***************************************************************************)
Unreachable(p) ==
    state[p] \in {"pending", "open"} /\ p # poolPromise /\ p \notin endAsked

(***************************************************************************)
(* Concurrent statements share one pool: the only way a live pool drops    *)
(* out of sight is the failure of an earlier creation that release() had   *)
(* given up while it was pending (getPool, e.g. mysql-database.ts:608-617).*)
(***************************************************************************)
OnlyLateFailuresLosePools ==
    \A p \in Pools : Unreachable(p) =>
        \E q \in dropped : q < p /\ state[q] = "failed"

(***************************************************************************)
(* A pool that release() took out of the cache is ended, however late its  *)
(* creation settles and whoever still uses it (release, e.g.               *)
(* postgres-database.ts:543-550).                                          *)
(***************************************************************************)
DroppedPoolEnds ==
    \A p \in Pools : p \in dropped ~> state[p] \in {"failed", "ended"}

(***************************************************************************)
(* A statement ends, unless its pool is ended under it: waiting for the    *)
(* pool or for a connection never lasts for ever (execute, e.g.            *)
(* mysql-database.ts:202-267).                                             *)
(***************************************************************************)
StatementEnds ==
    \A s \in Statements :
        pc[s] \in {"getPool", "connect", "query"} ~>
            \/ pc[s] \in {"done", "failed"}
            \/ mine[s] \in endAsked
=============================================================================
