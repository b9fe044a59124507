--------------------------- MODULE RowOperations ---------------------------
(***************************************************************************)
(* The row endpoints as the code runs them: DataAccessController resolves  *)
(* the key, DataAccessService checks the table and sanitises the body, and *)
(* a database adapter runs the statements.  Every await of a statement is  *)
(* a point where other requests run.                                       *)
(*                                                                         *)
(* A statement needs a connection of the adapter's pool: Acquire takes one *)
(* (the pool hands out the most recently returned one), and the step that  *)
(* runs the statement gives it back in the same instant, as the adapters   *)
(* do in their finally.                                                    *)
(*                                                                         *)
(* Dialect is "returning" for PostgreSQL and SQL Server, whose writes      *)
(* return the row they wrote (RETURNING, OUTPUT), and "mysql" for MySQL,   *)
(* whose adapter reads the row back in statements of its own.              *)
(***************************************************************************)
EXTENDS Integers, Sequences

CONSTANTS
    Requests, Seed, NoRow, MaxKey,
    Dialect,        \* "returning" or "mysql"
    Asked,          \* the operations the clients ask for
    Connections,    \* the connections of the pool, a sequence
    NoConnection

VARIABLES
    table, generated, rows, serial,  \* the database, as in RecordStore
    op,         \* [Requests -> the operation the request asks for]
    pc,         \* [Requests -> the await the request's handler is at]
    held,       \* [Requests -> the outcome held in the handler's locals]
    gotId,      \* [Requests -> the id LAST_INSERT_ID() answered]
    free,       \* the idle connections, the last one returned first
    conn,       \* [Requests -> the connection it holds, or NoConnection]
    lastId,     \* [connection -> what LAST_INSERT_ID() answers on it]
    own,        \* history: [Requests -> the row its own write stored/removed]
    during      \* history: [Requests -> what its key held while it ran]

vars == <<table, generated, rows, serial, op, pc, held, gotId, free, conn,
          lastId, own, during>>

poolVars == <<free, conn>>
auxVars  == <<own, during>>

(***************************************************************************)
(* The statements are RecordStore's; the refinement mapping gives it the   *)
(* outcome as soon as the handler has nothing left to do but to answer.    *)
(***************************************************************************)
Performed(r) == pc[r] \in {"respond", "done"}

Store == INSTANCE RecordStore WITH
    outcome <- [r \in Requests |-> IF Performed(r) THEN held[r]
                                   ELSE [status |-> "none", row |-> NoRow]],
    answer  <- [r \in Requests |-> IF pc[r] = "done" THEN held[r]
                                   ELSE [status |-> "none", row |-> NoRow]]

Pool == { Connections[i] : i \in DOMAIN Connections }

ASSUME RowAssumption ==
    /\ MaxKey \in Nat
    /\ Seed \notin Requests
    /\ NoRow \notin Store!Writers \cup Store!Rows
    /\ Dialect \in {"returning", "mysql"}
    /\ Asked \subseteq Store!Operations
    /\ Connections \in Seq(Pool) \ {<<>>}
    /\ NoConnection \notin Pool

Awaiting ==
    {"resolve", "exists", "columns", "statement", "preselect", "lastId",
     "pkColumns", "reselect"}

TypeOK ==
    /\ table \in BOOLEAN
    /\ generated \in BOOLEAN
    /\ rows \in [Store!Keys -> Store!Writers \cup {NoRow}]
    /\ serial \in 0..MaxKey
    /\ op \in [Requests -> Store!Operations \cup {Store!NoOperation}]
    /\ pc \in [Requests -> Awaiting \cup {"idle", "respond", "done"}]
    /\ held \in [Requests -> Store!Outcomes]
    /\ gotId \in [Requests -> 0..MaxKey]
    /\ free \in Seq(Pool)
    /\ conn \in [Requests -> Pool \cup {NoConnection}]
    /\ lastId \in [Pool -> 0..MaxKey]
    /\ own \in [Requests -> Store!Rows \cup {NoRow}]
    /\ during \in [Requests -> SUBSET (Store!Writers \cup {NoRow})]

Init ==
    /\ table = TRUE
    /\ generated \in BOOLEAN
    /\ rows \in [Store!Keys -> {Seed, NoRow}]
    /\ serial \in 0..MaxKey
    /\ \A k \in Store!Keys : rows[k] # NoRow => ~generated \/ k <= serial
    /\ ~generated => serial = 0
    /\ op = [r \in Requests |-> Store!NoOperation]
    /\ pc = [r \in Requests |-> "idle"]
    /\ held = [r \in Requests |-> Store!NoOutcome]
    /\ gotId = [r \in Requests |-> 0]
    /\ free = Connections
    /\ conn = [r \in Requests |-> NoConnection]
    /\ lastId = [c \in Pool |-> 0]
    /\ own = [r \in Requests |-> NoRow]
    /\ during = [r \in Requests |-> {}]

-----------------------------------------------------------------------------
(* Helpers. *)

Goto(r, next) == pc' = [pc EXCEPT ![r] = next]
Hold(r, out)  == held' = [held EXCEPT ![r] = out]

\* The handler ends with `out`; the response is still to be written.
Finish(r, out) == Hold(r, out) /\ Goto(r, "respond")

\* The statement is over: its connection goes back to the pool.
ReturnConnection(r) ==
    /\ free' = <<conn[r]>> \o free
    /\ conn' = [conn EXCEPT ![r] = NoConnection]

\* r runs the statement of the await `at` on its connection.
Runs(r, at) ==
    /\ pc[r] = at
    /\ conn[r] # NoConnection
    /\ ReturnConnection(r)

\* The rows become rs: every request in progress may now find that.
SetRows(rs) ==
    /\ rows' = rs
    /\ during' = [r \in Requests |->
                    IF op[r].key \in Store!Keys /\ pc[r] \notin {"idle", "done"}
                    THEN during[r] \cup {rs[op[r].key]} ELSE during[r]]

DatabaseUnchanged == UNCHANGED <<table, generated, rows, serial, lastId, auxVars>>

\* Slip: every adapter reads back what it wrote, as the MySQL adapter does.
AllReadBack == TRUE

MySql == Dialect = "mysql"

\* Slip: update sends the generated key along.
SetKeyKept(o) == o.setKey

\* The body after stripGeneratedPrimaryKeyColumns, which only update calls.
SetKey(o) == IF o.kind = "update" /\ generated THEN Store!NoKey ELSE o.setKey

\* What a write statement may do; the engines differ on updating a generated key.
WriteEffects(r, o) ==
    CASE o.kind = "insert" -> {Store!InsertRow(r, o.setKey)}
      [] o.kind = "delete" -> {Store!DeleteRow(o.key)}
      [] o.kind \in {"update", "updateColumn"} ->
             {Store!UpdateRow(r, o.key, SetKey(o), o.other)} \cup
             (IF generated /\ SetKey(o) # Store!NoKey
              THEN {Store!Unchanged(Store!Refused)} ELSE {})

\* The write statement takes effect e on the table.
TakeEffect(r, e) ==
    /\ SetRows(e.rows)
    /\ serial' = e.serial
    /\ own' = [own EXCEPT ![r] = e.out.row]
    /\ UNCHANGED <<table, generated>>

-----------------------------------------------------------------------------
(* The steps. *)

Submit(r) ==
    /\ pc[r] = "idle"
    /\ \E o \in Asked :
        /\ op' = [op EXCEPT ![r] = o]
        /\ Goto(r, IF o.kind = "insert" THEN "exists" ELSE "resolve")
        /\ during' = [during EXCEPT ![r] =
                        IF o.key \in Store!Keys THEN {rows[o.key]} ELSE {}]
    /\ UNCHANGED <<table, generated, rows, serial, held, gotId, poolVars,
                   lastId, own>>

Acquire(r) ==
    /\ pc[r] \in Awaiting
    /\ conn[r] = NoConnection
    /\ free # <<>>
    /\ conn' = [conn EXCEPT ![r] = Head(free)]
    /\ free' = Tail(free)
    /\ DatabaseUnchanged /\ UNCHANGED <<op, pc, held, gotId>>

\* resolvePrimaryKey: a table with no key columns to report is a 503.
ResolvePrimaryKey(r) ==
    /\ Runs(r, "resolve")
    /\ \/ table /\ Goto(r, "exists") /\ UNCHANGED held
       \/ ~table /\ Finish(r, Store!Unavailable)
    /\ DatabaseUnchanged /\ UNCHANGED <<op, gotId>>

EnsureTableExists(r) ==
    /\ Runs(r, "exists")
    /\ \/ /\ table
          /\ Goto(r, CASE op[r].kind \in {"insert", "update"} -> "columns"
                       [] op[r].kind = "delete" /\ MySql      -> "preselect"
                       [] OTHER                               -> "statement")
          /\ UNCHANGED held
       \/ ~table /\ Finish(r, Store!NotFound)
    /\ DatabaseUnchanged /\ UNCHANGED <<op, gotId>>

\* rejectGeneratedPrimaryKeyValues on insert, stripGenerated... on update.
GeneratedColumns(r) ==
    /\ Runs(r, "columns")
    /\ IF op[r].kind = "insert" /\ table /\ generated /\ op[r].setKey # Store!NoKey
       THEN Finish(r, Store!Refused)
       ELSE Goto(r, "statement") /\ UNCHANGED held
    /\ DatabaseUnchanged /\ UNCHANGED <<op, gotId>>

SelectRow(r) ==
    /\ op[r].kind = "get"
    /\ Runs(r, "statement")
    /\ Finish(r, Store!FindRow(op[r].key))
    /\ DatabaseUnchanged /\ UNCHANGED <<op, gotId>>

\* One statement writes and returns the row.
WriteReturning(r) ==
    /\ ~MySql
    /\ op[r].kind # "get"
    /\ Runs(r, "statement")
    /\ \E e \in WriteEffects(r, op[r]) :
        /\ TakeEffect(r, e)
        /\ \E out \in {e.out, Store!Unavailable} : Finish(r, out)
    /\ UNCHANGED <<op, gotId, lastId>>

-----------------------------------------------------------------------------
(* The MySQL adapter. *)

\* delete reads the row it is about to delete.
MySqlSelectBeforeDelete(r) ==
    /\ Runs(r, "preselect")
    /\ LET out == Store!FindRow(op[r].key)
       IN  IF out = Store!Refused THEN Finish(r, out)
           ELSE Hold(r, out) /\ Goto(r, "statement")
    /\ DatabaseUnchanged /\ UNCHANGED <<op, gotId>>

\* Slip: the error of the write is swallowed.
AfterMySqlWriteUnchecked(r, out) ==
    IF op[r].kind = "insert"
    THEN Hold(r, Store!Ok([key |-> op[r].setKey, by |-> r])) /\ Goto(r, "lastId")
    ELSE Goto(r, "reselect") /\ UNCHANGED held

\* What the handler does once the write has ended: an insert holds the body.
AfterMySqlWrite(r, out) ==
    IF out = Store!Refused THEN Finish(r, out)
    ELSE CASE op[r].kind = "insert" ->
                /\ Hold(r, Store!Ok([key |-> op[r].setKey, by |-> r]))
                /\ Goto(r, "lastId")
           [] op[r].kind = "delete" -> Goto(r, "respond") /\ UNCHANGED held
           [] OTHER -> Goto(r, "reselect") /\ UNCHANGED held

\* The INSERT, UPDATE or DELETE statement; the affected-row count is not read.
MySqlWrite(r) ==
    /\ MySql
    /\ op[r].kind # "get"
    /\ Runs(r, "statement")
    /\ \E e \in WriteEffects(r, op[r]) :
        /\ TakeEffect(r, e)
        /\ lastId' = IF op[r].kind = "insert" /\ generated /\ e.out # Store!Refused
                     THEN [lastId EXCEPT ![conn[r]] = e.out.row.key] ELSE lastId
        /\ Finish(r, Store!Unavailable) \/ AfterMySqlWrite(r, e.out)
    /\ UNCHANGED <<op, gotId>>

\* SELECT LAST_INSERT_ID(), on whichever connection the pool hands out.
MySqlLastInsertId(r) ==
    /\ Runs(r, "lastId")
    /\ gotId' = [gotId EXCEPT ![r] = lastId[conn[r]]]
    /\ Goto(r, IF lastId[conn[r]] = 0 THEN "respond" ELSE "pkColumns")
    /\ DatabaseUnchanged /\ UNCHANGED <<op, held>>

MySqlAutoIncrementColumn(r) ==
    /\ Runs(r, "pkColumns")
    /\ Goto(r, IF table /\ generated THEN "reselect" ELSE "respond")
    /\ DatabaseUnchanged /\ UNCHANGED <<op, held, gotId>>

\* Slip: update echoes its body instead of reading the row back.
MySqlReselectEcho(r) ==
    /\ Runs(r, "reselect")
    /\ Finish(r, Store!Ok([key |-> op[r].key, by |-> r]))
    /\ DatabaseUnchanged /\ UNCHANGED <<op, gotId>>

\* The row is read back; only update checks that there is one.
MySqlReselect(r) ==
    /\ Runs(r, "reselect")
    /\ IF op[r].kind = "insert"
       THEN LET out == Store!FindRow(gotId[r])
            IN  Finish(r, IF out = Store!NotFound THEN Store!Ok(NoRow) ELSE out)
       ELSE Finish(r, Store!FindRow(op[r].key))
    /\ DatabaseUnchanged /\ UNCHANGED <<op, gotId>>

-----------------------------------------------------------------------------

\* Slip: release is not in a finally, a failing statement keeps its connection.
LoseConnectionKept(r) ==
    /\ pc[r] \in Awaiting
    /\ Finish(r, Store!Unavailable)
    /\ DatabaseUnchanged /\ UNCHANGED <<op, gotId, poolVars>>

\* Slip: the finally releases what a failed connect never gave.
LoseConnectionUnheld(r) ==
    /\ pc[r] \in Awaiting
    /\ Finish(r, Store!Unavailable)
    /\ ReturnConnection(r)
    /\ DatabaseUnchanged /\ UNCHANGED <<op, gotId>>

\* The statement never reaches the table; the pool replaces a broken connection.
LoseConnection(r) ==
    /\ pc[r] \in Awaiting
    /\ Finish(r, Store!Unavailable)
    /\ IF conn[r] = NoConnection THEN UNCHANGED <<poolVars, lastId>>
       ELSE /\ ReturnConnection(r)
            /\ lastId' = [lastId EXCEPT ![conn[r]] = 0]
    /\ UNCHANGED <<table, generated, rows, serial, op, gotId, auxVars>>

Respond(r) ==
    /\ pc[r] = "respond"
    /\ Goto(r, "done")
    /\ DatabaseUnchanged /\ UNCHANGED <<op, held, gotId, poolVars>>

\* Another client of the database drops the table.
DropTable ==
    /\ table
    /\ table' = FALSE
    /\ SetRows([k \in Store!Keys |-> NoRow])
    /\ UNCHANGED <<generated, serial, op, pc, held, gotId, poolVars, lastId, own>>

\* Every request of the instance is answered.
Finished == (\A r \in Requests : pc[r] = "done") /\ UNCHANGED vars

Step(r) ==
    \/ Acquire(r) \/ ResolvePrimaryKey(r) \/ EnsureTableExists(r)
    \/ GeneratedColumns(r) \/ SelectRow(r) \/ WriteReturning(r)
    \/ MySqlSelectBeforeDelete(r) \/ MySqlWrite(r) \/ MySqlLastInsertId(r)
    \/ MySqlAutoIncrementColumn(r) \/ MySqlReselect(r) \/ Respond(r)

Next ==
    \/ \E r \in Requests : Submit(r) \/ Step(r) \/ LoseConnection(r)
    \/ DropTable
    \/ Finished

Spec == Init /\ [][Next]_vars

\* The event loop and the database go on: no started handler stalls.
FairSpec == Spec /\ \A r \in Requests : WF_vars(Step(r))

-----------------------------------------------------------------------------
(* Properties. *)

IsWrite(r) == op[r].kind \in {"insert", "update", "updateColumn", "delete"}

(***************************************************************************)
(* On PostgreSQL and SQL Server every request takes effect at one instant, *)
(* with all its awaits and checks: no other request, no dropped table and  *)
(* no lost connection between two of its statements makes it answer with   *)
(* anything but what that instant did (data/database.ts:81-99).            *)
(***************************************************************************)
AtomicStore == Store!Spec

(***************************************************************************)
(* A write that succeeds answers with the row its own statement stored or  *)
(* removed (data/database.ts:83, :88, :97).                                *)
(***************************************************************************)
AnswerIsOwnRow ==
    \A r \in Requests :
        pc[r] = "done" /\ IsWrite(r) /\ held[r].status = "ok"
            => held[r].row = own[r]

(***************************************************************************)
(* What a request addressed by key answers was true at some instant while  *)
(* it ran: the row it names was there, and for a 404 (the table apart) or  *)
(* a finished delete the key was free (data-access.service.ts:126-191).    *)
(***************************************************************************)
AnswerObserved ==
    \A r \in Requests :
        pc[r] = "done" /\ op[r].key \in Store!Keys =>
            /\ held[r].status = "ok" /\ held[r].row.key = op[r].key =>
                   held[r].row.by \in during[r]
            /\ \/ held[r].status = "notFound"
               \/ held[r].status = "ok" /\ op[r].kind = "delete"
               => NoRow \in during[r]

(***************************************************************************)
(* An insert answers 201 only after its own statement stored a row, and a  *)
(* client error means that nothing was stored, unless the table went away  *)
(* before the row could be read back (mysql-database.ts:79-107).           *)
(***************************************************************************)
InsertAnswerHonest ==
    \A r \in Requests :
        pc[r] = "done" /\ op[r].kind = "insert" =>
            /\ held[r].status = "ok" => own[r] # NoRow
            /\ held[r].status \in {"refused", "notFound"} /\ table => own[r] = NoRow

(***************************************************************************)
(* Every request that reached the service is answered, whatever happens to *)
(* its connections and however few there are: no handler waits for a       *)
(* connection while it holds one (the adapters' execute).                  *)
(***************************************************************************)
EveryRequestAnswered == \A r \in Requests : pc[r] # "idle" ~> pc[r] = "done"
=============================================================================
