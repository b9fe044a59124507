------------------------ MODULE RowOperationsProofs ------------------------
(***************************************************************************)
(* Theorems about RowOperations, for any number of concurrent requests, of *)
(* keys and of connections.                                                *)
(***************************************************************************)
EXTENDS RowOperations, TLAPS

USE RowAssumption

Tables == [Store!Keys -> Store!Writers \cup {NoRow}]

-----------------------------------------------------------------------------
(* What one statement does. *)

(***************************************************************************)
(* A row that is found is the one stored under its key.                    *)
(***************************************************************************)
LEMMA FoundRow ==
    ASSUME TypeOK, NEW k \in Store!Keys
    PROVE  /\ Store!RowAt(k) = NoRow <=> rows[k] = NoRow
           /\ rows[k] # NoRow => /\ rows[k] \in Store!Writers
                                 /\ Store!RowAt(k) = [key |-> k, by |-> rows[k]]
                                 /\ Store!RowAt(k) \in Store!Rows
BY DEF TypeOK, Store!RowAt, Store!Rows

(***************************************************************************)
(* An INSERT stores the request's row under a free key, or does nothing to *)
(* the rows.                                                               *)
(***************************************************************************)
LEMMA InsertFacts ==
    ASSUME TypeOK, NEW r \in Requests, NEW setKey \in 0..MaxKey,
           NEW e, e = Store!InsertRow(r, setKey)
    PROVE  /\ e.rows \in Tables /\ e.serial \in 0..MaxKey
           /\ \/ e.out = Store!Refused /\ e.rows = rows
              \/ /\ table
                 /\ \E k \in Store!Keys : e.out = Store!Ok([key |-> k, by |-> r])
<1> DEFINE k == IF generated THEN serial + 1 ELSE setKey
           next == IF table /\ generated /\ k \in Store!Keys THEN k ELSE serial
<1>1. next \in 0..MaxKey
  BY DEF TypeOK, Store!Keys
<1>2. CASE table /\ k \in Store!Keys /\ Store!RowAt(k) = NoRow
  <2>1. e = Store!Result([rows EXCEPT ![k] = r], next, Store!Ok([key |-> k, by |-> r]))
    BY <1>2 DEF Store!InsertRow
  <2>2. [rows EXCEPT ![k] = r] \in Tables
    BY DEF TypeOK, Tables, Store!Writers
  <2> HIDE DEF k, next
  <2> QED
    BY <1>1, <1>2, <2>1, <2>2 DEF Store!Result
<1>3. CASE ~(table /\ k \in Store!Keys /\ Store!RowAt(k) = NoRow)
  <2>1. e = Store!Result(rows, next, Store!Refused)
    BY <1>3 DEF Store!InsertRow
  <2> HIDE DEF k, next
  <2> QED
    BY <1>1, <2>1 DEF Store!Result, TypeOK, Tables
<1> QED
  BY <1>2, <1>3

\* The effect e is one an UPDATE of the row under k may have.
UpdateDid(e, k) ==
    /\ e.rows \in Tables /\ e.serial = serial
    /\ \/ e.out = Store!Refused /\ e.rows = rows
       \/ e.out = Store!NotFound /\ e.rows = rows /\ rows[k] = NoRow
       \/ /\ table
          /\ \E to \in Store!Keys : \E by \in Store!Writers :
               /\ e.out = Store!Ok([key |-> to, by |-> by])
               /\ e.rows[to] = by

(***************************************************************************)
(* An UPDATE leaves the row it returns in the table, finds none, or does   *)
(* nothing to the rows.                                                    *)
(***************************************************************************)
LEMMA UpdateFacts ==
    ASSUME TypeOK, NEW r \in Requests, NEW k \in Store!Keys,
           NEW setKey \in 0..MaxKey, NEW other
    PROVE  UpdateDid(Store!UpdateRow(r, k, setKey, other), k)
<1> USE DEF UpdateDid
<1> DEFINE e == Store!UpdateRow(r, k, setKey, other)
           to == IF setKey = Store!NoKey THEN k ELSE setKey
           by == IF other THEN r ELSE rows[k]
<1>1. to \in Store!Keys
  BY DEF Store!Keys, Store!NoKey
<1>2. CASE ~table \/ (setKey = Store!NoKey /\ ~other)
  BY <1>2 DEF Store!UpdateRow, Store!Unchanged, Store!Result, TypeOK, Tables
<1>3. CASE ~(~table \/ (setKey = Store!NoKey /\ ~other)) /\ Store!RowAt(k) = NoRow
  <2>1. e = Store!Unchanged(Store!NotFound)
    BY <1>3 DEF Store!UpdateRow
  <2> QED
    BY <1>3, <2>1, FoundRow DEF Store!Unchanged, Store!Result, TypeOK, Tables
<1>4. CASE /\ ~(~table \/ (setKey = Store!NoKey /\ ~other)) /\ Store!RowAt(k) # NoRow
           /\ to # k /\ Store!RowAt(to) # NoRow
  <2>1. e = Store!Unchanged(Store!Refused)
    BY <1>4 DEF Store!UpdateRow
  <2> QED
    BY <1>4, <2>1 DEF Store!Unchanged, Store!Result, TypeOK, Tables
<1>5. CASE /\ ~(~table \/ (setKey = Store!NoKey /\ ~other)) /\ Store!RowAt(k) # NoRow
           /\ ~(to # k /\ Store!RowAt(to) # NoRow)
  <2> DEFINE rs == [rows EXCEPT ![k] = NoRow, ![to] = by]
  <2>1. e = Store!Result(rs, serial, Store!Ok([key |-> to, by |-> by]))
    BY <1>5 DEF Store!UpdateRow
  <2>2. by \in Store!Writers
    BY <1>5, FoundRow DEF Store!Writers
  <2> HIDE DEF to, by
  <2>3. rs \in Tables /\ rs[to] = by
    BY <1>1, <2>2 DEF TypeOK, Tables
  <2> HIDE DEF rs
  <2> QED
    BY <1>1, <1>5, <2>1, <2>2, <2>3 DEF Store!Result
<1> QED
  BY <1>2, <1>3, <1>4, <1>5

(***************************************************************************)
(* A DELETE leaves nothing under the key, and returns what was there.      *)
(***************************************************************************)
LEMMA DeleteFacts ==
    ASSUME TypeOK, NEW k \in Store!Keys, NEW e, e = Store!DeleteRow(k)
    PROVE  /\ e.rows \in Tables /\ e.serial = serial
           /\ \/ e.out = Store!Refused /\ e.rows = rows
              \/ /\ table /\ e.rows[k] = NoRow
                 /\ \/ e.out = Store!NotFound
                    \/ /\ rows[k] \in Store!Writers
                       /\ e.out = Store!Ok([key |-> k, by |-> rows[k]])
<1>1. CASE table
  <2>1. e = Store!Result([rows EXCEPT ![k] = NoRow], serial,
                         Store!FoundOrNot(Store!RowAt(k)))
    BY <1>1 DEF Store!DeleteRow
  <2>2. [rows EXCEPT ![k] = NoRow] \in Tables
    BY DEF TypeOK, Tables
  <2>3. \/ Store!FoundOrNot(Store!RowAt(k)) = Store!NotFound
        \/ /\ rows[k] \in Store!Writers
           /\ Store!FoundOrNot(Store!RowAt(k)) = Store!Ok([key |-> k, by |-> rows[k]])
    BY FoundRow DEF Store!FoundOrNot
  <2> QED
    BY <1>1, <2>1, <2>2, <2>3 DEF Store!Result, TypeOK
<1>2. CASE ~table
  BY <1>2 DEF Store!DeleteRow, Store!Unchanged, Store!Result, TypeOK, Tables
<1> QED
  BY <1>1, <1>2

(***************************************************************************)
(* What the write statement of a handler does, whichever it is.  Nothing   *)
(* of it depends on the table being as it was at the checks before it.     *)
(***************************************************************************)
LEMMA WriteFacts ==
    ASSUME TypeOK, NEW r \in Requests, NEW o \in Store!Operations, o.kind # "get",
           NEW e \in WriteEffects(r, o)
    PROVE  /\ e.rows \in Tables /\ e.serial \in 0..MaxKey
           /\ \/ e.out = Store!Refused /\ e.rows = rows
              \/ /\ e.out = Store!NotFound
                 /\ o.kind # "insert" /\ e.rows[o.key] = NoRow
              \/ /\ table
                 /\ \E row \in Store!Rows :
                      /\ e.out = Store!Ok(row)
                      /\ row.key \in Store!Keys
                      /\ o.kind \in {"update", "updateColumn"} /\ row.key = o.key
                           => e.rows[o.key] = row.by
                      /\ o.kind = "delete"
                           => e.rows[o.key] = NoRow /\ row = [key |-> o.key, by |-> rows[o.key]]
<1>1. /\ o.kind \in {"insert", "update", "updateColumn", "delete"}
      /\ o.setKey \in 0..MaxKey /\ o.other \in BOOLEAN
      /\ o.kind # "insert" => o.key \in Store!Keys
  BY DEF Store!Operations, Store!Kinds, Store!Keys, Store!NoKey
<1>2. \A k \in Store!Keys : \A w \in Store!Writers :
        [key |-> k, by |-> w] \in Store!Rows
  BY DEF Store!Rows
<1>3. CASE o.kind = "insert"
  <2>1. e = Store!InsertRow(r, o.setKey)
    BY <1>3 DEF WriteEffects
  <2>2. /\ e.rows \in Tables /\ e.serial \in 0..MaxKey
        /\ \/ e.out = Store!Refused /\ e.rows = rows
           \/ /\ table
              /\ \E k \in Store!Keys : e.out = Store!Ok([key |-> k, by |-> r])
    BY <1>1, <2>1, InsertFacts
  <2>3. ASSUME NEW k \in Store!Keys
        PROVE  [key |-> k, by |-> r] \in Store!Rows
    BY <1>2 DEF Store!Writers
  <2> QED
    BY <1>3, <2>2, <2>3
<1>4. CASE o.kind \in {"update", "updateColumn"}
  <2>1. SetKey(o) \in 0..MaxKey /\ o.key \in Store!Keys /\ o.other \in BOOLEAN
    BY <1>1, <1>4 DEF SetKey, Store!NoKey
  <2>2. CASE e = Store!UpdateRow(r, o.key, SetKey(o), o.other)
    <3>1. UpdateDid(Store!UpdateRow(r, o.key, SetKey(o), o.other), o.key)
      BY <2>1, UpdateFacts, Zenon
    <3>2. UpdateDid(e, o.key)
      BY <2>2, <3>1, Zenon
    <3>3. /\ e.rows \in Tables /\ e.serial = serial
          /\ \/ e.out = Store!Refused /\ e.rows = rows
             \/ e.out = Store!NotFound /\ e.rows = rows /\ rows[o.key] = NoRow
             \/ /\ table
                /\ \E to \in Store!Keys : \E by \in Store!Writers :
                     /\ e.out = Store!Ok([key |-> to, by |-> by])
                     /\ e.rows[to] = by
      BY <3>2 DEF UpdateDid
    <3>0. serial \in 0..MaxKey
      BY DEF TypeOK
    <3>4. CASE \/ e.out = Store!Refused /\ e.rows = rows
               \/ e.out = Store!NotFound /\ e.rows = rows /\ rows[o.key] = NoRow
      BY <1>4, <3>0, <3>3, <3>4
    <3>5. CASE /\ table
               /\ \E to \in Store!Keys : \E by \in Store!Writers :
                    /\ e.out = Store!Ok([key |-> to, by |-> by])
                    /\ e.rows[to] = by
      <4>1. PICK to \in Store!Keys, by \in Store!Writers :
              e.out = Store!Ok([key |-> to, by |-> by]) /\ e.rows[to] = by
        BY <3>5
      <4> DEFINE row == [key |-> to, by |-> by]
      <4>2. row \in Store!Rows /\ row.key = to /\ row.by = by
        BY <1>2
      <4>3. e.out = Store!Ok(row)
        BY <4>1
      <4>4. row.key = o.key => e.rows[o.key] = row.by
        BY <4>1, <4>2
      <4> HIDE DEF row
      <4> QED
        BY <1>4, <3>0, <3>3, <3>5, <4>2, <4>3, <4>4
    <3> QED
      BY <3>3, <3>4, <3>5
  <2>3. CASE e = Store!Unchanged(Store!Refused)
    BY <2>3 DEF Store!Unchanged, Store!Result, TypeOK, Tables
  <2> QED
    BY <1>4, <2>2, <2>3 DEF WriteEffects
<1>5. CASE o.kind = "delete"
  <2>1. e = Store!DeleteRow(o.key)
    BY <1>5 DEF WriteEffects
  <2>2. e.serial \in 0..MaxKey
    BY <1>1, <1>5, <2>1, DeleteFacts DEF TypeOK
  <2> QED
    BY <1>1, <1>2, <1>5, <2>1, <2>2, DeleteFacts
<1> QED
  BY <1>1, <1>3, <1>4, <1>5

(***************************************************************************)
(* A write statement on a table that is not there does nothing.            *)
(***************************************************************************)
LEMMA WithoutTable ==
    ASSUME NEW r, NEW o \in Store!Operations, o.kind # "get", ~table,
           NEW e \in WriteEffects(r, o)
    PROVE  e = Store!Unchanged(Store!Refused) /\ e.rows = rows
<1>1. e = Store!Unchanged(Store!Refused)
  <2>1. CASE o.kind = "insert"
    BY <2>1 DEF WriteEffects, Store!InsertRow, Store!Unchanged
  <2>2. CASE o.kind = "delete"
    BY <2>2 DEF WriteEffects, Store!DeleteRow
  <2>3. CASE o.kind \in {"update", "updateColumn"}
    BY <2>3 DEF WriteEffects, Store!UpdateRow
  <2> QED
    BY <2>1, <2>2, <2>3 DEF Store!Operations, Store!Kinds
<1> QED
  BY <1>1 DEF Store!Unchanged, Store!Result

(***************************************************************************)
(* What a SELECT by key answers.                                           *)
(***************************************************************************)
LEMMA FindFacts ==
    ASSUME TypeOK, NEW k
    PROVE  \/ ~table /\ Store!FindRow(k) = Store!Refused
           \/ table /\ Store!FindRow(k) = Store!NotFound /\ (k \in Store!Keys => rows[k] = NoRow)
           \/ /\ table /\ k \in Store!Keys /\ rows[k] \in Store!Writers
              /\ Store!FindRow(k) = Store!Ok([key |-> k, by |-> rows[k]])
<1>1. CASE k \in Store!Keys
  BY <1>1, FoundRow DEF Store!FindRow, Store!FoundOrNot
<1>2. CASE k \notin Store!Keys
  BY <1>2 DEF Store!FindRow, Store!FoundOrNot, Store!RowAt
<1> QED
  BY <1>1, <1>2

(***************************************************************************)
(* The outcomes the handlers use are outcomes, and a key and a writer make *)
(* a row.                                                                  *)
(***************************************************************************)
LEMMA OutcomeTypes ==
    /\ Store!NotFound \in Store!Outcomes /\ Store!Refused \in Store!Outcomes
    /\ Store!Unavailable \in Store!Outcomes /\ Store!NoOutcome \in Store!Outcomes
    /\ \A row \in Store!Rows \cup {NoRow} : Store!Ok(row) \in Store!Outcomes
    /\ \A k : \A w \in Store!Writers :
         k \in Store!Keys \cup {Store!NoKey} => [key |-> k, by |-> w] \in Store!Rows
BY DEF Store!Outcomes, Store!Ok, Store!Rows

(***************************************************************************)
(* A SELECT answers with an outcome.                                       *)
(***************************************************************************)
LEMMA FindType ==
    ASSUME TypeOK, NEW k
    PROVE  Store!FindRow(k) \in Store!Outcomes
BY FindFacts, OutcomeTypes

-----------------------------------------------------------------------------
(* Types. *)

(***************************************************************************)
(* A statement that ends gives the pool a connection of the pool.          *)
(***************************************************************************)
LEMMA ReturnType ==
    ASSUME TypeOK, NEW r \in Requests, conn[r] # NoConnection, ReturnConnection(r)
    PROVE  free' \in Seq(Pool) /\ conn' \in [Requests -> Pool \cup {NoConnection}]
BY DEF TypeOK, ReturnConnection

(***************************************************************************)
(* A handler that ends with an outcome is at a place, and holds an         *)
(* outcome.                                                                *)
(***************************************************************************)
LEMMA FinishType ==
    ASSUME TypeOK, NEW r \in Requests, NEW out \in Store!Outcomes, Finish(r, out)
    PROVE  /\ pc' \in [Requests -> Awaiting \cup {"idle", "respond", "done"}]
           /\ held' \in [Requests -> Store!Outcomes]
BY DEF TypeOK, Finish, Hold, Goto

\* The actions that run a statement which only reads.
Reads(r) ==
    \/ ResolvePrimaryKey(r) \/ EnsureTableExists(r) \/ GeneratedColumns(r)
    \/ SelectRow(r) \/ MySqlSelectBeforeDelete(r) \/ MySqlLastInsertId(r)
    \/ MySqlAutoIncrementColumn(r) \/ MySqlReselect(r)

(***************************************************************************)
(* The database, and what the statements of a request did to it, is only   *)
(* changed by writes; the handler holds an outcome.                        *)
(***************************************************************************)
LEMMA ReadsType ==
    ASSUME TypeOK, NEW r \in Requests, Reads(r)
    PROVE  /\ DatabaseUnchanged /\ op' = op
           /\ conn[r] # NoConnection /\ ReturnConnection(r)
           /\ pc' \in [Requests -> Awaiting \cup {"idle", "respond", "done"}]
           /\ held' \in [Requests -> Store!Outcomes]
           /\ gotId' \in [Requests -> 0..MaxKey]
<1> DEFINE Goal ==
      /\ DatabaseUnchanged /\ op' = op
      /\ conn[r] # NoConnection /\ ReturnConnection(r)
      /\ pc' \in [Requests -> Awaiting \cup {"idle", "respond", "done"}]
      /\ held' \in [Requests -> Store!Outcomes]
      /\ gotId' \in [Requests -> 0..MaxKey]
<1> USE OutcomeTypes
<1>1. CASE ResolvePrimaryKey(r)
  BY <1>1, FinishType DEF ResolvePrimaryKey, Runs, Goto, Awaiting, TypeOK
<1>2. CASE EnsureTableExists(r)
  <2>1. CASE Finish(r, Store!NotFound)
    BY <1>2, <2>1, FinishType DEF EnsureTableExists, Runs, TypeOK
  <2>2. CASE held' = held /\ \E next \in Awaiting : Goto(r, next)
    BY <1>2, <2>2 DEF EnsureTableExists, Runs, Goto, Awaiting, TypeOK
  <2> QED
    BY <1>2, <2>1, <2>2 DEF EnsureTableExists, Awaiting
<1>3. CASE GeneratedColumns(r)
  BY <1>3, FinishType DEF GeneratedColumns, Runs, Goto, Awaiting, TypeOK
<1>4. CASE SelectRow(r)
  BY <1>4, FinishType, FindType DEF SelectRow, Runs, TypeOK
<1>5. CASE MySqlSelectBeforeDelete(r)
  <2> DEFINE out == Store!FindRow(op[r].key)
  <2>1. out \in Store!Outcomes
    BY FindType
  <2>2. Finish(r, out) \/ (Hold(r, out) /\ Goto(r, "statement"))
    BY <1>5 DEF MySqlSelectBeforeDelete
  <2>3. /\ DatabaseUnchanged /\ UNCHANGED <<op, gotId>>
        /\ conn[r] # NoConnection /\ ReturnConnection(r)
    BY <1>5 DEF MySqlSelectBeforeDelete, Runs
  <2> HIDE DEF out
  <2>4. CASE Finish(r, out)
    BY <2>1, <2>3, <2>4, FinishType DEF TypeOK
  <2>5. CASE Hold(r, out) /\ Goto(r, "statement")
    BY <2>1, <2>3, <2>5 DEF Hold, Goto, Awaiting, TypeOK
  <2> QED
    BY <2>2, <2>4, <2>5
<1>6. CASE MySqlLastInsertId(r)
  <2>1. lastId[conn[r]] \in 0..MaxKey
    BY <1>6 DEF MySqlLastInsertId, Runs, TypeOK
  <2> QED
    BY <1>6, <2>1 DEF MySqlLastInsertId, Runs, Goto, Awaiting, TypeOK
<1>7. CASE MySqlAutoIncrementColumn(r)
  BY <1>7 DEF MySqlAutoIncrementColumn, Runs, Goto, Awaiting, TypeOK
<1>8. CASE MySqlReselect(r)
  <2>1. \E out \in Store!Outcomes : Finish(r, out)
    BY <1>8, FindType DEF MySqlReselect
  <2> QED
    BY <1>8, <2>1, FinishType DEF MySqlReselect, Runs, TypeOK
<1> QED
  BY <1>1, <1>2, <1>3, <1>4, <1>5, <1>6, <1>7, <1>8 DEF Reads

(***************************************************************************)
(* Whatever the rows become, each request in progress may have observed    *)
(* rows of the table only.                                                 *)
(***************************************************************************)
LEMMA SetRowsType ==
    ASSUME TypeOK, NEW rs \in Tables, SetRows(rs)
    PROVE  /\ rows' \in Tables
           /\ during' \in [Requests -> SUBSET (Store!Writers \cup {NoRow})]
<1>1. ASSUME NEW r \in Requests
      PROVE  (IF op[r].key \in Store!Keys /\ pc[r] \notin {"idle", "done"}
              THEN during[r] \cup {rs[op[r].key]} ELSE during[r])
             \in SUBSET (Store!Writers \cup {NoRow})
  BY DEF TypeOK, Tables
<1> QED
  BY <1>1 DEF SetRows

(***************************************************************************)
(* What a write statement does to the database has the right type.         *)
(***************************************************************************)
LEMMA TakeEffectType ==
    ASSUME TypeOK, NEW r \in Requests, op[r] \in Store!Operations, op[r].kind # "get",
           NEW e \in WriteEffects(r, op[r]), TakeEffect(r, e)
    PROVE  /\ table' = table /\ generated' = generated
           /\ rows' \in Tables /\ serial' \in 0..MaxKey
           /\ during' \in [Requests -> SUBSET (Store!Writers \cup {NoRow})]
           /\ own' \in [Requests -> Store!Rows \cup {NoRow}]
           /\ e.out \in Store!Outcomes
<1>1. e.rows \in Tables /\ e.serial \in 0..MaxKey
  BY WriteFacts
<1>2. \/ e.out = Store!Refused \/ e.out = Store!NotFound
      \/ \E row \in Store!Rows : e.out = Store!Ok(row)
  BY WriteFacts
<1>3. e.out \in Store!Outcomes /\ e.out.row \in Store!Rows \cup {NoRow}
  <2>1. CASE e.out = Store!Refused \/ e.out = Store!NotFound
    BY <2>1, OutcomeTypes DEF Store!Refused, Store!NotFound
  <2>2. ASSUME NEW row \in Store!Rows, e.out = Store!Ok(row)
        PROVE  e.out \in Store!Outcomes /\ e.out.row = row
    <3>1. e.out \in Store!Outcomes
      BY <2>2, OutcomeTypes
    <3>2. e.out.row = row
      BY <2>2 DEF Store!Ok
    <3> QED
      BY <3>1, <3>2
  <2> QED
    BY <1>2, <2>1, <2>2
<1>4. SetRows(e.rows) /\ serial' = e.serial /\ table' = table /\ generated' = generated
  BY DEF TakeEffect
<1>5. own' \in [Requests -> Store!Rows \cup {NoRow}]
  BY <1>3 DEF TakeEffect, TypeOK
<1> QED
  BY <1>1, <1>3, <1>4, <1>5, SetRowsType

(***************************************************************************)
(* A request that has not been submitted has no operation, a submitted one *)
(* has one of those the interface knows.                                   *)
(***************************************************************************)
Submitted(r) ==
    /\ pc[r] = "idle" => op[r] = Store!NoOperation /\ held[r] = Store!NoOutcome
    /\ pc[r] # "idle" => op[r] \in Store!Operations

TypeInv == TypeOK /\ \A r \in Requests : Submitted(r)

(***************************************************************************)
(* The initial states have the types, and every handler is idle.           *)
(***************************************************************************)
LEMMA TypeInit == Init => TypeInv
<1> SUFFICES ASSUME Init PROVE TypeInv
  OBVIOUS
<1>1. rows \in [Store!Keys -> Store!Writers \cup {NoRow}]
  BY DEF Init, Store!Writers
<1>2. free \in Seq(Pool)
  BY DEF Init
<1>3. TypeOK
  BY <1>1, <1>2, OutcomeTypes DEF Init, TypeOK
<1>4. \A r \in Requests : Submitted(r)
  BY DEF Init, Submitted
<1> QED
  BY <1>3, <1>4 DEF TypeInv

(***************************************************************************)
(* One step of one request keeps the types.                                *)
(***************************************************************************)
LEMMA SubmitType ==
    ASSUME TypeInv, NEW r \in Requests, Submit(r)
    PROVE  TypeInv'
<1>1. PICK o \in Asked :
        /\ op' = [op EXCEPT ![r] = o]
        /\ pc' = [pc EXCEPT ![r] = IF o.kind = "insert" THEN "exists" ELSE "resolve"]
        /\ during' = [during EXCEPT ![r] =
                        IF o.key \in Store!Keys THEN {rows[o.key]} ELSE {}]
  BY DEF Submit, Goto
<1>2. o \in Store!Operations
  OBVIOUS
<1>3. /\ op' \in [Requests -> Store!Operations \cup {Store!NoOperation}]
      /\ pc' \in [Requests -> Awaiting \cup {"idle", "respond", "done"}]
  BY <1>1, <1>2 DEF TypeInv, TypeOK, Awaiting
<1>4. during' \in [Requests -> SUBSET (Store!Writers \cup {NoRow})]
  BY <1>1 DEF TypeInv, TypeOK
<1>5. UNCHANGED <<table, generated, rows, serial, held, gotId, free, conn, lastId, own>>
  BY DEF Submit, poolVars
<1>6. TypeOK'
  BY <1>3, <1>4, <1>5 DEF TypeInv, TypeOK
<1>7. ASSUME NEW q \in Requests
      PROVE  Submitted(q)'
  BY <1>1, <1>2, <1>5 DEF TypeInv, TypeOK, Submitted, Submit
<1> QED
  BY <1>6, <1>7 DEF TypeInv

(***************************************************************************)
(* The pool hands out one of its own connections.                          *)
(***************************************************************************)
LEMMA AcquireType ==
    ASSUME TypeInv, NEW r \in Requests, Acquire(r)
    PROVE  TypeInv'
<1>1. /\ free # <<>> /\ free \in Seq(Pool)
      /\ conn' = [conn EXCEPT ![r] = Head(free)] /\ free' = Tail(free)
  BY DEF Acquire, TypeInv, TypeOK
<1>2. Head(free) \in Pool /\ Tail(free) \in Seq(Pool)
  BY <1>1
<1>3. UNCHANGED <<table, generated, rows, serial, lastId, own, during, op, pc, held, gotId>>
  BY DEF Acquire, DatabaseUnchanged, auxVars
<1>4. TypeOK'
  BY <1>1, <1>2, <1>3 DEF TypeInv, TypeOK
<1> QED
  BY <1>3, <1>4 DEF TypeInv, Submitted

(***************************************************************************)
(* A handler that has started does not become idle again, nor do others.   *)
(***************************************************************************)
LEMMA StaysSubmitted ==
    ASSUME TypeInv, NEW r \in Requests, pc[r] # "idle", op' = op,
           NEW next, next # "idle", pc' = [pc EXCEPT ![r] = next],
           held' = held \/ \E out : held' = [held EXCEPT ![r] = out]
    PROVE  \A q \in Requests : Submitted(q)'
BY DEF TypeInv, TypeOK, Submitted

(***************************************************************************)
(* A statement that reads is run at an await and leads to an await or to   *)
(* the response.                                                           *)
(***************************************************************************)
LEMMA ReadsPc ==
    ASSUME NEW r, Reads(r)
    PROVE  /\ pc[r] \in Awaiting
           /\ \E next \in Awaiting \cup {"respond"} : Goto(r, next)
           /\ held' = held \/ \E out : Hold(r, out)
<1>1. CASE ResolvePrimaryKey(r)
  BY <1>1 DEF ResolvePrimaryKey, Runs, Finish, Awaiting
<1>2. CASE EnsureTableExists(r)
  BY <1>2 DEF EnsureTableExists, Runs, Finish, Awaiting
<1>3. CASE GeneratedColumns(r)
  BY <1>3 DEF GeneratedColumns, Runs, Finish, Awaiting
<1>4. CASE SelectRow(r)
  BY <1>4 DEF SelectRow, Runs, Finish, Awaiting
<1>5. CASE MySqlSelectBeforeDelete(r)
  BY <1>5 DEF MySqlSelectBeforeDelete, Runs, Finish, Awaiting
<1>6. CASE MySqlLastInsertId(r)
  BY <1>6 DEF MySqlLastInsertId, Runs, Awaiting
<1>7. CASE MySqlAutoIncrementColumn(r)
  BY <1>7 DEF MySqlAutoIncrementColumn, Runs, Awaiting
<1>8. CASE MySqlReselect(r)
  BY <1>8 DEF MySqlReselect, Runs, Finish, Awaiting
<1> QED
  BY <1>1, <1>2, <1>3, <1>4, <1>5, <1>6, <1>7, <1>8 DEF Reads

(***************************************************************************)
(* A statement that reads keeps the types.                                 *)
(***************************************************************************)
LEMMA ReadsKeepType ==
    ASSUME TypeInv, NEW r \in Requests, Reads(r)
    PROVE  TypeInv'
<1>1. TypeOK
  BY DEF TypeInv
<1>2. /\ DatabaseUnchanged /\ op' = op
      /\ conn[r] # NoConnection /\ ReturnConnection(r)
      /\ pc' \in [Requests -> Awaiting \cup {"idle", "respond", "done"}]
      /\ held' \in [Requests -> Store!Outcomes]
      /\ gotId' \in [Requests -> 0..MaxKey]
  BY <1>1, ReadsType
<1>3. free' \in Seq(Pool) /\ conn' \in [Requests -> Pool \cup {NoConnection}]
  BY <1>1, <1>2, ReturnType
<1>4. TypeOK'
  BY <1>1, <1>2, <1>3 DEF TypeOK, DatabaseUnchanged, auxVars
<1>5. \A q \in Requests : Submitted(q)'
  <2>1. pc[r] # "idle"
    BY ReadsPc DEF Awaiting
  <2>2. PICK next \in Awaiting \cup {"respond"} : pc' = [pc EXCEPT ![r] = next]
    BY ReadsPc DEF Goto
  <2>3. next # "idle"
    BY DEF Awaiting
  <2>4. held' = held \/ \E out : held' = [held EXCEPT ![r] = out]
    BY ReadsPc DEF Hold
  <2> QED
    BY <1>2, <2>1, <2>2, <2>3, <2>4, StaysSubmitted
<1> QED
  BY <1>4, <1>5 DEF TypeInv

(***************************************************************************)
(* A write statement keeps the types: what it stores and what it generates *)
(* are rows and keys of the table.                                         *)
(***************************************************************************)
LEMMA WriteKeepsType ==
    ASSUME TypeInv, NEW r \in Requests, WriteReturning(r) \/ MySqlWrite(r)
    PROVE  TypeInv'
<1>1. TypeOK
  BY DEF TypeInv
<1>2. /\ pc[r] = "statement" /\ op[r].kind # "get"
      /\ conn[r] # NoConnection /\ ReturnConnection(r)
      /\ op' = op /\ gotId' = gotId
  BY DEF WriteReturning, MySqlWrite, Runs
<1>3. op[r] \in Store!Operations
  BY <1>2 DEF TypeInv, Submitted
<1>4. PICK e \in WriteEffects(r, op[r]) :
        /\ TakeEffect(r, e)
        /\ \/ /\ lastId' = lastId
              /\ \E out \in {e.out, Store!Unavailable} : Finish(r, out)
           \/ /\ lastId' = IF op[r].kind = "insert" /\ generated /\ e.out # Store!Refused
                           THEN [lastId EXCEPT ![conn[r]] = e.out.row.key] ELSE lastId
              /\ Finish(r, Store!Unavailable) \/ AfterMySqlWrite(r, e.out)
  BY DEF WriteReturning, MySqlWrite
<1>5. /\ table' = table /\ generated' = generated
      /\ rows' \in Tables /\ serial' \in 0..MaxKey
      /\ during' \in [Requests -> SUBSET (Store!Writers \cup {NoRow})]
      /\ own' \in [Requests -> Store!Rows \cup {NoRow}]
      /\ e.out \in Store!Outcomes
  BY <1>1, <1>2, <1>3, <1>4, TakeEffectType
<1>6. lastId' \in [Pool -> 0..MaxKey]
  <2>1. CASE lastId' = lastId
    BY <1>1, <2>1 DEF TypeOK
  <2>2. CASE /\ op[r].kind = "insert" /\ e.out # Store!Refused
             /\ lastId' = [lastId EXCEPT ![conn[r]] = e.out.row.key]
    <3>1. e = Store!InsertRow(r, op[r].setKey) /\ op[r].setKey \in 0..MaxKey
      BY <1>3, <2>2 DEF WriteEffects, Store!Operations, Store!Keys, Store!NoKey
    <3>2. PICK k \in Store!Keys : e.out = Store!Ok([key |-> k, by |-> r])
      BY <1>1, <2>2, <3>1, InsertFacts
    <3>3. e.out.row.key \in 0..MaxKey
      BY <3>2 DEF Store!Ok, Store!Keys
    <3> QED
      BY <1>1, <2>2, <3>3 DEF TypeOK
  <2> QED
    BY <1>4, <2>1, <2>2
<1>7. \E next \in Awaiting \cup {"respond"} :
        /\ pc' = [pc EXCEPT ![r] = next]
        /\ \/ held' = held
           \/ \E out \in Store!Outcomes : held' = [held EXCEPT ![r] = out]
  <2>1. ASSUME NEW out \in Store!Outcomes, Finish(r, out)
        PROVE  pc' = [pc EXCEPT ![r] = "respond"] /\ held' = [held EXCEPT ![r] = out]
    BY <2>1 DEF Finish, Hold, Goto
  <2>2. CASE AfterMySqlWrite(r, e.out)
    <3>1. CASE e.out = Store!Refused
      BY <2>1, <2>2, <3>1, OutcomeTypes DEF AfterMySqlWrite
    <3>2. CASE e.out # Store!Refused /\ op[r].kind = "insert"
      <4>1. Store!Ok([key |-> op[r].setKey, by |-> r]) \in Store!Outcomes
        BY <1>3, OutcomeTypes DEF Store!Operations, Store!Writers
      <4> QED
        BY <2>2, <3>2, <4>1 DEF AfterMySqlWrite, Hold, Goto, Awaiting
    <3>3. CASE e.out # Store!Refused /\ op[r].kind # "insert"
      BY <2>2, <3>3 DEF AfterMySqlWrite, Goto, Awaiting
    <3> QED
      BY <3>1, <3>2, <3>3
  <2>3. CASE \E out \in {e.out, Store!Unavailable} : Finish(r, out)
    BY <1>5, <2>1, <2>3, OutcomeTypes
  <2> QED
    BY <1>4, <2>2, <2>3
<1>8. PICK next \in Awaiting \cup {"respond"} :
        /\ pc' = [pc EXCEPT ![r] = next]
        /\ \/ held' = held
           \/ \E out \in Store!Outcomes : held' = [held EXCEPT ![r] = out]
  BY <1>7
<1>9. /\ pc' \in [Requests -> Awaiting \cup {"idle", "respond", "done"}]
      /\ held' \in [Requests -> Store!Outcomes]
  <2>1. /\ pc \in [Requests -> Awaiting \cup {"idle", "respond", "done"}]
        /\ held \in [Requests -> Store!Outcomes]
    BY <1>1 DEF TypeOK
  <2>2. pc' \in [Requests -> Awaiting \cup {"idle", "respond", "done"}]
    BY <1>8, <2>1
  <2>3. held' \in [Requests -> Store!Outcomes]
    BY <1>8, <2>1
  <2> QED
    BY <2>2, <2>3
<1>10. free' \in Seq(Pool) /\ conn' \in [Requests -> Pool \cup {NoConnection}]
  BY <1>1, <1>2, ReturnType
<1>11. TypeOK'
  BY <1>1, <1>2, <1>5, <1>6, <1>9, <1>10 DEF TypeOK, Tables
<1>12. \A q \in Requests : Submitted(q)'
  <2>1. next # "idle" /\ pc[r] # "idle"
    BY <1>2 DEF Awaiting
  <2>2. held' = held \/ \E out : held' = [held EXCEPT ![r] = out]
    BY <1>8
  <2> QED
    BY <1>2, <1>8, <2>1, <2>2, StaysSubmitted
<1> QED
  BY <1>11, <1>12 DEF TypeInv

(***************************************************************************)
(* Losing a connection keeps the types.                                    *)
(***************************************************************************)
LEMMA LoseConnectionType ==
    ASSUME TypeInv, NEW r \in Requests, LoseConnection(r)
    PROVE  TypeInv'
<1>1. TypeOK /\ pc[r] \in Awaiting /\ Finish(r, Store!Unavailable)
  BY DEF TypeInv, LoseConnection
<1>2. UNCHANGED <<table, generated, rows, serial, op, gotId, own, during>>
  BY DEF LoseConnection, auxVars
<1>3. /\ pc' \in [Requests -> Awaiting \cup {"idle", "respond", "done"}]
      /\ held' \in [Requests -> Store!Outcomes]
  BY <1>1, FinishType, OutcomeTypes
<1>4. /\ free' \in Seq(Pool) /\ conn' \in [Requests -> Pool \cup {NoConnection}]
      /\ lastId' \in [Pool -> 0..MaxKey]
  <2>1. CASE conn[r] = NoConnection
    BY <1>1, <2>1 DEF LoseConnection, TypeOK, poolVars
  <2>2. CASE conn[r] # NoConnection
    <3>1. ReturnConnection(r) /\ lastId' = [lastId EXCEPT ![conn[r]] = 0]
      BY <2>2 DEF LoseConnection
    <3>2. 0 \in 0..MaxKey /\ lastId \in [Pool -> 0..MaxKey]
      BY <1>1 DEF TypeOK
    <3>3. lastId' \in [Pool -> 0..MaxKey]
      BY <3>1, <3>2
    <3> QED
      BY <1>1, <2>2, <3>1, <3>3, ReturnType
  <2> QED
    BY <2>1, <2>2
<1>5. TypeOK'
  BY <1>1, <1>2, <1>3, <1>4 DEF TypeOK
<1>6. \A q \in Requests : Submitted(q)'
  <2>1. pc[r] # "idle"
    BY <1>1 DEF Awaiting
  <2>2. pc' = [pc EXCEPT ![r] = "respond"] /\ \E out : held' = [held EXCEPT ![r] = out]
    BY <1>1 DEF Finish, Hold, Goto
  <2> QED
    BY <1>2, <2>1, <2>2, StaysSubmitted
<1> QED
  BY <1>5, <1>6 DEF TypeInv

(***************************************************************************)
(* Answering keeps the types.                                              *)
(***************************************************************************)
LEMMA RespondType ==
    ASSUME TypeInv, NEW r \in Requests, Respond(r)
    PROVE  TypeInv'
BY DEF TypeInv, TypeOK, Submitted, Respond, Goto, DatabaseUnchanged, poolVars, auxVars

(***************************************************************************)
(* A dropped table has rows of the right type: none.                       *)
(***************************************************************************)
LEMMA DropTableType ==
    ASSUME TypeInv, DropTable
    PROVE  TypeInv'
<1> DEFINE rs == [k \in Store!Keys |-> NoRow]
<1>1. rs \in Tables
  BY DEF Tables
<1>2. SetRows(rs) /\ table' = FALSE
  BY DEF DropTable
<1>3. UNCHANGED <<generated, serial, op, pc, held, gotId, free, conn, lastId, own>>
  BY DEF DropTable, poolVars
<1> HIDE DEF rs
<1>4. TypeOK'
  BY <1>1, <1>2, <1>3, SetRowsType DEF TypeInv, TypeOK, Tables
<1> QED
  BY <1>3, <1>4 DEF TypeInv, Submitted

(***************************************************************************)
(* Every step of a handler reads, writes, takes a connection or answers.   *)
(***************************************************************************)
LEMMA StepCases ==
    ASSUME NEW r, Step(r)
    PROVE  Acquire(r) \/ Reads(r) \/ WriteReturning(r) \/ MySqlWrite(r) \/ Respond(r)
BY DEF Step, Reads

(***************************************************************************)
(* Every step keeps the types and starts a handler only on an operation.   *)
(***************************************************************************)
LEMMA TypeStep == TypeInv /\ [Next]_vars => TypeInv'
<1> SUFFICES ASSUME TypeInv, [Next]_vars PROVE TypeInv'
  OBVIOUS
<1>1. ASSUME NEW r \in Requests, Submit(r) PROVE TypeInv'
  BY <1>1, SubmitType
<1>2. ASSUME NEW r \in Requests, Step(r) PROVE TypeInv'
  BY <1>2, StepCases, AcquireType, ReadsKeepType, WriteKeepsType, RespondType
<1>3. ASSUME NEW r \in Requests, LoseConnection(r) PROVE TypeInv'
  BY <1>3, LoseConnectionType
<1>4. CASE DropTable
  BY <1>4, DropTableType
<1>5. CASE UNCHANGED vars
  BY <1>5 DEF vars, TypeInv, TypeOK, Submitted
<1> QED
  BY <1>1, <1>2, <1>3, <1>4, <1>5 DEF Next, Finished

(***************************************************************************)
(* TypeInv is an invariant.                                                *)
(***************************************************************************)
LEMMA TypeInvariant == Spec => []TypeInv
BY TypeInit, TypeStep, PTL DEF Spec

(***************************************************************************)
(* Every variable of the row endpoints keeps its type.                     *)
(***************************************************************************)
THEOREM TypeCorrect == Spec => []TypeOK
<1>1. TypeInv => TypeOK
  BY DEF TypeInv
<1> QED
  BY <1>1, TypeInvariant, PTL

-----------------------------------------------------------------------------
(* What the handlers know at each await. *)

(***************************************************************************)
(* Where a handler of each kind can be, and what it holds there.           *)
(***************************************************************************)
Control(r) ==
    /\ pc[r] = "resolve" => op[r].kind # "insert"
    /\ pc[r] = "columns" => op[r].kind \in {"insert", "update"}
    /\ pc[r] = "preselect" => MySql /\ op[r].kind = "delete"
    /\ pc[r] \in {"lastId", "pkColumns"} =>
           MySql /\ op[r].kind = "insert" /\ held[r].status = "ok"
    /\ pc[r] = "reselect" =>
           MySql /\ op[r].kind \in {"insert", "update", "updateColumn"}
    /\ pc[r] = "statement" /\ MySql /\ op[r].kind = "delete" =>
           held[r].status \in {"ok", "notFound"}
    /\ pc[r] = "statement" /\ op[r].kind = "insert" /\ table /\ generated =>
           op[r].setKey = Store!NoKey
    /\ Performed(r) => held[r].status # "none"

(***************************************************************************)
(* Whether an insert has stored a row, at each of its awaits.              *)
(***************************************************************************)
Honest(r) ==
    op[r].kind = "insert" \/ pc[r] = "idle" =>
        /\ pc[r] \in {"idle", "exists", "columns", "statement"} => own[r] = NoRow
        /\ pc[r] \in {"lastId", "pkColumns", "reselect"} => own[r] # NoRow
        /\ Performed(r) /\ held[r].status = "ok" => own[r] # NoRow
        /\ Performed(r) /\ held[r].status \in {"refused", "notFound"} /\ table
               => own[r] = NoRow

(***************************************************************************)
(* A request that holds an answer by key has observed it: so has a delete  *)
(* of the MySQL adapter from the moment it has read the row.               *)
(***************************************************************************)
HoldsAnswer(r) ==
    Performed(r) \/ (pc[r] = "statement" /\ MySql /\ op[r].kind = "delete")

Observed(r) ==
    op[r].key \in Store!Keys /\ pc[r] # "idle" =>
        /\ pc[r] # "done" => rows[op[r].key] \in during[r]
        /\ HoldsAnswer(r) /\ held[r].status = "ok" /\ held[r].row.key = op[r].key
               => held[r].row.by \in during[r]
        /\ HoldsAnswer(r) /\ held[r].status = "notFound" => NoRow \in during[r]
        /\ Performed(r) /\ held[r].status = "ok" /\ op[r].kind = "delete"
               => NoRow \in during[r]

\* A write that returns its row holds the row it wrote.
OwnRow(r) ==
    ~MySql /\ Performed(r) /\ IsWrite(r) /\ held[r].status = "ok"
        => held[r].row = own[r]

NoRowsWithoutTable == ~table => \A k \in Store!Keys : rows[k] = NoRow

Sound(r) == Control(r) /\ Honest(r) /\ Observed(r) /\ OwnRow(r)

AnswerInv == TypeInv /\ NoRowsWithoutTable /\ \A r \in Requests : Sound(r)

(***************************************************************************)
(* Nothing has been written, observed or answered at the start.            *)
(***************************************************************************)
LEMMA AnswerInit == Init => AnswerInv
<1> SUFFICES ASSUME Init PROVE AnswerInv
  OBVIOUS
<1>1. ASSUME NEW r \in Requests
      PROVE  Sound(r)
  <2>1. pc[r] = "idle" /\ op[r] = Store!NoOperation /\ own[r] = NoRow
    BY DEF Init
  <2> QED
    BY <2>1 DEF Sound, Control, Honest, Observed, OwnRow, Performed
<1>2. NoRowsWithoutTable
  BY DEF Init, NoRowsWithoutTable
<1> QED
  BY <1>1, <1>2, TypeInit DEF AnswerInv

(***************************************************************************)
(* A request that another one's step leaves where it is stays sound: the   *)
(* table does not come back, and what the request may have observed grows. *)
(***************************************************************************)
LEMMA Frame ==
    ASSUME AnswerInv, NEW q \in Requests,
           op'[q] = op[q], pc'[q] = pc[q], held'[q] = held[q], own'[q] = own[q],
           generated' = generated, table' => table,
           during[q] \subseteq during'[q],
           op[q].key \in Store!Keys /\ pc[q] \notin {"idle", "done"} =>
               rows'[op[q].key] \in during'[q]
    PROVE  Sound(q)'
<1>1. Control(q) /\ Honest(q) /\ Observed(q) /\ OwnRow(q)
  BY DEF AnswerInv, Sound
<1>2. Control(q)'
  BY <1>1 DEF Control, Performed, MySql
<1>3. Honest(q)'
  BY <1>1 DEF Honest, Performed
<1>4. Observed(q)'
  BY <1>1 DEF Observed, HoldsAnswer, Performed, MySql
<1>5. OwnRow(q)'
  BY <1>1 DEF OwnRow, Performed, MySql, IsWrite
<1> QED
  BY <1>2, <1>3, <1>4, <1>5 DEF Sound

\* What the rows become has been observed by every request in progress.
Watched(q) ==
    /\ during[q] \subseteq during'[q]
    /\ op[q].key \in Store!Keys /\ pc[q] \notin {"idle", "done"} =>
           rows'[op[q].key] \in during'[q]

(***************************************************************************)
(* A change of the rows is added to what every request in progress may     *)
(* have observed.                                                          *)
(***************************************************************************)
LEMMA SetRowsWatched ==
    ASSUME NEW rs, SetRows(rs)
    PROVE  \A q \in Requests : Watched(q)
BY DEF SetRows, Watched

(***************************************************************************)
(* When the rows stay, so does what has been observed of them.             *)
(***************************************************************************)
LEMMA UnchangedWatched ==
    ASSUME AnswerInv, rows' = rows, during' = during
    PROVE  \A q \in Requests : Watched(q)
BY DEF AnswerInv, Sound, Observed, Watched

(***************************************************************************)
(* A handler may end with `out` if out is what its statement did.          *)
(***************************************************************************)
MayAnswer(r, out) ==
    /\ out.status # "none"
    /\ op[r].kind = "insert" =>
           /\ out.status = "ok" => own'[r] # NoRow
           /\ out.status \in {"refused", "notFound"} /\ table' => own'[r] = NoRow
    /\ op[r].key \in Store!Keys =>
           /\ out.status = "ok" /\ out.row.key = op[r].key => out.row.by \in during'[r]
           /\ out.status = "notFound" => NoRow \in during'[r]
           /\ out.status = "ok" /\ op[r].kind = "delete" => NoRow \in during'[r]
    /\ ~MySql /\ IsWrite(r) /\ out.status = "ok" => out.row = own'[r]

(***************************************************************************)
(* A handler that ends with such an outcome is sound.                      *)
(***************************************************************************)
LEMMA FinishSound ==
    ASSUME AnswerInv, NEW r \in Requests, pc[r] \in Awaiting, op' = op, Watched(r),
           NEW out, MayAnswer(r, out),
           pc' = [pc EXCEPT ![r] = "respond"], held'[r] = out
    PROVE  Sound(r)'
<1>1. pc'[r] = "respond" /\ op'[r] = op[r]
  BY DEF AnswerInv, TypeInv, TypeOK
<1>2. pc[r] \notin {"idle", "done"}
  BY DEF Awaiting
<1>3. Control(r)'
  BY <1>1 DEF Control, Performed, MayAnswer
<1>4. Honest(r)'
  BY <1>1 DEF Honest, Performed, MayAnswer
<1>5. Observed(r)'
  BY <1>1, <1>2 DEF Observed, HoldsAnswer, Performed, MayAnswer, Watched
<1>6. OwnRow(r)'
  BY <1>1 DEF OwnRow, Performed, MySql, IsWrite, MayAnswer
<1> QED
  BY <1>3, <1>4, <1>5, <1>6 DEF Sound

(***************************************************************************)
(* Ending with 503 claims nothing.                                         *)
(***************************************************************************)
LEMMA MayBeUnavailable ==
    ASSUME NEW r
    PROVE  MayAnswer(r, Store!Unavailable)
BY DEF MayAnswer, Store!Unavailable

(***************************************************************************)
(* The answer of a SELECT by the request's key has just been observed.     *)
(***************************************************************************)
LEMMA FoundObserved ==
    ASSUME AnswerInv, NEW r \in Requests, pc[r] \in Awaiting, op[r].key \in Store!Keys,
           NEW out, out = Store!FindRow(op[r].key)
    PROVE  /\ out.status \in {"ok", "notFound", "refused"}
           /\ out.status = "ok" => out.row.by \in during[r]
           /\ out.status = "notFound" => NoRow \in during[r]
           /\ out.status = "refused" <=> out = Store!Refused
<1>1. TypeOK /\ rows[op[r].key] \in during[r]
  BY DEF AnswerInv, Sound, TypeInv, Observed, Awaiting
<1>2. CASE ~table
  <2>1. out = Store!Refused
    BY <1>1, <1>2, FindFacts
  <2> QED
    BY <2>1 DEF Store!Refused
<1>3. CASE table /\ out = Store!NotFound /\ rows[op[r].key] = NoRow
  BY <1>1, <1>3 DEF Store!NotFound, Store!Refused
<1>4. CASE out = Store!Ok([key |-> op[r].key, by |-> rows[op[r].key]])
  <2>1. out.status = "ok" /\ out.row = [key |-> op[r].key, by |-> rows[op[r].key]]
    BY <1>4 DEF Store!Ok
  <2>2. out.row.by = rows[op[r].key] /\ Store!Refused.status = "refused"
    BY <2>1 DEF Store!Refused
  <2> QED
    BY <1>1, <2>1, <2>2
<1> QED
  BY <1>1, <1>2, <1>3, <1>4, FindFacts

(***************************************************************************)
(* Reading changes only the handler's own state, and what it comes to hold *)
(* has been observed.                                                      *)
(***************************************************************************)
LEMMA ReadsSound ==
    ASSUME AnswerInv, NEW r \in Requests, Reads(r)
    PROVE  Sound(r)'
<1>1. /\ TypeInv /\ TypeOK /\ Sound(r) /\ NoRowsWithoutTable
      /\ Control(r) /\ Honest(r) /\ Observed(r) /\ OwnRow(r)
  BY DEF AnswerInv, TypeInv, Sound
<1>2. /\ table' = table /\ generated' = generated /\ rows' = rows /\ serial' = serial
      /\ lastId' = lastId /\ own' = own /\ during' = during /\ op' = op
  BY <1>1, ReadsType DEF DatabaseUnchanged, auxVars
<1>3. pc[r] \in Awaiting /\ op[r] \in Store!Operations /\ ~Performed(r)
  BY <1>1, ReadsPc DEF TypeInv, Submitted, Awaiting, Performed
<1>4. Watched(r)
  BY <1>2, UnchangedWatched
<1>5. ASSUME NEW out, Finish(r, out), MayAnswer(r, out)
      PROVE  Sound(r)'
  <2>1. pc' = [pc EXCEPT ![r] = "respond"] /\ held'[r] = out
    BY <1>1, <1>5 DEF Finish, Hold, Goto, TypeOK
  <2> QED
    BY <1>2, <1>3, <1>4, <1>5, <2>1, FinishSound
<1>6. MayAnswer(r, Store!Unavailable)
  BY MayBeUnavailable
<1>7. op[r].kind = "insert" => op[r].key \notin Store!Keys
  BY <1>3 DEF Store!Operations, Store!Keys, Store!NoKey
<1>8. ASSUME NEW next \in Awaiting, Goto(r, next), held' = held, Control(r)',
             ~(next = "statement" /\ MySql /\ op[r].kind = "delete"),
             op[r].kind = "insert" =>
                 \/ {next, pc[r]} \subseteq {"exists", "columns", "statement"}
                 \/ {next, pc[r]} \subseteq {"lastId", "pkColumns", "reselect"}
      PROVE  Sound(r)'
  <2>1. pc'[r] = next /\ held'[r] = held[r] /\ next # "idle"
    BY <1>1, <1>8 DEF Goto, TypeOK, Awaiting
  <2>2. Honest(r)'
    BY <1>1, <1>2, <1>3, <1>8, <2>1 DEF Honest, Performed, Awaiting
  <2>3. Observed(r)'
    BY <1>1, <1>2, <1>3, <1>8, <2>1 DEF Observed, HoldsAnswer, Performed, Awaiting, MySql
  <2>4. OwnRow(r)'
    BY <2>1 DEF OwnRow, Performed, Awaiting
  <2> QED
    BY <1>8, <2>2, <2>3, <2>4 DEF Sound
<1>9. ASSUME pc'[r] = "respond", pc' = [pc EXCEPT ![r] = "respond"], held' = held,
             pc[r] \in {"lastId", "pkColumns"}
      PROVE  Sound(r)'
  <2>1. MySql /\ op[r].kind = "insert" /\ held[r].status = "ok" /\ own[r] # NoRow
    BY <1>1, <1>9 DEF Control, Honest
  <2>2. MayAnswer(r, held[r])
    BY <1>2, <1>7, <2>1 DEF MayAnswer
  <2> QED
    BY <1>2, <1>3, <1>4, <1>9, <2>2, FinishSound
<1>10. CASE ResolvePrimaryKey(r)
  <2>1. pc[r] = "resolve" /\ op[r].kind # "insert"
    BY <1>1, <1>10 DEF ResolvePrimaryKey, Runs, Control
  <2>2. CASE Finish(r, Store!Unavailable)
    BY <1>5, <1>6, <2>2
  <2>3. CASE Goto(r, "exists") /\ held' = held
    <3>1. pc'[r] = "exists"
      BY <1>1, <2>3 DEF Goto, TypeOK
    <3>2. Control(r)'
      BY <3>1 DEF Control, Performed
    <3> QED
      BY <1>8, <2>1, <2>3, <3>2 DEF Awaiting
  <2> QED
    BY <1>10, <2>2, <2>3 DEF ResolvePrimaryKey
<1>11. CASE EnsureTableExists(r)
  <2>1. pc[r] = "exists"
    BY <1>11 DEF EnsureTableExists, Runs
  <2>2. CASE ~table /\ Finish(r, Store!NotFound)
    <3>1. op[r].kind = "insert" => own[r] = NoRow
      BY <1>1, <2>1 DEF Honest
    <3>2. op[r].key \in Store!Keys => NoRow \in during[r]
      BY <1>1, <2>1, <2>2 DEF Observed, NoRowsWithoutTable
    <3>3. MayAnswer(r, Store!NotFound)
      BY <1>2, <3>1, <3>2 DEF MayAnswer, Store!NotFound
    <3> QED
      BY <1>5, <2>2, <3>3
  <2>3. ASSUME NEW next \in {"columns", "preselect", "statement"},
               Goto(r, next), held' = held,
               next = "columns" => op[r].kind \in {"insert", "update"},
               next = "preselect" => MySql /\ op[r].kind = "delete",
               next = "statement" => op[r].kind # "insert" /\ ~(MySql /\ op[r].kind = "delete")
        PROVE  Sound(r)'
    <3>1. pc'[r] = next /\ held'[r] = held[r]
      BY <1>1, <2>3 DEF Goto, TypeOK
    <3>2. Control(r)'
      BY <1>2, <2>3, <3>1 DEF Control, Performed, MySql
    <3> QED
      BY <1>8, <2>1, <2>3, <3>2 DEF Awaiting
  <2>4. CASE /\ table /\ held' = held
             /\ Goto(r, CASE op[r].kind \in {"insert", "update"} -> "columns"
                          [] op[r].kind = "delete" /\ MySql      -> "preselect"
                          [] OTHER                               -> "statement")
    <3>1. CASE op[r].kind \in {"insert", "update"}
      <4>1. Goto(r, "columns")
        BY <2>4, <3>1
      <4> QED
        BY <2>3, <2>4, <3>1, <4>1
    <3>2. CASE op[r].kind = "delete" /\ MySql
      <4>1. Goto(r, "preselect")
        BY <2>4, <3>2
      <4> QED
        BY <2>3, <2>4, <3>2, <4>1
    <3>3. CASE op[r].kind \notin {"insert", "update"} /\ ~(op[r].kind = "delete" /\ MySql)
      <4>1. Goto(r, "statement")
        BY <2>4, <3>3
      <4> QED
        BY <2>3, <2>4, <3>3, <4>1
    <3> QED
      BY <3>1, <3>2, <3>3
  <2> QED
    BY <1>11, <2>2, <2>4 DEF EnsureTableExists
<1>12. CASE GeneratedColumns(r)
  <2>1. pc[r] = "columns" /\ op[r].kind \in {"insert", "update"}
    BY <1>1, <1>12 DEF GeneratedColumns, Runs, Control
  <2>2. CASE op[r].kind = "insert" /\ Finish(r, Store!Refused)
    <3>1. own[r] = NoRow /\ op[r].key \notin Store!Keys
      BY <1>1, <1>7, <2>1, <2>2 DEF Honest
    <3>2. MayAnswer(r, Store!Refused)
      BY <1>2, <3>1 DEF MayAnswer, Store!Refused
    <3> QED
      BY <1>5, <2>2, <3>2
  <2>3. CASE /\ ~(op[r].kind = "insert" /\ table /\ generated /\ op[r].setKey # Store!NoKey)
             /\ Goto(r, "statement") /\ held' = held
    <3>1. pc'[r] = "statement" /\ held'[r] = held[r]
      BY <1>1, <2>3 DEF Goto, TypeOK
    <3>2. Control(r)'
      BY <1>2, <2>1, <2>3, <3>1 DEF Control, Performed, MySql
    <3> QED
      BY <1>8, <2>1, <2>3, <3>2 DEF Awaiting
  <2> QED
    BY <1>12, <2>2, <2>3 DEF GeneratedColumns
<1>13. ASSUME op[r].key \in Store!Keys, op[r].kind \in {"get", "update", "updateColumn"},
              ~IsWrite(r) \/ MySql, Finish(r, Store!FindRow(op[r].key))
       PROVE  Sound(r)'
  <2>1. MayAnswer(r, Store!FindRow(op[r].key))
    BY <1>2, <1>3, <1>13, FoundObserved DEF MayAnswer
  <2> QED
    BY <1>5, <1>13, <2>1
<1>14. CASE SelectRow(r)
  <2>1. op[r].kind = "get" /\ Finish(r, Store!FindRow(op[r].key))
    BY <1>14 DEF SelectRow
  <2>2. op[r].key \in Store!Keys
    BY <1>3, <2>1 DEF Store!Operations
  <2> QED
    BY <1>13, <2>1, <2>2 DEF IsWrite
<1>15. CASE MySqlSelectBeforeDelete(r)
  <2> DEFINE out == Store!FindRow(op[r].key)
  <2>1. /\ pc[r] = "preselect" /\ MySql /\ op[r].kind = "delete"
        /\ op[r].key \in Store!Keys
    BY <1>1, <1>3, <1>15 DEF MySqlSelectBeforeDelete, Runs, Control, Store!Operations
  <2>2. \/ out = Store!Refused /\ Finish(r, out)
        \/ out # Store!Refused /\ Hold(r, out) /\ Goto(r, "statement")
    BY <1>15 DEF MySqlSelectBeforeDelete
  <2>3. /\ out.status \in {"ok", "notFound", "refused"}
        /\ out.status = "ok" => out.row.by \in during[r]
        /\ out.status = "notFound" => NoRow \in during[r]
        /\ out.status = "refused" <=> out = Store!Refused
    BY <1>3, <2>1, FoundObserved
  <2> HIDE DEF out
  <2>4. CASE out = Store!Refused /\ Finish(r, out)
    <3>1. MayAnswer(r, out)
      BY <1>2, <2>1, <2>3, <2>4 DEF MayAnswer
    <3> QED
      BY <1>5, <2>4, <3>1
  <2>5. CASE out # Store!Refused /\ Hold(r, out) /\ Goto(r, "statement")
    <3>1. pc'[r] = "statement" /\ held'[r] = out /\ op'[r] = op[r]
      BY <1>1, <1>2, <2>5 DEF Hold, Goto, TypeOK
    <3>2. Control(r)'
      BY <2>1, <2>3, <2>5, <3>1 DEF Control, Performed
    <3>3. Honest(r)'
      BY <2>1, <3>1 DEF Honest
    <3>4. Observed(r)'
      BY <1>2, <1>4, <2>1, <2>3, <2>5, <3>1 DEF Observed, HoldsAnswer, Performed, Watched
    <3>5. OwnRow(r)'
      BY <3>1 DEF OwnRow, Performed
    <3> QED
      BY <3>2, <3>3, <3>4, <3>5 DEF Sound
  <2> QED
    BY <2>2, <2>4, <2>5
<1>16. CASE MySqlLastInsertId(r)
  <2>1. /\ pc[r] = "lastId" /\ held' = held
        /\ Goto(r, "respond") \/ Goto(r, "pkColumns")
    BY <1>16 DEF MySqlLastInsertId, Runs
  <2>2. CASE Goto(r, "respond")
    BY <1>1, <1>9, <2>1, <2>2 DEF Goto, TypeOK
  <2>3. CASE Goto(r, "pkColumns")
    <3>1. pc'[r] = "pkColumns" /\ held'[r] = held[r]
      BY <1>1, <2>1, <2>3 DEF Goto, TypeOK
    <3>2. Control(r)'
      BY <1>1, <1>2, <2>1, <3>1 DEF Control, Performed, MySql
    <3> QED
      BY <1>8, <2>1, <2>3, <3>2 DEF Awaiting
  <2> QED
    BY <2>1, <2>2, <2>3
<1>17. CASE MySqlAutoIncrementColumn(r)
  <2>1. /\ pc[r] = "pkColumns" /\ held' = held
        /\ Goto(r, "respond") \/ Goto(r, "reselect")
    BY <1>17 DEF MySqlAutoIncrementColumn, Runs
  <2>2. CASE Goto(r, "respond")
    BY <1>1, <1>9, <2>1, <2>2 DEF Goto, TypeOK
  <2>3. CASE Goto(r, "reselect")
    <3>1. pc'[r] = "reselect" /\ held'[r] = held[r]
      BY <1>1, <2>1, <2>3 DEF Goto, TypeOK
    <3>2. Control(r)'
      BY <1>1, <1>2, <2>1, <3>1 DEF Control, Performed, MySql
    <3> QED
      BY <1>8, <2>1, <2>3, <3>2 DEF Awaiting
  <2> QED
    BY <2>1, <2>2, <2>3
<1>18. CASE MySqlReselect(r)
  <2>1. /\ pc[r] = "reselect" /\ MySql
        /\ op[r].kind \in {"insert", "update", "updateColumn"}
    BY <1>1, <1>18 DEF MySqlReselect, Runs, Control
  <2>2. CASE op[r].kind # "insert"
    <3>1. op[r].key \in Store!Keys
      BY <1>3, <2>2 DEF Store!Operations
    <3>2. Finish(r, Store!FindRow(op[r].key))
      BY <1>18, <2>2 DEF MySqlReselect
    <3> QED
      BY <1>13, <2>1, <2>2, <3>1, <3>2
  <2>3. CASE op[r].kind = "insert"
    <3>1. own[r] # NoRow
      BY <1>1, <2>1, <2>3 DEF Honest
    <3>2. PICK out : /\ Finish(r, out)
                     /\ out.status = "ok" \/ (~table /\ out = Store!Refused)
      <4> DEFINE found == Store!FindRow(gotId[r])
      <4>1. \/ ~table /\ found = Store!Refused
            \/ found = Store!NotFound
            \/ found.status = "ok"
        BY <1>1, FindFacts DEF Store!Ok
      <4>2. Finish(r, IF found = Store!NotFound THEN Store!Ok(NoRow) ELSE found)
        BY <1>18, <2>3 DEF MySqlReselect
      <4> HIDE DEF found
      <4>3. Store!Ok(NoRow).status = "ok"
        BY DEF Store!Ok
      <4> QED
        BY <4>1, <4>2, <4>3
    <3>3. MayAnswer(r, out)
      BY <1>2, <1>7, <2>1, <2>3, <3>1, <3>2 DEF MayAnswer, Store!Refused
    <3> QED
      BY <1>5, <3>2, <3>3
  <2> QED
    BY <2>2, <2>3
<1> QED
  BY <1>10, <1>11, <1>12, <1>14, <1>15, <1>16, <1>17, <1>18 DEF Reads

(***************************************************************************)
(* A write that returns its row answers with what it did to the table; the *)
(* MySQL adapter goes on with what it has read before, or reads the row    *)
(* back.                                                                   *)
(***************************************************************************)
LEMMA WriteSound ==
    ASSUME AnswerInv, NEW r \in Requests, WriteReturning(r) \/ MySqlWrite(r)
    PROVE  Sound(r)'
<1>1. /\ TypeInv /\ TypeOK
      /\ Control(r) /\ Honest(r) /\ Observed(r)
  BY DEF AnswerInv, TypeInv, Sound
<1>2. pc[r] = "statement" /\ op[r].kind # "get" /\ op' = op
  BY DEF WriteReturning, MySqlWrite, Runs
<1>3. op[r] \in Store!Operations /\ pc[r] \in Awaiting
  BY <1>1, <1>2 DEF TypeInv, Submitted, Awaiting
<1>4. PICK e \in WriteEffects(r, op[r]) :
        /\ TakeEffect(r, e)
        /\ \/ \E out \in {e.out, Store!Unavailable} : Finish(r, out)
           \/ MySql /\ AfterMySqlWrite(r, e.out)
  BY DEF WriteReturning, MySqlWrite
<1>5. /\ SetRows(e.rows) /\ rows' = e.rows /\ own'[r] = e.out.row
      /\ table' = table /\ generated' = generated
  BY <1>1, <1>4 DEF TakeEffect, SetRows, TypeOK
<1>6. Watched(r)
  BY <1>5, SetRowsWatched
<1>7. /\ op[r].kind \in {"insert", "update", "updateColumn", "delete"}
      /\ op[r].key \in Store!Keys <=> op[r].kind # "insert"
  BY <1>2, <1>3 DEF Store!Operations, Store!Kinds, Store!Keys, Store!NoKey
<1>8. op[r].key \in Store!Keys =>
        /\ e.rows[op[r].key] \in during'[r]
        /\ rows[op[r].key] \in during'[r]
  BY <1>1, <1>2, <1>5, <1>6 DEF Observed, Watched
<1>9. \/ e.out = Store!Refused
      \/ e.out = Store!NotFound /\ op[r].kind # "insert" /\ e.rows[op[r].key] = NoRow
      \/ \E row \in Store!Rows :
           /\ e.out = Store!Ok(row)
           /\ op[r].kind \in {"update", "updateColumn"} /\ row.key = op[r].key
                => e.rows[op[r].key] = row.by
           /\ op[r].kind = "delete"
                => e.rows[op[r].key] = NoRow /\ row = [key |-> op[r].key, by |-> rows[op[r].key]]
  BY <1>1, <1>2, <1>3, WriteFacts
<1>10. MayAnswer(r, e.out)
  <2>1. CASE e.out = Store!Refused
    BY <1>5, <2>1 DEF MayAnswer, Store!Refused
  <2>2. CASE e.out = Store!NotFound /\ op[r].kind # "insert" /\ e.rows[op[r].key] = NoRow
    BY <1>7, <1>8, <2>2 DEF MayAnswer, Store!NotFound
  <2>3. ASSUME NEW row \in Store!Rows, e.out = Store!Ok(row),
               op[r].kind \in {"update", "updateColumn"} /\ row.key = op[r].key
                 => e.rows[op[r].key] = row.by,
               op[r].kind = "delete"
                 => e.rows[op[r].key] = NoRow /\ row = [key |-> op[r].key, by |-> rows[op[r].key]]
        PROVE  MayAnswer(r, e.out)
    <3>1. e.out.status = "ok" /\ e.out.row = row /\ row # NoRow
      BY <2>3 DEF Store!Ok
    <3>2. row.key = op[r].key /\ op[r].key \in Store!Keys => row.by \in during'[r]
      <4>1. CASE op[r].kind \in {"update", "updateColumn"}
        BY <1>8, <2>3, <4>1
      <4>2. CASE op[r].kind = "delete"
        BY <1>8, <2>3, <4>2
      <4> QED
        BY <1>7, <4>1, <4>2
    <3> QED
      BY <1>5, <1>7, <1>8, <2>3, <3>1, <3>2 DEF MayAnswer
  <2> QED
    BY <1>9, <2>1, <2>2, <2>3
<1>11. ASSUME NEW out, Finish(r, out), MayAnswer(r, out)
       PROVE  Sound(r)'
  <2>1. pc' = [pc EXCEPT ![r] = "respond"] /\ held'[r] = out
    BY <1>1, <1>11 DEF Finish, Hold, Goto, TypeOK
  <2> QED
    BY <1>2, <1>3, <1>6, <1>11, <2>1, FinishSound
<1>12. CASE \E out \in {e.out, Store!Unavailable} : Finish(r, out)
  BY <1>10, <1>11, <1>12, MayBeUnavailable
<1>13. CASE MySql /\ AfterMySqlWrite(r, e.out)
  <2>1. CASE e.out = Store!Refused
    BY <1>10, <1>11, <1>13, <2>1 DEF AfterMySqlWrite
  <2>2. CASE e.out # Store!Refused /\ op[r].kind = "insert"
    <3> DEFINE out == Store!Ok([key |-> op[r].setKey, by |-> r])
    <3>1. held' = [held EXCEPT ![r] = out] /\ pc' = [pc EXCEPT ![r] = "lastId"]
      BY <1>13, <2>2 DEF AfterMySqlWrite, Hold, Goto
    <3>2. out.status = "ok"
      BY DEF Store!Ok
    <3>3. pc'[r] = "lastId" /\ held'[r].status = "ok"
      BY <1>1, <3>1, <3>2 DEF TypeOK
    <3>4. own'[r] # NoRow
      <4>1. PICK row \in Store!Rows : e.out = Store!Ok(row)
        BY <1>9, <2>2
      <4>2. e.out.row = row
        BY <4>1 DEF Store!Ok
      <4> QED
        BY <1>5, <4>2
    <3>5. Control(r)'
      BY <1>2, <1>13, <2>2, <3>3 DEF Control, Performed, MySql
    <3>6. Honest(r)'
      BY <3>3, <3>4 DEF Honest, Performed
    <3>7. Observed(r)'
      BY <1>2, <1>7, <2>2 DEF Observed
    <3>8. OwnRow(r)'
      BY <3>3 DEF OwnRow, Performed
    <3> QED
      BY <3>5, <3>6, <3>7, <3>8 DEF Sound
  <2>3. CASE e.out # Store!Refused /\ op[r].kind = "delete"
    <3>1. pc' = [pc EXCEPT ![r] = "respond"] /\ held' = held
      BY <1>13, <2>3 DEF AfterMySqlWrite, Goto
    <3>2. NoRow \in during'[r]
      BY <1>7, <1>8, <1>9, <2>3
    <3>3. held[r].status \in {"ok", "notFound"}
      BY <1>1, <1>2, <1>13, <2>3 DEF Control
    <3>4. held[r].status = "ok" /\ held[r].row.key = op[r].key => held[r].row.by \in during'[r]
      BY <1>1, <1>2, <1>6, <1>7, <1>13, <2>3 DEF Observed, HoldsAnswer, Watched
    <3>5. MayAnswer(r, held[r])
      BY <1>13, <2>3, <3>2, <3>3, <3>4 DEF MayAnswer
    <3> QED
      BY <1>2, <1>3, <1>6, <3>1, <3>5, FinishSound
  <2>4. CASE e.out # Store!Refused /\ op[r].kind \in {"update", "updateColumn"}
    <3>1. pc'[r] = "reselect"
      BY <1>1, <1>13, <2>4 DEF AfterMySqlWrite, Goto, TypeOK
    <3>2. Control(r)'
      BY <1>2, <1>13, <2>4, <3>1 DEF Control, Performed, MySql
    <3>3. Honest(r)'
      BY <1>2, <2>4, <3>1 DEF Honest
    <3>4. Observed(r)'
      BY <1>2, <1>6, <3>1 DEF Observed, HoldsAnswer, Performed, Watched
    <3>5. OwnRow(r)'
      BY <3>1 DEF OwnRow, Performed
    <3> QED
      BY <3>2, <3>3, <3>4, <3>5 DEF Sound
  <2> QED
    BY <1>7, <2>1, <2>2, <2>3, <2>4
<1> QED
  BY <1>4, <1>12, <1>13

(***************************************************************************)
(* A request that arrives observes the row under its key, and has written  *)
(* nothing.                                                                *)
(***************************************************************************)
LEMMA SubmitSound ==
    ASSUME AnswerInv, NEW r \in Requests, Submit(r)
    PROVE  \A q \in Requests : Sound(q)'
<1>1. TypeInv /\ TypeOK /\ Sound(r) /\ pc[r] = "idle"
  BY DEF AnswerInv, TypeInv, Submit
<1>2. PICK o \in Asked :
        /\ op' = [op EXCEPT ![r] = o]
        /\ pc' = [pc EXCEPT ![r] = IF o.kind = "insert" THEN "exists" ELSE "resolve"]
        /\ during' = [during EXCEPT ![r] =
                        IF o.key \in Store!Keys THEN {rows[o.key]} ELSE {}]
  BY DEF Submit, Goto
<1>3. UNCHANGED <<table, generated, rows, held, own>>
  BY DEF Submit
<1>4. /\ op'[r] = o /\ pc'[r] = (IF o.kind = "insert" THEN "exists" ELSE "resolve")
      /\ o.key \in Store!Keys => rows[o.key] \in during'[r]
  BY <1>1, <1>2 DEF TypeOK
<1>5. own[r] = NoRow
  BY <1>1 DEF Sound, Honest
<1>6. Sound(r)'
  <2>1. Control(r)'
    BY <1>4 DEF Control, Performed
  <2>2. Honest(r)'
    BY <1>3, <1>4, <1>5 DEF Honest, Performed
  <2>3. Observed(r)'
    BY <1>3, <1>4 DEF Observed, HoldsAnswer, Performed
  <2>4. OwnRow(r)'
    BY <1>4 DEF OwnRow, Performed
  <2> QED
    BY <2>1, <2>2, <2>3, <2>4 DEF Sound
<1>7. ASSUME NEW q \in Requests, q # r
      PROVE  Sound(q)'
  <2>1. op'[q] = op[q] /\ pc'[q] = pc[q] /\ held'[q] = held[q] /\ own'[q] = own[q]
        /\ during'[q] = during[q]
    BY <1>1, <1>2, <1>3, <1>7 DEF TypeOK
  <2>2. op[q].key \in Store!Keys /\ pc[q] \notin {"idle", "done"} =>
          rows'[op[q].key] \in during'[q]
    BY <1>3, <2>1 DEF AnswerInv, Sound, Observed
  <2> QED
    BY <1>3, <2>1, <2>2, Frame
<1> QED
  BY <1>6, <1>7

(***************************************************************************)
(* What a step of r does to the requests other than r.                     *)
(***************************************************************************)
LEMMA OthersSound ==
    ASSUME AnswerInv, NEW r \in Requests, Step(r) \/ LoseConnection(r)
    PROVE  \A q \in Requests \ {r} : Sound(q)'
<1>1. TypeInv /\ TypeOK
  BY DEF AnswerInv, TypeInv
<1>2. /\ op' = op /\ generated' = generated /\ table' = table
      /\ pc' = pc \/ \E next : pc' = [pc EXCEPT ![r] = next]
      /\ held' = held \/ \E out : held' = [held EXCEPT ![r] = out]
      /\ own' = own \/ \E row : own' = [own EXCEPT ![r] = row]
      /\ (rows' = rows /\ during' = during) \/ \E rs : SetRows(rs)
  <2>1. CASE Acquire(r)
    BY <2>1 DEF Acquire, DatabaseUnchanged, auxVars
  <2>2. CASE Reads(r)
    BY <1>1, <2>2, ReadsType, ReadsPc DEF DatabaseUnchanged, auxVars, Goto, Hold
  <2>3. CASE WriteReturning(r) \/ MySqlWrite(r)
    <3>1. PICK e : /\ TakeEffect(r, e)
                   /\ \/ \E out : Finish(r, out)
                      \/ AfterMySqlWrite(r, e.out)
      BY <2>3 DEF WriteReturning, MySqlWrite
    <3>2. op' = op
      BY <2>3 DEF WriteReturning, MySqlWrite
    <3>3. /\ generated' = generated /\ table' = table
          /\ own' = [own EXCEPT ![r] = e.out.row] /\ SetRows(e.rows)
      BY <3>1 DEF TakeEffect
    <3>4. /\ \E next : pc' = [pc EXCEPT ![r] = next]
          /\ held' = held \/ \E out : held' = [held EXCEPT ![r] = out]
      BY <3>1 DEF Finish, Hold, Goto, AfterMySqlWrite
    <3> QED
      BY <3>2, <3>3, <3>4
  <2>4. CASE Respond(r)
    BY <2>4 DEF Respond, Goto, DatabaseUnchanged, auxVars
  <2>5. CASE LoseConnection(r)
    BY <2>5 DEF LoseConnection, Finish, Hold, Goto, auxVars
  <2> QED
    BY <2>1, <2>2, <2>3, <2>4, <2>5, StepCases
<1>3. ASSUME NEW q \in Requests \ {r}
      PROVE  Sound(q)'
  <2>1. /\ op'[q] = op[q] /\ pc'[q] = pc[q] /\ held'[q] = held[q]
        /\ own'[q] = own[q]
    BY <1>1, <1>2 DEF TypeOK
  <2>2. Watched(q)
    BY <1>2, SetRowsWatched, UnchangedWatched
  <2> QED
    BY <1>2, <2>1, <2>2, Frame DEF Watched
<1> QED
  BY <1>3

(***************************************************************************)
(* Every step keeps every request sound.                                   *)
(***************************************************************************)
LEMMA AnswerStep == AnswerInv /\ [Next]_vars => AnswerInv'
<1> SUFFICES ASSUME AnswerInv, [Next]_vars PROVE AnswerInv'
  OBVIOUS
<1>1. TypeInv /\ TypeOK /\ TypeInv' /\ NoRowsWithoutTable
  BY TypeStep DEF AnswerInv, TypeInv
<1>2. ASSUME NEW r \in Requests, Submit(r)
      PROVE  AnswerInv'
  <2>1. NoRowsWithoutTable'
    BY <1>1, <1>2 DEF Submit, NoRowsWithoutTable
  <2> QED
    BY <1>1, <1>2, <2>1, SubmitSound DEF AnswerInv
<1>3. ASSUME NEW r \in Requests, Step(r) \/ LoseConnection(r)
      PROVE  AnswerInv'
  <2>1. \A q \in Requests \ {r} : Sound(q)'
    BY <1>3, OthersSound
  <2>2. CASE Acquire(r)
    <3>1. UNCHANGED <<table, generated, rows, own, during, op, pc, held>>
      BY <2>2 DEF Acquire, DatabaseUnchanged, auxVars
    <3>2. Sound(r)'
      BY <3>1, Frame, UnchangedWatched DEF Watched
    <3> QED
      BY <1>1, <2>1, <3>1, <3>2 DEF AnswerInv, NoRowsWithoutTable
  <2>3. CASE Reads(r)
    <3>1. table' = table /\ rows' = rows
      BY <1>1, <2>3, ReadsType DEF DatabaseUnchanged
    <3> QED
      BY <1>1, <2>1, <2>3, <3>1, ReadsSound DEF AnswerInv, NoRowsWithoutTable
  <2>4. CASE WriteReturning(r) \/ MySqlWrite(r)
    <3>1. NoRowsWithoutTable'
      <4>1. pc[r] = "statement" /\ op[r].kind # "get"
        BY <2>4 DEF WriteReturning, MySqlWrite, Runs
      <4>2. op[r] \in Store!Operations
        BY <1>1, <4>1 DEF TypeInv, Submitted
      <4>3. PICK e \in WriteEffects(r, op[r]) : TakeEffect(r, e)
        BY <2>4 DEF WriteReturning, MySqlWrite
      <4>4. table' = table /\ rows' = e.rows
        BY <4>3 DEF TakeEffect, SetRows
      <4>5. ~table => e.rows = rows
        BY <1>1, <4>1, <4>2, WithoutTable
      <4> QED
        BY <1>1, <4>4, <4>5 DEF NoRowsWithoutTable
    <3> QED
      BY <1>1, <2>1, <2>4, <3>1, WriteSound DEF AnswerInv
  <2>5. CASE Respond(r)
    <3>1. /\ UNCHANGED <<table, generated, rows, own, during, op, held>>
          /\ pc[r] = "respond" /\ pc'[r] = "done"
      BY <1>1, <2>5 DEF Respond, Goto, DatabaseUnchanged, auxVars, TypeOK
    <3>2. Sound(r)
      BY DEF AnswerInv
    <3>3. Control(r)' /\ Honest(r)' /\ OwnRow(r)'
      BY <3>1, <3>2 DEF Sound, Control, Honest, OwnRow, Performed, IsWrite, MySql
    <3>4. Observed(r)'
      BY <3>1, <3>2 DEF Sound, Observed, HoldsAnswer, Performed, MySql
    <3> QED
      BY <1>1, <2>1, <3>1, <3>3, <3>4 DEF AnswerInv, Sound, NoRowsWithoutTable
  <2>6. CASE LoseConnection(r)
    <3>1. /\ UNCHANGED <<table, generated, rows, own, during, op>>
          /\ pc[r] \in Awaiting /\ Finish(r, Store!Unavailable)
      BY <2>6 DEF LoseConnection, auxVars
    <3>2. /\ pc' = [pc EXCEPT ![r] = "respond"]
          /\ held'[r] = Store!Unavailable
      BY <1>1, <3>1 DEF Finish, Hold, Goto, TypeOK
    <3>3. Watched(r)
      BY <3>1, UnchangedWatched
    <3>4. Sound(r)'
      BY <3>1, <3>2, <3>3, MayBeUnavailable, FinishSound
    <3> QED
      BY <1>1, <2>1, <3>1, <3>4 DEF AnswerInv, NoRowsWithoutTable
  <2> QED
    BY <1>3, <2>2, <2>3, <2>4, <2>5, <2>6, StepCases
<1>4. CASE DropTable
  <2>1. /\ SetRows([k \in Store!Keys |-> NoRow]) /\ table' = FALSE
        /\ UNCHANGED <<generated, op, pc, held, own>>
    BY <1>4 DEF DropTable
  <2>2. NoRowsWithoutTable'
    BY <2>1 DEF SetRows, NoRowsWithoutTable
  <2>3. ASSUME NEW q \in Requests
        PROVE  Sound(q)'
    BY <2>1, SetRowsWatched, Frame DEF Watched
  <2> QED
    BY <1>1, <2>2, <2>3 DEF AnswerInv
<1>5. CASE UNCHANGED vars
  <2>1. UNCHANGED <<table, generated, rows, own, during, op, pc, held>>
    BY <1>5 DEF vars
  <2>2. ASSUME NEW q \in Requests
        PROVE  Sound(q)'
    BY <2>1, Frame, UnchangedWatched DEF Watched
  <2> QED
    BY <1>1, <2>1, <2>2 DEF AnswerInv, NoRowsWithoutTable
<1> QED
  BY <1>2, <1>3, <1>4, <1>5 DEF Next, Finished

(***************************************************************************)
(* AnswerInv is an invariant.                                              *)
(***************************************************************************)
LEMMA AnswerInvariant == Spec => []AnswerInv
BY AnswerInit, AnswerStep, PTL DEF Spec

(***************************************************************************)
(* On PostgreSQL and SQL Server a write that succeeds answers with the row *)
(* its own statement stored or removed, however many requests run.         *)
(***************************************************************************)
THEOREM OwnRowAnswered == Dialect = "returning" => (Spec => []AnswerIsOwnRow)
<1> SUFFICES ASSUME Dialect = "returning" PROVE Spec => []AnswerIsOwnRow
  OBVIOUS
<1>1. AnswerInv => AnswerIsOwnRow
  BY DEF AnswerInv, Sound, OwnRow, AnswerIsOwnRow, Performed, MySql
<1> QED
  BY <1>1, AnswerInvariant, PTL

(***************************************************************************)
(* On every engine, what a request addressed by key answers was true at    *)
(* some instant while it ran.                                              *)
(***************************************************************************)
THEOREM AnswersObserved == Spec => []AnswerObserved
<1>1. AnswerInv => AnswerObserved
  BY DEF AnswerInv, Sound, Observed, HoldsAnswer, AnswerObserved, Performed
<1> QED
  BY <1>1, AnswerInvariant, PTL

(***************************************************************************)
(* On every engine, an insert answers 201 only after its own statement     *)
(* stored a row, and with a client error only if nothing was stored or the *)
(* table went away.                                                        *)
(***************************************************************************)
THEOREM InsertsHonest == Spec => []InsertAnswerHonest
<1>1. AnswerInv => InsertAnswerHonest
  BY DEF AnswerInv, Sound, Honest, InsertAnswerHonest, Performed
<1> QED
  BY <1>1, AnswerInvariant, PTL

-----------------------------------------------------------------------------
(* On PostgreSQL and SQL Server the row endpoints implement RecordStore.    *)

\* What the refinement mapping shows of the outcomes and of the answers.
Outcome == [r \in Requests |-> IF Performed(r) THEN held[r]
                               ELSE [status |-> "none", row |-> NoRow]]
Answer  == [r \in Requests |-> IF pc[r] = "done" THEN held[r]
                               ELSE [status |-> "none", row |-> NoRow]]

\* The steps of the mapped store.
Mapped == [Store!Next]_(Store!storeVars)

(***************************************************************************)
(* The initial states are initial states of the store.                     *)
(***************************************************************************)
LEMMA RefinesInit == Init => Store!Init
BY DEF Init, Store!Init, Performed, Store!NoOutcome

(***************************************************************************)
(* A step of one handler that neither starts nor ends it is not seen.      *)
(***************************************************************************)
LEMMA Unseen ==
    ASSUME TypeOK, NEW r \in Requests, pc[r] \in Awaiting,
           pc' = pc \/ \E next \in Awaiting : Goto(r, next),
           held' = held
    PROVE  Outcome' = Outcome /\ Answer' = Answer
<1>1. ASSUME NEW q \in Requests
      PROVE  /\ Performed(q)' = Performed(q)
             /\ pc'[q] = "done" <=> pc[q] = "done"
  BY DEF TypeOK, Goto, Performed, Awaiting
<1> QED
  BY <1>1 DEF Outcome, Answer

(***************************************************************************)
(* A handler that ends gives its request the outcome, and no answer yet.   *)
(***************************************************************************)
LEMMA Ended ==
    ASSUME TypeOK, NEW r \in Requests, pc[r] \in Awaiting, NEW out, Finish(r, out)
    PROVE  /\ Outcome[r] = Store!NoOutcome
           /\ Outcome' = [Outcome EXCEPT ![r] = out] /\ Answer' = Answer
<1>1. /\ pc' = [pc EXCEPT ![r] = "respond"] /\ held' = [held EXCEPT ![r] = out]
      /\ pc \in [Requests -> Awaiting \cup {"idle", "respond", "done"}]
      /\ held \in [Requests -> Store!Outcomes]
  BY DEF TypeOK, Finish, Hold, Goto
<1>2. pc[r] \notin {"respond", "done"} /\ ~Performed(r)
  BY DEF Awaiting, Performed
<1>3. Performed(r)' /\ pc'[r] # "done" /\ held'[r] = out
  BY <1>1 DEF Performed
<1>4. ASSUME NEW q \in Requests, q # r
      PROVE  pc'[q] = pc[q] /\ held'[q] = held[q] /\ (Performed(q)' <=> Performed(q))
  BY <1>1, <1>4 DEF Performed
<1>5. Outcome' = [Outcome EXCEPT ![r] = out]
  BY <1>2, <1>3, <1>4 DEF Outcome
<1>6. Answer' = Answer
  BY <1>2, <1>3, <1>4 DEF Answer
<1> QED
  BY <1>2, <1>5, <1>6 DEF Outcome, Store!NoOutcome

(***************************************************************************)
(* The store's names for its variables under the mapping.                  *)
(***************************************************************************)
LEMMA StoreSubmit ==
    ASSUME NEW r \in Requests, op[r] = Store!NoOperation,
           NEW o \in Store!Operations, op' = [op EXCEPT ![r] = o],
           UNCHANGED <<table, generated, rows, serial>>, Outcome' = Outcome, Answer' = Answer
    PROVE  Mapped
<1>1. Store!Submit(r)
  BY DEF Store!Submit, Store!dbVars, Outcome, Answer
<1> QED
  BY <1>1 DEF Mapped, Store!Next

(***************************************************************************)
(* An operation that takes effect and leaves its outcome is a step of the  *)
(* store.                                                                  *)
(***************************************************************************)
LEMMA StorePerform ==
    ASSUME NEW r \in Requests, op[r] # Store!NoOperation, Outcome[r] = Store!NoOutcome,
           NEW e \in Store!Effects(r, op[r]), rows' = e.rows, serial' = e.serial,
           NEW out \in {e.out, Store!Unavailable}, Outcome' = [Outcome EXCEPT ![r] = out],
           UNCHANGED <<table, generated, op>>, Answer' = Answer
    PROVE  Mapped
<1>1. Store!Perform(r)
  BY DEF Store!Perform, Store!Pending, Outcome, Answer
<1> QED
  BY <1>1 DEF Mapped, Store!Next

(***************************************************************************)
(* An operation that is refused without touching the table is a step of    *)
(* the store.                                                              *)
(***************************************************************************)
LEMMA StoreRefuse ==
    ASSUME NEW r \in Requests, op[r] # Store!NoOperation, Outcome[r] = Store!NoOutcome,
           NEW out, out = Store!Unavailable \/ (~table /\ out = Store!NotFound),
           Outcome' = [Outcome EXCEPT ![r] = out],
           UNCHANGED <<table, generated, rows, serial, op>>, Answer' = Answer
    PROVE  Mapped
<1>1. Store!Refuse(r)
  BY DEF Store!Refuse, Store!Pending, Store!dbVars, Outcome, Answer
<1> QED
  BY <1>1 DEF Mapped, Store!Next

(***************************************************************************)
(* A response that passes the outcome on is a step of the store.           *)
(***************************************************************************)
LEMMA StoreRespond ==
    ASSUME NEW r \in Requests, Outcome[r] # Store!NoOutcome, Answer[r] = Store!NoOutcome,
           Answer' = [Answer EXCEPT ![r] = Outcome[r]],
           UNCHANGED <<table, generated, rows, serial, op>>, Outcome' = Outcome
    PROVE  Mapped
<1>1. Store!Respond(r)
  BY DEF Store!Respond, Store!dbVars, Outcome, Answer
<1> QED
  BY <1>1 DEF Mapped, Store!Next

(***************************************************************************)
(* A step that leaves the database, the outcomes and the answers is a      *)
(* stuttering step of the store.                                           *)
(***************************************************************************)
LEMMA StoreUnchanged ==
    ASSUME UNCHANGED <<table, generated, rows, serial, op>>,
           Outcome' = Outcome, Answer' = Answer
    PROVE  Mapped
BY DEF Mapped, Store!storeVars, Outcome, Answer

(***************************************************************************)
(* At the write statement the checks before it have left only effects the  *)
(* store allows: a generated key is not given a value by an insert that    *)
(* still finds the table, nor by a full update.                            *)
(***************************************************************************)
LEMMA WritesAllowed ==
    ASSUME AnswerInv, NEW r \in Requests, pc[r] = "statement", op[r].kind # "get",
           NEW e \in WriteEffects(r, op[r])
    PROVE  e \in Store!Effects(r, op[r])
<1>1. op[r] \in Store!Operations
  BY DEF AnswerInv, TypeInv, Submitted
<1>2. CASE op[r].kind = "insert"
  <2>1. e = Store!InsertRow(r, op[r].setKey)
    BY <1>2 DEF WriteEffects
  <2>2. CASE generated /\ op[r].setKey # Store!NoKey
    <3>1. ~table
      BY <1>2, <2>2 DEF AnswerInv, Sound, Control
    <3>2. e = Store!Unchanged(Store!Refused)
      BY <1>1, <3>1, WithoutTable
    <3> QED
      BY <1>2, <2>2, <3>2 DEF Store!Effects
  <2>3. CASE ~(generated /\ op[r].setKey # Store!NoKey)
    BY <1>2, <2>1, <2>3 DEF Store!Effects
  <2> QED
    BY <2>2, <2>3
<1>3. CASE op[r].kind = "delete"
  BY <1>3 DEF WriteEffects, Store!Effects
<1>4. CASE op[r].kind = "update"
  <2>1. SetKey(op[r]) = IF generated THEN Store!NoKey ELSE op[r].setKey
    BY <1>4 DEF SetKey
  <2>2. ~(generated /\ SetKey(op[r]) # Store!NoKey)
    BY <2>1
  <2>3. e = Store!UpdateRow(r, op[r].key, SetKey(op[r]), op[r].other)
    BY <1>4, <2>2 DEF WriteEffects
  <2> QED
    BY <1>4, <2>1, <2>3 DEF Store!Effects
<1>5. CASE op[r].kind = "updateColumn"
  <2>1. SetKey(op[r]) = op[r].setKey
    BY <1>5 DEF SetKey
  <2> QED
    BY <1>5, <2>1 DEF WriteEffects, Store!Effects
<1> QED
  BY <1>1, <1>2, <1>3, <1>4, <1>5 DEF Store!Operations, Store!Kinds

(***************************************************************************)
(* A handler's reading statement is a step of the store (the request's one *)
(* instant, for a SELECT or a refusal), or is not seen.                    *)
(***************************************************************************)
LEMMA RefinesReads ==
    ASSUME Dialect = "returning", AnswerInv, NEW r \in Requests, Reads(r)
    PROVE  Mapped
<1>1. TypeInv /\ TypeOK /\ Control(r)
  BY DEF AnswerInv, TypeInv, Sound
<1>2. UNCHANGED <<table, generated, rows, serial, op>>
  BY <1>1, ReadsType DEF DatabaseUnchanged
<1>3. pc[r] \in Awaiting /\ op[r] \in Store!Operations
  BY <1>1, ReadsPc DEF TypeInv, Submitted, Awaiting
<1>4. op[r] # Store!NoOperation
  BY <1>3 DEF Store!Operations, Store!NoOperation, Store!Kinds
<1>5. pc[r] \notin {"preselect", "lastId", "pkColumns", "reselect"}
  BY <1>1 DEF Control, MySql
<1>6. ASSUME NEW next \in Awaiting, Goto(r, next), held' = held
      PROVE  Mapped
  BY <1>1, <1>2, <1>3, <1>6, Unseen, StoreUnchanged
<1>7. ASSUME NEW out, Finish(r, out), out = Store!Unavailable \/ (~table /\ out = Store!NotFound)
      PROVE  Mapped
  BY <1>1, <1>2, <1>3, <1>4, <1>7, Ended, StoreRefuse
<1>8. ASSUME NEW out, Finish(r, out), Store!Unchanged(out) \in Store!Effects(r, op[r])
      PROVE  Mapped
  <2> DEFINE e == Store!Unchanged(out)
  <2>1. e.rows = rows /\ e.serial = serial /\ e.out = out
    BY DEF Store!Unchanged, Store!Result
  <2>2. e \in Store!Effects(r, op[r])
    BY <1>8
  <2>3. /\ Outcome[r] = Store!NoOutcome
        /\ Outcome' = [Outcome EXCEPT ![r] = out] /\ Answer' = Answer
    BY <1>1, <1>3, <1>8, Ended
  <2> HIDE DEF e
  <2> QED
    BY <1>2, <1>4, <2>1, <2>2, <2>3, StorePerform
<1>9. CASE ResolvePrimaryKey(r)
  BY <1>6, <1>7, <1>9 DEF ResolvePrimaryKey, Awaiting
<1>10. CASE EnsureTableExists(r)
  <2>1. CASE ~table /\ Finish(r, Store!NotFound)
    BY <1>7, <2>1
  <2>2. CASE held' = held /\ \E next \in Awaiting : Goto(r, next)
    BY <1>6, <2>2
  <2> QED
    BY <1>10, <2>1, <2>2 DEF EnsureTableExists, Awaiting
<1>11. CASE GeneratedColumns(r)
  <2>1. CASE /\ op[r].kind = "insert" /\ generated /\ op[r].setKey # Store!NoKey
             /\ Finish(r, Store!Refused)
    <3>1. Store!Unchanged(Store!Refused) \in Store!Effects(r, op[r])
      BY <2>1 DEF Store!Effects
    <3> QED
      BY <1>8, <2>1, <3>1
  <2>2. CASE Goto(r, "statement") /\ held' = held
    BY <1>6, <2>2 DEF Awaiting
  <2> QED
    BY <1>11, <2>1, <2>2 DEF GeneratedColumns
<1>12. CASE SelectRow(r)
  <2>1. op[r].kind = "get" /\ Finish(r, Store!FindRow(op[r].key))
    BY <1>12 DEF SelectRow
  <2>2. Store!Unchanged(Store!FindRow(op[r].key)) \in Store!Effects(r, op[r])
    BY <2>1 DEF Store!Effects
  <2> QED
    BY <1>8, <2>1, <2>2
<1> QED
  BY <1>5, <1>9, <1>10, <1>11, <1>12
     DEF Reads, MySqlSelectBeforeDelete, MySqlLastInsertId, MySqlAutoIncrementColumn,
         MySqlReselect, Runs

(***************************************************************************)
(* Every step of the endpoints is a step of the store or is not seen.      *)
(***************************************************************************)
LEMMA RefinesStep ==
    Dialect = "returning" /\ AnswerInv /\ [Next]_vars => Mapped
<1> SUFFICES ASSUME Dialect = "returning", AnswerInv, [Next]_vars PROVE Mapped
  OBVIOUS
<1>1. TypeInv /\ TypeOK
  BY DEF AnswerInv, TypeInv
<1>2. ASSUME NEW r \in Requests, pc[r] \in Awaiting
      PROVE  op[r] # Store!NoOperation
  BY <1>1, <1>2 DEF TypeInv, Submitted, Awaiting, Store!Operations, Store!NoOperation, Store!Kinds
<1>3. ASSUME NEW r \in Requests, Submit(r)
      PROVE  Mapped
  <2>1. PICK o \in Asked :
          /\ op' = [op EXCEPT ![r] = o]
          /\ Goto(r, IF o.kind = "insert" THEN "exists" ELSE "resolve")
    BY <1>3 DEF Submit
  <2>2. /\ pc[r] = "idle" /\ op[r] = Store!NoOperation /\ o \in Store!Operations
        /\ held' = held /\ UNCHANGED <<table, generated, rows, serial>>
    BY <1>1, <1>3 DEF Submit, TypeInv, Submitted
  <2>3. PICK next \in {"exists", "resolve"} : pc' = [pc EXCEPT ![r] = next]
    BY <2>1 DEF Goto
  <2>4. ASSUME NEW q \in Requests
        PROVE  (Performed(q)' <=> Performed(q)) /\ (pc'[q] = "done" <=> pc[q] = "done")
    BY <1>1, <2>2, <2>3 DEF TypeOK, Performed
  <2>5. Outcome' = Outcome /\ Answer' = Answer
    BY <2>2, <2>4 DEF Outcome, Answer
  <2> QED
    BY <2>1, <2>2, <2>5, StoreSubmit
<1>4. ASSUME NEW r \in Requests, Acquire(r)
      PROVE  Mapped
  <2>1. /\ pc[r] \in Awaiting /\ pc' = pc /\ held' = held
        /\ UNCHANGED <<table, generated, rows, serial, op>>
    BY <1>4 DEF Acquire, DatabaseUnchanged
  <2> QED
    BY <1>1, <2>1, Unseen, StoreUnchanged
<1>5. ASSUME NEW r \in Requests, WriteReturning(r)
      PROVE  Mapped
  <2>1. pc[r] = "statement" /\ op[r].kind # "get" /\ op' = op /\ pc[r] \in Awaiting
    BY <1>5 DEF WriteReturning, Runs, Awaiting
  <2>2. PICK e \in WriteEffects(r, op[r]) :
          TakeEffect(r, e) /\ \E out \in {e.out, Store!Unavailable} : Finish(r, out)
    BY <1>5 DEF WriteReturning
  <2>3. PICK out \in {e.out, Store!Unavailable} : Finish(r, out)
    BY <2>2
  <2>4. e \in Store!Effects(r, op[r])
    BY <2>1, WritesAllowed
  <2>5. rows' = e.rows /\ serial' = e.serial /\ UNCHANGED <<table, generated>>
    BY <2>2 DEF TakeEffect, SetRows
  <2> QED
    BY <1>1, <1>2, <2>1, <2>3, <2>4, <2>5, Ended, StorePerform
<1>6. ASSUME NEW r \in Requests, LoseConnection(r)
      PROVE  Mapped
  <2>1. /\ pc[r] \in Awaiting /\ Finish(r, Store!Unavailable)
        /\ UNCHANGED <<table, generated, rows, serial, op>>
    BY <1>6 DEF LoseConnection
  <2> QED
    BY <1>1, <1>2, <2>1, Ended, StoreRefuse
<1>7. ASSUME NEW r \in Requests, Respond(r)
      PROVE  Mapped
  <2>1. /\ pc[r] = "respond" /\ pc' = [pc EXCEPT ![r] = "done"] /\ held' = held
        /\ UNCHANGED <<table, generated, rows, serial, op>>
    BY <1>7 DEF Respond, Goto, DatabaseUnchanged
  <2>2. Outcome[r] = held[r] /\ Answer[r] = Store!NoOutcome
    BY <2>1 DEF Outcome, Answer, Performed, Store!NoOutcome
  <2>3. held[r].status # "none"
    BY <2>1 DEF AnswerInv, Sound, Control, Performed
  <2>4. held[r] # Store!NoOutcome
    BY <2>3 DEF Store!NoOutcome
  <2>5. ASSUME NEW q \in Requests
        PROVE  /\ Performed(q)' <=> Performed(q)
               /\ pc'[q] = "done" <=> (pc[q] = "done" \/ q = r)
    BY <1>1, <2>1 DEF TypeOK, Performed
  <2>6. Outcome' = Outcome
    BY <2>1, <2>5 DEF Outcome
  <2>7. Answer' = [Answer EXCEPT ![r] = Outcome[r]]
    BY <2>1, <2>2, <2>5 DEF Answer
  <2> QED
    BY <2>1, <2>2, <2>4, <2>6, <2>7, StoreRespond
<1>8. CASE DropTable
  <2>1. /\ table /\ table' = FALSE /\ rows' = [k \in Store!Keys |-> NoRow]
        /\ UNCHANGED <<generated, serial, op, pc, held>>
    BY <1>8 DEF DropTable, SetRows
  <2>2. Outcome' = Outcome /\ Answer' = Answer
    BY <2>1 DEF Outcome, Answer, Performed
  <2>3. Store!DropTable
    BY <2>1, <2>2 DEF Store!DropTable, Outcome, Answer
  <2> QED
    BY <2>3 DEF Mapped, Store!Next
<1>9. CASE UNCHANGED vars
  <2>1. UNCHANGED <<table, generated, rows, serial, op, pc, held>>
    BY <1>9 DEF vars
  <2>2. Outcome' = Outcome /\ Answer' = Answer
    BY <2>1 DEF Outcome, Answer, Performed
  <2> QED
    BY <2>1, <2>2, StoreUnchanged
<1>10. ~\E r \in Requests : MySqlWrite(r)
  BY DEF MySqlWrite, MySql
<1> QED
  BY <1>3, <1>4, <1>5, <1>6, <1>7, <1>8, <1>9, <1>10, StepCases, RefinesReads
     DEF Next, Finished

(***************************************************************************)
(* On PostgreSQL and SQL Server the row endpoints, with all their awaits   *)
(* and checks, implement RecordStore: every request takes effect at one    *)
(* instant and answers with what that instant did.                         *)
(***************************************************************************)
THEOREM ImplementsStore == Dialect = "returning" => (Spec => AtomicStore)
<1> SUFFICES ASSUME Dialect = "returning" PROVE Spec => AtomicStore
  OBVIOUS
<1>1. AnswerInv /\ [Next]_vars => Mapped
  BY RefinesStep
<1> QED
  BY <1>1, RefinesInit, AnswerInvariant, PTL DEF Spec, AtomicStore, Store!Spec, Mapped

=============================================================================
