---------------------------- MODULE RecordStore ----------------------------
(***************************************************************************)
(* What the row endpoints of fetchlane promise: one table whose rows are   *)
(* read, inserted, updated and deleted by concurrent requests, each of     *)
(* which takes effect at a single instant between its arrival and its      *)
(* answer, and answers with what that one instant did.                     *)
(*                                                                         *)
(* The operators FindRow .. DeleteRow say what one SQL statement does to   *)
(* the table: they stand for the database engine (outside this repository) *)
(* and RowOperations runs the statements the adapters send through them.   *)
(*                                                                         *)
(* A row is abstracted to its primary key and to the request that last     *)
(* wrote its other columns, so that two rows are equal exactly when the    *)
(* same request stored the same content under the same key.                *)
(***************************************************************************)
EXTENDS Integers

CONSTANTS
    Requests,   \* the HTTP requests of the instance
    Seed,       \* the writer of the rows that are there at the start
    NoRow,      \* no row: an empty key of the table, an undefined JS value
    MaxKey      \* the largest key value (bound)

NoKey   == 0                    \* the body or the path names no key value
Keys    == 1..MaxKey
Writers == Requests \cup {Seed}
Rows    == [key : Keys \cup {NoKey}, by : Writers]

(***************************************************************************)
(* A request: its kind, the key of its path, the value its body gives the  *)
(* primary-key column, and whether its body gives other columns a value.   *)
(***************************************************************************)
Kinds == {"get", "insert", "update", "updateColumn", "delete"}

Operations ==
    { o \in [kind : Kinds, key : Keys \cup {NoKey},
             setKey : Keys \cup {NoKey}, other : BOOLEAN] :
        /\ o.kind = "insert" <=> o.key = NoKey
        /\ o.kind \in {"get", "delete"} <=> o.setKey = NoKey /\ ~o.other
        /\ o.kind = "updateColumn" => (o.setKey = NoKey <=> o.other) }

(***************************************************************************)
(* Outcomes: 200 with a row (or with none), 404, a client error, and 503   *)
(* for a connection that was lost.                                         *)
(***************************************************************************)
Ok(row)     == [status |-> "ok", row |-> row]
NotFound    == [status |-> "notFound", row |-> NoRow]
Refused     == [status |-> "refused", row |-> NoRow]
Unavailable == [status |-> "unavailable", row |-> NoRow]
NoOutcome   == [status |-> "none", row |-> NoRow]

Outcomes ==
    [status : {"ok"}, row : Rows \cup {NoRow}]
        \cup {NotFound, Refused, Unavailable, NoOutcome}

VARIABLES
    table,      \* does the table exist?
    generated,  \* does the engine generate the primary key?
    rows,       \* [Keys -> the writer of the row, or NoRow]
    serial      \* the last key the engine generated

dbVars == <<table, generated, rows, serial>>

-----------------------------------------------------------------------------
(* One SQL statement: [rows, serial] after it and its outcome.              *)

Result(rs, s, out) == [rows |-> rs, serial |-> s, out |-> out]
Unchanged(out)     == Result(rows, serial, out)

RowAt(k) == IF k \in Keys /\ rows[k] # NoRow
            THEN [key |-> k, by |-> rows[k]] ELSE NoRow

FoundOrNot(row) == IF row = NoRow THEN NotFound ELSE Ok(row)

FindRow(k) == IF table THEN FoundOrNot(RowAt(k)) ELSE Refused

InsertRow(r, setKey) ==
    LET k    == IF generated THEN serial + 1 ELSE setKey
        next == IF table /\ generated /\ k \in Keys THEN k ELSE serial
    IN  IF table /\ k \in Keys /\ RowAt(k) = NoRow
        THEN Result([rows EXCEPT ![k] = r], next, Ok([key |-> k, by |-> r]))
        ELSE Result(rows, next, Refused)

UpdateRow(r, k, setKey, other) ==
    LET to == IF setKey = NoKey THEN k ELSE setKey
        by == IF other THEN r ELSE rows[k]
    IN  IF ~table \/ (setKey = NoKey /\ ~other) THEN Unchanged(Refused)
        ELSE IF RowAt(k) = NoRow THEN Unchanged(NotFound)
        ELSE IF to # k /\ RowAt(to) # NoRow THEN Unchanged(Refused)
        ELSE Result([rows EXCEPT ![k] = NoRow, ![to] = by], serial,
                    Ok([key |-> to, by |-> by]))

DeleteRow(k) ==
    IF table THEN Result([rows EXCEPT ![k] = NoRow], serial,
                         FoundOrNot(RowAt(k)))
             ELSE Unchanged(Refused)

-----------------------------------------------------------------------------
(* The promise. *)

VARIABLES
    op,         \* [Requests -> the operation asked for, or NoOperation]
    outcome,    \* [Requests -> the outcome of its one instant, or NoOutcome]
    answer      \* [Requests -> the answer its client got, or NoOutcome]

storeVars == <<table, generated, rows, serial, op, outcome, answer>>

NoOperation == [kind |-> "none", key |-> NoKey, setKey |-> NoKey, other |-> FALSE]

(***************************************************************************)
(* What an operation may do at its instant.  A value for a generated key   *)
(* is refused on insert and ignored on a full update; on a column update   *)
(* it is left to the engine, and engines differ.                           *)
(***************************************************************************)
Effects(r, o) ==
    CASE o.kind = "get"    -> {Unchanged(FindRow(o.key))}
      [] o.kind = "insert" -> {IF generated /\ o.setKey # NoKey
                               THEN Unchanged(Refused)
                               ELSE InsertRow(r, o.setKey)}
      [] o.kind = "update" -> {UpdateRow(r, o.key,
                                  IF generated THEN NoKey ELSE o.setKey, o.other)}
      [] o.kind = "updateColumn" ->
             {UpdateRow(r, o.key, o.setKey, o.other)} \cup
             (IF generated /\ o.setKey # NoKey THEN {Unchanged(Refused)} ELSE {})
      [] o.kind = "delete" -> {DeleteRow(o.key)}

Init ==
    /\ table = TRUE
    /\ generated \in BOOLEAN
    /\ rows \in [Keys -> {Seed, NoRow}]
    /\ serial \in 0..MaxKey
    /\ \A k \in Keys : rows[k] # NoRow => ~generated \/ k <= serial
    /\ ~generated => serial = 0
    /\ op = [r \in Requests |-> NoOperation]
    /\ outcome = [r \in Requests |-> NoOutcome]
    /\ answer = [r \in Requests |-> NoOutcome]

Pending(r) == op[r] # NoOperation /\ outcome[r] = NoOutcome

Submit(r) ==
    /\ op[r] = NoOperation
    /\ \E o \in Operations : op' = [op EXCEPT ![r] = o]
    /\ UNCHANGED <<dbVars, outcome, answer>>

\* The instant: the statement runs, and its result may be lost on the way.
Perform(r) ==
    /\ Pending(r)
    /\ \E e \in Effects(r, op[r]) :
        /\ rows' = e.rows
        /\ serial' = e.serial
        /\ \E out \in {e.out, Unavailable} : outcome' = [outcome EXCEPT ![r] = out]
    /\ UNCHANGED <<table, generated, op, answer>>

\* Nothing is done: the connection is lost first, or the table is not there.
Refuse(r) ==
    /\ Pending(r)
    /\ \E out \in {Unavailable} \cup (IF table THEN {} ELSE {NotFound}) :
        outcome' = [outcome EXCEPT ![r] = out]
    /\ UNCHANGED <<dbVars, op, answer>>

Respond(r) ==
    /\ outcome[r] # NoOutcome
    /\ answer[r] = NoOutcome
    /\ answer' = [answer EXCEPT ![r] = outcome[r]]
    /\ UNCHANGED <<dbVars, op, outcome>>

\* Another client of the database drops the table.
DropTable ==
    /\ table
    /\ table' = FALSE
    /\ rows' = [k \in Keys |-> NoRow]
    /\ UNCHANGED <<generated, serial, op, outcome, answer>>

Next ==
    \/ \E r \in Requests : Submit(r) \/ Perform(r) \/ Refuse(r) \/ Respond(r)
    \/ DropTable

Spec == Init /\ [][Next]_storeVars
=============================================================================
