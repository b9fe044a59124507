------------------------- MODULE SchemaDescription -------------------------
(***************************************************************************)
(* The catalogue queries of the adapters and the schema endpoints that use *)
(* them: which tables there are, a table's columns, its description, and   *)
(* its key columns, which the row endpoints ask for.                       *)
(*                                                                         *)
(* A request reads the catalogue in one statement after the other, outside *)
(* of any transaction, while someone changes tables.  The constraints are  *)
(* joined from four views of the catalogue, on different columns in each   *)
(* dialect; what such a join makes of a declaration is modelled row by     *)
(* row.  A name is the sequence of its parts between commas, since two of  *)
(* the dialects aggregate names into such a list and split it again.       *)
(***************************************************************************)
EXTENDS Naturals, Sequences, FiniteSets, SequencesExt

CONSTANTS
    Tables,         \* the names of tables that requests ask for
    Catalogues,     \* [Dialects -> the catalogues a database may have]
    Trim,           \* [text between commas -> that text without the blanks around it]
    MaxChanges,     \* bound: changes of the catalogue during a request
    Null            \* SQL's and JSON's null

Dialects == {"postgres", "mysql", "sqlserver"}

(***************************************************************************)
(* A catalogue has for each table that exists its columns, [name, default, *)
(* generated], its constraints, [name, type, columns, references, rule,    *)
(* elsewhere], and its indexes, [name, columns, unique, primary,           *)
(* predicate], where an expression in place of a column is Null.           *)
(* References is a [table, key, columns] or Null; elsewhere are the        *)
(* foreign keys, [table, rule], that other schemas declare under the name  *)
(* of the constraint.  The columns of an index are its key columns.        *)
(***************************************************************************)
\* MAX takes the last of them.
Rank == [CASCADE |-> 1, NO_ACTION |-> 2, RESTRICT |-> 3, SET_DEFAULT |-> 4, SET_NULL |-> 5]

IsColumns(d, columns) ==
    /\ columns \in Seq(ToSet(columns))
    /\ \A i \in DOMAIN columns :
         /\ columns[i] = [name |-> columns[i].name, default |-> columns[i].default,
                          generated |-> columns[i].generated]
         /\ columns[i].default = "" => d = "mysql"  \* the others quote it

IsName(name) ==
    /\ name # Null
    /\ name \in Seq(ToSet(name))
    /\ ToSet(name) \subseteq DOMAIN Trim

AreNames(names) ==
    /\ names \in Seq(ToSet(names))
    /\ \A i \in DOMAIN names : IsName(names[i])

IsForeignKey(k) == k.type = "FOREIGN KEY"

IsConstraint(k) ==
    /\ k.name # Null
    /\ AreNames(k.columns)
    /\ IsFiniteSet(k.elsewhere)
    /\ \A f \in k.elsewhere :
         f = [table |-> f.table, rule |-> f.rule] /\ f.table \notin Tables
    /\ IsForeignKey(k) =>
         /\ k.rule # Null
         /\ k.columns # <<>>
         /\ AreNames(k.references.columns)
         /\ Len(k.references.columns) = Len(k.columns)

\* MySQL has no indexes of a part of the rows.
IsIndex(d, i) ==
    /\ i = [name |-> i.name, columns |-> i.columns, unique |-> i.unique,
            primary |-> i.primary, predicate |-> i.predicate]
    /\ i.columns \in Seq(ToSet(i.columns))
    /\ \A n \in DOMAIN i.columns : i.columns[n] = Null \/ IsName(i.columns[n])
    /\ d = "mysql" => i.predicate = Null

Constraints(c) == UNION { { <<t, k>> : k \in c[t].constraints } : t \in DOMAIN c }

(***************************************************************************)
(* The catalogue is that of the schema of the connection.  A table has one *)
(* primary key at most, and its constraints and indexes have different     *)
(* names; a MySQL table in which a foreign key has the name of a unique    *)
(* key is not modelled.  In a schema of SQL Server no two constraints have *)
(* the same name, in one of MySQL no two foreign keys do.                  *)
(***************************************************************************)
IsCatalogue(d, c) ==
    /\ DOMAIN c \subseteq Tables
    /\ IsFiniteSet(Constraints(c))
    /\ \A t \in DOMAIN c :
         /\ IsColumns(d, c[t].columns)
         /\ \A k \in c[t].constraints : IsConstraint(k)
         /\ \A k, l \in c[t].constraints :
              k.name = l.name \/ (k.type = "PRIMARY KEY" /\ l.type = "PRIMARY KEY") => k = l
         /\ \A i \in c[t].indexes : IsIndex(d, i)
         /\ \A i, j \in c[t].indexes : i.name = j.name => i = j
    /\ \A one, other \in Constraints(c) :
         /\ one[2].name = other[2].name
         /\ \/ d = "sqlserver"
            \/ d = "mysql" /\ IsForeignKey(one[2]) /\ IsForeignKey(other[2])
         => one = other

ASSUME SchemaAssumption ==
    /\ DOMAIN Catalogues = Dialects
    /\ \A d \in Dialects : \A c \in Catalogues[d] : IsCatalogue(d, c)
    /\ MaxChanges \in Nat

VARIABLES
    dialect,    \* the adapter
    window,     \* the catalogues since the request arrived, the last one is now
    request     \* the request that is under way

vars == <<dialect, window, request>>

Catalogue == Last(window)

\* The statements of each operation; "exists" is ensureTableExists.
Statements ==
    [names  |-> <<"names">>,
     info   |-> <<"exists", "info">>,
     schema |-> <<"exists", "table", "columns", "constraints", "indexes">>,
     keys   |-> <<"keys">>]

Idle == [pc |-> "idle", kind |-> "names", table |-> Null, statements |-> <<>>,
         read |-> <<>>, status |-> "none"]

Init ==
    /\ dialect \in Dialects
    /\ \E c \in Catalogues[dialect] : window = <<c>>
    /\ request = Idle

-----------------------------------------------------------------------------
(* The views of the catalogue.  Key columns belong to a table's key; the   *)
(* other two views know a constraint by its name only.                     *)

KeyColumnUsage(c) ==
    UNION { { [table |-> tk[1], name |-> tk[2].name, type |-> tk[2].type,
               column |-> tk[2].columns[i], position |-> i,
               refTable  |-> IF IsForeignKey(tk[2]) THEN tk[2].references.table ELSE Null,
               refColumn |-> IF IsForeignKey(tk[2]) THEN tk[2].references.columns[i] ELSE Null] :
              i \in DOMAIN tk[2].columns } :
            tk \in Constraints(c) }

ReferentialConstraints(c) ==
    { [table |-> tk[1], name |-> tk[2].name, rule |-> tk[2].rule,
       key |-> tk[2].references.key] :
        tk \in { tk \in Constraints(c) : IsForeignKey(tk[2]) } }

\* The columns of a key, and those that a foreign key refers to.
ConstraintColumnUsage(c) ==
    { [name |-> u.name, table |-> IF u.type = "FOREIGN KEY" THEN u.refTable ELSE u.table,
       column |-> IF u.type = "FOREIGN KEY" THEN u.refColumn ELSE u.column] :
        u \in KeyColumnUsage(c) }

-----------------------------------------------------------------------------
(* getPrimaryKeyColumns *)

\* Rows of one position are in an order of the database's choosing.
ByPosition(rows) ==
    CHOOSE sorted \in SetToSeqs(rows) :
        \A i, j \in DOMAIN sorted : i < j => sorted[i].position <= sorted[j].position

\* The columns view says which of them are generated.
KeyColumns(c, t, rows) ==
    LET sorted == ByPosition(rows)
    IN  [n \in DOMAIN sorted |->
            [column |-> sorted[n].column,
             isGenerated |-> \E i \in DOMAIN c[t].columns :
                /\ c[t].columns[i].name = sorted[n].column
                /\ c[t].columns[i].generated]]

\* Slip: the key columns are joined by the name of the constraint alone.
PrimaryKeyColumnsByName(c, t) ==
    LET names == { u.name : u \in { u \in KeyColumnUsage(c) :
                                      u.table = t /\ u.type = "PRIMARY KEY" } }
    IN  KeyColumns(c, t, { u \in KeyColumnUsage(c) : u.name \in names })

PrimaryKeyColumns(c, t) ==
    KeyColumns(c, t, { u \in KeyColumnUsage(c) : u.table = t /\ u.type = "PRIMARY KEY" })

-----------------------------------------------------------------------------
(* describeTable *)

\* `column_default ? String(column_default) : null`
Described(columns) ==
    [i \in DOMAIN columns |->
        [columns[i] EXCEPT !.default = IF @ = "" THEN Null ELSE @]]

NoRow == [table |-> Null, name |-> Null, type |-> Null, column |-> Null, position |-> 0,
          refTable |-> Null, refColumn |-> Null, rule |-> Null, key |-> Null]

LeftJoined(rows) == IF rows = {} THEN {NoRow} ELSE rows

Ruled(r, f) == [r EXCEPT !.table = f.table, !.rule = f.rule]

\* The references that are joined to a constraint.  SQL Server takes the rules from
\* sys.foreign_keys, which it joins by the name alone, over all the schemas.
References(c, k) ==
    LET own == { r \in ReferentialConstraints(c) : r.name = k.name }
    IN  IF dialect # "sqlserver" THEN LeftJoined(own)
        ELSE UNION { { Ruled(r, f) : f \in LeftJoined(own \cup k.elsewhere) } :
                     r \in LeftJoined(own) }

\* The rows that are joined to a constraint and to a row of the other two views.
UsedColumns(c, k, u, r) ==
    LET usage(name) == LeftJoined({ g \in ConstraintColumnUsage(c) : g.name = name })
    IN  IF dialect = "postgres" THEN usage(k.name)
        ELSE IF dialect = "sqlserver" THEN usage(r.key)
        ELSE { [table |-> u.refTable, column |-> u.refColumn] }

\* Slip: an inner join, which loses the constraints that have no key columns.
ConstraintRowsInner(c, t, k) ==
    UNION { UNION { { [position |-> u.position, column |-> u.column, rule |-> r.rule,
                       table |-> g.table, refColumn |-> g.column, of |-> r.table] :
                        g \in UsedColumns(c, k, u, r) } :
                    r \in References(c, k) } :
            u \in { u \in KeyColumnUsage(c) : u.name = k.name /\ u.table = t } }

\* Foreign keys of one name each give a row: r.table tells them apart.
ConstraintRows(c, t, k) ==
    UNION { UNION { { [position |-> u.position, column |-> u.column, rule |-> r.rule,
                       table |-> g.table, refColumn |-> g.column, of |-> r.table] :
                        g \in UsedColumns(c, k, u, r) } :
                    r \in References(c, k) } :
            u \in LeftJoined({ u \in KeyColumnUsage(c) : u.name = k.name /\ u.table = t }) }

\* GROUP BY, in PostgreSQL by the referenced table and the rules as well.
Groups(rows) ==
    IF dialect = "postgres"
    THEN { { row \in rows : row.table = g.table /\ row.rule = g.rule } : g \in rows }
    ELSE {rows}

\* What an aggregate makes of a name: nothing of a null, an element of an array in
\* PostgreSQL, and in the other dialects text that splitCsv divides at the commas, and
\* of which it drops the blanks and the empty parts.
Part(text) == IF Trim[text] = "" THEN <<>> ELSE << << Trim[text] >> >>

Entries(name) ==
    IF name = Null THEN <<>>
    ELSE IF dialect = "postgres" THEN << name >>
    ELSE FlattenSeq([i \in DOMAIN name |-> Part(name[i])])

Aggregate(names) == FlattenSeq([i \in DOMAIN names |-> Entries(names[i])])

\* PostgreSQL's rows of a group have one rule, the other dialects take the last.
RuleOf(group) ==
    LET rules == { row.rule : row \in group } \ {Null}
    IN  IF rules = {} THEN Null
        ELSE CHOOSE rule \in rules :
                \A other \in rules \ {rule} : Rank[other] < Rank[rule]

ConstraintOf(k, group) ==
    LET rows == ByPosition(group)
    IN  [name    |-> k.name,
         type    |-> k.type,
         columns |-> Aggregate([i \in DOMAIN rows |-> rows[i].column]),
         table   |-> IF IsForeignKey(k) THEN rows[1].table ELSE Null,
         referenced |-> IF ~ IsForeignKey(k) THEN <<>>
                        ELSE Aggregate([i \in DOMAIN rows |-> rows[i].refColumn]),
         rule    |-> IF IsForeignKey(k) THEN RuleOf(group) ELSE Null]

DescribedConstraints(c, t) ==
    UNION { { ConstraintOf(k, group) : group \in Groups(ConstraintRows(c, t, k)) } :
            k \in c[t].constraints }

\* The columns of an index, not its expressions.
IndexColumns(i) == Aggregate(i.columns)

\* Only PostgreSQL's query has the predicate.
IndexPredicate(i) == IF dialect = "postgres" THEN i.predicate ELSE Null

\* SQL Server's inner join has no row for an index without key columns.
IsListed(i) == dialect = "sqlserver" => i.columns # <<>>

DescribedIndexes(c, t) ==
    { [i EXCEPT !.columns = IndexColumns(i), !.predicate = IndexPredicate(i)] :
        i \in { i \in c[t].indexes : IsListed(i) } }

-----------------------------------------------------------------------------
(* Requests *)

Columns(c, t) == IF t \in DOMAIN c THEN c[t].columns ELSE <<>>

\* The rows a statement returns, as the adapter hands them on.
Result(statement, c, t) ==
    CASE statement = "names"   -> DOMAIN c
      [] statement = "exists"  -> t \in DOMAIN c
      [] statement = "table"   -> t \in DOMAIN c
      [] statement = "info"    -> Columns(c, t)
      [] statement = "keys"    -> PrimaryKeyColumns(c, t)
      [] statement = "columns" -> Described(Columns(c, t))
      [] statement = "constraints" ->
            IF t \in DOMAIN c THEN DescribedConstraints(c, t) ELSE {}
      [] statement = "indexes" ->
            IF t \in DOMAIN c THEN DescribedIndexes(c, t) ELSE {}

\* Slip: the statements that were still to come stay with the request.
AnsweredEarly(read, status) ==
    [request EXCEPT !.pc = "answered", !.read = read, !.status = status]

Answered(read, status) ==
    [request EXCEPT !.pc = "answered", !.statements = <<>>, !.read = read, !.status = status]

RequestArrives ==
    /\ request.pc = "idle"
    /\ \E kind \in DOMAIN Statements, t \in Tables :
         request' = [Idle EXCEPT !.pc = "working", !.kind = kind, !.table = t,
                                 !.statements = Statements[kind]]
    /\ UNCHANGED <<dialect, window>>

\* Slip: ensureTableExists does not wait for its answer.
StatementSucceedsUnchecked ==
    /\ request.pc = "working"
    /\ LET statement == Head(request.statements)
           read == Append(request.read, Result(statement, Catalogue, request.table))
       IN  request' =
             IF statement = "table" /\ ~ Last(read) THEN Answered(read, "null")
             ELSE IF Tail(request.statements) = <<>> THEN Answered(read, "ok")
             ELSE [request EXCEPT !.statements = Tail(@), !.read = read]
    /\ UNCHANGED <<dialect, window>>

\* Without the table there is a 404, or an empty body if it was there before.
StatementSucceeds ==
    /\ request.pc = "working"
    /\ LET statement == Head(request.statements)
           read == Append(request.read, Result(statement, Catalogue, request.table))
       IN  request' =
             IF statement = "exists" /\ ~ Last(read) THEN Answered(read, "notFound")
             ELSE IF statement = "table" /\ ~ Last(read) THEN Answered(read, "null")
             ELSE IF Tail(request.statements) = <<>> THEN Answered(read, "ok")
             ELSE [request EXCEPT !.statements = Tail(@), !.read = read]
    /\ UNCHANGED <<dialect, window>>

StatementFails ==
    /\ request.pc = "working"
    /\ request' = Answered(request.read, "error")
    /\ UNCHANGED <<dialect, window>>

\* The response is sent; the next request has a window of its own.
Respond ==
    /\ request.pc = "answered"
    /\ request' = Idle
    /\ window' = <<Catalogue>>
    /\ UNCHANGED dialect

\* Someone creates, alters or drops tables; after the answer nobody sees it.
ChangeTables ==
    /\ request.pc = "working"
    /\ Len(window) <= MaxChanges
    /\ \E c \in Catalogues[dialect] \ {Catalogue} : window' = Append(window, c)
    /\ UNCHANGED <<dialect, request>>

Next ==
    \/ RequestArrives \/ StatementSucceeds \/ StatementFails \/ Respond
    \/ ChangeTables

Spec == Init /\ [][Next]_vars

-----------------------------------------------------------------------------
(* Properties *)

TypeOK ==
    /\ dialect \in Dialects
    /\ Len(window) \in 1..(MaxChanges + 1)
    /\ \A i \in DOMAIN window : window[i] \in Catalogues[dialect]
    /\ request.pc \in {"idle", "working", "answered"}
    /\ request.kind \in DOMAIN Statements
    /\ request.status \in {"none", "ok", "null", "notFound", "error"}
    /\ (request.status # "none") = (request.pc = "answered")
    /\ (request.statements # <<>>) = (request.pc = "working")
    /\ request.pc = "working" =>
         Len(request.read) + Len(request.statements) = Len(Statements[request.kind])

\* Without a comma, and without blanks around it.
IsWhole(name) == Len(name) = 1 /\ Trim[name[1]] = name[1] /\ name[1] # ""

IsPlain(names) == \A i \in DOMAIN names : names[i] # Null /\ IsWhole(names[i])

DeclaredConstraint(k) ==
    [name |-> k.name, type |-> k.type, columns |-> k.columns,
     table      |-> IF IsForeignKey(k) THEN k.references.table ELSE Null,
     referenced |-> IF IsForeignKey(k) THEN k.references.columns ELSE <<>>,
     rule       |-> IF IsForeignKey(k) THEN k.rule ELSE Null]

\* Where the joins of the three dialects are one to one.  SQL Server's views leave out
\* a key that is only a unique index, and have the namesakes of other schemas.
JoinsOnce(c, k) ==
    /\ dialect = "postgres" =>
         /\ Len(k.columns) <= 1
         /\ ~ \E one, other \in Constraints(c) :
                one # other /\ one[2].name = k.name /\ other[2].name = k.name
    /\ dialect = "sqlserver" => k.elsewhere = {}
    /\ dialect = "sqlserver" /\ IsForeignKey(k) =>
         /\ Len(k.columns) = 1
         /\ \E tk \in Constraints(c) :
              /\ tk[1] = k.references.table /\ ~ IsForeignKey(tk[2])
              /\ tk[2].name = k.references.key /\ tk[2].columns = k.references.columns
    /\ dialect # "postgres" =>
         IsPlain(k.columns) /\ (IsForeignKey(k) => IsPlain(k.references.columns))

ConstraintsAgree(section, c, t) ==
    t \in DOMAIN c =>
      \A k \in c[t].constraints : JoinsOnce(c, k) =>
        { entry \in section : entry.name = k.name } = { DeclaredConstraint(k) }

IndexesAgree(section, c, t) ==
    t \in DOMAIN c =>
      \A i \in c[t].indexes : IsPlain(i.columns) /\ IsListed(i) =>
        { entry \in section : entry.name = i.name }
          = { [i EXCEPT !.predicate = IF dialect = "sqlserver" THEN Null ELSE @] }

ColumnsAgree(section, c, t) ==
    /\ Len(section) = Len(Columns(c, t))
    /\ \A i \in DOMAIN section :
         \/ section[i] = Columns(c, t)[i]
         \/ section[i] = [Columns(c, t)[i] EXCEPT !.default = Null] /\ dialect = "mysql"

KeysAgree(keys, c, t) ==
    LET primary == IF t \notin DOMAIN c THEN {}
                   ELSE { k \in c[t].constraints : k.type = "PRIMARY KEY" }
    IN  IF primary = {} THEN keys = <<>>
        ELSE { [i \in DOMAIN keys |-> keys[i].column] } = { k.columns : k \in primary }

Agrees(statement, read, c, t) ==
    CASE statement = "names"       -> read = DOMAIN c
      [] statement = "exists"      -> read = (t \in DOMAIN c)
      [] statement = "table"       -> read = (t \in DOMAIN c)
      [] statement = "info"        -> read = Columns(c, t)
      [] statement = "keys"        -> KeysAgree(read, c, t)
      [] statement = "columns"     -> ColumnsAgree(read, c, t)
      [] statement = "constraints" -> ConstraintsAgree(read, c, t)
      [] statement = "indexes"     -> IndexesAgree(read, c, t)

(***************************************************************************)
(* An answer is true of the time of the request: what each statement       *)
(* contributed was declared at some instant since the request arrived, and *)
(* the instants are in the order of the statements.  If nobody changed the *)
(* tables it is true as a whole; if somebody did, its sections may be from *)
(* before and after.  Left to the next property are constraints that the   *)
(* dialect's joins repeat, as SQL Server's do with the name of a foreign   *)
(* key of another schema; left out are names with commas or blanks and     *)
(* indexes without key columns on SQL Server, and an empty default may be  *)
(* missing on MySQL.                                                       *)
(* (postgres-database.ts:257-538, mysql-database.ts:311-570,               *)
(* sqlserver-database.ts:272-544)                                          *)
(***************************************************************************)
DescriptionObserved ==
    \E at \in [DOMAIN request.read -> DOMAIN window] :
        /\ \A i, j \in DOMAIN at : i <= j => at[i] <= at[j]
        /\ \A i \in DOMAIN at :
             Agrees(Statements[request.kind][i], request.read[i],
                    window[at[i]], request.table)

\* The sections of a description, once its constraints have been read.
ReadsConstraints == request.kind = "schema" /\ Len(request.read) >= 4

(***************************************************************************)
(* However the joins repeat or group the rows, the description has the     *)
(* constraints of this table and no others, those without key columns too, *)
(* and each of its entries has just the columns of that constraint: what   *)
(* other tables declare under the same name does not get into them.        *)
(* (postgres-database.ts:409-477, mysql-database.ts:459-514,               *)
(* sqlserver-database.ts:426-482)                                          *)
(***************************************************************************)
ConstraintsOwn ==
    ReadsConstraints =>
      \E i \in DOMAIN window :
        LET own == IF request.table \in DOMAIN window[i]
                   THEN window[i][request.table].constraints ELSE {}
        IN  /\ \A k \in own : \E entry \in request.read[4] : entry.name = k.name
            /\ \A entry \in request.read[4] : \E k \in own :
                 /\ entry.name = k.name /\ entry.type = k.type
                 /\ ToSet(entry.columns) = ToSet(Aggregate(k.columns))

(***************************************************************************)
(* A table is "not found" only if it was missing at some time during the   *)
(* request, and a description is empty only if the table was dropped while *)
(* it was being described.  (data-access.service.ts:52-81 and 251-260,     *)
(* postgres-database.ts:362-364)                                           *)
(***************************************************************************)
EmptyOnlyWhenDropped ==
    LET Has(i) == request.table \in DOMAIN window[i] IN
    /\ request.status = "notFound" => \E i \in DOMAIN window : ~ Has(i)
    /\ request.status = "null" =>
         \E i, j \in DOMAIN window : i < j /\ Has(i) /\ ~ Has(j)

(***************************************************************************)
(* Of a table that nobody changes, the description has the constraints as  *)
(* they are declared: each once, with the "Column names participating in   *)
(* the constraint" and the "Referenced column names for foreign keys".     *)
(* (database-metadata.ts:63-66 and 75-78)                                  *)
(***************************************************************************)
ConstraintsAsDeclared ==
    ReadsConstraints /\ Len(window) = 1 =>
      request.read[4] =
        { DeclaredConstraint(k) : k \in Catalogue[request.table].constraints }
=============================================================================
