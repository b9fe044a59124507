---------------------------- MODULE FetchRequest ----------------------------
(***************************************************************************)
(* POST /fetch: FetchRequestHandlerService.handleRequest checks the limits *)
(* of a request, FetchRequestSQLWriter.write turns its tree of predicates  *)
(* into the text and the arguments of one statement, clause by clause, and *)
(* the statement selects a page of the rows that satisfy it.               *)
(*                                                                         *)
(* The tree is a function from paths to clauses: <<>> is the list of the   *)
(* request, Append(p, i) the i-th of the predicates of the clause at p.  A *)
(* predicate's text is a sequence of words: "?" and the Names are          *)
(* placeholders (the latter as :name), "x" is a comparison without one,    *)
(* "AND" and "OR" join.  The walk of the tree is the recursion of          *)
(* expandPredicate with its stack made explicit: what is still to be       *)
(* written.                                                                *)
(***************************************************************************)
EXTENDS Integers, Sequences, FiniteSets

CONSTANTS
    Names,          \* the names of named placeholders
    Values,         \* the values of arguments
    Undefined,      \* what JavaScript reads where there is nothing
    Requests,       \* the requests that arrive
    MaxPredicates,  \* limits.fetchMaxPredicates
    MaxSortFields,  \* limits.fetchMaxSortFields
    MaxPageSize,    \* limits.fetchMaxPageSize
    MaxRows         \* bound: the rows that satisfy a request

Dialects == {"postgres", "mysql", "sqlserver"}
Joins    == {"AND", "OR"}
Types    == Joins \cup {"other"}    \* a compound's type is not checked
Words    == {"?", "x"} \cup Joins \cup Names

-----------------------------------------------------------------------------
(* Requests.  fetch-predicate.types.ts declares a compound with a type and *)
(* predicates and a simple predicate with a text and arguments, but no     *)
(* body is checked against it: a clause has any of these fields.           *)

\* The writer's test, and the counter's.
IsCompound(clause)    == "type" \in DOMAIN clause
HasPredicates(clause) == "size" \in DOMAIN clause
HasText(clause)       == "text" \in DOMAIN clause

\* How many predicates a clause has, if it has a list of them.
Size(clause) == IF HasPredicates(clause) THEN clause.size ELSE 0

(***************************************************************************)
(* An array has a list of values; an object has fields, the absent ones    *)
(* Undefined.  A number or true is treated as an object without fields,    *)
(* anything else as null.                                                  *)
(***************************************************************************)
NoFields == [n \in Names |-> Undefined]

IsArgs(a) ==
    /\ a.kind \in {"array", "object", "null"}
    /\ a.list \in Seq(Values) /\ (a.kind # "array" => a.list = <<>>)
    /\ a.fields \in [Names -> Values \cup {Undefined}]
    /\ a.kind # "object" => a.fields = NoFields

IsClause(clause) ==
    /\ IsCompound(clause) => clause.type \in Types
    /\ HasPredicates(clause) => clause.size \in Nat
    /\ HasText(clause) => clause.text \in Seq(Words)
    /\ ~IsCompound(clause) => IsArgs(clause.args)

\* Each step of a path goes from a clause to one of its predicates.
IsPath(p, tree) ==
    /\ p \in Seq(Nat \ {0})
    /\ \A n \in 1..Len(p) :
         LET parent == SubSeq(p, 1, n - 1)
         IN  /\ parent \in DOMAIN tree
             /\ p[n] <= Size(tree[parent])

IsTree(tree) ==
    /\ IsFiniteSet(DOMAIN tree)
    /\ <<>> \in DOMAIN tree /\ IsCompound(tree[<<>>]) /\ tree[<<>>].type = "AND"
    /\ HasPredicates(tree[<<>>])
    /\ \A p \in DOMAIN tree : IsPath(p, tree) /\ IsClause(tree[p])
    /\ \A p \in DOMAIN tree : \A i \in 1..Size(tree[p]) : Append(p, i) \in DOMAIN tree

(***************************************************************************)
(* sort is how many fields it has and whether each is well formed; shape   *)
(* says that the table or the sort is none ("badSort": a value that is no  *)
(* array), that the sort is missing, or that predicates, those of the      *)
(* request or of a clause, are no list of objects ("noPredicates").  A     *)
(* number that is no integer stands for a page size 0 or an index -1,      *)
(* refused alike.                                                          *)
(***************************************************************************)
NoPagination == [size |-> -1, index |-> -1]

IsRequest(r) ==
    /\ r.shape \in {"ok", "noTable", "badSort", "noPredicates", "noSort"}
    /\ IsTree(r.tree)
    /\ r.sort \in [fields : Nat, valid : BOOLEAN]
    /\ r.pagination \in [size : Nat, index : Nat \cup {-1}] \cup {NoPagination}

ASSUME FetchAssumption ==
    /\ Names \cap ({"?", "x", "(", ")"} \cup Types) = {}
    /\ Undefined \notin Values
    /\ \A r \in Requests : IsRequest(r)
    /\ MaxPredicates \in Nat
    /\ MaxSortFields \in Nat
    /\ MaxPageSize \in Nat \ {0}
    /\ MaxRows \in Nat

VARIABLES
    request,    \* the request, with its tree
    dialect,    \* the adapter's engine
    pc,         \* where the handler is
    todo,       \* what is still to be written: clauses and words
    text,       \* the WHERE clause written so far
    args,       \* PlaceholderState.args
    index,      \* PlaceholderState.index
    mode,       \* PlaceholderState.mode
    page,       \* the ranks of the rows that the statement selects
    leaves,     \* history: how many simple predicates were written
    status      \* the status of the response, 0 before

vars == <<request, dialect, pc, todo, text, args, index, mode, page, leaves, status>>
placeholderState == <<args, index, mode>>

Body == request.tree

\* The writer goes from compounds to their predicates: what it reaches of the body.
IsReached(p) == \A n \in 0..(Len(p) - 1) : IsCompound(Body[SubSeq(p, 1, n)])
Tree == [p \in { p \in DOMAIN Body : IsReached(p) } |-> Body[p]]

Word(w)   == [word |-> w, no |-> 0]
Param(n)  == [word |-> "param", no |-> n]
Clause(p) == [clause |-> p]

Pieces == [word : {"(", ")", "x"} \cup Types, no : {0}]
              \cup [word : {"param"}, no : Nat \ {0}]

TypeOK ==
    /\ request \in Requests
    /\ dialect \in Dialects
    /\ pc \in {"limits", "shape", "predicates", "pagination", "execute", "done",
              "refused"}
    /\ todo \in Seq(Pieces \cup [clause : DOMAIN Tree])
    /\ text \in Seq(Pieces)
    /\ args \in Seq(Values)
    /\ index \in Nat \ {0}
    /\ mode \in {"null", "positional", "named"}
    /\ page \subseteq 1..MaxRows
    /\ leaves \in Nat
    /\ status \in {0, 200, 400, 500}

Init ==
    /\ request \in Requests
    /\ dialect \in Dialects
    /\ pc = "limits"
    /\ todo = <<>>
    /\ text = <<>>
    /\ args = <<>>
    /\ index = 1
    /\ mode = "null"
    /\ page = {}
    /\ leaves = 0
    /\ status = 0

\* An error thrown before the statement is executed.
Fail(code) ==
    /\ pc' = "refused"
    /\ status' = code
    /\ UNCHANGED <<request, dialect, todo, text, placeholderState, page, leaves>>

-----------------------------------------------------------------------------
(* handleRequest: the limits, then the shape. *)

\* Slip: only the predicates of the request's own list are counted.
CountTopLevel == Size(Body[<<>>])

\* countPredicates: the clauses that have no predicates of their own, however deep.
CountPredicates == Cardinality({ p \in DOMAIN Body : ~HasPredicates(Body[p]) })

\* What validateLimits throws: a 400, a TypeError (500), or nothing (0).
LimitError ==
    IF request.shape = "noPredicates" THEN 500
    ELSE IF CountPredicates > MaxPredicates THEN 400
    ELSE IF request.shape = "noSort" THEN 500
    ELSE IF request.sort.fields > MaxSortFields THEN 400 ELSE 0

ValidateLimits ==
    /\ pc = "limits"
    /\ \/ LimitError # 0 /\ Fail(LimitError)
       \/ /\ LimitError = 0
          /\ pc' = "shape"
          /\ UNCHANGED <<request, dialect, todo, text, placeholderState, page,
                         leaves, status>>

\* The children of the clause at p, with its join between them.
Joined(p) ==
    LET n == Size(Tree[p])
    IN  [k \in 1..(IF n = 0 THEN 0 ELSE 2 * n - 1) |->
            IF k % 2 = 1 THEN Clause(Append(p, (k + 1) \div 2))
                         ELSE Word(Tree[p].type)]

\* validateRequestShape, and what expandSort, if there is a field, demands of each.
ValidShape == request.shape = "ok"
ValidSort  == request.sort.fields = 0 \/ request.sort.valid

\* write: the shape and the ORDER BY clause, then the predicates' turn.
StartWriting ==
    /\ pc = "shape"
    /\ \/ ~(ValidShape /\ ValidSort) /\ Fail(400)
       \/ /\ ValidShape /\ ValidSort
          /\ pc' = "predicates"
          /\ todo' = Joined(<<>>)
          /\ UNCHANGED <<request, dialect, text, placeholderState, page, leaves,
                         status>>

-----------------------------------------------------------------------------
(* Simple predicates. *)

IsMark(w) == w = "?" \/ w \in Names

\* How many of the first i words are placeholders.
Rank(words, i) == Cardinality({ j \in 1..i : IsMark(words[j]) })

\* Where the k-th placeholder is.
MarkAt(words, k) == CHOOSE i \in DOMAIN words : IsMark(words[i]) /\ Rank(words, i) = k

\* detectClausePlaceholderMode, which throws when a text has both.
ClauseMode(words) ==
    LET positional == \E i \in DOMAIN words : words[i] = "?"
        named      == \E i \in DOMAIN words : words[i] \in Names
    IN  CASE positional /\ named -> "mixed"
          [] named /\ ~positional -> "named"
          [] positional /\ ~named -> "positional"
          [] OTHER -> "null"

\* Slip: the mode of the request is not remembered from clause to clause.
ModeConflictNever(m) == FALSE

ModeConflict(m) == mode # "null" /\ m # mode

\* ensureEmptyArgs
ArgsEmpty(a) == a.kind # "null" /\ a.list = <<>> /\ a.fields = NoFields

\* Slip: a name without a value is let through.
ArgsFitCountOnly(words, a, m) ==
    CASE m = "null"       -> ArgsEmpty(a)
      [] m = "positional" -> a.kind = "array" /\ Len(a.list) = Rank(words, Len(words))
      [] m = "named"      -> a.kind = "object"
      [] OTHER            -> FALSE

\* The arguments of a clause, checked by the rules of its mode (none fit a mixed one).
ArgsFit(words, a, m) ==
    CASE m = "null"       -> ArgsEmpty(a)
      [] m = "positional" -> a.kind = "array" /\ Len(a.list) = Rank(words, Len(words))
      [] m = "named"      ->
            /\ a.kind = "object"
            /\ \A i \in DOMAIN words : words[i] \in Names => a.fields[words[i]] # Undefined
      [] OTHER            -> FALSE

\* The argument of the placeholder at i: by position or by name.
ArgumentAt(words, a, i) ==
    IF words[i] = "?" THEN a.list[Rank(words, i)] ELSE a.fields[words[i]]

\* Slip: every clause numbers its parameters from one.
RenderedAlone(words) ==
    [i \in DOMAIN words |->
        IF IsMark(words[i]) THEN Param(Rank(words, i)) ELSE Word(words[i])]

\* The words, the placeholders replaced by the next parameters.
Rendered(words) ==
    [i \in DOMAIN words |->
        IF IsMark(words[i]) THEN Param(index + Rank(words, i) - 1) ELSE Word(words[i])]

NextClause == todo # <<>> /\ "clause" \in DOMAIN Head(todo)
Current    == Tree[Head(todo).clause]

ExpandSimplePredicateClause ==
    /\ pc = "predicates"
    /\ NextClause
    /\ ~IsCompound(Current)
    /\ \/ ~HasText(Current) /\ Fail(500)
       \/ /\ HasText(Current)
          /\ LET words == Current.text
                 a     == Current.args
                 m     == ClauseMode(words)
                 count == Rank(words, Len(words))
             IN  \/ /\ (m # "null" /\ ModeConflict(m)) \/ ~ArgsFit(words, a, m)
                    /\ Fail(400)
                 \/ /\ m # "null" => ~ModeConflict(m)
                    /\ ArgsFit(words, a, m)
                    /\ mode' = IF m = "null" THEN mode ELSE m
                    /\ text' = text \o <<Word("(")>> \o Rendered(words) \o <<Word(")")>>
                    /\ args' = args \o [k \in 1..count |->
                                          ArgumentAt(words, a, MarkAt(words, k))]
                    /\ index' = index + count
                    /\ leaves' = leaves + 1
                    /\ todo' = Tail(todo)
                    /\ UNCHANGED <<request, dialect, pc, page, status>>

-----------------------------------------------------------------------------
(* Compound predicates, and the words between the clauses. *)

\* Slip: the children of a compound clause are not put in parentheses.
CompoundBare(p) == Joined(p)

Compound(p) == <<Word("(")>> \o Joined(p) \o <<Word(")")>>

ExpandCompoundPredicateClause ==
    /\ pc = "predicates"
    /\ NextClause
    /\ IsCompound(Current)
    /\ \/ Size(Current) = 0 /\ Fail(400)
       \/ /\ Size(Current) > 0
          /\ todo' = Compound(Head(todo).clause) \o Tail(todo)
          /\ UNCHANGED <<request, dialect, pc, text, placeholderState, page,
                         leaves, status>>

WriteWord ==
    /\ pc = "predicates"
    /\ todo # <<>>
    /\ ~NextClause
    /\ text' = Append(text, Head(todo))
    /\ todo' = Tail(todo)
    /\ UNCHANGED <<request, dialect, pc, placeholderState, page, leaves, status>>

PredicatesWritten ==
    /\ pc = "predicates"
    /\ todo = <<>>
    /\ pc' = "pagination"
    /\ UNCHANGED <<request, dialect, todo, text, placeholderState, page, leaves,
                   status>>

-----------------------------------------------------------------------------
(* Pagination and execution. *)

\* Slip: the offset counts from one.
OffsetFromOne(size, pageIndex) == pageIndex * size + 1

Offset(size, pageIndex) == pageIndex * size

\* paginateQuery: LIMIT and OFFSET, or ROW_NUMBER() BETWEEN on SQL Server.
PaginateQuery(limit, offset) ==
    IF dialect = "sqlserver"
    THEN LET rowStart == offset + 1
             rowEnd   == offset + limit
         IN  { r \in 1..MaxRows : rowStart <= r /\ r <= rowEnd }
    ELSE { r \in 1..MaxRows : r > offset /\ r - offset <= limit }

ExpandPagination ==
    /\ pc = "pagination"
    /\ LET asked == request.pagination
           legal == asked.size \in 1..MaxPageSize /\ asked.index >= 0
       IN  \/ asked # NoPagination /\ ~legal /\ Fail(400)
           \/ /\ asked = NoPagination \/ legal
              /\ page' = IF asked = NoPagination THEN 1..MaxRows
                         ELSE PaginateQuery(asked.size, Offset(asked.size, asked.index))
              /\ pc' = "execute"
              /\ UNCHANGED <<request, dialect, todo, text, placeholderState, leaves,
                             status>>

\* The adapter runs the statement, which may fail (500: any of its errors).
Execute ==
    /\ pc = "execute"
    /\ pc' = "done"
    /\ status' \in {200, 500}
    /\ UNCHANGED <<request, dialect, todo, text, placeholderState, page, leaves>>

Done == pc \in {"done", "refused"} /\ UNCHANGED vars

Next ==
    \/ ValidateLimits
    \/ StartWriting
    \/ ExpandSimplePredicateClause
    \/ ExpandCompoundPredicateClause
    \/ WriteWord
    \/ PredicatesWritten
    \/ ExpandPagination
    \/ Execute
    \/ Done

Spec == Init /\ [][Next]_vars

-----------------------------------------------------------------------------
(* What a request means, without a statement. *)

(***************************************************************************)
(* A text whose comparisons are judged is read from left to right.  A      *)
(* level is what was read of the alternatives between two parentheses, in  *)
(* the level around them: one was true ("won"), or the present one "holds" *)
(* so far or "fails".                                                      *)
(***************************************************************************)
Outermost == <<"holds", <<>>>>

Refuted(level) == IF level[1] = "won" THEN level ELSE <<"fails", level[2]>>

Read(level, word) ==
    CASE word = "("     -> <<"holds", level>>
      [] word = ")"     -> IF level[1] = "fails" THEN Refuted(level[2]) ELSE level[2]
      [] word = "OR"    -> <<IF level[1] = "fails" THEN "holds" ELSE "won", level[2]>>
      [] word = "false" -> Refuted(level)
      [] OTHER          -> level

\* AND binds more tightly than OR, parentheses more than both.
Truth(words) ==
    LET level[i \in 0..Len(words)] ==
            IF i = 0 THEN Outermost ELSE Read(level[i - 1], words[i])
    IN  level[Len(words)][1] # "fails"

\* A word of a text, a comparison replaced by its judgement.
Judged(word, holds) ==
    IF word \in {"(", ")"} \cup Joins THEN word ELSE IF holds THEN "true" ELSE "false"

\* The truth of a simple predicate in a row where just the values of I hold.
SimpleMeaning(clause, I) ==
    Truth([i \in DOMAIN clause.text |->
             Judged(clause.text[i],
                    IsMark(clause.text[i]) =>
                        ArgumentAt(clause.text, clause.args, i) \in I)])

\* The truth of every predicate of the tree, in that row.
Meanings(I) ==
    LET meaning[p \in DOMAIN Tree] ==
            IF ~IsCompound(Tree[p]) THEN SimpleMeaning(Tree[p], I)
            ELSE IF Tree[p].type = "AND"
            THEN \A i \in 1..Size(Tree[p]) : meaning[Append(p, i)]
            ELSE \E i \in 1..Size(Tree[p]) : meaning[Append(p, i)]
    IN  meaning

Meaning(I) == Meanings(I)[<<>>]

\* The value the engine binds to the parameter at i: ? by order, $n and @pn by number.
BoundAt(i) ==
    IF dialect = "mysql" THEN args[Cardinality({j \in 1..i : text[j].word = "param"})]
    ELSE args[text[i].no]

StatementTruth(I) ==
    Truth([i \in DOMAIN text |->
             Judged(text[i].word, text[i].word = "param" => BoundAt(i) \in I)])

-----------------------------------------------------------------------------
(* Properties. *)

(***************************************************************************)
(* The statement selects the rows the request describes, on every engine:  *)
(* its parentheses, its precedence and its parameters mean what the tree   *)
(* and its arguments mean, if its compounds are joined by AND and OR       *)
(* (fetch-request.ts:95-195).                                              *)
(***************************************************************************)
TypesDeclared == \A p \in DOMAIN Tree : IsCompound(Tree[p]) => Tree[p].type \in Joins

StatementMeansRequest ==
    pc = "execute" /\ TypesDeclared =>
        \A I \in SUBSET Values : StatementTruth(I) <=> Meaning(I)

(***************************************************************************)
(* At every moment the parameters written are 1 to the number of arguments *)
(* in the order in which they occur, so that ?, $n and @pn are bound alike *)
(* (fetch-request.ts:112-176).                                             *)
(***************************************************************************)
Parameters == { i \in DOMAIN text : text[i].word = "param" }

ArgumentsMeetParameters ==
    /\ index = Len(args) + 1
    /\ Cardinality(Parameters) = Len(args)
    /\ \A i \in Parameters : text[i].no \in 1..Len(args)
    /\ \A i, j \in Parameters : i < j => text[i].no < text[j].no

(***************************************************************************)
(* A request is executed when and only when it obeys the documented rules  *)
(* (docs/fetchrequest-examples.md:44-64): one placeholder style in the     *)
(* whole request, arguments that fit, no empty compound, limits and page   *)
(* in range.  The limit of predicates decides only where counter and       *)
(* writer tell simple predicates apart alike: without a clause that has    *)
(* predicates but no type (fetch-request.ts:95-195,                        *)
(* fetch-request-handler.service.ts:55-81).                                *)
(***************************************************************************)
Style(p) == ClauseMode(Tree[p].text)
Simple   == { p \in DOMAIN Tree : ~IsCompound(Tree[p]) }
Mixed    == { p \in DOMAIN Body : HasPredicates(Body[p]) /\ ~IsCompound(Body[p]) }

WithinLimit == Cardinality(Simple) <= MaxPredicates

ObeysRules ==
    /\ ValidShape /\ ValidSort
    /\ request.sort.fields <= MaxSortFields
    /\ \A p \in DOMAIN Tree \ (Simple \cup {<<>>}) : Size(Tree[p]) > 0
    /\ \A p \in Simple : HasText(Tree[p])
    /\ \E style \in {"positional", "named"} : \A p \in Simple : Style(p) \in {style, "null"}
    /\ \A p \in Simple : ArgsFit(Tree[p].text, Tree[p].args, Style(p))
    /\ request.pagination # NoPagination =>
           request.pagination.size \in 1..MaxPageSize /\ request.pagination.index >= 0

ExecutedIffValid ==
    /\ pc \in {"execute", "done"} => ObeysRules /\ (Mixed = {} => WithinLimit)
    /\ pc = "refused" => ~(ObeysRules /\ WithinLimit /\ Mixed = {})

(***************************************************************************)
(* However the predicates are nested, no statement is written from more of *)
(* them than the limit allows and, beyond that, one for each clause that   *)
(* has predicates but no type: the counter adds up such a list, be it      *)
(* empty, where the writer writes the clause.  Of the rest it is true that *)
(* "total predicate clauses are capped by limits.fetchMaxPredicates"       *)
(* (docs/fetchrequest-examples.md:49,                                      *)
(* fetch-request-handler.service.ts:73-81, fetch-request.ts:95-109).       *)
(***************************************************************************)
LimitByCount == leaves <= MaxPredicates + Cardinality(Mixed)

(***************************************************************************)
(* Page i of size n has the rows of rank i*n + 1 to i*n + n: on every      *)
(* engine the pages hold each row exactly once (fetch-request.ts:218-241). *)
(***************************************************************************)
PagesPartition ==
    pc = "execute" =>
        page = { r \in 1..MaxRows :
                   request.pagination = NoPagination
                     \/ (r - 1) \div request.pagination.size = request.pagination.index }
=============================================================================
