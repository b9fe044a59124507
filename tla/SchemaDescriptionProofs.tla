---------------------- MODULE SchemaDescriptionProofs ----------------------
(***************************************************************************)
(* Theorems about SchemaDescription, for any tables, any catalogues of     *)
(* them and any number of changes during a request.                        *)
(***************************************************************************)
EXTENDS SchemaDescription, FiniteSetTheorems, SequenceTheorems, WellFoundedInduction, TLAPS

-----------------------------------------------------------------------------
(***************************************************************************)
(* Statements.                                                             *)
(***************************************************************************)

Kinds == {"names", "info", "schema", "keys"}

StatementNames == {"names", "exists", "info", "table", "columns", "constraints", "indexes",
                   "keys"}

(***************************************************************************)
(* The statements of each operation.                                       *)
(***************************************************************************)
LEMMA StatementsKnown ==
    /\ DOMAIN Statements = Kinds
    /\ \A kind \in Kinds : Statements[kind] \in Seq(StatementNames) /\ Statements[kind] # <<>>
<1>1. DOMAIN Statements = Kinds
  BY DEF Statements, Kinds
<1>2. <<"names">> \in Seq(StatementNames) /\ <<"keys">> \in Seq(StatementNames)
  BY DEF StatementNames
<1>3. <<"exists", "info">> \in Seq(StatementNames)
  BY DEF StatementNames
<1>4. <<"exists", "table", "columns", "constraints", "indexes">> \in Seq(StatementNames)
  BY DEF StatementNames
<1>5. /\ Statements["names"] = <<"names">> /\ Statements["keys"] = <<"keys">>
      /\ Statements["info"] = <<"exists", "info">>
      /\ Statements["schema"] = <<"exists", "table", "columns", "constraints", "indexes">>
  BY DEF Statements
<1>6. /\ <<"names">> # <<>> /\ <<"keys">> # <<>> /\ <<"exists", "info">> # <<>>
      /\ <<"exists", "table", "columns", "constraints", "indexes">> # <<>>
  OBVIOUS
<1>7. ASSUME NEW kind \in Kinds
      PROVE  Statements[kind] \in Seq(StatementNames) /\ Statements[kind] # <<>>
  <2>1. kind = "names" \/ kind = "keys" \/ kind = "info" \/ kind = "schema"
    BY DEF Kinds
  <2>2. CASE kind = "names" \/ kind = "keys"
    BY <1>2, <1>5, <1>6, <2>2
  <2>3. CASE kind = "info"
    BY <1>3, <1>5, <1>6, <2>3
  <2>4. CASE kind = "schema"
    BY <1>4, <1>5, <1>6, <2>4
  <2> QED
    BY <2>1, <2>2, <2>3, <2>4
<1> QED
  BY <1>1, <1>7

(***************************************************************************)
(* The bound on changes is a number.                                       *)
(***************************************************************************)
LEMMA ChangesBounded == MaxChanges \in Nat
BY SchemaAssumption, Zenon

(***************************************************************************)
(* The columns of a table.                                                 *)
(***************************************************************************)
LEMMA ColumnsKnown ==
    ASSUME NEW d \in Dialects, NEW c \in Catalogues[d], NEW t \in DOMAIN c
    PROVE  IsColumns(d, c[t].columns)
<1>1. IsCatalogue(d, c)
  BY SchemaAssumption
<1> QED
  BY <1>1 DEF IsCatalogue

(***************************************************************************)
(* The statements after which a table may be missed, and where they are.   *)
(***************************************************************************)
LEMMA WhereTableIsMissed ==
    ASSUME NEW kind \in Kinds, NEW n \in 1..Len(Statements[kind])
    PROVE  /\ Statements[kind][n] = "exists" => n = 1
           /\ Statements[kind][n] = "table" => n = 2 /\ kind = "schema"
<1>1. kind = "names" \/ kind = "keys" \/ kind = "info" \/ kind = "schema"
  BY DEF Kinds
<1>2. CASE kind = "names" \/ kind = "keys"
  BY <1>2 DEF Statements
<1>3. CASE kind = "info"
  BY <1>3 DEF Statements
<1>4. CASE kind = "schema"
  BY <1>4 DEF Statements
<1> QED
  BY <1>1, <1>2, <1>3, <1>4

(***************************************************************************)
(* The operations that begin with ensureTableExists.                       *)
(***************************************************************************)
LEMMA SchemaFirst == Statements["schema"][1] = "exists" /\ Statements["info"][1] = "exists"
BY DEF Statements

-----------------------------------------------------------------------------
(***************************************************************************)
(* Requests. TypeOK is not inductive: that the statements read and to come *)
(* are as many as those of the operation does not say which they are.      *)
(* RequestOK says that those to come are the ones after those that were    *)
(* read.                                                                   *)
(***************************************************************************)

IsSequence(s) == Len(s) \in Nat /\ s = [i \in 1..Len(s) |-> s[i]]

\* The elements of a sequence after the first m.
Suffix(s, all, m) == m + Len(s) = Len(all) /\ \A j \in 1..Len(s) : s[j] = all[m + j]

\* What is still to come are the statements after those that were read.
Remaining(r) == Suffix(r.statements, Statements[r.kind], Len(r.read))

RequestOK(r) ==
    /\ r = [pc |-> r.pc, kind |-> r.kind, table |-> r.table, statements |-> r.statements,
            read |-> r.read, status |-> r.status]
    /\ r.pc \in {"idle", "working", "answered"}
    /\ r.kind \in Kinds
    /\ r.statements \in Seq(StatementNames)
    /\ IsSequence(r.read) /\ Len(r.read) <= Len(Statements[r.kind])
    /\ r.status \in {"none", "ok", "null", "notFound", "error"}
    /\ (r.status # "none") = (r.pc = "answered")
    /\ (r.statements # <<>>) = (r.pc = "working")
    /\ r.pc = "idle" => r.read = <<>>
    /\ r.pc # "idle" => r.table \in Tables
    /\ r.pc = "working" => Remaining(r)

WindowOK ==
    /\ dialect \in Dialects
    /\ window \in Seq(Catalogues[dialect])
    /\ Len(window) \in 1..(MaxChanges + 1)

DescInv == WindowOK /\ RequestOK(request)

(***************************************************************************)
(* A sequence that grows by one element.                                   *)
(***************************************************************************)
LEMMA AppendSequence ==
    ASSUME NEW s, IsSequence(s), NEW x
    PROVE  /\ IsSequence(Append(s, x)) /\ Len(Append(s, x)) = Len(s) + 1 /\ Len(s) \in Nat
           /\ DOMAIN s = 1..Len(s) /\ DOMAIN Append(s, x) = 1..(Len(s) + 1)
           /\ \A i \in 1..Len(s) : Append(s, x)[i] = s[i]
           /\ Append(s, x)[Len(s) + 1] = x
<1>1. PICK S : S = { s[i] : i \in DOMAIN s }
  OBVIOUS
<1>2. s \in Seq(S)
  <2>1. PICK m \in Nat : m = Len(s) /\ s = [i \in 1..m |-> s[i]]
    BY DEF IsSequence
  <2>2. DOMAIN s = 1..m
    BY <2>1
  <2>3. s \in [1..m -> S]
    BY <1>1, <2>1, <2>2
  <2> QED
    BY <2>3, SeqDef
<1>3. PICK T : T = S \cup {x}
  OBVIOUS
<1>4. s \in Seq(T) /\ x \in T
  BY <1>2, <1>3, SeqMonotonic
<1>5. /\ Append(s, x) \in Seq(T) /\ Len(Append(s, x)) = Len(s) + 1
      /\ \A i \in 1..Len(s) : Append(s, x)[i] = s[i]
      /\ Append(s, x)[Len(s) + 1] = x
  BY <1>4, AppendProperties
<1>6. Len(s) \in Nat /\ DOMAIN s = 1..Len(s) /\ DOMAIN Append(s, x) = 1..(Len(s) + 1)
  BY <1>4, <1>5, LenProperties
<1>7. IsSequence(Append(s, x))
  <2>1. PICK v \in Seq(T) : v = Append(s, x)
    BY <1>5
  <2>2. Len(v) \in Nat /\ v \in [1..Len(v) -> T]
    BY LenProperties
  <2>3. v = [i \in 1..Len(v) |-> v[i]]
    BY <2>2
  <2> QED
    BY <2>1, <2>2, <2>3 DEF IsSequence
<1> QED
  BY <1>5, <1>6, <1>7

(***************************************************************************)
(* The empty sequence.                                                     *)
(***************************************************************************)
LEMMA EmptySequence == IsSequence(<<>>) /\ Len(<<>>) = 0 /\ DOMAIN <<>> = {}
<1>1. \A S : <<>> \in Seq(S)
  OBVIOUS
<1> QED
  BY <1>1 DEF IsSequence

(***************************************************************************)
(* A sequence of one element.                                              *)
(***************************************************************************)
LEMMA SingleSequence ==
    ASSUME NEW S, NEW x \in S
    PROVE  <<x>> \in Seq(S) /\ Len(<<x>>) = 1
OBVIOUS

(***************************************************************************)
(* A request that has not arrived.                                         *)
(***************************************************************************)
LEMMA IdleOK == RequestOK(Idle) /\ Idle.pc = "idle" /\ Idle.read = <<>> /\ Idle.status = "none"
<1>1. /\ Idle.pc = "idle" /\ Idle.kind = "names" /\ Idle.statements = <<>> /\ Idle.read = <<>>
      /\ Idle.status = "none"
  BY DEF Idle
<1>2. Idle = [pc |-> Idle.pc, kind |-> Idle.kind, table |-> Idle.table,
              statements |-> Idle.statements, read |-> Idle.read, status |-> Idle.status]
  BY DEF Idle
<1>3. <<>> \in Seq(StatementNames)
  OBVIOUS
<1>4. Len(Statements["names"]) \in Nat
  BY StatementsKnown DEF Kinds
<1> QED
  BY <1>1, <1>2, <1>3, <1>4, EmptySequence DEF RequestOK, Kinds

(***************************************************************************)
(* DescInv holds in the beginning.                                         *)
(***************************************************************************)
LEMMA DescInit == Init => DescInv
<1> SUFFICES ASSUME Init PROVE DescInv
  OBVIOUS
<1>1. PICK c \in Catalogues[dialect] : window = <<c>>
  BY DEF Init
<1>2. window \in Seq(Catalogues[dialect]) /\ Len(window) = 1
  <2>1. PICK S : S = Catalogues[dialect] /\ c \in S
    BY <1>1
  <2>2. <<c>> \in Seq(S) /\ Len(<<c>>) = 1
    BY <2>1, SingleSequence
  <2> QED
    BY <1>1, <2>1, <2>2
<1>3. 1 \in 1..(MaxChanges + 1)
  BY ChangesBounded
<1> QED
  BY <1>2, <1>3, IdleOK DEF Init, DescInv, WindowOK

(***************************************************************************)
(* What a statement that succeeds does.                                    *)
(***************************************************************************)
LEMMA SuccessStep ==
    ASSUME DescInv, StatementSucceeds
    PROVE  /\ request.pc = "working" /\ request.table \in Tables /\ request.kind \in Kinds
           /\ UNCHANGED <<dialect, window>>
           /\ \E n, x, next :
                /\ n \in 1..Len(Statements[request.kind])
                /\ n = Len(request.read) + 1
                /\ next = Statements[request.kind][n]
                /\ x = Result(next, Catalogue, request.table)
                /\ \/ /\ next = "exists" /\ ~x
                      /\ request' = Answered(Append(request.read, x), "notFound")
                   \/ /\ next = "table" /\ ~x
                      /\ request' = Answered(Append(request.read, x), "null")
                   \/ request' = Answered(Append(request.read, x), "ok")
                   \/ /\ ~(next = "exists" /\ ~x) /\ ~(next = "table" /\ ~x)
                      /\ Tail(request.statements) # <<>>
                      /\ request' = [request EXCEPT !.statements = Tail(@),
                                                    !.read = Append(request.read, x)]
<1>1. /\ request.pc = "working" /\ request.table \in Tables /\ request.kind \in Kinds
      /\ request.statements # <<>> /\ request.statements \in Seq(StatementNames)
      /\ Remaining(request) /\ IsSequence(request.read)
      /\ UNCHANGED <<dialect, window>>
  BY DEF StatementSucceeds, DescInv, RequestOK
<1>2. PICK n : n = Len(request.read) + 1
  OBVIOUS
<1>3. Len(request.read) \in Nat
  BY <1>1, AppendSequence
<1>4. Len(request.statements) \in Nat \ {0}
  BY <1>1
<1>5. n \in 1..Len(Statements[request.kind]) /\ request.statements[1] = Statements[request.kind][n]
  <2>1. PICK t \in Seq(StatementNames) : t = request.statements
    BY <1>1
  <2>2. PICK m \in Nat : m = Len(request.read)
    BY <1>3
  <2>3. PICK all \in Seq(StatementNames) : all = Statements[request.kind]
    BY <1>1, StatementsKnown
  <2>4. m + Len(t) = Len(all) /\ \A j \in 1..Len(t) : t[j] = all[m + j]
    BY <1>1, <2>1, <2>2, <2>3 DEF Remaining, Suffix
  <2>5. Len(t) \in Nat \ {0} /\ Len(all) \in Nat
    BY <1>4, <2>1
  <2>6. m + 1 \in 1..Len(all) /\ t[1] = all[m + 1]
    BY <2>4, <2>5
  <2> QED
    BY <1>2, <2>1, <2>2, <2>3, <2>6
<1>6. PICK next : next = Head(request.statements)
  OBVIOUS
<1>7. next = Statements[request.kind][n]
  BY <1>1, <1>4, <1>5, <1>6
<1>8. PICK x : x = Result(next, Catalogue, request.table)
  OBVIOUS
<1>9. Last(Append(request.read, x)) = x
  <2>1. Len(Append(request.read, x)) = Len(request.read) + 1
          /\ Append(request.read, x)[Len(request.read) + 1] = x
    BY <1>1, AppendSequence
  <2> QED
    BY <2>1 DEF Last
<1>10. request' =
             IF next = "exists" /\ ~ Last(Append(request.read, x))
             THEN Answered(Append(request.read, x), "notFound")
             ELSE IF next = "table" /\ ~ Last(Append(request.read, x))
             THEN Answered(Append(request.read, x), "null")
             ELSE IF Tail(request.statements) = <<>> THEN Answered(Append(request.read, x), "ok")
             ELSE [request EXCEPT !.statements = Tail(@), !.read = Append(request.read, x)]
  BY <1>6, <1>8 DEF StatementSucceeds
<1> QED
  BY <1>1, <1>2, <1>5, <1>7, <1>8, <1>9, <1>10

-----------------------------------------------------------------------------
(***************************************************************************)
(* Steps, and the types.                                                   *)
(***************************************************************************)

(***************************************************************************)
(* The fields of a request that is answered.                               *)
(***************************************************************************)
LEMMA AnsweredParts ==
    ASSUME RequestOK(request), NEW read, NEW status
    PROVE  /\ Answered(read, status)
                = [pc |-> "answered", kind |-> request.kind, table |-> request.table,
                   statements |-> <<>>, read |-> read, status |-> status]
           /\ Answered(read, status).pc = "answered"
           /\ Answered(read, status).kind = request.kind
           /\ Answered(read, status).table = request.table
           /\ Answered(read, status).statements = <<>>
           /\ Answered(read, status).read = read
           /\ Answered(read, status).status = status
<1>1. Answered(read, status)
        = [pc |-> "answered", kind |-> request.kind, table |-> request.table,
           statements |-> <<>>, read |-> read, status |-> status]
  <2>1. PICK pc, kind, table, statements, old, was :
           /\ request = [pc |-> pc, kind |-> kind, table |-> table,
                         statements |-> statements, read |-> old, status |-> was]
           /\ kind = request.kind /\ table = request.table
    BY DEF RequestOK
  <2>2. Answered(read, status)
          = [[pc |-> pc, kind |-> kind, table |-> table,
              statements |-> statements, read |-> old, status |-> was]
                EXCEPT !.pc = "answered", !.statements = <<>>, !.read = read, !.status = status]
    BY <2>1 DEF Answered
  <2> QED
    BY <2>1, <2>2
<1> QED
  BY <1>1

(***************************************************************************)
(* A request that is answered is a request.                                *)
(***************************************************************************)
LEMMA AnsweredOK ==
    ASSUME RequestOK(request), request.pc = "working", NEW read, IsSequence(read),
           Len(read) <= Len(Statements[request.kind]),
           NEW status \in {"ok", "null", "notFound", "error"}
    PROVE  RequestOK(Answered(read, status))
<1>1. PICK r : r = Answered(read, status)
  OBVIOUS
<1>2. /\ r = [pc |-> r.pc, kind |-> r.kind, table |-> r.table, statements |-> r.statements,
              read |-> r.read, status |-> r.status]
      /\ r.pc = "answered" /\ r.kind = request.kind /\ r.statements = <<>>
      /\ r.read = read /\ r.status = status /\ r.table = request.table
  BY <1>1, AnsweredParts
<1>3. <<>> \in Seq(StatementNames) /\ request.kind \in Kinds /\ request.table \in Tables
  BY DEF RequestOK
<1> QED
  BY <1>1, <1>2, <1>3 DEF RequestOK

\* The request with its next statement.
Continued(read) == [request EXCEPT !.statements = Tail(@), !.read = read]

(***************************************************************************)
(* The fields of a record that a request is changed to.                    *)
(***************************************************************************)
LEMMA ContinuedParts ==
    ASSUME RequestOK(request), NEW read, NEW r, r = Continued(read)
    PROVE  /\ r = [pc |-> r.pc, kind |-> r.kind, table |-> r.table,
                   statements |-> r.statements, read |-> r.read, status |-> r.status]
           /\ r.pc = request.pc /\ r.kind = request.kind /\ r.table = request.table
           /\ r.statements = Tail(request.statements) /\ r.read = read
           /\ r.status = request.status
<1>1. r = [pc |-> request.pc, kind |-> request.kind, table |-> request.table,
           statements |-> Tail(request.statements), read |-> read, status |-> request.status]
  BY DEF RequestOK, Continued
<1> QED
  BY <1>1

(***************************************************************************)
(* So of a request that continues with its next statement.                 *)
(***************************************************************************)
LEMMA RequestContinues ==
    ASSUME RequestOK(request), NEW x
    PROVE  request' = [request EXCEPT !.statements = Tail(@), !.read = Append(request.read, x)] =>
           /\ request' = [pc |-> request'.pc, kind |-> request'.kind, table |-> request'.table,
                          statements |-> request'.statements, read |-> request'.read,
                          status |-> request'.status]
           /\ request'.pc = request.pc /\ request'.kind = request.kind
           /\ request'.table = request.table
           /\ request'.statements = Tail(request.statements)
           /\ request'.read = Append(request.read, x) /\ request'.status = request.status
<1> SUFFICES ASSUME request' = [request EXCEPT !.statements = Tail(@),
                                              !.read = Append(request.read, x)]
             PROVE  /\ request' = [pc |-> request'.pc, kind |-> request'.kind,
                                  table |-> request'.table,
                                  statements |-> request'.statements, read |-> request'.read,
                                  status |-> request'.status]
                    /\ request'.pc = request.pc /\ request'.kind = request.kind
                    /\ request'.table = request.table
                    /\ request'.statements = Tail(request.statements)
                    /\ request'.read = Append(request.read, x)
                    /\ request'.status = request.status
  OBVIOUS
<1>1. PICK read, r : read = Append(request.read, x) /\ r = request'
  OBVIOUS
<1>2. r = Continued(read)
  BY <1>1 DEF Continued
<1>3. /\ r = [pc |-> r.pc, kind |-> r.kind, table |-> r.table,
             statements |-> r.statements, read |-> r.read, status |-> r.status]
      /\ r.pc = request.pc /\ r.kind = request.kind /\ r.table = request.table
      /\ r.statements = Tail(request.statements) /\ r.read = read
      /\ r.status = request.status
  BY <1>2, ContinuedParts
<1> QED
  BY <1>1, <1>3

(***************************************************************************)
(* Of the elements from m + 1 on, the tail has those from m + 2 on.        *)
(***************************************************************************)
LEMMA ShiftedTail ==
    ASSUME NEW S, NEW s \in Seq(S), s # <<>>, NEW all \in Seq(S), NEW m \in Nat,
           Suffix(s, all, m)
    PROVE  Suffix(Tail(s), all, m + 1) /\ m + 1 <= Len(all)
<1>1. PICK t \in Seq(S) : t = Tail(s)
  BY HeadTailProperties
<1>2. Len(t) = Len(s) - 1 /\ (\A j \in 1..Len(t) : t[j] = s[j + 1])
  BY <1>1, HeadTailProperties
<1>3. PICK n \in Nat : n = Len(t)
  OBVIOUS
<1>4. Len(s) = n + 1 /\ Len(all) \in Nat
  BY <1>2, <1>3
<1>5. ASSUME NEW j \in 1..n
      PROVE  t[j] = all[m + 1 + j]
  <2>1. j + 1 \in 1..Len(s) /\ t[j] = s[j + 1]
    BY <1>2, <1>3, <1>4
  <2>2. PICK k \in 1..Len(s) : k = j + 1
    BY <2>1
  <2>3. s[k] = all[m + k]
    BY DEF Suffix
  <2>4. m + k = m + 1 + j
    BY <2>2
  <2> QED
    BY <2>1, <2>2, <2>3, <2>4
<1>6. m + 1 + n = Len(all) /\ m + 1 <= Len(all)
  BY <1>3, <1>4 DEF Suffix
<1> QED
  BY <1>1, <1>3, <1>5, <1>6 DEF Suffix

(***************************************************************************)
(* A request that continues with its next statement is a request.          *)
(***************************************************************************)
LEMMA ContinuedOK ==
    ASSUME RequestOK(request), request.pc = "working", Tail(request.statements) # <<>>,
           NEW x, NEW read, read = Append(request.read, x), NEW r,
           r = [pc |-> r.pc, kind |-> r.kind, table |-> r.table,
                statements |-> r.statements, read |-> r.read, status |-> r.status],
           r.pc = request.pc /\ r.kind = request.kind /\ r.table = request.table,
           r.statements = Tail(request.statements) /\ r.read = read,
           r.status = request.status
    PROVE  RequestOK(r)
<1>1. PICK s \in Seq(StatementNames) : s = request.statements /\ s # <<>>
  BY DEF RequestOK
<1>2. PICK t \in Seq(StatementNames) : t = Tail(s)
  BY <1>1, HeadTailProperties
<1>3. PICK m \in Nat : m = Len(request.read)
  BY AppendSequence DEF RequestOK
<1>4. IsSequence(read) /\ Len(read) = m + 1
  BY <1>3, AppendSequence DEF RequestOK
<1>5. PICK all \in Seq(StatementNames) : all = Statements[request.kind]
  BY StatementsKnown DEF RequestOK
<1>6. Suffix(s, all, m)
  BY <1>1, <1>3, <1>5 DEF RequestOK, Remaining
<1>7. Suffix(t, all, m + 1) /\ m + 1 <= Len(all)
  BY <1>1, <1>2, <1>6, ShiftedTail
<1>8. Remaining(r)
  <2>1. r.statements = t /\ Len(r.read) = m + 1 /\ Statements[r.kind] = all
    BY <1>1, <1>2, <1>4, <1>5
  <2> QED
    BY <1>7, <2>1 DEF Remaining
<1>9. Len(read) <= Len(Statements[r.kind])
  <2>1. r.kind = request.kind
    OBVIOUS
  <2> QED
    BY <1>4, <1>5, <1>7, <2>1
<1> QED
  BY <1>1, <1>2, <1>4, <1>8, <1>9 DEF RequestOK

(***************************************************************************)
(* The window of a request that nobody disturbs.                           *)
(***************************************************************************)
LEMMA WindowKept ==
    ASSUME WindowOK, dialect' = dialect, window' = window
    PROVE  WindowOK'
BY DEF WindowOK

(***************************************************************************)
(* The catalogue is the last one of the window.                            *)
(***************************************************************************)
LEMMA LastCatalogue ==
    ASSUME WindowOK
    PROVE  /\ Catalogue \in Catalogues[dialect]
           /\ Len(window) \in DOMAIN window /\ Catalogue = window[Len(window)]
           /\ DOMAIN window = 1..Len(window) /\ Len(window) \in Nat
<1>1. PICK w \in Seq(Catalogues[dialect]) : w = window /\ Len(w) \in 1..(MaxChanges + 1)
  BY DEF WindowOK
<1>2. Len(w) \in Nat \ {0} /\ DOMAIN w = 1..Len(w)
  BY <1>1
<1>3. w[Len(w)] \in Catalogues[dialect]
  BY <1>2
<1> QED
  BY <1>1, <1>2, <1>3 DEF Catalogue, Last

(***************************************************************************)
(* What a change of the tables does to the window.                         *)
(***************************************************************************)
LEMMA ChangeStep ==
    ASSUME WindowOK, ChangeTables
    PROVE  /\ WindowOK' /\ dialect' = dialect /\ request' = request
           /\ request.pc = "working"
           /\ DOMAIN window \subseteq DOMAIN window'
           /\ \A i \in DOMAIN window : window'[i] = window[i]
<1>1. PICK c \in Catalogues[dialect] : window' = Append(window, c)
  BY DEF ChangeTables
<1>2. PICK S : S = Catalogues[dialect] /\ c \in S
  BY <1>1
<1>3. PICK w \in Seq(S) : w = window
  BY <1>2 DEF WindowOK
<1>4. /\ window' \in Seq(S) /\ Len(window') = Len(w) + 1
      /\ \A i \in 1..Len(w) : window'[i] = w[i]
  BY <1>1, <1>2, <1>3, AppendProperties
<1>5. Len(w) <= MaxChanges /\ Len(w) \in Nat /\ MaxChanges \in Nat
  <2>1. Len(window) <= MaxChanges
    BY DEF ChangeTables
  <2> QED
    BY <1>3, <2>1, ChangesBounded
<1>6. Len(window') \in 1..(MaxChanges + 1)
  BY <1>4, <1>5
<1>7. dialect' = dialect /\ request' = request /\ request.pc = "working"
  BY DEF ChangeTables
<1>8. DOMAIN w = 1..Len(w) /\ DOMAIN window' = 1..(Len(w) + 1)
  BY <1>4, LenProperties
<1>9. DOMAIN w \subseteq DOMAIN window'
  BY <1>5, <1>8
<1>10. WindowOK'
  BY <1>2, <1>4, <1>6, <1>7 DEF WindowOK
<1> QED
  BY <1>3, <1>4, <1>7, <1>8, <1>9, <1>10

(***************************************************************************)
(* Every step keeps DescInv.                                               *)
(***************************************************************************)
LEMMA DescStep == DescInv /\ [Next]_vars => DescInv'
<1> SUFFICES ASSUME DescInv, [Next]_vars PROVE DescInv'
  OBVIOUS
<1>1. CASE RequestArrives
  <2>1. PICK kind \in Kinds, t \in Tables :
           request' = [Idle EXCEPT !.pc = "working", !.kind = kind, !.table = t,
                                   !.statements = Statements[kind]]
    BY <1>1, StatementsKnown DEF RequestArrives
  <2>2. PICK r : r = request'
    OBVIOUS
  <2>3. /\ r = [pc |-> r.pc, kind |-> r.kind, table |-> r.table,
                statements |-> r.statements, read |-> r.read, status |-> r.status]
        /\ r.pc = "working" /\ r.kind = kind /\ r.table = t
        /\ r.statements = Statements[kind] /\ r.read = <<>> /\ r.status = "none"
    BY <2>1, <2>2 DEF Idle
  <2>4. PICK all \in Seq(StatementNames) : all = Statements[kind] /\ all # <<>>
    BY StatementsKnown
  <2>5. Remaining(r)
    BY <2>3, <2>4, EmptySequence DEF Remaining, Suffix
  <2>6. RequestOK(r)
    BY <2>3, <2>4, <2>5, EmptySequence DEF RequestOK
  <2>7. dialect' = dialect /\ window' = window
    BY <1>1 DEF RequestArrives
  <2> QED
    BY <2>2, <2>6, <2>7, WindowKept DEF DescInv
<1>2. CASE StatementSucceeds
  <2>1. PICK n, x :
           /\ n \in 1..Len(Statements[request.kind])
           /\ n = Len(request.read) + 1
           /\ \/ \E status \in {"notFound", "null", "ok"} :
                   request' = Answered(Append(request.read, x), status)
              \/ /\ Tail(request.statements) # <<>>
                 /\ request' = [request EXCEPT !.statements = Tail(@),
                                               !.read = Append(request.read, x)]
    BY <1>2, SuccessStep
  <2>2. /\ RequestOK(request) /\ request.pc = "working" /\ request.kind \in Kinds
        /\ dialect' = dialect /\ window' = window
    BY <1>2, SuccessStep DEF DescInv
  <2>3. IsSequence(Append(request.read, x)) /\ Len(Append(request.read, x)) = n
    BY <2>1, <2>2, AppendSequence DEF RequestOK
  <2>4. Len(Append(request.read, x)) <= Len(Statements[request.kind])
    BY <2>1, <2>2, <2>3, StatementsKnown
  <2>5. ASSUME \E status \in {"notFound", "null", "ok"} :
                 request' = Answered(Append(request.read, x), status)
        PROVE  RequestOK(request')
    <3>1. PICK status \in {"notFound", "null", "ok"} :
            request' = Answered(Append(request.read, x), status)
      BY <2>5
    <3>2. PICK read : read = Append(request.read, x)
      OBVIOUS
    <3>3. RequestOK(Answered(read, status))
      BY <2>2, <2>3, <2>4, <3>2, AnsweredOK
    <3> QED
      BY <3>1, <3>2, <3>3, Zenon
  <2>6. ASSUME Tail(request.statements) # <<>>,
               request' = [request EXCEPT !.statements = Tail(@),
                                          !.read = Append(request.read, x)]
        PROVE  RequestOK(request')
    <3>1. /\ request' = [pc |-> request'.pc, kind |-> request'.kind, table |-> request'.table,
                         statements |-> request'.statements, read |-> request'.read,
                         status |-> request'.status]
          /\ request'.pc = request.pc /\ request'.kind = request.kind
          /\ request'.table = request.table
          /\ request'.statements = Tail(request.statements)
          /\ request'.read = Append(request.read, x) /\ request'.status = request.status
      BY <2>2, <2>6, RequestContinues
    <3>2. PICK r, read : r = request' /\ read = Append(request.read, x)
      OBVIOUS
    <3>3. RequestOK(r)
      BY <2>2, <2>6, <3>1, <3>2, ContinuedOK
    <3> QED
      BY <3>2, <3>3
  <2>7. RequestOK(request')
    BY <2>1, <2>5, <2>6
  <2> QED
    BY <2>2, <2>7, WindowKept DEF DescInv
<1>3. CASE StatementFails
  <2>1. /\ request' = Answered(request.read, "error") /\ dialect' = dialect
        /\ window' = window /\ request.pc = "working"
    BY <1>3 DEF StatementFails
  <2>2. RequestOK(request')
    BY <2>1, AnsweredOK DEF DescInv, RequestOK
  <2> QED
    BY <2>1, <2>2, WindowKept DEF DescInv
<1>4. CASE Respond
  <2>1. request' = Idle /\ window' = <<Catalogue>> /\ dialect' = dialect
    BY <1>4 DEF Respond
  <2>2. PICK S : S = Catalogues[dialect] /\ Catalogue \in S
    BY LastCatalogue DEF DescInv
  <2>3. <<Catalogue>> \in Seq(S) /\ Len(<<Catalogue>>) = 1
    BY <2>2
  <2>4. 1 \in 1..(MaxChanges + 1)
    BY ChangesBounded
  <2>5. window' \in Seq(S) /\ Len(window') = 1 /\ S = Catalogues[dialect']
    BY <2>1, <2>2, <2>3
  <2>6. dialect' \in Dialects
    BY <2>1 DEF DescInv, WindowOK
  <2>7. WindowOK'
    BY <2>4, <2>5, <2>6 DEF WindowOK
  <2> QED
    BY <2>1, <2>7, IdleOK DEF DescInv
<1>5. CASE ChangeTables
  BY <1>5, ChangeStep DEF DescInv
<1>6. CASE UNCHANGED vars
  BY <1>6, WindowKept DEF vars, DescInv
<1> QED
  BY <1>1, <1>2, <1>3, <1>4, <1>5, <1>6 DEF Next

(***************************************************************************)
(* DescInv implies the types.                                              *)
(***************************************************************************)
LEMMA TypeImplied == DescInv => TypeOK
<1> SUFFICES ASSUME DescInv PROVE TypeOK
  OBVIOUS
<1>1. dialect \in Dialects /\ Len(window) \in 1..(MaxChanges + 1)
  BY DEF DescInv, WindowOK
<1>2. \A i \in DOMAIN window : window[i] \in Catalogues[dialect]
  BY DEF DescInv, WindowOK
<1>3. request.kind \in DOMAIN Statements
  BY StatementsKnown DEF DescInv, RequestOK
<1> QED
  BY <1>1, <1>2, <1>3 DEF TypeOK, DescInv, RequestOK, Remaining, Suffix

(***************************************************************************)
(* The variables have their types (TypeOK), for any tables and catalogues  *)
(* and any number of changes: in particular a request runs the statements  *)
(* of its operation and no more (data-access.service.ts:52-81 and          *)
(* 251-260).                                                               *)
(***************************************************************************)
THEOREM TypeCorrect == Spec => []TypeOK
BY DescInit, DescStep, TypeImplied, PTL DEF Spec

-----------------------------------------------------------------------------
(***************************************************************************)
(* Tables that are missed. EmptyOnlyWhenDropped is about answers: MissInv  *)
(* says of a request at work that once it is past ensureTableExists there  *)
(* was an instant when the table existed.                                  *)
(***************************************************************************)

Exists(i) == request.table \in DOMAIN window[i]

MissInv ==
    /\ request.pc = "working" /\ request.kind \in {"info", "schema"} /\ Len(request.read) >= 1
         => \E i \in DOMAIN window : Exists(i)
    /\ request.status = "notFound" => \E i \in DOMAIN window : ~ Exists(i)
    /\ request.status = "null" => \E i, j \in DOMAIN window : i < j /\ Exists(i) /\ ~ Exists(j)

(***************************************************************************)
(* What the two statements return that find a table.                       *)
(***************************************************************************)
LEMMA ResultOfExists ==
    ASSUME NEW c, NEW t
    PROVE  /\ Result("exists", c, t) = (t \in DOMAIN c)
           /\ Result("table", c, t) = (t \in DOMAIN c)
BY DEF Result

(***************************************************************************)
(* MissInv is about the window and the request.                            *)
(***************************************************************************)
LEMMA MissKept ==
    ASSUME MissInv, UNCHANGED vars
    PROVE  MissInv'
BY DEF MissInv, Exists, vars

(***************************************************************************)
(* Every step keeps MissInv.                                               *)
(***************************************************************************)
LEMMA MissStep == DescInv /\ MissInv /\ [Next]_vars => MissInv'
<1> SUFFICES ASSUME DescInv, MissInv, [Next]_vars PROVE MissInv'
  OBVIOUS
<1>1. CASE RequestArrives
  <2>1. request'.pc = "working" /\ request'.read = <<>> /\ request'.status = "none"
    BY <1>1 DEF RequestArrives, Idle
  <2> QED
    BY <2>1, EmptySequence DEF MissInv
<1>2. CASE StatementSucceeds
  <2>1. PICK n, x, next :
                /\ n \in 1..Len(Statements[request.kind])
                /\ n = Len(request.read) + 1
                /\ next = Statements[request.kind][n]
                /\ x = Result(next, Catalogue, request.table)
                /\ \/ /\ next = "exists" /\ ~x
                      /\ request' = Answered(Append(request.read, x), "notFound")
                   \/ /\ next = "table" /\ ~x
                      /\ request' = Answered(Append(request.read, x), "null")
                   \/ request' = Answered(Append(request.read, x), "ok")
                   \/ /\ ~(next = "exists" /\ ~x) /\ ~(next = "table" /\ ~x)
                      /\ Tail(request.statements) # <<>>
                      /\ request' = [request EXCEPT !.statements = Tail(@),
                                                    !.read = Append(request.read, x)]
    BY <1>2, SuccessStep
  <2>2. /\ request.pc = "working" /\ request.kind \in Kinds /\ window' = window
        /\ RequestOK(request) /\ WindowOK
    BY <1>2, SuccessStep DEF DescInv
  <2>3. PICK last \in DOMAIN window :
          /\ last = Len(window) /\ Catalogue = window[last]
          /\ DOMAIN window = 1..last /\ last \in Nat
    BY <2>2, LastCatalogue
  <2>4. next \in {"exists", "table"} => (x <=> Exists(last))
    BY <2>1, <2>3, ResultOfExists DEF Exists
  <2>5. Len(request.read) \in Nat
    BY <2>2, AppendSequence DEF RequestOK
  <2>6. CASE next = "exists" /\ ~x /\ request' = Answered(Append(request.read, x), "notFound")
    <3>1. request'.pc = "answered" /\ request'.table = request.table
            /\ request'.status = "notFound"
      BY <2>2, <2>6, AnsweredParts
    <3>2. ~ Exists(last)
      BY <2>4, <2>6
    <3>3. last \in DOMAIN window' /\ ~ Exists(last)'
      BY <2>2, <3>1, <3>2 DEF Exists
    <3> QED
      BY <3>1, <3>3 DEF MissInv
  <2>7. CASE next = "table" /\ ~x /\ request' = Answered(Append(request.read, x), "null")
    <3>1. request'.pc = "answered" /\ request'.table = request.table
            /\ request'.status = "null"
      BY <2>2, <2>7, AnsweredParts
    <3>2. ~ Exists(last)
      BY <2>4, <2>7
    <3>3. n = 2 /\ request.kind = "schema"
      BY <2>1, <2>2, <2>7, WhereTableIsMissed
    <3>4. Len(request.read) >= 1
      BY <2>1, <2>5, <3>3
    <3>5. PICK i \in DOMAIN window : Exists(i)
      BY <2>2, <3>3, <3>4 DEF MissInv
    <3>6. i < last
      <4>1. i # last
        BY <3>2, <3>5
      <4> QED
        BY <2>3, <4>1
    <3>7. /\ i \in DOMAIN window' /\ last \in DOMAIN window'
          /\ Exists(i)' /\ ~ Exists(last)'
      BY <2>2, <3>1, <3>2, <3>5 DEF Exists
    <3> QED
      BY <3>1, <3>6, <3>7 DEF MissInv
  <2>8. CASE request' = Answered(Append(request.read, x), "ok")
    <3>1. request'.pc = "answered" /\ request'.status = "ok"
      BY <2>2, <2>8, AnsweredParts
    <3> QED
      BY <3>1 DEF MissInv
  <2>9. CASE /\ ~(next = "exists" /\ ~x)
             /\ request' = [request EXCEPT !.statements = Tail(@),
                                           !.read = Append(request.read, x)]
    <3>1. /\ request'.kind = request.kind /\ request'.table = request.table
          /\ request'.status = request.status /\ request'.pc = "working"
      BY <2>2, <2>9, RequestContinues
    <3>2. request.status = "none"
      BY <2>2 DEF RequestOK
    <3>3. ASSUME request.kind \in {"info", "schema"}
          PROVE  \E i \in DOMAIN window : Exists(i)
      <4>1. CASE n = 1
        <5>1. next = "exists"
          BY <2>1, <3>3, <4>1, SchemaFirst
        <5>2. Exists(last)
          BY <2>4, <2>9, <5>1
        <5> QED
          BY <5>2
      <4>2. CASE n # 1
        <5>1. Len(request.read) >= 1
          BY <2>1, <2>5, <4>2
        <5> QED
          BY <2>2, <3>3, <5>1 DEF MissInv
      <4> QED
        BY <4>1, <4>2
    <3>4. ASSUME request'.kind \in {"info", "schema"}
          PROVE  \E i \in DOMAIN window' : Exists(i)'
      <4>1. PICK i \in DOMAIN window : Exists(i)
        BY <3>1, <3>3, <3>4
      <4> QED
        BY <2>2, <3>1, <4>1 DEF Exists
    <3> QED
      BY <3>1, <3>2, <3>4 DEF MissInv
  <2> QED
    BY <2>1, <2>6, <2>7, <2>8, <2>9
<1>3. CASE StatementFails
  <2>1. request' = Answered(request.read, "error") /\ RequestOK(request)
    BY <1>3 DEF StatementFails, DescInv
  <2>2. request'.pc = "answered" /\ request'.status = "error"
    BY <2>1, AnsweredParts
  <2> QED
    BY <2>2 DEF MissInv
<1>4. CASE Respond
  <2>1. request'.pc = "idle" /\ request'.status = "none"
    BY <1>4, IdleOK DEF Respond
  <2> QED
    BY <2>1 DEF MissInv
<1>5. CASE ChangeTables
  <2>1. /\ request' = request /\ request.pc = "working"
        /\ DOMAIN window \subseteq DOMAIN window'
        /\ \A i \in DOMAIN window : window'[i] = window[i]
    BY <1>5, ChangeStep DEF DescInv
  <2>2. request.status = "none"
    BY <2>1 DEF DescInv, RequestOK
  <2>3. \A i \in DOMAIN window : Exists(i) => i \in DOMAIN window' /\ Exists(i)'
    BY <2>1 DEF Exists
  <2> QED
    BY <2>1, <2>2, <2>3 DEF MissInv
<1>6. CASE UNCHANGED vars
  BY <1>6, MissKept
<1> QED
  BY <1>1, <1>2, <1>3, <1>4, <1>5, <1>6 DEF Next

(***************************************************************************)
(* MissInv holds in the beginning.                                         *)
(***************************************************************************)
LEMMA MissInit == Init => MissInv
BY IdleOK DEF Init, MissInv

(***************************************************************************)
(* A table is not found only if it was missing at some time during the     *)
(* request, and a description is empty only if the table was dropped while *)
(* it was being described (EmptyOnlyWhenDropped), whatever happens to the  *)
(* tables in between (data-access.service.ts:52-81, postgres-              *)
(* database.ts:362-364).                                                   *)
(***************************************************************************)
THEOREM EmptyWhenDropped == Spec => []EmptyOnlyWhenDropped
<1>1. MissInv => EmptyOnlyWhenDropped
  BY DEF MissInv, EmptyOnlyWhenDropped, Exists
<1> QED
  BY <1>1, DescInit, DescStep, MissInit, MissStep, PTL DEF Spec

-----------------------------------------------------------------------------
(***************************************************************************)
(* Sections in order: what DescriptionObserved says of the interleaving of *)
(* a request with changes of the tables, apart from what each statement    *)
(* makes of the catalogue that it sees.                                    *)
(***************************************************************************)

(***************************************************************************)
(* What a statement returns depends on the dialect and the catalogue.      *)
(***************************************************************************)
LEMMA ResultKept ==
    ASSUME dialect' = dialect, NEW statement, NEW c, NEW t
    PROVE  Result(statement, c, t)' = Result(statement, c, t)
<1>1. \A name : Entries(name)' = Entries(name)
  BY DEF Entries, Part
<1>2. \A names : Aggregate(names)' = Aggregate(names)
  BY <1>1 DEF Aggregate
<1>3. \A k, group : ConstraintOf(k, group)' = ConstraintOf(k, group)
  BY <1>2 DEF ConstraintOf
<1>4. \A e, k, u, r : UsedColumns(e, k, u, r)' = UsedColumns(e, k, u, r)
  BY DEF UsedColumns
<1>10. \A e, k : References(e, k)' = References(e, k)
  BY DEF References
<1>5. ASSUME NEW e, NEW s, NEW k
      PROVE  ConstraintRows(e, s, k)' = ConstraintRows(e, s, k)
  <2> DEFINE U == LeftJoined({ u \in KeyColumnUsage(e) : u.name = k.name /\ u.table = s })
             R == References(e, k)
             Row(u, r, g) == [position |-> u.position, column |-> u.column, rule |-> r.rule,
                              table |-> g.table, refColumn |-> g.column, of |-> r.table]
  <2>1. ConstraintRows(e, s, k)
          = UNION { UNION { { Row(u, r, g) : g \in UsedColumns(e, k, u, r) } : r \in R } :
                    u \in U }
    BY DEF ConstraintRows
  <2>2. ConstraintRows(e, s, k)'
          = UNION { UNION { { Row(u, r, g) : g \in UsedColumns(e, k, u, r)' } : r \in R' } :
                    u \in U }
    BY DEF ConstraintRows
  <2>4. R' = R
    BY <1>10
  <2> HIDE DEF U, R, Row
  <2>3. \A u, r : UsedColumns(e, k, u, r)' = UsedColumns(e, k, u, r)
    BY <1>4
  <2> QED
    BY <2>1, <2>2, <2>3, <2>4
<1>6. \A rows : Groups(rows)' = Groups(rows)
  BY DEF Groups
<1>7. \A e, s : DescribedConstraints(e, s)' = DescribedConstraints(e, s)
  BY <1>3, <1>5, <1>6 DEF DescribedConstraints
<1>8. \A i : IndexColumns(i)' = IndexColumns(i) /\ IndexPredicate(i)' = IndexPredicate(i)
  BY <1>2 DEF IndexColumns, IndexPredicate
<1>11. \A i : IsListed(i)' = IsListed(i)
  BY DEF IsListed
<1>9. \A e, s : DescribedIndexes(e, s)' = DescribedIndexes(e, s)
  BY <1>8, <1>11 DEF DescribedIndexes
<1> QED
  BY <1>7, <1>9 DEF Result

\* Each section is what its statement returned at an instant of the request, in order.
ReadAt(at) ==
    /\ \A i, j \in DOMAIN at : i <= j => at[i] <= at[j]
    /\ \A i \in DOMAIN at :
         request.read[i] = Result(Statements[request.kind][i], window[at[i]], request.table)

ReadsInOrder == \E at \in [DOMAIN request.read -> DOMAIN window] : ReadAt(at)

(***************************************************************************)
(* Nothing was read, in order.                                             *)
(***************************************************************************)
LEMMA NothingRead ==
    ASSUME request.read = <<>>
    PROVE  ReadsInOrder
<1>1. PICK at : at = [i \in {} |-> 1]
  OBVIOUS
<1>2. at \in [{} -> DOMAIN window] /\ DOMAIN at = {}
  BY <1>1
<1>3. ReadAt(at)
  BY <1>2, EmptySequence DEF ReadAt
<1> QED
  BY <1>2, <1>3, EmptySequence DEF ReadsInOrder

(***************************************************************************)
(* The same of the next state.                                             *)
(***************************************************************************)
LEMMA NothingReadNext ==
    ASSUME request'.read = <<>>
    PROVE  ReadsInOrder'
<1>1. PICK at : at = [i \in {} |-> 1]
  OBVIOUS
<1>2. at \in [{} -> DOMAIN window'] /\ DOMAIN at = {}
  BY <1>1
<1>3. ReadAt(at)'
  BY <1>2, EmptySequence DEF ReadAt
<1> QED
  BY <1>2, <1>3, EmptySequence DEF ReadsInOrder

(***************************************************************************)
(* The sections stay what they are as long as the window only grows.       *)
(***************************************************************************)
LEMMA ReadKept ==
    ASSUME ReadsInOrder, dialect' = dialect, request'.read = request.read,
           request'.kind = request.kind, request'.table = request.table,
           DOMAIN window \subseteq DOMAIN window',
           \A i \in DOMAIN window : window'[i] = window[i]
    PROVE  ReadsInOrder'
<1>1. PICK at \in [DOMAIN request.read -> DOMAIN window] : ReadAt(at)
  BY DEF ReadsInOrder
<1>2. at \in [DOMAIN request.read -> DOMAIN window'] /\ DOMAIN at = DOMAIN request.read
  OBVIOUS
<1>3. ASSUME NEW i \in DOMAIN at
      PROVE  request'.read[i]
               = Result(Statements[request.kind][i], window[at[i]], request.table)'
  <2>1. PICK c, t, s : c = window[at[i]] /\ t = request.table /\ s = Statements[request.kind][i]
    OBVIOUS
  <2>2. window'[at[i]] = c /\ request'.table = t /\ Statements[request'.kind][i] = s
    BY <1>1, <2>1 DEF ReadAt
  <2>3. request.read[i] = Result(s, c, t)
    BY <1>1, <2>1 DEF ReadAt
  <2>4. Result(s, c, t)' = Result(s, c, t)
    BY ResultKept
  <2> QED
    BY <2>2, <2>3, <2>4
<1>4. ReadAt(at)'
  BY <1>1, <1>2, <1>3 DEF ReadAt
<1> QED
  BY <1>2, <1>4 DEF ReadsInOrder

(***************************************************************************)
(* Every step keeps ReadsInOrder.                                          *)
(***************************************************************************)
LEMMA ReadStep == DescInv /\ ReadsInOrder /\ [Next]_vars => ReadsInOrder'
<1> SUFFICES ASSUME DescInv, ReadsInOrder, [Next]_vars PROVE ReadsInOrder'
  OBVIOUS
<1>1. CASE RequestArrives \/ Respond
  <2>1. request'.read = <<>>
    BY <1>1, IdleOK DEF RequestArrives, Respond, Idle
  <2> QED
    BY <2>1, NothingReadNext
<1>2. CASE StatementSucceeds
  <2>1. PICK n, x, next :
           /\ n \in 1..Len(Statements[request.kind])
           /\ n = Len(request.read) + 1
           /\ next = Statements[request.kind][n]
           /\ x = Result(next, Catalogue, request.table)
           /\ \/ \E status : request' = Answered(Append(request.read, x), status)
              \/ request' = [request EXCEPT !.statements = Tail(@),
                                            !.read = Append(request.read, x)]
    BY <1>2, SuccessStep
  <2>2. RequestOK(request) /\ WindowOK /\ dialect' = dialect /\ window' = window
    BY <1>2, SuccessStep DEF DescInv
  <2>3. /\ request'.read = Append(request.read, x) /\ request'.kind = request.kind
        /\ request'.table = request.table
    <3>1. CASE \E status : request' = Answered(Append(request.read, x), status)
      <4>1. PICK status : request' = Answered(Append(request.read, x), status)
        BY <3>1
      <4>2. PICK read : read = Append(request.read, x)
        OBVIOUS
      <4>3. /\ Answered(read, status).read = read
            /\ Answered(read, status).kind = request.kind
            /\ Answered(read, status).table = request.table
        BY <2>2, AnsweredParts
      <4> QED
        BY <4>1, <4>2, <4>3
    <3>2. CASE request' = [request EXCEPT !.statements = Tail(@),
                                          !.read = Append(request.read, x)]
      BY <2>2, <3>2, RequestContinues
    <3> QED
      BY <2>1, <3>1, <3>2
  <2>4. /\ DOMAIN request.read = 1..Len(request.read) /\ Len(request.read) \in Nat
        /\ DOMAIN request'.read = 1..n
        /\ \A i \in 1..Len(request.read) : request'.read[i] = request.read[i]
        /\ request'.read[n] = x
    BY <2>1, <2>2, <2>3, AppendSequence DEF RequestOK
  <2>5. PICK at \in [DOMAIN request.read -> DOMAIN window] : ReadAt(at)
    BY DEF ReadsInOrder
  <2>6. PICK last \in Nat : last = Len(window) /\ Catalogue = window[last]
          /\ DOMAIN window = 1..last /\ last \in DOMAIN window
    BY <2>2, LastCatalogue
  <2>7. PICK now : now = [i \in 1..n |-> IF i = n THEN last ELSE at[i]]
    OBVIOUS
  <2>8. \A i \in 1..n : i # n => i \in DOMAIN request.read
    BY <2>1, <2>4
  <2>9. now \in [1..n -> DOMAIN window] /\ DOMAIN now = 1..n
    BY <2>6, <2>7, <2>8
  <2>10. ASSUME NEW i \in 1..n, NEW j \in 1..n, i <= j
         PROVE  now[i] <= now[j]
    <3>1. now[i] \in 1..last
      BY <2>6, <2>9
    <3>2. CASE j = n
      BY <2>7, <3>1, <3>2
    <3>3. CASE j # n
      <4>1. i # n
        BY <2>10, <3>3
      <4>2. i \in DOMAIN at /\ j \in DOMAIN at /\ now[i] = at[i] /\ now[j] = at[j]
        BY <2>7, <2>8, <3>3, <4>1
      <4> QED
        BY <2>5, <2>10, <4>2 DEF ReadAt
    <3> QED
      BY <3>2, <3>3
  <2>11. ASSUME NEW i \in 1..n
         PROVE  request'.read[i]
                  = Result(Statements[request.kind][i], window[now[i]], request.table)'
    <3>1. PICK c, t, s : c = window[now[i]] /\ t = request.table /\ s = Statements[request.kind][i]
      OBVIOUS
    <3>2. request'.read[i] = Result(s, c, t)
      <4>1. CASE i = n
        BY <2>1, <2>4, <2>6, <2>7, <3>1, <4>1
      <4>2. CASE i # n
        <5>1. i \in DOMAIN at /\ now[i] = at[i] /\ i \in 1..Len(request.read)
          BY <2>4, <2>7, <2>8, <4>2
        <5> QED
          BY <2>4, <2>5, <3>1, <5>1 DEF ReadAt
      <4> QED
        BY <4>1, <4>2
    <3>3. Result(s, c, t)' = Result(s, c, t)
      BY <2>2, ResultKept
    <3> QED
      BY <2>2, <2>3, <3>1, <3>2, <3>3
  <2>12. ReadAt(now)'
    BY <2>9, <2>10, <2>11 DEF ReadAt
  <2> QED
    BY <2>2, <2>4, <2>9, <2>12 DEF ReadsInOrder
<1>3. CASE StatementFails
  <2>1. /\ request' = Answered(request.read, "error") /\ RequestOK(request)
        /\ dialect' = dialect /\ window' = window
    BY <1>3 DEF StatementFails, DescInv
  <2>2. /\ request'.read = request.read /\ request'.kind = request.kind
        /\ request'.table = request.table
    BY <2>1, AnsweredParts
  <2> QED
    BY <2>1, <2>2, ReadKept
<1>4. CASE ChangeTables
  BY <1>4, ChangeStep, ReadKept DEF DescInv
<1>5. CASE UNCHANGED vars
  BY <1>5, ReadKept DEF vars
<1> QED
  BY <1>1, <1>2, <1>3, <1>4, <1>5 DEF Next

(***************************************************************************)
(* ReadsInOrder holds in the beginning.                                    *)
(***************************************************************************)
LEMMA ReadInit == Init => ReadsInOrder
BY NothingRead, IdleOK DEF Init

(***************************************************************************)
(* Each section of an answer is what its statement returns at one instant  *)
(* since the request arrived, and the instants are in the order of the     *)
(* statements (ReadsInOrder), for any catalogues and any number of         *)
(* changes: an adapter reads a description in several statements outside   *)
(* of a transaction (postgres-database.ts:341-538).                        *)
(***************************************************************************)
THEOREM SectionsInOrder == Spec => []ReadsInOrder
BY DescInit, DescStep, ReadInit, ReadStep, PTL DEF Spec

-----------------------------------------------------------------------------
(***************************************************************************)
(* Sorted rows. What ORDER BY returns is chosen, and what is proved of it  *)
(* is that the choice can be made; the proofs count up in a set of         *)
(* numbers, since the induction theorems of the library take an operator.  *)
(***************************************************************************)

(***************************************************************************)
(* A set of numbers has a smallest member.                                 *)
(***************************************************************************)
LEMMA SmallestNumber ==
    ASSUME NEW T, T \subseteq Nat, T # {}
    PROVE  \E m \in T : \A n \in T : m <= n
<1>1. PICK x \in T : \A y \in T : ~(<<y, x>> \in OpToRel(<, Nat))
  BY NatLessThanWellFounded, WFMin
<1>2. \A y \in T : ~(y < x)
  BY <1>1 DEF OpToRel
<1> QED
  BY <1>2

(***************************************************************************)
(* A set with 0, and with the successor of each number that it has, has    *)
(* every number: induction, over a set instead of an operator.             *)
(***************************************************************************)
LEMMA CountingUp ==
    ASSUME NEW S, 0 \in S, \A n \in Nat : n \in S => n + 1 \in S
    PROVE  \A n \in Nat : n \in S
<1> SUFFICES ASSUME NEW n \in Nat, n \notin S PROVE FALSE
  OBVIOUS
<1>1. PICK T : T = { m \in Nat : m \notin S }
  OBVIOUS
<1>2. PICK m \in T : \A k \in T : m <= k
  BY <1>1, SmallestNumber
<1>3. m \in Nat \ {0} /\ m - 1 \in Nat /\ m - 1 \notin T
  BY <1>1, <1>2
<1>4. m - 1 \in S /\ m = (m - 1) + 1
  BY <1>1, <1>3
<1> QED
  BY <1>1, <1>3, <1>4

\* s has the n rows of S, each once, in the order of their positions.
InPositionOrder(s, rows, n) ==
    /\ s \in [1..n -> rows]
    /\ \A i, j \in 1..n : i # j => s[i] # s[j]
    /\ \A i, j \in 1..n : i < j => s[i].position <= s[j].position

(***************************************************************************)
(* Finitely many rows can be sorted by their positions.                    *)
(***************************************************************************)
LEMMA SortedExists ==
    ASSUME NEW rows, IsFiniteSet(rows), \A x \in rows : x.position \in Nat
    PROVE  \E s : InPositionOrder(s, rows, Cardinality(rows))
<1>1. PICK S : S = { n \in Nat : \A T \in SUBSET rows :
                        Cardinality(T) = n => \E s : InPositionOrder(s, T, n) }
  OBVIOUS
<1>2. 0 \in S
  <2> SUFFICES ASSUME NEW T \in SUBSET rows, Cardinality(T) = 0
               PROVE  \E s : InPositionOrder(s, T, 0)
    BY <1>1
  <2>1. PICK s : s = [i \in 1..0 |-> i]
    OBVIOUS
  <2>2. s \in [1..0 -> T] /\ 1..0 = {}
    BY <2>1
  <2>3. \A i, j \in 1..0 : s[i] # s[j] /\ s[i].position <= s[j].position
    BY <2>2
  <2> QED
    BY ONLY <2>2, <2>3 DEF InPositionOrder
<1>3. \A n \in Nat : n \in S => n + 1 \in S
  <2> SUFFICES ASSUME NEW n \in Nat, n \in S, NEW T \in SUBSET rows, Cardinality(T) = n + 1
               PROVE  \E s : InPositionOrder(s, T, n + 1)
    BY <1>1
  <2>1. IsFiniteSet(T) /\ T # {}
    BY FS_Subset, FS_EmptySet
  <2>2. PICK x \in T : \A y \in T : x.position <= y.position
    <3>1. PICK P : P = { y.position : y \in T }
      OBVIOUS
    <3>2. P \subseteq Nat /\ P # {}
      BY <2>1, <3>1
    <3>3. PICK m \in P : \A p \in P : m <= p
      BY <3>2, SmallestNumber
    <3> QED
      BY <3>1, <3>3
  <2>3. PICK R : R = T \ {x}
    OBVIOUS
  <2>4. R \in SUBSET rows /\ Cardinality(R) = n /\ R \subseteq T /\ x \notin R
    <3>1. Cardinality(T \ {x}) = (n + 1) - 1
      BY <2>1, <2>2, FS_RemoveElement
    <3> QED
      BY <2>3, <3>1
  <2>5. PICK r : InPositionOrder(r, R, n)
    BY <1>1, <2>4
  <2>6. /\ \A i \in 1..n : r[i] \in R
        /\ \A i, j \in 1..n : i # j => r[i] # r[j]
        /\ \A i, j \in 1..n : i < j => r[i].position <= r[j].position
    BY <2>5 DEF InPositionOrder
  <2>7. PICK s : s = [i \in 1..(n + 1) |-> IF i = 1 THEN x ELSE r[i - 1]]
    OBVIOUS
  <2>8. s[1] = x /\ \A i \in 2..(n + 1) : s[i] = r[i - 1] /\ i - 1 \in 1..n
    BY <2>7
  <2>9. s \in [1..(n + 1) -> T]
    BY <2>4, <2>6, <2>7
  <2>10. ASSUME NEW i \in 1..(n + 1), NEW j \in 1..(n + 1), i # j
         PROVE  s[i] # s[j]
    <3>1. CASE i = 1
      BY <2>4, <2>6, <2>8, <2>10, <3>1
    <3>2. CASE j = 1
      BY <2>4, <2>6, <2>8, <2>10, <3>2
    <3>3. CASE i # 1 /\ j # 1
      BY <2>6, <2>8, <2>10, <3>3
    <3> QED
      BY <3>1, <3>2, <3>3
  <2>11. ASSUME NEW i \in 1..(n + 1), NEW j \in 1..(n + 1), i < j
         PROVE  s[i].position <= s[j].position
    <3>1. CASE i = 1
      BY <2>2, <2>4, <2>6, <2>8, <2>11, <3>1
    <3>2. CASE i # 1
      BY <2>6, <2>8, <2>11, <3>2
    <3> QED
      BY <3>1, <3>2
  <2> QED
    BY <2>9, <2>10, <2>11 DEF InPositionOrder
<1>4. \A n \in Nat : n \in S
  BY <1>2, <1>3, CountingUp
<1> QED
  BY <1>1, <1>4, FS_CardinalityType

(***************************************************************************)
(* So ORDER BY returns each row once, in the order of the positions.       *)
(***************************************************************************)
LEMMA ByPositionSorted ==
    ASSUME NEW rows, IsFiniteSet(rows), \A x \in rows : x.position \in Nat
    PROVE  /\ InPositionOrder(ByPosition(rows), rows, Cardinality(rows))
           /\ Cardinality(rows) \in Nat
           /\ \A x \in rows : \E i \in 1..Cardinality(rows) : ByPosition(rows)[i] = x
<1>1. PICK n \in Nat : n = Cardinality(rows)
  BY FS_CardinalityType
<1>2. \A s : InPositionOrder(s, rows, n) <=>
               /\ s \in SetToSeqs(rows)
               /\ \A i, j \in DOMAIN s : i < j => s[i].position <= s[j].position
  BY <1>1 DEF InPositionOrder, SetToSeqs
<1>3. PICK s : InPositionOrder(s, rows, n)
  BY <1>1, SortedExists
<1>4. InPositionOrder(ByPosition(rows), rows, n)
  BY <1>2, <1>3 DEF ByPosition
<1>5. PICK b : b = ByPosition(rows)
  OBVIOUS
<1>6. b \in [1..n -> rows] /\ \A i, j \in 1..n : i # j => b[i] # b[j]
  BY <1>4, <1>5 DEF InPositionOrder
<1>7. PICK T : T = { b[i] : i \in 1..n }
  OBVIOUS
<1>8. b \in Bijection(1..n, T)
  BY <1>6, <1>7 DEF Bijection, Injection, Surjection, IsInjective
<1>9. IsFiniteSet(1..n) /\ Cardinality(1..n) = n
  BY FS_Interval
<1>10. Cardinality(T) = n
  <2>1. ExistsBijection(1..n, T)
    BY <1>8 DEF ExistsBijection
  <2> QED
    BY <1>9, <2>1, FS_Bijection
<1>11. T = rows
  <2>1. T \in SUBSET rows
    BY <1>6, <1>7
  <2> QED
    BY <1>1, <1>10, <2>1, FS_Subset
<1> QED
  BY <1>1, <1>4, <1>5, <1>7, <1>11

(***************************************************************************)
(* Where the positions are those of the rows, there is one order only.     *)
(***************************************************************************)
LEMMA ByPositionOrder ==
    ASSUME NEW n \in Nat, NEW f, f = [i \in 1..n |-> f[i]],
           \A i \in 1..n : f[i].position = i,
           NEW rows, rows = { f[i] : i \in 1..n }
    PROVE  ByPosition(rows) = f
<1>1. \A i, j \in 1..n : i # j => f[i] # f[j]
  OBVIOUS
<1>2. IsFiniteSet(rows) /\ Cardinality(rows) = n
  <2>1. f \in [1..n -> rows]
    OBVIOUS
  <2>2. f \in Bijection(1..n, rows)
    BY <1>1, <2>1 DEF Bijection, Injection, Surjection, IsInjective
  <2>3. ExistsBijection(1..n, rows)
    BY <2>2 DEF ExistsBijection
  <2>4. IsFiniteSet(1..n) /\ Cardinality(1..n) = n
    BY FS_Interval
  <2> QED
    BY <2>3, <2>4, FS_Bijection
<1>3. \A x \in rows : x.position \in 1..n /\ x = f[x.position]
  OBVIOUS
<1>4. PICK b : b = ByPosition(rows)
  OBVIOUS
<1>5. /\ b \in [1..n -> rows]
      /\ \A i, j \in 1..n : i # j => b[i] # b[j]
      /\ \A i, j \in 1..n : i < j => b[i].position <= b[j].position
  <2>1. InPositionOrder(b, rows, n)
    BY <1>2, <1>3, <1>4, ByPositionSorted
  <2> QED
    BY <2>1 DEF InPositionOrder
<1>6. PICK p : p = [i \in 1..n |-> b[i].position]
  OBVIOUS
<1>7. /\ \A i \in 1..n : p[i] \in 1..n /\ b[i] = f[p[i]]
      /\ \A i, j \in 1..n : i < j => p[i] < p[j]
  <2>1. \A i \in 1..n : p[i] \in 1..n /\ b[i] = f[p[i]]
    BY <1>3, <1>5, <1>6
  <2>2. ASSUME NEW i \in 1..n, NEW j \in 1..n, i < j PROVE p[i] < p[j]
    <3>1. p[i] <= p[j] /\ b[i] # b[j]
      <4>1. i # j
        BY ONLY <2>2, n \in Nat, i \in 1..n, j \in 1..n
      <4>2. b[i].position <= b[j].position /\ b[i] # b[j]
        BY ONLY <1>5, <2>2, <4>1, i \in 1..n, j \in 1..n
      <4>3. p[i] = b[i].position /\ p[j] = b[j].position
        BY ONLY <1>6, i \in 1..n, j \in 1..n
      <4> QED
        BY <4>2, <4>3
    <3>2. p[i] # p[j]
      BY <2>1, <3>1
    <3>3. p[i] \in Nat /\ p[j] \in Nat
      BY ONLY <2>1, i \in 1..n, j \in 1..n, n \in Nat
    <3> QED
      BY ONLY <3>1, <3>2, <3>3
  <2> QED
    BY <2>1, <2>2
<1>8. \A i \in 1..n : p[i] >= i
  <2>1. PICK S : S = { i \in Nat : i + 1 \in 1..n => p[i + 1] >= i + 1 }
    OBVIOUS
  <2>2. 0 \in S
    BY <1>7, <2>1
  <2>3. \A i \in Nat : i \in S => i + 1 \in S
    <3> SUFFICES ASSUME NEW i \in Nat, i \in S, (i + 1) + 1 \in 1..n
                 PROVE  p[(i + 1) + 1] >= (i + 1) + 1
      BY <2>1
    <3>1. i + 1 \in 1..n /\ i + 1 < (i + 1) + 1
      OBVIOUS
    <3>2. p[i + 1] >= i + 1 /\ p[i + 1] < p[(i + 1) + 1]
      BY <1>7, <2>1, <3>1
    <3>3. p[i + 1] \in 1..n /\ p[(i + 1) + 1] \in 1..n
      BY <1>7, <3>1
    <3> QED
      BY <3>2, <3>3
  <2>4. \A i \in Nat : i \in S
    BY <2>2, <2>3, CountingUp
  <2> SUFFICES ASSUME NEW i \in 1..n PROVE p[i] >= i
    OBVIOUS
  <2>5. i - 1 \in S /\ (i - 1) + 1 = i
    BY <2>4
  <2> QED
    BY <2>1, <2>5
<1>9. \A i \in 1..n : p[i] <= i
  <2>1. PICK S : S = { i \in Nat : n - i \in 1..n => p[n - i] <= n - i }
    OBVIOUS
  <2>2. 0 \in S
    <3>1. n - 0 = n
      OBVIOUS
    <3> QED
      BY <1>7, <2>1, <3>1
  <2>3. \A i \in Nat : i \in S => i + 1 \in S
    <3> SUFFICES ASSUME NEW i \in Nat, i \in S, n - (i + 1) \in 1..n
                 PROVE  p[n - (i + 1)] <= n - (i + 1)
      BY <2>1
    <3>1. n - i \in 1..n /\ n - (i + 1) < n - i
      OBVIOUS
    <3>2. p[n - i] <= n - i /\ p[n - (i + 1)] < p[n - i]
      BY <1>7, <2>1, <3>1
    <3>3. p[n - i] \in 1..n /\ p[n - (i + 1)] \in 1..n
      BY <1>7, <3>1
    <3> QED
      BY <3>2, <3>3
  <2>4. \A i \in Nat : i \in S
    BY <2>2, <2>3, CountingUp
  <2> SUFFICES ASSUME NEW i \in 1..n PROVE p[i] <= i
    OBVIOUS
  <2>5. n - i \in S /\ n - (n - i) = i
    BY <2>4
  <2> QED
    BY <2>1, <2>5
<1>10. \A i \in 1..n : b[i] = f[i]
  <2> SUFFICES ASSUME NEW i \in 1..n PROVE b[i] = f[i]
    OBVIOUS
  <2>1. p[i] \in 1..n /\ p[i] >= i /\ p[i] <= i
    BY <1>7, <1>8, <1>9
  <2>2. p[i] = i
    BY <2>1
  <2> QED
    BY <1>7, <2>2
<1> QED
  BY <1>4, <1>5, <1>10

-----------------------------------------------------------------------------
(***************************************************************************)
(* Concatenated sequences, of which FlattenSeq is defined by recursion.    *)
(***************************************************************************)

\* f[i] is the concatenation of the first i of n sequences.
IsFlattening(f, ss, n) ==
    f = [i \in 1..n |-> IF i = 1 THEN ss[i] ELSE f[i - 1] \o ss[i]]

(***************************************************************************)
(* A concatenation of n sequences is extended by the next one.             *)
(***************************************************************************)
LEMMA FlatteningExtends ==
    ASSUME NEW ss, NEW n \in Nat, NEW f, IsFlattening(f, ss, n)
    PROVE  \E g : IsFlattening(g, ss, n + 1)
<1>1. PICK g : g = [i \in 1..(n + 1) |->
                      IF i <= n THEN f[i]
                      ELSE IF i = 1 THEN ss[i] ELSE f[i - 1] \o ss[i]]
  OBVIOUS
<1>2. \A i \in 1..n : f[i] = IF i = 1 THEN ss[i] ELSE f[i - 1] \o ss[i]
  BY DEF IsFlattening
<1>3. \A i \in 1..(n + 1) : g[i] = IF i = 1 THEN ss[i] ELSE g[i - 1] \o ss[i]
  <2> TAKE i \in 1..(n + 1)
  <2>1. CASE i <= n
    <3>1. g[i] = f[i] /\ i \in 1..n /\ (i # 1 => g[i - 1] = f[i - 1])
      BY <1>1, <2>1
    <3> QED
      BY <1>2, <3>1
  <2>2. CASE i = n + 1
    <3>1. g[i] = IF i = 1 THEN ss[i] ELSE f[i - 1] \o ss[i]
      BY <1>1, <2>2
    <3>2. i # 1 => g[i - 1] = f[i - 1]
      BY <1>1, <2>2
    <3> QED
      BY <3>1, <3>2
  <2> QED
    BY <2>1, <2>2
<1>4. g = [i \in 1..(n + 1) |-> IF i = 1 THEN ss[i] ELSE g[i - 1] \o ss[i]]
  <2> DEFINE Longer(i) == IF i = 1 THEN ss[i] ELSE g[i - 1] \o ss[i]
  <2>1. g = [i \in 1..(n + 1) |-> g[i]]
    BY <1>1
  <2>2. \A i \in 1..(n + 1) : g[i] = Longer(i)
    BY <1>3
  <2> HIDE DEF Longer
  <2>3. g = [i \in 1..(n + 1) |-> Longer(i)]
    BY <2>1, <2>2
  <2> QED
    BY <2>3 DEF Longer
<1> QED
  BY <1>4 DEF IsFlattening

(***************************************************************************)
(* Sequences can be concatenated: the recursion of FlattenSeq defines a    *)
(* function.                                                               *)
(***************************************************************************)
LEMMA FlatteningExists ==
    ASSUME NEW ss, NEW n \in Nat
    PROVE  \E f : IsFlattening(f, ss, n)
<1>1. PICK S : S = { k \in Nat : \E f : IsFlattening(f, ss, k) }
  OBVIOUS
<1>2. 0 \in S
  <2>1. PICK f : f = [i \in 1..0 |-> <<>>]
    OBVIOUS
  <2>2. f = [i \in 1..0 |-> IF i = 1 THEN ss[i] ELSE f[i - 1] \o ss[i]]
    BY <2>1
  <2> QED
    BY <1>1, <2>2 DEF IsFlattening
<1>3. \A k \in Nat : k \in S => k + 1 \in S
  BY <1>1, FlatteningExtends
<1> QED
  BY <1>1, <1>2, <1>3, CountingUp

(***************************************************************************)
(* So FlattenSeq can be used by its recursion.                             *)
(***************************************************************************)
LEMMA FlattenRead ==
    ASSUME NEW ss, Len(ss) \in Nat \ {0}
    PROVE  \E f : /\ f[1] = ss[1]
                  /\ \A i \in 2..Len(ss) : f[i] = f[i - 1] \o ss[i]
                  /\ FlattenSeq(ss) = f[Len(ss)]
<1> DEFINE F == CHOOSE f : f = [i \in 1..Len(ss) |->
                      IF i = 1 THEN ss[i] ELSE f[i - 1] \o ss[i]]
<1>1. FlattenSeq(ss) = F[Len(ss)]
  BY DEF FlattenSeq
<1>2. IsFlattening(F, ss, Len(ss))
  BY FlatteningExists DEF IsFlattening
<1> HIDE DEF F
<1>3. \A i \in 1..Len(ss) : F[i] = IF i = 1 THEN ss[i] ELSE F[i - 1] \o ss[i]
  BY <1>2 DEF IsFlattening
<1>4. PICK n \in Nat \ {0} : n = Len(ss)
  OBVIOUS
<1>5. F[1] = ss[1] /\ \A i \in 2..n : F[i] = F[i - 1] \o ss[i]
  <2>1. \A i \in 1..n : F[i] = IF i = 1 THEN ss[i] ELSE F[i - 1] \o ss[i]
    BY <1>3, <1>4
  <2>2. 1 \in 1..n /\ \A i \in 2..n : i \in 1..n /\ i # 1
    OBVIOUS
  <2> QED
    BY <2>1, <2>2
<1> QED
  BY <1>1, <1>4, <1>5

(***************************************************************************)
(* The elements of a concatenation are those of its parts.                 *)
(***************************************************************************)
LEMMA ToSetConcat ==
    ASSUME NEW S, NEW s \in Seq(S), NEW t \in Seq(S)
    PROVE  s \o t \in Seq(S) /\ ToSet(s \o t) = ToSet(s) \cup ToSet(t)
<1>1. PICK m \in Nat, n \in Nat : m = Len(s) /\ n = Len(t)
  OBVIOUS
<1>2. PICK u : u = s \o t
  OBVIOUS
<1>3. /\ u \in Seq(S) /\ Len(u) = m + n
      /\ \A i \in 1..(m + n) : u[i] = IF i <= m THEN s[i] ELSE t[i - m]
  <2>1. /\ s \o t \in Seq(S) /\ Len(s \o t) = Len(s) + Len(t)
        /\ \A i \in 1..(Len(s) + Len(t)) :
             (s \o t)[i] = IF i <= Len(s) THEN s[i] ELSE t[i - Len(s)]
    BY ConcatProperties
  <2> QED
    BY <1>1, <1>2, <2>1
<1>4. DOMAIN s = 1..m /\ DOMAIN t = 1..n /\ DOMAIN u = 1..(m + n)
  BY <1>1, <1>3, LenProperties
<1>5. \A x : (\E i \in 1..(m + n) : u[i] = x)
               <=> (\E i \in 1..m : s[i] = x) \/ (\E i \in 1..n : t[i] = x)
  <2> TAKE x
  <2>1. ASSUME NEW i \in 1..m, s[i] = x PROVE \E j \in 1..(m + n) : u[j] = x
    <3>1. i \in 1..(m + n) /\ u[i] = s[i]
      BY <1>3
    <3> QED
      BY <2>1, <3>1
  <2>2. ASSUME NEW i \in 1..n, t[i] = x PROVE \E j \in 1..(m + n) : u[j] = x
    <3>1. m + i \in 1..(m + n) /\ u[m + i] = t[i]
      BY <1>3
    <3> QED
      BY <2>2, <3>1
  <2>3. ASSUME NEW i \in 1..(m + n), u[i] = x
        PROVE  (\E j \in 1..m : s[j] = x) \/ (\E j \in 1..n : t[j] = x)
    <3>1. CASE i <= m
      BY <1>3, <2>3, <3>1
    <3>2. CASE i > m
      <4>1. i - m \in 1..n /\ u[i] = t[i - m]
        BY <1>3, <3>2
      <4> QED
        BY <2>3, <4>1
    <3> QED
      BY <3>1, <3>2
  <2> QED
    BY <2>1, <2>2, <2>3
<1>6. ToSet(u) = ToSet(s) \cup ToSet(t)
  BY <1>4, <1>5 DEF ToSet
<1> QED
  BY <1>2, <1>3, <1>6

(***************************************************************************)
(* The elements of concatenated sequences are those of each of them.       *)
(***************************************************************************)
LEMMA FlattenParts ==
    ASSUME NEW S, NEW n \in Nat, NEW ss \in [1..n -> Seq(S)]
    PROVE  /\ FlattenSeq(ss) \in Seq(S)
           /\ ToSet(FlattenSeq(ss)) = UNION { ToSet(ss[i]) : i \in 1..n }
<1>1. ss \in Seq(Seq(S)) /\ Len(ss) = n
  BY SeqDef, LenProperties
<1>2. CASE n = 0
  <2>1. FlattenSeq(ss) = ss /\ ss = <<>>
    BY <1>1, <1>2 DEF FlattenSeq
  <2>2. <<>> \in Seq(S) /\ ToSet(<<>>) = {}
    BY DEF ToSet
  <2>3. UNION { ToSet(ss[i]) : i \in 1..n } = {}
    BY <1>2
  <2> QED
    BY <2>1, <2>2, <2>3
<1>3. CASE n # 0
  <2>1. PICK f : /\ f[1] = ss[1]
                 /\ \A i \in 2..n : f[i] = f[i - 1] \o ss[i]
                 /\ FlattenSeq(ss) = f[n]
    <3>1. Len(ss) \in Nat \ {0}
      BY <1>1, <1>3
    <3>2. \E f : /\ f[1] = ss[1]
                 /\ \A i \in 2..Len(ss) : f[i] = f[i - 1] \o ss[i]
                 /\ FlattenSeq(ss) = f[Len(ss)]
      BY <3>1, FlattenRead
    <3> QED
      BY <1>1, <3>2
  <2> DEFINE Good(k) == k + 1 \in 1..n =>
                          /\ f[k + 1] \in Seq(S)
                          /\ ToSet(f[k + 1]) = UNION { ToSet(ss[i]) : i \in 1..(k + 1) }
  <2>2. PICK P : P = { k \in Nat : Good(k) }
    OBVIOUS
  <2>3. 0 \in P
    <3>1. UNION { ToSet(ss[i]) : i \in 1..(0 + 1) } = ToSet(ss[1])
      BY DEF ToSet
    <3> QED
      BY <2>1, <2>2, <3>1
  <2>4. \A k \in Nat : k \in P => k + 1 \in P
    <3> HIDE DEF Good
    <3> SUFFICES ASSUME NEW k \in Nat, Good(k)
                 PROVE  Good(k + 1)
      BY <2>2
    <3> SUFFICES ASSUME (k + 1) + 1 \in 1..n
                 PROVE  /\ f[(k + 1) + 1] \in Seq(S)
                        /\ ToSet(f[(k + 1) + 1]) = UNION { ToSet(ss[i]) : i \in 1..((k + 1) + 1) }
      BY DEF Good
    <3>1. PICK s, t, U, V : /\ s = f[k + 1] /\ t = ss[(k + 1) + 1]
                            /\ U = { ToSet(ss[i]) : i \in 1..(k + 1) }
                            /\ V = { ToSet(ss[i]) : i \in 1..((k + 1) + 1) }
      OBVIOUS
    <3>2. s \in Seq(S) /\ ToSet(s) = UNION U /\ t \in Seq(S)
      <4>1. k + 1 \in 1..n
        OBVIOUS
      <4> QED
        BY <3>1, <4>1 DEF Good
    <3>3. f[(k + 1) + 1] = s \o t
      <4>1. (k + 1) + 1 \in 2..n /\ ((k + 1) + 1) - 1 = k + 1
        OBVIOUS
      <4> QED
        BY <2>1, <3>1, <4>1
    <3>4. V = U \cup {ToSet(t)}
      <4>1. 1..((k + 1) + 1) = 1..(k + 1) \cup {(k + 1) + 1}
        OBVIOUS
      <4> QED
        BY <3>1, <4>1
    <3>5. UNION V = (UNION U) \cup ToSet(t)
      <4>1. PICK X : X = ToSet(t)
        OBVIOUS
      <4>2. V = U \cup {X}
        BY <3>4, <4>1
      <4>3. UNION V = (UNION U) \cup X
        BY ONLY <4>2
      <4> QED
        BY <4>1, <4>3
    <3>6. s \o t \in Seq(S) /\ ToSet(s \o t) = ToSet(s) \cup ToSet(t)
      BY <3>2, ToSetConcat
    <3> QED
      BY <3>1, <3>2, <3>3, <3>5, <3>6
  <2>5. n - 1 \in P /\ (n - 1) + 1 = n
    <3>1. \A k \in Nat : k \in P
      BY <2>3, <2>4, CountingUp
    <3> QED
      BY <1>3, <3>1
  <2> QED
    BY <1>3, <2>1, <2>2, <2>5
<1> QED
  BY <1>2, <1>3

(***************************************************************************)
(* Sequences of one element are concatenated to their elements.            *)
(***************************************************************************)
LEMMA FlattenSingles ==
    ASSUME NEW S, NEW n \in Nat, NEW x \in [1..n -> S], NEW ss \in [1..n -> Seq(S)],
           \A i \in 1..n : ss[i] = << x[i] >>
    PROVE  FlattenSeq(ss) = x
<1>1. ss \in Seq(Seq(S)) /\ Len(ss) = n /\ x \in Seq(S) /\ Len(x) = n
  BY SeqDef, LenProperties
<1>2. CASE n = 0
  <2>1. FlattenSeq(ss) = ss /\ ss = <<>> /\ x = <<>>
    BY <1>1, <1>2 DEF FlattenSeq
  <2> QED
    BY <2>1
<1>3. CASE n # 0
  <2>1. PICK f : /\ f[1] = ss[1]
                 /\ \A i \in 2..n : f[i] = f[i - 1] \o ss[i]
                 /\ FlattenSeq(ss) = f[n]
    <3>1. Len(ss) \in Nat \ {0}
      BY <1>1, <1>3
    <3>2. \E f : /\ f[1] = ss[1]
                 /\ \A i \in 2..Len(ss) : f[i] = f[i - 1] \o ss[i]
                 /\ FlattenSeq(ss) = f[Len(ss)]
      BY <3>1, FlattenRead
    <3> QED
      BY <1>1, <3>2
  <2> DEFINE Good(k) == k + 1 \in 1..n =>
                          /\ f[k + 1] \in Seq(S)
                          /\ Len(f[k + 1]) = k + 1
                          /\ \A j \in 1..(k + 1) : f[k + 1][j] = x[j]
  <2>2. PICK P : P = { k \in Nat : Good(k) }
    OBVIOUS
  <2>3. 0 \in P
    <3>1. ASSUME 1 \in 1..n
          PROVE  f[1] \in Seq(S) /\ Len(f[1]) = 1 /\ f[1][1] = x[1]
      <4>1. x[1] \in S /\ f[1] = << x[1] >>
        BY <2>1, <3>1
      <4> QED
        BY <4>1
    <3> QED
      BY <2>2, <3>1
  <2>4. \A k \in Nat : k \in P => k + 1 \in P
    <3> HIDE DEF Good
    <3> SUFFICES ASSUME NEW k \in Nat, Good(k)
                 PROVE  Good(k + 1)
      BY <2>2
    <3> SUFFICES ASSUME (k + 1) + 1 \in 1..n
                 PROVE  /\ f[(k + 1) + 1] \in Seq(S)
                        /\ Len(f[(k + 1) + 1]) = (k + 1) + 1
                        /\ \A j \in 1..((k + 1) + 1) : f[(k + 1) + 1][j] = x[j]
      BY DEF Good
    <3>1. PICK s, y : s = f[k + 1] /\ y = x[(k + 1) + 1]
      OBVIOUS
    <3>2. s \in Seq(S) /\ Len(s) = k + 1 /\ \A j \in 1..(k + 1) : s[j] = x[j]
      <4>1. k + 1 \in 1..n
        OBVIOUS
      <4> QED
        BY <3>1, <4>1 DEF Good
    <3>3. f[(k + 1) + 1] = s \o << y >> /\ y \in S
      <4>1. (k + 1) + 1 \in 2..n /\ ((k + 1) + 1) - 1 = k + 1 /\ ss[(k + 1) + 1] = << y >>
        BY <3>1
      <4> QED
        BY <2>1, <3>1, <4>1
    <3>4. PICK t \in Seq(S) : t = << y >> /\ Len(t) = 1 /\ t[1] = y
      <4>1. << y >> \in Seq(S) /\ Len(<< y >>) = 1 /\ << y >>[1] = y
        BY <3>3, SingleSequence
      <4> QED
        BY <4>1
    <3>5. /\ s \o t \in Seq(S) /\ Len(s \o t) = Len(s) + Len(t)
          /\ \A j \in 1..(Len(s) + Len(t)) :
               (s \o t)[j] = IF j <= Len(s) THEN s[j] ELSE t[j - Len(s)]
      BY <3>2, ConcatProperties
    <3>6. PICK u : u = s \o t
      OBVIOUS
    <3>7. /\ u \in Seq(S) /\ Len(u) = (k + 1) + 1
          /\ \A j \in 1..((k + 1) + 1) : u[j] = IF j <= k + 1 THEN s[j] ELSE t[j - (k + 1)]
      BY <3>2, <3>4, <3>5, <3>6
    <3>8. \A j \in 1..((k + 1) + 1) : u[j] = x[j]
      <4> TAKE j \in 1..((k + 1) + 1)
      <4>1. CASE j <= k + 1
        BY <3>2, <3>7, <4>1
      <4>2. CASE j = (k + 1) + 1
        <5>1. j - (k + 1) = 1 /\ ~ (j <= k + 1)
          BY <4>2
        <5>2. u[j] = t[1]
          BY <3>7, <5>1
        <5> QED
          BY <3>1, <3>4, <4>2, <5>2
      <4> QED
        BY <4>1, <4>2
    <3> QED
      BY <3>3, <3>4, <3>6, <3>7, <3>8
  <2>5. n - 1 \in P /\ (n - 1) + 1 = n
    <3>1. \A k \in Nat : k \in P
      BY <2>3, <2>4, CountingUp
    <3> QED
      BY <1>3, <3>1
  <2>6. f[n] \in Seq(S) /\ Len(f[n]) = n /\ \A j \in 1..n : f[n][j] = x[j]
    BY <1>3, <2>2, <2>5
  <2> QED
    BY <1>1, <2>1, <2>6, SeqEqual
<1> QED
  BY <1>2, <1>3

(***************************************************************************)
(* One sequence is concatenated to itself.                                 *)
(***************************************************************************)
LEMMA FlattenOne ==
    ASSUME NEW y, NEW ss, ss = [i \in 1..1 |-> y]
    PROVE  FlattenSeq(ss) = y
<1>1. ss = << y >> /\ Len(ss) = 1 /\ ss[1] = y
  OBVIOUS
<1>2. \E f : /\ f[1] = ss[1]
             /\ \A i \in 2..Len(ss) : f[i] = f[i - 1] \o ss[i]
             /\ FlattenSeq(ss) = f[Len(ss)]
  <2>1. Len(ss) \in Nat \ {0}
    BY ONLY <1>1
  <2> QED
    BY <2>1, FlattenRead
<1> QED
  BY <1>1, <1>2

-----------------------------------------------------------------------------
(***************************************************************************)
(* Names, and the view of key columns.                                     *)
(***************************************************************************)

(***************************************************************************)
(* A sequence is one of its own elements.                                  *)
(***************************************************************************)
LEMMA OwnElements ==
    ASSUME NEW T, NEW s \in Seq(T)
    PROVE  s \in Seq(ToSet(s))
<1>1. PICK n \in Nat : n = Len(s) /\ s \in [1..n -> T] /\ DOMAIN s = 1..n
  BY LenProperties
<1>2. s \in [1..n -> ToSet(s)]
  BY <1>1 DEF ToSet
<1> QED
  BY <1>2, SeqDef

(***************************************************************************)
(* The parts of a name.                                                    *)
(***************************************************************************)
LEMMA NameParts ==
    ASSUME NEW name, IsName(name)
    PROVE  /\ name # Null /\ Len(name) \in Nat /\ DOMAIN name = 1..Len(name)
           /\ name = [i \in 1..Len(name) |-> name[i]]
<1>1. name \in Seq(ToSet(name)) /\ name # Null
  BY DEF IsName
<1>2. Len(name) \in Nat /\ name \in [1..Len(name) -> ToSet(name)] /\ DOMAIN name = 1..Len(name)
  BY <1>1, LenProperties
<1> QED
  BY <1>1, <1>2

(***************************************************************************)
(* An aggregate adds a sequence for each name.                             *)
(***************************************************************************)
LEMMA EntriesSound ==
    ASSUME NEW name, name = Null \/ IsName(name)
    PROVE  Entries(name) \in Seq(ToSet(Entries(name)))
<1>1. \E T : Entries(name) \in Seq(T)
  <2>1. CASE name = Null
    BY <2>1 DEF Entries
  <2>2. CASE name # Null /\ dialect = "postgres"
    <3>1. Entries(name) = << name >> /\ << name >> \in Seq({name})
      BY <2>2 DEF Entries
    <3> QED
      BY <3>1
  <2>3. CASE name # Null /\ dialect # "postgres"
    <3>1. PICK n \in Nat : DOMAIN name = 1..n
      BY <2>3, NameParts
    <3>2. PICK ss : ss = [i \in 1..n |-> Part(name[i])]
      OBVIOUS
    <3>3. Entries(name) = FlattenSeq(ss)
      BY <2>3, <3>1, <3>2 DEF Entries
    <3>4. PICK T : T = { << Trim[name[i]] >> : i \in 1..n }
      OBVIOUS
    <3>5. ASSUME NEW i \in 1..n
          PROVE  Part(name[i]) \in Seq(T)
      <4>1. PICK x : x = << Trim[name[i]] >>
        OBVIOUS
      <4>2. x \in T /\ << x >> \in Seq(T)
        BY <3>4, <4>1, SingleSequence
      <4>3. Part(name[i]) = <<>> \/ Part(name[i]) = << x >>
        BY <4>1 DEF Part
      <4>4. <<>> \in Seq(T)
        OBVIOUS
      <4> QED
        BY <4>2, <4>3, <4>4
    <3>6. ss \in [1..n -> Seq(T)]
      BY <3>2, <3>5
    <3> QED
      BY <3>3, <3>6, FlattenParts
  <2> QED
    BY <2>1, <2>2, <2>3
<1> QED
  BY <1>1, OwnElements

(***************************************************************************)
(* A name without a comma and without blanks around it, and any name in    *)
(* PostgreSQL, is listed as it is (splitCsv, mysql-database.ts:632-641).   *)
(***************************************************************************)
LEMMA EntriesPlain ==
    ASSUME NEW name, IsName(name),
           dialect # "postgres" => IsWhole(name)
    PROVE  Entries(name) = << name >>
<1>1. name # Null /\ Len(name) \in Nat /\ DOMAIN name = 1..Len(name)
      /\ name = [i \in 1..Len(name) |-> name[i]]
  BY NameParts
<1>2. CASE dialect = "postgres"
  BY <1>1, <1>2 DEF Entries
<1>3. CASE dialect # "postgres"
  <2>1. Len(name) = 1 /\ Trim[name[1]] = name[1] /\ name[1] # ""
    BY <1>3 DEF IsWhole
  <2>2. PICK x : x = name[1]
    OBVIOUS
  <2>3. DOMAIN name = 1..1 /\ name = [i \in 1..1 |-> x]
    <3>1. DOMAIN name = 1..1
      BY <1>1, <2>1
    <3>2. \A i \in 1..1 : name[i] = x
      BY ONLY <2>2
    <3> QED
      BY <1>1, <3>1, <3>2
  <2>4. name = << x >>
    BY ONLY <2>3
  <2>5. PICK y : y = << name >>
    OBVIOUS
  <2>6. Part(name[1]) = y
    <3>1. Trim[x] = x /\ x # ""
      BY ONLY <2>1, <2>2
    <3>2. Part(x) = << << x >> >>
      BY ONLY <3>1 DEF Part
    <3> QED
      BY ONLY <2>2, <2>4, <2>5, <3>2
  <2>7. PICK ss : ss = [i \in 1..1 |-> Part(name[i])]
    OBVIOUS
  <2>8. ss = [i \in 1..1 |-> y]
    BY ONLY <2>6, <2>7
  <2>9. FlattenSeq(ss) = y
    BY <2>8, FlattenOne
  <2>10. Entries(name) = FlattenSeq(ss)
    BY <1>1, <1>3, <2>3, <2>7 DEF Entries
  <2> QED
    BY <2>5, <2>9, <2>10
<1> QED
  BY <1>2, <1>3

(***************************************************************************)
(* The entries of a list are those of its names.                           *)
(***************************************************************************)
LEMMA AggregateSet ==
    ASSUME NEW n \in Nat, NEW X, NEW names \in [1..n -> X],
           \A x \in X : x = Null \/ IsName(x)
    PROVE  ToSet(Aggregate(names)) = UNION { ToSet(Entries(names[i])) : i \in 1..n }
<1>1. PICK S : S = UNION { ToSet(Entries(x)) : x \in X }
  OBVIOUS
<1>2. ASSUME NEW x \in X PROVE Entries(x) \in Seq(S)
  <2>1. ToSet(Entries(x)) \subseteq S
    BY <1>1
  <2> QED
    BY <2>1, EntriesSound, SeqMonotonic
<1>3. PICK ss : ss = [i \in 1..n |-> Entries(names[i])]
  OBVIOUS
<1>4. ss \in [1..n -> Seq(S)]
  BY <1>2, <1>3
<1>5. ToSet(FlattenSeq(ss)) = UNION { ToSet(ss[i]) : i \in 1..n }
  BY <1>4, FlattenParts
<1>6. Aggregate(names) = FlattenSeq(ss)
  BY <1>3 DEF Aggregate
<1>7. { ToSet(ss[i]) : i \in 1..n } = { ToSet(Entries(names[i])) : i \in 1..n }
  BY <1>3
<1> QED
  BY <1>5, <1>6, <1>7

(***************************************************************************)
(* Names in one piece are listed as they are.                              *)
(***************************************************************************)
LEMMA AggregateSame ==
    ASSUME NEW n \in Nat, NEW X, NEW names \in [1..n -> X],
           \A i \in 1..n : Entries(names[i]) = << names[i] >>
    PROVE  Aggregate(names) = names
<1>1. PICK ss : ss = [i \in 1..n |-> Entries(names[i])]
  OBVIOUS
<1>2. Aggregate(names) = FlattenSeq(ss)
  BY <1>1 DEF Aggregate
<1>3. \A i \in 1..n : ss[i] = << names[i] >> /\ << names[i] >> \in Seq(X)
  <2> TAKE i \in 1..n
  <2>1. names[i] \in X
    OBVIOUS
  <2> QED
    BY <1>1, <2>1, SingleSequence
<1>4. ss \in [1..n -> Seq(X)]
  BY <1>1, <1>3
<1>5. FlattenSeq(ss) = names
  BY <1>3, <1>4, FlattenSingles
<1> QED
  BY <1>2, <1>5

(***************************************************************************)
(* A null is not listed.                                                   *)
(***************************************************************************)
LEMMA AggregateNull ==
    ASSUME NEW names, names = [i \in 1..1 |-> Null]
    PROVE  Aggregate(names) = <<>>
<1>1. PICK ss : ss = [i \in 1..1 |-> Entries(names[i])]
  OBVIOUS
<1>2. Aggregate(names) = FlattenSeq(ss)
  BY <1>1 DEF Aggregate
<1>3. ss = << <<>> >> /\ Len(ss) = 1
  <2>1. Entries(Null) = <<>>
    BY DEF Entries
  <2>2. ss = [i \in 1..1 |-> <<>>]
    BY <1>1, <2>1
  <2> QED
    BY <2>2
<1>4. FlattenSeq(ss) = ss[1]
  <2>1. Len(ss) \in Nat \ {0}
    BY <1>3
  <2>2. \E f : /\ f[1] = ss[1]
               /\ \A i \in 2..Len(ss) : f[i] = f[i - 1] \o ss[i]
               /\ FlattenSeq(ss) = f[Len(ss)]
    BY <2>1, FlattenRead
  <2> QED
    BY <1>3, <2>2
<1> QED
  BY <1>2, <1>3, <1>4

-----------------------------------------------------------------------------
(* Catalogues *)

(***************************************************************************)
(* What a database may have is a catalogue.                                *)
(***************************************************************************)
LEMMA CatalogueKnown ==
    ASSUME NEW d \in Dialects, NEW c \in Catalogues[d]
    PROVE  IsCatalogue(d, c)
BY SchemaAssumption

(***************************************************************************)
(* The columns of a constraint.                                            *)
(***************************************************************************)
LEMMA NamesKnown ==
    ASSUME NEW names, AreNames(names)
    PROVE  /\ Len(names) \in Nat /\ DOMAIN names = 1..Len(names)
           /\ names = [i \in 1..Len(names) |-> names[i]]
           /\ names \in [1..Len(names) -> ToSet(names)]
           /\ \A i \in 1..Len(names) : IsName(names[i])
           /\ \A x \in ToSet(names) : IsName(x)
<1>1. names \in Seq(ToSet(names)) /\ \A i \in DOMAIN names : IsName(names[i])
  BY DEF AreNames
<1>2. Len(names) \in Nat /\ names \in [1..Len(names) -> ToSet(names)]
      /\ DOMAIN names = 1..Len(names)
  BY <1>1, LenProperties
<1>3. names = [i \in 1..Len(names) |-> names[i]]
  BY <1>2
<1> QED
  BY <1>1, <1>2, <1>3 DEF ToSet

\* The row of the i-th column of a constraint.
UsageRow(t, k, i) ==
    [table |-> t, name |-> k.name, type |-> k.type, column |-> k.columns[i], position |-> i,
     refTable  |-> IF IsForeignKey(k) THEN k.references.table ELSE Null,
     refColumn |-> IF IsForeignKey(k) THEN k.references.columns[i] ELSE Null]

(***************************************************************************)
(* The fields of such a row.                                               *)
(***************************************************************************)
LEMMA UsageParts ==
    ASSUME NEW t, NEW k, NEW i
    PROVE  LET u == UsageRow(t, k, i)
           IN  /\ u.table = t /\ u.name = k.name /\ u.type = k.type
               /\ u.column = k.columns[i] /\ u.position = i
               /\ u.refTable = IF IsForeignKey(k) THEN k.references.table ELSE Null
               /\ u.refColumn = IF IsForeignKey(k) THEN k.references.columns[i] ELSE Null
BY DEF UsageRow

(***************************************************************************)
(* Which constraints there are.                                            *)
(***************************************************************************)
LEMMA InConstraints ==
    ASSUME NEW c, NEW tk
    PROVE  tk \in Constraints(c)
             <=> \E t \in DOMAIN c : \E k \in c[t].constraints : tk = <<t, k>>
BY DEF Constraints

(***************************************************************************)
(* Which rows the view of key columns has.                                 *)
(***************************************************************************)
LEMMA InUsage ==
    ASSUME NEW c, NEW u
    PROVE  u \in KeyColumnUsage(c)
             <=> \E t \in DOMAIN c : \E k \in c[t].constraints :
                   \E i \in DOMAIN k.columns : u = UsageRow(t, k, i)
<1>1. u \in KeyColumnUsage(c)
        <=> \E tk \in Constraints(c) : \E i \in DOMAIN tk[2].columns :
              u = UsageRow(tk[1], tk[2], i)
  BY DEF KeyColumnUsage, UsageRow
<1>2. \A t, k : <<t, k>>[1] = t /\ <<t, k>>[2] = k
  OBVIOUS
<1>3. ASSUME NEW t \in DOMAIN c, NEW k \in c[t].constraints, NEW i \in DOMAIN k.columns,
             u = UsageRow(t, k, i)
      PROVE  u \in KeyColumnUsage(c)
  <2>1. <<t, k>> \in Constraints(c)
    BY InConstraints
  <2>2. PICK tk : tk = <<t, k>> /\ tk[1] = t /\ tk[2] = k
    BY <1>2
  <2> QED
    BY <1>1, <1>3, <2>1, <2>2
<1>4. ASSUME u \in KeyColumnUsage(c)
      PROVE  \E t \in DOMAIN c : \E k \in c[t].constraints :
               \E i \in DOMAIN k.columns : u = UsageRow(t, k, i)
  <2>1. PICK tk \in Constraints(c) : \E i \in DOMAIN tk[2].columns :
              u = UsageRow(tk[1], tk[2], i)
    BY <1>1, <1>4
  <2>2. PICK t \in DOMAIN c : \E k \in c[t].constraints : tk = <<t, k>>
    BY <2>1, InConstraints
  <2>3. PICK k \in c[t].constraints : tk = <<t, k>>
    BY <2>2
  <2>4. tk[1] = t /\ tk[2] = k
    BY <1>2, <2>3
  <2> QED
    BY <2>1, <2>4
<1> QED
  BY <1>3, <1>4

\* u is the row of the i-th column of the constraint k of t.
IsUsage(c, u, t, k, i) ==
    /\ t \in DOMAIN c /\ k \in c[t].constraints /\ i \in DOMAIN k.columns
    /\ u = UsageRow(t, k, i)

(***************************************************************************)
(* A row of key columns is one of a constraint.                            *)
(***************************************************************************)
LEMMA UsageSource ==
    ASSUME NEW c, NEW u, u \in KeyColumnUsage(c)
    PROVE  \E t, k, i : IsUsage(c, u, t, k, i)
<1>1. PICK t \in DOMAIN c : \E k \in c[t].constraints : \E i \in DOMAIN k.columns :
            u = UsageRow(t, k, i)
  BY InUsage
<1>2. PICK k \in c[t].constraints : \E i \in DOMAIN k.columns : u = UsageRow(t, k, i)
  BY <1>1
<1>3. PICK i \in DOMAIN k.columns : u = UsageRow(t, k, i)
  BY <1>2
<1> QED
  BY <1>1, <1>2, <1>3 DEF IsUsage

(***************************************************************************)
(* Each column of a constraint has its row.                                *)
(***************************************************************************)
LEMMA UsageHas ==
    ASSUME NEW c, NEW t \in DOMAIN c, NEW k \in c[t].constraints, NEW i \in DOMAIN k.columns
    PROVE  UsageRow(t, k, i) \in KeyColumnUsage(c)
BY InUsage

(***************************************************************************)
(* Since a table has no two constraints of one name, table and name lead   *)
(* to the rows of one constraint.                                          *)
(***************************************************************************)
LEMMA OwnUsage ==
    ASSUME NEW d, NEW c, IsCatalogue(d, c), NEW t \in DOMAIN c, NEW k \in c[t].constraints
    PROVE  { u \in KeyColumnUsage(c) : u.name = k.name /\ u.table = t }
             = { UsageRow(t, k, i) : i \in DOMAIN k.columns }
<1>1. \A l \in c[t].constraints : l.name = k.name => l = k
  BY DEF IsCatalogue
<1>2. ASSUME NEW u \in KeyColumnUsage(c), u.name = k.name, u.table = t
      PROVE  u \in { UsageRow(t, k, i) : i \in DOMAIN k.columns }
  <2>1. PICK s, l, i : IsUsage(c, u, s, l, i)
    BY UsageSource
  <2>2. u.table = s /\ u.name = l.name
    BY <2>1, UsageParts DEF IsUsage
  <2>3. s = t /\ l = k
    BY <1>1, <1>2, <2>1, <2>2 DEF IsUsage
  <2> QED
    BY <2>1, <2>3 DEF IsUsage
<1>3. ASSUME NEW i \in DOMAIN k.columns
      PROVE  /\ UsageRow(t, k, i) \in KeyColumnUsage(c)
             /\ UsageRow(t, k, i).name = k.name /\ UsageRow(t, k, i).table = t
  BY UsageHas, UsageParts
<1> QED
  BY <1>2, <1>3

-----------------------------------------------------------------------------
(***************************************************************************)
(* Sections of keys and of indexes.                                        *)
(***************************************************************************)

(***************************************************************************)
(* Table and type lead to the rows of the primary key.                     *)
(***************************************************************************)
LEMMA OwnKeyUsage ==
    ASSUME NEW d, NEW c, IsCatalogue(d, c), NEW t
    PROVE  LET rows == { u \in KeyColumnUsage(c) : u.table = t /\ u.type = "PRIMARY KEY" }
           IN  /\ \A k : t \in DOMAIN c /\ k \in c[t].constraints /\ k.type = "PRIMARY KEY" =>
                          rows = { UsageRow(t, k, i) : i \in DOMAIN k.columns }
               /\ (t \in DOMAIN c => \A k \in c[t].constraints : k.type # "PRIMARY KEY") => rows = {}
<1>1. PICK rows : rows = { u \in KeyColumnUsage(c) : u.table = t /\ u.type = "PRIMARY KEY" }
  OBVIOUS
<1>2. ASSUME NEW u \in rows
      PROVE  /\ t \in DOMAIN c
             /\ \E k \in c[t].constraints :
                  k.type = "PRIMARY KEY" /\ \E i \in DOMAIN k.columns : u = UsageRow(t, k, i)
  <2>1. u \in KeyColumnUsage(c) /\ u.table = t /\ u.type = "PRIMARY KEY"
    BY <1>1
  <2>2. PICK s, l, i : IsUsage(c, u, s, l, i)
    BY <2>1, UsageSource
  <2>3. u.table = s /\ u.type = l.type
    BY <2>2, UsageParts DEF IsUsage
  <2>4. s = t /\ l.type = "PRIMARY KEY"
    BY <2>1, <2>3
  <2> QED
    BY <2>2, <2>4 DEF IsUsage
<1>3. ASSUME NEW k, t \in DOMAIN c, k \in c[t].constraints, k.type = "PRIMARY KEY"
      PROVE  rows = { UsageRow(t, k, i) : i \in DOMAIN k.columns }
  <2>1. \A l \in c[t].constraints : l.type = "PRIMARY KEY" => l = k
    BY <1>3 DEF IsCatalogue
  <2>2. \A u \in rows : \E i \in DOMAIN k.columns : u = UsageRow(t, k, i)
    BY <1>2, <2>1
  <2>3. \A i \in DOMAIN k.columns : UsageRow(t, k, i) \in rows
    <3> SUFFICES ASSUME NEW i \in DOMAIN k.columns PROVE UsageRow(t, k, i) \in rows
      OBVIOUS
    <3>1. UsageRow(t, k, i) \in KeyColumnUsage(c)
      BY <1>3, UsageHas
    <3>2. UsageRow(t, k, i).table = t /\ UsageRow(t, k, i).type = k.type
      BY UsageParts
    <3> QED
      BY <1>1, <1>3, <3>1, <3>2
  <2> QED
    BY <2>2, <2>3
<1>4. (t \in DOMAIN c => \A k \in c[t].constraints : k.type # "PRIMARY KEY") => rows = {}
  BY <1>2
<1> QED
  BY <1>1, <1>3, <1>4

(***************************************************************************)
(* Sorted, the rows of a constraint have its columns in order.             *)
(***************************************************************************)
LEMMA UsageInOrder ==
    ASSUME NEW t, NEW k, AreNames(k.columns)
    PROVE  ByPosition({ UsageRow(t, k, i) : i \in DOMAIN k.columns })
             = [i \in 1..Len(k.columns) |-> UsageRow(t, k, i)]
<1>1. PICK n \in Nat : n = Len(k.columns) /\ DOMAIN k.columns = 1..n
  BY NamesKnown
<1>2. PICK f : f = [i \in 1..n |-> UsageRow(t, k, i)]
  OBVIOUS
<1>3. f = [i \in 1..n |-> f[i]]
  BY <1>2
<1>4. \A i \in 1..n : f[i].position = i
  BY <1>2, UsageParts
<1>5. PICK rows : rows = { UsageRow(t, k, i) : i \in DOMAIN k.columns }
  OBVIOUS
<1>6. rows = { f[i] : i \in 1..n }
  BY <1>1, <1>2, <1>5
<1>7. ByPosition(rows) = f
  BY <1>3, <1>4, <1>6, ByPositionOrder
<1> QED
  BY <1>1, <1>2, <1>5, <1>7

(***************************************************************************)
(* No rows, sorted.                                                        *)
(***************************************************************************)
LEMMA NoneInOrder == ByPosition({}) = <<>>
<1>1. PICK f : f = [i \in 1..0 |-> i]
  OBVIOUS
<1>2. f = [i \in 1..0 |-> f[i]] /\ {} = { f[i] : i \in 1..0 } /\ 0 \in Nat
      /\ \A i \in 1..0 : f[i].position = i
  BY <1>1
<1>3. ByPosition({}) = f
  BY <1>2, ByPositionOrder
<1>4. f = <<>>
  BY <1>1
<1> QED
  BY <1>3, <1>4

(***************************************************************************)
(* getPrimaryKeyColumns is true of a catalogue that nobody changes         *)
(* (postgres-database.ts:257-301, mysql-database.ts:311-351, sqlserver-    *)
(* database.ts:272-318).                                                   *)
(***************************************************************************)
LEMMA KeySections ==
    ASSUME dialect \in Dialects, NEW c \in Catalogues[dialect], NEW t
    PROVE  Agrees("keys", Result("keys", c, t), c, t)
<1>1. IsCatalogue(dialect, c)
  BY CatalogueKnown
<1>2. PICK rows : rows = { u \in KeyColumnUsage(c) : u.table = t /\ u.type = "PRIMARY KEY" }
  OBVIOUS
<1>3. PICK keys : keys = PrimaryKeyColumns(c, t)
  OBVIOUS
<1>4. keys = KeyColumns(c, t, rows)
  BY <1>2, <1>3 DEF PrimaryKeyColumns
<1>5. PICK primary : primary = IF t \notin DOMAIN c THEN {}
                               ELSE { k \in c[t].constraints : k.type = "PRIMARY KEY" }
  OBVIOUS
<1>6. CASE primary = {}
  <2>1. rows = {}
    BY <1>1, <1>2, <1>5, <1>6, OwnKeyUsage
  <2>2. KeyColumns(c, t, rows)
          = [n \in DOMAIN ByPosition(rows) |->
               [column |-> ByPosition(rows)[n].column,
                isGenerated |-> \E i \in DOMAIN c[t].columns :
                   /\ c[t].columns[i].name = ByPosition(rows)[n].column
                   /\ c[t].columns[i].generated]]
    BY DEF KeyColumns
  <2>3. ByPosition(rows) = <<>> /\ DOMAIN <<>> = {}
    BY <2>1, NoneInOrder, EmptySequence
  <2>4. DOMAIN keys = {}
    BY <1>4, <2>2, <2>3
  <2>5. keys = <<>>
    <3>1. keys = [n \in {} |-> n]
      BY <1>4, <2>2, <2>3
    <3> QED
      BY <3>1
  <2>6. KeysAgree(keys, c, t)
    BY <1>5, <1>6, <2>5 DEF KeysAgree
  <2> QED
    BY <1>3, <2>6 DEF Agrees, Result
<1>7. CASE primary # {}
  <2>1. PICK k \in primary : t \in DOMAIN c /\ k \in c[t].constraints /\ k.type = "PRIMARY KEY"
    BY <1>5, <1>7
  <2>2. primary = {k}
    <3>1. \A l \in c[t].constraints : l.type = "PRIMARY KEY" => l = k
      BY <1>1, <2>1 DEF IsCatalogue
    <3> QED
      BY <1>5, <2>1, <3>1
  <2>3. AreNames(k.columns)
    <3>1. IsConstraint(k)
      BY <1>1, <2>1 DEF IsCatalogue
    <3> QED
      BY <3>1 DEF IsConstraint
  <2>4. PICK n \in Nat : /\ n = Len(k.columns) /\ k.columns = [i \in 1..n |-> k.columns[i]]
    BY <2>3, NamesKnown
  <2>5. PICK sorted : sorted = [i \in 1..n |-> UsageRow(t, k, i)]
    OBVIOUS
  <2>6. ByPosition(rows) = sorted
    <3>1. \A l : t \in DOMAIN c /\ l \in c[t].constraints /\ l.type = "PRIMARY KEY" =>
                   { u \in KeyColumnUsage(c) : u.table = t /\ u.type = "PRIMARY KEY" }
                     = { UsageRow(t, l, i) : i \in DOMAIN l.columns }
      BY <1>1, OwnKeyUsage
    <3>2. rows = { UsageRow(t, k, i) : i \in DOMAIN k.columns }
      BY <1>2, <2>1, <3>1
    <3> QED
      BY <2>3, <2>4, <2>5, <3>2, UsageInOrder
  <2>7. /\ DOMAIN keys = 1..n
        /\ \A i \in 1..n : keys[i].column = sorted[i].column
    <3>1. KeyColumns(c, t, rows)
            = [m \in DOMAIN sorted |->
                 [column |-> sorted[m].column,
                  isGenerated |-> \E i \in DOMAIN c[t].columns :
                     /\ c[t].columns[i].name = sorted[m].column
                     /\ c[t].columns[i].generated]]
      BY <2>6 DEF KeyColumns
    <3>2. DOMAIN sorted = 1..n
      BY <2>5
    <3> QED
      BY <1>4, <3>1, <3>2
  <2>8. \A i \in 1..n : keys[i].column = k.columns[i]
    BY <2>5, <2>7, UsageParts
  <2>9. [i \in DOMAIN keys |-> keys[i].column] = k.columns
    BY <2>4, <2>7, <2>8
  <2>10. KeysAgree(keys, c, t)
    <3>1. KeysAgree(keys, c, t)
            <=> { [i \in DOMAIN keys |-> keys[i].column] } = { l.columns : l \in primary }
      BY <1>5, <1>7 DEF KeysAgree
    <3>2. { l.columns : l \in primary } = { k.columns }
      BY <2>2
    <3> QED
      BY <2>9, <3>1, <3>2
  <2> QED
    BY <1>3, <2>10 DEF Agrees, Result
<1> QED
  BY <1>6, <1>7

(***************************************************************************)
(* An index whose columns stay.                                            *)
(***************************************************************************)
LEMMA IndexParts ==
    ASSUME NEW name, NEW columns, NEW unique, NEW primary, NEW predicate, NEW cols, NEW pred
    PROVE  LET i == [name |-> name, columns |-> columns, unique |-> unique,
                     primary |-> primary, predicate |-> predicate]
           IN  /\ [i EXCEPT !.columns = cols, !.predicate = pred].name = name
               /\ [i EXCEPT !.columns = columns, !.predicate = pred] = [i EXCEPT !.predicate = pred]
<1> DEFINE i == [name |-> name, columns |-> columns, unique |-> unique,
                 primary |-> primary, predicate |-> predicate]
<1>1. [i EXCEPT !.columns = cols, !.predicate = pred].name = name
  OBVIOUS
<1>2. [i EXCEPT !.columns = columns] = i
  OBVIOUS
<1>3. [i EXCEPT !.columns = columns, !.predicate = pred] = [i EXCEPT !.predicate = pred]
  BY <1>2
<1> QED
  BY <1>1, <1>3

(***************************************************************************)
(* The section of the indexes is true of the catalogue.                    *)
(***************************************************************************)
LEMMA IndexSections ==
    ASSUME dialect \in Dialects, NEW c \in Catalogues[dialect], NEW t
    PROVE  Agrees("indexes", Result("indexes", c, t), c, t)
<1>1. IsCatalogue(dialect, c)
  BY CatalogueKnown
<1>2. PICK section : section = Result("indexes", c, t)
  OBVIOUS
<1>3. SUFFICES ASSUME t \in DOMAIN c, NEW i \in c[t].indexes, IsPlain(i.columns),
                      IsListed(i)
               PROVE  { entry \in section : entry.name = i.name }
                        = { [i EXCEPT !.predicate = IF dialect = "sqlserver" THEN Null ELSE @] }
  BY <1>2 DEF Agrees, IndexesAgree
<1> DEFINE Entry(j) == [j EXCEPT !.columns = IndexColumns(j), !.predicate = IndexPredicate(j)]
<1>4. section = { Entry(j) : j \in { j \in c[t].indexes : IsListed(j) } }
  BY <1>2, <1>3 DEF Result, DescribedIndexes
<1>5. ASSUME NEW j \in c[t].indexes
      PROVE  Entry(j).name = j.name
  <2>1. j = [name |-> j.name, columns |-> j.columns, unique |-> j.unique,
             primary |-> j.primary, predicate |-> j.predicate]
    BY <1>1, <1>3 DEF IsCatalogue, IsIndex
  <2> QED
    BY <2>1, IndexParts
<1>6. \A j \in c[t].indexes : j.name = i.name => j = i
  BY <1>1, <1>3 DEF IsCatalogue
<1>7. { entry \in section : entry.name = i.name } = { Entry(i) }
  <2> HIDE DEF Entry
  <2> QED
    BY <1>3, <1>4, <1>5, <1>6
<1>8. /\ i = [name |-> i.name, columns |-> i.columns, unique |-> i.unique,
              primary |-> i.primary, predicate |-> i.predicate]
      /\ i.columns \in Seq(ToSet(i.columns))
      /\ \A n \in DOMAIN i.columns : i.columns[n] = Null \/ IsName(i.columns[n])
      /\ dialect = "mysql" => i.predicate = Null
  BY <1>1, <1>3 DEF IsCatalogue, IsIndex
<1>9. IndexColumns(i) = i.columns
  <2>1. PICK n \in Nat : i.columns \in [1..n -> ToSet(i.columns)] /\ DOMAIN i.columns = 1..n
    BY <1>8, LenProperties
  <2>2. ASSUME NEW m \in 1..n
        PROVE  Entries(i.columns[m]) = << i.columns[m] >>
    <3>1. i.columns[m] # Null /\ IsWhole(i.columns[m])
      BY <1>3, <2>1 DEF IsPlain
    <3>2. IsName(i.columns[m])
      BY <1>8, <2>1, <3>1
    <3> QED
      BY <3>1, <3>2, EntriesPlain
  <2>3. Aggregate(i.columns) = i.columns
    BY <2>1, <2>2, AggregateSame
  <2> QED
    BY <2>3 DEF IndexColumns
<1>10. PICK shown : shown = IF dialect = "sqlserver" THEN Null ELSE i.predicate
  OBVIOUS
<1>11. IndexPredicate(i) = shown
  BY <1>8, <1>10 DEF IndexPredicate, Dialects
<1>12. Entry(i) = [i EXCEPT !.predicate = shown]
  <2>1. Entry(i) = [i EXCEPT !.columns = i.columns, !.predicate = shown]
    BY <1>9, <1>11
  <2> QED
    BY ONLY <1>8, <2>1, IndexParts
<1>13. [i EXCEPT !.predicate = IF dialect = "sqlserver" THEN Null ELSE @]
         = [i EXCEPT !.predicate = shown]
  BY <1>10
<1> QED
  BY <1>7, <1>12, <1>13

-----------------------------------------------------------------------------
(***************************************************************************)
(* Rows of a constraint, whatever the joins repeat.                        *)
(***************************************************************************)

\* What is joined to a constraint: its rows of the first two views.
OwnRows(c, t, k) == LeftJoined({ u \in KeyColumnUsage(c) : u.name = k.name /\ u.table = t })

\* A row joined of three.
JoinedRow(u, r, g) ==
    [position |-> u.position, column |-> u.column, rule |-> r.rule,
     table |-> g.table, refColumn |-> g.column, of |-> r.table]

(***************************************************************************)
(* The fields of a joined row.                                             *)
(***************************************************************************)
LEMMA JoinedParts ==
    ASSUME NEW u, NEW r, NEW g
    PROVE  LET row == JoinedRow(u, r, g)
           IN  /\ row.position = u.position /\ row.column = u.column /\ row.rule = r.rule
               /\ row.table = g.table /\ row.refColumn = g.column /\ row.of = r.table
BY DEF JoinedRow

(***************************************************************************)
(* The fields of a missing row.                                            *)
(***************************************************************************)
LEMMA NoRowParts ==
    /\ NoRow.position = 0 /\ NoRow.column = Null /\ NoRow.key = Null /\ NoRow.rule = Null
    /\ NoRow.table = Null /\ NoRow.name = Null
BY DEF NoRow

\* row is joined of u, r and g.
IsJoined(c, t, k, row, u, r, g) ==
    /\ u \in OwnRows(c, t, k) /\ r \in References(c, k) /\ g \in UsedColumns(c, k, u, r)
    /\ row = JoinedRow(u, r, g)

(***************************************************************************)
(* A row of a constraint is joined of some rows.                           *)
(***************************************************************************)
LEMMA JoinedSource ==
    ASSUME NEW c, NEW t, NEW k, NEW row, row \in ConstraintRows(c, t, k)
    PROVE  \E u, r, g : IsJoined(c, t, k, row, u, r, g)
<1>1. row \in UNION { UNION { { JoinedRow(u, r, g) : g \in UsedColumns(c, k, u, r) } :
                              r \in References(c, k) } : u \in OwnRows(c, t, k) }
  BY DEF ConstraintRows, JoinedRow, OwnRows
<1>2. PICK u \in OwnRows(c, t, k) :
            row \in UNION { { JoinedRow(u, r, g) : g \in UsedColumns(c, k, u, r) } :
                            r \in References(c, k) }
  BY <1>1
<1>3. PICK r \in References(c, k) :
            row \in { JoinedRow(u, r, g) : g \in UsedColumns(c, k, u, r) }
  BY <1>2
<1>4. PICK g \in UsedColumns(c, k, u, r) : row = JoinedRow(u, r, g)
  BY <1>3
<1> QED
  BY <1>2, <1>3, <1>4 DEF IsJoined

(***************************************************************************)
(* All rows that match are joined.                                         *)
(***************************************************************************)
LEMMA JoinedHas ==
    ASSUME NEW c, NEW t, NEW k, NEW u \in OwnRows(c, t, k), NEW r \in References(c, k),
           NEW g \in UsedColumns(c, k, u, r)
    PROVE  JoinedRow(u, r, g) \in ConstraintRows(c, t, k)
<1>1. JoinedRow(u, r, g) \in
        UNION { UNION { { JoinedRow(v, s, h) : h \in UsedColumns(c, k, v, s) } :
                        s \in References(c, k) } : v \in OwnRows(c, t, k) }
  OBVIOUS
<1> QED
  BY <1>1 DEF ConstraintRows, JoinedRow, OwnRows

(***************************************************************************)
(* The rows of key columns of a constraint, or a missing row if it has no  *)
(* columns.                                                                *)
(***************************************************************************)
LEMMA OwnRowsKnown ==
    ASSUME NEW d, NEW c, IsCatalogue(d, c), NEW t \in DOMAIN c, NEW k \in c[t].constraints
    PROVE  /\ AreNames(k.columns) /\ Len(k.columns) \in Nat
           /\ Len(k.columns) = 0 => OwnRows(c, t, k) = {NoRow} /\ ~ IsForeignKey(k)
           /\ Len(k.columns) # 0 =>
                OwnRows(c, t, k) = { UsageRow(t, k, i) : i \in 1..Len(k.columns) }
<1>1. IsConstraint(k)
  BY DEF IsCatalogue
<1>2. AreNames(k.columns) /\ (IsForeignKey(k) => k.columns # <<>>)
  BY <1>1 DEF IsConstraint
<1>3. PICK n \in Nat : n = Len(k.columns) /\ DOMAIN k.columns = 1..n
                       /\ k.columns \in [1..n -> ToSet(k.columns)]
  BY <1>2, NamesKnown
<1>4. { u \in KeyColumnUsage(c) : u.name = k.name /\ u.table = t }
        = { UsageRow(t, k, i) : i \in 1..n }
  BY <1>3, OwnUsage
<1>5. CASE n = 0
  <2>1. k.columns = <<>>
    BY <1>3, <1>5
  <2>2. { UsageRow(t, k, i) : i \in 1..n } = {}
    BY <1>5
  <2>3. OwnRows(c, t, k) = {NoRow}
    BY <1>4, <2>2 DEF OwnRows, LeftJoined
  <2> QED
    BY <1>2, <1>3, <1>5, <2>1, <2>3
<1>6. CASE n # 0
  <2>1. { UsageRow(t, k, i) : i \in 1..n } # {}
    BY <1>6
  <2>2. OwnRows(c, t, k) = { UsageRow(t, k, i) : i \in 1..n }
    BY <1>4, <2>1 DEF OwnRows, LeftJoined
  <2> QED
    BY <1>2, <1>3, <1>6, <2>2
<1> QED
  BY <1>5, <1>6

(***************************************************************************)
(* Their positions and names, and the entries that an aggregate makes of   *)
(* them.                                                                   *)
(***************************************************************************)
LEMMA OwnRowsTyped ==
    ASSUME NEW d, NEW c, IsCatalogue(d, c), NEW t \in DOMAIN c, NEW k \in c[t].constraints
    PROVE  /\ \A u \in OwnRows(c, t, k) :
                u.position \in Nat /\ (u.column = Null \/ IsName(u.column))
           /\ UNION { ToSet(Entries(u.column)) : u \in OwnRows(c, t, k) }
                = ToSet(Aggregate(k.columns))
<1>1. AreNames(k.columns)
  BY OwnRowsKnown
<1>2. PICK n \in Nat : n = Len(k.columns)
  BY <1>1, NamesKnown
<1>3. /\ k.columns \in [1..n -> ToSet(k.columns)]
      /\ \A i \in 1..n : IsName(k.columns[i])
      /\ \A x \in ToSet(k.columns) : IsName(x)
  BY <1>1, <1>2, NamesKnown
<1>4. ToSet(Aggregate(k.columns)) = UNION { ToSet(Entries(k.columns[i])) : i \in 1..n }
  BY <1>3, AggregateSet
<1>5. CASE n = 0
  <2>1. OwnRows(c, t, k) = {NoRow}
    BY <1>2, <1>5, OwnRowsKnown
  <2>2. ToSet(Entries(NoRow.column)) = {}
    BY NoRowParts DEF Entries, ToSet
  <2>3. UNION { ToSet(Entries(u.column)) : u \in OwnRows(c, t, k) } = {}
    BY <2>1, <2>2
  <2>4. UNION { ToSet(Entries(k.columns[i])) : i \in 1..n } = {}
    BY <1>5
  <2> QED
    BY <1>4, <2>1, <2>3, <2>4, NoRowParts
<1>6. CASE n # 0
  <2>1. OwnRows(c, t, k) = { UsageRow(t, k, i) : i \in 1..n }
    BY <1>2, <1>6, OwnRowsKnown
  <2>2. \A i \in 1..n : UsageRow(t, k, i).column = k.columns[i] /\ UsageRow(t, k, i).position = i
    BY UsageParts
  <2>3. \A u \in OwnRows(c, t, k) : u.position \in Nat /\ IsName(u.column)
    BY <1>3, <2>1, <2>2
  <2>4. { ToSet(Entries(u.column)) : u \in OwnRows(c, t, k) }
          = { ToSet(Entries(k.columns[i])) : i \in 1..n }
    BY <2>1, <2>2
  <2> QED
    BY <1>4, <2>3, <2>4
<1> QED
  BY <1>5, <1>6

(***************************************************************************)
(* A left join has rows.                                                   *)
(***************************************************************************)
LEMMA LeftJoinedSome == ASSUME NEW rows PROVE LeftJoined(rows) # {}
BY DEF LeftJoined

(***************************************************************************)
(* A constraint is joined to some references, if only to a missing row.    *)
(***************************************************************************)
LEMMA ReferencesSome == ASSUME NEW c, NEW k PROVE References(c, k) # {}
<1>1. PICK own : own = { r \in ReferentialConstraints(c) : r.name = k.name }
  OBVIOUS
<1>2. PICK r, f : r \in LeftJoined(own) /\ f \in LeftJoined(own \cup k.elsewhere)
  BY LeftJoinedSome
<1>3. CASE dialect = "sqlserver"
  <2>1. PICK A, B : A = LeftJoined(own) /\ B = LeftJoined(own \cup k.elsewhere)
    OBVIOUS
  <2>2. References(c, k) = UNION { { Ruled(q, g) : g \in B } : q \in A }
    BY <1>1, <1>3, <2>1 DEF References
  <2>3. Ruled(r, f) \in UNION { { Ruled(q, g) : g \in B } : q \in A }
    BY <1>2, <2>1
  <2> QED
    BY <2>2, <2>3
<1>4. CASE dialect # "sqlserver"
  BY <1>1, <1>2, <1>4 DEF References
<1> QED
  BY <1>3, <1>4

(***************************************************************************)
(* So has the join with the view of used columns, which in PostgreSQL does *)
(* not depend on the row of key columns.                                   *)
(***************************************************************************)
LEMMA UsedSome ==
    ASSUME NEW c, NEW k, NEW u, NEW r
    PROVE  /\ UsedColumns(c, k, u, r) # {}
           /\ dialect = "postgres" => \A v : UsedColumns(c, k, v, r) = UsedColumns(c, k, u, r)
BY LeftJoinedSome DEF UsedColumns

(***************************************************************************)
(* So a constraint has rows, and groups of them.                           *)
(***************************************************************************)
LEMMA RowsSome ==
    ASSUME NEW c, NEW t, NEW k
    PROVE  /\ ConstraintRows(c, t, k) # {}
           /\ Groups(ConstraintRows(c, t, k)) # {}
<1>1. PICK u : u \in OwnRows(c, t, k)
  BY LeftJoinedSome DEF OwnRows
<1>2. PICK r : r \in References(c, k)
  BY ReferencesSome
<1>3. PICK g : g \in UsedColumns(c, k, u, r)
  BY UsedSome
<1>4. ConstraintRows(c, t, k) # {}
  BY <1>1, <1>2, <1>3, JoinedHas
<1>5. PICK R, x : R = ConstraintRows(c, t, k) /\ x \in R
  BY <1>4
<1>6. Groups(R) # {}
  <2>1. CASE dialect = "postgres"
    <3>1. { row \in R : row.table = x.table /\ row.rule = x.rule } \in Groups(R)
      BY <1>5, <2>1 DEF Groups
    <3> QED
      BY <3>1
  <2>2. CASE dialect # "postgres"
    BY <2>2 DEF Groups
  <2> QED
    BY <2>1, <2>2
<1> QED
  BY <1>4, <1>5, <1>6

(***************************************************************************)
(* Every group of rows has each of the own rows of the constraint:         *)
(* grouping by what the constraint refers to does not lose columns.        *)
(***************************************************************************)
LEMMA GroupRows ==
    ASSUME NEW c, NEW t, NEW k, NEW group \in Groups(ConstraintRows(c, t, k))
    PROVE  /\ group \subseteq ConstraintRows(c, t, k)
           /\ \A row \in group : \E u \in OwnRows(c, t, k) :
                row.position = u.position /\ row.column = u.column
           /\ \A u \in OwnRows(c, t, k) : \E row \in group : row.column = u.column
<1>1. PICK rows : rows = ConstraintRows(c, t, k)
  OBVIOUS
<1>2. group \subseteq rows
  BY <1>1 DEF Groups
<1>3. ASSUME NEW row \in rows
      PROVE  \E u \in OwnRows(c, t, k) : row.position = u.position /\ row.column = u.column
  <2>1. PICK u, r, g : IsJoined(c, t, k, row, u, r, g)
    BY <1>1, JoinedSource
  <2>2. row.position = u.position /\ row.column = u.column
    BY <2>1, JoinedParts DEF IsJoined
  <2> QED
    BY <2>1, <2>2 DEF IsJoined
<1>4. ASSUME NEW v \in OwnRows(c, t, k)
      PROVE  \E row \in group : row.column = v.column
  <2>1. CASE dialect = "postgres"
    <3>1. PICK x \in rows : group = { row \in rows : row.table = x.table /\ row.rule = x.rule }
      BY <1>1, <2>1 DEF Groups
    <3>2. PICK u, r, g : IsJoined(c, t, k, x, u, r, g)
      BY <1>1, JoinedSource
    <3>3. g \in UsedColumns(c, k, v, r)
      BY <2>1, <3>2, UsedSome DEF IsJoined
    <3>4. PICK y : y = JoinedRow(v, r, g)
      OBVIOUS
    <3>5. y \in rows
      BY <1>1, <3>2, <3>3, <3>4, JoinedHas DEF IsJoined
    <3>6. y.column = v.column /\ y.table = x.table /\ y.rule = x.rule
      BY <3>2, <3>4, JoinedParts DEF IsJoined
    <3> QED
      BY <3>1, <3>5, <3>6
  <2>2. CASE dialect # "postgres"
    <3>1. group = rows
      BY <1>1, <2>2 DEF Groups
    <3>2. PICK r : r \in References(c, k)
      BY ReferencesSome
    <3>3. PICK g : g \in UsedColumns(c, k, v, r)
      BY UsedSome
    <3>4. PICK y : y = JoinedRow(v, r, g)
      OBVIOUS
    <3>5. y \in rows
      BY <1>1, <3>2, <3>3, <3>4, JoinedHas
    <3>6. y.column = v.column
      BY <3>4, JoinedParts
    <3> QED
      BY <3>1, <3>5, <3>6
  <2> QED
    BY <2>1, <2>2
<1> QED
  BY <1>1, <1>2, <1>3, <1>4

(***************************************************************************)
(* The image of a finite set is finite.                                    *)
(***************************************************************************)
LEMMA FiniteImage ==
    ASSUME NEW S, IsFiniteSet(S), NEW f
    PROVE  IsFiniteSet({ f[x] : x \in S })
<1>1. PICK T : T = { f[x] : x \in S }
  OBVIOUS
<1>2. PICK g : g = [x \in S |-> f[x]]
  OBVIOUS
<1>3. g \in [S -> T] /\ \A y \in T : \E x \in S : g[x] = y
  BY <1>1, <1>2
<1>4. g \in Surjection(S, T)
  BY <1>3 DEF Surjection
<1>5. IsFiniteSet(T)
  BY <1>4, FS_Surjection DEF ExistsSurjection
<1> QED
  BY <1>1, <1>5

(***************************************************************************)
(* The view of key columns is finite.                                      *)
(***************************************************************************)
LEMMA UsageFinite ==
    ASSUME NEW d, NEW c, IsCatalogue(d, c)
    PROVE  IsFiniteSet(KeyColumnUsage(c))
<1>1. IsFiniteSet(Constraints(c))
  BY DEF IsCatalogue
<1>2. PICK f : f = [tk \in Constraints(c) |->
                      { UsageRow(tk[1], tk[2], i) : i \in DOMAIN tk[2].columns }]
  OBVIOUS
<1>3. IsFiniteSet({ f[tk] : tk \in Constraints(c) })
  BY <1>1, FiniteImage
<1>4. KeyColumnUsage(c) = UNION { f[tk] : tk \in Constraints(c) }
  BY <1>2 DEF KeyColumnUsage, UsageRow
<1>5. ASSUME NEW tk \in Constraints(c)
      PROVE  IsFiniteSet(f[tk])
  <2>1. PICK t \in DOMAIN c : \E k \in c[t].constraints : tk = <<t, k>>
    BY InConstraints
  <2>2. PICK k \in c[t].constraints : tk = <<t, k>>
    BY <2>1
  <2>3. tk[1] = t /\ tk[2] = k
    BY <2>2
  <2>4. PICK n \in Nat : DOMAIN k.columns = 1..n
    BY OwnRowsKnown, NamesKnown
  <2>5. PICK h : h = [i \in 1..n |-> UsageRow(t, k, i)]
    OBVIOUS
  <2>6. f[tk] = { h[i] : i \in 1..n }
    BY <1>2, <2>3, <2>4, <2>5
  <2>7. IsFiniteSet(1..n)
    BY FS_Interval
  <2> QED
    BY <2>6, <2>7, FiniteImage
<1> QED
  BY <1>3, <1>4, <1>5, FS_UNION

(***************************************************************************)
(* A left join of finitely many rows is finite.                            *)
(***************************************************************************)
LEMMA LeftJoinedFinite ==
    ASSUME NEW rows, IsFiniteSet(rows)
    PROVE  IsFiniteSet(LeftJoined(rows))
<1>1. IsFiniteSet({NoRow})
  BY FS_Singleton
<1> QED
  BY <1>1 DEF LeftJoined

(***************************************************************************)
(* The references of a constraint are finite.                              *)
(***************************************************************************)
LEMMA ReferencesFinite ==
    ASSUME NEW d, NEW c, IsCatalogue(d, c), NEW k, IsFiniteSet(k.elsewhere)
    PROVE  IsFiniteSet(References(c, k))
<1>1. IsFiniteSet(Constraints(c))
  BY DEF IsCatalogue
<1>2. PICK S : S = { tk \in Constraints(c) : IsForeignKey(tk[2]) }
  OBVIOUS
<1>3. IsFiniteSet(S)
  <2>1. S \in SUBSET Constraints(c)
    BY <1>2
  <2> QED
    BY <1>1, <2>1, FS_Subset
<1>4. PICK f : f = [tk \in S |-> [table |-> tk[1], name |-> tk[2].name, rule |-> tk[2].rule,
                                  key |-> tk[2].references.key]]
  OBVIOUS
<1>5. ReferentialConstraints(c) = { f[tk] : tk \in S }
  BY <1>2, <1>4 DEF ReferentialConstraints
<1>6. IsFiniteSet(ReferentialConstraints(c))
  BY <1>3, <1>5, FiniteImage
<1>7. PICK R : R = { r \in ReferentialConstraints(c) : r.name = k.name }
  OBVIOUS
<1>8. IsFiniteSet(R)
  <2>1. R \in SUBSET ReferentialConstraints(c)
    BY <1>7
  <2> QED
    BY <1>6, <2>1, FS_Subset
<1>9. PICK A, B : A = LeftJoined(R) /\ B = LeftJoined(R \cup k.elsewhere)
  OBVIOUS
<1>10. IsFiniteSet(A) /\ IsFiniteSet(B)
  <2>1. IsFiniteSet(R \cup k.elsewhere)
    BY <1>8, FS_Union
  <2> QED
    BY <1>8, <1>9, <2>1, LeftJoinedFinite
<1>11. CASE dialect # "sqlserver"
  BY <1>7, <1>9, <1>10, <1>11 DEF References
<1>12. CASE dialect = "sqlserver"
  <2> DEFINE Of(r) == { Ruled(r, b) : b \in B }
  <2>1. References(c, k) = UNION { Of(r) : r \in A }
    BY <1>7, <1>9, <1>12 DEF References
  <2>2. ASSUME NEW r
        PROVE  IsFiniteSet(Of(r))
    <3>1. PICK g : g = [b \in B |-> Ruled(r, b)]
      OBVIOUS
    <3>2. Of(r) = { g[b] : b \in B }
      BY <3>1
    <3> HIDE DEF Of
    <3> QED
      BY <1>10, <3>2, FiniteImage
  <2> HIDE DEF Of
  <2>3. PICK h : h = [r \in A |-> Of(r)]
    OBVIOUS
  <2>4. PICK W : W = { h[r] : r \in A }
    OBVIOUS
  <2>5. IsFiniteSet(W)
    BY <1>10, <2>4, FiniteImage
  <2>6. W = { Of(r) : r \in A }
    BY <2>3, <2>4
  <2>7. \A T \in W : IsFiniteSet(T)
    BY <2>2, <2>6
  <2>8. IsFiniteSet(UNION W)
    BY <2>5, <2>7, FS_UNION
  <2> QED
    BY <2>1, <2>6, <2>8
<1> QED
  BY <1>11, <1>12

(***************************************************************************)
(* The columns that are used are finite.                                   *)
(***************************************************************************)
LEMMA UsedFinite ==
    ASSUME NEW d, NEW c, IsCatalogue(d, c), NEW k, NEW u, NEW r
    PROVE  IsFiniteSet(UsedColumns(c, k, u, r))
<1>1. IsFiniteSet(KeyColumnUsage(c))
  BY UsageFinite
<1>2. PICK f : f = [v \in KeyColumnUsage(c) |->
          [name |-> v.name, table |-> IF v.type = "FOREIGN KEY" THEN v.refTable ELSE v.table,
           column |-> IF v.type = "FOREIGN KEY" THEN v.refColumn ELSE v.column]]
  OBVIOUS
<1>3. ConstraintColumnUsage(c) = { f[v] : v \in KeyColumnUsage(c) }
  BY <1>2 DEF ConstraintColumnUsage
<1>4. IsFiniteSet(ConstraintColumnUsage(c))
  BY <1>1, <1>3, FiniteImage
<1>5. ASSUME NEW name
      PROVE  IsFiniteSet(LeftJoined({ g \in ConstraintColumnUsage(c) : g.name = name }))
  <2>1. PICK G : G = { g \in ConstraintColumnUsage(c) : g.name = name }
    OBVIOUS
  <2>2. G \in SUBSET ConstraintColumnUsage(c)
    BY <2>1
  <2>3. IsFiniteSet(G)
    BY <1>4, <2>2, FS_Subset
  <2> QED
    BY <2>1, <2>3, LeftJoinedFinite
<1>6. \A x : IsFiniteSet({x})
  BY FS_Singleton
<1> QED
  BY <1>5, <1>6 DEF UsedColumns

(***************************************************************************)
(* The rows of a constraint are finite, so they can be sorted.             *)
(***************************************************************************)
LEMMA RowsFinite ==
    ASSUME NEW d, NEW c, IsCatalogue(d, c), NEW t \in DOMAIN c, NEW k \in c[t].constraints
    PROVE  IsFiniteSet(ConstraintRows(c, t, k))
<1>1. PICK U, R : U = OwnRows(c, t, k) /\ R = References(c, k)
  OBVIOUS
<1>2. IsFiniteSet(U) /\ IsFiniteSet(R)
  <2>1. PICK V : V = { u \in KeyColumnUsage(c) : u.name = k.name /\ u.table = t }
    OBVIOUS
  <2>2. V \in SUBSET KeyColumnUsage(c) /\ IsFiniteSet(KeyColumnUsage(c))
    BY <2>1, UsageFinite
  <2>3. IsFiniteSet(V)
    BY <2>2, FS_Subset
  <2>4. IsFiniteSet(U)
    BY <1>1, <2>1, <2>3, LeftJoinedFinite DEF OwnRows
  <2>5. IsFiniteSet(R)
    <3>1. IsFiniteSet(k.elsewhere)
      BY DEF IsCatalogue, IsConstraint
    <3> QED
      BY <1>1, <3>1, ReferencesFinite
  <2> QED
    BY <2>4, <2>5
<1> DEFINE Of(u, r) == { JoinedRow(u, r, g) : g \in UsedColumns(c, k, u, r) }
<1>3. ASSUME NEW u, NEW r
      PROVE  IsFiniteSet(Of(u, r))
  <2>1. PICK G : G = UsedColumns(c, k, u, r)
    OBVIOUS
  <2>2. IsFiniteSet(G)
    BY <2>1, UsedFinite
  <2>3. PICK f : f = [g \in G |-> JoinedRow(u, r, g)]
    OBVIOUS
  <2>4. Of(u, r) = { f[g] : g \in G }
    BY <2>1, <2>3
  <2> HIDE DEF Of
  <2> QED
    BY <2>2, <2>4, FiniteImage
<1>4. ConstraintRows(c, t, k) = UNION { UNION { Of(u, r) : r \in R } : u \in U }
  BY <1>1 DEF ConstraintRows, JoinedRow, OwnRows
<1> HIDE DEF Of
<1>5. ASSUME NEW u
      PROVE  IsFiniteSet(UNION { Of(u, r) : r \in R })
  <2>1. PICK f : f = [r \in R |-> Of(u, r)]
    OBVIOUS
  <2>2. PICK W : W = { f[r] : r \in R }
    OBVIOUS
  <2>3. IsFiniteSet(W)
    BY <1>2, <2>2, FiniteImage
  <2>4. W = { Of(u, r) : r \in R }
    BY <2>1, <2>2
  <2>5. \A T \in W : IsFiniteSet(T)
    BY <1>3, <2>4
  <2>6. IsFiniteSet(UNION W)
    BY <2>3, <2>5, FS_UNION
  <2> QED
    BY <2>4, <2>6
<1>6. PICK f : f = [u \in U |-> UNION { Of(u, r) : r \in R }]
  OBVIOUS
<1>7. PICK W : W = { f[u] : u \in U }
  OBVIOUS
<1>8. IsFiniteSet(W)
  BY <1>2, <1>7, FiniteImage
<1>9. W = { UNION { Of(u, r) : r \in R } : u \in U }
  BY <1>6, <1>7
<1>10. \A T \in W : IsFiniteSet(T)
  BY <1>5, <1>9
<1>11. IsFiniteSet(UNION W)
  BY <1>8, <1>10, FS_UNION
<1> QED
  BY <1>4, <1>9, <1>11

(***************************************************************************)
(* However often its rows are repeated, an entry has the columns of its    *)
(* constraint and no others.                                               *)
(***************************************************************************)
LEMMA OwnColumns ==
    ASSUME NEW d, NEW c, IsCatalogue(d, c), NEW t \in DOMAIN c, NEW k \in c[t].constraints,
           NEW group \in Groups(ConstraintRows(c, t, k))
    PROVE  LET entry == ConstraintOf(k, group)
           IN  /\ entry.name = k.name /\ entry.type = k.type
               /\ ToSet(entry.columns) = ToSet(Aggregate(k.columns))
<1>1. IsFiniteSet(group)
  <2>1. group \in SUBSET ConstraintRows(c, t, k)
    BY GroupRows
  <2> QED
    BY <2>1, RowsFinite, FS_Subset
<1>2. PICK U : U = OwnRows(c, t, k)
  OBVIOUS
<1>3. /\ \A u \in U : u.position \in Nat /\ (u.column = Null \/ IsName(u.column))
      /\ UNION { ToSet(Entries(u.column)) : u \in U } = ToSet(Aggregate(k.columns))
  BY <1>2, OwnRowsTyped
<1>4. /\ \A row \in group : \E u \in U : row.position = u.position /\ row.column = u.column
      /\ \A u \in U : \E row \in group : row.column = u.column
  BY <1>2, GroupRows
<1>5. \A row \in group : row.position \in Nat /\ (row.column = Null \/ IsName(row.column))
  BY <1>3, <1>4
<1>6. PICK n, sorted : /\ n \in Nat /\ sorted = ByPosition(group)
                       /\ sorted \in [1..n -> group]
                       /\ \A row \in group : \E i \in 1..n : sorted[i] = row
  <2>1. /\ InPositionOrder(ByPosition(group), group, Cardinality(group))
        /\ Cardinality(group) \in Nat
        /\ \A x \in group : \E i \in 1..Cardinality(group) : ByPosition(group)[i] = x
    BY <1>1, <1>5, ByPositionSorted
  <2>2. PICK n, b : n = Cardinality(group) /\ b = ByPosition(group)
    OBVIOUS
  <2>3. n \in Nat /\ b \in [1..n -> group] /\ \A row \in group : \E i \in 1..n : b[i] = row
    BY <2>1, <2>2 DEF InPositionOrder
  <2> QED
    BY <2>2, <2>3
<1>7. PICK names : names = [i \in 1..n |-> sorted[i].column]
  OBVIOUS
<1>8. PICK X : X = { row.column : row \in group }
  OBVIOUS
<1>9. names \in [1..n -> X] /\ \A x \in X : x = Null \/ IsName(x)
  BY <1>5, <1>6, <1>7, <1>8
<1>10. ToSet(Aggregate(names)) = UNION { ToSet(Entries(names[i])) : i \in 1..n }
  <2>1. n \in Nat
    BY <1>6
  <2> QED
    BY <1>9, <2>1, AggregateSet
<1>11. { ToSet(Entries(names[i])) : i \in 1..n } = { ToSet(Entries(u.column)) : u \in U }
  <2>1. \A i \in 1..n : \E u \in U : names[i] = u.column
    BY <1>4, <1>6, <1>7
  <2>2. \A u \in U : \E i \in 1..n : names[i] = u.column
    BY <1>4, <1>6, <1>7
  <2> QED
    BY <2>1, <2>2
<1>12. ConstraintOf(k, group).columns = Aggregate(names)
  <2>1. DOMAIN sorted = 1..n
    BY <1>6
  <2>2. ConstraintOf(k, group).columns = Aggregate([i \in DOMAIN sorted |-> sorted[i].column])
    BY <1>6 DEF ConstraintOf
  <2> QED
    BY <1>7, <2>1, <2>2
<1>13. ConstraintOf(k, group).name = k.name /\ ConstraintOf(k, group).type = k.type
  BY DEF ConstraintOf
<1> QED
  BY <1>3, <1>10, <1>11, <1>12, <1>13

-----------------------------------------------------------------------------
(***************************************************************************)
(* Constraints as declared. Where JoinsOnce holds, each of the joins leads *)
(* to one row.                                                             *)
(***************************************************************************)

\* No other constraint has the name of this one.
IsAlone(c, t, k) == \A tk \in Constraints(c) : tk[2].name = k.name => tk = <<t, k>>

\* The row of references of a foreign key.
ReferenceRow(t, k) ==
    [table |-> t, name |-> k.name, rule |-> k.rule, key |-> k.references.key]

\* The row of a used column.
UsedColumn(u) ==
    [name |-> u.name, table |-> IF u.type = "FOREIGN KEY" THEN u.refTable ELSE u.table,
     column |-> IF u.type = "FOREIGN KEY" THEN u.refColumn ELSE u.column]

(***************************************************************************)
(* The fields of a reference.                                              *)
(***************************************************************************)
LEMMA ReferenceParts ==
    ASSUME NEW t, NEW k
    PROVE  LET r == ReferenceRow(t, k)
           IN  r.name = k.name /\ r.rule = k.rule /\ r.key = k.references.key
BY DEF ReferenceRow

(***************************************************************************)
(* The fields of a column that is used.                                    *)
(***************************************************************************)
LEMMA UsedParts ==
    ASSUME NEW u
    PROVE  LET g == UsedColumn(u)
           IN  /\ g.name = u.name
               /\ u.type = "FOREIGN KEY" => g.table = u.refTable /\ g.column = u.refColumn
               /\ u.type # "FOREIGN KEY" => g.table = u.table /\ g.column = u.column
BY DEF UsedColumn

(***************************************************************************)
(* Which references there are.                                             *)
(***************************************************************************)
LEMMA InReferential ==
    ASSUME NEW c, NEW r
    PROVE  r \in ReferentialConstraints(c)
             <=> \E t \in DOMAIN c : \E k \in c[t].constraints :
                   IsForeignKey(k) /\ r = ReferenceRow(t, k)
<1>1. ASSUME r \in ReferentialConstraints(c)
      PROVE  \E t \in DOMAIN c : \E k \in c[t].constraints :
                   IsForeignKey(k) /\ r = ReferenceRow(t, k)
  <2>1. PICK tk \in Constraints(c) :
            IsForeignKey(tk[2]) /\ r = ReferenceRow(tk[1], tk[2])
    BY <1>1 DEF ReferentialConstraints, ReferenceRow
  <2>2. PICK t \in DOMAIN c : \E k \in c[t].constraints : tk = <<t, k>>
    BY InConstraints
  <2>3. PICK k \in c[t].constraints : tk = <<t, k>>
    BY <2>2
  <2>4. tk[1] = t /\ tk[2] = k
    BY <2>3
  <2> QED
    BY <2>1, <2>4
<1>2. ASSUME NEW t \in DOMAIN c, NEW k \in c[t].constraints, IsForeignKey(k),
             r = ReferenceRow(t, k)
      PROVE  r \in ReferentialConstraints(c)
  <2>1. PICK tk : tk = <<t, k>>
    OBVIOUS
  <2>2. tk \in Constraints(c)
    BY <2>1, InConstraints
  <2>3. tk[1] = t /\ tk[2] = k
    BY <2>1
  <2>4. IsForeignKey(tk[2]) /\ r = ReferenceRow(tk[1], tk[2])
    BY <1>2, <2>3
  <2> QED
    BY <2>2, <2>4 DEF ReferentialConstraints, ReferenceRow
<1> QED
  BY <1>1, <1>2

(***************************************************************************)
(* Which columns are used.                                                 *)
(***************************************************************************)
LEMMA InColumnUsage ==
    ASSUME NEW c
    PROVE  ConstraintColumnUsage(c) = { UsedColumn(u) : u \in KeyColumnUsage(c) }
BY DEF ConstraintColumnUsage, UsedColumn

(***************************************************************************)
(* A name that is used once leads to the columns of that constraint.       *)
(***************************************************************************)
LEMMA AloneUsed ==
    ASSUME NEW c, NEW t \in DOMAIN c, NEW k \in c[t].constraints, IsAlone(c, t, k)
    PROVE  { g \in ConstraintColumnUsage(c) : g.name = k.name }
             = { UsedColumn(UsageRow(t, k, i)) : i \in DOMAIN k.columns }
<1>1. ASSUME NEW g \in ConstraintColumnUsage(c), g.name = k.name
      PROVE  \E i \in DOMAIN k.columns : g = UsedColumn(UsageRow(t, k, i))
  <2>1. PICK u \in KeyColumnUsage(c) : g = UsedColumn(u)
    BY InColumnUsage
  <2>2. PICK s, l, i : IsUsage(c, u, s, l, i)
    BY UsageSource
  <2>3. /\ s \in DOMAIN c /\ l \in c[s].constraints /\ i \in DOMAIN l.columns
        /\ u = UsageRow(s, l, i)
    BY <2>2 DEF IsUsage
  <2>4. u.name = l.name
    BY <2>3, UsageParts
  <2>5. g.name = u.name
    BY <2>1, UsedParts
  <2>6. PICK tk : tk = <<s, l>>
    OBVIOUS
  <2>7. tk \in Constraints(c) /\ tk[1] = s /\ tk[2] = l
    BY <2>3, <2>6, InConstraints
  <2>8. tk = <<t, k>>
    BY <1>1, <2>4, <2>5, <2>7 DEF IsAlone
  <2>9. s = t /\ l = k
    BY <2>6, <2>8
  <2> QED
    BY <2>1, <2>3, <2>9
<1>2. ASSUME NEW i \in DOMAIN k.columns
      PROVE  /\ UsedColumn(UsageRow(t, k, i)) \in ConstraintColumnUsage(c)
             /\ UsedColumn(UsageRow(t, k, i)).name = k.name
  <2>1. PICK u : u = UsageRow(t, k, i)
    OBVIOUS
  <2>2. u \in KeyColumnUsage(c) /\ u.name = k.name
    BY <2>1, UsageHas, UsageParts
  <2>3. UsedColumn(u) \in ConstraintColumnUsage(c)
    BY <2>2, InColumnUsage
  <2>4. UsedColumn(u).name = u.name
    BY UsedParts
  <2> QED
    BY <2>1, <2>2, <2>3, <2>4
<1> QED
  BY <1>1, <1>2

(***************************************************************************)
(* Where the joins are one to one, a name leads to one constraint, or to   *)
(* one foreign key in MySQL.                                               *)
(***************************************************************************)
LEMMA NamedOnce ==
    ASSUME NEW c, IsCatalogue(dialect, c), NEW t \in DOMAIN c, NEW k \in c[t].constraints,
           JoinsOnce(c, k), dialect \in Dialects
    PROVE  /\ dialect \in {"postgres", "sqlserver"} => IsAlone(c, t, k)
           /\ \A s \in DOMAIN c : \A l \in c[s].constraints :
                \A p \in DOMAIN c : \A m \in c[p].constraints :
                  IsForeignKey(l) /\ l.name = k.name /\ IsForeignKey(m) /\ m.name = k.name
                    => s = p /\ l = m
           /\ IsForeignKey(k) => \A s \in DOMAIN c : \A l \in c[s].constraints :
                  IsForeignKey(l) /\ l.name = k.name => s = t /\ l = k
<1>1. PICK one : one = <<t, k>>
  OBVIOUS
<1>2. one \in Constraints(c) /\ one[2] = k
  BY <1>1, InConstraints
<1>3. ASSUME dialect = "postgres"
      PROVE  IsAlone(c, t, k)
  <2>1. ~ \E x, y \in Constraints(c) : x # y /\ x[2].name = k.name /\ y[2].name = k.name
    BY <1>3 DEF JoinsOnce
  <2> QED
    BY <1>1, <1>2, <2>1 DEF IsAlone
<1>4. \A x, y \in Constraints(c) :
         /\ x[2].name = y[2].name
         /\ \/ dialect = "sqlserver"
            \/ dialect = "mysql" /\ IsForeignKey(x[2]) /\ IsForeignKey(y[2])
         => x = y
  BY DEF IsCatalogue
<1>5. ASSUME dialect = "sqlserver"
      PROVE  IsAlone(c, t, k)
  BY <1>1, <1>2, <1>4, <1>5 DEF IsAlone
<1>6. ASSUME NEW s \in DOMAIN c, NEW l \in c[s].constraints,
             NEW p \in DOMAIN c, NEW m \in c[p].constraints,
             IsForeignKey(l), l.name = k.name, IsForeignKey(m), m.name = k.name
      PROVE  s = p /\ l = m
  <2>1. PICK x, y : x = <<s, l>> /\ y = <<p, m>>
    OBVIOUS
  <2>2. /\ x \in Constraints(c) /\ x[2] = l
        /\ y \in Constraints(c) /\ y[2] = m
    BY <2>1, InConstraints
  <2>3. x = y
    <3>1. CASE dialect = "mysql"
      BY <1>4, <1>6, <2>2, <3>1
    <3>2. CASE dialect \in {"postgres", "sqlserver"}
      <4>1. IsAlone(c, t, k)
        BY <1>3, <1>5, <3>2
      <4> QED
        BY <1>6, <2>2, <4>1 DEF IsAlone
    <3> QED
      BY <3>1, <3>2 DEF Dialects
  <2> QED
    BY <2>1, <2>3
<1>7. dialect \in {"postgres", "sqlserver"} => IsAlone(c, t, k)
  BY <1>3, <1>5
<1> QED
  BY <1>6, <1>7

(***************************************************************************)
(* One reference, and no namesakes in other schemas.                       *)
(***************************************************************************)
LEMMA ReferencesAlone ==
    ASSUME NEW c, NEW k, NEW r,
           LeftJoined({ q \in ReferentialConstraints(c) : q.name = k.name }) = {r},
           dialect = "sqlserver" =>
             k.elsewhere = {} /\ Ruled(r, r) = r
    PROVE  References(c, k) = {r}
<1>1. PICK own : own = { q \in ReferentialConstraints(c) : q.name = k.name }
  OBVIOUS
<1>2. CASE dialect # "sqlserver"
  BY <1>2 DEF References
<1>3. CASE dialect = "sqlserver"
  <2>1. own \cup k.elsewhere = own
    BY <1>3
  <2>2. LeftJoined(own) = {r} /\ LeftJoined(own \cup k.elsewhere) = {r}
    BY <1>1, <2>1
  <2>3. References(c, k) = UNION { { Ruled(q, f) : f \in {r} } : q \in {r} }
    BY <1>1, <1>3, <2>2 DEF References
  <2> QED
    BY <1>3, <2>3
<1> QED
  BY <1>2, <1>3

(***************************************************************************)
(* A row of references is a record.                                        *)
(***************************************************************************)
LEMMA ReferenceRecord ==
    /\ \A t, k : Ruled(ReferenceRow(t, k), ReferenceRow(t, k)) = ReferenceRow(t, k)
    /\ Ruled(NoRow, NoRow) = NoRow
BY DEF ReferenceRow, NoRow, Ruled

(***************************************************************************)
(* There a constraint has one row of references.                           *)
(***************************************************************************)
LEMMA ReferencesOnce ==
    ASSUME NEW c, IsCatalogue(dialect, c), NEW t \in DOMAIN c, NEW k \in c[t].constraints,
           JoinsOnce(c, k), dialect \in Dialects
    PROVE  \E r : /\ References(c, k) = {r}
                  /\ IsForeignKey(k) => r = ReferenceRow(t, k)
                  /\ ~ IsForeignKey(k) /\ dialect # "mysql" => r = NoRow
<1>1. PICK R : R = { r \in ReferentialConstraints(c) : r.name = k.name }
  OBVIOUS
<1>2. ASSUME NEW r \in R
      PROVE  \E s \in DOMAIN c : \E l \in c[s].constraints :
               IsForeignKey(l) /\ l.name = k.name /\ r = ReferenceRow(s, l)
  <2>1. r \in ReferentialConstraints(c) /\ r.name = k.name
    BY <1>1
  <2>2. PICK s \in DOMAIN c : \E l \in c[s].constraints :
               IsForeignKey(l) /\ r = ReferenceRow(s, l)
    BY <2>1, InReferential
  <2>3. PICK l \in c[s].constraints : IsForeignKey(l) /\ r = ReferenceRow(s, l)
    BY <2>2
  <2>4. r.name = l.name
    BY <2>3, ReferenceParts
  <2> QED
    BY <2>1, <2>3, <2>4
<1>3. ASSUME NEW r \in R, NEW q \in R
      PROVE  r = q
  <2>1. PICK s \in DOMAIN c : \E l \in c[s].constraints :
               IsForeignKey(l) /\ l.name = k.name /\ r = ReferenceRow(s, l)
    BY <1>2
  <2>2. PICK l \in c[s].constraints :
               IsForeignKey(l) /\ l.name = k.name /\ r = ReferenceRow(s, l)
    BY <2>1
  <2>3. PICK p \in DOMAIN c : \E l2 \in c[p].constraints :
               IsForeignKey(l2) /\ l2.name = k.name /\ q = ReferenceRow(p, l2)
    BY <1>2
  <2>4. PICK m \in c[p].constraints :
               IsForeignKey(m) /\ m.name = k.name /\ q = ReferenceRow(p, m)
    BY <2>3
  <2>5. s = p /\ l = m
    BY <2>2, <2>4, NamedOnce
  <2> QED
    BY <2>2, <2>4, <2>5
<1>4. \A r : /\ LeftJoined(R) = {r}
            /\ Ruled(r, r) = r
            => References(c, k) = {r}
  <2>1. dialect = "sqlserver" => k.elsewhere = {}
    BY DEF JoinsOnce
  <2> SUFFICES ASSUME NEW r, LeftJoined(R) = {r}, Ruled(r, r) = r
               PROVE  References(c, k) = {r}
    OBVIOUS
  <2> QED
    BY <1>1, <2>1, ReferencesAlone
<1>5. CASE IsForeignKey(k)
  <2>1. ReferenceRow(t, k) \in R
    <3>1. PICK r : r = ReferenceRow(t, k)
      OBVIOUS
    <3>2. r \in ReferentialConstraints(c) /\ r.name = k.name
      BY <1>5, <3>1, InReferential, ReferenceParts
    <3> QED
      BY <1>1, <3>1, <3>2
  <2>2. R = {ReferenceRow(t, k)}
    BY <1>3, <2>1
  <2>3. LeftJoined(R) = {ReferenceRow(t, k)}
    BY <2>2 DEF LeftJoined
  <2> QED
    BY <1>4, <1>5, <2>3, ReferenceRecord
<1>6. CASE ~ IsForeignKey(k)
  <2>1. CASE R = {}
    <3>1. LeftJoined(R) = {NoRow}
      BY <2>1 DEF LeftJoined
    <3> QED
      BY <1>4, <1>6, <3>1, ReferenceRecord
  <2>2. CASE R # {}
    <3>1. PICK r : r \in R
      BY <2>2
    <3>2. R = {r}
      BY <1>3, <3>1
    <3>3. LeftJoined(R) = {r} /\ Ruled(r, r) = r
      <4>1. \E s, l : r = ReferenceRow(s, l)
        BY <1>2, <3>1
      <4> QED
        BY <3>2, <4>1, ReferenceRecord DEF LeftJoined
    <3>4. dialect = "mysql"
      <4>1. PICK s \in DOMAIN c : \E l \in c[s].constraints :
               IsForeignKey(l) /\ l.name = k.name /\ r = ReferenceRow(s, l)
        BY <1>2, <3>1
      <4>2. PICK l \in c[s].constraints : IsForeignKey(l) /\ l.name = k.name
        BY <4>1
      <4>3. PICK x : x = <<s, l>>
        OBVIOUS
      <4>4. x \in Constraints(c) /\ x[2] = l
        BY <4>3, InConstraints
      <4>5. l # k
        BY <1>6, <4>2
      <4>6. ~ IsAlone(c, t, k)
        BY <4>2, <4>3, <4>4, <4>5 DEF IsAlone
      <4> QED
        BY <4>6, NamedOnce DEF Dialects
    <3> QED
      BY <1>4, <1>6, <3>3, <3>4
  <2> QED
    BY <2>1, <2>2
<1> QED
  BY <1>5, <1>6

(***************************************************************************)
(* The used columns in each dialect.                                       *)
(***************************************************************************)
LEMMA UsedCases ==
    ASSUME NEW c, NEW k, NEW u, NEW r
    PROVE  /\ dialect = "postgres" => UsedColumns(c, k, u, r)
                = LeftJoined({ g \in ConstraintColumnUsage(c) : g.name = k.name })
           /\ dialect = "sqlserver" => UsedColumns(c, k, u, r)
                = LeftJoined({ g \in ConstraintColumnUsage(c) : g.name = r.key })
           /\ dialect = "mysql" => UsedColumns(c, k, u, r)
                = { [table |-> u.refTable, column |-> u.refColumn] }
BY DEF UsedColumns

(***************************************************************************)
(* A name that is used once, by a constraint of one column.                *)
(***************************************************************************)
LEMMA AloneOnce ==
    ASSUME NEW c, IsCatalogue(dialect, c), NEW t \in DOMAIN c, NEW k \in c[t].constraints,
           IsAlone(c, t, k), Len(k.columns) = 1
    PROVE  LeftJoined({ g \in ConstraintColumnUsage(c) : g.name = k.name })
             = { UsedColumn(UsageRow(t, k, 1)) }
<1>1. DOMAIN k.columns = 1..1
  <2>1. Len(k.columns) \in Nat /\ DOMAIN k.columns = 1..Len(k.columns)
    BY OwnRowsKnown, NamesKnown
  <2> QED
    BY <2>1
<1>2. { UsedColumn(UsageRow(t, k, i)) : i \in DOMAIN k.columns }
        = { UsedColumn(UsageRow(t, k, 1)) }
  <2>1. 1..1 = {1}
    OBVIOUS
  <2> QED
    BY <1>1, <2>1
<1>3. { g \in ConstraintColumnUsage(c) : g.name = k.name }
        = { UsedColumn(UsageRow(t, k, 1)) }
  BY <1>2, AloneUsed
<1> QED
  BY <1>3 DEF LeftJoined

(***************************************************************************)
(* A missing name leads nowhere.                                           *)
(***************************************************************************)
LEMMA NamesUsed ==
    ASSUME NEW c, IsCatalogue(dialect, c)
    PROVE  { g \in ConstraintColumnUsage(c) : g.name = Null } = {}
<1>1. SUFFICES ASSUME NEW g \in ConstraintColumnUsage(c), g.name = Null
               PROVE  FALSE
  OBVIOUS
<1>2. PICK u \in KeyColumnUsage(c) : g = UsedColumn(u)
  BY InColumnUsage
<1>3. PICK s, l, i : IsUsage(c, u, s, l, i)
  BY UsageSource
<1>4. s \in DOMAIN c /\ l \in c[s].constraints /\ u = UsageRow(s, l, i)
  BY <1>3 DEF IsUsage
<1>5. g.name = l.name
  <2>1. g.name = u.name
    BY <1>2, UsedParts
  <2>2. u.name = l.name
    BY <1>4, UsageParts
  <2> QED
    BY <2>1, <2>2
<1>6. IsConstraint(l)
  BY <1>4 DEF IsCatalogue
<1> QED
  BY <1>1, <1>5, <1>6 DEF IsConstraint

(***************************************************************************)
(* In a SQL Server database a name is used once.                           *)
(***************************************************************************)
LEMMA KeyAlone ==
    ASSUME NEW c, IsCatalogue("sqlserver", c), NEW t \in DOMAIN c, NEW k \in c[t].constraints
    PROVE  IsAlone(c, t, k)
<1>1. PICK one : one = <<t, k>>
  OBVIOUS
<1>2. one \in Constraints(c) /\ one[2] = k
  BY <1>1, InConstraints
<1>3. \A x, y \in Constraints(c) : x[2].name = y[2].name => x = y
  BY DEF IsCatalogue
<1> QED
  BY <1>1, <1>2, <1>3 DEF IsAlone

(***************************************************************************)
(* Where the joins are one to one, each row of key columns is joined to    *)
(* one used column, which is the one that it refers to.                    *)
(***************************************************************************)
LEMMA UsedOnce ==
    ASSUME NEW c, IsCatalogue(dialect, c), NEW t \in DOMAIN c, NEW k \in c[t].constraints,
           JoinsOnce(c, k), dialect \in Dialects,
           NEW u \in OwnRows(c, t, k), NEW r,
           IsForeignKey(k) => r = ReferenceRow(t, k),
           ~ IsForeignKey(k) /\ dialect # "mysql" => r = NoRow
    PROVE  \E g : /\ UsedColumns(c, k, u, r) = {g}
                  /\ IsForeignKey(k) => g.table = u.refTable /\ g.column = u.refColumn
<1>1. /\ Len(k.columns) \in Nat
      /\ Len(k.columns) = 0 => OwnRows(c, t, k) = {NoRow} /\ ~ IsForeignKey(k)
      /\ Len(k.columns) # 0 =>
           OwnRows(c, t, k) = { UsageRow(t, k, i) : i \in 1..Len(k.columns) }
  BY OwnRowsKnown
<1>2. Len(k.columns) = 1 => u = UsageRow(t, k, 1)
  BY <1>1
<1>3. CASE dialect = "postgres"
  <2>1. IsAlone(c, t, k) /\ Len(k.columns) <= 1
    BY <1>3, NamedOnce DEF JoinsOnce
  <2>2. CASE Len(k.columns) = 1
    <3>1. UsedColumns(c, k, u, r) = { UsedColumn(u) }
      <4>1. LeftJoined({ g \in ConstraintColumnUsage(c) : g.name = k.name })
              = { UsedColumn(UsageRow(t, k, 1)) }
        BY <2>1, <2>2, AloneOnce
      <4>2. UsedColumns(c, k, u, r)
              = LeftJoined({ g \in ConstraintColumnUsage(c) : g.name = k.name })
        BY <1>3, UsedCases
      <4> QED
        BY <1>2, <2>2, <4>1, <4>2
    <3>2. IsForeignKey(k) => UsedColumn(u).table = u.refTable /\ UsedColumn(u).column = u.refColumn
      <4>1. u.type = k.type
        BY <1>2, <2>2, UsageParts
      <4> QED
        BY <4>1, UsedParts DEF IsForeignKey
    <3> QED
      BY <3>1, <3>2
  <2>3. CASE Len(k.columns) = 0
    <3>1. DOMAIN k.columns = {}
      <4>1. DOMAIN k.columns = 1..Len(k.columns)
        BY OwnRowsKnown, NamesKnown
      <4> QED
        BY <2>3, <4>1
    <3>2. { g \in ConstraintColumnUsage(c) : g.name = k.name } = {}
      <4>1. { UsedColumn(UsageRow(t, k, i)) : i \in DOMAIN k.columns } = {}
        BY <3>1
      <4> QED
        BY <2>1, <4>1, AloneUsed
    <3>3. UsedColumns(c, k, u, r) = {NoRow}
      BY <1>3, <3>2, UsedCases DEF LeftJoined
    <3> QED
      BY <1>1, <2>3, <3>3
  <2>4. Len(k.columns) = 0 \/ Len(k.columns) = 1
    <3>1. \A n \in Nat : n <= 1 => n = 0 \/ n = 1
      OBVIOUS
    <3> QED
      BY ONLY <1>1, <2>1, <3>1
  <2> QED
    BY <2>2, <2>3, <2>4
<1>4. CASE dialect = "sqlserver"
  <2>1. CASE IsForeignKey(k)
    <3>1. Len(k.columns) = 1
      BY <1>4, <2>1 DEF JoinsOnce
    <3>2. PICK tk \in Constraints(c) :
             /\ tk[1] = k.references.table /\ ~ IsForeignKey(tk[2])
             /\ tk[2].name = k.references.key /\ tk[2].columns = k.references.columns
      BY <1>4, <2>1 DEF JoinsOnce
    <3>3. PICK s \in DOMAIN c : \E l \in c[s].constraints : tk = <<s, l>>
      BY InConstraints
    <3>4. PICK l \in c[s].constraints : tk = <<s, l>>
      BY <3>3
    <3>5. tk[1] = s /\ tk[2] = l
      BY <3>4
    <3>6. IsAlone(c, s, l)
      BY <1>4, KeyAlone
    <3>7. Len(l.columns) = 1
      <4>1. IsConstraint(k)
        BY DEF IsCatalogue
      <4>2. Len(k.references.columns) = Len(k.columns)
        BY <2>1, <4>1 DEF IsConstraint
      <4> QED
        BY <3>1, <3>2, <3>5, <4>2
    <3>8. PICK v : v = UsageRow(s, l, 1)
      OBVIOUS
    <3>9. LeftJoined({ g \in ConstraintColumnUsage(c) : g.name = l.name }) = { UsedColumn(v) }
      BY <3>6, <3>7, <3>8, AloneOnce
    <3>10. r.key = l.name
      BY <2>1, <3>2, <3>5, ReferenceParts
    <3>11. UsedColumns(c, k, u, r) = { UsedColumn(v) }
      <4>1. UsedColumns(c, k, u, r)
              = LeftJoined({ g \in ConstraintColumnUsage(c) : g.name = r.key })
        BY <1>4, UsedCases
      <4> QED
        BY <3>9, <3>10, <4>1
    <3>12. v.type # "FOREIGN KEY" /\ v.table = s /\ v.column = l.columns[1]
      <4>1. v.table = s /\ v.type = l.type /\ v.column = l.columns[1]
        BY <3>8, UsageParts
      <4> QED
        BY <3>2, <3>5, <4>1 DEF IsForeignKey
    <3>13. UsedColumn(v).table = s /\ UsedColumn(v).column = l.columns[1]
      BY <3>12, UsedParts
    <3>14. u.refTable = k.references.table /\ u.refColumn = k.references.columns[1]
      BY <1>2, <2>1, <3>1, UsageParts
    <3>15. UsedColumn(v).table = u.refTable /\ UsedColumn(v).column = u.refColumn
      BY <3>2, <3>5, <3>13, <3>14
    <3> QED
      BY <3>11, <3>15
  <2>2. CASE ~ IsForeignKey(k)
    <3>1. r.key = Null
      BY <1>4, <2>2, NoRowParts
    <3>2. UsedColumns(c, k, u, r) = {NoRow}
      BY <1>4, <3>1, NamesUsed, UsedCases DEF LeftJoined
    <3> QED
      BY <2>2, <3>2
  <2> QED
    BY <2>1, <2>2
<1>5. CASE dialect = "mysql"
  <2>1. PICK g : g = [table |-> u.refTable, column |-> u.refColumn]
    OBVIOUS
  <2>2. g.table = u.refTable /\ g.column = u.refColumn
    BY <2>1
  <2> QED
    BY <1>5, <2>1, <2>2, UsedCases
<1> QED
  BY <1>3, <1>4, <1>5 DEF Dialects

(***************************************************************************)
(* Rows that are one group.                                                *)
(***************************************************************************)
LEMMA OneGroup ==
    ASSUME NEW rows, dialect = "postgres" => \E x : rows = {x}
    PROVE  Groups(rows) = {rows}
<1>1. CASE dialect = "postgres"
  <2>1. PICK x : rows = {x}
    BY <1>1
  <2> DEFINE Same(g) == { row \in rows : row.table = g.table /\ row.rule = g.rule }
  <2>2. Same(x) = rows
    BY <2>1
  <2>3. Groups(rows) = { Same(g) : g \in rows }
    BY <1>1 DEF Groups
  <2> HIDE DEF Same
  <2> QED
    BY <2>1, <2>2, <2>3
<1>2. CASE dialect # "postgres"
  BY <1>2 DEF Groups
<1> QED
  BY <1>1, <1>2

(***************************************************************************)
(* One row, sorted.                                                        *)
(***************************************************************************)
LEMMA SortedAlone ==
    ASSUME NEW x, x.position \in Nat
    PROVE  ByPosition({x}) = [i \in 1..1 |-> x]
<1>1. IsFiniteSet({x}) /\ Cardinality({x}) = 1
  BY FS_Singleton
<1>2. InPositionOrder(ByPosition({x}), {x}, Cardinality({x}))
  BY <1>1, ByPositionSorted
<1>3. ByPosition({x}) \in [1..1 -> {x}]
  BY <1>1, <1>2 DEF InPositionOrder
<1> QED
  BY <1>3

\* What rows in order make of a constraint.
OfRows(k, rows, rule) ==
    [name |-> k.name, type |-> k.type,
     columns |-> Aggregate([i \in DOMAIN rows |-> rows[i].column]),
     table |-> IF IsForeignKey(k) THEN rows[1].table ELSE Null,
     referenced |-> IF ~ IsForeignKey(k) THEN <<>>
                    ELSE Aggregate([i \in DOMAIN rows |-> rows[i].refColumn]),
     rule |-> IF IsForeignKey(k) THEN rule ELSE Null]

(***************************************************************************)
(* An entry is what its rows, in order, make of it.                        *)
(***************************************************************************)
LEMMA DescribedParts ==
    ASSUME NEW k, NEW group
    PROVE  ConstraintOf(k, group) = OfRows(k, ByPosition(group), RuleOf(group))
BY DEF ConstraintOf, OfRows

(***************************************************************************)
(* Rows of one rule have that rule.                                        *)
(***************************************************************************)
LEMMA RuleAlone ==
    ASSUME NEW group, NEW rule, rule # Null, group # {}, \A row \in group : row.rule = rule
    PROVE  RuleOf(group) = rule
<1>1. { row.rule : row \in group } \ {Null} = {rule}
  OBVIOUS
<1> QED
  BY <1>1 DEF RuleOf

(***************************************************************************)
(* Names without commas and blanks are listed as they are.                 *)
(***************************************************************************)
LEMMA NamesAggregate ==
    ASSUME NEW names, AreNames(names), dialect # "postgres" => IsPlain(names)
    PROVE  Aggregate(names) = names
<1>1. PICK n \in Nat : n = Len(names) /\ DOMAIN names = 1..n
                       /\ names \in [1..n -> ToSet(names)]
                       /\ \A i \in 1..n : IsName(names[i])
  BY NamesKnown
<1>2. ASSUME NEW i \in 1..n
      PROVE  Entries(names[i]) = << names[i] >>
  <2>1. dialect # "postgres" => IsWhole(names[i])
    BY <1>1 DEF IsPlain
  <2>2. IsName(names[i])
    BY <1>1
  <2> QED
    BY <2>1, <2>2, EntriesPlain
<1> QED
  BY <1>1, <1>2, AggregateSame

(***************************************************************************)
(* Where the joins are one to one, a constraint has a row for each of its  *)
(* key columns.                                                            *)
(***************************************************************************)
LEMMA RowsOnce ==
    ASSUME NEW c, IsCatalogue(dialect, c), NEW t \in DOMAIN c, NEW k \in c[t].constraints,
           JoinsOnce(c, k), dialect \in Dialects
    PROVE  \E r, h :
             /\ ConstraintRows(c, t, k) = { JoinedRow(u, r, h[u]) : u \in OwnRows(c, t, k) }
             /\ IsForeignKey(k) =>
                  /\ r.rule = k.rule
                  /\ \A u \in OwnRows(c, t, k) :
                       h[u].table = u.refTable /\ h[u].column = u.refColumn
<1>1. PICK r : /\ References(c, k) = {r}
               /\ IsForeignKey(k) => r = ReferenceRow(t, k)
               /\ ~ IsForeignKey(k) /\ dialect # "mysql" => r = NoRow
  BY ReferencesOnce
<1>2. PICK U : U = OwnRows(c, t, k)
  OBVIOUS
<1>3. ASSUME NEW u \in U
      PROVE  \E g : /\ UsedColumns(c, k, u, r) = {g}
                    /\ IsForeignKey(k) => g.table = u.refTable /\ g.column = u.refColumn
  <2>1. u \in OwnRows(c, t, k)
    BY <1>2
  <2>2. /\ IsForeignKey(k) => r = ReferenceRow(t, k)
        /\ ~ IsForeignKey(k) /\ dialect # "mysql" => r = NoRow
    BY <1>1
  <2> QED
    BY <2>1, <2>2, UsedOnce
<1>4. PICK h : h = [u \in U |-> CHOOSE g :
                       /\ UsedColumns(c, k, u, r) = {g}
                       /\ IsForeignKey(k) => g.table = u.refTable /\ g.column = u.refColumn]
  OBVIOUS
<1>5. ASSUME NEW u \in U
      PROVE  /\ UsedColumns(c, k, u, r) = {h[u]}
             /\ IsForeignKey(k) => h[u].table = u.refTable /\ h[u].column = u.refColumn
  BY <1>3, <1>4
<1>6. ASSUME NEW row \in ConstraintRows(c, t, k)
      PROVE  \E u \in U : row = JoinedRow(u, r, h[u])
  <2>1. PICK u, s, g : IsJoined(c, t, k, row, u, s, g)
    BY JoinedSource
  <2>2. u \in U /\ s = r /\ g \in UsedColumns(c, k, u, s) /\ row = JoinedRow(u, s, g)
    BY <1>1, <1>2, <2>1 DEF IsJoined
  <2>3. g = h[u]
    BY <1>5, <2>2
  <2> QED
    BY <2>2, <2>3
<1>7. ASSUME NEW u \in U
      PROVE  JoinedRow(u, r, h[u]) \in ConstraintRows(c, t, k)
  <2>1. h[u] \in UsedColumns(c, k, u, r) /\ r \in References(c, k)
    BY <1>1, <1>5
  <2> QED
    BY <1>2, <2>1, JoinedHas
<1>8. ConstraintRows(c, t, k) = { JoinedRow(u, r, h[u]) : u \in U }
  BY <1>6, <1>7
<1>9. IsForeignKey(k) => r.rule = k.rule
  BY <1>1, ReferenceParts
<1> QED
  BY <1>2, <1>5, <1>8, <1>9

(***************************************************************************)
(* A constraint without key columns, such as a check, is described as it   *)
(* is declared.                                                            *)
(***************************************************************************)
LEMMA KeylessDescribed ==
    ASSUME NEW k, ~ IsForeignKey(k), k.columns = <<>>, NEW x,
           x.position \in Nat, x.column = Null
    PROVE  ConstraintOf(k, {x}) = DeclaredConstraint(k)
<1>1. PICK rows : rows = [i \in 1..1 |-> x]
  OBVIOUS
<1>2. rows = ByPosition({x}) /\ DOMAIN rows = 1..1
  BY <1>1, SortedAlone
<1>3. [i \in DOMAIN rows |-> rows[i].column] = [i \in 1..1 |-> Null]
  BY <1>1, <1>2
<1>4. Aggregate([i \in DOMAIN rows |-> rows[i].column]) = <<>>
  BY <1>3, AggregateNull
<1>5. ConstraintOf(k, {x}) = OfRows(k, rows, RuleOf({x}))
  BY <1>2, DescribedParts
<1> QED
  BY <1>4, <1>5 DEF DeclaredConstraint, OfRows

\* The rows of a constraint of n columns, in order.
AreRowsOf(f, k, n) ==
    /\ f = [i \in 1..n |-> f[i]]
    /\ \A i \in 1..n : f[i].position = i /\ f[i].column = k.columns[i]
    /\ IsForeignKey(k) => \A i \in 1..n :
         /\ f[i].rule = k.rule /\ f[i].table = k.references.table
         /\ f[i].refColumn = k.references.columns[i]

(***************************************************************************)
(* A constraint with a row for each of its columns is described as it is   *)
(* declared.                                                               *)
(***************************************************************************)
LEMMA KeyedDescribed ==
    ASSUME NEW t, NEW k, IsConstraint(k), NEW n \in Nat \ {0}, n = Len(k.columns),
           dialect # "postgres" =>
             IsPlain(k.columns) /\ (IsForeignKey(k) => IsPlain(k.references.columns)),
           NEW f, AreRowsOf(f, k, n),
           NEW rows, rows = { f[i] : i \in 1..n }
    PROVE  ConstraintOf(k, rows) = DeclaredConstraint(k)
<1> USE DEF AreRowsOf
<1>1. f = ByPosition(rows)
  <2>1. n \in Nat /\ \A i \in 1..n : f[i].position = i
    OBVIOUS
  <2> QED
    BY <2>1, ByPositionOrder
<1>2. DOMAIN f = 1..n /\ 1 \in 1..n
  OBVIOUS
<1>3. AreNames(k.columns)
  BY DEF IsConstraint
<1>4. k.columns = [i \in 1..n |-> k.columns[i]]
  BY <1>3, NamesKnown
<1>5. Aggregate([i \in DOMAIN f |-> f[i].column]) = k.columns
  <2>1. [i \in DOMAIN f |-> f[i].column] = [i \in 1..n |-> k.columns[i]]
    BY <1>2
  <2>2. [i \in DOMAIN f |-> f[i].column] = k.columns
    BY <1>4, <2>1
  <2> QED
    BY <1>3, <2>2, NamesAggregate
<1>6. ASSUME IsForeignKey(k)
      PROVE  Aggregate([i \in DOMAIN f |-> f[i].refColumn]) = k.references.columns
  <2>1. AreNames(k.references.columns) /\ Len(k.references.columns) = n
    BY <1>6 DEF IsConstraint
  <2>2. k.references.columns = [i \in 1..n |-> k.references.columns[i]]
    BY <2>1, NamesKnown
  <2>3. [i \in DOMAIN f |-> f[i].refColumn] = [i \in 1..n |-> k.references.columns[i]]
    BY <1>2, <1>6
  <2>4. [i \in DOMAIN f |-> f[i].refColumn] = k.references.columns
    BY <2>2, <2>3
  <2> QED
    BY <1>6, <2>1, <2>4, NamesAggregate
<1>7. ConstraintOf(k, rows) = OfRows(k, f, RuleOf(rows))
  BY <1>1, DescribedParts
<1>8. ASSUME IsForeignKey(k)
      PROVE  f[1].table = k.references.table /\ RuleOf(rows) = k.rule
  <2>1. k.rule # Null
    BY <1>8 DEF IsConstraint
  <2>2. PICK rule : rule = k.rule
    OBVIOUS
  <2>4. \A i \in 1..n : f[i].rule = rule
    BY <1>8, <2>2
  <2>5. rows # {}
    BY <1>2
  <2>6. \A row \in rows : row.rule = rule
    BY ONLY <2>4, rows = { f[i] : i \in 1..n }
  <2>7. rule # Null
    BY ONLY <2>1, <2>2
  <2>8. RuleOf(rows) = rule
    BY ONLY <2>5, <2>6, <2>7, RuleAlone
  <2>3. RuleOf(rows) = k.rule
    BY ONLY <2>2, <2>8
  <2> QED
    BY <1>2, <1>8, <2>3
<1> QED
  BY <1>5, <1>6, <1>7, <1>8 DEF DeclaredConstraint, OfRows

(***************************************************************************)
(* Where the joins are one to one, a constraint has one entry, and it is   *)
(* the declaration.                                                        *)
(***************************************************************************)
LEMMA OnceDescribed ==
    ASSUME NEW c, IsCatalogue(dialect, c), NEW t \in DOMAIN c, NEW k \in c[t].constraints,
           JoinsOnce(c, k), dialect \in Dialects
    PROVE  { ConstraintOf(k, group) : group \in Groups(ConstraintRows(c, t, k)) }
             = { DeclaredConstraint(k) }
<1>1. PICK r, h :
        /\ ConstraintRows(c, t, k) = { JoinedRow(u, r, h[u]) : u \in OwnRows(c, t, k) }
        /\ IsForeignKey(k) =>
             /\ r.rule = k.rule
             /\ \A u \in OwnRows(c, t, k) :
                  h[u].table = u.refTable /\ h[u].column = u.refColumn
  BY RowsOnce
<1>2. PICK n \in Nat : n = Len(k.columns) /\ DOMAIN k.columns = 1..n
                       /\ k.columns = [i \in 1..n |-> k.columns[i]]
  <2>1. AreNames(k.columns)
    BY OwnRowsKnown
  <2> QED
    BY <2>1, NamesKnown
<1>3. /\ Len(k.columns) = 0 => OwnRows(c, t, k) = {NoRow} /\ ~ IsForeignKey(k)
      /\ Len(k.columns) # 0 =>
           OwnRows(c, t, k) = { UsageRow(t, k, i) : i \in 1..Len(k.columns) }
  BY OwnRowsKnown
<1>4. PICK rows : rows = ConstraintRows(c, t, k)
  OBVIOUS
<1>5. dialect = "postgres" => n <= 1
  BY <1>2 DEF JoinsOnce
<1>6. CASE n = 0
  <2>1. PICK x : x = JoinedRow(NoRow, r, h[NoRow])
    OBVIOUS
  <2>2. rows = {x}
    BY <1>1, <1>2, <1>3, <1>4, <1>6, <2>1
  <2>3. x.position = 0 /\ x.column = Null
    BY <2>1, JoinedParts, NoRowParts
  <2>4. Groups(rows) = {rows}
    BY <2>2, OneGroup
  <2>5. ~ IsForeignKey(k) /\ k.columns = <<>>
    BY <1>2, <1>3, <1>6
  <2>6. ConstraintOf(k, rows) = DeclaredConstraint(k)
    <3>1. x.position \in Nat
      BY <2>3
    <3> QED
      BY <2>2, <2>3, <2>5, <3>1, KeylessDescribed
  <2> QED
    BY <1>4, <2>4, <2>6
<1>7. CASE n # 0
  <2>1. OwnRows(c, t, k) = { UsageRow(t, k, i) : i \in 1..n }
    BY <1>2, <1>3, <1>7
  <2>2. PICK f : f = [i \in 1..n |-> JoinedRow(UsageRow(t, k, i), r, h[UsageRow(t, k, i)])]
    OBVIOUS
  <2>3. rows = { f[i] : i \in 1..n }
    <3>1. \A i \in 1..n : UsageRow(t, k, i) \in OwnRows(c, t, k)
      BY <2>1
    <3>2. \A u \in OwnRows(c, t, k) : \E i \in 1..n : u = UsageRow(t, k, i)
      BY <2>1
    <3>3. \A i \in 1..n : f[i] = JoinedRow(UsageRow(t, k, i), r, h[UsageRow(t, k, i)])
      BY <2>2
    <3>4. rows = { JoinedRow(u, r, h[u]) : u \in OwnRows(c, t, k) }
      BY <1>1, <1>4
    <3> QED
      BY ONLY <3>1, <3>2, <3>3, <3>4
  <2>4. ASSUME NEW i \in 1..n
        PROVE  /\ f[i].position = i /\ f[i].column = k.columns[i]
               /\ IsForeignKey(k) =>
                    /\ f[i].rule = k.rule /\ f[i].table = k.references.table
                    /\ f[i].refColumn = k.references.columns[i]
    <3>1. PICK u : u = UsageRow(t, k, i)
      OBVIOUS
    <3>2. /\ u.column = k.columns[i] /\ u.position = i
          /\ u.refTable = IF IsForeignKey(k) THEN k.references.table ELSE Null
          /\ u.refColumn = IF IsForeignKey(k) THEN k.references.columns[i] ELSE Null
      BY <3>1, UsageParts
    <3>3. PICK row : row = JoinedRow(u, r, h[u])
      OBVIOUS
    <3>4. /\ row.position = u.position /\ row.column = u.column /\ row.rule = r.rule
          /\ row.table = h[u].table /\ row.refColumn = h[u].column
      BY <3>3, JoinedParts
    <3>5. f[i] = row
      BY <2>2, <3>1, <3>3
    <3>6. u \in OwnRows(c, t, k)
      BY <2>1, <3>1
    <3>7. IsForeignKey(k) =>
            r.rule = k.rule /\ h[u].table = u.refTable /\ h[u].column = u.refColumn
      BY <1>1, <3>6
    <3> QED
      BY <3>2, <3>4, <3>5, <3>7
  <2>5. Groups(rows) = {rows}
    <3>1. dialect = "postgres" => \E x : rows = {x}
      <4>1. dialect = "postgres" => n = 1
        BY <1>5, <1>7
      <4>2. 1..1 = {1}
        OBVIOUS
      <4>3. dialect = "postgres" => rows = {f[1]}
        BY <2>3, <4>1, <4>2
      <4> QED
        BY <4>3
    <3> QED
      BY <3>1, OneGroup
  <2>6. ConstraintOf(k, rows) = DeclaredConstraint(k)
    <3>1. IsConstraint(k)
      BY DEF IsCatalogue
    <3>2. dialect # "postgres" =>
             IsPlain(k.columns) /\ (IsForeignKey(k) => IsPlain(k.references.columns))
      BY DEF JoinsOnce
    <3>3. n \in Nat \ {0} /\ n = Len(k.columns)
      BY <1>2, <1>7
    <3>4. AreRowsOf(f, k, n)
      <4>1. f = [i \in 1..n |-> f[i]]
        BY <2>2
      <4>2. \A i \in 1..n : f[i].position = i /\ f[i].column = k.columns[i]
        BY <2>4
      <4>3. IsForeignKey(k) => \A i \in 1..n :
              /\ f[i].rule = k.rule /\ f[i].table = k.references.table
              /\ f[i].refColumn = k.references.columns[i]
        BY <2>4
      <4> QED
        BY <4>1, <4>2, <4>3 DEF AreRowsOf
    <3> QED
      BY <2>3, <3>1, <3>2, <3>3, <3>4, KeyedDescribed
  <2> QED
    BY <1>4, <2>5, <2>6
<1> QED
  BY <1>6, <1>7

(***************************************************************************)
(* An entry has the name and the type of its constraint.                   *)
(***************************************************************************)
LEMMA EntryOfOwn ==
    ASSUME NEW k, NEW group
    PROVE  ConstraintOf(k, group).name = k.name /\ ConstraintOf(k, group).type = k.type
BY DEF ConstraintOf

(***************************************************************************)
(* Which entries a description has.                                        *)
(***************************************************************************)
LEMMA InDescribed ==
    ASSUME NEW c, NEW t, NEW entry
    PROVE  entry \in DescribedConstraints(c, t)
             <=> \E k \in c[t].constraints : \E group \in Groups(ConstraintRows(c, t, k)) :
                   entry = ConstraintOf(k, group)
<1> DEFINE Of(k) == { ConstraintOf(k, group) : group \in Groups(ConstraintRows(c, t, k)) }
<1>1. DescribedConstraints(c, t) = UNION { Of(k) : k \in c[t].constraints }
  BY DEF DescribedConstraints
<1>2. \A k : entry \in Of(k)
        <=> \E group \in Groups(ConstraintRows(c, t, k)) : entry = ConstraintOf(k, group)
  OBVIOUS
<1> HIDE DEF Of
<1> QED
  BY <1>1, <1>2

(***************************************************************************)
(* The section of the constraints is true of the catalogue.                *)
(***************************************************************************)
LEMMA ConstraintSections ==
    ASSUME dialect \in Dialects, NEW c \in Catalogues[dialect], NEW t
    PROVE  Agrees("constraints", Result("constraints", c, t), c, t)
<1>1. IsCatalogue(dialect, c)
  BY CatalogueKnown
<1>2. ASSUME t \in DOMAIN c, NEW k \in c[t].constraints, JoinsOnce(c, k)
      PROVE  { entry \in DescribedConstraints(c, t) : entry.name = k.name }
               = { DeclaredConstraint(k) }
  <2>1. PICK G : G = Groups(ConstraintRows(c, t, k))
    OBVIOUS
  <2>2. { ConstraintOf(k, group) : group \in G } = { DeclaredConstraint(k) }
    BY <1>1, <1>2, <2>1, OnceDescribed
  <2>3. ASSUME NEW entry \in DescribedConstraints(c, t), entry.name = k.name
        PROVE  entry = DeclaredConstraint(k)
    <3>1. PICK l \in c[t].constraints : \E group \in Groups(ConstraintRows(c, t, l)) :
                   entry = ConstraintOf(l, group)
      BY InDescribed
    <3>2. PICK group \in Groups(ConstraintRows(c, t, l)) : entry = ConstraintOf(l, group)
      BY <3>1
    <3>3. l.name = k.name
      BY <2>3, <3>2, EntryOfOwn
    <3>4. l = k
      BY <1>1, <1>2, <3>3 DEF IsCatalogue
    <3> QED
      BY <2>1, <2>2, <3>2, <3>4
  <2>4. PICK group \in G : ConstraintOf(k, group) = DeclaredConstraint(k)
    BY <2>2
  <2>5. DeclaredConstraint(k) \in DescribedConstraints(c, t)
    BY <2>1, <2>4, InDescribed
  <2>6. DeclaredConstraint(k).name = k.name
    BY DEF DeclaredConstraint
  <2> QED
    BY <2>3, <2>5, <2>6
<1>3. t \in DOMAIN c => Result("constraints", c, t) = DescribedConstraints(c, t)
  BY DEF Result
<1>4. ConstraintsAgree(Result("constraints", c, t), c, t)
  BY <1>2, <1>3 DEF ConstraintsAgree
<1> QED
  BY <1>4 DEF Agrees

(***************************************************************************)
(* Every constraint has an entry.                                          *)
(***************************************************************************)
LEMMA EveryConstraint ==
    ASSUME NEW c, NEW t, NEW k \in c[t].constraints
    PROVE  \E entry \in DescribedConstraints(c, t) : entry.name = k.name
<1>1. PICK group : group \in Groups(ConstraintRows(c, t, k))
  BY RowsSome
<1>2. ConstraintOf(k, group) \in DescribedConstraints(c, t)
  BY <1>1, InDescribed
<1> QED
  BY <1>2, EntryOfOwn

(***************************************************************************)
(* Every entry is one of a constraint of the table.                        *)
(***************************************************************************)
LEMMA EveryEntry ==
    ASSUME NEW d, NEW c, IsCatalogue(d, c), NEW t \in DOMAIN c,
           NEW entry \in DescribedConstraints(c, t)
    PROVE  \E k \in c[t].constraints :
             /\ entry.name = k.name /\ entry.type = k.type
             /\ ToSet(entry.columns) = ToSet(Aggregate(k.columns))
<1>1. PICK k \in c[t].constraints : \E group \in Groups(ConstraintRows(c, t, k)) :
               entry = ConstraintOf(k, group)
  BY InDescribed
<1>2. PICK group \in Groups(ConstraintRows(c, t, k)) : entry = ConstraintOf(k, group)
  BY <1>1
<1>3. LET own == ConstraintOf(k, group)
      IN  /\ own.name = k.name /\ own.type = k.type
          /\ ToSet(own.columns) = ToSet(Aggregate(k.columns))
  BY OwnColumns
<1> QED
  BY <1>2, <1>3

-----------------------------------------------------------------------------
(***************************************************************************)
(* Descriptions: the sections in order, each true of its catalogue.        *)
(***************************************************************************)

(***************************************************************************)
(* The sections that are rows of the catalogue are true of it.             *)
(***************************************************************************)
LEMMA PlainSections ==
    ASSUME NEW statement \in {"names", "exists", "table", "info"}, NEW c, NEW t
    PROVE  Agrees(statement, Result(statement, c, t), c, t)
BY DEF Agrees, Result

(***************************************************************************)
(* A column whose default stays.                                           *)
(***************************************************************************)
LEMMA ColumnParts ==
    ASSUME NEW name, NEW default, NEW generated
    PROVE  LET col == [name |-> name, default |-> default, generated |-> generated]
           IN  col.default = default /\ [col EXCEPT !.default = default] = col
OBVIOUS

(***************************************************************************)
(* The section of the columns is true of the catalogue.                    *)
(***************************************************************************)
LEMMA ColumnSections ==
    ASSUME dialect \in Dialects, NEW c \in Catalogues[dialect], NEW t
    PROVE  Agrees("columns", Result("columns", c, t), c, t)
<1>1. PICK columns : columns = Columns(c, t)
  OBVIOUS
<1>2. Result("columns", c, t) = Described(columns)
  BY <1>1 DEF Result
<1>3. IsColumns(dialect, columns)
  <2>1. CASE t \in DOMAIN c
    BY <1>1, <2>1, ColumnsKnown DEF Columns
  <2>2. CASE t \notin DOMAIN c
    <3>1. columns = <<>> /\ DOMAIN columns = {} /\ \A S : <<>> \in Seq(S)
      BY <1>1, <2>2 DEF Columns
    <3> QED
      BY <3>1 DEF IsColumns
  <2> QED
    BY <2>1, <2>2
<1>4. PICK S : columns \in Seq(S)
  BY <1>3 DEF IsColumns
<1>5. DOMAIN columns = 1..Len(columns) /\ Len(columns) \in Nat
  BY <1>4, LenProperties
<1> DEFINE Column(i) == [columns[i] EXCEPT !.default = IF @ = "" THEN Null ELSE @]
<1>6. ASSUME NEW i \in DOMAIN columns
      PROVE  \/ Column(i) = columns[i]
             \/ Column(i) = [columns[i] EXCEPT !.default = Null] /\ dialect = "mysql"
  <2>1. PICK col, name, default, generated :
           /\ columns[i] = col
           /\ col = [name |-> name, default |-> default, generated |-> generated]
    BY <1>3 DEF IsColumns
  <2>2. col.default = default
    BY <2>1, ColumnParts
  <2>3. default = "" => dialect = "mysql"
    BY <1>3, <2>1, <2>2 DEF IsColumns
  <2>4. PICK shown : shown = IF col.default = "" THEN Null ELSE col.default
    OBVIOUS
  <2>5. Column(i) = [col EXCEPT !.default = shown]
    BY <2>1, <2>4
  <2>6. CASE default = ""
    BY <2>1, <2>2, <2>4, <2>5, <2>6, <2>3
  <2>7. CASE default # ""
    <3>1. shown = default
      BY <2>2, <2>4, <2>7
    <3>2. [[name |-> name, default |-> default, generated |-> generated]
             EXCEPT !.default = default]
           = [name |-> name, default |-> default, generated |-> generated]
      OBVIOUS
    <3> QED
      BY <2>1, <2>5, <3>1, <3>2
  <2> QED
    BY <2>6, <2>7
<1>7. Described(columns) = [i \in 1..Len(columns) |-> Column(i)]
  BY <1>5 DEF Described
<1> HIDE DEF Column
<1>8. /\ DOMAIN Described(columns) = 1..Len(columns)
      /\ \A i \in 1..Len(columns) : Described(columns)[i] = Column(i)
  BY <1>7
<1>9. Len(Described(columns)) = Len(columns)
  <2>1. PICK R : R = { Column(i) : i \in 1..Len(columns) }
    OBVIOUS
  <2>2. Described(columns) \in [1..Len(columns) -> R]
    BY <1>7, <2>1
  <2> QED
    BY <1>5, <2>2, SeqDef, LenProperties
<1>10. ColumnsAgree(Described(columns), c, t)
  BY <1>1, <1>5, <1>6, <1>8, <1>9 DEF ColumnsAgree
<1> QED
  BY <1>2, <1>10 DEF Agrees

(***************************************************************************)
(* Whatever a statement returns is true of the catalogue that it reads.    *)
(***************************************************************************)
LEMMA SectionTrue ==
    ASSUME dialect \in Dialects, NEW c \in Catalogues[dialect], NEW t,
           NEW statement \in StatementNames
    PROVE  Agrees(statement, Result(statement, c, t), c, t)
<1>1. CASE statement \in {"names", "exists", "table", "info"}
  BY <1>1, PlainSections
<1>2. CASE statement = "columns"
  BY <1>2, ColumnSections
<1>3. CASE statement = "keys"
  BY <1>3, KeySections
<1>4. CASE statement = "indexes"
  BY <1>4, IndexSections
<1>5. CASE statement = "constraints"
  BY <1>5, ConstraintSections
<1> QED
  BY <1>1, <1>2, <1>3, <1>4, <1>5 DEF StatementNames

(***************************************************************************)
(* Sections in order, each true of its catalogue, make an answer true of   *)
(* the time of the request.                                                *)
(***************************************************************************)
LEMMA DescriptionTrue ==
    ASSUME DescInv, ReadsInOrder
    PROVE  DescriptionObserved
<1>1. PICK at \in [DOMAIN request.read -> DOMAIN window] : ReadAt(at)
  BY DEF ReadsInOrder
<1>2. ASSUME NEW i \in DOMAIN at
      PROVE  Agrees(Statements[request.kind][i], request.read[i], window[at[i]], request.table)
  <2>1. PICK c, t, s : c = window[at[i]] /\ t = request.table /\ s = Statements[request.kind][i]
    OBVIOUS
  <2>2. request.read[i] = Result(s, c, t)
    BY <1>1, <2>1 DEF ReadAt
  <2>3. i \in 1..Len(request.read) /\ Len(request.read) \in Nat
    BY AppendSequence DEF DescInv, RequestOK
  <2>4. s \in StatementNames
    <3>1. PICK all \in Seq(StatementNames) : all = Statements[request.kind]
      BY StatementsKnown DEF DescInv, RequestOK
    <3>2. Len(request.read) <= Len(all) /\ Len(all) \in Nat
      BY <3>1 DEF DescInv, RequestOK
    <3> QED
      BY <2>1, <2>3, <3>1, <3>2
  <2>5. c \in Catalogues[dialect]
    BY <2>1 DEF DescInv, WindowOK
  <2>6. Agrees(s, Result(s, c, t), c, t)
    <3>1. dialect \in Dialects
      BY DEF DescInv, WindowOK
    <3> QED
      BY <2>4, <2>5, <3>1, SectionTrue
  <2> QED
    BY <2>1, <2>2, <2>6
<1>3. \A i, j \in DOMAIN at : i <= j => at[i] <= at[j]
  BY <1>1 DEF ReadAt
<1> QED
  BY <1>2, <1>3 DEF DescriptionObserved

(***************************************************************************)
(* An answer is true of the time of the request (DescriptionObserved), for *)
(* any catalogues and any number of changes while it is under way: what    *)
(* each statement contributes, through the joins, the grouping and the     *)
(* aggregates of its dialect, was declared when it ran, and the instants   *)
(* are in the order of the statements (postgres-database.ts:257-538,       *)
(* mysql-database.ts:311-570, sqlserver-database.ts:272-544).              *)
(***************************************************************************)
THEOREM DescriptionsObserved == Spec => []DescriptionObserved
<1>1. Spec => [](DescInv /\ ReadsInOrder)
  BY DescInit, DescStep, ReadInit, ReadStep, PTL DEF Spec
<1> QED
  BY <1>1, DescriptionTrue, PTL

(***************************************************************************)
(* The section of the constraints is the fourth of a description, and it   *)
(* was read of one catalogue.                                              *)
(***************************************************************************)
LEMMA ConstraintsRead ==
    ASSUME DescInv, ReadsInOrder, ReadsConstraints
    PROVE  \E i \in DOMAIN window :
             /\ window[i] \in Catalogues[dialect]
             /\ request.read[4] = Result("constraints", window[i], request.table)
<1>1. PICK at \in [DOMAIN request.read -> DOMAIN window] : ReadAt(at)
  BY DEF ReadsInOrder
<1>2. Statements[request.kind][4] = "constraints"
  BY DEF ReadsConstraints, Statements
<1>3. 4 \in DOMAIN request.read
  <2>1. DOMAIN request.read = 1..Len(request.read) /\ Len(request.read) \in Nat
    BY AppendSequence DEF DescInv, RequestOK
  <2>2. Len(request.read) >= 4
    BY DEF ReadsConstraints
  <2> QED
    BY <2>1, <2>2
<1>4. request.read[4] = Result(Statements[request.kind][4], window[at[4]], request.table)
  BY <1>1, <1>3 DEF ReadAt
<1>5. at[4] \in DOMAIN window /\ window[at[4]] \in Catalogues[dialect]
  BY <1>3 DEF DescInv, WindowOK
<1> QED
  BY <1>2, <1>4, <1>5

(***************************************************************************)
(* That section has the constraints of the table and no others.            *)
(***************************************************************************)
LEMMA ConstraintsImplied ==
    ASSUME DescInv, ReadsInOrder
    PROVE  ConstraintsOwn
<1> SUFFICES ASSUME ReadsConstraints
             PROVE  \E i \in DOMAIN window :
                      LET own == IF request.table \in DOMAIN window[i]
                                 THEN window[i][request.table].constraints ELSE {}
                      IN  /\ \A k \in own : \E entry \in request.read[4] : entry.name = k.name
                          /\ \A entry \in request.read[4] : \E k \in own :
                               /\ entry.name = k.name /\ entry.type = k.type
                               /\ ToSet(entry.columns) = ToSet(Aggregate(k.columns))
  BY DEF ConstraintsOwn
<1>1. PICK i \in DOMAIN window :
             /\ window[i] \in Catalogues[dialect]
             /\ request.read[4] = Result("constraints", window[i], request.table)
  BY ConstraintsRead
<1>2. PICK c, t : c = window[i] /\ t = request.table
  OBVIOUS
<1>3. PICK own : own = IF t \in DOMAIN c THEN c[t].constraints ELSE {}
  OBVIOUS
<1>4. PICK section : section = request.read[4]
  OBVIOUS
<1>5. IsCatalogue(dialect, c)
  BY <1>1, <1>2, CatalogueKnown DEF DescInv, WindowOK
<1>6. /\ \A k \in own : \E entry \in section : entry.name = k.name
      /\ \A entry \in section : \E k \in own :
           /\ entry.name = k.name /\ entry.type = k.type
           /\ ToSet(entry.columns) = ToSet(Aggregate(k.columns))
  <2>1. CASE t \in DOMAIN c
    <3>1. section = DescribedConstraints(c, t) /\ own = c[t].constraints
      BY <1>1, <1>2, <1>3, <1>4, <2>1 DEF Result
    <3> QED
      BY <1>5, <2>1, <3>1, EveryConstraint, EveryEntry
  <2>2. CASE t \notin DOMAIN c
    BY <1>1, <1>2, <1>3, <1>4, <2>2 DEF Result
  <2> QED
    BY <2>1, <2>2
<1> QED
  BY <1>2, <1>3, <1>4, <1>6

(***************************************************************************)
(* However the joins repeat or group the rows, a description has the       *)
(* constraints of the table and no others, each with its own columns       *)
(* (ConstraintsOwn), for any catalogues, any names and any changes         *)
(* (postgres-database.ts:409-477, mysql-database.ts:459-514, sqlserver-    *)
(* database.ts:426-482).                                                   *)
(***************************************************************************)
THEOREM OwnConstraints == Spec => []ConstraintsOwn
<1>1. Spec => [](DescInv /\ ReadsInOrder)
  BY DescInit, DescStep, ReadInit, ReadStep, PTL DEF Spec
<1> QED
  BY <1>1, ConstraintsImplied, PTL
=============================================================================
