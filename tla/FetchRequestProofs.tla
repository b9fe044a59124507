------------------------- MODULE FetchRequestProofs -------------------------
(***************************************************************************)
(* Theorems about FetchRequest, for any requests: trees of any depth and   *)
(* width, any names and values, any limits and any number of rows.         *)
(***************************************************************************)
EXTENDS FetchRequest, FiniteSetTheorems, SequenceTheorems, WellFoundedInduction, TLAPS

-----------------------------------------------------------------------------
(***************************************************************************)
(* Placeholders and their ranks.                                           *)
(***************************************************************************)

\* The marks among the first i words.
MarksUpTo(words, i) == { j \in 1..i : IsMark(words[j]) }

(***************************************************************************)
(* How many of the first words are placeholders is a number up to theirs.  *)
(***************************************************************************)
LEMMA RankType ==
    ASSUME NEW words, NEW i \in Nat
    PROVE  /\ IsFiniteSet(MarksUpTo(words, i))
           /\ Rank(words, i) = Cardinality(MarksUpTo(words, i))
           /\ Rank(words, i) \in 0..i
<1>1. IsFiniteSet(1..i) /\ Cardinality(1..i) = i
  BY FS_Interval
<1>2. MarksUpTo(words, i) \subseteq 1..i
  BY DEF MarksUpTo
<1>3. /\ IsFiniteSet(MarksUpTo(words, i))
      /\ Cardinality(MarksUpTo(words, i)) <= i
      /\ Cardinality(MarksUpTo(words, i)) \in Nat
  BY <1>1, <1>2, FS_Subset, FS_CardinalityType
<1>4. Rank(words, i) = Cardinality(MarksUpTo(words, i))
  BY DEF Rank, MarksUpTo
<1> QED
  BY <1>3, <1>4

(***************************************************************************)
(* The rank of a word is no less than that of one before it, and greater   *)
(* if it is itself a placeholder.                                          *)
(***************************************************************************)
LEMMA RankGrows ==
    ASSUME NEW words, NEW i \in Nat, NEW j \in Nat, i <= j
    PROVE  /\ Rank(words, i) <= Rank(words, j)
           /\ i < j /\ IsMark(words[j]) => Rank(words, i) < Rank(words, j)
<1>1. MarksUpTo(words, i) \subseteq MarksUpTo(words, j)
  BY DEF MarksUpTo
<1>2. Rank(words, i) <= Rank(words, j)
  BY <1>1, RankType, FS_Subset
<1>3. ASSUME i < j, IsMark(words[j])
      PROVE  Rank(words, i) < Rank(words, j)
  <2>1. j \in MarksUpTo(words, j) \ MarksUpTo(words, i)
    BY <1>3 DEF MarksUpTo
  <2>2. Cardinality(MarksUpTo(words, i)) # Cardinality(MarksUpTo(words, j))
    BY <1>1, <2>1, RankType, FS_Subset
  <2>3. Rank(words, i) # Rank(words, j)
    BY <2>2, RankType
  <2> QED
    BY <1>2, <2>3, RankType
<1> QED
  BY <1>2, <1>3

(***************************************************************************)
(* The rank of a placeholder is one of the ranks of its clause.            *)
(***************************************************************************)
LEMMA MarkRank ==
    ASSUME NEW words, NEW i \in Nat \ {0}, NEW n \in Nat, i <= n, IsMark(words[i])
    PROVE  Rank(words, i) \in 1..Rank(words, n)
<1>1. Rank(words, i) <= Rank(words, n)
  BY RankGrows
<1>2. Rank(words, 0) < Rank(words, i)
  BY RankGrows
<1>3. Rank(words, 0) = 0 /\ Rank(words, i) \in Nat /\ Rank(words, n) \in Nat
  BY RankType
<1> QED
  BY <1>1, <1>2, <1>3

(***************************************************************************)
(* Every rank is that of a placeholder.                                    *)
(***************************************************************************)
LEMMA MarkExists ==
    ASSUME NEW words, NEW n \in Nat, NEW k \in 1..Rank(words, n)
    PROVE  \E i \in 1..n : IsMark(words[i]) /\ Rank(words, i) = k
<1> DEFINE M == MarksUpTo(words, n)
           f == [i \in M |-> Rank(words, i)]
           T == 1..Rank(words, n)
<1>1. Rank(words, n) \in Nat /\ Cardinality(M) = Rank(words, n) /\ IsFiniteSet(M)
  BY RankType
<1>2. IsFiniteSet(T) /\ Cardinality(T) = Rank(words, n)
  BY <1>1, FS_Interval
<1>3. f \in [M -> T]
  <2> SUFFICES ASSUME NEW i \in M PROVE Rank(words, i) \in T
    OBVIOUS
  <2> QED
    BY MarkRank DEF MarksUpTo
<1>4. \A i, j \in M : f[i] = f[j] => i = j
  <2> SUFFICES ASSUME NEW i \in M, NEW j \in M, i < j PROVE Rank(words, i) # Rank(words, j)
    <3>1. M \subseteq Int
      BY DEF MarksUpTo
    <3> QED
      BY <3>1
  <2>1. Rank(words, i) < Rank(words, j)
    BY RankGrows DEF MarksUpTo
  <2>2. i \in Nat /\ j \in Nat
    BY DEF MarksUpTo
  <2>3. Rank(words, i) \in Int /\ Rank(words, j) \in Int
    BY <2>2, RankType
  <2> QED
    BY <2>1, <2>3
<1>5. f \in Injection(M, T)
  BY <1>3, <1>4 DEF Injection, IsInjective
<1>6. f \in Surjection(M, T)
  BY <1>1, <1>2, <1>5, FS_Injection
<1>7. PICK i \in M : f[i] = k
  BY <1>6 DEF Surjection
<1> QED
  BY <1>7 DEF MarksUpTo

-----------------------------------------------------------------------------
(***************************************************************************)
(* One clause.  Its parameters and its arguments are as many as its        *)
(* placeholders, in their order.                                           *)
(***************************************************************************)

(***************************************************************************)
(* A parenthesis, a join or a comparison is a piece of the text.           *)
(***************************************************************************)
LEMMA WordTyped ==
    ASSUME NEW w \in {"(", ")", "x"} \cup Types
    PROVE  Word(w) \in Pieces
BY DEF Word, Pieces

(***************************************************************************)
(* A numbered parameter is a piece of the text.                            *)
(***************************************************************************)
LEMMA ParamTyped ==
    ASSUME NEW n \in Nat \ {0}
    PROVE  Param(n) \in Pieces
BY DEF Param, Pieces

(***************************************************************************)
(* The parts of a parameter.                                               *)
(***************************************************************************)
LEMMA ParamParts ==
    ASSUME NEW n
    PROVE  Param(n).word = "param" /\ Param(n).no = n
BY DEF Param

(***************************************************************************)
(* The word of a piece that is a word.                                     *)
(***************************************************************************)
LEMMA WordParts ==
    ASSUME NEW w
    PROVE  Word(w).word = w
BY DEF Word

(***************************************************************************)
(* The words of a clause are rendered one by one, into pieces of the text. *)
(***************************************************************************)
LEMMA RenderedSound ==
    ASSUME NEW words \in Seq(Words), index \in Nat \ {0}
    PROVE  /\ Rendered(words) \in Seq(Pieces)
           /\ Len(Rendered(words)) = Len(words)
           /\ \A i \in 1..Len(words) :
                Rendered(words)[i] = IF IsMark(words[i])
                                     THEN Param(index + Rank(words, i) - 1)
                                     ELSE Word(words[i])
<1>1. DOMAIN words = 1..Len(words) /\ Len(words) \in Nat
  OBVIOUS
<1>2. ASSUME NEW i \in 1..Len(words)
      PROVE  (IF IsMark(words[i]) THEN Param(index + Rank(words, i) - 1)
              ELSE Word(words[i])) \in Pieces
  <2>1. CASE IsMark(words[i])
    <3>1. Rank(words, i) \in 1..Rank(words, Len(words)) /\ Rank(words, Len(words)) \in Nat
      BY <1>1, <2>1, MarkRank, RankType
    <3>2. index + Rank(words, i) - 1 \in Nat \ {0}
      BY <3>1
    <3> QED
      BY <2>1, <3>2, ParamTyped
  <2>2. CASE ~ IsMark(words[i])
    <3>1. words[i] \in Words
      BY <1>1
    <3>2. words[i] \in {"x"} \cup Joins
      BY <2>2, <3>1 DEF IsMark, Words
    <3> QED
      BY <2>2, <3>2, WordTyped DEF Types
  <2> QED
    BY <2>1, <2>2
<1> DEFINE Piece(i) == IF IsMark(words[i]) THEN Param(index + Rank(words, i) - 1)
                       ELSE Word(words[i])
<1>3. Rendered(words) = [i \in 1..Len(words) |-> Piece(i)]
  BY <1>1 DEF Rendered
<1>4. \A i \in 1..Len(words) : Piece(i) \in Pieces
  BY <1>2
<1> HIDE DEF Piece
<1>5. Rendered(words) \in [1..Len(words) -> Pieces]
  BY <1>3, <1>4
<1>6. Rendered(words) \in Seq(Pieces) /\ Len(Rendered(words)) = Len(words)
  BY <1>1, <1>5, IsASeq, LenProperties
<1>7. \A i \in 1..Len(words) : Rendered(words)[i] = Piece(i)
  BY <1>3
<1> QED
  BY <1>6, <1>7 DEF Piece

\* The values that the clause's placeholders stand for.
ArgumentsOf(words, a) ==
    [k \in 1..Rank(words, Len(words)) |-> ArgumentAt(words, a, MarkAt(words, k))]

(***************************************************************************)
(* MarkAt finds the placeholder of a rank.                                 *)
(***************************************************************************)
LEMMA MarkAtSound ==
    ASSUME NEW words \in Seq(Words), NEW k \in 1..Rank(words, Len(words))
    PROVE  /\ MarkAt(words, k) \in 1..Len(words)
           /\ IsMark(words[MarkAt(words, k)])
           /\ Rank(words, MarkAt(words, k)) = k
<1>1. DOMAIN words = 1..Len(words) /\ Len(words) \in Nat
  OBVIOUS
<1>2. \E i \in 1..Len(words) : IsMark(words[i]) /\ Rank(words, i) = k
  BY <1>1, MarkExists
<1>3. MarkAt(words, k)
        = CHOOSE i \in 1..Len(words) : IsMark(words[i]) /\ Rank(words, i) = k
  BY <1>1 DEF MarkAt
<1> QED
  BY <1>2, <1>3

(***************************************************************************)
(* When the arguments fit, each placeholder of the clause has a value.     *)
(***************************************************************************)
LEMMA ArgumentsSound ==
    ASSUME NEW words \in Seq(Words), NEW a, IsArgs(a), ArgsFit(words, a, ClauseMode(words))
    PROVE  /\ ArgumentsOf(words, a) \in Seq(Values)
           /\ Len(ArgumentsOf(words, a)) = Rank(words, Len(words))
<1>1. DOMAIN words = 1..Len(words) /\ Len(words) \in Nat
  OBVIOUS
<1>2. Rank(words, Len(words)) \in Nat
  BY <1>1, RankType
<1>3. ASSUME NEW k \in 1..Rank(words, Len(words))
      PROVE  ArgumentAt(words, a, MarkAt(words, k)) \in Values
  <2>1. PICK i \in 1..Len(words) : i = MarkAt(words, k)
    BY MarkAtSound
  <2>2. IsMark(words[i]) /\ Rank(words, i) = k
    BY <2>1, MarkAtSound
  <2>3. CASE words[i] = "?"
    <3>1. a.kind = "array" /\ Len(a.list) = Rank(words, Len(words))
      BY <1>1, <2>3 DEF ArgsFit, ClauseMode
    <3>2. a.list \in Seq(Values)
      BY DEF IsArgs
    <3>3. a.list[k] \in Values
      BY <3>1, <3>2
    <3> QED
      BY <2>1, <2>2, <2>3, <3>3 DEF ArgumentAt
  <2>4. CASE words[i] # "?"
    <3>1. words[i] \in Names
      BY <2>2, <2>4 DEF IsMark
    <3>2. ClauseMode(words) \in {"named", "mixed"}
      BY <1>1, <3>1 DEF ClauseMode
    <3>3. a.fields[words[i]] # Undefined
      BY <1>1, <3>1, <3>2 DEF ArgsFit
    <3>4. a.fields[words[i]] \in Values
      BY <3>1, <3>3 DEF IsArgs
    <3> QED
      BY <2>1, <2>4, <3>4 DEF ArgumentAt
  <2> QED
    BY <2>3, <2>4
<1> DEFINE Argument(k) == ArgumentAt(words, a, MarkAt(words, k))
<1>4. ArgumentsOf(words, a) = [k \in 1..Rank(words, Len(words)) |-> Argument(k)]
  BY DEF ArgumentsOf
<1>5. \A k \in 1..Rank(words, Len(words)) : Argument(k) \in Values
  BY <1>3
<1> HIDE DEF Argument
<1>6. ArgumentsOf(words, a) \in [1..Rank(words, Len(words)) -> Values]
  BY <1>4, <1>5
<1> QED
  BY <1>2, <1>6, IsASeq, LenProperties

-----------------------------------------------------------------------------
(***************************************************************************)
(* Trees, and what of them waits to be written.                            *)
(***************************************************************************)

Items == Pieces \cup [clause : DOMAIN Tree]

\* What waits to be written is a clause or a word, but no parameter.
Waiting == { Word(w) : w \in {"(", ")"} \cup Types } \cup { Clause(p) : p \in DOMAIN Tree }

(***************************************************************************)
(* An item of todo is a clause of the tree or a piece of the text.         *)
(***************************************************************************)
LEMMA ItemKinds ==
    ASSUME NEW x \in Items
    PROVE  /\ "clause" \in DOMAIN x => x.clause \in DOMAIN Tree /\ x = Clause(x.clause)
           /\ "clause" \notin DOMAIN x => x \in Pieces
<1>1. CASE x \in Pieces
  <2>1. DOMAIN x = {"word", "no"}
    BY <1>1 DEF Pieces
  <2> QED
    BY <1>1, <2>1
<1>2. CASE x \in [clause : DOMAIN Tree]
  BY <1>2 DEF Clause
<1> QED
  BY <1>1, <1>2 DEF Items

(***************************************************************************)
(* A clause is told by its field.                                          *)
(***************************************************************************)
LEMMA ClauseItem ==
    ASSUME NEW p
    PROVE  "clause" \in DOMAIN Clause(p) /\ Clause(p).clause = p
BY DEF Clause

(***************************************************************************)
(* A word is not a clause.                                                 *)
(***************************************************************************)
LEMMA WordItem ==
    ASSUME NEW w
    PROVE  "clause" \notin DOMAIN Word(w)
BY DEF Word

(***************************************************************************)
(* The writer's tree is that of the request.                               *)
(***************************************************************************)
LEMMA TreeKept ==
    ASSUME request' = request
    PROVE  Body' = Body /\ Tree' = Tree
<1>1. Body' = Body
  BY DEF Body
<1>2. \A p : IsReached(p)' <=> IsReached(p)
  BY <1>1 DEF IsReached
<1>3. { p \in DOMAIN Body : IsReached(p) }' = { p \in DOMAIN Body : IsReached(p) }
  BY <1>1, <1>2
<1> QED
  BY <1>1, <1>3 DEF Tree

\* The writer goes to a clause through compounds.
IsWritersPath(p, tree) ==
    /\ p \in Seq(Nat \ {0})
    /\ \A n \in 1..Len(p) :
         LET parent == SubSeq(p, 1, n - 1)
         IN  /\ parent \in DOMAIN tree /\ IsCompound(tree[parent])
             /\ p[n] <= Size(tree[parent])

(***************************************************************************)
(* The beginning of a path, and that of a beginning.                       *)
(***************************************************************************)
LEMMA Prefixes ==
    ASSUME NEW T, NEW p \in Seq(T), NEW n \in 0..Len(p), NEW m \in 0..n
    PROVE  /\ SubSeq(p, 1, n) \in Seq(T) /\ Len(SubSeq(p, 1, n)) = n
           /\ SubSeq(SubSeq(p, 1, n), 1, m) = SubSeq(p, 1, m)
           /\ SubSeq(p, 1, Len(p)) = p
OBVIOUS

(***************************************************************************)
(* The beginnings of a child's path.                                       *)
(***************************************************************************)
LEMMA ChildPrefixes ==
    ASSUME NEW T, NEW p \in Seq(T), NEW i \in T, NEW m \in 0..Len(p)
    PROVE  SubSeq(Append(p, i), 1, m) = SubSeq(p, 1, m)
OBVIOUS

(***************************************************************************)
(* What FetchAssumption says of the tree of a request.                     *)
(***************************************************************************)
LEMMA BodyFacts ==
    ASSUME request \in Requests
    PROVE  IsTree(Body)
BY FetchAssumption DEF IsRequest, Body

(***************************************************************************)
(* What it says of the clauses that the writer reaches.                    *)
(***************************************************************************)
LEMMA TreeFacts ==
    ASSUME request \in Requests
    PROVE  /\ IsFiniteSet(DOMAIN Tree)
           /\ <<>> \in DOMAIN Tree /\ IsCompound(Tree[<<>>])
           /\ Tree[<<>>].type = "AND"
           /\ \A p \in DOMAIN Tree : IsWritersPath(p, Tree)
           /\ \A p \in DOMAIN Tree : IsCompound(Tree[p]) =>
                /\ Tree[p].type \in Types
                /\ Size(Tree[p]) \in Nat
                /\ \A i \in 1..Size(Tree[p]) : Append(p, i) \in DOMAIN Tree
           /\ \A p \in DOMAIN Tree : ~IsCompound(Tree[p]) =>
                /\ HasText(Tree[p]) => Tree[p].text \in Seq(Words)
                /\ IsArgs(Tree[p].args)
<1>1. IsTree(Body)
  BY BodyFacts
<1>2. /\ DOMAIN Tree \subseteq DOMAIN Body
      /\ \A p \in DOMAIN Tree : Tree[p] = Body[p] /\ IsReached(p)
      /\ \A p \in DOMAIN Body : IsReached(p) => p \in DOMAIN Tree
  BY DEF Tree
<1>3. IsFiniteSet(DOMAIN Tree)
  BY <1>1, <1>2, FS_Subset DEF IsTree
<1>4. <<>> \in DOMAIN Tree /\ IsCompound(Tree[<<>>]) /\ Tree[<<>>].type = "AND"
  <2>1. IsReached(<<>>)
    BY DEF IsReached
  <2> QED
    BY <1>1, <1>2, <2>1 DEF IsTree
<1>5. ASSUME NEW p \in DOMAIN Tree
      PROVE  IsPath(p, Body) /\ p \in Seq(Nat \ {0}) /\ IsClause(Tree[p])
  BY <1>1, <1>2 DEF IsTree, IsPath
<1>6. ASSUME NEW p \in DOMAIN Tree, NEW n \in 1..Len(p)
      PROVE  /\ SubSeq(p, 1, n - 1) \in DOMAIN Tree
             /\ IsCompound(Tree[SubSeq(p, 1, n - 1)])
             /\ p[n] <= Size(Tree[SubSeq(p, 1, n - 1)])
  <2>1. PICK q : q = SubSeq(p, 1, n - 1)
    OBVIOUS
  <2>2. q \in DOMAIN Body /\ p[n] <= Size(Body[q])
    BY <1>5, <2>1 DEF IsPath
  <2>3. p \in Seq(Nat \ {0}) /\ n - 1 \in 0..Len(p)
    BY <1>5
  <2>4. Len(q) = n - 1
    BY <2>1, <2>3, Prefixes
  <2>5. ASSUME NEW m \in 0..(Len(q) - 1)
        PROVE  IsCompound(Body[SubSeq(q, 1, m)])
    <3>1. SubSeq(q, 1, m) = SubSeq(p, 1, m)
      BY <2>1, <2>3, <2>4, Prefixes
    <3>2. m \in 0..(Len(p) - 1)
      BY <2>3, <2>4
    <3> QED
      BY <1>2, <3>1, <3>2 DEF IsReached
  <2>6. q \in DOMAIN Tree
    BY <1>2, <2>2, <2>5 DEF IsReached
  <2>7. n - 1 \in 0..(Len(p) - 1)
    BY <2>3
  <2>8. IsCompound(Body[q])
    BY <1>2, <2>1, <2>7 DEF IsReached
  <2> QED
    BY <1>2, <2>1, <2>2, <2>6, <2>8
<1>7. \A p \in DOMAIN Tree : IsWritersPath(p, Tree)
  BY <1>5, <1>6 DEF IsWritersPath
<1>8. ASSUME NEW p \in DOMAIN Tree, IsCompound(Tree[p])
      PROVE  Tree[p].type \in Types /\ Size(Tree[p]) \in Nat
  BY <1>5, <1>8 DEF IsClause, Size
<1>9. ASSUME NEW p \in DOMAIN Tree, IsCompound(Tree[p]), NEW i \in 1..Size(Tree[p])
      PROVE  Append(p, i) \in DOMAIN Tree
  <2>1. Append(p, i) \in DOMAIN Body
    BY <1>1, <1>2 DEF IsTree
  <2>2. p \in Seq(Nat \ {0}) /\ i \in Nat \ {0}
    BY <1>5, <1>8, <1>9
  <2>3. Len(Append(p, i)) = Len(p) + 1 /\ Len(p) \in Nat
    BY <2>2
  <2>4. ASSUME NEW m \in 0..(Len(Append(p, i)) - 1)
        PROVE  IsCompound(Body[SubSeq(Append(p, i), 1, m)])
    <3>1. m \in 0..Len(p)
      BY <2>3
    <3>2. SubSeq(Append(p, i), 1, m) = SubSeq(p, 1, m)
      BY <2>2, <3>1, ChildPrefixes
    <3>3. CASE m = Len(p)
      <4>1. SubSeq(p, 1, m) = p
        BY <2>2, <3>1, <3>3, Prefixes
      <4> QED
        BY <1>2, <1>9, <3>2, <4>1
    <3>4. CASE m # Len(p)
      <4>1. m \in 0..(Len(p) - 1)
        BY <2>3, <3>1, <3>4
      <4> QED
        BY <1>2, <3>2, <4>1 DEF IsReached
    <3> QED
      BY <3>3, <3>4
  <2> QED
    BY <1>2, <2>1, <2>4 DEF IsReached
<1>10. \A p \in DOMAIN Tree : ~IsCompound(Tree[p]) =>
                /\ HasText(Tree[p]) => Tree[p].text \in Seq(Words)
                /\ IsArgs(Tree[p].args)
  BY <1>5 DEF IsClause
<1> QED
  BY <1>3, <1>4, <1>7, <1>8, <1>9, <1>10

(***************************************************************************)
(* What waits is of the type of todo, and none of its words is a           *)
(* parameter.                                                              *)
(***************************************************************************)
LEMMA WaitingItems ==
    /\ Waiting \subseteq Items
    /\ \A x \in Waiting : "clause" \notin DOMAIN x => x.word # "param"
    /\ Seq(Waiting) \subseteq Seq(Items)
<1>1. \A w \in {"(", ")"} \cup Types : Word(w) \in Items /\ Word(w).word # "param"
  BY WordTyped, WordParts DEF Items, Types, Joins
<1>2. \A p \in DOMAIN Tree : Clause(p) \in Items /\ "clause" \in DOMAIN Clause(p)
  BY ClauseItem DEF Items, Clause
<1>3. Waiting \subseteq Items
  BY <1>1, <1>2 DEF Waiting
<1>4. Seq(Waiting) \subseteq Seq(Items)
  BY <1>3, SeqMonotonic
<1> QED
  BY <1>1, <1>2, <1>3, <1>4 DEF Waiting

(***************************************************************************)
(* The children of a compound clause wait at the odd places, joins         *)
(* between.                                                                *)
(***************************************************************************)
LEMMA JoinedSound ==
    ASSUME request \in Requests, NEW p \in DOMAIN Tree, IsCompound(Tree[p])
    PROVE  /\ Joined(p) \in Seq(Waiting)
           /\ \A k \in 1..Len(Joined(p)) :
                \/ Joined(p)[k] = Word(Tree[p].type)
                \/ /\ k % 2 = 1 /\ (k + 1) \div 2 \in 1..Size(Tree[p])
                   /\ Joined(p)[k] = Clause(Append(p, (k + 1) \div 2))
           /\ \A i \in 1..Size(Tree[p]) :
                /\ 2 * i - 1 \in 1..Len(Joined(p))
                /\ Joined(p)[2 * i - 1] = Clause(Append(p, i))
<1>1. PICK n \in Nat : n = Size(Tree[p])
  BY TreeFacts
<1>2. PICK len \in Nat : len = IF n = 0 THEN 0 ELSE 2 * n - 1
  OBVIOUS
<1> DEFINE Piece(k) == IF k % 2 = 1 THEN Clause(Append(p, (k + 1) \div 2))
                       ELSE Word(Tree[p].type)
<1>3. Joined(p) = [k \in 1..len |-> Piece(k)]
  BY <1>1, <1>2 DEF Joined
<1>4. ASSUME NEW k \in 1..len, k % 2 = 1
      PROVE  (k + 1) \div 2 \in 1..n
  BY <1>2, <1>4
<1>5. ASSUME NEW i \in 1..n
      PROVE  2 * i - 1 \in 1..len /\ (2 * i - 1) % 2 = 1 /\ (2 * i - 1 + 1) \div 2 = i
  BY <1>2, <1>5
<1>6. ASSUME NEW i \in 1..n
      PROVE  Clause(Append(p, i)) \in Waiting
  BY <1>1, TreeFacts DEF Waiting
<1>7. Word(Tree[p].type) \in Waiting
  BY TreeFacts DEF Waiting
<1>8. \A k \in 1..len : Piece(k) \in Waiting
  BY <1>4, <1>6, <1>7
<1>9. \A k \in 1..len : \/ Piece(k) = Word(Tree[p].type)
                        \/ /\ k % 2 = 1 /\ (k + 1) \div 2 \in 1..n
                           /\ Piece(k) = Clause(Append(p, (k + 1) \div 2))
  BY <1>4
<1>10. \A i \in 1..n : Piece(2 * i - 1) = Clause(Append(p, i))
  BY <1>5
<1> HIDE DEF Piece
<1>11. Joined(p) \in [1..len -> Waiting]
  BY <1>3, <1>8
<1>12. Joined(p) \in Seq(Waiting) /\ Len(Joined(p)) = len
  BY <1>11, IsASeq, LenProperties
<1> QED
  BY <1>1, <1>3, <1>5, <1>9, <1>10, <1>12

-----------------------------------------------------------------------------
(***************************************************************************)
(* Types.                                                                  *)
(***************************************************************************)

(***************************************************************************)
(* The types hold when a request arrives.                                  *)
(***************************************************************************)
LEMMA TypeInit == Init => TypeOK
<1> SUFFICES ASSUME Init PROVE TypeOK
  OBVIOUS
<1>1. \A S : <<>> \in Seq(S)
  OBVIOUS
<1> QED
  BY <1>1 DEF Init, TypeOK, Dialects

(***************************************************************************)
(* The next item is a clause of the tree or a word of the text.            *)
(***************************************************************************)
LEMMA CurrentKnown ==
    ASSUME TypeOK, todo # <<>>
    PROVE  /\ NextClause => /\ Head(todo).clause \in DOMAIN Tree
                            /\ Head(todo) = Clause(Head(todo).clause)
           /\ ~NextClause => Head(todo) \in Pieces
           /\ Tail(todo) \in Seq(Items)
<1>1. Head(todo) \in Items /\ Tail(todo) \in Seq(Items)
  BY DEF TypeOK, Items
<1> QED
  BY <1>1, ItemKinds DEF NextClause

(***************************************************************************)
(* What replaces a compound clause is what may wait.                       *)
(***************************************************************************)
LEMMA CompoundTyped ==
    ASSUME request \in Requests, NEW p \in DOMAIN Tree, IsCompound(Tree[p])
    PROVE  Compound(p) \in Seq(Waiting)
<1>1. <<Word("(")>> \in Seq(Waiting) /\ <<Word(")")>> \in Seq(Waiting)
  BY DEF Waiting
<1>2. <<Word("(")>> \o Joined(p) \in Seq(Waiting)
  BY <1>1, JoinedSound, ConcatProperties
<1> QED
  BY <1>1, <1>2, ConcatProperties DEF Compound

\* What the writing of a simple clause does.
Written(words, a) ==
    /\ mode' = IF ClauseMode(words) = "null" THEN mode ELSE ClauseMode(words)
    /\ text' = text \o <<Word("(")>> \o Rendered(words) \o <<Word(")")>>
    /\ args' = args \o ArgumentsOf(words, a)
    /\ index' = index + Rank(words, Len(words))
    /\ leaves' = leaves + 1
    /\ todo' = Tail(todo)
    /\ UNCHANGED <<request, dialect, pc, page, status>>

\* The simple clause at p has a text and arguments that fit it, and is written.
WritesClause(p) ==
    /\ HasText(Tree[p])
    /\ Tree[p].text \in Seq(Words) /\ IsArgs(Tree[p].args)
    /\ ArgsFit(Tree[p].text, Tree[p].args, Style(p))
    /\ Written(Tree[p].text, Tree[p].args)

(***************************************************************************)
(* The step of a simple clause: it is refused, or it is written.           *)
(***************************************************************************)
LEMMA SimpleStep ==
    ASSUME TypeOK, ExpandSimplePredicateClause
    PROVE  \E p \in DOMAIN Tree :
             /\ pc = "predicates" /\ todo # <<>> /\ Head(todo) = Clause(p)
             /\ ~IsCompound(Tree[p])
             /\ \/ ~HasText(Tree[p]) /\ Fail(500)
                \/ /\ \/ Style(p) # "null" /\ ModeConflict(Style(p))
                      \/ ~ArgsFit(Tree[p].text, Tree[p].args, Style(p))
                   /\ Fail(400)
                \/ /\ Style(p) # "null" => ~ModeConflict(Style(p))
                   /\ WritesClause(p)
<1>1. PICK p : p = Head(todo).clause
  OBVIOUS
<1>2. /\ pc = "predicates" /\ NextClause /\ ~IsCompound(Current)
      /\ \/ ~HasText(Current) /\ Fail(500)
         \/ /\ HasText(Current)
            /\ \/ /\ \/ /\ ClauseMode(Current.text) # "null"
                        /\ ModeConflict(ClauseMode(Current.text))
                     \/ ~ArgsFit(Current.text, Current.args, ClauseMode(Current.text))
                  /\ Fail(400)
               \/ /\ ClauseMode(Current.text) # "null" =>
                        ~ModeConflict(ClauseMode(Current.text))
                  /\ ArgsFit(Current.text, Current.args, ClauseMode(Current.text))
                  /\ Written(Current.text, Current.args)
  BY DEF ExpandSimplePredicateClause, Written, ArgumentsOf
<1>3. Current = Tree[p] /\ todo # <<>>
  BY <1>1, <1>2 DEF Current, NextClause
<1>4. p \in DOMAIN Tree /\ Head(todo) = Clause(p)
  BY <1>1, <1>2, <1>3, CurrentKnown
<1>5. HasText(Tree[p]) => Tree[p].text \in Seq(Words) /\ IsArgs(Tree[p].args)
  BY <1>2, <1>3, <1>4, TreeFacts DEF TypeOK
<1>6. ClauseMode(Current.text) = Style(p)
  BY <1>3 DEF Style
<1> QED
  BY <1>2, <1>3, <1>4, <1>5, <1>6 DEF WritesClause

(***************************************************************************)
(* The step of a compound clause: it is refused, or its children replace   *)
(* it.                                                                     *)
(***************************************************************************)
LEMMA CompoundStep ==
    ASSUME TypeOK, ExpandCompoundPredicateClause
    PROVE  \E p \in DOMAIN Tree :
             /\ pc = "predicates" /\ todo # <<>> /\ Head(todo) = Clause(p)
             /\ IsCompound(Tree[p]) /\ Size(Tree[p]) \in Nat
             /\ \/ Size(Tree[p]) = 0 /\ Fail(400)
                \/ /\ Size(Tree[p]) > 0
                   /\ todo' = Compound(p) \o Tail(todo)
                   /\ UNCHANGED <<request, dialect, pc, text, placeholderState, page,
                                  leaves, status>>
<1>1. PICK p : p = Head(todo).clause
  OBVIOUS
<1>2. pc = "predicates" /\ todo # <<>> /\ NextClause /\ IsCompound(Tree[p])
  BY <1>1 DEF ExpandCompoundPredicateClause, NextClause, Current
<1>3. p \in DOMAIN Tree /\ Head(todo) = Clause(p)
  BY <1>1, <1>2, CurrentKnown
<1>4. Size(Tree[p]) \in Nat
  BY <1>2, <1>3, TreeFacts DEF TypeOK
<1> QED
  BY <1>1, <1>2, <1>3, <1>4 DEF ExpandCompoundPredicateClause, Current

(***************************************************************************)
(* Arguments fit no clause of both styles.                                 *)
(***************************************************************************)
LEMMA ModeTyped ==
    ASSUME NEW words, NEW a, ArgsFit(words, a, ClauseMode(words))
    PROVE  ClauseMode(words) \in {"null", "positional", "named"}
BY DEF ClauseMode, ArgsFit

(***************************************************************************)
(* An error keeps the types.                                               *)
(***************************************************************************)
LEMMA FailTyped ==
    ASSUME TypeOK, NEW code \in {400, 500}, Fail(code)
    PROVE  TypeOK'
BY TreeKept DEF TypeOK, Fail, placeholderState

(***************************************************************************)
(* Every step keeps the types.                                             *)
(***************************************************************************)
LEMMA TypeStep == TypeOK /\ [Next]_vars => TypeOK'
<1> SUFFICES ASSUME TypeOK, [Next]_vars PROVE TypeOK'
  OBVIOUS
<1>1. CASE ValidateLimits
  <2>1. LimitError \in {0, 400, 500}
    BY DEF LimitError
  <2>2. CASE LimitError # 0 /\ Fail(LimitError)
    BY <2>1, <2>2, FailTyped
  <2>3. CASE LimitError = 0
    <3>1. /\ pc' = "shape"
          /\ UNCHANGED <<request, dialect, todo, text, placeholderState, page, leaves, status>>
      BY <1>1, <2>3 DEF ValidateLimits
    <3> QED
      BY <3>1, TreeKept DEF TypeOK, placeholderState
  <2> QED
    BY <1>1, <2>2, <2>3 DEF ValidateLimits
<1>2. CASE StartWriting
  <2>1. CASE Fail(400)
    BY <2>1, FailTyped
  <2>2. CASE ~Fail(400)
    <3>1. /\ pc' = "predicates" /\ todo' = Joined(<<>>)
          /\ UNCHANGED <<request, dialect, text, placeholderState, page, leaves, status>>
      BY <1>2, <2>2 DEF StartWriting
    <3>2. Joined(<<>>) \in Seq(Items)
      BY TreeFacts, JoinedSound, WaitingItems DEF TypeOK
    <3> QED
      BY <3>1, <3>2, TreeKept DEF TypeOK, placeholderState, Items
  <2> QED
    BY <2>1, <2>2
<1>3. CASE ExpandSimplePredicateClause
  <2>1. PICK p \in DOMAIN Tree :
             todo # <<>> /\ (Fail(400) \/ Fail(500) \/ WritesClause(p))
    BY <1>3, SimpleStep
  <2>2. CASE Fail(400) \/ Fail(500)
    BY <2>2, FailTyped
  <2>3. CASE WritesClause(p)
    <3>0. /\ Tree[p].text \in Seq(Words) /\ IsArgs(Tree[p].args)
          /\ ArgsFit(Tree[p].text, Tree[p].args, Style(p))
          /\ Written(Tree[p].text, Tree[p].args)
      BY <2>3 DEF WritesClause
    <3> DEFINE words == Tree[p].text
    <3>1. mode' \in {"null", "positional", "named"}
      BY <3>0, ModeTyped DEF Written, Style, TypeOK
    <3>2. text' \in Seq(Pieces)
      <4>1. Rendered(words) \in Seq(Pieces)
        BY <3>0, RenderedSound DEF TypeOK
      <4>2. <<Word("(")>> \in Seq(Pieces) /\ <<Word(")")>> \in Seq(Pieces)
        BY WordTyped
      <4>3. text \in Seq(Pieces)
        BY DEF TypeOK
      <4>4. text \o <<Word("(")>> \in Seq(Pieces)
        BY <4>2, <4>3, ConcatProperties
      <4>5. text \o <<Word("(")>> \o Rendered(words) \in Seq(Pieces)
        BY <4>1, <4>4, ConcatProperties
      <4>6. text \o <<Word("(")>> \o Rendered(words) \o <<Word(")")>> \in Seq(Pieces)
        BY <4>2, <4>5, ConcatProperties
      <4> QED
        BY <3>0, <4>6 DEF Written
    <3>3. args' \in Seq(Values)
      <4>1. ArgumentsOf(words, Tree[p].args) \in Seq(Values)
        BY <3>0, ArgumentsSound DEF Style
      <4>2. args \o ArgumentsOf(words, Tree[p].args) \in Seq(Values)
        BY <4>1, ConcatProperties DEF TypeOK
      <4> QED
        BY <3>0, <4>2 DEF Written
    <3>4. index' \in Nat \ {0}
      <4>1. Len(words) \in Nat
        BY <3>0
      <4>2. Rank(words, Len(words)) \in Nat
        BY <4>1, RankType
      <4> QED
        BY <3>0, <4>2 DEF Written, TypeOK
    <3>5. leaves' \in Nat
      BY <3>0 DEF Written, TypeOK
    <3>6. todo' \in Seq(Items)
      BY <2>1, <3>0, CurrentKnown DEF Written
    <3>7. UNCHANGED <<request, dialect, pc, page, status>>
      BY <3>0 DEF Written
    <3> QED
      BY <3>1, <3>2, <3>3, <3>4, <3>5, <3>6, <3>7, TreeKept DEF TypeOK, Items
  <2> QED
    BY <2>1, <2>2, <2>3
<1>4. CASE ExpandCompoundPredicateClause
  <2>1. PICK p \in DOMAIN Tree :
             /\ todo # <<>> /\ IsCompound(Tree[p])
             /\ \/ Fail(400)
                \/ /\ todo' = Compound(p) \o Tail(todo)
                   /\ UNCHANGED <<request, dialect, pc, text, placeholderState, page,
                                  leaves, status>>
    BY <1>4, CompoundStep
  <2>2. CASE Fail(400)
    BY <2>2, FailTyped
  <2>3. CASE ~Fail(400)
    <3>1. Compound(p) \o Tail(todo) \in Seq(Items)
      BY <2>1, CompoundTyped, WaitingItems, CurrentKnown, ConcatProperties DEF TypeOK
    <3>2. /\ todo' \in Seq(Items)
          /\ UNCHANGED <<request, dialect, pc, text, placeholderState, page, leaves, status>>
      BY <2>1, <2>3, <3>1
    <3> QED
      BY <3>2, TreeKept DEF TypeOK, placeholderState, Items
  <2> QED
    BY <2>2, <2>3
<1>5. CASE WriteWord
  <2>1. todo # <<>> /\ ~NextClause /\ text' = Append(text, Head(todo)) /\ todo' = Tail(todo)
        /\ UNCHANGED <<request, dialect, pc, placeholderState, page, leaves, status>>
    BY <1>5 DEF WriteWord
  <2>2. Head(todo) \in Pieces /\ Tail(todo) \in Seq(Items)
    BY <2>1, CurrentKnown
  <2>3. text' \in Seq(Pieces)
    BY <2>1, <2>2, AppendProperties DEF TypeOK
  <2> QED
    BY <2>1, <2>2, <2>3, TreeKept DEF TypeOK, placeholderState, Items
<1>6. CASE PredicatesWritten
  BY <1>6, TreeKept DEF PredicatesWritten, TypeOK, placeholderState
<1>7. CASE ExpandPagination
  <2>1. CASE Fail(400)
    BY <2>1, FailTyped
  <2>2. CASE ~Fail(400)
    <3>1. /\ pc' = "execute" /\ page' \subseteq 1..MaxRows
          /\ UNCHANGED <<request, dialect, todo, text, placeholderState, leaves, status>>
      BY <1>7, <2>2 DEF ExpandPagination, PaginateQuery
    <3> QED
      BY <3>1, TreeKept DEF TypeOK, placeholderState
  <2> QED
    BY <2>1, <2>2
<1>8. CASE Execute
  BY <1>8, TreeKept DEF Execute, TypeOK, placeholderState
<1>9. CASE UNCHANGED vars
  BY <1>9, TreeKept DEF vars, TypeOK
<1> QED
  BY <1>1, <1>2, <1>3, <1>4, <1>5, <1>6, <1>7, <1>8, <1>9 DEF Next, Done

(***************************************************************************)
(* The variables of the handler have their types (TypeOK), whatever the    *)
(* requests: in particular each placeholder that is written has an         *)
(* argument (fetch-request.ts:112-176).                                    *)
(***************************************************************************)
THEOREM TypeCorrect == Spec => []TypeOK
BY TypeInit, TypeStep, PTL DEF Spec

-----------------------------------------------------------------------------
(***************************************************************************)
(* Pages.                                                                  *)
(***************************************************************************)

(***************************************************************************)
(* The rows of page i are those of rank i*s + 1 to i*s + s.                *)
(***************************************************************************)
LEMMA PageOfRow ==
    ASSUME NEW s \in Nat \ {0}, NEW i \in Nat, NEW r \in Nat \ {0}
    PROVE  (r - 1) \div s = i <=> i * s < r /\ r <= i * s + s
<1>1. PICK q \in Int : q = (r - 1) \div s
  OBVIOUS
<1>2. q * s <= r - 1 /\ r - 1 < q * s + s
  BY <1>1
<1>3. i * s \in Int /\ q * s \in Int
  OBVIOUS
<1>4. ASSUME q < i
      PROVE  q * s + s <= i * s
  <2>1. PICK d \in Nat : i = q + 1 + d
    BY <1>4
  <2>2. i * s = q * s + s + d * s
    BY <2>1
  <2>3. d * s >= 0
    OBVIOUS
  <2> QED
    BY <2>2, <2>3
<1>5. ASSUME i < q
      PROVE  i * s + s <= q * s
  <2>1. PICK d \in Nat : q = i + 1 + d
    BY <1>5
  <2>2. q * s = i * s + s + d * s
    BY <2>1
  <2>3. d * s >= 0
    OBVIOUS
  <2> QED
    BY <2>2, <2>3
<1>6. CASE q = i
  BY <1>1, <1>2, <1>6
<1>7. CASE q < i
  BY <1>1, <1>2, <1>3, <1>4, <1>7
<1>8. CASE i < q
  BY <1>1, <1>2, <1>3, <1>5, <1>8
<1> QED
  BY <1>6, <1>7, <1>8

(***************************************************************************)
(* On each engine PaginateQuery selects the rows of the page.              *)
(***************************************************************************)
LEMMA PageRows ==
    ASSUME NEW s \in Nat \ {0}, NEW i \in Nat
    PROVE  PaginateQuery(s, Offset(s, i)) = { r \in 1..MaxRows : (r - 1) \div s = i }
<1>1. PICK offset \in Nat : offset = i * s
  OBVIOUS
<1>2. PaginateQuery(s, offset) = { r \in 1..MaxRows : offset < r /\ r <= offset + s }
  BY <1>1 DEF PaginateQuery
<1>3. \A r \in 1..MaxRows : (r - 1) \div s = i <=> offset < r /\ r <= offset + s
  BY <1>1, PageOfRow
<1> QED
  BY <1>1, <1>2, <1>3 DEF Offset

(***************************************************************************)
(* Every step keeps PagesPartition.                                        *)
(***************************************************************************)
LEMMA PageStep == TypeOK /\ PagesPartition /\ [Next]_vars => PagesPartition'
<1> SUFFICES ASSUME TypeOK, PagesPartition, [Next]_vars, pc' = "execute"
             PROVE  page' = { r \in 1..MaxRows :
                                request'.pagination = NoPagination
                                  \/ (r - 1) \div request'.pagination.size
                                       = request'.pagination.index }
  BY DEF PagesPartition
<1>1. CASE ExpandPagination
  <2>1. PICK asked : asked = request.pagination
    OBVIOUS
  <2>2. request' = request /\ pc' # "refused"
    BY <1>1 DEF ExpandPagination, Fail
  <2>3. \/ asked = NoPagination /\ page' = 1..MaxRows
        \/ /\ asked # NoPagination /\ asked.size \in 1..MaxPageSize /\ asked.index >= 0
           /\ page' = PaginateQuery(asked.size, Offset(asked.size, asked.index))
    BY <1>1, <2>1, <2>2 DEF ExpandPagination, Fail
  <2>4. CASE asked = NoPagination /\ page' = 1..MaxRows
    BY <2>1, <2>2, <2>4
  <2>5. CASE /\ asked # NoPagination /\ asked.size \in 1..MaxPageSize /\ asked.index >= 0
             /\ page' = PaginateQuery(asked.size, Offset(asked.size, asked.index))
    <3>1. asked.size \in Nat \ {0} /\ asked.index \in Nat
      <4>1. asked \in [size : Nat, index : Nat \cup {-1}]
        BY <2>1, <2>5, FetchAssumption DEF TypeOK, IsRequest
      <4> QED
        BY <2>5, <4>1, FetchAssumption
    <3>2. page' = { r \in 1..MaxRows : (r - 1) \div asked.size = asked.index }
      BY <2>5, <3>1, PageRows
    <3> QED
      BY <2>1, <2>2, <2>5, <3>2
  <2> QED
    BY <2>3, <2>4, <2>5
<1>2. CASE UNCHANGED vars
  BY <1>2 DEF vars, PagesPartition
<1>3. CASE ValidateLimits \/ StartWriting \/ ExpandSimplePredicateClause
             \/ ExpandCompoundPredicateClause \/ WriteWord \/ PredicatesWritten \/ Execute
  BY <1>3 DEF ValidateLimits, StartWriting, ExpandSimplePredicateClause,
     ExpandCompoundPredicateClause, WriteWord, PredicatesWritten, Execute, Fail
<1> QED
  BY <1>1, <1>2, <1>3 DEF Next, Done

(***************************************************************************)
(* The pages partition the rows (PagesPartition): for every page size,     *)
(* every index, any number of rows and every engine, page i has the rows   *)
(* whose rank, counted from 0, has the quotient i (fetch-                  *)
(* request.ts:218-241).                                                    *)
(***************************************************************************)
THEOREM PagesPartitionRows == Spec => []PagesPartition
<1>1. Init => PagesPartition
  BY DEF Init, PagesPartition
<1> QED
  BY <1>1, TypeCorrect, PageStep, PTL DEF Spec

-----------------------------------------------------------------------------
(***************************************************************************)
(* Parameters and arguments. ArgumentsMeetParameters is not inductive:     *)
(* that the parameters of the text are increasing and within 1..Len(args)  *)
(* does not say which they are. ArgInv says that they are exactly 1 to     *)
(* Len(args), in this order, and that what waits to be written has no      *)
(* parameter of its own.                                                   *)
(***************************************************************************)

ParametersOf(t) == { i \in 1..Len(t) : t[i].word = "param" }

\* The parameters of t are from + 1 to to, in this order.
Numbered(t, from, to) ==
    /\ \A i \in ParametersOf(t) : t[i].no \in (from + 1)..to
    /\ \A n \in (from + 1)..to : \E i \in ParametersOf(t) : t[i].no = n
    /\ \A i, j \in ParametersOf(t) : i < j => t[i].no < t[j].no

ArgInv ==
    /\ index = Len(args) + 1
    /\ todo \in Seq(Waiting)
    /\ Numbered(text, 0, Len(args))

(***************************************************************************)
(* Texts numbered one after the other are numbered together.               *)
(***************************************************************************)
LEMMA NumberedConcat ==
    ASSUME NEW t \in Seq(Pieces), NEW u \in Seq(Pieces),
           NEW from \in Nat, NEW mid \in Nat, NEW to \in Nat, from <= mid, mid <= to,
           Numbered(t, from, mid), Numbered(u, mid, to)
    PROVE  Numbered(t \o u, from, to)
<1>1. PICK v : v = t \o u
  OBVIOUS
<1>2. PICK len \in Nat : len = Len(t)
  OBVIOUS
<1>3. /\ Len(v) = len + Len(u) /\ Len(u) \in Nat
      /\ \A i \in 1..Len(v) : v[i] = IF i <= len THEN t[i] ELSE u[i - len]
  BY <1>1, <1>2, ConcatProperties
<1>4. ASSUME NEW i \in ParametersOf(v)
      PROVE  \/ i \in ParametersOf(t) /\ v[i] = t[i] /\ i <= len
             \/ i - len \in ParametersOf(u) /\ v[i] = u[i - len] /\ i > len
  BY <1>2, <1>3 DEF ParametersOf
<1>5. ASSUME NEW i \in ParametersOf(t)
      PROVE  i \in ParametersOf(v) /\ v[i] = t[i]
  BY <1>2, <1>3 DEF ParametersOf
<1>6. ASSUME NEW i \in ParametersOf(u)
      PROVE  len + i \in ParametersOf(v) /\ v[len + i] = u[i]
  <2> PICK k \in Int : k = len + i
    BY DEF ParametersOf
  <2>1. k \in 1..Len(v) /\ ~(k <= len) /\ k - len = i
    BY <1>2, <1>3 DEF ParametersOf
  <2>2. v[k] = u[i]
    BY <1>3, <2>1
  <2> QED
    BY <2>1, <2>2 DEF ParametersOf
<1>7. ParametersOf(t) \subseteq Int /\ ParametersOf(u) \subseteq Int /\ ParametersOf(v) \subseteq Int
  BY DEF ParametersOf
<1>8. ASSUME NEW i \in ParametersOf(v)
      PROVE  v[i].no \in (from + 1)..to
  BY <1>4 DEF Numbered
<1>9. ASSUME NEW n \in (from + 1)..to
      PROVE  \E i \in ParametersOf(v) : v[i].no = n
  <2>1. CASE n <= mid
    <3>1. PICK i \in ParametersOf(t) : t[i].no = n
      BY <2>1 DEF Numbered
    <3> QED
      BY <1>5, <3>1
  <2>2. CASE n > mid
    <3>1. PICK i \in ParametersOf(u) : u[i].no = n
      BY <2>2 DEF Numbered
    <3> QED
      BY <1>6, <3>1
  <2> QED
    BY <2>1, <2>2
<1>10. ASSUME NEW i \in ParametersOf(v), NEW j \in ParametersOf(v), i < j
       PROVE  v[i].no < v[j].no
  <2>1. CASE j <= len
    <3>1. /\ i \in ParametersOf(t) /\ v[i] = t[i]
          /\ j \in ParametersOf(t) /\ v[j] = t[j]
      BY <1>4, <1>7, <1>10, <2>1
    <3> QED
      BY <1>10, <3>1 DEF Numbered
  <2>2. CASE i > len
    <3>1. /\ i - len \in ParametersOf(u) /\ v[i] = u[i - len]
          /\ j - len \in ParametersOf(u) /\ v[j] = u[j - len]
          /\ i - len < j - len
      BY <1>4, <1>7, <1>10, <2>2
    <3> QED
      BY <3>1 DEF Numbered
  <2>3. CASE i <= len /\ j > len
    <3>1. /\ i \in ParametersOf(t) /\ v[i] = t[i]
          /\ j - len \in ParametersOf(u) /\ v[j] = u[j - len]
      BY <1>4, <1>7, <2>3
    <3>2. v[i].no \in (from + 1)..mid /\ v[j].no \in (mid + 1)..to
      BY <3>1 DEF Numbered
    <3> QED
      BY <3>2
  <2> QED
    BY <1>7, <2>1, <2>2, <2>3
<1> QED
  BY <1>1, <1>8, <1>9, <1>10 DEF Numbered

(***************************************************************************)
(* A word has no parameters.                                               *)
(***************************************************************************)
LEMMA NumberedNone ==
    ASSUME NEW x \in Pieces, x.word # "param", NEW n \in Nat
    PROVE  <<x>> \in Seq(Pieces) /\ Numbered(<<x>>, n, n)
<1>1. <<x>> \in Seq(Pieces) /\ Len(<<x>>) = 1 /\ <<x>>[1] = x
  OBVIOUS
<1>2. ParametersOf(<<x>>) = {}
  BY <1>1 DEF ParametersOf
<1> QED
  BY <1>1, <1>2 DEF Numbered

(***************************************************************************)
(* A rendered clause has the next parameters, as many as its placeholders. *)
(***************************************************************************)
LEMMA RenderedNumbered ==
    ASSUME NEW words \in Seq(Words), index \in Nat \ {0}
    PROVE  Numbered(Rendered(words), index - 1, index - 1 + Rank(words, Len(words)))
<1>1. PICK u \in Seq(Pieces) : u = Rendered(words)
  BY RenderedSound
<1>2. PICK n \in Nat : n = Len(words)
  OBVIOUS
<1>3. /\ Len(u) = n
      /\ \A i \in 1..n : u[i] = IF IsMark(words[i])
                                THEN Param(index + Rank(words, i) - 1)
                                ELSE Word(words[i])
  BY <1>1, <1>2, RenderedSound
<1>4. ASSUME NEW i \in 1..n
      PROVE  words[i] # "param" \/ IsMark(words[i])
  BY <1>2 DEF Words, Joins, IsMark
<1>5. ASSUME NEW i \in 1..n
      PROVE  i \in ParametersOf(u) <=> IsMark(words[i])
  BY <1>3, <1>4, ParamParts, WordParts DEF ParametersOf
<1>6. ASSUME NEW i \in 1..n, IsMark(words[i])
      PROVE  /\ u[i].no = index - 1 + Rank(words, i)
             /\ Rank(words, i) \in 1..Rank(words, n)
  <2>1. Rank(words, i) \in 1..Rank(words, n) /\ Rank(words, n) \in Nat
    BY <1>6, MarkRank, RankType
  <2>2. u[i].no = index + Rank(words, i) - 1
    BY <1>3, <1>6, ParamParts
  <2> QED
    BY <2>1, <2>2
<1>7. Rank(words, n) \in Nat
  BY RankType
<1>8. ParametersOf(u) \subseteq 1..n
  BY <1>3 DEF ParametersOf
<1>9. ASSUME NEW i \in ParametersOf(u)
      PROVE  u[i].no \in (index - 1 + 1)..(index - 1 + Rank(words, n))
  BY <1>5, <1>6, <1>7, <1>8
<1>10. ASSUME NEW k \in (index - 1 + 1)..(index - 1 + Rank(words, n))
       PROVE  \E i \in ParametersOf(u) : u[i].no = k
  <2>1. k - index + 1 \in 1..Rank(words, n)
    BY <1>7
  <2>2. PICK i \in 1..n : IsMark(words[i]) /\ Rank(words, i) = k - index + 1
    BY <2>1, MarkExists
  <2> QED
    BY <1>5, <1>6, <2>2
<1>11. ASSUME NEW i \in ParametersOf(u), NEW j \in ParametersOf(u), i < j
       PROVE  u[i].no < u[j].no
  <2>1. i \in 1..n /\ j \in 1..n /\ IsMark(words[i]) /\ IsMark(words[j])
    BY <1>5, <1>8
  <2>2. Rank(words, i) < Rank(words, j)
    BY <1>11, <2>1, RankGrows
  <2> QED
    BY <1>6, <2>1, <2>2
<1> QED
  BY <1>1, <1>2, <1>9, <1>10, <1>11 DEF Numbered

(***************************************************************************)
(* ArgInv holds when a request arrives.                                    *)
(***************************************************************************)
LEMMA ArgInit == Init => ArgInv
<1> SUFFICES ASSUME Init PROVE ArgInv
  OBVIOUS
<1>1. text = <<>> /\ args = <<>> /\ index = 1 /\ todo = <<>>
  BY DEF Init
<1>2. Len(<<>>) = 0 /\ <<>> \in Seq(Waiting)
  OBVIOUS
<1>3. ParametersOf(<<>>) = {}
  BY <1>2 DEF ParametersOf
<1> QED
  BY <1>1, <1>2, <1>3 DEF ArgInv, Numbered

(***************************************************************************)
(* What may wait is told by the request.                                   *)
(***************************************************************************)
LEMMA WaitingKept ==
    ASSUME request' = request
    PROVE  Waiting' = Waiting
BY TreeKept DEF Waiting

(***************************************************************************)
(* ArgInv is about the text, the arguments and what waits.                 *)
(***************************************************************************)
LEMMA ArgKept ==
    ASSUME ArgInv, UNCHANGED <<request, todo, text, placeholderState>>
    PROVE  ArgInv'
BY WaitingKept DEF ArgInv, placeholderState, Numbered, ParametersOf

(***************************************************************************)
(* Every step keeps ArgInv.                                                *)
(***************************************************************************)
LEMMA ArgStep == TypeOK /\ ArgInv /\ [Next]_vars => ArgInv'
<1> SUFFICES ASSUME TypeOK, ArgInv, [Next]_vars PROVE ArgInv'
  OBVIOUS
<1>1. CASE \/ ValidateLimits \/ PredicatesWritten \/ ExpandPagination \/ Execute
           \/ UNCHANGED vars \/ Fail(400) \/ Fail(500)
  BY <1>1, ArgKept DEF ValidateLimits, PredicatesWritten, ExpandPagination, Execute, vars,
     Fail, placeholderState
<1>2. CASE StartWriting /\ ~Fail(400)
  <2>1. todo' = Joined(<<>>) /\ UNCHANGED <<request, text, placeholderState>>
    BY <1>2 DEF StartWriting
  <2>2. Joined(<<>>) \in Seq(Waiting)
    BY TreeFacts, JoinedSound DEF TypeOK
  <2>3. Waiting' = Waiting
    BY <2>1, WaitingKept
  <2> QED
    BY <2>1, <2>2, <2>3 DEF ArgInv, placeholderState, Numbered, ParametersOf
<1>3. CASE ExpandSimplePredicateClause /\ ~Fail(400) /\ ~Fail(500)
  <2>1. PICK p \in DOMAIN Tree :
             /\ todo # <<>>
             /\ Tree[p].text \in Seq(Words) /\ IsArgs(Tree[p].args)
             /\ ArgsFit(Tree[p].text, Tree[p].args, Style(p))
             /\ Written(Tree[p].text, Tree[p].args)
    BY <1>3, SimpleStep DEF WritesClause
  <2>2. PICK words \in Seq(Words) : words = Tree[p].text
    BY <2>1
  <2>3. PICK count \in Nat : count = Rank(words, Len(words))
    BY RankType
  <2>4. PICK more \in Seq(Values) : more = ArgumentsOf(words, Tree[p].args) /\ Len(more) = count
    BY <2>1, <2>2, <2>3, ArgumentsSound DEF Style
  <2>5. /\ text' = text \o <<Word("(")>> \o Rendered(words) \o <<Word(")")>>
        /\ args' = args \o more /\ index' = index + count /\ todo' = Tail(todo)
        /\ request' = request
    BY <2>1, <2>2, <2>3, <2>4 DEF Written
  <2>6. PICK n \in Nat : n = Len(args) /\ index = n + 1
    BY DEF TypeOK, ArgInv
  <2>7. Len(args') = n + count /\ index' = Len(args') + 1
    <3>1. Len(args \o more) = Len(args) + Len(more)
      BY ConcatProperties DEF TypeOK
    <3> QED
      BY <2>4, <2>5, <2>6, <3>1
  <2>8. todo' \in Seq(Waiting)'
    <3>1. Tail(todo) \in Seq(Waiting)
      BY <2>1 DEF ArgInv
    <3>2. Waiting' = Waiting
      BY <2>5, WaitingKept
    <3> QED
      BY <2>5, <3>1, <3>2
  <2>9. Numbered(text', 0, n + count)
    <3>1. PICK one : one = text \o <<Word("(")>>
      OBVIOUS
    <3>2. PICK u : u = Rendered(words)
      OBVIOUS
    <3>3. PICK two : two = one \o u
      OBVIOUS
    <3>4. Word("(") \in Pieces /\ Word("(").word # "param"
      BY WordTyped, WordParts
    <3>5. Word(")") \in Pieces /\ Word(")").word # "param"
      BY WordTyped, WordParts
    <3>6. one \in Seq(Pieces) /\ Numbered(one, 0, n)
      <4>1. <<Word("(")>> \in Seq(Pieces) /\ Numbered(<<Word("(")>>, n, n)
        BY <3>4, NumberedNone
      <4>2. text \in Seq(Pieces) /\ Numbered(text, 0, n)
        BY <2>6 DEF TypeOK, ArgInv
      <4>3. 0 <= n /\ n <= n
        OBVIOUS
      <4>4. Numbered(text \o <<Word("(")>>, 0, n)
        BY <4>1, <4>2, <4>3, NumberedConcat
      <4> QED
        BY <3>1, <4>1, <4>2, <4>4, ConcatProperties
    <3>7. u \in Seq(Pieces) /\ Numbered(u, n, n + count)
      <4>1. index \in Nat \ {0}
        BY DEF TypeOK
      <4>2. Numbered(u, index - 1, index - 1 + Rank(words, Len(words)))
        BY <3>2, <4>1, RenderedNumbered
      <4>3. index - 1 = n
        BY <2>6
      <4> QED
        BY <2>3, <3>2, <4>1, <4>2, <4>3, RenderedSound
    <3>8. two \in Seq(Pieces) /\ Numbered(two, 0, n + count)
      BY <3>3, <3>6, <3>7, NumberedConcat, ConcatProperties
    <3>9. <<Word(")")>> \in Seq(Pieces) /\ Numbered(<<Word(")")>>, n + count, n + count)
      BY <3>5, NumberedNone
    <3>10. 0 <= n + count /\ n + count <= n + count /\ n + count \in Nat
      OBVIOUS
    <3>11. Numbered(two \o <<Word(")")>>, 0, n + count)
      BY <3>8, <3>9, <3>10, NumberedConcat
    <3> QED
      BY <2>5, <3>1, <3>2, <3>3, <3>11
  <2> QED
    BY <2>7, <2>8, <2>9 DEF ArgInv, Numbered, ParametersOf
<1>4. CASE ExpandCompoundPredicateClause /\ ~Fail(400)
  <2>1. PICK p \in DOMAIN Tree :
             /\ todo # <<>> /\ IsCompound(Tree[p])
             /\ todo' = Compound(p) \o Tail(todo)
             /\ UNCHANGED <<request, text, placeholderState>>
    BY <1>4, CompoundStep
  <2>2. Compound(p) \o Tail(todo) \in Seq(Waiting)
    BY <2>1, CompoundTyped, ConcatProperties DEF TypeOK, ArgInv
  <2>3. Waiting' = Waiting
    BY <2>1, WaitingKept
  <2> QED
    BY <2>1, <2>2, <2>3 DEF ArgInv, placeholderState, Numbered, ParametersOf
<1>5. CASE WriteWord
  <2>1. todo # <<>> /\ ~NextClause /\ text' = Append(text, Head(todo)) /\ todo' = Tail(todo)
        /\ UNCHANGED <<request, placeholderState>>
    BY <1>5 DEF WriteWord
  <2>2. Head(todo) \in Waiting /\ Tail(todo) \in Seq(Waiting)
    BY <2>1 DEF ArgInv
  <2>3. Head(todo) \in Pieces /\ Head(todo).word # "param"
    BY <2>1, <2>2, CurrentKnown, WaitingItems DEF NextClause
  <2>4. PICK n \in Nat : n = Len(args)
    BY DEF TypeOK
  <2>5. <<Head(todo)>> \in Seq(Pieces) /\ Numbered(<<Head(todo)>>, n, n)
    BY <2>3, NumberedNone
  <2>6. text \in Seq(Pieces) /\ Numbered(text, 0, n)
    BY <2>4 DEF TypeOK, ArgInv
  <2>7. Append(text, Head(todo)) = text \o <<Head(todo)>>
    BY <2>3, <2>6, AppendIsConcat
  <2>10. 0 <= n /\ n <= n
    OBVIOUS
  <2>11. Numbered(text \o <<Head(todo)>>, 0, n)
    BY <2>5, <2>6, <2>10, NumberedConcat
  <2>8. Numbered(text', 0, n)
    BY <2>1, <2>7, <2>11
  <2>9. Waiting' = Waiting
    BY <2>1, WaitingKept
  <2> QED
    BY <2>1, <2>2, <2>4, <2>8, <2>9 DEF ArgInv, placeholderState, Numbered, ParametersOf
<1> QED
  BY <1>1, <1>2, <1>3, <1>4, <1>5 DEF Next, Done

(***************************************************************************)
(* ArgInv implies the property: as many parameters as arguments.           *)
(***************************************************************************)
LEMMA ArgImplied == TypeOK /\ ArgInv => ArgumentsMeetParameters
<1> SUFFICES ASSUME TypeOK, ArgInv PROVE ArgumentsMeetParameters
  OBVIOUS
<1>1. Parameters = ParametersOf(text) /\ Len(text) \in Nat /\ Len(args) \in Nat
  BY DEF Parameters, ParametersOf, TypeOK
<1> DEFINE f == [i \in Parameters |-> text[i].no]
           T == 1..Len(args)
<1>2. Numbered(text, 0, Len(args))
  BY DEF ArgInv
<1>3. /\ \A i \in Parameters : text[i].no \in T
      /\ \A n \in T : \E i \in Parameters : text[i].no = n
      /\ \A i, j \in Parameters : i < j => text[i].no < text[j].no
  BY <1>1, <1>2 DEF Numbered
<1>4. Parameters \subseteq 1..Len(text)
  BY <1>1 DEF ParametersOf
<1>5. IsFiniteSet(Parameters)
  <2>1. IsFiniteSet(1..Len(text))
    BY <1>1, FS_Interval
  <2> QED
    BY <1>4, <2>1, FS_Subset
<1>6. f \in [Parameters -> T]
  BY <1>3
<1>7. \A i, j \in Parameters : f[i] = f[j] => i = j
  <2> SUFFICES ASSUME NEW i \in Parameters, NEW j \in Parameters, i < j
               PROVE  text[i].no # text[j].no
    BY <1>4
  <2>1. text[i].no < text[j].no /\ text[i].no \in T /\ text[j].no \in T
    BY <1>3
  <2> QED
    BY <1>1, <2>1
<1>8. \A n \in T : \E i \in Parameters : f[i] = n
  BY <1>3
<1>9. f \in Bijection(Parameters, T)
  BY <1>6, <1>7, <1>8 DEF Bijection, Injection, Surjection, IsInjective
<1>10. ExistsBijection(Parameters, T)
  BY <1>9 DEF ExistsBijection
<1>11. Cardinality(Parameters) = Cardinality(T)
  BY <1>5, <1>10, FS_Bijection
<1>12. Cardinality(T) = Len(args)
  <2>1. PICK n \in Nat : n = Len(args)
    BY <1>1
  <2>2. Cardinality(1..n) = n
    BY FS_Interval
  <2> QED
    BY <2>1, <2>2
<1> QED
  BY <1>3, <1>11, <1>12 DEF ArgumentsMeetParameters, ArgInv

(***************************************************************************)
(* The parameters of the text are 1 to the number of arguments, in the     *)
(* order in which they occur (ArgumentsMeetParameters), at every moment of *)
(* the writing of any tree (fetch-request.ts:112-176).                     *)
(***************************************************************************)
THEOREM ArgumentsMatch == Spec => []ArgumentsMeetParameters
<1>1. Spec => [](TypeOK /\ ArgInv)
  BY TypeInit, TypeStep, ArgInit, ArgStep, PTL DEF Spec
<1> QED
  BY <1>1, ArgImplied, PTL

-----------------------------------------------------------------------------
(***************************************************************************)
(* The clauses that wait. No clause waits twice, nor one that is below     *)
(* another that waits: so a simple predicate is written once.              *)
(***************************************************************************)

\* The clause at p is the one at q or below it.
Above(q, p) == Len(q) <= Len(p) /\ \A k \in 1..Len(q) : q[k] = p[k]

Apart(p, q) == ~ Above(p, q) /\ ~ Above(q, p)

HasClause(x) == "clause" \in DOMAIN x

\* The clauses in a sequence of what is to be written.
ClausesOf(t) == { t[j].clause : j \in { j \in 1..Len(t) : HasClause(t[j]) } }

Disjoint(t) ==
    \A i, j \in 1..Len(t) :
        i < j /\ HasClause(t[i]) /\ HasClause(t[j]) => Apart(t[i].clause, t[j].clause)

(***************************************************************************)
(* The clauses of two sequences of items, and when no two of them share a  *)
(* predicate.                                                              *)
(***************************************************************************)
LEMMA ClausesConcat ==
    ASSUME NEW S, NEW s \in Seq(S), NEW t \in Seq(S)
    PROVE  /\ ClausesOf(s \o t) = ClausesOf(s) \cup ClausesOf(t)
           /\ Disjoint(s) /\ Disjoint(t)
                /\ (\A p \in ClausesOf(s), q \in ClausesOf(t) : Apart(p, q))
                => Disjoint(s \o t)
           /\ Disjoint(s \o t) =>
                Disjoint(t) /\ \A p \in ClausesOf(s), q \in ClausesOf(t) : Apart(p, q)
<1>1. PICK v : v = s \o t
  OBVIOUS
<1>2. PICK len \in Nat : len = Len(s)
  OBVIOUS
<1>3. PICK more \in Nat : more = Len(t)
  OBVIOUS
<1>4. /\ Len(v) = len + more
      /\ \A i \in 1..(len + more) : v[i] = IF i <= len THEN s[i] ELSE t[i - len]
  BY <1>1, <1>2, <1>3, ConcatProperties
<1>5. \A i \in 1..len : i \in 1..(len + more) /\ v[i] = s[i]
  BY <1>4
<1>6. ASSUME NEW i \in 1..more
      PROVE  len + i \in 1..(len + more) /\ v[len + i] = t[i]
  <2>1. PICK k \in Int : k = len + i
    OBVIOUS
  <2>2. k \in 1..(len + more) /\ ~ (k <= len) /\ k - len = i
    BY <2>1
  <2>3. v[k] = t[i]
    BY <1>4, <2>2
  <2> QED
    BY <2>1, <2>2, <2>3
<1>7. ASSUME NEW p
      PROVE  p \in ClausesOf(v) <=> p \in ClausesOf(s) \/ p \in ClausesOf(t)
  <2>1. ASSUME p \in ClausesOf(v)
        PROVE  p \in ClausesOf(s) \/ p \in ClausesOf(t)
    <3>1. PICK j \in 1..(len + more) : HasClause(v[j]) /\ p = v[j].clause
      BY <1>4, <2>1 DEF ClausesOf
    <3>2. CASE j <= len
      BY <1>2, <1>4, <3>1, <3>2 DEF ClausesOf
    <3>3. CASE j > len
      <4>1. j - len \in 1..more /\ v[j] = t[j - len]
        BY <1>4, <3>3
      <4> QED
        BY <1>3, <3>1, <4>1 DEF ClausesOf
    <3> QED
      BY <3>2, <3>3
  <2>2. ASSUME p \in ClausesOf(s)
        PROVE  p \in ClausesOf(v)
    <3>1. PICK j \in 1..len : HasClause(s[j]) /\ p = s[j].clause
      BY <1>2, <2>2 DEF ClausesOf
    <3> QED
      BY <1>4, <1>5, <3>1 DEF ClausesOf
  <2>3. ASSUME p \in ClausesOf(t)
        PROVE  p \in ClausesOf(v)
    <3>1. PICK j \in 1..more : HasClause(t[j]) /\ p = t[j].clause
      BY <1>3, <2>3 DEF ClausesOf
    <3> QED
      BY <1>4, <1>6, <3>1 DEF ClausesOf
  <2> QED
    BY <2>1, <2>2, <2>3
<1>8. ASSUME Disjoint(s), Disjoint(t), \A p \in ClausesOf(s), q \in ClausesOf(t) : Apart(p, q)
      PROVE  Disjoint(v)
  <2> SUFFICES ASSUME NEW i \in 1..(len + more), NEW j \in 1..(len + more), i < j,
                      HasClause(v[i]), HasClause(v[j])
               PROVE  Apart(v[i].clause, v[j].clause)
    BY <1>4 DEF Disjoint
  <2>1. CASE j <= len
    <3>1. i \in 1..len /\ j \in 1..len /\ v[i] = s[i] /\ v[j] = s[j]
      BY <1>4, <2>1
    <3> QED
      BY <1>2, <1>8, <3>1 DEF Disjoint
  <2>2. CASE i > len
    <3>1. PICK a \in 1..more, b \in 1..more : a = i - len /\ b = j - len
      BY <2>2
    <3>2. a < b /\ v[i] = t[a] /\ v[j] = t[b]
      BY <1>4, <2>2, <3>1
    <3> QED
      BY <1>3, <1>8, <3>2 DEF Disjoint
  <2>3. CASE i <= len /\ j > len
    <3>1. i \in 1..len /\ v[i] = s[i]
      BY <1>4, <2>3
    <3>2. PICK b \in 1..more : b = j - len
      BY <2>3
    <3>3. v[j] = t[b]
      BY <1>4, <2>3, <3>2
    <3>4. v[i].clause \in ClausesOf(s) /\ v[j].clause \in ClausesOf(t)
      BY <1>2, <1>3, <3>1, <3>3 DEF ClausesOf
    <3> QED
      BY <1>8, <3>4
  <2> QED
    BY <2>1, <2>2, <2>3
<1>9. ASSUME Disjoint(v)
      PROVE  Disjoint(t) /\ \A p \in ClausesOf(s), q \in ClausesOf(t) : Apart(p, q)
  <2>1. ASSUME NEW i \in 1..(len + more), NEW j \in 1..(len + more), i < j,
               HasClause(v[i]), HasClause(v[j])
        PROVE  Apart(v[i].clause, v[j].clause)
    BY <1>4, <1>9, <2>1 DEF Disjoint
  <2>2. ASSUME NEW i \in 1..more, NEW j \in 1..more, i < j, HasClause(t[i]), HasClause(t[j])
        PROVE  Apart(t[i].clause, t[j].clause)
    <3>1. len + i < len + j
      BY <2>2
    <3> QED
      BY <1>6, <2>1, <2>2, <3>1
  <2>3. ASSUME NEW p \in ClausesOf(s), NEW q \in ClausesOf(t)
        PROVE  Apart(p, q)
    <3>1. PICK i \in 1..len : HasClause(s[i]) /\ p = s[i].clause
      BY <1>2 DEF ClausesOf
    <3>2. PICK j \in 1..more : HasClause(t[j]) /\ q = t[j].clause
      BY <1>3 DEF ClausesOf
    <3>3. i < len + j
      OBVIOUS
    <3> QED
      BY <1>5, <1>6, <2>1, <3>1, <3>2, <3>3
  <2> QED
    BY <1>3, <2>2, <2>3 DEF Disjoint
<1> QED
  BY <1>1, <1>7, <1>8, <1>9

(***************************************************************************)
(* The clauses of one item.                                                *)
(***************************************************************************)
LEMMA ClausesSingle ==
    ASSUME NEW x
    PROVE  /\ ClausesOf(<<x>>) = IF HasClause(x) THEN {x.clause} ELSE {}
           /\ Disjoint(<<x>>)
<1>1. Len(<<x>>) = 1 /\ <<x>>[1] = x
  OBVIOUS
<1> QED
  BY <1>1 DEF ClausesOf, Disjoint

(***************************************************************************)
(* The clauses of a sequence are that at its head and those of its tail.   *)
(***************************************************************************)
LEMMA ClausesHead ==
    ASSUME NEW S, NEW t \in Seq(S), t # <<>>
    PROVE  /\ Tail(t) \in Seq(S)
           /\ ClausesOf(t) = (IF HasClause(Head(t)) THEN {Head(t).clause} ELSE {})
                               \cup ClausesOf(Tail(t))
           /\ Disjoint(t) =>
                /\ Disjoint(Tail(t))
                /\ HasClause(Head(t)) =>
                     \A q \in ClausesOf(Tail(t)) : Apart(Head(t).clause, q)
<1>1. PICK x \in S : x = Head(t)
  OBVIOUS
<1>2. PICK rest \in Seq(S) : rest = Tail(t)
  BY HeadTailProperties
<1>3. t = <<x>> \o rest
  <2>1. t = <<Head(t)>> \o Tail(t)
    BY HeadTailProperties
  <2> QED
    BY <1>1, <1>2, <2>1
<1>4. <<x>> \in Seq(S)
  OBVIOUS
<1>5. /\ ClausesOf(t) = ClausesOf(<<x>>) \cup ClausesOf(rest)
      /\ Disjoint(t) =>
           Disjoint(rest) /\ \A p \in ClausesOf(<<x>>), q \in ClausesOf(rest) : Apart(p, q)
  BY <1>3, <1>4, ClausesConcat
<1>6. ClausesOf(<<x>>) = IF HasClause(x) THEN {x.clause} ELSE {}
  BY ClausesSingle
<1> QED
  BY <1>1, <1>2, <1>5, <1>6

-----------------------------------------------------------------------------
(***************************************************************************)
(* Paths: what is below a compound clause is below one of its children.    *)
(***************************************************************************)

\* What TreeFacts says of the shape of a tree.
IsShape(tree) ==
    /\ IsFiniteSet(DOMAIN tree)
    /\ <<>> \in DOMAIN tree /\ IsCompound(tree[<<>>])
    /\ \A p \in DOMAIN tree : IsWritersPath(p, tree)
    /\ \A p \in DOMAIN tree : IsCompound(tree[p]) =>
         /\ Size(tree[p]) \in Nat
         /\ \A i \in 1..Size(tree[p]) : Append(p, i) \in DOMAIN tree

(***************************************************************************)
(* A clause of a tree is a path.                                           *)
(***************************************************************************)
LEMMA PathTyped ==
    ASSUME NEW tree, IsShape(tree), NEW p \in DOMAIN tree
    PROVE  p \in Seq(Nat \ {0}) /\ p \in Seq(Nat) /\ Len(p) \in Nat
<1>1. p \in Seq(Nat \ {0})
  BY DEF IsShape, IsWritersPath
<1>2. p \in Seq(Nat)
  <2>1. Nat \ {0} \subseteq Nat
    OBVIOUS
  <2> QED
    BY <1>1, <2>1, SeqMonotonic
<1> QED
  BY <1>1, <1>2

(***************************************************************************)
(* The path of a child.                                                    *)
(***************************************************************************)
LEMMA ChildPath ==
    ASSUME NEW p \in Seq(Nat), NEW i \in Nat
    PROVE  /\ Append(p, i) \in Seq(Nat)
           /\ Append(p, i) # <<>> /\ Append(p, i) # p
           /\ Len(Append(p, i)) = Len(p) + 1
           /\ \A k \in 1..Len(p) : Append(p, i)[k] = p[k]
           /\ Append(p, i)[Len(p) + 1] = i
<1>1. Len(Append(p, i)) = Len(p) + 1 /\ Len(p) \in Nat
  BY AppendProperties
<1>2. Append(p, i) # p
  BY <1>1
<1> QED
  BY <1>2, AppendProperties

(***************************************************************************)
(* A clause is at or below itself.                                         *)
(***************************************************************************)
LEMMA AboveSelf ==
    ASSUME NEW p \in Seq(Nat)
    PROVE  Above(p, p)
BY DEF Above

(***************************************************************************)
(* Every clause is below the list of the request.                          *)
(***************************************************************************)
LEMMA AboveTop ==
    ASSUME NEW p \in Seq(Nat)
    PROVE  Above(<<>>, p)
BY DEF Above

(***************************************************************************)
(* The clauses at or below a child are below its parent.                   *)
(***************************************************************************)
LEMMA AboveChild ==
    ASSUME NEW p \in Seq(Nat), NEW i \in Nat, NEW q \in Seq(Nat), Above(Append(p, i), q)
    PROVE  Above(p, q) /\ Len(p) + 1 <= Len(q) /\ q[Len(p) + 1] = i
<1>1. PICK c \in Seq(Nat) : c = Append(p, i)
  BY ChildPath
<1>2. PICK n \in Nat : n = Len(p)
  OBVIOUS
<1>3. Len(c) = n + 1 /\ (\A k \in 1..n : c[k] = p[k]) /\ c[n + 1] = i
  BY <1>1, <1>2, ChildPath
<1>4. n + 1 <= Len(q) /\ \A k \in 1..(n + 1) : q[k] = c[k]
  BY <1>1, <1>3 DEF Above
<1>5. n <= Len(q) /\ \A k \in 1..n : q[k] = p[k]
  BY <1>3, <1>4
<1>6. q[n + 1] = i
  BY <1>3, <1>4
<1> QED
  BY <1>2, <1>4, <1>5, <1>6 DEF Above

(***************************************************************************)
(* No predicate is below two children of a clause.                         *)
(***************************************************************************)
LEMMA ChildrenApart ==
    ASSUME NEW p \in Seq(Nat), NEW i \in Nat, NEW j \in Nat, i # j
    PROVE  Apart(Append(p, i), Append(p, j))
<1>1. ASSUME NEW a \in Nat, NEW b \in Nat, Above(Append(p, a), Append(p, b))
      PROVE  a = b
  <2>1. Append(p, b) \in Seq(Nat) /\ Append(p, b)[Len(p) + 1] = b
    BY ChildPath
  <2>2. Append(p, b)[Len(p) + 1] = a
    BY <1>1, <2>1, AboveChild
  <2> QED
    BY <2>1, <2>2
<1> QED
  BY <1>1 DEF Apart

(***************************************************************************)
(* What is apart from a clause is apart from its children.                 *)
(***************************************************************************)
LEMMA ApartChild ==
    ASSUME NEW p \in Seq(Nat), NEW i \in Nat, NEW q \in Seq(Nat), Apart(p, q)
    PROVE  Apart(Append(p, i), q)
<1>1. ~ Above(Append(p, i), q)
  BY AboveChild DEF Apart
<1>2. ASSUME Above(q, Append(p, i))
      PROVE  FALSE
  <2>1. PICK c \in Seq(Nat) : c = Append(p, i)
    BY ChildPath
  <2>2. PICK n \in Nat : n = Len(p)
    OBVIOUS
  <2>3. PICK m \in Nat : m = Len(q)
    OBVIOUS
  <2>4. Len(c) = n + 1 /\ \A k \in 1..n : c[k] = p[k]
    BY <2>1, <2>2, ChildPath
  <2>5. m <= n + 1 /\ \A k \in 1..m : q[k] = c[k]
    BY <1>2, <2>1, <2>3, <2>4 DEF Above
  <2>6. CASE m <= n
    <3>1. \A k \in 1..m : q[k] = p[k]
      BY <2>4, <2>5, <2>6
    <3> QED
      BY <2>2, <2>3, <2>6, <3>1 DEF Above, Apart
  <2>7. CASE m = n + 1
    <3>1. \A k \in 1..n : p[k] = q[k]
      BY <2>4, <2>5, <2>7
    <3> QED
      BY <2>2, <2>3, <2>7, <3>1 DEF Above, Apart
  <2> QED
    BY <2>5, <2>6, <2>7
<1> QED
  BY <1>1, <1>2 DEF Apart

(***************************************************************************)
(* A clause below another is at or below one of its children, and the      *)
(* other is compound.                                                      *)
(***************************************************************************)
LEMMA BelowChild ==
    ASSUME NEW tree, IsShape(tree), NEW p \in DOMAIN tree, NEW s \in DOMAIN tree,
           Above(p, s), s # p
    PROVE  /\ IsCompound(tree[p])
           /\ \E i \in 1..Size(tree[p]) : Above(Append(p, i), s)
<1>1. p \in Seq(Nat) /\ s \in Seq(Nat) /\ s \in Seq(Nat \ {0})
  BY PathTyped
<1>2. PICK n \in Nat : n = Len(p)
  BY <1>1
<1>3. PICK m \in Nat : m = Len(s)
  BY <1>1
<1>4. n <= m /\ \A k \in 1..n : s[k] = p[k]
  BY <1>2, <1>3 DEF Above
<1>5. n # m
  <2>1. ASSUME n = m
        PROVE  s = p
    <3>1. Len(s) = Len(p) /\ \A k \in 1..Len(s) : s[k] = p[k]
      BY <1>2, <1>3, <1>4, <2>1
    <3> QED
      BY <1>1, <3>1, SeqEqual
  <2> QED
    BY <2>1
<1>6. n + 1 \in 1..m /\ n + 1 - 1 = n
  <2>1. n < m
    BY <1>4, <1>5
  <2> QED
    BY <2>1
<1>7. SubSeq(s, 1, n) = p
  <2>1. \A k \in 1..n : s[k] \in Nat
    BY <1>1, <1>3, <1>4
  <2>2. SubSeq(s, 1, n) \in Seq(Nat)
    BY <2>1, SubSeqProperties
  <2>3. Len(SubSeq(s, 1, n)) = n
    BY <2>1, SubSeqProperties
  <2>4. \A k \in 1..n : SubSeq(s, 1, n)[k] = s[k]
    <3>1. \A k \in 1..(n - 1 + 1) : SubSeq(s, 1, n)[k] = s[1 + k - 1]
      BY <2>1, SubSeqProperties
    <3> QED
      BY <3>1
  <2>5. \A k \in 1..n : SubSeq(s, 1, n)[k] = p[k]
    BY <1>4, <2>4
  <2> QED
    BY <1>1, <1>2, <2>2, <2>3, <2>5, SeqEqual
<1>8. IsCompound(tree[p]) /\ s[n + 1] <= Size(tree[p])
  <2>1. IsWritersPath(s, tree)
    BY DEF IsShape
  <2>2. IsCompound(tree[SubSeq(s, 1, n + 1 - 1)]) /\ s[n + 1] <= Size(tree[SubSeq(s, 1, n + 1 - 1)])
    BY <1>3, <1>6, <2>1 DEF IsWritersPath
  <2> QED
    BY <1>6, <1>7, <2>2
<1>9. Size(tree[p]) \in Nat
  BY <1>8 DEF IsShape
<1>10. s[n + 1] \in Nat \ {0}
  <2>1. PICK k \in 1..Len(s) : k = n + 1
    BY <1>3, <1>6
  <2> QED
    BY <1>1, <2>1
<1>11. PICK i \in 1..Size(tree[p]) : i = s[n + 1]
  BY <1>8, <1>9, <1>10
<1>12. Above(Append(p, i), s)
  <2>1. i \in Nat
    BY <1>9
  <2>2. PICK c \in Seq(Nat) : c = Append(p, i)
    BY <1>1, <2>1, ChildPath
  <2>3. Len(c) = n + 1 /\ (\A k \in 1..n : c[k] = p[k]) /\ c[n + 1] = i
    BY <1>1, <1>2, <2>1, <2>2, ChildPath
  <2>4. ASSUME NEW k \in 1..(n + 1)
        PROVE  s[k] = c[k]
    <3>1. CASE k = n + 1
      BY <1>11, <2>3, <3>1
    <3>2. CASE k \in 1..n
      BY <1>4, <2>3, <3>2
    <3> QED
      BY <3>1, <3>2
  <2> QED
    BY <1>3, <1>6, <2>2, <2>3, <2>4 DEF Above
<1> QED
  BY <1>8, <1>12

-----------------------------------------------------------------------------
(***************************************************************************)
(* What the walk has done. The predicates that are written are those that  *)
(* are not below a clause that waits.                                      *)
(***************************************************************************)

\* A clause that is not written before one of C is.
Waits(C, p) == \E q \in C : Above(q, p)

Simples(tree) == { p \in DOMAIN tree : ~IsCompound(tree[p]) }

WrittenOf(tree, C) == { p \in Simples(tree) : ~Waits(C, p) }

StyleOf(tree, p) == ClauseMode(tree[p].text)

\* A predicate with a text and arguments for it.
FitsOf(tree, p) ==
    HasText(tree[p]) /\ ArgsFit(tree[p].text, tree[p].args, StyleOf(tree, p))

\* The rules that the simple predicates of W obey, in a request of style m.
Obeys(tree, W, m) ==
    /\ m \in {"null", "positional", "named"}
    /\ \A p \in W : FitsOf(tree, p)
    /\ \A p \in W : StyleOf(tree, p) \in {m, "null"}
    /\ m # "null" => \E p \in W : StyleOf(tree, p) = m

\* A compound clause that was expanded has children.
Expanded(tree, C) ==
    \A p \in DOMAIN tree : IsCompound(tree[p]) /\ p # <<>> => Waits(C, p) \/ Size(tree[p]) > 0

\* The walk when the clauses of C wait, m is its style, and n predicates are written.
Walk(tree, C, m, n) ==
    /\ C \subseteq DOMAIN tree /\ <<>> \notin C
    /\ n = Cardinality(WrittenOf(tree, C))
    /\ Obeys(tree, WrittenOf(tree, C), m)
    /\ Expanded(tree, C)

ChildrenOf(tree, p) == { Append(p, i) : i \in 1..Size(tree[p]) }

(***************************************************************************)
(* The children of a compound clause are clauses of the tree.              *)
(***************************************************************************)
LEMMA ChildrenKnown ==
    ASSUME NEW tree, IsShape(tree), NEW p \in DOMAIN tree, IsCompound(tree[p])
    PROVE  /\ ChildrenOf(tree, p) \subseteq DOMAIN tree
           /\ <<>> \notin ChildrenOf(tree, p)
           /\ p \notin ChildrenOf(tree, p)
<1>1. p \in Seq(Nat) /\ Size(tree[p]) \in Nat
  BY PathTyped DEF IsShape
<1>2. ASSUME NEW i \in 1..Size(tree[p])
      PROVE  Append(p, i) \in DOMAIN tree /\ Append(p, i) # <<>> /\ Append(p, i) # p
  <2>1. i \in Nat
    BY <1>1
  <2> QED
    BY <1>1, <2>1, ChildPath DEF IsShape
<1> QED
  BY <1>2 DEF ChildrenOf

(***************************************************************************)
(* Below the children of a compound clause is what is below it, itself     *)
(* excepted.                                                               *)
(***************************************************************************)
LEMMA WaitsChildren ==
    ASSUME NEW tree, IsShape(tree), NEW p \in DOMAIN tree, IsCompound(tree[p]),
           NEW s \in DOMAIN tree, s # p
    PROVE  Waits(ChildrenOf(tree, p), s) <=> Above(p, s)
<1>1. p \in Seq(Nat) /\ s \in Seq(Nat) /\ Size(tree[p]) \in Nat
  BY PathTyped DEF IsShape
<1>2. ASSUME Above(p, s)
      PROVE  Waits(ChildrenOf(tree, p), s)
  BY <1>2, BelowChild DEF Waits, ChildrenOf
<1>3. ASSUME Waits(ChildrenOf(tree, p), s)
      PROVE  Above(p, s)
  <2>1. PICK i \in 1..Size(tree[p]) : Above(Append(p, i), s)
    BY <1>3 DEF Waits, ChildrenOf
  <2>2. i \in Nat
    BY <1>1
  <2> QED
    BY <1>1, <2>1, <2>2, AboveChild
<1> QED
  BY <1>2, <1>3

(***************************************************************************)
(* There are no more predicates written than there are predicates.         *)
(***************************************************************************)
LEMMA WrittenFinite ==
    ASSUME NEW tree, IsShape(tree), NEW C
    PROVE  /\ IsFiniteSet(Simples(tree)) /\ Cardinality(Simples(tree)) \in Nat
           /\ IsFiniteSet(WrittenOf(tree, C))
           /\ Cardinality(WrittenOf(tree, C)) \in Nat
           /\ Cardinality(WrittenOf(tree, C)) <= Cardinality(Simples(tree))
<1>1. Simples(tree) \subseteq DOMAIN tree /\ WrittenOf(tree, C) \subseteq Simples(tree)
  BY DEF Simples, WrittenOf
<1>2. IsFiniteSet(Simples(tree))
  BY <1>1, FS_Subset DEF IsShape
<1>3. IsFiniteSet(WrittenOf(tree, C))
        /\ Cardinality(WrittenOf(tree, C)) <= Cardinality(Simples(tree))
  BY <1>1, <1>2, FS_Subset
<1> QED
  BY <1>2, <1>3, FS_CardinalityType

(***************************************************************************)
(* The first step: the children of the request's list wait, and nothing is *)
(* written.                                                                *)
(***************************************************************************)
LEMMA WalkStarts ==
    ASSUME NEW tree, IsShape(tree)
    PROVE  Walk(tree, ChildrenOf(tree, <<>>), "null", 0)
<1> DEFINE C == ChildrenOf(tree, <<>>)
<1>1. <<>> \in DOMAIN tree /\ IsCompound(tree[<<>>])
  BY DEF IsShape
<1>2. ASSUME NEW s \in DOMAIN tree, s # <<>>
      PROVE  Waits(C, s)
  <2>1. Above(<<>>, s)
    BY PathTyped, AboveTop
  <2> QED
    BY <1>1, <1>2, <2>1, WaitsChildren
<1>3. WrittenOf(tree, C) = {}
  BY <1>1, <1>2 DEF WrittenOf, Simples
<1>4. Cardinality(WrittenOf(tree, C)) = 0
  BY <1>3, FS_EmptySet
<1>5. C \subseteq DOMAIN tree /\ <<>> \notin C
  BY <1>1, ChildrenKnown
<1>6. Expanded(tree, C)
  BY <1>2 DEF Expanded
<1>7. Obeys(tree, {}, "null")
  BY DEF Obeys
<1> QED
  BY <1>3, <1>4, <1>5, <1>6, <1>7 DEF Walk

(***************************************************************************)
(* A compound clause is replaced by its children: nothing is written.      *)
(***************************************************************************)
LEMMA WalkDescends ==
    ASSUME NEW tree, IsShape(tree), NEW C, NEW p \in DOMAIN tree, IsCompound(tree[p]),
           Size(tree[p]) > 0, NEW m, NEW n, Walk(tree, {p} \cup C, m, n)
    PROVE  Walk(tree, ChildrenOf(tree, p) \cup C, m, n)
<1> DEFINE D == ChildrenOf(tree, p) \cup C
<1>1. D \subseteq DOMAIN tree /\ <<>> \notin D
  BY ChildrenKnown DEF Walk
<1>2. ASSUME NEW s \in DOMAIN tree, s # p
      PROVE  Waits({p} \cup C, s) <=> Waits(D, s)
  <2>1. Waits({p} \cup C, s) <=> Above(p, s) \/ Waits(C, s)
    BY DEF Waits
  <2>2. Waits(D, s) <=> Waits(ChildrenOf(tree, p), s) \/ Waits(C, s)
    BY DEF Waits
  <2> QED
    BY <1>2, <2>1, <2>2, WaitsChildren
<1>3. WrittenOf(tree, D) = WrittenOf(tree, {p} \cup C)
  BY <1>2 DEF WrittenOf, Simples
<1>4. Expanded(tree, D)
  BY <1>2 DEF Expanded, Walk
<1> QED
  BY <1>1, <1>3, <1>4 DEF Walk

(***************************************************************************)
(* A simple predicate is written: it was not before, and no other is.      *)
(***************************************************************************)
LEMMA WalkWrites ==
    ASSUME NEW tree, IsShape(tree), NEW C, NEW p \in DOMAIN tree, ~IsCompound(tree[p]),
           \A q \in C : Apart(p, q), NEW m, NEW n, Walk(tree, {p} \cup C, m, n),
           FitsOf(tree, p),
           StyleOf(tree, p) # "null" => m \in {"null", StyleOf(tree, p)}
    PROVE  Walk(tree, C, IF StyleOf(tree, p) = "null" THEN m ELSE StyleOf(tree, p), n + 1)
<1>1. C \subseteq DOMAIN tree /\ <<>> \notin C
  BY DEF Walk
<1>2. p \in Simples(tree) /\ Above(p, p)
  BY PathTyped, AboveSelf DEF Simples
<1>3. ~Waits(C, p)
  BY DEF Waits, Apart
<1>4. ASSUME NEW s \in DOMAIN tree, s # p
      PROVE  Waits({p} \cup C, s) <=> Waits(C, s)
  <2>1. ~Above(p, s)
    BY <1>4, BelowChild
  <2> QED
    BY <2>1 DEF Waits
<1>5. WrittenOf(tree, C) = WrittenOf(tree, {p} \cup C) \cup {p}
        /\ p \notin WrittenOf(tree, {p} \cup C)
  <2>1. p \notin WrittenOf(tree, {p} \cup C)
    BY <1>2 DEF WrittenOf, Waits
  <2>2. p \in WrittenOf(tree, C)
    BY <1>2, <1>3 DEF WrittenOf
  <2>3. \A s \in DOMAIN tree : s # p =>
          (s \in WrittenOf(tree, C) <=> s \in WrittenOf(tree, {p} \cup C))
    BY <1>4 DEF WrittenOf, Simples
  <2>4. WrittenOf(tree, C) \subseteq DOMAIN tree
          /\ WrittenOf(tree, {p} \cup C) \subseteq DOMAIN tree
    BY DEF WrittenOf, Simples
  <2> QED
    BY <2>1, <2>2, <2>3, <2>4
<1> DEFINE W == WrittenOf(tree, {p} \cup C)
<1>6. Cardinality(WrittenOf(tree, C)) = n + 1
  BY <1>5, WrittenFinite, FS_AddElement DEF Walk
<1>7. Expanded(tree, C)
  BY <1>4 DEF Expanded, Walk
<1>8. Obeys(tree, W \cup {p}, IF StyleOf(tree, p) = "null" THEN m ELSE StyleOf(tree, p))
  <2>1. Obeys(tree, W, m)
    BY DEF Walk
  <2>2. StyleOf(tree, p) \in {"null", "positional", "named"}
    BY ModeTyped DEF StyleOf, FitsOf
  <2> HIDE DEF W
  <2>3. PICK style : style = StyleOf(tree, p)
    OBVIOUS
  <2>4. CASE style = "null"
    BY <2>1, <2>3, <2>4 DEF Obeys
  <2>5. CASE style # "null"
    BY <2>1, <2>2, <2>3, <2>5 DEF Obeys
  <2> QED
    BY <2>3, <2>4, <2>5
<1> QED
  BY <1>1, <1>5, <1>6, <1>7, <1>8 DEF Walk

(***************************************************************************)
(* Nothing waits: everything is written, and obeys the rules.              *)
(***************************************************************************)
LEMMA WalkEnds ==
    ASSUME NEW tree, NEW m, NEW n, Walk(tree, {}, m, n)
    PROVE  /\ \A p \in DOMAIN tree : IsCompound(tree[p]) /\ p # <<>> => Size(tree[p]) > 0
           /\ \A p \in Simples(tree) : FitsOf(tree, p)
           /\ \E style \in {"positional", "named"} :
                \A p \in Simples(tree) : StyleOf(tree, p) \in {style, "null"}
<1>1. WrittenOf(tree, {}) = Simples(tree) /\ \A p : ~Waits({}, p)
  BY DEF WrittenOf, Waits
<1>2. Obeys(tree, Simples(tree), m) /\ Expanded(tree, {})
  BY <1>1 DEF Walk
<1>3. \E style \in {"positional", "named"} :
         \A p \in Simples(tree) : StyleOf(tree, p) \in {style, "null"}
  <2>1. CASE m = "null"
    BY <1>2, <2>1 DEF Obeys
  <2>2. CASE m \in {"positional", "named"}
    BY <1>2, <2>2 DEF Obeys
  <2> QED
    BY <1>2, <2>1, <2>2 DEF Obeys
<1> QED
  BY <1>1, <1>2, <1>3 DEF Obeys, Expanded

-----------------------------------------------------------------------------
(***************************************************************************)
(* Requests executed and refused. Neither ExecutedIffValid nor             *)
(* LimitByCount is inductive:   they say nothing of a request that is      *)
(* being written. WalkInv says of it that the counter of written           *)
(* predicates is the number of those that do not wait, that these obey the *)
(* rules in the style of the request so far, and that a compound that does *)
(* not wait has children.                                                  *)
(***************************************************************************)

PageLegal ==
    request.pagination # NoPagination =>
        request.pagination.size \in 1..MaxPageSize /\ request.pagination.index >= 0

\* What none that was refused is.
Acceptable == ObeysRules /\ WithinLimit /\ Mixed = {}

Walking == pc \in {"predicates", "pagination", "execute", "done"}

WalkInv ==
    /\ pc \notin {"limits", "refused"} => LimitError = 0
    /\ pc \in {"limits", "shape"} => leaves = 0 /\ mode = "null"
    /\ Walking => /\ ValidShape /\ ValidSort
                  /\ Disjoint(todo)
                  /\ Walk(Tree, ClausesOf(todo), mode, leaves)
    /\ pc \in {"pagination", "execute", "done"} => todo = <<>>
    /\ pc \in {"execute", "done"} => PageLegal
    /\ pc = "refused" => ~Acceptable /\ LimitByCount

(***************************************************************************)
(* No clause waits in an empty sequence.                                   *)
(***************************************************************************)
LEMMA NothingWaits == ClausesOf(<<>>) = {} /\ Disjoint(<<>>)
BY DEF ClausesOf, Disjoint

(***************************************************************************)
(* The tree of a request has the shape of one.                             *)
(***************************************************************************)
LEMMA ShapeOfTree == request \in Requests => IsShape(Tree)
BY TreeFacts DEF IsShape

(***************************************************************************)
(* The clauses of Joined are the children, which are apart.                *)
(***************************************************************************)
LEMMA JoinedClauses ==
    ASSUME request \in Requests, NEW p \in DOMAIN Tree, IsCompound(Tree[p])
    PROVE  ClausesOf(Joined(p)) = ChildrenOf(Tree, p) /\ Disjoint(Joined(p))
<1>1. PICK t : t = Joined(p)
  OBVIOUS
<1>2. PICK size \in Nat : size = Size(Tree[p])
  BY TreeFacts
<1>3. \A k \in 1..Len(t) : HasClause(t[k]) =>
        /\ k % 2 = 1 /\ (k + 1) \div 2 \in 1..size
        /\ t[k] = Clause(Append(p, (k + 1) \div 2))
  BY <1>1, <1>2, JoinedSound, WordItem DEF HasClause
<1>4. \A i \in 1..size : 2 * i - 1 \in 1..Len(t) /\ t[2 * i - 1] = Clause(Append(p, i))
  BY <1>1, <1>2, JoinedSound
<1>5. \A q : Clause(q).clause = q /\ HasClause(Clause(q))
  BY ClauseItem DEF HasClause
<1>6. Len(t) \in Nat
  BY <1>1, JoinedSound
<1>7. p \in Seq(Nat)
  BY PathTyped, ShapeOfTree
<1>8. ASSUME NEW q \in ClausesOf(t)
      PROVE  q \in ChildrenOf(Tree, p)
  <2>1. PICK k \in 1..Len(t) : HasClause(t[k]) /\ q = t[k].clause
    BY DEF ClausesOf
  <2>2. PICK i \in 1..size : t[k] = Clause(Append(p, i))
    BY <1>3, <2>1
  <2>3. q = Append(p, i)
    BY <1>5, <2>1, <2>2
  <2> QED
    BY <1>2, <2>3 DEF ChildrenOf
<1>9. ASSUME NEW q \in ChildrenOf(Tree, p)
      PROVE  q \in ClausesOf(t)
  <2>1. PICK i \in 1..size : q = Append(p, i)
    BY <1>2 DEF ChildrenOf
  <2>2. PICK k \in 1..Len(t) : t[k] = Clause(q)
    BY <1>4, <2>1
  <2> QED
    BY <1>5, <2>2 DEF ClausesOf
<1>10. ASSUME NEW i \in 1..Len(t), NEW j \in 1..Len(t), i < j, HasClause(t[i]), HasClause(t[j])
       PROVE  Apart(t[i].clause, t[j].clause)
  <2>1. PICK a \in Nat : a = (i + 1) \div 2
    BY <1>3, <1>10
  <2>2. PICK b \in Nat : b = (j + 1) \div 2
    BY <1>3, <1>10
  <2>3. i % 2 = 1 /\ j % 2 = 1
    BY <1>3, <1>10
  <2>4. a # b
    BY <1>6, <1>10, <2>1, <2>2, <2>3
  <2>5. t[i].clause = Append(p, a) /\ t[j].clause = Append(p, b)
    BY <1>3, <1>5, <1>10, <2>1, <2>2
  <2> QED
    BY <1>7, <2>4, <2>5, ChildrenApart
<1> QED
  BY <1>1, <1>8, <1>9, <1>10 DEF Disjoint

(***************************************************************************)
(* The clauses of Compound are the children, which are apart.              *)
(***************************************************************************)
LEMMA CompoundClauses ==
    ASSUME request \in Requests, NEW p \in DOMAIN Tree, IsCompound(Tree[p])
    PROVE  ClausesOf(Compound(p)) = ChildrenOf(Tree, p) /\ Disjoint(Compound(p))
<1>1. <<Word("(")>> \in Seq(Waiting) /\ <<Word(")")>> \in Seq(Waiting)
  BY DEF Waiting
<1>2. Joined(p) \in Seq(Waiting)
  BY JoinedSound
<1>3. /\ ClausesOf(<<Word("(")>>) = {} /\ Disjoint(<<Word("(")>>)
      /\ ClausesOf(<<Word(")")>>) = {} /\ Disjoint(<<Word(")")>>)
  BY ClausesSingle, WordItem DEF HasClause
<1>4. PICK o \in Seq(Waiting) : o = <<Word("(")>>
  BY <1>1
<1>5. PICK c \in Seq(Waiting) : c = <<Word(")")>>
  BY <1>1
<1>6. PICK t \in Seq(Waiting) : t = Joined(p)
  BY <1>2
<1>7. PICK s \in Seq(Waiting) : s = o \o t
  BY ConcatProperties
<1>8. ClausesOf(t) = ChildrenOf(Tree, p) /\ Disjoint(t)
  BY <1>6, JoinedClauses
<1>9. ClausesOf(o) = {} /\ Disjoint(o) /\ ClausesOf(c) = {} /\ Disjoint(c)
  BY <1>3, <1>4, <1>5
<1>10. ClausesOf(s) = ChildrenOf(Tree, p) /\ Disjoint(s)
  <2>1. /\ ClausesOf(o \o t) = ClausesOf(o) \cup ClausesOf(t)
        /\ Disjoint(o) /\ Disjoint(t)
             /\ (\A q \in ClausesOf(o), r \in ClausesOf(t) : Apart(q, r))
             => Disjoint(o \o t)
    BY ClausesConcat
  <2> QED
    BY <1>7, <1>8, <1>9, <2>1
<1>11. ClausesOf(s \o c) = ChildrenOf(Tree, p) /\ Disjoint(s \o c)
  <2>1. /\ ClausesOf(s \o c) = ClausesOf(s) \cup ClausesOf(c)
        /\ Disjoint(s) /\ Disjoint(c)
             /\ (\A q \in ClausesOf(s), r \in ClausesOf(c) : Apart(q, r))
             => Disjoint(s \o c)
    BY ClausesConcat
  <2> QED
    BY <1>9, <1>10, <2>1
<1> QED
  BY <1>4, <1>5, <1>6, <1>7, <1>11 DEF Compound

(***************************************************************************)
(* What is demanded of a request depends on the request alone.             *)
(***************************************************************************)
LEMMA RequestKept ==
    ASSUME request' = request
    PROVE  /\ Tree' = Tree /\ Mixed' = Mixed /\ LimitError' = LimitError
           /\ (Acceptable' <=> Acceptable)
           /\ (ValidShape' <=> ValidShape) /\ (ValidSort' <=> ValidSort)
           /\ (PageLegal' <=> PageLegal)
<1>1. Tree' = Tree /\ Body' = Body
  BY TreeKept
<1>2. Simple' = Simple /\ Mixed' = Mixed /\ \A p : Style(p)' = Style(p)
  BY <1>1 DEF Simple, Mixed, Style
<1>3. (ValidShape' <=> ValidShape) /\ (ValidSort' <=> ValidSort)
  BY DEF ValidShape, ValidSort
<1>4. LimitError' = LimitError
  BY <1>1 DEF LimitError, CountPredicates
<1>5. ObeysRules' <=> ObeysRules
  BY <1>1, <1>2, <1>3 DEF ObeysRules
<1>6. WithinLimit' <=> WithinLimit
  BY <1>2 DEF WithinLimit
<1> QED
  BY <1>1, <1>2, <1>3, <1>4, <1>5, <1>6 DEF PageLegal, Acceptable

(***************************************************************************)
(* What the limits have accepted, and what they refuse.                    *)
(***************************************************************************)
LEMMA LimitsSpelled ==
    /\ LimitError = 0 =>
         /\ ~(CountPredicates > MaxPredicates)
         /\ ~(request.sort.fields > MaxSortFields)
    /\ LimitError # 0 =>
         \/ ~ValidShape
         \/ CountPredicates > MaxPredicates
         \/ request.sort.fields > MaxSortFields
BY DEF LimitError, ValidShape

\* The clauses that countPredicates counts.
Counted == { p \in DOMAIN Body : ~HasPredicates(Body[p]) }

(***************************************************************************)
(* The numbers that are compared with the limits are numbers, and a        *)
(* predicate that is written was counted or has predicates but no type.    *)
(***************************************************************************)
LEMMA CountsTyped ==
    ASSUME TypeOK
    PROVE  /\ Cardinality(Simples(Tree)) \in Nat /\ request.sort.fields \in Nat
           /\ CountPredicates \in Nat /\ Cardinality(Mixed) \in Nat
           /\ Cardinality(Simples(Tree)) <= CountPredicates + Cardinality(Mixed)
<1>1. IsRequest(request) /\ IsTree(Body)
  BY FetchAssumption, BodyFacts DEF TypeOK
<1>2. request.sort.fields \in Nat
  BY <1>1 DEF IsRequest
<1>3. IsFiniteSet(Counted) /\ IsFiniteSet(Mixed)
  <2>1. IsFiniteSet(DOMAIN Body)
    BY <1>1 DEF IsTree
  <2> QED
    BY <2>1, FS_Subset DEF Counted, Mixed
<1>4. CountPredicates = Cardinality(Counted)
  BY DEF CountPredicates, Counted
<1>5. Simples(Tree) \subseteq Counted \cup Mixed
  BY DEF Simples, Counted, Mixed, Tree
<1>6. PICK both : both = Counted \cup Mixed
  OBVIOUS
<1>7. IsFiniteSet(both) /\ Cardinality(Simples(Tree)) <= Cardinality(both)
  BY <1>3, <1>5, <1>6, FS_Union, FS_Subset
<1>8. /\ Cardinality(both) = Cardinality(Counted) + Cardinality(Mixed)
                              - Cardinality(Counted \cap Mixed)
      /\ IsFiniteSet(Counted \cap Mixed)
  BY <1>3, <1>6, FS_Union, FS_Intersection
<1>9. /\ Cardinality(Counted) \in Nat /\ Cardinality(Mixed) \in Nat
      /\ Cardinality(Counted \cap Mixed) \in Nat
  BY <1>3, <1>8, FS_CardinalityType
<1>10. Cardinality(Simples(Tree)) \in Nat
  BY ShapeOfTree, WrittenFinite DEF TypeOK
<1>11. Cardinality(both) <= Cardinality(Counted) + Cardinality(Mixed)
  BY <1>8, <1>9
<1> QED
  BY <1>2, <1>4, <1>7, <1>8, <1>9, <1>10, <1>11

(***************************************************************************)
(* Counter and writer agree where no clause has predicates but no type,    *)
(* and none a type but no predicates.                                      *)
(***************************************************************************)
LEMMA CountedAlike ==
    ASSUME TypeOK, Mixed = {},
           \A p \in DOMAIN Tree : IsCompound(Tree[p]) /\ p # <<>> => Size(Tree[p]) > 0
    PROVE  CountPredicates = Cardinality(Simples(Tree))
<1>1. IsTree(Body)
  BY BodyFacts DEF TypeOK
<1>2. ASSUME NEW p \in DOMAIN Body, NEW n \in 0..(Len(p) - 1)
      PROVE  IsCompound(Body[SubSeq(p, 1, n)])
  <2>1. IsPath(p, Body)
    BY <1>1 DEF IsTree
  <2>2. Len(p) \in Nat /\ \A k \in 1..Len(p) : p[k] \in Nat \ {0}
    BY <2>1 DEF IsPath
  <2>3. n + 1 \in 1..Len(p) /\ n + 1 - 1 = n
    BY <2>2
  <2>4. PICK k \in 1..Len(p) : k = n + 1 /\ k - 1 = n
    BY <2>3
  <2>5. PICK q : q = SubSeq(p, 1, n)
    OBVIOUS
  <2>6. q \in DOMAIN Body /\ p[k] <= Size(Body[q])
    BY <2>1, <2>4, <2>5 DEF IsPath
  <2>7. HasPredicates(Body[q])
    BY <2>2, <2>6 DEF Size
  <2> QED
    BY <2>5, <2>6, <2>7 DEF Mixed
<1>3. DOMAIN Tree = DOMAIN Body /\ \A p \in DOMAIN Tree : Tree[p] = Body[p]
  BY <1>2 DEF Tree, IsReached
<1>4. ASSUME NEW p \in DOMAIN Body
      PROVE  HasPredicates(Body[p]) <=> IsCompound(Body[p])
  <2>1. CASE p = <<>>
    BY <1>1, <2>1 DEF IsTree
  <2>2. CASE p # <<>>
    BY <1>3, <2>2 DEF Mixed, Size
  <2> QED
    BY <2>1, <2>2
<1> QED
  BY <1>3, <1>4 DEF CountPredicates, Simples

(***************************************************************************)
(* No more predicates are written than the limit and the clauses with      *)
(* predicates but no type.                                                 *)
(***************************************************************************)
LEMMA LeavesCounted ==
    ASSUME TypeOK, WalkInv
    PROVE  LimitByCount
<1>1. MaxPredicates \in Nat /\ Cardinality(Mixed) \in Nat
  BY FetchAssumption, CountsTyped
<1>2. CASE Walking
  <2>1. leaves = Cardinality(WrittenOf(Tree, ClausesOf(todo))) /\ LimitError = 0
    BY <1>2 DEF WalkInv, Walking, Walk
  <2>2. CountPredicates <= MaxPredicates
    BY <1>1, <2>1, CountsTyped, LimitsSpelled
  <2>3. leaves <= Cardinality(Simples(Tree))
    BY <2>1, ShapeOfTree, WrittenFinite DEF TypeOK
  <2> QED
    BY <1>1, <2>2, <2>3, CountsTyped DEF TypeOK, LimitByCount
<1>3. CASE ~Walking
  BY <1>1, <1>3 DEF WalkInv, Walking, TypeOK, LimitByCount
<1> QED
  BY <1>2, <1>3

(***************************************************************************)
(* The limit of predicates refuses none that has no such clause and no     *)
(* more predicates than it.                                                *)
(***************************************************************************)
LEMMA LimitRefuses ==
    ASSUME TypeOK, LimitError # 0
    PROVE  ~Acceptable
<1> SUFFICES ASSUME Acceptable PROVE FALSE
  OBVIOUS
<1>1. /\ ValidShape /\ request.sort.fields <= MaxSortFields /\ Mixed = {}
      /\ Cardinality(Simple) <= MaxPredicates
      /\ \A p \in DOMAIN Tree \ (Simple \cup {<<>>}) : Size(Tree[p]) > 0
  BY DEF Acceptable, ObeysRules, WithinLimit
<1>2. Simple = Simples(Tree)
  BY DEF Simple, Simples
<1>3. \A p \in DOMAIN Tree : IsCompound(Tree[p]) /\ p # <<>> => Size(Tree[p]) > 0
  BY <1>1 DEF Simple
<1>4. CountPredicates <= MaxPredicates
  BY <1>1, <1>2, <1>3, CountedAlike
<1>5. MaxPredicates \in Nat /\ MaxSortFields \in Nat
  BY FetchAssumption
<1>6. request.sort.fields \in Nat /\ CountPredicates \in Nat
  BY CountsTyped
<1>7. ~(CountPredicates > MaxPredicates) /\ ~(request.sort.fields > MaxSortFields)
  BY ONLY <1>1, <1>4, <1>5, <1>6
<1> QED
  BY <1>1, <1>7, LimitsSpelled

(***************************************************************************)
(* A refusal keeps WalkInv if the request is invalid.                      *)
(***************************************************************************)
LEMMA WalkFails ==
    ASSUME TypeOK, WalkInv, NEW code, Fail(code), ~Acceptable
    PROVE  WalkInv'
<1>1. pc' = "refused" /\ request' = request /\ leaves' = leaves
  BY DEF Fail
<1>2. ~Acceptable' /\ LimitByCount'
  BY <1>1, RequestKept, LeavesCounted DEF LimitByCount
<1> QED
  BY <1>1, <1>2 DEF WalkInv, Walking

(***************************************************************************)
(* A clause of another style than the request so far makes the request     *)
(* invalid, for a predicate of that style was written.                     *)
(***************************************************************************)
LEMMA ConflictInvalid ==
    ASSUME NEW tree, NEW C, NEW n, Walk(tree, C, mode, n), tree = Tree,
           NEW p \in Simples(tree), Style(p) # "null", ModeConflict(Style(p))
    PROVE  ~Acceptable
<1> SUFFICES ASSUME Acceptable PROVE FALSE
  OBVIOUS
<1>1. PICK style \in {"positional", "named"} : \A q \in Simples(tree) : Style(q) \in {style, "null"}
  BY DEF Acceptable, ObeysRules, Simple, Simples
<1>2. PICK q \in WrittenOf(tree, C) : StyleOf(tree, q) = mode
  BY DEF Walk, Obeys, ModeConflict
<1>3. q \in Simples(tree) /\ Style(q) = mode /\ mode # "null"
  BY <1>2 DEF WrittenOf, StyleOf, Style, ModeConflict
<1>4. mode = style /\ Style(p) = style
  BY <1>1, <1>3
<1> QED
  BY <1>4 DEF ModeConflict

(***************************************************************************)
(* A predicate with arguments that do not fit makes the request invalid.   *)
(***************************************************************************)
LEMMA MisfitInvalid ==
    ASSUME NEW p \in Simples(Tree),
           ~HasText(Tree[p]) \/ ~ArgsFit(Tree[p].text, Tree[p].args, Style(p))
    PROVE  ~Acceptable
BY DEF Acceptable, ObeysRules, Simple, Simples

(***************************************************************************)
(* A compound clause without children makes the request invalid.           *)
(***************************************************************************)
LEMMA EmptyInvalid ==
    ASSUME NEW p \in DOMAIN Tree, IsCompound(Tree[p]), p # <<>>, ~(Size(Tree[p]) > 0)
    PROVE  ~Acceptable
BY DEF Acceptable, ObeysRules, Simple

(***************************************************************************)
(* A request that is executed obeys the rules, and the limit if counter    *)
(* and writer agree.                                                       *)
(***************************************************************************)
LEMMA WalkValid ==
    ASSUME TypeOK, WalkInv, pc \in {"execute", "done"}
    PROVE  ObeysRules /\ (Mixed = {} => WithinLimit)
<1>1. /\ LimitError = 0 /\ ValidShape /\ ValidSort /\ PageLegal /\ todo = <<>>
      /\ Walk(Tree, ClausesOf(todo), mode, leaves)
  BY DEF WalkInv, Walking
<1>2. Walk(Tree, {}, mode, leaves)
  BY <1>1, NothingWaits
<1>3. /\ \A p \in DOMAIN Tree : IsCompound(Tree[p]) /\ p # <<>> => Size(Tree[p]) > 0
      /\ \A p \in Simples(Tree) : FitsOf(Tree, p)
      /\ \E style \in {"positional", "named"} :
           \A p \in Simples(Tree) : StyleOf(Tree, p) \in {style, "null"}
  BY <1>2, WalkEnds
<1>4. \A p : StyleOf(Tree, p) = Style(p)
  BY DEF StyleOf, Style
<1>5. Simple = Simples(Tree)
  BY DEF Simple, Simples
<1>6. \A p \in DOMAIN Tree \ (Simple \cup {<<>>}) : Size(Tree[p]) > 0
  BY <1>3 DEF Simple
<1>7. request.sort.fields <= MaxSortFields /\ CountPredicates <= MaxPredicates
  <2>1. MaxPredicates \in Nat /\ MaxSortFields \in Nat
    BY FetchAssumption
  <2>2. request.sort.fields \in Nat /\ CountPredicates \in Nat
    BY CountsTyped
  <2>3. ~(CountPredicates > MaxPredicates) /\ ~(request.sort.fields > MaxSortFields)
    BY <1>1, LimitsSpelled
  <2> QED
    BY ONLY <2>1, <2>2, <2>3
<1>8. \A p \in Simple :
        HasText(Tree[p]) /\ ArgsFit(Tree[p].text, Tree[p].args, Style(p))
  BY <1>3, <1>4, <1>5 DEF FitsOf
<1>10. Mixed = {} => WithinLimit
  BY <1>3, <1>5, <1>7, CountedAlike DEF WithinLimit
<1>9. \E style \in {"positional", "named"} : \A p \in Simple : Style(p) \in {style, "null"}
  BY <1>3, <1>4, <1>5
<1> QED
  BY <1>1, <1>6, <1>7, <1>8, <1>9, <1>10 DEF ObeysRules, PageLegal

(***************************************************************************)
(* Every step keeps WalkInv.                                               *)
(***************************************************************************)
LEMMA WalkStep == TypeOK /\ WalkInv /\ [Next]_vars => WalkInv'
<1> SUFFICES ASSUME TypeOK, WalkInv, [Next]_vars PROVE WalkInv'
  OBVIOUS
<1>1. CASE ValidateLimits
  <2>1. CASE LimitError # 0 /\ Fail(LimitError)
    BY <2>1, LimitRefuses, WalkFails
  <2>2. CASE LimitError = 0
    <3>1. /\ pc = "limits" /\ pc' = "shape"
          /\ request' = request /\ leaves' = leaves /\ mode' = mode
      BY <1>1, <2>2 DEF ValidateLimits, placeholderState
    <3>2. LimitError' = 0
      BY <2>2, <3>1, RequestKept
    <3> QED
      BY <3>1, <3>2 DEF WalkInv, Walking
  <2> QED
    BY <1>1, <2>1, <2>2 DEF ValidateLimits
<1>2. CASE StartWriting
  <2>1. CASE ~(ValidShape /\ ValidSort) /\ Fail(400)
    BY <2>1, WalkFails DEF Acceptable, ObeysRules
  <2>2. CASE ValidShape /\ ValidSort
    <3>1. /\ pc = "shape" /\ pc' = "predicates" /\ todo' = Joined(<<>>)
          /\ request' = request /\ leaves' = leaves /\ mode' = mode
      BY <1>2, <2>2 DEF StartWriting, placeholderState, Fail
    <3>2. leaves' = 0 /\ mode' = "null" /\ LimitError = 0
      BY <3>1 DEF WalkInv
    <3>3. request \in Requests /\ <<>> \in DOMAIN Tree /\ IsCompound(Tree[<<>>])
      BY TreeFacts DEF TypeOK
    <3>4. ClausesOf(todo') = ChildrenOf(Tree, <<>>) /\ Disjoint(todo')
      BY <3>1, <3>3, JoinedClauses
    <3>5. Walk(Tree, ClausesOf(todo'), mode', leaves')
      BY <3>2, <3>3, <3>4, ShapeOfTree, WalkStarts
    <3>6. LimitError' = 0 /\ ValidShape' /\ ValidSort' /\ Tree' = Tree
      BY <2>2, <3>1, <3>2, RequestKept
    <3> QED
      BY <3>1, <3>4, <3>5, <3>6 DEF WalkInv, Walking
  <2> QED
    BY <1>2, <2>1, <2>2 DEF StartWriting
<1>3. CASE pc = "predicates" /\ todo # <<>>
  <2>1. PICK tree : tree = Tree
    OBVIOUS
  <2>2. PICK C : C = ClausesOf(Tail(todo))
    OBVIOUS
  <2>3. /\ IsShape(tree) /\ Walk(tree, ClausesOf(todo), mode, leaves) /\ Disjoint(todo)
        /\ LimitError = 0 /\ ValidShape /\ ValidSort
    BY <1>3, <2>1, ShapeOfTree DEF WalkInv, Walking, TypeOK
  <2>4. /\ Tail(todo) \in Seq(Items)
        /\ ClausesOf(todo) = (IF HasClause(Head(todo)) THEN {Head(todo).clause} ELSE {}) \cup C
        /\ Disjoint(Tail(todo))
        /\ HasClause(Head(todo)) => \A q \in C : Apart(Head(todo).clause, q)
    BY <1>3, <2>2, <2>3, ClausesHead DEF TypeOK, Items
  <2>5. ASSUME request' = request, pc' = "predicates", Disjoint(todo'),
               Walk(tree, ClausesOf(todo'), mode', leaves')
        PROVE  WalkInv'
    <3>1. LimitError' = 0 /\ ValidShape' /\ ValidSort' /\ Tree' = tree
      BY <2>1, <2>3, <2>5, RequestKept
    <3> QED
      BY <2>5, <3>1 DEF WalkInv, Walking
  <2>6. CASE ExpandSimplePredicateClause
    <3>1. PICK p \in DOMAIN Tree :
             /\ Head(todo) = Clause(p)
             /\ ~IsCompound(Tree[p])
             /\ \/ ~HasText(Tree[p]) /\ Fail(500)
                \/ /\ \/ Style(p) # "null" /\ ModeConflict(Style(p))
                      \/ ~ArgsFit(Tree[p].text, Tree[p].args, Style(p))
                   /\ Fail(400)
                \/ /\ Style(p) # "null" => ~ModeConflict(Style(p))
                   /\ WritesClause(p)
      BY <2>6, SimpleStep
    <3>2. p \in Simples(tree) /\ p \in DOMAIN tree /\ ~IsCompound(tree[p])
      BY <2>1, <3>1 DEF Simples
    <3>3. CASE /\ \/ Style(p) # "null" /\ ModeConflict(Style(p))
                  \/ ~ArgsFit(Tree[p].text, Tree[p].args, Style(p))
               /\ Fail(400)
      <4>1. ~Acceptable
        BY <2>1, <2>3, <3>2, <3>3, ConflictInvalid, MisfitInvalid
      <4> QED
        BY <3>3, <4>1, WalkFails
    <3>5. CASE ~HasText(Tree[p]) /\ Fail(500)
      BY <2>1, <3>2, <3>5, MisfitInvalid, WalkFails
    <3>4. CASE (Style(p) # "null" => ~ModeConflict(Style(p))) /\ WritesClause(p)
      <4>1. HasClause(Head(todo)) /\ Head(todo).clause = p
        BY <3>1, ClauseItem DEF HasClause
      <4>2. Walk(tree, {p} \cup C, mode, leaves) /\ \A q \in C : Apart(p, q)
        BY <2>3, <2>4, <4>1
      <4>3. StyleOf(tree, p) = Style(p) /\ FitsOf(tree, p)
        BY <2>1, <3>4 DEF StyleOf, Style, FitsOf, WritesClause
      <4>4. StyleOf(tree, p) # "null" => mode \in {"null", StyleOf(tree, p)}
        BY <3>4, <4>3 DEF ModeConflict
      <4>5. Walk(tree, C, IF StyleOf(tree, p) = "null" THEN mode ELSE StyleOf(tree, p), leaves + 1)
        BY <2>3, <3>2, <4>2, <4>3, <4>4, WalkWrites
      <4>6. /\ mode' = IF StyleOf(tree, p) = "null" THEN mode ELSE StyleOf(tree, p)
            /\ leaves' = leaves + 1 /\ todo' = Tail(todo) /\ request' = request /\ pc' = pc
        BY <2>1, <3>4 DEF Written, StyleOf, WritesClause
      <4>7. Walk(tree, ClausesOf(todo'), mode', leaves') /\ Disjoint(todo')
        BY <2>2, <2>4, <4>5, <4>6
      <4> QED
        BY <1>3, <2>5, <4>6, <4>7
    <3> QED
      BY <3>1, <3>3, <3>4, <3>5
  <2>7. CASE ExpandCompoundPredicateClause
    <3>1. PICK p \in DOMAIN Tree :
             /\ Head(todo) = Clause(p)
             /\ IsCompound(Tree[p]) /\ Size(Tree[p]) \in Nat
             /\ \/ Size(Tree[p]) = 0 /\ Fail(400)
                \/ /\ Size(Tree[p]) > 0
                   /\ todo' = Compound(p) \o Tail(todo)
                   /\ UNCHANGED <<request, dialect, pc, text, placeholderState, page,
                                  leaves, status>>
      BY <2>7, CompoundStep
    <3>2. HasClause(Head(todo)) /\ Head(todo).clause = p
      BY <3>1, ClauseItem DEF HasClause
    <3>3. Walk(tree, {p} \cup C, mode, leaves) /\ \A q \in C : Apart(p, q)
      BY <2>3, <2>4, <3>2
    <3>4. p \in DOMAIN tree /\ IsCompound(tree[p])
      BY <2>1, <3>1
    <3>5. CASE Size(Tree[p]) = 0 /\ Fail(400)
      <4>1. p # <<>>
        BY <3>3 DEF Walk
      <4>2. ~Acceptable
        BY <3>1, <3>5, <4>1, EmptyInvalid
      <4> QED
        BY <3>5, <4>2, WalkFails
    <3>6. CASE /\ Size(Tree[p]) > 0
               /\ todo' = Compound(p) \o Tail(todo)
               /\ UNCHANGED <<request, dialect, pc, text, placeholderState, page,
                              leaves, status>>
      <4>1. Walk(tree, ChildrenOf(tree, p) \cup C, mode, leaves)
        BY <2>1, <2>3, <3>3, <3>4, <3>6, WalkDescends
      <4>2. PICK s \in Seq(Items) : s = Compound(p)
        BY <3>1, CompoundTyped, WaitingItems DEF TypeOK
      <4>3. PICK t \in Seq(Items) : t = Tail(todo)
        BY <2>4
      <4>4. ClausesOf(s) = ChildrenOf(tree, p) /\ Disjoint(s)
        BY <2>1, <3>1, <4>2, CompoundClauses DEF TypeOK
      <4>5. ClausesOf(t) = C /\ Disjoint(t)
        BY <2>2, <2>4, <4>3
      <4>6. ASSUME NEW q \in ChildrenOf(tree, p), NEW r \in C
            PROVE  Apart(q, r)
        <5>1. p \in Seq(Nat) /\ r \in Seq(Nat) /\ Size(tree[p]) \in Nat
          BY <2>3, <3>3, <3>4, PathTyped DEF Walk, IsShape
        <5>2. PICK i \in 1..Size(tree[p]) : q = Append(p, i)
          BY DEF ChildrenOf
        <5>3. i \in Nat
          BY <5>1
        <5> QED
          BY <3>3, <5>1, <5>2, <5>3, ApartChild
      <4>7. ClausesOf(s \o t) = ChildrenOf(tree, p) \cup C /\ Disjoint(s \o t)
        BY <4>4, <4>5, <4>6, ClausesConcat
      <4>8. todo' = s \o t /\ request' = request /\ pc' = pc /\ mode' = mode /\ leaves' = leaves
        BY <3>6, <4>2, <4>3 DEF placeholderState
      <4> QED
        BY <1>3, <2>5, <4>1, <4>7, <4>8
    <3> QED
      BY <3>1, <3>5, <3>6
  <2>8. CASE WriteWord
    <3>1. ~HasClause(Head(todo)) /\ todo' = Tail(todo)
      BY <1>3, <2>8 DEF WriteWord, NextClause, HasClause
    <3>2. ClausesOf(todo) = C
      BY <2>4, <3>1
    <3>3. request' = request /\ pc' = pc /\ mode' = mode /\ leaves' = leaves
      BY <2>8 DEF WriteWord, placeholderState
    <3> QED
      BY <1>3, <2>2, <2>3, <2>4, <2>5, <3>1, <3>2, <3>3
  <2>9. CASE UNCHANGED vars
    BY <1>3, <2>3, <2>5, <2>9 DEF vars
  <2> QED
    BY <1>3, <2>6, <2>7, <2>8, <2>9 DEF Next, Done, ValidateLimits, StartWriting,
       PredicatesWritten, ExpandPagination, Execute
<1>4. CASE PredicatesWritten
  <2>1. /\ pc = "predicates" /\ pc' = "pagination" /\ todo = <<>> /\ todo' = todo
        /\ request' = request /\ mode' = mode /\ leaves' = leaves
    BY <1>4 DEF PredicatesWritten, placeholderState
  <2>2. /\ Walk(Tree, ClausesOf(todo), mode, leaves) /\ Disjoint(todo)
        /\ LimitError = 0 /\ ValidShape /\ ValidSort
    BY <2>1 DEF WalkInv, Walking
  <2>3. LimitError' = 0 /\ ValidShape' /\ ValidSort' /\ Tree' = Tree
    BY <2>1, <2>2, RequestKept
  <2>4. Walk(Tree', ClausesOf(todo'), mode', leaves') /\ Disjoint(todo')
    BY <2>1, <2>2, <2>3
  <2> QED
    BY <2>1, <2>3, <2>4 DEF WalkInv, Walking
<1>5. CASE ExpandPagination
  <2>1. CASE ~PageLegal /\ Fail(400)
    BY <2>1, WalkFails DEF Acceptable, ObeysRules, PageLegal
  <2>2. CASE PageLegal /\ pc' = "execute"
    <3>1. /\ pc = "pagination" /\ todo' = todo
          /\ request' = request /\ mode' = mode /\ leaves' = leaves
      BY <1>5, <2>2 DEF ExpandPagination, placeholderState, Fail
    <3>2. /\ Walk(Tree, ClausesOf(todo), mode, leaves) /\ Disjoint(todo) /\ todo = <<>>
          /\ LimitError = 0 /\ ValidShape /\ ValidSort
      BY <3>1 DEF WalkInv, Walking
    <3>3. LimitError' = 0 /\ ValidShape' /\ ValidSort' /\ PageLegal' /\ Tree' = Tree
      BY <2>2, <3>1, <3>2, RequestKept
    <3>4. Walk(Tree', ClausesOf(todo'), mode', leaves') /\ Disjoint(todo')
      BY <3>1, <3>2, <3>3
    <3> QED
      BY <2>2, <3>1, <3>2, <3>3, <3>4 DEF WalkInv, Walking
  <2>3. (~PageLegal /\ Fail(400)) \/ (PageLegal /\ pc' = "execute")
    BY <1>5 DEF ExpandPagination, PageLegal
  <2> QED
    BY <2>1, <2>2, <2>3
<1>6. CASE Execute \/ UNCHANGED vars
  <2>1. /\ todo' = todo /\ request' = request /\ mode' = mode /\ leaves' = leaves
        /\ pc' = pc \/ (pc = "execute" /\ pc' = "done")
    BY <1>6 DEF Execute, vars, placeholderState
  <2>2. /\ (LimitError' = LimitError) /\ (ValidShape' <=> ValidShape)
        /\ (ValidSort' <=> ValidSort) /\ (PageLegal' <=> PageLegal)
        /\ (Acceptable' <=> Acceptable) /\ (LimitByCount' <=> LimitByCount)
        /\ Tree' = Tree
    BY <2>1, RequestKept DEF LimitByCount
  <2>3. CASE pc' = pc
    BY <2>1, <2>2, <2>3 DEF WalkInv, Walking
  <2>4. CASE pc = "execute" /\ pc' = "done"
    BY <2>1, <2>2, <2>4 DEF WalkInv, Walking
  <2> QED
    BY <2>1, <2>3, <2>4
<1>7. ExpandSimplePredicateClause \/ ExpandCompoundPredicateClause \/ WriteWord
        => pc = "predicates" /\ todo # <<>>
  BY DEF ExpandSimplePredicateClause, ExpandCompoundPredicateClause, WriteWord, NextClause
<1> QED
  BY <1>1, <1>2, <1>3, <1>4, <1>5, <1>6, <1>7 DEF Next, Done

(***************************************************************************)
(* WalkInv holds when a request arrives.                                   *)
(***************************************************************************)
LEMMA WalkInit == Init => WalkInv
BY DEF Init, WalkInv, Walking

(***************************************************************************)
(* No statement is written from more simple predicates than the limit      *)
(* allows and one for each clause with predicates but no type              *)
(* (LimitByCount), for every tree, whatever fields its clauses have, and   *)
(* every limit: what expandPredicate writes and countPredicates did not    *)
(* count is such a clause (fetch-request-handler.service.ts:73-81,         *)
(* fetch-request.ts:95-109).                                               *)
(***************************************************************************)
THEOREM LimitHolds == Spec => []LimitByCount
<1>1. TypeOK /\ WalkInv => LimitByCount
  BY LeavesCounted
<1> QED
  BY <1>1, WalkInit, WalkStep, TypeCorrect, PTL DEF Spec

(***************************************************************************)
(* A request is executed only when it obeys the rules, and always when it  *)
(* also keeps the limit and has no clause with predicates but no type      *)
(* (ExecutedIffValid), for every tree, whatever fields its clauses have:   *)
(* the checks that the writer makes clause by clause, in the order of its  *)
(* walk, amount to the rules of the whole request                          *)
(* (docs/fetchrequest-examples.md:44-64).                                  *)
(***************************************************************************)
THEOREM ExecutedWhenValid == Spec => []ExecutedIffValid
<1>1. ASSUME TypeOK, WalkInv
      PROVE  ExecutedIffValid
  <2>1. pc \in {"execute", "done"} => ObeysRules /\ (Mixed = {} => WithinLimit)
    BY <1>1, WalkValid
  <2>2. pc = "refused" => ~(ObeysRules /\ WithinLimit /\ Mixed = {})
    BY <1>1 DEF WalkInv, Acceptable
  <2> QED
    BY <2>1, <2>2 DEF ExecutedIffValid
<1> QED
  BY <1>1, WalkInit, WalkStep, TypeCorrect, PTL DEF Spec

-----------------------------------------------------------------------------
(***************************************************************************)
(* Induction over numbers and the two recursive definitions of what a text *)
(* and a tree mean. The induction theorems of the library take an          *)
(* operator, which the provers cannot instantiate; over a set of numbers   *)
(* the same follows from the smallest number outside it.                   *)
(***************************************************************************)

(***************************************************************************)
(* A set of numbers has a smallest member.                                 *)
(***************************************************************************)
LEMMA SmallestNumber ==
    ASSUME NEW T, T \subseteq Nat, T # {}
    PROVE  \E m \in T : \A n \in T : m <= n
<1>1. PICK x \in T : \A y \in T : ~(<<y, x>> \in OpToRel(<, Nat))
  BY NatLessThanWellFounded, WFMin
<1>2. \A y \in T : ~(y < x)
  BY <1>1 DEF OpToRel
<1> QED
  BY <1>2

(***************************************************************************)
(* A set with 0, and with the successor of each number that it has, has    *)
(* every number: induction, over a set instead of an operator.             *)
(***************************************************************************)
LEMMA CountingUp ==
    ASSUME NEW S, 0 \in S, \A n \in Nat : n \in S => n + 1 \in S
    PROVE  \A n \in Nat : n \in S
<1> SUFFICES ASSUME NEW n \in Nat, n \notin S PROVE FALSE
  OBVIOUS
<1>1. PICK T : T = { m \in Nat : m \notin S }
  OBVIOUS
<1>2. PICK m \in T : \A k \in T : m <= k
  BY <1>1, SmallestNumber
<1>3. m \in Nat \ {0} /\ m - 1 \in Nat /\ m - 1 \notin T
  BY <1>1, <1>2
<1>4. m - 1 \in S /\ m = (m - 1) + 1
  BY <1>1, <1>3
<1> QED
  BY <1>1, <1>3, <1>4

\* The levels after each of the first n words.
IsReading(f, words, n) ==
    f = [i \in 0..n |-> IF i = 0 THEN Outermost ELSE Read(f[i - 1], words[i])]

(***************************************************************************)
(* What was read of n words is extended by the next one.                   *)
(***************************************************************************)
LEMMA ReadingExtends ==
    ASSUME NEW words, NEW n \in Nat, NEW f, IsReading(f, words, n)
    PROVE  \E g : IsReading(g, words, n + 1)
<1>1. PICK g : g = [i \in 0..(n + 1) |-> IF i <= n THEN f[i] ELSE Read(f[n], words[n + 1])]
  OBVIOUS
<1>2. \A i \in 0..n : f[i] = IF i = 0 THEN Outermost ELSE Read(f[i - 1], words[i])
  BY DEF IsReading
<1>3. \A i \in 0..(n + 1) : g[i] = IF i = 0 THEN Outermost ELSE Read(g[i - 1], words[i])
  <2> TAKE i \in 0..(n + 1)
  <2>1. CASE i <= n
    <3>1. g[i] = f[i] /\ (i # 0 => g[i - 1] = f[i - 1])
      BY <1>1, <2>1
    <3> QED
      BY <1>2, <2>1, <3>1
  <2>2. CASE i = n + 1
    <3>1. g[i] = Read(f[n], words[n + 1]) /\ g[n] = f[n] /\ i # 0 /\ i - 1 = n
      BY <1>1, <2>2
    <3> QED
      BY <2>2, <3>1
  <2> QED
    BY <2>1, <2>2
<1>4. g = [i \in 0..(n + 1) |-> IF i = 0 THEN Outermost ELSE Read(g[i - 1], words[i])]
  BY <1>1, <1>3
<1> QED
  BY <1>4 DEF IsReading

(***************************************************************************)
(* Every text can be read: the recursion of Truth defines a function.      *)
(***************************************************************************)
LEMMA ReadingExists ==
    ASSUME NEW words, NEW n \in Nat
    PROVE  \E f : IsReading(f, words, n)
<1>1. PICK S : S = { k \in Nat : \E f : IsReading(f, words, k) }
  OBVIOUS
<1>2. 0 \in S
  <2>1. PICK f : f = [i \in 0..0 |-> Outermost]
    OBVIOUS
  <2>2. f = [i \in 0..0 |-> IF i = 0 THEN Outermost ELSE Read(f[i - 1], words[i])]
    BY <2>1
  <2> QED
    BY <1>1, <2>2 DEF IsReading
<1>3. \A k \in Nat : k \in S => k + 1 \in S
  BY <1>1, ReadingExtends
<1> QED
  BY <1>1, <1>2, <1>3, CountingUp

(***************************************************************************)
(* So Truth can be used by its recursion.                                  *)
(***************************************************************************)
LEMMA TruthRead ==
    ASSUME NEW words, Len(words) \in Nat
    PROVE  \E f : /\ f[0] = Outermost
                  /\ \A i \in 1..Len(words) : f[i] = Read(f[i - 1], words[i])
                  /\ Truth(words) <=> f[Len(words)][1] # "fails"
<1> DEFINE F == CHOOSE f : f = [i \in 0..Len(words) |->
                      IF i = 0 THEN Outermost ELSE Read(f[i - 1], words[i])]
<1>1. Truth(words) <=> F[Len(words)][1] # "fails"
  BY DEF Truth
<1>2. IsReading(F, words, Len(words))
  BY ReadingExists DEF IsReading
<1> HIDE DEF F
<1>3. /\ F[0] = Outermost
      /\ \A i \in 1..Len(words) : F[i] = Read(F[i - 1], words[i])
  BY <1>2 DEF IsReading
<1> QED
  BY <1>1, <1>3

(***************************************************************************)
(* A word that is no parenthesis leaves the surrounding level alone, and   *)
(* what it makes of its own level does not depend on it.                   *)
(***************************************************************************)
LEMMA ReadInside ==
    ASSUME NEW word, word \notin {"(", ")"}, NEW s, NEW outer, NEW around
    PROVE  \E r : /\ Read(<<s, outer>>, word) = <<r, outer>>
                  /\ Read(<<s, around>>, word) = <<r, around>>
<1>1. /\ <<s, outer>>[1] = s /\ <<s, outer>>[2] = outer
      /\ <<s, around>>[1] = s /\ <<s, around>>[2] = around
  OBVIOUS
<1>2. CASE word = "OR"
  <2>1. /\ Read(<<s, outer>>, word) = <<IF s = "fails" THEN "holds" ELSE "won", outer>>
        /\ Read(<<s, around>>, word) = <<IF s = "fails" THEN "holds" ELSE "won", around>>
    BY <1>1, <1>2 DEF Read
  <2> QED
    BY <2>1
<1>3. CASE word = "false"
  <2>1. /\ Refuted(<<s, outer>>) = IF s = "won" THEN <<s, outer>> ELSE <<"fails", outer>>
        /\ Refuted(<<s, around>>) = IF s = "won" THEN <<s, around>> ELSE <<"fails", around>>
    BY <1>1 DEF Refuted
  <2>2. /\ Read(<<s, outer>>, word) = Refuted(<<s, outer>>)
        /\ Read(<<s, around>>, word) = Refuted(<<s, around>>)
    BY <1>3 DEF Read
  <2> QED
    BY <2>1, <2>2
<1>4. CASE word \notin {"OR", "false"}
  <2>1. /\ Read(<<s, outer>>, word) = <<s, outer>>
        /\ Read(<<s, around>>, word) = <<s, around>>
    BY <1>4 DEF Read
  <2> QED
    BY <2>1
<1> QED
  BY <1>2, <1>3, <1>4

-----------------------------------------------------------------------------
(***************************************************************************)
(* Texts: parentheses, and operators of one kind.                          *)
(***************************************************************************)

\* W2 is W with its k-th word replaced by V in parentheses.
InParentheses(W2, W, V, k) ==
    /\ Len(W2) = Len(W) + Len(V) + 1
    /\ \A i \in 1..(k - 1) : W2[i] = W[i]
    /\ W2[k] = "("
    /\ \A j \in 1..Len(V) : W2[k + j] = V[j]
    /\ W2[k + Len(V) + 1] = ")"
    /\ \A i \in (k + 1)..Len(W) : W2[i + Len(V) + 1] = W[i]

(***************************************************************************)
(* A judged word can be replaced by any text in parentheses that has its   *)
(* truth, anywhere in a text: this is what the parentheses around a        *)
(* compound predicate and around a fragment are for.                       *)
(***************************************************************************)
LEMMA Bracketed ==
    ASSUME NEW W, Len(W) \in Nat, NEW V, Len(V) \in Nat, NEW W2,
           NEW k \in 1..Len(W), InParentheses(W2, W, V, k),
           W[k] = IF Truth(V) THEN "true" ELSE "false",
           \A j \in 1..Len(V) : V[j] \notin {"(", ")"}
    PROVE  Truth(W2) <=> Truth(W)
<1> PICK N \in Nat, m \in Nat : N = Len(W) /\ m = Len(V)
  OBVIOUS
<1>0. /\ k \in 1..N /\ Len(W2) = N + m + 1
      /\ W[k] = IF Truth(V) THEN "true" ELSE "false"
      /\ \A j \in 1..m : V[j] \notin {"(", ")"}
      /\ \A i \in 1..(k - 1) : W2[i] = W[i]
      /\ W2[k] = "("
      /\ \A j \in 1..m : W2[k + j] = V[j]
      /\ W2[k + m + 1] = ")"
      /\ \A i \in (k + 1)..N : W2[i + m + 1] = W[i]
  BY DEF InParentheses
<1>1. PICK f : /\ f[0] = Outermost
               /\ \A i \in 1..N : f[i] = Read(f[i - 1], W[i])
               /\ Truth(W) <=> f[N][1] # "fails"
  <2>1. \E f : /\ f[0] = Outermost
               /\ \A i \in 1..Len(W) : f[i] = Read(f[i - 1], W[i])
               /\ Truth(W) <=> f[Len(W)][1] # "fails"
    BY TruthRead
  <2> QED
    BY <2>1
<1>2. PICK h : /\ h[0] = Outermost
               /\ \A i \in 1..m : h[i] = Read(h[i - 1], V[i])
               /\ Truth(V) <=> h[m][1] # "fails"
  <2>1. \E h : /\ h[0] = Outermost
               /\ \A i \in 1..Len(V) : h[i] = Read(h[i - 1], V[i])
               /\ Truth(V) <=> h[Len(V)][1] # "fails"
    BY TruthRead
  <2> QED
    BY <2>1
<1>3. PICK g : /\ g[0] = Outermost
               /\ \A i \in 1..(N + m + 1) : g[i] = Read(g[i - 1], W2[i])
               /\ Truth(W2) <=> g[N + m + 1][1] # "fails"
  <2>1. PICK len \in Nat : len = N + m + 1 /\ Len(W2) = len
    BY <1>0
  <2>2. \E g : /\ g[0] = Outermost
               /\ \A i \in 1..Len(W2) : g[i] = Read(g[i - 1], W2[i])
               /\ Truth(W2) <=> g[Len(W2)][1] # "fails"
    BY <2>1, TruthRead
  <2> QED
    BY <2>1, <2>2
<1>4. g[k - 1] = f[k - 1]
  <2>1. PICK S : S = { i \in Nat : i <= k - 1 => g[i] = f[i] }
    OBVIOUS
  <2>2. 0 \in S
    BY <1>1, <1>3, <2>1
  <2>3. \A i \in Nat : i \in S => i + 1 \in S
    <3> SUFFICES ASSUME NEW i \in Nat, i \in S PROVE i + 1 \in S
      OBVIOUS
    <3>1. ASSUME i + 1 <= k - 1 PROVE g[i + 1] = f[i + 1]
      <4>1. /\ i + 1 \in 1..N /\ i + 1 \in 1..(N + m + 1) /\ (i + 1) - 1 = i
            /\ i + 1 \in 1..(k - 1)
        BY <3>1
      <4>2. g[i] = f[i]
        BY <2>1, <3>1
      <4> QED
        BY <1>0, <1>1, <1>3, <4>1, <4>2
    <3> QED
      BY <2>1, <3>1
  <2>4. \A i \in Nat : i \in S
    BY <2>2, <2>3, CountingUp
  <2>5. k - 1 \in Nat /\ k - 1 <= k - 1
    OBVIOUS
  <2> QED
    BY <2>1, <2>4, <2>5
<1>5. \E s : h[m] = <<s, <<>>>> /\ g[k + m] = <<s, f[k - 1]>>
  <2>1. PICK S : S = { j \in Nat : j <= m => \E s : h[j] = <<s, <<>>>> /\ g[k + j] = <<s, f[k - 1]>> }
    OBVIOUS
  <2>2. 0 \in S
    <3>1. g[k] = Read(f[k - 1], "(")
      BY <1>0, <1>3, <1>4
    <3>2. g[k + 0] = <<"holds", f[k - 1]>>
      BY <3>1 DEF Read
    <3>3. h[0] = <<"holds", <<>>>>
      BY <1>2 DEF Outermost
    <3> QED
      BY <2>1, <3>2, <3>3
  <2>3. \A j \in Nat : j \in S => j + 1 \in S
    <3> SUFFICES ASSUME NEW j \in Nat, j \in S PROVE j + 1 \in S
      OBVIOUS
    <3>1. ASSUME j + 1 <= m
          PROVE  \E s : h[j + 1] = <<s, <<>>>> /\ g[k + (j + 1)] = <<s, f[k - 1]>>
      <4>1. PICK s : h[j] = <<s, <<>>>> /\ g[k + j] = <<s, f[k - 1]>>
        BY <2>1, <3>1
      <4>2. /\ j + 1 \in 1..m /\ (j + 1) - 1 = j
            /\ k + (j + 1) \in 1..(N + m + 1) /\ (k + (j + 1)) - 1 = k + j
        BY <3>1
      <4>3. /\ h[j + 1] = Read(<<s, <<>>>>, V[j + 1])
            /\ g[k + (j + 1)] = Read(<<s, f[k - 1]>>, V[j + 1])
            /\ V[j + 1] \notin {"(", ")"}
        <5>1. h[j + 1] = Read(h[j], V[j + 1])
          BY <1>2, <4>2
        <5>2. g[k + (j + 1)] = Read(g[k + j], W2[k + (j + 1)])
          BY <1>3, <4>2
        <5> QED
          BY <1>0, <4>1, <4>2, <5>1, <5>2
      <4> QED
        BY <4>3, ReadInside
    <3> QED
      BY <2>1, <3>1
  <2>4. \A j \in Nat : j \in S
    BY <2>2, <2>3, CountingUp
  <2> QED
    BY <2>1, <2>4
<1>6. g[k + m + 1] = f[k]
  <2>1. PICK s : h[m] = <<s, <<>>>> /\ g[k + m] = <<s, f[k - 1]>>
    BY <1>5
  <2>2. k + m + 1 \in 1..(N + m + 1) /\ (k + m + 1) - 1 = k + m
    OBVIOUS
  <2>3. g[k + m + 1] = Read(<<s, f[k - 1]>>, ")") /\ f[k] = Read(f[k - 1], W[k])
    <3>1. g[k + m + 1] = Read(g[k + m], W2[k + m + 1])
      BY <1>3, <2>2
    <3>2. f[k] = Read(f[k - 1], W[k])
      BY <1>1
    <3> QED
      BY <1>0, <2>1, <3>1, <3>2
  <2>4. g[k + m + 1] = IF s = "fails" THEN Refuted(f[k - 1]) ELSE f[k - 1]
    BY <2>3 DEF Read
  <2>5. Truth(V) <=> s # "fails"
    BY <1>2, <2>1
  <2>6. f[k] = IF Truth(V) THEN f[k - 1] ELSE Refuted(f[k - 1])
    BY <2>3 DEF Read
  <2> QED
    BY <2>4, <2>5, <2>6
<1>7. g[N + m + 1] = f[N]
  <2>1. PICK S : S = { i \in Nat : i <= N - k => g[k + m + 1 + i] = f[k + i] }
    OBVIOUS
  <2>2. 0 \in S
    BY <1>6, <2>1
  <2>3. \A i \in Nat : i \in S => i + 1 \in S
    <3> SUFFICES ASSUME NEW i \in Nat, i \in S PROVE i + 1 \in S
      OBVIOUS
    <3>1. ASSUME i + 1 <= N - k PROVE g[k + m + 1 + (i + 1)] = f[k + (i + 1)]
      <4>1. /\ k + (i + 1) \in 1..N /\ (k + (i + 1)) - 1 = k + i
            /\ k + (i + 1) \in (k + 1)..N
            /\ k + m + 1 + (i + 1) \in 1..(N + m + 1)
            /\ (k + m + 1 + (i + 1)) - 1 = k + m + 1 + i
            /\ k + (i + 1) + m + 1 = k + m + 1 + (i + 1)
        BY <3>1
      <4>2. g[k + m + 1 + i] = f[k + i]
        BY <2>1, <3>1
      <4>3. W2[k + (i + 1) + m + 1] = W[k + (i + 1)]
        BY <1>0, <4>1
      <4> QED
        BY <1>1, <1>3, <4>1, <4>2, <4>3
    <3> QED
      BY <2>1, <3>1
  <2>4. \A i \in Nat : i \in S
    BY <2>2, <2>3, CountingUp
  <2>5. PICK d \in Nat : d = N - k
    <3>1. k \in 1..N
      BY <1>0
    <3>2. N - k \in Nat
      BY <3>1
    <3> QED
      BY <3>2
  <2>6. g[k + m + 1 + d] = f[k + d]
    BY <2>1, <2>4, <2>5
  <2>7. k + m + 1 + d = N + m + 1 /\ k + d = N
    BY <2>5
  <2> QED
    BY <2>6, <2>7
<1> QED
  BY <1>1, <1>3, <1>7

-----------------------------------------------------------------------------
(***************************************************************************)
(* Trees.                                                                  *)
(***************************************************************************)

(***************************************************************************)
(* Finitely many numbers have an upper bound.                              *)
(***************************************************************************)
LEMMA NumbersBounded ==
    ASSUME NEW n \in Nat
    PROVE  \A f \in [1..n -> Nat] : \E b \in Nat : \A i \in 1..n : f[i] <= b
<1>1. PICK S : S = { k \in Nat : \A f \in [1..k -> Nat] : \E b \in Nat : \A i \in 1..k : f[i] <= b }
  OBVIOUS
<1>2. 0 \in S
  BY <1>1
<1>3. \A k \in Nat : k \in S => k + 1 \in S
  <2> SUFFICES ASSUME NEW k \in Nat, k \in S PROVE k + 1 \in S
    OBVIOUS
  <2>1. ASSUME NEW f \in [1..(k + 1) -> Nat]
        PROVE  \E b \in Nat : \A i \in 1..(k + 1) : f[i] <= b
    <3>1. PICK h \in [1..k -> Nat] : \A i \in 1..k : h[i] = f[i]
      <4>1. [i \in 1..k |-> f[i]] \in [1..k -> Nat]
        OBVIOUS
      <4> QED
        BY <4>1
    <3>2. PICK b \in Nat : \A i \in 1..k : f[i] <= b
      BY <1>1, <3>1
    <3>3. PICK c \in Nat : c >= b /\ c >= f[k + 1]
      <4>1. f[k + 1] \in Nat
        OBVIOUS
      <4> QED
        BY <4>1
    <3>4. \A i \in 1..(k + 1) : f[i] <= c
      BY <3>2, <3>3
    <3> QED
      BY <3>4
  <2>2. k + 1 \in Nat
    OBVIOUS
  <2> QED
    BY <1>1, <2>1, <2>2
<1> QED
  BY <1>1, <1>2, <1>3, CountingUp

(***************************************************************************)
(* The paths of a tree have a longest one.                                 *)
(***************************************************************************)
LEMMA PathsBounded ==
    ASSUME NEW D, IsFiniteSet(D), \A p \in D : Len(p) \in Nat
    PROVE  \E b \in Nat : \A p \in D : Len(p) <= b
<1>1. PICK n \in Nat : ExistsSurjection(1..n, D)
  BY FS_NatSurjection
<1>2. PICK g \in [1..n -> D] : \A p \in D : \E i \in 1..n : g[i] = p
  BY <1>1 DEF ExistsSurjection, Surjection
<1>3. PICK f \in [1..n -> Nat] : \A i \in 1..n : f[i] = Len(g[i])
  <2>1. [i \in 1..n |-> Len(g[i])] \in [1..n -> Nat]
    OBVIOUS
  <2> QED
    BY <2>1
<1>4. PICK b \in Nat : \A i \in 1..n : f[i] <= b
  BY NumbersBounded
<1>5. \A p \in D : Len(p) <= b
  <2> TAKE p \in D
  <2>1. PICK i \in 1..n : g[i] = p
    BY <1>2
  <2>2. f[i] = Len(p) /\ f[i] <= b
    BY <1>3, <1>4, <2>1
  <2> QED
    BY <2>2
<1> QED
  BY <1>5

\* What the predicate at p means when f is what its children mean.
Says(f, tree, p, I) ==
    IF ~IsCompound(tree[p]) THEN SimpleMeaning(tree[p], I)
    ELSE IF tree[p].type = "AND"
    THEN \A i \in 1..Size(tree[p]) : f[Append(p, i)]
    ELSE \E i \in 1..Size(tree[p]) : f[Append(p, i)]

\* f is what the predicates at D mean.
AreMeanings(f, tree, D, I) == f = [p \in D |-> Says(f, tree, p, I)]

(***************************************************************************)
(* Meanings of a set of predicates give those of the predicates whose      *)
(* children it has.                                                        *)
(***************************************************************************)
LEMMA MeaningsExtend ==
    ASSUME NEW tree, NEW I, NEW D, NEW E, D \subseteq E, NEW f, AreMeanings(f, tree, D, I),
           \A p \in E : IsCompound(tree[p]) => \A i \in 1..Size(tree[p]) : Append(p, i) \in D
    PROVE  \E g : AreMeanings(g, tree, E, I)
<1>1. PICK g : g = [p \in E |-> IF p \in D THEN f[p] ELSE Says(f, tree, p, I)]
  OBVIOUS
<1>2. \A p \in D : f[p] = Says(f, tree, p, I)
  BY DEF AreMeanings
<1>3. \A p \in E : g[p] = Says(f, tree, p, I)
  BY <1>1, <1>2
<1>4. \A p \in D : g[p] = f[p]
  BY <1>2, <1>3
<1>5. ASSUME NEW p \in E
      PROVE  Says(f, tree, p, I) = Says(g, tree, p, I)
  BY <1>4 DEF Says
<1>6. g = [p \in E |-> Says(g, tree, p, I)]
  BY <1>1, <1>3, <1>5
<1> QED
  BY <1>6 DEF AreMeanings

(***************************************************************************)
(* A tree has meanings, from its leaves up: the recursion of Meanings      *)
(* defines a function.                                                     *)
(***************************************************************************)
LEMMA MeaningsExist ==
    ASSUME NEW tree, IsShape(tree), NEW I
    PROVE  \E f : AreMeanings(f, tree, DOMAIN tree, I)
<1>1. \A p \in DOMAIN tree : Len(p) \in Nat
  BY PathTyped
<1>2. PICK b \in Nat : \A p \in DOMAIN tree : Len(p) <= b
  BY <1>1, PathsBounded DEF IsShape
<1> DEFINE Deep(k) == { p \in DOMAIN tree : Len(p) > b - k }
<1>3. PICK S : S = { k \in Nat : \E f : AreMeanings(f, tree, Deep(k), I) }
  OBVIOUS
<1>4. 0 \in S
  <2>1. Deep(0) = {}
    BY <1>1, <1>2
  <2>2. \A f, g : [p \in {} |-> f[p]] = [p \in {} |-> g[p]]
    OBVIOUS
  <2>3. PICK f : f = [p \in {} |-> TRUE]
    OBVIOUS
  <2>4. f = [p \in {} |-> Says(f, tree, p, I)]
    BY <2>3
  <2> QED
    BY <1>3, <2>1, <2>4 DEF AreMeanings
<1>5. \A k \in Nat : k \in S => k + 1 \in S
  <2> SUFFICES ASSUME NEW k \in Nat, k \in S PROVE k + 1 \in S
    OBVIOUS
  <2>1. PICK f : AreMeanings(f, tree, Deep(k), I)
    BY <1>3
  <2>2. Deep(k) \subseteq Deep(k + 1)
    BY <1>1
  <2>3. ASSUME NEW p \in Deep(k + 1), IsCompound(tree[p]), NEW i \in 1..Size(tree[p])
        PROVE  Append(p, i) \in Deep(k)
    <3>1. p \in Seq(Nat) /\ Size(tree[p]) \in Nat /\ Append(p, i) \in DOMAIN tree
      BY <2>3, PathTyped DEF IsShape
    <3>2. Len(Append(p, i)) = Len(p) + 1
      BY <3>1, ChildPath
    <3> QED
      BY <1>1, <3>1, <3>2
  <2> HIDE DEF Deep
  <2>4. \E g : AreMeanings(g, tree, Deep(k + 1), I)
    BY <2>1, <2>2, <2>3, MeaningsExtend
  <2> QED
    BY <1>3, <2>4
<1>6. Deep(b + 1) = DOMAIN tree
  BY <1>1, <1>2
<1>7. b + 1 \in S
  <2>1. \A k \in Nat : k \in S
    BY ONLY <1>4, <1>5, CountingUp
  <2> QED
    BY <2>1
<1> QED
  BY <1>3, <1>6, <1>7

(***************************************************************************)
(* So Meanings can be used by its recursion.                               *)
(***************************************************************************)
LEMMA MeaningsRead ==
    ASSUME request \in Requests, NEW I
    PROVE  \A p \in DOMAIN Tree : Meanings(I)[p] <=> Says(Meanings(I), Tree, p, I)
<1>1. PICK tree : tree = Tree
  OBVIOUS
<1>2. IsShape(tree)
  BY <1>1, ShapeOfTree
<1> DEFINE F == CHOOSE f : f = [p \in DOMAIN tree |->
                     IF ~IsCompound(tree[p]) THEN SimpleMeaning(tree[p], I)
                     ELSE IF tree[p].type = "AND"
                     THEN \A i \in 1..Size(tree[p]) : f[Append(p, i)]
                     ELSE \E i \in 1..Size(tree[p]) : f[Append(p, i)]]
<1>3. Meanings(I) = F
  BY <1>1 DEF Meanings
<1>4. AreMeanings(F, tree, DOMAIN tree, I)
  <2>1. \E f : AreMeanings(f, tree, DOMAIN tree, I)
    BY <1>2, MeaningsExist
  <2>2. F = CHOOSE f : AreMeanings(f, tree, DOMAIN tree, I)
    BY DEF AreMeanings, Says
  <2> QED
    BY <2>1, <2>2
<1> HIDE DEF F
<1>5. \A p \in DOMAIN tree : F[p] <=> Says(F, tree, p, I)
  BY <1>4 DEF AreMeanings, Says
<1> QED
  BY <1>1, <1>3, <1>5

-----------------------------------------------------------------------------
(***************************************************************************)
(* Lines of judgements.                                                    *)
(***************************************************************************)

(***************************************************************************)
(* The levels after each word of a text without parentheses.               *)
(***************************************************************************)
LEMMA ReadFlat ==
    ASSUME NEW s, NEW outer
    PROVE  /\ Read(<<s, outer>>, "true") = <<s, outer>>
           /\ Read(<<s, outer>>, "AND") = <<s, outer>>
           /\ Read(<<s, outer>>, "false") = <<IF s = "won" THEN "won" ELSE "fails", outer>>
           /\ Read(<<s, outer>>, "OR") = <<IF s = "fails" THEN "holds" ELSE "won", outer>>
<1>1. <<s, outer>>[1] = s /\ <<s, outer>>[2] = outer
  OBVIOUS
<1>2. Refuted(<<s, outer>>) = <<IF s = "won" THEN "won" ELSE "fails", outer>>
  BY <1>1 DEF Refuted
<1>3. Read(<<s, outer>>, "OR") = <<IF s = "fails" THEN "holds" ELSE "won", outer>>
  BY <1>1 DEF Read
<1>4. Read(<<s, outer>>, "false") = Refuted(<<s, outer>>)
  BY DEF Read
<1> QED
  BY <1>2, <1>3, <1>4 DEF Read

(***************************************************************************)
(* Judgements joined by AND are true when all of them are; so is the empty *)
(* text.                                                                   *)
(***************************************************************************)
LEMMA AndTruth ==
    ASSUME NEW n \in Nat, NEW V, Len(V) = IF n = 0 THEN 0 ELSE 2 * n - 1,
           NEW C, \A i \in 1..n : V[2 * i - 1] = IF i \in C THEN "true" ELSE "false",
           \A i \in 1..(n - 1) : V[2 * i] = "AND"
    PROVE  Truth(V) <=> \A i \in 1..n : i \in C
<1>1. PICK len \in Nat : len = Len(V) /\ len = IF n = 0 THEN 0 ELSE 2 * n - 1
  OBVIOUS
<1>2. PICK f : /\ f[0] = Outermost
               /\ \A i \in 1..len : f[i] = Read(f[i - 1], V[i])
               /\ Truth(V) <=> f[len][1] # "fails"
  BY <1>1, TruthRead
<1>3. CASE n = 0
  <2>1. f[len][1] = "holds"
    BY <1>1, <1>2, <1>3 DEF Outermost
  <2> QED
    BY <1>2, <1>3, <2>1
<1>4. CASE n # 0
  <2> DEFINE All(i) == \A j \in 1..(i + 1) : j \in C
             Level(i) == <<IF All(i) THEN "holds" ELSE "fails", <<>>>>
  <2>1. PICK S : S = { i \in Nat : i < n => f[2 * i + 1] = Level(i) }
    OBVIOUS
  <2>2. 0 \in S
    <3>1. f[1] = Read(Outermost, V[1]) /\ V[1] = IF 1 \in C THEN "true" ELSE "false"
      <4>1. 1 \in 1..len /\ 1 \in 1..n /\ 2 * 1 - 1 = 1 /\ 1 - 1 = 0
        BY <1>1, <1>4
      <4> QED
        BY <1>2, <4>1
    <3>2. f[1] = <<IF 1 \in C THEN "holds" ELSE "fails", <<>>>>
      BY <3>1, ReadFlat DEF Outermost
    <3>3. All(0) <=> 1 \in C
      OBVIOUS
    <3> QED
      BY <2>1, <3>2, <3>3
  <2>3. \A i \in Nat : i \in S => i + 1 \in S
    <3> SUFFICES ASSUME NEW i \in Nat, i \in S PROVE i + 1 \in S
      OBVIOUS
    <3>1. ASSUME i + 1 < n PROVE f[2 * (i + 1) + 1] = Level(i + 1)
      <4>1. PICK k \in Nat : k = 2 * i + 1
        OBVIOUS
      <4>2. f[k] = Level(i)
        BY <2>1, <3>1, <4>1
      <4>3. /\ k + 1 \in 1..len /\ (k + 1) - 1 = k /\ k + 1 = 2 * (i + 1) /\ i + 1 \in 1..(n - 1)
            /\ k + 2 \in 1..len /\ (k + 2) - 1 = k + 1 /\ k + 2 = 2 * (i + 2) - 1 /\ i + 2 \in 1..n
            /\ 2 * (i + 1) + 1 = k + 2
        BY <1>1, <3>1, <4>1
      <4>4. f[k + 1] = Read(f[k], "AND")
        BY <1>2, <4>3
      <4>5. f[k + 2] = Read(f[k + 1], IF i + 2 \in C THEN "true" ELSE "false")
        BY <1>2, <4>3
      <4>6. All(i + 1) <=> All(i) /\ i + 2 \in C
        OBVIOUS
      <4> HIDE DEF All
      <4>7. f[k + 1] = Level(i)
        BY <4>2, <4>4, ReadFlat
      <4>8. f[k + 2] = Level(i + 1)
        BY <4>5, <4>6, <4>7, ReadFlat
      <4> QED
        BY <4>3, <4>8
    <3> QED
      BY <2>1, <3>1
  <2>4. \A i \in Nat : i \in S
    BY ONLY <2>2, <2>3, CountingUp
  <2>5. PICK m \in Nat : n = m + 1 /\ len = 2 * m + 1
    <3>1. n - 1 \in Nat /\ n = (n - 1) + 1 /\ len = 2 * (n - 1) + 1
      BY <1>1, <1>4
    <3> QED
      BY <3>1
  <2>6. f[len] = Level(m)
    BY <2>1, <2>4, <2>5
  <2>7. f[len][1] # "fails" <=> All(m)
    <3> HIDE DEF All
    <3> QED
      BY <2>6
  <2> QED
    BY <1>2, <2>5, <2>7
<1> QED
  BY <1>3, <1>4

(***************************************************************************)
(* Judgements joined by OR are true when one of them is.                   *)
(***************************************************************************)
LEMMA OrTruth ==
    ASSUME NEW n \in Nat \ {0}, NEW V, Len(V) = 2 * n - 1,
           NEW C, \A i \in 1..n : V[2 * i - 1] = IF i \in C THEN "true" ELSE "false",
           \A i \in 1..(n - 1) : V[2 * i] = "OR"
    PROVE  Truth(V) <=> \E i \in 1..n : i \in C
<1>1. PICK len \in Nat : len = Len(V) /\ len = 2 * n - 1
  OBVIOUS
<1>2. PICK f : /\ f[0] = Outermost
               /\ \A i \in 1..len : f[i] = Read(f[i - 1], V[i])
               /\ Truth(V) <=> f[len][1] # "fails"
  BY <1>1, TruthRead
<1> DEFINE Some(i) == \E j \in 1..i : j \in C
           Level(i) == <<IF Some(i) THEN "won" ELSE IF i + 1 \in C THEN "holds" ELSE "fails", <<>>>>
<1>3. PICK S : S = { i \in Nat : i < n => f[2 * i + 1] = Level(i) }
  OBVIOUS
<1>4. 0 \in S
  <2>1. f[1] = Read(Outermost, V[1]) /\ V[1] = IF 1 \in C THEN "true" ELSE "false"
    <3>1. 1 \in 1..len /\ 1 \in 1..n /\ 2 * 1 - 1 = 1 /\ 1 - 1 = 0
      BY <1>1
    <3> QED
      BY <1>2, <3>1
  <2>2. f[1] = <<IF 1 \in C THEN "holds" ELSE "fails", <<>>>>
    BY <2>1, ReadFlat DEF Outermost
  <2>3. ~Some(0)
    OBVIOUS
  <2> QED
    BY <1>3, <2>2, <2>3
<1>5. \A i \in Nat : i \in S => i + 1 \in S
  <2> SUFFICES ASSUME NEW i \in Nat, i \in S PROVE i + 1 \in S
    OBVIOUS
  <2>1. ASSUME i + 1 < n PROVE f[2 * (i + 1) + 1] = Level(i + 1)
    <3>1. PICK k \in Nat : k = 2 * i + 1
      OBVIOUS
    <3>2. f[k] = Level(i)
      BY <1>3, <2>1, <3>1
    <3>3. /\ k + 1 \in 1..len /\ (k + 1) - 1 = k /\ k + 1 = 2 * (i + 1) /\ i + 1 \in 1..(n - 1)
          /\ k + 2 \in 1..len /\ (k + 2) - 1 = k + 1 /\ k + 2 = 2 * (i + 2) - 1 /\ i + 2 \in 1..n
          /\ 2 * (i + 1) + 1 = k + 2
      BY <1>1, <2>1, <3>1
    <3>4. f[k + 1] = Read(f[k], "OR")
      BY <1>2, <3>3
    <3>5. f[k + 2] = Read(f[k + 1], IF i + 2 \in C THEN "true" ELSE "false")
      <4>1. f[k + 2] = Read(f[k + 1], V[k + 2])
        BY <1>2, <3>3
      <4>2. V[2 * (i + 2) - 1] = IF i + 2 \in C THEN "true" ELSE "false"
        BY <1>2, <3>3
      <4> QED
        BY ONLY <3>3, <4>1, <4>2
    <3>6. Some(i + 1) <=> Some(i) \/ i + 1 \in C
      OBVIOUS
    <3> HIDE DEF Some
    <3>7. f[k + 1] = <<IF Some(i + 1) THEN "won" ELSE "holds", <<>>>>
      BY <3>2, <3>4, <3>6, ReadFlat
    <3>8. (i + 1) + 1 = i + 2
      OBVIOUS
    <3>9. f[k + 2] = Level(i + 1)
      BY <3>5, <3>7, <3>8, ReadFlat
    <3> QED
      BY <3>3, <3>9
  <2> QED
    BY <1>3, <2>1
<1>6. \A i \in Nat : i \in S
  BY ONLY <1>4, <1>5, CountingUp
<1>7. PICK m \in Nat : n = m + 1 /\ len = 2 * m + 1
  <2>1. n - 1 \in Nat /\ n = (n - 1) + 1 /\ len = 2 * (n - 1) + 1
    BY <1>1
  <2> QED
    BY <2>1
<1>8. f[len] = Level(m)
  BY <1>3, <1>6, <1>7
<1>9. f[len][1] # "fails" <=> Some(m) \/ m + 1 \in C
  <2>1. f[len][1] = IF Some(m) THEN "won" ELSE IF m + 1 \in C THEN "holds" ELSE "fails"
    BY ONLY <1>8
  <2> HIDE DEF Some
  <2> QED
    BY ONLY <2>1
<1>10. Some(n) <=> Some(m) \/ m + 1 \in C
  <2>1. 1..n = (1..m) \cup {m + 1}
    BY <1>7
  <2> QED
    BY ONLY <2>1
<1> QED
  BY <1>2, <1>9, <1>10

-----------------------------------------------------------------------------
(***************************************************************************)
(* The line. The text that is written followed by what waits is read as    *)
(* one text, in which a clause that waits is a judgement: the truth of its *)
(* predicate.                                                              *)
(***************************************************************************)

\* An item of todo or of the text in a row of I: a is the arguments, M the meanings.
JudgedItem(x, I, a, M) ==
    IF "clause" \in DOMAIN x THEN IF M[x.clause] THEN "true" ELSE "false"
    ELSE Judged(x.word, x.word = "param" => a[x.no] \in I)

\* A line, judged.
JudgedLine(s, I, a, M) == [i \in 1..Len(s) |-> JudgedItem(s[i], I, a, M)]

(***************************************************************************)
(* A join and a parenthesis are themselves when judged.                    *)
(***************************************************************************)
LEMMA JudgedWord ==
    ASSUME NEW w \in {"(", ")"} \cup Joins, NEW I, NEW a, NEW M
    PROVE  JudgedItem(Word(w), I, a, M) = w
<1>1. "clause" \notin DOMAIN Word(w) /\ Word(w).word = w
  BY WordItem, WordParts
<1> QED
  BY <1>1 DEF JudgedItem, Judged

(***************************************************************************)
(* The judged line has the items of the line, judged.                      *)
(***************************************************************************)
LEMMA JudgedLength ==
    ASSUME NEW s, Len(s) \in Nat, NEW I, NEW a, NEW M
    PROVE  /\ Len(JudgedLine(s, I, a, M)) = Len(s)
           /\ \A i \in 1..Len(s) : JudgedLine(s, I, a, M)[i] = JudgedItem(s[i], I, a, M)
<1> DEFINE J(i) == JudgedItem(s[i], I, a, M)
<1>1. JudgedLine(s, I, a, M) = [i \in 1..Len(s) |-> J(i)]
  BY DEF JudgedLine
<1> HIDE DEF J
<1>2. /\ DOMAIN JudgedLine(s, I, a, M) = 1..Len(s)
      /\ \A i \in 1..Len(s) : JudgedLine(s, I, a, M)[i] = J(i)
  BY <1>1
<1>3. Len(JudgedLine(s, I, a, M)) = Len(s)
  <2>1. JudgedLine(s, I, a, M) \in Seq({ J(i) : i \in 1..Len(s) })
    <3>1. JudgedLine(s, I, a, M) \in [1..Len(s) -> { J(i) : i \in 1..Len(s) }]
      BY <1>1
    <3> QED
      BY <3>1, IsASeq
  <2> QED
    BY <1>2, <2>1, LenProperties
<1> QED
  BY <1>2, <1>3 DEF J

\* t, u in parentheses, v.
Around(t, u, v) == t \o <<Word("(")>> \o u \o <<Word(")")>> \o v

(***************************************************************************)
(* The items of a concatenation.                                           *)
(***************************************************************************)
LEMMA ConcatParts ==
    ASSUME NEW S, NEW s \in Seq(S), NEW t \in Seq(S)
    PROVE  /\ s \o t \in Seq(S)
           /\ Len(s \o t) = Len(s) + Len(t)
           /\ \A i \in 1..Len(s) : (s \o t)[i] = s[i]
           /\ \A i \in 1..Len(t) : (s \o t)[Len(s) + i] = t[i]
<1>1. PICK n \in Nat, m \in Nat : n = Len(s) /\ m = Len(t)
  OBVIOUS
<1>2. /\ s \o t \in Seq(S) /\ Len(s \o t) = n + m
      /\ \A i \in 1..(n + m) : (s \o t)[i] = IF i <= n THEN s[i] ELSE t[i - n]
  BY <1>1, ConcatProperties
<1>3. ASSUME NEW i \in 1..m
      PROVE  (s \o t)[n + i] = t[i]
  <2>1. n + i \in 1..(n + m) /\ ~(n + i <= n) /\ n + i - n = i
    OBVIOUS
  <2> QED
    BY <1>2, <2>1
<1>4. \A i \in 1..n : (s \o t)[i] = s[i]
  BY <1>2
<1> QED
  BY <1>1, <1>2, <1>3, <1>4

(***************************************************************************)
(* The item of a sequence of one.                                          *)
(***************************************************************************)
LEMMA SingleParts ==
    ASSUME NEW T, NEW x \in T
    PROVE  <<x>> \in Seq(T) /\ Len(<<x>>) = 1 /\ <<x>>[1] = x
OBVIOUS

\* The items of Around(t, u, v), of which n are t's, m are u's and l are v's.
IsAround(e, t, n, u, m, v, l) ==
    /\ Len(e) = n + m + l + 2
    /\ \A i \in 1..n : e[i] = t[i]
    /\ e[n + 1] = Word("(")
    /\ \A i \in 1..m : e[n + 1 + i] = u[i]
    /\ e[n + m + 2] = Word(")")
    /\ \A i \in 1..l : e[n + m + 2 + i] = v[i]

(***************************************************************************)
(* The items of a line with parentheses in it.                             *)
(***************************************************************************)
LEMMA AroundParts ==
    ASSUME NEW S, NEW t \in Seq(S), NEW u \in Seq(S), NEW v \in Seq(S)
    PROVE  IsAround(Around(t, u, v), t, Len(t), u, Len(u), v, Len(v))
<1>0. PICK n \in Nat, m \in Nat, l \in Nat : n = Len(t) /\ m = Len(u) /\ l = Len(v)
  OBVIOUS
<1>1. PICK T : T = S \cup {Word("("), Word(")")}
  OBVIOUS
<1>2. t \in Seq(T) /\ u \in Seq(T) /\ v \in Seq(T)
  BY <1>1, SeqMonotonic
<1>3. PICK o : o = <<Word("(")>> /\ o \in Seq(T) /\ Len(o) = 1 /\ o[1] = Word("(")
  <2>1. Word("(") \in T
    BY <1>1
  <2> QED
    BY <2>1, SingleParts
<1>4. PICK c : c = <<Word(")")>> /\ c \in Seq(T) /\ Len(c) = 1 /\ c[1] = Word(")")
  <2>1. Word(")") \in T
    BY <1>1
  <2> QED
    BY <2>1, SingleParts
<1>5. PICK a \in Seq(T) : a = t \o o
  BY <1>2, <1>3, ConcatProperties
<1>6. /\ Len(a) = n + 1
      /\ \A i \in 1..n : a[i] = t[i]
      /\ \A i \in 1..1 : a[n + i] = o[i]
  BY <1>0, <1>2, <1>3, <1>5, ConcatParts
<1>7. a[n + 1] = Word("(")
  BY <1>3, <1>6
<1>8. PICK b \in Seq(T) : b = a \o u
  BY <1>2, <1>5, ConcatProperties
<1>9. PICK n1 \in Nat : n1 = n + 1 /\ Len(a) = n1
  BY <1>6
<1>10. /\ Len(b) = n1 + m
       /\ \A i \in 1..n1 : b[i] = a[i]
       /\ \A i \in 1..m : b[n1 + i] = u[i]
  <2>1. /\ Len(a \o u) = Len(a) + Len(u)
        /\ \A i \in 1..Len(a) : (a \o u)[i] = a[i]
        /\ \A i \in 1..Len(u) : (a \o u)[Len(a) + i] = u[i]
    BY <1>2, <1>5, ConcatParts
  <2> QED
    BY <1>0, <1>8, <1>9, <2>1
<1>11. PICK d \in Seq(T) : d = b \o c
  BY <1>4, <1>8, ConcatProperties
<1>12. PICK n2 \in Nat : n2 = n1 + m /\ Len(b) = n2
  BY <1>10
<1>13. /\ Len(d) = n2 + 1
       /\ \A i \in 1..n2 : d[i] = b[i]
       /\ \A i \in 1..1 : d[n2 + i] = c[i]
  <2>1. /\ Len(b \o c) = Len(b) + Len(c)
        /\ \A i \in 1..Len(b) : (b \o c)[i] = b[i]
        /\ \A i \in 1..Len(c) : (b \o c)[Len(b) + i] = c[i]
    BY <1>4, <1>8, ConcatParts
  <2> QED
    BY <1>0, <1>4, <1>11, <1>12, <2>1
<1>14. d[n2 + 1] = Word(")")
  BY <1>4, <1>13
<1>15. PICK n3 \in Nat : n3 = n2 + 1 /\ Len(d) = n3
  BY <1>13
<1>16. /\ Len(d \o v) = n3 + l
       /\ \A i \in 1..n3 : (d \o v)[i] = d[i]
       /\ \A i \in 1..l : (d \o v)[n3 + i] = v[i]
  <2>1. /\ Len(d \o v) = Len(d) + Len(v)
        /\ \A i \in 1..Len(d) : (d \o v)[i] = d[i]
        /\ \A i \in 1..Len(v) : (d \o v)[Len(d) + i] = v[i]
    BY <1>2, <1>11, ConcatParts
  <2> QED
    BY <1>0, <1>15, <2>1
<1>17. d \o v = Around(t, u, v)
  BY <1>3, <1>4, <1>5, <1>8, <1>11 DEF Around
<1>18. PICK e : e = d \o v
  OBVIOUS
<1>19. n3 = n + m + 2 /\ n1 = n + 1 /\ n2 = n + 1 + m
  BY <1>9, <1>12, <1>15
<1>20. ASSUME NEW i \in 1..n PROVE e[i] = t[i]
  <2>1. i \in 1..n1 /\ i \in 1..n2 /\ i \in 1..n3
    BY <1>0, <1>9, <1>12, <1>15, <1>19
  <2> QED
    BY <1>4, <1>6, <1>10, <1>13, <1>16, <1>18, <2>1
<1>21. e[n + 1] = Word("(")
  <2>1. n + 1 \in 1..n1 /\ n + 1 \in 1..n2 /\ n + 1 \in 1..n3
    BY <1>0, <1>9, <1>12, <1>15, <1>19
  <2> QED
    BY <1>7, <1>10, <1>13, <1>16, <1>18, <2>1
<1>22. ASSUME NEW i \in 1..m PROVE e[n1 + i] = u[i]
  <2>1. n1 + i \in 1..n2 /\ n1 + i \in 1..n3
    BY <1>0, <1>9, <1>12, <1>15, <1>19
  <2> QED
    BY <1>10, <1>13, <1>16, <1>18, <2>1
<1>23. e[n3] = Word(")")
  <2>1. n3 \in 1..n3
    BY <1>0, <1>9, <1>12, <1>15, <1>19
  <2> QED
    BY <1>14, <1>15, <1>16, <1>18, <2>1
<1>24. Len(e) = n + m + l + 2
  BY <1>0, <1>16, <1>18, <1>19
<1>25. IsAround(e, t, n, u, m, v, l)
  BY <1>16, <1>18, <1>19, <1>20, <1>21, <1>22, <1>23, <1>24 DEF IsAround
<1>26. e = Around(t, u, v)
  BY <1>17, <1>18
<1> QED
  BY <1>0, <1>25, <1>26, Zenon

(***************************************************************************)
(* The replacement, in a line: the item at the head of what waits is       *)
(* replaced by a line in parentheses that has its truth, and arguments may *)
(* be added that the other items do not name.                              *)
(***************************************************************************)
LEMMA LineBracketed ==
    ASSUME NEW S, NEW t \in Seq(S), NEW u \in Seq(S), NEW w \in Seq(S), w # <<>>,
           NEW I, NEW a, NEW b, NEW M,
           JudgedItem(Head(w), I, a, M) = IF Truth(JudgedLine(u, I, b, M)) THEN "true" ELSE "false",
           \A i \in 1..Len(u) : JudgedItem(u[i], I, b, M) \notin {"(", ")"},
           \A i \in 1..Len(t) : JudgedItem(t[i], I, b, M) = JudgedItem(t[i], I, a, M),
           \A i \in 1..Len(w) : JudgedItem(w[i], I, b, M) = JudgedItem(w[i], I, a, M)
    PROVE  Truth(JudgedLine(Around(t, u, Tail(w)), I, b, M))
               <=> Truth(JudgedLine(t \o w, I, a, M))
<1>1. PICK line : line = t \o w
  OBVIOUS
<1>2. PICK v : v = Tail(w) /\ v \in Seq(S) /\ Len(w) = Len(v) + 1
                 /\ w[1] = Head(w) /\ \A i \in 1..Len(v) : v[i] = w[i + 1]
  <2>1. Tail(w) \in Seq(S) /\ Len(Tail(w)) = Len(w) - 1 /\ w[1] = Head(w)
        /\ \A i \in 1..Len(Tail(w)) : Tail(w)[i] = w[i + 1]
    BY HeadTailProperties
  <2>2. Len(w) = Len(Tail(w)) + 1
    <3>1. Len(w) \in Nat
      BY LenProperties
    <3> QED
      BY <2>1, <3>1
  <2> QED
    BY <2>1, <2>2, Zenon
<1>3. PICK line2 : line2 = Around(t, u, v)
  OBVIOUS
<1>4. PICK n \in Nat, m \in Nat, l \in Nat :
        /\ n = Len(t) /\ m = Len(u) /\ l = Len(v)
        /\ IsAround(line2, t, n, u, m, v, l)
  <2>1. v \in Seq(S) /\ Len(t) \in Nat /\ Len(u) \in Nat /\ Len(v) \in Nat
    BY <1>2, LenProperties
  <2>2. IsAround(line2, t, Len(t), u, Len(u), v, Len(v))
    BY <1>3, <2>1, AroundParts
  <2> QED
    BY <2>1, <2>2
<1>5. /\ Len(line) = n + l + 1
      /\ \A i \in 1..n : line[i] = t[i]
      /\ line[n + 1] = Head(w)
      /\ \A i \in 1..l : line[n + 1 + i] = v[i] /\ v[i] = w[i + 1]
  BY <1>1, <1>2, <1>4
<1>6. Len(w) = l + 1
  BY <1>2, <1>4
<1>7. PICK N \in Nat, k \in Nat : N = n + l + 1 /\ k = n + 1 /\ k \in 1..N
  <2>1. n + l + 1 \in Nat /\ n + 1 \in Nat /\ n + 1 \in 1..(n + l + 1)
    BY <1>4
  <2> QED
    BY <2>1
<1>8. PICK W : W = JudgedLine(line, I, a, M)
  OBVIOUS
<1>9. PICK V : V = JudgedLine(u, I, b, M)
  OBVIOUS
<1>10. PICK W2 : W2 = JudgedLine(line2, I, b, M)
  OBVIOUS
<1>11. Len(W) = N /\ \A i \in 1..N : W[i] = JudgedItem(line[i], I, a, M)
  <2>1. Len(line) = N
    BY <1>4, <1>5, <1>7
  <2>2. Len(line) \in Nat
    BY <1>7, <2>1
  <2>3. /\ Len(JudgedLine(line, I, a, M)) = Len(line)
        /\ \A i \in 1..Len(line) : JudgedLine(line, I, a, M)[i] = JudgedItem(line[i], I, a, M)
    BY ONLY <2>2, JudgedLength
  <2> QED
    BY ONLY <1>8, <2>1, <2>3
<1>12. Len(V) = m /\ \A i \in 1..m : V[i] = JudgedItem(u[i], I, b, M)
  BY <1>4, <1>9, JudgedLength
<1>13. Len(W2) = N + m + 1 /\ \A i \in 1..(N + m + 1) : W2[i] = JudgedItem(line2[i], I, b, M)
  <2>1. Len(line2) = N + m + 1 /\ Len(line2) \in Nat
    BY <1>4, <1>6, <1>7 DEF IsAround
  <2>2. /\ Len(W2) = Len(line2)
        /\ \A i \in 1..Len(line2) : W2[i] = JudgedItem(line2[i], I, b, M)
    <3>1. /\ Len(JudgedLine(line2, I, b, M)) = Len(line2)
          /\ \A i \in 1..Len(line2) :
               JudgedLine(line2, I, b, M)[i] = JudgedItem(line2[i], I, b, M)
      BY ONLY <2>1, JudgedLength
    <3> QED
      BY <1>10, <3>1
  <2> QED
    BY <2>1, <2>2
<1>14. W[k] = IF Truth(V) THEN "true" ELSE "false"
  BY <1>5, <1>7, <1>9, <1>11
<1>15. \A j \in 1..m : V[j] \notin {"(", ")"}
  BY <1>4, <1>12
<1>16. \A i \in 1..(k - 1) : W2[i] = W[i]
  <2> SUFFICES ASSUME NEW i \in 1..(k - 1) PROVE W2[i] = W[i]
    OBVIOUS
  <2>1. i \in 1..n /\ i \in 1..N /\ i \in 1..(N + m + 1)
    BY <1>4, <1>7
  <2>2. W[i] = JudgedItem(t[i], I, a, M) /\ W2[i] = JudgedItem(t[i], I, b, M)
    BY <1>4, <1>5, <1>11, <1>13, <2>1 DEF IsAround
  <2> QED
    BY <1>4, <2>1, <2>2
<1>17. W2[k] = "(" /\ W2[k + m + 1] = ")"
  <2>1. k \in 1..(N + m + 1) /\ k + m + 1 \in 1..(N + m + 1) /\ k + m + 1 = n + m + 2
    BY <1>4, <1>7
  <2>2. W2[k] = JudgedItem(Word("("), I, b, M) /\ W2[k + m + 1] = JudgedItem(Word(")"), I, b, M)
    <3>1. line2[n + 1] = Word("(") /\ line2[n + m + 2] = Word(")")
      BY <1>4 DEF IsAround
    <3>2. line2[k] = Word("(") /\ line2[k + m + 1] = Word(")")
      BY <1>7, <2>1, <3>1
    <3> QED
      BY ONLY <1>13, <2>1, <3>2
  <2> QED
    BY <2>2, JudgedWord
<1>18. \A j \in 1..m : W2[k + j] = V[j]
  <2> SUFFICES ASSUME NEW j \in 1..m PROVE W2[k + j] = V[j]
    OBVIOUS
  <2>1. k + j \in 1..(N + m + 1) /\ k + j = n + 1 + j
    BY <1>4, <1>7
  <2>2. W2[k + j] = JudgedItem(line2[n + 1 + j], I, b, M)
    BY <1>13, <2>1
  <2>3. line2[n + 1 + j] = u[j]
    BY <1>4 DEF IsAround
  <2> QED
    BY <1>12, <2>2, <2>3
<1>19. \A i \in (k + 1)..N : W2[i + m + 1] = W[i]
  <2> SUFFICES ASSUME NEW i \in (k + 1)..N PROVE W2[i + m + 1] = W[i]
    OBVIOUS
  <2>1. PICK j \in 1..l : i = n + 1 + j
    <3>1. i \in Int /\ n + 2 <= i /\ i <= n + l + 1
      BY <1>7
    <3>2. i - n - 1 \in 1..l /\ i = n + 1 + (i - n - 1)
      BY ONLY <3>1, n \in Nat, l \in Nat
    <3> QED
      BY <3>2
  <2>2. /\ i \in 1..N /\ i + m + 1 \in 1..(N + m + 1)
        /\ i + m + 1 = n + m + 2 + j
        /\ j + 1 \in 1..Len(w)
    BY <1>4, <1>6, <1>7, <2>1
  <2>3. line[i] = w[j + 1] /\ line2[n + m + 2 + j] = w[j + 1]
    BY <1>4, <1>5, <2>1 DEF IsAround
  <2>4. W[i] = JudgedItem(w[j + 1], I, a, M)
    BY <1>11, <2>2, <2>3
  <2>5. W2[i + m + 1] = JudgedItem(w[j + 1], I, b, M)
    BY <1>13, <2>2, <2>3
  <2> QED
    BY <2>2, <2>4, <2>5
<1>20. InParentheses(W2, W, V, k)
  BY <1>7, <1>11, <1>12, <1>13, <1>16, <1>17, <1>18, <1>19 DEF InParentheses
<1>21. Len(W) \in Nat /\ Len(V) \in Nat /\ k \in 1..Len(W)
  BY <1>4, <1>7, <1>11, <1>12
<1>22. \A j \in 1..Len(V) : V[j] \notin {"(", ")"}
  BY <1>12, <1>15
<1>23. Truth(W2) <=> Truth(W)
  BY <1>14, <1>20, <1>21, <1>22, Bracketed
<1> QED
  BY <1>1, <1>2, <1>3, <1>8, <1>10, <1>23

-----------------------------------------------------------------------------
(***************************************************************************)
(* The invariant: at every moment of the walk, the line means what the     *)
(* request means. StatementMeansRequest is about finished statements only, *)
(* and so is not inductive: MeaningInv says of an unfinished one what it   *)
(* will mean, however the rest is written.                                 *)
(***************************************************************************)

\* In a row of I the line is true exactly when the request is.
LineMeans(I) == Truth(JudgedLine(text \o todo, I, args, Meanings(I))) <=> Meaning(I)

(***************************************************************************)
(* From the first clause to the statement, the line means what the request *)
(* means in every row, if its compounds are joined by AND and OR.          *)
(***************************************************************************)
MeaningInv ==
    /\ pc \in {"limits", "shape"} => text = <<>>
    /\ pc \in {"predicates", "pagination", "execute"} /\ TypesDeclared =>
           \A I \in SUBSET Values : LineMeans(I)

-----------------------------------------------------------------------------
(***************************************************************************)
(* Between the children of a compound predicate are its joins.             *)
(***************************************************************************)
LEMMA JoinedEven ==
    ASSUME request \in Requests, NEW p \in DOMAIN Tree, IsCompound(Tree[p])
    PROVE  /\ Len(Joined(p)) = IF Size(Tree[p]) = 0 THEN 0 ELSE 2 * Size(Tree[p]) - 1
           /\ \A i \in 1..(Size(Tree[p]) - 1) : Joined(p)[2 * i] = Word(Tree[p].type)
<1>1. PICK n \in Nat : n = Size(Tree[p])
  BY TreeFacts
<1>2. PICK len \in Nat : len = IF n = 0 THEN 0 ELSE 2 * n - 1
  OBVIOUS
<1> DEFINE Piece(k) == IF k % 2 = 1 THEN Clause(Append(p, (k + 1) \div 2))
                       ELSE Word(Tree[p].type)
<1>3. Joined(p) = [k \in 1..len |-> Piece(k)]
  BY <1>1, <1>2 DEF Joined
<1>4. Joined(p) \in Seq(Waiting)
  BY JoinedSound
<1>5. Len(Joined(p)) = len
  <2>1. DOMAIN Joined(p) = 1..len
    BY <1>3
  <2> HIDE DEF Piece
  <2>2. DOMAIN Joined(p) = 1..Len(Joined(p)) /\ Len(Joined(p)) \in Nat
    BY <1>4
  <2> QED
    BY <2>1, <2>2
<1>6. ASSUME NEW i \in 1..(n - 1)
      PROVE  2 * i \in 1..len /\ (2 * i) % 2 = 0
  BY <1>2
<1>7. ASSUME NEW i \in 1..(n - 1)
      PROVE  Joined(p)[2 * i] = Word(Tree[p].type)
  BY <1>3, <1>6
<1> QED
  BY <1>1, <1>2, <1>5, <1>7

(***************************************************************************)
(* The children of a compound predicate, joined, have its meaning, and no  *)
(* parentheses among them.                                                 *)
(***************************************************************************)
LEMMA JoinedMeans ==
    ASSUME request \in Requests, NEW p \in DOMAIN Tree, IsCompound(Tree[p]),
           Size(Tree[p]) > 0 \/ p = <<>>, TypesDeclared, NEW I, NEW a
    PROVE  /\ Truth(JudgedLine(Joined(p), I, a, Meanings(I))) <=> Meanings(I)[p]
           /\ \A i \in 1..Len(Joined(p)) :
                JudgedItem(Joined(p)[i], I, a, Meanings(I)) \notin {"(", ")"}
<1>1. PICK M : M = Meanings(I)
  OBVIOUS
<1>2. PICK n \in Nat : n = Size(Tree[p])
  BY TreeFacts
<1>3. PICK join \in Joins : join = Tree[p].type
  BY DEF TypesDeclared
<1>4. PICK s \in Seq(Waiting) : s = Joined(p)
  BY JoinedSound
<1>5. n = 0 => join = "AND"
  BY <1>2, <1>3, TreeFacts
<1>6. PICK V : V = JudgedLine(s, I, a, M)
  OBVIOUS
<1>7. Len(s) = IF n = 0 THEN 0 ELSE 2 * n - 1
  BY <1>2, <1>4, JoinedEven
<1>8. /\ Len(V) = Len(s)
      /\ \A i \in 1..Len(s) : V[i] = JudgedItem(s[i], I, a, M)
  <2>1. Len(s) \in Nat
    BY <1>4
  <2> QED
    BY <1>6, <2>1, JudgedLength
<1>9. PICK C : C = { i \in 1..n : M[Append(p, i)] }
  OBVIOUS
<1>10. \A q : JudgedItem(Clause(q), I, a, M) = IF M[q] THEN "true" ELSE "false"
  BY ClauseItem DEF JudgedItem
<1>11. ASSUME NEW i \in 1..n
       PROVE  V[2 * i - 1] = IF i \in C THEN "true" ELSE "false"
  <2>1. 2 * i - 1 \in 1..Len(s) /\ s[2 * i - 1] = Clause(Append(p, i))
    BY <1>2, <1>4, JoinedSound
  <2>2. V[2 * i - 1] = JudgedItem(Clause(Append(p, i)), I, a, M)
    BY <1>8, <2>1
  <2> QED
    BY <1>9, <1>10, <2>2
<1>12. ASSUME NEW i \in 1..(n - 1)
       PROVE  V[2 * i] = join
  <2>1. 2 * i \in 1..Len(s)
    BY <1>7
  <2>2. s[2 * i] = Word(join)
    <3>1. Joined(p)[2 * i] = Word(Tree[p].type)
      BY <1>2, JoinedEven
    <3> QED
      BY <1>3, <1>4, <3>1
  <2>3. V[2 * i] = JudgedItem(Word(join), I, a, M)
    BY <1>8, <2>1, <2>2
  <2> QED
    BY <1>3, <2>3, JudgedWord
<1>13. M[p] <=> Says(M, Tree, p, I)
  BY <1>1, MeaningsRead
<1>14. \A i \in 1..n : i \in C <=> M[Append(p, i)]
  BY <1>9
<1>15. Truth(V) <=> M[p]
  <2>1. CASE join = "AND"
    <3>1. Truth(V) <=> \A i \in 1..n : i \in C
      <4>1. Len(V) = IF n = 0 THEN 0 ELSE 2 * n - 1
        BY <1>7, <1>8
      <4> QED
        BY <1>11, <1>12, <2>1, <4>1, AndTruth
    <3>2. Says(M, Tree, p, I) <=> \A i \in 1..n : M[Append(p, i)]
      BY <1>2, <1>3, <2>1 DEF Says
    <3> QED
      BY <1>13, <1>14, <3>1, <3>2
  <2>2. CASE join = "OR"
    <3>1. Truth(V) <=> \E i \in 1..n : i \in C
      <4>1. n \in Nat \ {0} /\ Len(V) = 2 * n - 1
        BY <1>2, <1>5, <1>7, <1>8, <2>2
      <4> QED
        BY <1>11, <1>12, <2>2, <4>1, OrTruth
    <3>2. Says(M, Tree, p, I) <=> \E i \in 1..n : M[Append(p, i)]
      BY <1>2, <1>3, <2>2 DEF Says
    <3> QED
      BY <1>13, <1>14, <3>1, <3>2
  <2> QED
    BY <1>3, <2>1, <2>2 DEF Joins
<1>16. ASSUME NEW i \in 1..Len(s)
       PROVE  JudgedItem(s[i], I, a, M) \notin {"(", ")"}
  <2>1. s[i] = Word(join) \/ \E q : s[i] = Clause(q)
    BY <1>3, <1>4, JoinedSound
  <2>2. JudgedItem(Word(join), I, a, M) = join
    <3>1. join \in {"(", ")"} \cup Joins
      BY <1>3
    <3> QED
      BY ONLY <3>1, JudgedWord
  <2>3. join \notin {"(", ")"}
    BY <1>3 DEF Joins
  <2>4. ASSUME NEW q
        PROVE  JudgedItem(Clause(q), I, a, M) \notin {"(", ")"}
    BY <1>10
  <2> QED
    BY <2>1, <2>2, <2>3, <2>4
<1> QED
  BY <1>1, <1>4, <1>6, <1>15, <1>16

-----------------------------------------------------------------------------
(***************************************************************************)
(* The steps of the writer.                                                *)
(***************************************************************************)

(***************************************************************************)
(* A placeholder is the one of its rank.                                   *)
(***************************************************************************)
LEMMA MarkAtOwn ==
    ASSUME NEW words \in Seq(Words), NEW i \in 1..Len(words), IsMark(words[i])
    PROVE  /\ Rank(words, i) \in 1..Rank(words, Len(words))
           /\ MarkAt(words, Rank(words, i)) = i
<1>1. PICK n \in Nat : n = Len(words)
  OBVIOUS
<1>2. PICK k : k = Rank(words, i)
  OBVIOUS
<1>3. k \in 1..Rank(words, n)
  BY <1>1, <1>2, MarkRank
<1>4. PICK j : j = MarkAt(words, k)
  OBVIOUS
<1>5. j \in 1..n /\ IsMark(words[j]) /\ Rank(words, j) = k
  BY <1>1, <1>3, <1>4, MarkAtSound
<1>6. Rank(words, i) \in Nat /\ Rank(words, j) \in Nat
  BY <1>1, <1>5, RankType
<1>7. ~(i < j)
  <2>1. i < j => Rank(words, i) < Rank(words, j)
    BY <1>1, <1>5, RankGrows
  <2> QED
    BY <1>2, <1>5, <1>6, <2>1
<1>8. ~(j < i)
  <2>1. j < i => Rank(words, j) < Rank(words, i)
    BY <1>1, <1>5, RankGrows
  <2> QED
    BY <1>2, <1>5, <1>6, <2>1
<1> QED
  BY <1>1, <1>2, <1>3, <1>4, <1>5, <1>7, <1>8

(***************************************************************************)
(* A fragment rendered against the arguments collected so far, judged with *)
(* these and its own, is the fragment judged with its own: renumbering     *)
(* keeps each comparison with its value.                                   *)
(***************************************************************************)
LEMMA RenderedMeans ==
    ASSUME TypeOK, ArgInv, NEW words \in Seq(Words), NEW a,
           ArgumentsOf(words, a) \in Seq(Values),
           NEW I, NEW M
    PROVE  /\ JudgedLine(Rendered(words), I, args \o ArgumentsOf(words, a), M)
                = [i \in DOMAIN words |->
                     Judged(words[i], IsMark(words[i]) => ArgumentAt(words, a, i) \in I)]
           /\ \A i \in 1..Len(Rendered(words)) :
                JudgedItem(Rendered(words)[i], I, args \o ArgumentsOf(words, a), M) \notin {"(", ")"}
<1>1. PICK n \in Nat : n = Len(words) /\ DOMAIN words = 1..n
  OBVIOUS
<1>2. PICK u : u = Rendered(words)
  OBVIOUS
<1>3. PICK more \in Seq(Values) : more = ArgumentsOf(words, a)
  OBVIOUS
<1>4. PICK len \in Nat : len = Len(args) /\ index = len + 1
  BY DEF TypeOK, ArgInv
<1>5. PICK b : b = args \o more
  OBVIOUS
<1>6. PICK count \in Nat : count = Rank(words, n)
  BY RankType
<1>7. Len(more) = count /\ \A k \in 1..count : more[k] = ArgumentAt(words, a, MarkAt(words, k))
  <2> DEFINE Argument(k) == ArgumentAt(words, a, MarkAt(words, k))
  <2>1. more = [k \in 1..count |-> Argument(k)]
    BY <1>1, <1>3, <1>6 DEF ArgumentsOf
  <2> HIDE DEF Argument
  <2>2. DOMAIN more = 1..count /\ \A k \in 1..count : more[k] = Argument(k)
    BY <2>1
  <2>3. DOMAIN more = 1..Len(more) /\ Len(more) \in Nat
    BY <1>3
  <2>4. Len(more) = count
    BY <2>2, <2>3
  <2> QED
    BY <2>2, <2>4 DEF Argument
<1>8. \A k \in 1..count : b[len + k] = more[k]
  <2>1. \A k \in 1..Len(more) : (args \o more)[Len(args) + k] = more[k]
    <3>1. args \in Seq(Values) /\ more \in Seq(Values)
      BY <1>3 DEF TypeOK
    <3> QED
      BY <3>1, ConcatParts
  <2> QED
    BY <1>4, <1>5, <1>7, <2>1
<1>9. Len(u) = n /\ \A i \in 1..n : u[i] = IF IsMark(words[i])
                                           THEN Param(index + Rank(words, i) - 1)
                                           ELSE Word(words[i])
  <2>1. index \in Nat \ {0}
    BY DEF TypeOK
  <2> QED
    BY <1>1, <1>2, <2>1, RenderedSound
<1> DEFINE Judgement(i) == Judged(words[i], IsMark(words[i]) => ArgumentAt(words, a, i) \in I)
<1>10. ASSUME NEW i \in 1..n
       PROVE  /\ JudgedItem(u[i], I, b, M) = Judgement(i)
              /\ Judgement(i) \notin {"(", ")"}
  <2>1. words[i] \in Words
    BY <1>1
  <2>2. CASE IsMark(words[i])
    <3>1. PICK k : k = Rank(words, i)
      OBVIOUS
    <3>2. k \in 1..count /\ MarkAt(words, k) = i
      BY <1>1, <1>6, <2>2, <3>1, MarkAtOwn
    <3>3. u[i] = Param(len + k)
      <4>1. index + k - 1 = len + k
        BY <1>4, <3>2
      <4> QED
        BY <1>9, <2>2, <3>1, <4>1
    <3>4. b[len + k] = ArgumentAt(words, a, i)
      BY <1>7, <1>8, <3>2
    <3>5. "clause" \notin DOMAIN u[i] /\ u[i].word = "param" /\ u[i].no = len + k
      BY <3>3 DEF Param
    <3>6. JudgedItem(u[i], I, b, M)
            = Judged("param", ArgumentAt(words, a, i) \in I)
      BY <3>4, <3>5 DEF JudgedItem, Judged
    <3>7. JudgedItem(u[i], I, b, M) = IF ArgumentAt(words, a, i) \in I THEN "true" ELSE "false"
      BY <3>6 DEF Judged, Joins
    <3>8. words[i] \notin {"(", ")"} \cup Joins
      BY <2>2, FetchAssumption DEF IsMark, Joins, Types
    <3>9. Judgement(i) = IF ArgumentAt(words, a, i) \in I THEN "true" ELSE "false"
      BY <2>2, <3>8 DEF Judged
    <3> QED
      BY <3>7, <3>9
  <2>3. CASE ~IsMark(words[i])
    <3>1. u[i] = Word(words[i]) /\ words[i] \in {"x"} \cup Joins
      BY <1>9, <2>1, <2>3 DEF IsMark, Words
    <3>2. "clause" \notin DOMAIN u[i] /\ u[i].word = words[i] /\ words[i] # "param"
      BY <3>1, WordItem, WordParts DEF Joins
    <3>3. JudgedItem(u[i], I, b, M) = IF words[i] \in Joins THEN words[i] ELSE "true"
      BY <3>1, <3>2 DEF JudgedItem, Judged
    <3>4. Judgement(i) = IF words[i] \in Joins THEN words[i] ELSE "true"
      BY <2>3, <3>1 DEF Judged
    <3> QED
      BY <3>1, <3>3, <3>4 DEF Joins
  <2> QED
    BY <2>2, <2>3
<1> HIDE DEF Judgement
<1>11. JudgedLine(u, I, b, M) = [i \in 1..n |-> Judgement(i)]
  BY <1>9, <1>10 DEF JudgedLine
<1>12. \A i \in 1..Len(u) : JudgedItem(u[i], I, b, M) \notin {"(", ")"}
  BY <1>9, <1>10
<1>13. [i \in 1..n |-> Judgement(i)]
         = [i \in DOMAIN words |->
              Judged(words[i], IsMark(words[i]) => ArgumentAt(words, a, i) \in I)]
  BY <1>1 DEF Judgement
<1> QED
  BY <1>2, <1>3, <1>5, <1>11, <1>12, <1>13

\* The items of s are judged alike with the arguments a and b.
JudgedAlike(s, I, a, b, M) ==
    \A i \in 1..Len(s) : JudgedItem(s[i], I, b, M) = JudgedItem(s[i], I, a, M)

(***************************************************************************)
(* What is written names only arguments that are collected: later ones do  *)
(* not change its judgement.                                               *)
(***************************************************************************)
LEMMA WrittenKept ==
    ASSUME TypeOK, ArgInv, NEW more, more \in Seq(Values), NEW I, NEW M
    PROVE  JudgedAlike(text, I, args, args \o more, M) /\ JudgedAlike(todo, I, args, args \o more, M)
<1>1. PICK len \in Nat : len = Len(args)
  BY DEF TypeOK
<1>2. PICK b : b = args \o more
  OBVIOUS
<1>3. \A k \in 1..len : b[k] = args[k]
  <2>1. \A k \in 1..Len(args) : (args \o more)[k] = args[k]
    BY ConcatParts DEF TypeOK
  <2> QED
    BY <1>1, <1>2, <2>1
<1>4. ASSUME NEW i \in 1..Len(text)
      PROVE  JudgedItem(text[i], I, b, M) = JudgedItem(text[i], I, args, M)
  <2>1. PICK x : x = text[i]
    OBVIOUS
  <2>2. x.word = "param" => x.no \in 1..len
    BY <1>1, <2>1 DEF ArgInv, Numbered, ParametersOf
  <2>3. x.word = "param" => b[x.no] = args[x.no]
    BY <1>3, <2>2
  <2> QED
    BY <2>1, <2>3 DEF JudgedItem, Judged
<1>5. ASSUME NEW i \in 1..Len(todo)
      PROVE  JudgedItem(todo[i], I, b, M) = JudgedItem(todo[i], I, args, M)
  <2>1. PICK x : x = todo[i]
    OBVIOUS
  <2>2. x \in Waiting
    BY <2>1 DEF ArgInv
  <2>3. "clause" \notin DOMAIN x => x.word # "param"
    BY <2>2, WaitingItems
  <2> QED
    BY <2>1, <2>3 DEF JudgedItem, Judged
<1>6. JudgedAlike(text, I, args, b, M) /\ JudgedAlike(todo, I, args, b, M)
  BY <1>4, <1>5 DEF JudgedAlike
<1> QED
  BY <1>2, <1>6

\* Concatenation is associative, stated without a term that matches itself.
Assoc(s, t, u) == (s \o t) \o u = s \o (t \o u)
(***************************************************************************)
(* Concatenation is associative.                                           *)
(***************************************************************************)
LEMMA ConcatThree == ASSUME NEW T, NEW s \in Seq(T), NEW t \in Seq(T), NEW u \in Seq(T)
  PROVE Assoc(s, t, u)
BY ConcatAssociative DEF Assoc
\* The line around expanded children, parenthesis by parenthesis.
Unfolded(t, o, u, c, v) == t \o (((o \o u) \o c) \o v) = (((t \o o) \o u) \o c) \o v

(***************************************************************************)
(* The line of a compound predicate: what is expanded is put in front of   *)
(* what waits.                                                             *)
(***************************************************************************)
LEMMA ConcatFive ==
    ASSUME NEW T, NEW t \in Seq(T), NEW o \in Seq(T), NEW u \in Seq(T), NEW c \in Seq(T),
           NEW v \in Seq(T)
    PROVE  Unfolded(t, o, u, c, v)
<1>1. PICK ou \in Seq(T) : ou = o \o u
  BY ConcatProperties
<1>2. PICK ouc \in Seq(T) : ouc = ou \o c
  BY <1>1, ConcatProperties
<1>3. Assoc(t, ouc, v) /\ Assoc(t, ou, c) /\ Assoc(t, o, u)
  BY <1>1, <1>2, ConcatThree
<1> QED
  BY <1>1, <1>2, <1>3 DEF Assoc, Unfolded

(***************************************************************************)
(* What a request means does not change.                                   *)
(***************************************************************************)
LEMMA MeaningsKept ==
    ASSUME request' = request, NEW I
    PROVE  Meanings(I)' = Meanings(I) /\ Meaning(I)' = Meaning(I)
<1>1. Tree' = Tree
  BY TreeKept
<1>2. Meanings(I)' = Meanings(I)
  BY <1>1 DEF Meanings
<1> QED
  BY <1>2 DEF Meaning

(***************************************************************************)
(* Writing a simple predicate keeps the meaning of the line                *)
(* (expandSimplePredicateClause).                                          *)
(***************************************************************************)
LEMMA MeaningSimple ==
    ASSUME TypeOK, ArgInv, ExpandSimplePredicateClause, ~Fail(400), ~Fail(500),
           NEW I, LineMeans(I)
    PROVE  LineMeans(I)'
<1>1. PICK p \in DOMAIN Tree :
             /\ todo # <<>> /\ Head(todo) = Clause(p)
             /\ ~IsCompound(Tree[p])
             /\ Tree[p].text \in Seq(Words) /\ IsArgs(Tree[p].args)
             /\ ArgsFit(Tree[p].text, Tree[p].args, Style(p))
             /\ Written(Tree[p].text, Tree[p].args)
  BY SimpleStep DEF WritesClause
<1>2. PICK words \in Seq(Words) : words = Tree[p].text
  BY <1>1
<1>3. PICK a : a = Tree[p].args
  OBVIOUS
<1>4. PICK more \in Seq(Values) : more = ArgumentsOf(words, a)
  BY <1>1, <1>2, <1>3, ArgumentsSound DEF Style
<1>5. PICK M : M = Meanings(I)
  OBVIOUS
<1>6. PICK u : u = Rendered(words)
  OBVIOUS
<1>7. PICK b : b = args \o more
  OBVIOUS
<1>8. /\ text' = text \o <<Word("(")>> \o u \o <<Word(")")>>
      /\ args' = b /\ todo' = Tail(todo) /\ request' = request
  BY <1>1, <1>2, <1>3, <1>4, <1>6, <1>7 DEF Written
<1>9. text \in Seq(Items) /\ u \in Seq(Items) /\ todo \in Seq(Items)
  <2>1. Seq(Pieces) \subseteq Seq(Items)
    BY SeqMonotonic DEF Items
  <2>2. u \in Seq(Pieces)
    BY <1>2, <1>6, RenderedSound DEF TypeOK
  <2> QED
    BY <2>1, <2>2 DEF TypeOK, Items
<1>10. PICK V : V = JudgedLine(u, I, b, M)
  OBVIOUS
<1>11. /\ V = [i \in DOMAIN words |->
                 Judged(words[i], IsMark(words[i]) => ArgumentAt(words, a, i) \in I)]
       /\ \A i \in 1..Len(u) : JudgedItem(u[i], I, b, M) \notin {"(", ")"}
  BY <1>4, <1>6, <1>7, <1>10, RenderedMeans
<1>12. Truth(V) <=> M[p]
  <2>1. M[p] <=> Says(M, Tree, p, I)
    BY <1>5, MeaningsRead DEF TypeOK
  <2>2. Says(M, Tree, p, I) <=> SimpleMeaning(Tree[p], I)
    BY <1>1 DEF Says
  <2>3. SimpleMeaning(Tree[p], I) <=> Truth(V)
    BY <1>2, <1>3, <1>11 DEF SimpleMeaning
  <2> QED
    BY <2>1, <2>2, <2>3
<1>13. JudgedItem(Head(todo), I, args, M) = IF Truth(V) THEN "true" ELSE "false"
  <2>1. JudgedItem(Clause(p), I, args, M) = IF M[p] THEN "true" ELSE "false"
    BY ClauseItem DEF JudgedItem
  <2> QED
    BY <1>1, <1>12, <2>1
<1>14. /\ \A i \in 1..Len(text) : JudgedItem(text[i], I, b, M) = JudgedItem(text[i], I, args, M)
       /\ \A i \in 1..Len(todo) : JudgedItem(todo[i], I, b, M) = JudgedItem(todo[i], I, args, M)
  <2>1. JudgedAlike(text, I, args, args \o more, M) /\ JudgedAlike(todo, I, args, args \o more, M)
    BY ONLY TypeOK, ArgInv, <1>4, WrittenKept
  <2>2. JudgedAlike(text, I, args, b, M) /\ JudgedAlike(todo, I, args, b, M)
    BY ONLY <1>7, <2>1
  <2> QED
    BY ONLY <2>2 DEF JudgedAlike
<1>15. Truth(JudgedLine(Around(text, u, Tail(todo)), I, b, M))
         <=> Truth(JudgedLine(text \o todo, I, args, M))
  <2>1. JudgedItem(Head(todo), I, args, M)
          = IF Truth(JudgedLine(u, I, b, M)) THEN "true" ELSE "false"
    BY ONLY <1>10, <1>13
  <2>2. todo # <<>>
    BY <1>1
  <2>3. \A i \in 1..Len(u) : JudgedItem(u[i], I, b, M) \notin {"(", ")"}
    BY ONLY <1>11
  <2> QED
    BY ONLY <1>9, <1>14, <2>1, <2>2, <2>3, LineBracketed
<1>16. text' \o todo' = Around(text, u, Tail(todo))
  BY <1>8 DEF Around
<1>17. Meanings(I)' = M /\ Meaning(I)' = Meaning(I)
  BY <1>5, <1>8, MeaningsKept
<1>18. LineMeans(I)' <=> (Truth(JudgedLine(text' \o todo', I, args', Meanings(I)')) <=> Meaning(I)')
  BY DEF LineMeans
<1> QED
  BY <1>5, <1>8, <1>15, <1>16, <1>17, <1>18 DEF LineMeans

(***************************************************************************)
(* Replacing a compound predicate by its children in parentheses keeps the *)
(* meaning of the line (expandCompoundPredicateClause).                    *)
(***************************************************************************)
LEMMA MeaningCompound ==
    ASSUME TypeOK, ArgInv, ExpandCompoundPredicateClause, ~Fail(400), TypesDeclared,
           NEW I, LineMeans(I)
    PROVE  LineMeans(I)'
<1>1. PICK p \in DOMAIN Tree :
             /\ todo # <<>> /\ Head(todo) = Clause(p)
             /\ IsCompound(Tree[p]) /\ Size(Tree[p]) > 0
             /\ todo' = Compound(p) \o Tail(todo)
             /\ UNCHANGED <<request, text, placeholderState>>
  BY CompoundStep
<1>2. PICK M : M = Meanings(I)
  OBVIOUS
<1>3. PICK u : u = Joined(p)
  OBVIOUS
<1>4. u \in Seq(Items) /\ text \in Seq(Items) /\ todo \in Seq(Items)
  <2>1. Seq(Pieces) \subseteq Seq(Items)
    BY SeqMonotonic DEF Items
  <2>2. u \in Seq(Items)
    BY <1>1, <1>3, JoinedSound, WaitingItems DEF TypeOK
  <2> QED
    BY <2>1, <2>2 DEF TypeOK, Items
<1>5. PICK V : V = JudgedLine(u, I, args, M)
  OBVIOUS
<1>6. /\ Truth(V) <=> M[p]
      /\ \A i \in 1..Len(u) : JudgedItem(u[i], I, args, M) \notin {"(", ")"}
  BY <1>1, <1>2, <1>3, <1>5, JoinedMeans DEF TypeOK
<1>7. JudgedItem(Head(todo), I, args, M) = IF Truth(V) THEN "true" ELSE "false"
  <2>1. JudgedItem(Clause(p), I, args, M) = IF M[p] THEN "true" ELSE "false"
    BY ClauseItem DEF JudgedItem
  <2> QED
    BY <1>1, <1>6, <2>1
<1>8. Truth(JudgedLine(Around(text, u, Tail(todo)), I, args, M))
         <=> Truth(JudgedLine(text \o todo, I, args, M))
  BY <1>1, <1>4, <1>5, <1>6, <1>7, LineBracketed
<1>9. text' \o todo' = Around(text, u, Tail(todo))
  <2>1. PICK T : T = Items \cup {Word("("), Word(")")}
    OBVIOUS
  <2>2. PICK v : v = Tail(todo)
    OBVIOUS
  <2>3. text \in Seq(T) /\ u \in Seq(T) /\ v \in Seq(T)
    <3>1. Seq(Items) \subseteq Seq(T)
      BY <2>1, SeqMonotonic
    <3> QED
      BY <1>1, <1>4, <2>2, <3>1
  <2>4. PICK o : o = <<Word("(")>> /\ o \in Seq(T)
    <3>1. Word("(") \in T
      BY <2>1
    <3> QED
      BY <3>1, SingleParts
  <2>5. PICK c : c = <<Word(")")>> /\ c \in Seq(T)
    <3>1. Word(")") \in T
      BY <2>1
    <3> QED
      BY <3>1, SingleParts
  <2>6. todo' = ((o \o u) \o c) \o v /\ text' = text
    BY <1>1, <1>3, <2>2, <2>4, <2>5 DEF Compound
  <2>7. Unfolded(text, o, u, c, v)
    <3>1. o \in Seq(T) /\ c \in Seq(T)
      BY <2>4, <2>5
    <3> QED
      BY ONLY <2>3, <3>1, ConcatFive
  <2> QED
    BY ONLY <2>2, <2>4, <2>5, <2>6, <2>7 DEF Around, Unfolded
<1>10. args' = args /\ Meanings(I)' = M /\ Meaning(I)' = Meaning(I)
  BY <1>1, <1>2, MeaningsKept DEF placeholderState
<1>11. LineMeans(I)' <=> (Truth(JudgedLine(text' \o todo', I, args', Meanings(I)')) <=> Meaning(I)')
  BY DEF LineMeans
<1> QED
  BY <1>2, <1>8, <1>9, <1>10, <1>11 DEF LineMeans

(***************************************************************************)
(* Moving a word from what waits to the text does not change the line.     *)
(***************************************************************************)
LEMMA MeaningWord ==
    ASSUME TypeOK, WriteWord, NEW I, LineMeans(I)
    PROVE  LineMeans(I)'
<1>1. todo # <<>> /\ text' = Append(text, Head(todo)) /\ todo' = Tail(todo)
      /\ UNCHANGED <<request, placeholderState>>
  BY DEF WriteWord
<1>2. text \in Seq(Items) /\ todo \in Seq(Items)
  <2>1. Seq(Pieces) \subseteq Seq(Items)
    BY SeqMonotonic DEF Items
  <2> QED
    BY <2>1 DEF TypeOK, Items
<1>3. PICK x \in Items : x = Head(todo)
  BY <1>1, <1>2, HeadTailProperties
<1>4. PICK v \in Seq(Items) : v = Tail(todo)
  BY <1>1, <1>2, HeadTailProperties
<1>5. todo = <<x>> \o v
  BY <1>1, <1>2, <1>3, <1>4
<1>6. Append(text, x) = text \o <<x>>
  BY <1>2, <1>3, AppendIsConcat
<1>7. (text \o <<x>>) \o v = text \o (<<x>> \o v)
  <2>1. <<x>> \in Seq(Items)
    BY <1>3
  <2> QED
    BY <1>2, <1>4, <2>1, ConcatAssociative
<1>8. text' \o todo' = text \o todo
  BY <1>1, <1>3, <1>4, <1>5, <1>6, <1>7
<1>9. args' = args /\ Meanings(I)' = Meanings(I) /\ Meaning(I)' = Meaning(I)
  BY <1>1, MeaningsKept DEF placeholderState
<1>10. LineMeans(I)' <=> (Truth(JudgedLine(text' \o todo', I, args', Meanings(I)')) <=> Meaning(I)')
  BY DEF LineMeans
<1> QED
  BY <1>8, <1>9, <1>10 DEF LineMeans

(***************************************************************************)
(* The line of the root means what the request means.                      *)
(***************************************************************************)
LEMMA MeaningStarts ==
    ASSUME TypeOK, StartWriting, ~Fail(400), text = <<>>, TypesDeclared, NEW I
    PROVE  LineMeans(I)'
<1>1. todo' = Joined(<<>>) /\ UNCHANGED <<request, text, placeholderState>>
  BY DEF StartWriting
<1>2. <<>> \in DOMAIN Tree /\ IsCompound(Tree[<<>>]) /\ Joined(<<>>) \in Seq(Waiting)
  BY TreeFacts, JoinedSound DEF TypeOK
<1>3. Truth(JudgedLine(Joined(<<>>), I, args, Meanings(I))) <=> Meanings(I)[<<>>]
  BY <1>2, JoinedMeans DEF TypeOK
<1>4. text' \o todo' = Joined(<<>>)
  BY <1>1, <1>2, ConcatEmptySeq
<1>5. args' = args /\ Meanings(I)' = Meanings(I) /\ Meaning(I)' = Meaning(I)
  BY <1>1, MeaningsKept DEF placeholderState
<1>6. LineMeans(I)' <=> (Truth(JudgedLine(text' \o todo', I, args', Meanings(I)')) <=> Meaning(I)')
  BY DEF LineMeans
<1> QED
  BY <1>3, <1>4, <1>5, <1>6 DEF Meaning

(***************************************************************************)
(* A step that leaves the line and the arguments alone.                    *)
(***************************************************************************)
LEMMA MeaningKept ==
    ASSUME NEW I, LineMeans(I), UNCHANGED <<request, todo, text, args>>
    PROVE  LineMeans(I)'
<1>1. Meanings(I)' = Meanings(I) /\ Meaning(I)' = Meaning(I)
  BY MeaningsKept
<1>2. LineMeans(I)' <=> (Truth(JudgedLine(text' \o todo', I, args', Meanings(I)')) <=> Meaning(I)')
  BY DEF LineMeans
<1>3. text' = text /\ todo' = todo /\ args' = args
  OBVIOUS
<1> QED
  BY <1>1, <1>2, <1>3 DEF LineMeans

(***************************************************************************)
(* Nothing is written when a request arrives.                              *)
(***************************************************************************)
LEMMA MeaningInit == Init => MeaningInv
BY DEF Init, MeaningInv

(***************************************************************************)
(* MeaningInv is kept by every step.                                       *)
(***************************************************************************)
LEMMA MeaningStep == TypeOK /\ ArgInv /\ MeaningInv /\ [Next]_vars => MeaningInv'
<1> SUFFICES ASSUME TypeOK, ArgInv, MeaningInv, [Next]_vars PROVE MeaningInv'
  OBVIOUS
<1>0. request' = request /\ (TypesDeclared' <=> TypesDeclared)
  <2>1. request' = request
    BY DEF Next, Done, vars, ValidateLimits, StartWriting, ExpandSimplePredicateClause,
       ExpandCompoundPredicateClause, WriteWord, PredicatesWritten, ExpandPagination,
       Execute, Fail
  <2> QED
    BY <2>1, TreeKept DEF TypesDeclared
<1>1. CASE Fail(400) \/ Fail(500)
  BY <1>1 DEF Fail, MeaningInv
<1>2. CASE ValidateLimits /\ ~Fail(400) /\ ~Fail(500)
  <2>1. pc = "limits" /\ pc' = "shape" /\ text' = text
    BY <1>2 DEF ValidateLimits, LimitError
  <2> QED
    BY <2>1 DEF MeaningInv
<1>3. CASE StartWriting /\ ~Fail(400)
  <2>1. pc = "shape" /\ pc' = "predicates"
    BY <1>3 DEF StartWriting
  <2>2. TypesDeclared => \A I \in SUBSET Values : LineMeans(I)'
    BY <1>3, <2>1, MeaningStarts DEF MeaningInv
  <2> QED
    BY <1>0, <2>1, <2>2 DEF MeaningInv
<1>4. CASE ExpandSimplePredicateClause /\ ~Fail(400) /\ ~Fail(500)
  <2>1. pc = "predicates" /\ pc' = pc
    BY <1>4 DEF ExpandSimplePredicateClause
  <2>2. TypesDeclared => \A I \in SUBSET Values : LineMeans(I)'
    BY <1>4, <2>1, MeaningSimple DEF MeaningInv
  <2> QED
    BY <1>0, <2>1, <2>2 DEF MeaningInv
<1>5. CASE ExpandCompoundPredicateClause /\ ~Fail(400)
  <2>1. pc = "predicates" /\ pc' = pc
    BY <1>5 DEF ExpandCompoundPredicateClause
  <2>2. TypesDeclared => \A I \in SUBSET Values : LineMeans(I)'
    BY <1>5, <2>1, MeaningCompound DEF MeaningInv
  <2> QED
    BY <1>0, <2>1, <2>2 DEF MeaningInv
<1>6. CASE WriteWord
  <2>1. pc = "predicates" /\ pc' = pc
    BY <1>6 DEF WriteWord
  <2>2. TypesDeclared => \A I \in SUBSET Values : LineMeans(I)'
    BY <1>6, <2>1, MeaningWord DEF MeaningInv
  <2> QED
    BY <1>0, <2>1, <2>2 DEF MeaningInv
<1>7. CASE PredicatesWritten \/ (ExpandPagination /\ ~Fail(400))
  <2>1. /\ pc \in {"predicates", "pagination"} /\ pc' \in {"pagination", "execute"}
        /\ UNCHANGED <<request, todo, text, args>>
    BY <1>7 DEF PredicatesWritten, ExpandPagination, placeholderState
  <2>2. TypesDeclared => \A I \in SUBSET Values : LineMeans(I)'
    BY <2>1, MeaningKept DEF MeaningInv
  <2> QED
    BY <1>0, <2>1, <2>2 DEF MeaningInv
<1>8. CASE Execute
  BY <1>0, <1>8 DEF Execute, MeaningInv
<1>9. CASE UNCHANGED vars
  <2>1. UNCHANGED <<request, todo, text, args, pc>>
    BY <1>9 DEF vars
  <2>2. pc \in {"predicates", "pagination", "execute"} /\ TypesDeclared
          => \A I \in SUBSET Values : LineMeans(I)'
    BY <2>1, MeaningKept DEF MeaningInv
  <2> QED
    BY <1>0, <2>1, <2>2 DEF MeaningInv
<1> QED
  BY <1>1, <1>2, <1>3, <1>4, <1>5, <1>6, <1>7, <1>8, <1>9 DEF Next, Done

(***************************************************************************)
(* An engine that binds by order binds to a parameter the argument of its  *)
(* number: the placeholders of MySQL, which carry no numbers, are as good  *)
(* as those of the others.                                                 *)
(***************************************************************************)
LEMMA BoundByOrder ==
    ASSUME TypeOK, ArgInv, NEW i \in 1..Len(text), text[i].word = "param"
    PROVE  BoundAt(i) = args[text[i].no]
<1>1. PICK len \in Nat : len = Len(args)
  BY DEF TypeOK
<1>2. PICK P : P = { j \in 1..i : text[j].word = "param" }
  OBVIOUS
<1>3. PICK n \in Nat : n = text[i].no
  BY DEF ArgInv, Numbered, ParametersOf
<1>4. /\ \A j \in P : j \in ParametersOf(text) /\ j \in Nat /\ j <= i
      /\ i \in P
      /\ \A j \in ParametersOf(text) : j <= i => j \in P
      /\ ParametersOf(text) \subseteq Nat
  <2>1. Len(text) \in Nat
    BY DEF TypeOK
  <2> QED
    BY <1>2, <2>1 DEF ParametersOf
<1>5. /\ \A j \in ParametersOf(text) : text[j].no \in 1..len
      /\ \A k \in 1..len : \E j \in ParametersOf(text) : text[j].no = k
      /\ \A j, k \in ParametersOf(text) : j < k => text[j].no < text[k].no
  BY <1>1 DEF ArgInv, Numbered
<1> DEFINE f == [j \in P |-> text[j].no]
<1>6. f \in [P -> 1..n]
  <2> SUFFICES ASSUME NEW j \in P PROVE text[j].no \in 1..n
    OBVIOUS
  <2>1. text[j].no \in 1..len /\ (j = i \/ text[j].no < text[i].no)
    BY <1>4, <1>5
  <2> QED
    BY <1>3, <2>1
<1>7. \A j, k \in P : f[j] = f[k] => j = k
  <2> SUFFICES ASSUME NEW j \in P, NEW k \in P, j < k PROVE text[j].no # text[k].no
    BY <1>4
  <2>1. text[j].no < text[k].no /\ text[j].no \in 1..len /\ text[k].no \in 1..len
    BY <1>4, <1>5
  <2> QED
    BY <2>1
<1>8. \A k \in 1..n : \E j \in P : f[j] = k
  <2> SUFFICES ASSUME NEW k \in 1..n PROVE \E j \in P : text[j].no = k
    OBVIOUS
  <2>1. n \in 1..len
    BY <1>3, <1>4, <1>5
  <2>2. PICK j \in ParametersOf(text) : text[j].no = k
    BY <1>5, <2>1
  <2>3. ~(i < j)
    <3>1. i < j => text[i].no < text[j].no
      BY <1>4, <1>5
    <3> QED
      BY <1>3, <2>2, <3>1
  <2>4. j \in Nat /\ i \in Nat
    BY <1>4
  <2> QED
    BY <1>4, <2>2, <2>3, <2>4
<1>9. f \in Bijection(P, 1..n)
  BY <1>6, <1>7, <1>8 DEF Bijection, Injection, Surjection, IsInjective
<1>10. ExistsBijection(P, 1..n)
  BY <1>9 DEF ExistsBijection
<1>11. IsFiniteSet(P)
  <2>1. IsFiniteSet(1..i)
    BY <1>4, FS_Interval
  <2> QED
    BY <1>2, <2>1, FS_Subset
<1>12. Cardinality(P) = n
  <2>1. Cardinality(1..n) = n
    BY FS_Interval
  <2> QED
    BY <1>10, <1>11, <2>1, FS_Bijection
<1> QED
  BY <1>2, <1>3, <1>12 DEF BoundAt

(***************************************************************************)
(* When nothing waits, the line is the text.                               *)
(***************************************************************************)
LEMMA MeaningImplied ==
    ASSUME TypeOK, ArgInv, MeaningInv, pc = "execute" => todo = <<>>
    PROVE  StatementMeansRequest
<1> SUFFICES ASSUME pc = "execute", TypesDeclared, NEW I \in SUBSET Values
             PROVE  StatementTruth(I) <=> Meaning(I)
  BY DEF StatementMeansRequest
<1>1. text \o todo = text
  BY ConcatEmptySeq DEF TypeOK
<1>2. LineMeans(I)
  BY DEF MeaningInv
<1>3. PICK M : M = Meanings(I)
  OBVIOUS
<1>4. DOMAIN text = 1..Len(text) /\ text \in Seq(Pieces)
  BY DEF TypeOK
<1> DEFINE Judgement(i) == Judged(text[i].word, text[i].word = "param" => BoundAt(i) \in I)
<1>5. ASSUME NEW i \in 1..Len(text)
      PROVE  JudgedItem(text[i], I, args, M) = Judgement(i)
  <2>1. "clause" \notin DOMAIN text[i]
    <3>1. text[i] \in Pieces
      BY <1>4
    <3>2. DOMAIN text[i] = {"word", "no"}
      BY <3>1 DEF Pieces
    <3> QED
      BY <3>2
  <2>2. text[i].word = "param" => BoundAt(i) = args[text[i].no]
    BY BoundByOrder
  <2> QED
    BY <2>1, <2>2 DEF JudgedItem, Judged
<1> HIDE DEF Judgement
<1>6. JudgedLine(text, I, args, M) = [i \in DOMAIN text |-> Judgement(i)]
  BY <1>4, <1>5 DEF JudgedLine
<1>7. StatementTruth(I) <=> Truth(JudgedLine(text, I, args, M))
  BY <1>6 DEF StatementTruth, Judgement
<1> QED
  BY <1>1, <1>2, <1>3, <1>7 DEF LineMeans

(***************************************************************************)
(* A statement selects the rows that the request asks for                  *)
(* (StatementMeansRequest), for every tree of predicates whose compounds   *)
(* are of a declared type, every dialect and every row: each comparison is *)
(* judged with its own argument whatever is renumbered around it, and the  *)
(* nesting of AND and OR is that of the tree whatever the precedence of    *)
(* the operators (fetch-request.ts:95-195).                                *)
(***************************************************************************)
THEOREM StatementTrue == Spec => []StatementMeansRequest
<1>1. Spec => [](TypeOK /\ ArgInv /\ WalkInv /\ MeaningInv)
  BY TypeInit, TypeStep, ArgInit, ArgStep, WalkInit, WalkStep, MeaningInit, MeaningStep,
     PTL DEF Spec
<1>2. TypeOK /\ ArgInv /\ WalkInv /\ MeaningInv => StatementMeansRequest
  BY MeaningImplied DEF WalkInv
<1> QED
  BY <1>1, <1>2, PTL
=============================================================================
