--------------------------- MODULE MCFetchRequest ---------------------------
(* Instances of FetchRequest for TLC. *)
EXTENDS FetchRequest, TLC

Array(list)    == [kind |-> "array", list |-> list, fields |-> NoFields]
Object(fields) == [kind |-> "object", list |-> <<>>, fields |-> fields]
Null           == [kind |-> "null", list |-> <<>>, fields |-> NoFields]

Leaf(words, a)     == [text |-> words, args |-> a]
List(type, size)   == [type |-> type, size |-> size]

\* A predicate that has predicates, too, and a compound that has none.
Both(size, words, a) == [size |-> size, text |-> words, args |-> a]
Typed(type)          == [type |-> type]

\* Predicates in both styles, with arguments that fit and that do not.
Leaves ==
    { Leaf(<<"?">>, Array(<<"v">>)),
      Leaf(<<"?">>, Array(<<"w">>)),
      Leaf(<<"?", "OR", "?">>, Array(<<"v", "w">>)),
      Leaf(<<"x", "OR", "?">>, Array(<<"w">>)),
      Leaf(<<"?", "AND", "?">>, Array(<<"v">>)),
      Leaf(<<"x">>, Array(<<>>)),
      Leaf(<<"x">>, Array(<<"v">>)),
      Leaf(<<"x">>, Null),
      Leaf(<<"a">>, Object([NoFields EXCEPT !["a"] = "w"])),
      Leaf(<<"b", "OR", "a", "AND", "b">>, Object([n \in Names |->
                                              IF n = "a" THEN "v" ELSE "w"])),
      Leaf(<<"a", "OR", "b">>, Object([NoFields EXCEPT !["a"] = "v"])),
      Leaf(<<"a">>, Array(<<"v">>)),
      Leaf(<<"?", "OR", "a">>, Array(<<"v">>)) }

Positional == { l \in Leaves : l.args.kind = "array" /\ ArgsFit(l.text, l.args, "positional") }

\* Whose text binds less tightly than an AND beside it.
Loose == { l \in Positional : "OR" \in { l.text[i] : i \in DOMAIN l.text } }

\* <<1>> alone, <<1>> and <<2>>, and trees with compounds at <<1>>, at <<2>> or both.
OneLeaf(a)     == [p \in {<<>>, <<1>>} |-> IF p = <<>> THEN List("AND", 1) ELSE a]
TwoLeaves(a, b) ==
    [p \in {<<>>, <<1>>, <<2>>} |->
        IF p = <<>> THEN List("AND", 2) ELSE IF p = <<1>> THEN a ELSE b]
LeafAndPair(type, a, b, c) ==
    [p \in {<<>>, <<1>>, <<2>>, <<2, 1>>, <<2, 2>>} |->
        CASE p = <<>>     -> List("AND", 2)
          [] p = <<1>>    -> a
          [] p = <<2>>    -> List(type, 2)
          [] p = <<2, 1>> -> b
          [] p = <<2, 2>> -> c]
Nested(outer, inner, a, b, c) ==
    [p \in {<<>>, <<1>>, <<1, 1>>, <<1, 2>>, <<1, 1, 1>>, <<1, 1, 2>>} |->
        CASE p = <<>>        -> List("AND", 1)
          [] p = <<1>>       -> List(outer, 2)
          [] p = <<1, 1>>    -> List(inner, 2)
          [] p = <<1, 2>>    -> a
          [] p = <<1, 1, 1>> -> b
          [] p = <<1, 1, 2>> -> c]
TwoPairs(type, a, b) ==
    [p \in {<<>>, <<1>>, <<2>>, <<1, 1>>, <<1, 2>>, <<2, 1>>, <<2, 2>>} |->
        IF p = <<>> THEN List("AND", 2) ELSE IF Len(p) = 1 THEN List(type, 2)
        ELSE IF p[2] = 1 THEN a ELSE b]
EmptyCompound == [p \in {<<>>, <<1>>} |-> IF p = <<>> THEN List("AND", 1) ELSE List("OR", 0)]
NoLeaf        == [p \in {<<>>} |-> List("AND", 0)]

\* The list of a predicate has a member, which nobody writes.
MixedList(a, b) ==
    [p \in {<<>>, <<1>>, <<2>>, <<2, 1>>} |->
        CASE p = <<>>     -> List("AND", 2)
          [] p = <<1>>    -> a
          [] p = <<2>>    -> Both(1, <<"x">>, Array(<<>>))
          [] p = <<2, 1>> -> b]

\* The same predicate n times, one more than the limit among others.
Flat(a, n) == [p \in {<<>>} \cup { <<i>> : i \in 1..n } |-> IF p = <<>> THEN List("AND", n) ELSE a]

Undeclared ==
    { Both(0, <<"?">>, Array(<<"v">>)), Both(0, <<"a">>, Array(<<"v">>)),
      Typed("OR"), [args |-> Null], [Typed("AND") EXCEPT !.type = "other"] @@ Leaf(<<"x">>, Null) }

MixedTrees ==
    { MixedList(a, b) : a \in Leaves \cup Undeclared, b \in Leaves \cup Undeclared }
        \cup { TwoLeaves(a, b) : a \in Leaves, b \in Undeclared }
        \cup { Flat(Both(0, <<"?">>, Array(<<"v">>)), n) : n \in 1..(MaxPredicates + 1) }

Trees ==
    {NoLeaf, EmptyCompound}
        \cup { OneLeaf(a) : a \in Leaves }
        \cup { TwoLeaves(a, b) : a, b \in Leaves }
        \cup { LeafAndPair(t, a, b, c) : t \in Joins, a \in Positional,
                                        b \in Leaves, c \in Loose }
        \cup { Nested(t, u, a, b, c) : t, u \in Joins, a, b \in Positional, c \in Loose }
        \cup { TwoPairs(t, a, b) : t \in Joins, a, b \in Positional }
        \cup { LeafAndPair("other", a, a, a) : a \in Positional }
        \cup MixedTrees
        \cup { [Nested("OR", "AND", a, a, a) EXCEPT ![<<1, 2>>] = List("AND", 0)] :
                   a \in Positional }

Plain(tree) ==
    [shape |-> "ok", tree |-> tree, sort |-> [fields |-> 1, valid |-> TRUE],
     pagination |-> NoPagination]

\* Every tree; every page, sort and shape of a request with a small tree.
AllRequests ==
    { Plain(tree) : tree \in Trees }
        \cup { [Plain(NoLeaf) EXCEPT !.pagination = [size |-> s, index |-> i]] :
                   s \in 0..(MaxPageSize + 1), i \in -1..3 }
        \cup { [Plain(NoLeaf) EXCEPT !.sort = [fields |-> n, valid |-> v]] :
                   n \in 0..(MaxSortFields + 1), v \in BOOLEAN }
        \cup { [Plain(tree) EXCEPT !.shape = shape] : tree \in {NoLeaf},
                   shape \in {"noTable", "badSort", "noPredicates", "noSort"} }
=============================================================================
