-------------------------- MODULE MCRowOperations --------------------------
(* Instances of RowOperations for TLC. *)
EXTENDS RowOperations, TLC

OneConnection  == <<"c1">>
TwoConnections == <<"c1", "c2">>

\* Every operation there is.
AllOperations == Store!Operations

(***************************************************************************)
(* The operations that meet on key 1: it is read, inserted (with its key   *)
(* and without), updated in place, moved to key 2, and deleted.            *)
(***************************************************************************)
OperationsOnOneKey ==
    { o \in Store!Operations :
        /\ o.key \in {Store!NoKey, 1}
        /\ o.kind \in {"insert", "update"} => o.other
        /\ o.kind = "insert" => o.setKey \in {Store!NoKey, 1}
        /\ o.kind = "update" => o.setKey \in {Store!NoKey, 2}
        /\ o.kind # "updateColumn" }

\* Inserts whose body leaves the key to the table.
PlainInserts ==
    { o \in Store!Operations : o.kind = "insert" /\ o.setKey = Store!NoKey }

Symmetry == Permutations(Requests)
=============================================================================
