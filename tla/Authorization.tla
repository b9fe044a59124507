--------------------------- MODULE Authorization ---------------------------
(***************************************************************************)
(* AuthorizationService (authentication/authorization.service.ts): which   *)
(* role gate a request has to pass, and the decision a gate takes.         *)
(*                                                                         *)
(* A gate is a pair of sets of role names; "*" and "anonymous" are names   *)
(* with a meaning of their own.  The caller is the set of the roles of the *)
(* request's principal, or NoPrincipal.                                    *)
(***************************************************************************)
CONSTANTS
    Roles,          \* the role names of gates and tokens
    Tables,         \* the tables of the database
    NoPrincipal     \* nobody is authenticated

CrudOperations == {"create", "read", "update", "delete"}

RoleNames == Roles \cup {"*", "anonymous"}

RoleGate == [allow : SUBSET RoleNames, deny : SUBSET RoleNames]

Callers == (SUBSET Roles) \cup {NoPrincipal}

\* config.authentication.authorization: a table overrides any of the operations.
IsPolicy(p) ==
    /\ DOMAIN p = {"schema", "default", "tables"}
    /\ p.schema \in RoleGate
    /\ p.default \in [CrudOperations -> RoleGate]
    /\ DOMAIN p.tables \subseteq Tables
    /\ \A t \in DOMAIN p.tables :
         /\ DOMAIN p.tables[t] \subseteq CrudOperations
         /\ p.tables[t] \in [DOMAIN p.tables[t] -> RoleGate]

\* tables[table]?.[operation] ?? default[operation]
CrudGate(policy, table, operation) ==
    IF table \in DOMAIN policy.tables /\ operation \in DOMAIN policy.tables[table]
    THEN policy.tables[table][operation]
    ELSE policy.default[operation]

\* Slip: a matching allow role wins over a deny role.
EvaluateGateAllowFirst(gate, caller) ==
    \/ "anonymous" \in gate.allow
    \/ /\ caller # NoPrincipal
       /\ \/ caller \cap gate.allow # {}
          \/ "*" \in gate.allow /\ caller \cap gate.deny = {}

\* evaluateGate: its early returns and throws, in their order.
EvaluateGate(gate, caller) ==
    IF "anonymous" \in gate.allow
    THEN caller = NoPrincipal \/ caller \cap gate.deny = {}
    ELSE /\ caller # NoPrincipal
         /\ \/ "*" \in gate.allow /\ gate.deny = {}
            \/ /\ gate.deny # {} => caller \cap gate.deny = {}
               /\ gate.allow # {}
               /\ "*" \in gate.allow \/ caller \cap gate.allow # {}

(***************************************************************************)
(* What the gate is documented to mean (authorization.service.ts:20-28):   *)
(* a denied role always rejects; "anonymous" admits everybody else, "*"    *)
(* every principal, and a role name the principals who hold it.            *)
(***************************************************************************)
Admits(gate, caller) ==
    /\ caller # NoPrincipal => caller \cap gate.deny = {}
    /\ \/ "anonymous" \in gate.allow
       \/ /\ caller # NoPrincipal
          /\ \/ "*" \in gate.allow
             \/ caller \cap gate.allow # {}
=============================================================================
