------------------------ MODULE AuthorizationProofs ------------------------
(***************************************************************************)
(* The decision of a role gate, for any role names.                        *)
(***************************************************************************)
EXTENDS Authorization, TLAPS

(***************************************************************************)
(* For every gate that can be configured and every caller, the early       *)
(* returns of evaluateGate come to the documented meaning of the gate: a   *)
(* denied role always rejects, and who is left needs an allow that covers  *)
(* them (authorization.service.ts:13-33, :92-202).                         *)
(***************************************************************************)
THEOREM GateAsDocumented ==
    ASSUME NEW gate \in RoleGate, NEW caller \in Callers
    PROVE  EvaluateGate(gate, caller) <=> Admits(gate, caller)
<1>1. CASE caller = NoPrincipal
  BY <1>1 DEF EvaluateGate, Admits
<1>2. CASE caller # NoPrincipal
  <2>1. CASE "anonymous" \in gate.allow
    BY <1>2, <2>1 DEF EvaluateGate, Admits
  <2>2. CASE "anonymous" \notin gate.allow
    <3>1. gate.deny = {} => caller \cap gate.deny = {}
      OBVIOUS
    <3>2. gate.allow = {} => "*" \notin gate.allow /\ caller \cap gate.allow = {}
      OBVIOUS
    <3> QED
      BY <1>2, <2>2, <3>1, <3>2 DEF EvaluateGate, Admits
  <2> QED
    BY <2>1, <2>2
<1> QED
  BY <1>1, <1>2

(***************************************************************************)
(* Nobody who holds a denied role gets past any gate, whatever roles it    *)
(* allows (authorization.service.ts:27-28).                                *)
(***************************************************************************)
THEOREM DenyOverridesAllow ==
    ASSUME NEW gate \in RoleGate, NEW caller \in SUBSET Roles,
           NoPrincipal \notin SUBSET Roles, caller \cap gate.deny # {}
    PROVE  ~EvaluateGate(gate, caller)
BY GateAsDocumented DEF Admits, Callers
=============================================================================
