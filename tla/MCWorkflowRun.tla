--------------------------- MODULE MCWorkflowRun ---------------------------
(***************************************************************************)
(* Small instances of WorkflowRun.                                         *)
(***************************************************************************)
EXTENDS WorkflowRun, TLC

Node(type, soft) == [type |-> type, soft |-> soft]

(* A tolerated node, a gate that asks for tolerance in vain, a strict node. *)
WorkflowPlan == <<Node("job", TRUE), Node("gate", TRUE), Node("job", FALSE)>>

(* stop_on_stage_failure is one switch for all stages of a profile. *)
LenientProfile == <<Node("job", TRUE), Node("job", TRUE)>>

NoFaults == {}
AllFaults == {"dispatch", "create", "set", "persist"}

ChildSymmetry ==
    {f @@ g : f \in Permutations(GateChildren), g \in Permutations(Children \ GateChildren)}

============================================================================
