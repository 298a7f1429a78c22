\* A crash while a child runs.
SPECIFICATION Spec
CONSTANTS
    Parent = Parent
    None = None
    Children = {k1, k2, g1}
    GateChildren = {g1}
    Plan <- WorkflowPlan
    Kind = "workflow_run"
    StoreFaults <- NoFaults
    MaxCrashes = 1
SYMMETRY ChildSymmetry
CHECK_DEADLOCK FALSE
INVARIANTS IdleRunningRowResumable
