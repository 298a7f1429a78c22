\* A workflow over crashes, pauses and resumes.
SPECIFICATION Spec
CONSTANTS
    Parent = Parent
    None = None
    Children = {k1, k2, k3, k4, k5, g1, g2}
    GateChildren = {g1, g2}
    Plan <- WorkflowPlan
    Kind = "workflow_run"
    StoreFaults <- NoFaults
    MaxCrashes = 2
SYMMETRY ChildSymmetry
CHECK_DEADLOCK FALSE
INVARIANTS TypeOK ReturnFreesMatter SuccessIsBacked
PROPERTIES EndedChildStaysEnded ExecutesPlan
