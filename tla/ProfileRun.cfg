\* A profile that continues after a failed stage; every write of the handler may fail.
SPECIFICATION Spec
CONSTANTS
    Parent = Parent
    None = None
    Children = {k1, k2, k3, k4}
    GateChildren = {}
    Plan <- LenientProfile
    Kind = "profile_run"
    StoreFaults <- AllFaults
    MaxCrashes = 1
SYMMETRY ChildSymmetry
CHECK_DEADLOCK FALSE
PROPERTIES ExecutesPlan
