\* Two programs on one matter, crashes included.
SPECIFICATION Spec
CONSTANTS
    p1 = p1  p2 = p2  c1 = c1  c2 = c2  j1 = j1  j2 = j2  j3 = j3  m1 = m1
    None = None
    Procs = {p1, p2}
    Clients = {c1, c2}
    Jobs = {j1, j2}
    Matters = {m1}
    ProcOf <- TwoProcsOf
    MatterOf <- OneMatterOf
    HasHandler <- AllHandlers
    ClientOps = {"start", "resume"}
    StoreFaults <- NoFaults
    MaxRestarts = 1
SYMMETRY JobAndProgramSymmetry
INVARIANTS TypeOK OneRunningRowPerMatter HandlerOwnsMatter
