\* Two threads of one program, every call; the kind of j3 has no handler.
SPECIFICATION Spec
CONSTANTS
    p1 = p1  p2 = p2  c1 = c1  c2 = c2  j1 = j1  j2 = j2  j3 = j3  m1 = m1
    None = None
    Procs = {p1}
    Clients = {c1, c2}
    Jobs = {j1, j2, j3}
    Matters = {m1}
    ProcOf <- OneProcOf
    MatterOf <- OneMatterOf
    HasHandler <- NoHandlerForJ3
    ClientOps = {"start", "resume", "cancel", "shutdown"}
    StoreFaults <- NoFaults
    MaxRestarts = 1
SYMMETRY HandledJobSymmetry
INVARIANTS NoJobQueuedBehindJob IdleMeansUnlocked SnapshotMatchesRow ShutdownReleases
PROPERTIES TerminalSnapshotStays
