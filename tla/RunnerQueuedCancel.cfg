\* A cancel sent while a resume is in flight.
SPECIFICATION Spec
CONSTANTS
    p1 = p1  p2 = p2  c1 = c1  c2 = c2  j1 = j1  j2 = j2  j3 = j3  m1 = m1
    None = None
    Procs = {p1}
    Clients = {c1, c2}
    Jobs = {j1}
    Matters = {m1}
    ProcOf <- OneProcOf
    MatterOf <- OneMatterOf
    HasHandler <- AllHandlers
    ClientOps = {"start", "resume", "cancel"}
    StoreFaults <- NoFaults
    MaxRestarts = 0
INVARIANTS QueuedCancelTakesEffect
