\* Tasks of two blocks; ceiling + overhead is exactly the lease; no fault.
CONSTANTS
    t1 = t1
    t2 = t2
    t3 = t3
    w1 = w1
    w2 = w2
    kart = kart
    other = other
    NoProc = NoProc
    Task = {t1, t2}
    Proc = {w1, w2}
    Lease = 2
    Slots <- OneSlot
    Ceiling <- OneTick
    Blocks <- TwoBlocks
    Overhead = 1
    Timely = TRUE
    Once = {}
    Preloaded = {}
    Agent = {kart, other}
    AgentOf <- OneAgent
    WorkerAgent <- KartWorkers
    ReapAgent = kart
    Faults = {}
    MaxFaults = 0
SPECIFICATION Spec
INVARIANTS
    NoLiveReap
