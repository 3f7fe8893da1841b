\* One once=True process of one slot, two rows, nothing fails.
CONSTANTS
    t1 = t1
    t2 = t2
    t3 = t3
    w1 = w1
    w2 = w2
    kart = kart
    other = other
    NoProc = NoProc
    Task = {t1, t2}
    Proc = {w1}
    Lease = 1
    Slots <- OneSlot
    Ceiling <- OneTick
    Blocks <- OneBlock
    Overhead = 0
    Timely = FALSE
    Once = {w1}
    Preloaded = {t1, t2}
    Agent = {kart, other}
    AgentOf <- OneAgent
    WorkerAgent <- KartWorkers
    ReapAgent = kart
    Faults = {}
    MaxFaults = 0
SPECIFICATION Spec
INVARIANTS
    OnceDrains
