\* Two processes, two rows, no timing assumption, one fault of any kind.
CONSTANTS
    t1 = t1
    t2 = t2
    t3 = t3
    w1 = w1
    w2 = w2
    kart = kart
    other = other
    NoProc = NoProc
    Task = {t1, t2}
    Proc = {w1, w2}
    Lease = 1
    Slots <- FastAndBatch
    Ceiling <- OneTick
    Blocks <- OneBlock
    Overhead = 0
    Timely = FALSE
    Once = {}
    Preloaded = {}
    Agent = {kart, other}
    AgentOf <- OneAgent
    WorkerAgent <- KartWorkers
    ReapAgent = kart
    Faults = {"queue", "open", "heartbeat", "crash"}
    MaxFaults = 1
SPECIFICATION Spec
SYMMETRY Symmetry
INVARIANTS
    RunAtMostOnce
    SlotsRespected
    RunningIsHeld
PROPERTIES
    Contract
    OnlyALateFinishChanges
