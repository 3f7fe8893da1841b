\* A looping process and a once=True process, one row, two faults of any kind; the
\* queue need not recover.
CONSTANTS
    t1 = t1
    t2 = t2
    t3 = t3
    w1 = w1
    w2 = w2
    kart = kart
    other = other
    NoProc = NoProc
    Task = {t1}
    Proc = {w1, w2}
    Lease = 1
    Slots <- OneSlot
    Ceiling <- OneTick
    Blocks <- OneBlock
    Overhead = 0
    Timely = FALSE
    Once = {w2}
    Preloaded = {}
    Agent = {kart, other}
    AgentOf <- OneAgent
    WorkerAgent <- KartWorkers
    ReapAgent = kart
    Faults = {"queue", "open", "heartbeat", "crash"}
    MaxFaults = 2
SPECIFICATION FairSpec
PROPERTIES
    OnceReturns
    EventuallyTerminal
    HeartbeatTellsTheTruth
