\* A crash or SQLITE_BUSY between the statements of the migration.
CONSTANTS
    t1 = t1
    t2 = t2
    t3 = t3
    c1 = c1
    c2 = c2
    kart = kart
    other = other
    Task = {t1, t2}
    Client = {c1, c2}
    NoClient = NoClient
    Lease = 1
    CommitLag = 0
    HostDriven = {}
    Agent = {kart}
    AgentOf <- OneAgent
    ReapAgent = kart
    MaxLimit = 2
    Interruptible = {"open"}
SPECIFICATION Spec
INVARIANTS
    MigrationLeases
