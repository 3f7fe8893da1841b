\* Two processes, two rows of one agent, one of them driven by its host; errors
\* and crashes between any two statements.
CONSTANTS
    t1 = t1
    t2 = t2
    t3 = t3
    c1 = c1
    c2 = c2
    kart = kart
    other = other
    Task = {t1, t2}
    Client = {c1, c2}
    NoClient = NoClient
    Lease = 2
    CommitLag = 1
    HostDriven = {t2}
    Agent = {kart, other}
    AgentOf <- OneAgent
    ReapAgent = kart
    MaxLimit = 2
    Interruptible = {"open", "run"}
SPECIFICATION Spec
SYMMETRY Symmetry
INVARIANTS
    NoDoubleClaim
PROPERTIES
    Contract
    OldestFirst
