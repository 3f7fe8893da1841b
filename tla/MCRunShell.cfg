\* One task with every kind of descendant and every fault; two workers start,
\* sweep and die around it, in one pid namespace or in two.
CONSTANTS
    w1 = w1
    w2 = w2
    host = host
    container = container
    p1 = p1
    p2 = p2
    l1 = l1
    NoWorker = NoWorker
    NoLeaf = NoLeaf
    Worker = {w1, w2}
    Namespace = {host, container}
    Pid = {p1, p2}
    Leaf = {l1}
    Kinds = {"group", "escapee"}
    ParentStates = {"usable", "unusable", "absent"}
    Faults = {"crash", "mkdir", "limits", "build", "popen", "wait", "parent",
              "slow"}
    MaxFaults = 2
\* Every task ended and every worker up: nothing is left to do.
CHECK_DEADLOCK FALSE
SPECIFICATION FairSpec
INVARIANTS
    CappedOrRefused
    LeafReleased
    TimeoutKillsGroup
PROPERTIES
    OnlyOrphansAreSwept
    LiveLeafStays
    SweepRecovers
    RunShellReturns
