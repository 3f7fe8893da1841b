\* A worker's thread with an authorizer and a drain without one, two rows of any
\* kind; one mark_done, "open" callback or forensic write fails.
CONSTANTS
    t1 = t1
    t2 = t2
    d1 = d1
    d2 = d2
    NoTask = NoTask
    NoDrainer = NoDrainer
    Task = {t1, t2}
    Drainer = {d1, d2}
    Guarded = {d1}
    Authorizing = {d1}
    Handling = {d2}
    Lease = 1
    MaxBatch = 2
    Rows <- AllRows
    MaxFailures = 1
\* Every row ended: nothing is left to do but let time pass.
CHECK_DEADLOCK FALSE
SPECIFICATION FairSpec
INVARIANTS
    OnlyPassedRowsRun
    VerdictIsWhatHappened
    WorkersAnswer
PROPERTIES
    RowsEnd
