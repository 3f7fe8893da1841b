\* The ledger: three writers, five records of one or two cells, a ledger of two
\* lines, two faults.  The logs: one task in every world, or three tasks, one log
\* kept, one edit, one death.
CONSTANTS
    w1 = w1
    w2 = w2
    w3 = w3
    Writer = {w1, w2, w3}
    MaxSize = 2
    Threshold = 3
    Keep = 2
    MaxRecords = 5
    MaxFaults = 2
    r1 = r1
    r2 = r2
    r3 = r3
    Run = {r1, r2, r3}
    NoRun = NoRun
    d1 = d1
    d2 = d2
    d3 = d3
    Dir = {d1, d2, d3}
    path = path
    marker = marker
    root = root
    author = author
    pghost = pghost
    safe = safe
    runtime = runtime
    key = key
    password = password
    Name = {path, marker, root, author, pghost, safe, runtime, key, password}
    Base = {path, marker}
    Root = {root}
    Identity = {author}
    PgHost = pghost
    SafeRoot = safe
    RuntimeDir = runtime
    app = app
    Submitter = {app}
    NoOne = NoOne
    Retention = 1
    Cases <- AllCases
    MaxEdits = 1
    MaxDeaths = 1
\* Every record is appended, every task logged.
CHECK_DEADLOCK FALSE
SPECIFICATION RecordsSpec
SYMMETRY Symmetry
INVARIANTS
    NewestUnlessSpoiled
    CutsAreConfined
    EnvIsGated
    LogIsOfOneRun
    OnlyUnchangedArePruned
    RetentionHolds
PROPERTIES
    RotationBounds
