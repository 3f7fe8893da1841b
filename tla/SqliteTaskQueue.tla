-------------------------- MODULE SqliteTaskQueue --------------------------
(***************************************************************************)
(* SqliteTaskQueue of queue.py: several processes, each with a connection  *)
(* of its own per operation, over one SQLite file in WAL mode.  A reader   *)
(* sees the committed rows; one writer at a time holds the reserved lock,  *)
(* and its updates stay in its own draft until COMMIT.                     *)
(*                                                                         *)
(* An operation that is one statement is one step.  claim_pending and the  *)
(* second half of reap_stale are transactions of several steps; reap_stale *)
(* scans on one connection and updates on another; the constructor's       *)
(* migration is a sequence of autocommitted statements.  A process may     *)
(* crash, or an operation may raise, between any two steps.                *)
(***************************************************************************)
EXTENDS Integers, FiniteSets

CONSTANTS
    Task, Client, NoClient,
    Lease, CommitLag, HostDriven,  \* as in TaskQueue
    Agent,         \* agent names
    AgentOf,       \* AgentOf[t]: the agent column of row t
    ReapAgent,     \* reap_stale's default agent, "kart"
    MaxLimit,      \* largest limit a caller passes to claim_pending
    Interruptible  \* the phases a crash or an error may cut: "open", "run"

ASSUME SqliteAssumption ==
    /\ Lease \in Nat /\ CommitLag \in 0 .. Lease /\ MaxLimit \in Nat \ {0}
    /\ HostDriven \subseteq Task /\ NoClient \notin Client
    /\ AgentOf \in [Task -> Agent] /\ ReapAgent \in Agent
    /\ Interruptible \subseteq {"open", "run"}

VARIABLES
    status, age,     \* the committed rows, as in TaskQueue
    created, second, \* created[t]: second of created_at; second: the present one
    hasLeaseColumn,  \* the table has the claimed_at column
    writer,          \* who holds the reserved lock
    pc,              \* pc[c]: where client c is in its operation
    ids,             \* ids[c]: task ids it has read and not yet updated
    draft,           \* draft[c]: task ids it has updated and not yet committed
    lag,             \* lag[t]: ticks since t's uncommitted claimed_at stamp
    holding,         \* holding[c]: rows returned to c that it has not finished
    claimant, verdict, reapedBy   \* history, as in TaskQueue

rowVars == <<status, age, claimant, verdict, reapedBy>>
timeVars == <<created, second>>
txnVars == <<writer, ids, draft, lag>>
vars == <<rowVars, timeVars, hasLeaseColumn, txnVars, pc, holding>>

TQ == INSTANCE TaskQueue

InTransaction == {"claiming", "reaping"}

\* The committed rows, and of every client its place in an operation, what it
\* has read and what it has not committed (queue.py).
TypeOK ==
    /\ TQ!TypeOK
    /\ created \in [Task -> Nat]
    /\ second \in Nat \ {0}
    /\ hasLeaseColumn \in BOOLEAN
    /\ writer \in Client \cup {NoClient}
    /\ pc \in [Client -> {"closed", "alter", "backfill", "idle", "scanned"}
                           \cup InTransaction]
    /\ ids \in [Client -> SUBSET Task]
    /\ draft \in [Client -> SUBSET Task]
    /\ lag \in [Task -> 0 .. CommitLag]
    /\ holding \in [Client -> SUBSET Task]

\* A new file, or one an earlier version kept without the claimed_at column
\* and may have left rows 'running' in.
Init ==
    /\ hasLeaseColumn \in BOOLEAN
    /\ status \in [Task -> {"absent", "pending", "running"}]
    /\ hasLeaseColumn => status = [t \in Task |-> "absent"]
    /\ age = [t \in Task |-> TQ!NoLease]
    /\ created = [t \in Task |-> 0]
    /\ second = 1
    /\ writer = NoClient
    /\ pc = [c \in Client |-> "closed"]
    /\ ids = [c \in Client |-> {}]
    /\ draft = [c \in Client |-> {}]
    /\ lag = [t \in Task |-> 0]
    /\ holding = [c \in Client |-> {}]
    /\ claimant = [t \in Task |-> NoClient]
    /\ verdict = [t \in Task |-> "none"]
    /\ reapedBy = [t \in Task |-> NoClient]

Goto(c, there) == pc' = [pc EXCEPT ![c] = there]

(***************************************************************************)
(* Opening the file: CREATE IF NOT EXISTS, then the migration.             *)
(***************************************************************************)

\* PRAGMA table_info: what the columns were when this process looked.
OpenProbe(c) ==
    /\ pc[c] = "closed"
    /\ Goto(c, IF hasLeaseColumn THEN "idle" ELSE "alter")
    /\ UNCHANGED <<rowVars, timeVars, hasLeaseColumn, txnVars, holding>>

\* ALTER TABLE commits by itself.  If another process added the column since
\* the probe it raises "duplicate column name" out of the constructor.
OpenAlter(c) ==
    /\ pc[c] = "alter"
    /\ writer = NoClient
    /\ hasLeaseColumn' = TRUE
    /\ Goto(c, IF hasLeaseColumn THEN "closed" ELSE "backfill")
    /\ UNCHANGED <<rowVars, timeVars, txnVars, holding>>

OpenBackfill(c) ==
    /\ pc[c] = "backfill"
    /\ writer = NoClient
    /\ TQ!GrantLeases
    /\ Goto(c, "idle")
    /\ UNCHANGED <<timeVars, hasLeaseColumn, txnVars, holding>>

\* Killed, or SQLITE_BUSY after busy_timeout, between two of these statements.
OpenFails(c) ==
    /\ "open" \in Interruptible
    /\ pc[c] \in {"alter", "backfill"}
    /\ Goto(c, "closed")
    /\ UNCHANGED <<rowVars, timeVars, hasLeaseColumn, txnVars, holding>>

(***************************************************************************)
(* Operations of one statement, which autocommit.                          *)
(***************************************************************************)

\* submit: INSERT; a task_id already there raises and changes nothing.
Submit(c, t) ==
    /\ pc[c] = "idle"
    /\ writer = NoClient
    /\ TQ!Submit(t)
    /\ created' = [created EXCEPT ![t] = second]
    /\ UNCHANGED <<second, hasLeaseColumn, txnVars, pc, holding>>

MarkRunning(c, t) ==
    /\ pc[c] = "idle"
    /\ writer = NoClient
    /\ TQ!MarkRunning(t)
    /\ UNCHANGED <<timeVars, hasLeaseColumn, txnVars, pc, holding>>

\* mark_done asks nothing of the row's status.
MarkDone(c, t, s) ==
    /\ pc[c] = "idle"
    /\ writer = NoClient
    /\ t \in holding[c]
    /\ TQ!MarkDone(c, t, s)
    /\ holding' = [holding EXCEPT ![c] = @ \ {t}]
    /\ UNCHANGED <<timeVars, hasLeaseColumn, txnVars, pc>>

(***************************************************************************)
(* claim_pending.                                                          *)
(***************************************************************************)

PendingOf(a) == {t \in Task : status[t] = "pending" /\ AgentOf[t] = a}

Smaller(m, n) == IF m < n THEN m ELSE n

\* Mutant: no ORDER BY created_at.
SelectedAnyOrder(S, a, n) ==
    /\ S \subseteq PendingOf(a)
    /\ Cardinality(S) = Smaller(n, Cardinality(PendingOf(a)))

\* S may be the result of the SELECT: ORDER BY created_at LIMIT n.  Rows
\* created in the same second come in any order.
Selected(S, a, n) ==
    /\ S \subseteq PendingOf(a)
    /\ Cardinality(S) = Smaller(n, Cardinality(PendingOf(a)))
    /\ \A t \in S, u \in PendingOf(a) \ S : created[t] <= created[u]

\* Mutant: a deferred BEGIN, which takes no lock before the SELECT.
ClaimBeginDeferred(c, a, n) ==
    /\ pc[c] = "idle"
    /\ \E S \in SUBSET PendingOf(a) :
         /\ Selected(S, a, n)
         /\ ids' = [ids EXCEPT ![c] = S]
    /\ Goto(c, "claiming")
    /\ UNCHANGED <<rowVars, timeVars, hasLeaseColumn, writer, draft, lag, holding>>

\* BEGIN IMMEDIATE takes the lock; the SELECT under it sees what any later
\* moment of the transaction would.
ClaimBegin(c, a, n) ==
    /\ pc[c] = "idle"
    /\ writer = NoClient
    /\ writer' = c
    /\ \E S \in SUBSET PendingOf(a) :
         /\ Selected(S, a, n)
         /\ ids' = [ids EXCEPT ![c] = S]
    /\ Goto(c, "claiming")
    /\ UNCHANGED <<rowVars, timeVars, hasLeaseColumn, draft, lag, holding>>

\* One UPDATE of the loop stamps one row with the time of the statement.
ClaimUpdate(c, t) ==
    /\ pc[c] = "claiming"
    /\ t \in ids[c]
    /\ ids' = [ids EXCEPT ![c] = @ \ {t}]
    /\ draft' = [draft EXCEPT ![c] = @ \cup {t}]
    /\ UNCHANGED <<rowVars, timeVars, hasLeaseColumn, writer, lag, pc, holding>>

\* COMMIT, and the rows go back to the caller.
ClaimCommit(c) ==
    /\ pc[c] = "claiming"
    /\ ids[c] = {}
    /\ TQ!HandOut(c, draft[c], lag)
    /\ holding' = [holding EXCEPT ![c] = @ \cup draft[c]]
    /\ writer' = NoClient
    /\ draft' = [draft EXCEPT ![c] = {}]
    /\ lag' = [t \in Task |-> 0]
    /\ Goto(c, "idle")
    /\ UNCHANGED <<timeVars, hasLeaseColumn, ids>>

(***************************************************************************)
(* reap_stale: stale_running on one connection, the updates on another.    *)
(***************************************************************************)

Stale == {t \in Task : AgentOf[t] = ReapAgent /\ TQ!Expired(t)}

\* stale_running reads the committed rows; with no candidate reap_stale returns.
ReapScan(c) ==
    /\ pc[c] = "idle"
    /\ Stale # {}
    /\ ids' = [ids EXCEPT ![c] = Stale]
    /\ Goto(c, "scanned")
    /\ UNCHANGED <<rowVars, timeVars, hasLeaseColumn, writer, draft, lag, holding>>

ReapBegin(c) ==
    /\ pc[c] = "scanned"
    /\ writer = NoClient
    /\ writer' = c
    /\ Goto(c, "reaping")
    /\ UNCHANGED <<rowVars, timeVars, hasLeaseColumn, ids, draft, lag, holding>>

\* Mutant: the UPDATE trusts the scan.
ReapUpdateUnguarded(c, t) ==
    /\ pc[c] = "reaping"
    /\ t \in ids[c]
    /\ ids' = [ids EXCEPT ![c] = @ \ {t}]
    /\ draft' = [draft EXCEPT ![c] = @ \cup {t}]
    /\ UNCHANGED <<rowVars, timeVars, hasLeaseColumn, writer, lag, pc, holding>>

\* UPDATE ... AND status='running'; rowcount says whether the row still was.
ReapUpdate(c, t) ==
    /\ pc[c] = "reaping"
    /\ t \in ids[c]
    /\ ids' = [ids EXCEPT ![c] = @ \ {t}]
    /\ draft' = [draft EXCEPT ![c] =
                   IF status[t] = "running" THEN @ \cup {t} ELSE @]
    /\ UNCHANGED <<rowVars, timeVars, hasLeaseColumn, writer, lag, pc, holding>>

ReapCommit(c) ==
    /\ pc[c] = "reaping"
    /\ ids[c] = {}
    /\ TQ!FailOrphans(c, draft[c])
    /\ writer' = NoClient
    /\ draft' = [draft EXCEPT ![c] = {}]
    /\ Goto(c, "idle")
    /\ UNCHANGED <<timeVars, hasLeaseColumn, ids, lag, holding>>

(***************************************************************************)
(* Failure.  Closing the connection rolls an open transaction back.        *)
(***************************************************************************)

\* c's transaction, if it has one, leaves no trace.
Rollback(c, there) ==
    /\ ids' = [ids EXCEPT ![c] = {}]
    /\ draft' = [draft EXCEPT ![c] = {}]
    /\ lag' = IF writer = c THEN [t \in Task |-> 0] ELSE lag
    /\ writer' = IF writer = c THEN NoClient ELSE writer
    /\ Goto(c, there)

\* A statement or BEGIN raises: a full disk, SQLITE_BUSY after busy_timeout.
OperationRaises(c) ==
    /\ "run" \in Interruptible
    /\ pc[c] \in {"scanned"} \cup InTransaction
    /\ Rollback(c, "idle")
    /\ UNCHANGED <<rowVars, timeVars, hasLeaseColumn, holding>>

\* The process is killed; what it was holding it will never finish.
Crash(c) ==
    /\ "run" \in Interruptible
    /\ pc[c] \in {"idle", "scanned"} \cup InTransaction
    /\ Rollback(c, "closed")
    /\ holding' = [holding EXCEPT ![c] = {}]
    /\ UNCHANGED <<rowVars, timeVars, hasLeaseColumn>>

(***************************************************************************)
(* Time.  Only the order of created_at matters, so seconds in which no row *)
(* was created are not counted; a stamp waits at most CommitLag for COMMIT.*)
(***************************************************************************)

Stamped == UNION {draft[c] : c \in {d \in Client : pc[d] = "claiming"}}

Tick ==
    /\ \A t \in Stamped : lag[t] < CommitLag
    /\ TQ!Tick
    /\ lag' = [t \in Task |-> IF t \in Stamped THEN lag[t] + 1 ELSE lag[t]]
    /\ second' = IF \E t \in Task : created[t] = second THEN second + 1 ELSE second
    /\ UNCHANGED <<created, hasLeaseColumn, writer, ids, draft, pc, holding>>

Open(c) == OpenProbe(c) \/ OpenAlter(c) \/ OpenBackfill(c) \/ OpenFails(c)

Next ==
    \/ \E c \in Client : Open(c)
    \/ \E c \in Client, t \in Task : Submit(c, t)
    \/ \E c \in Client, t \in HostDriven : MarkRunning(c, t)
    \/ \E c \in Client, t \in Task, s \in TQ!Terminal : MarkDone(c, t, s)
    \/ \E c \in Client, a \in Agent, n \in 1 .. MaxLimit : ClaimBegin(c, a, n)
    \/ \E c \in Client, t \in Task : ClaimUpdate(c, t) \/ ReapUpdate(c, t)
    \/ \E c \in Client : ClaimCommit(c) \/ ReapScan(c) \/ ReapBegin(c) \/ ReapCommit(c)
    \/ \E c \in Client : OperationRaises(c) \/ Crash(c)
    \/ Tick

Spec == Init /\ [][Next]_vars

(***************************************************************************)
(* Properties.                                                             *)
(***************************************************************************)

\* The multi-step operations implement the atomic ones of TaskQueue: whatever
\* interleaves with them, and wherever they are cut, every visible change of
\* the rows is one whole claim, reap, finish or submit.
Contract == TQ!Spec

\* "two concurrent workers must never claim the same row" (queue.py, TaskQueue).
NoDoubleClaim ==
    \A c, d \in Client : c # d => holding[c] \cap holding[d] = {}

\* claim_pending takes the oldest rows: a row claimed leaves no pending row of
\* its agent behind that was created in an earlier second.
OldestFirst ==
    [][\A t, u \in Task :
         /\ claimant[t] = NoClient /\ claimant'[t] # NoClient
         /\ AgentOf[u] = AgentOf[t] /\ status'[u] = "pending"
         => created[t] <= created'[u]]_vars

\* The lock is held by exactly the client inside a transaction, and nobody
\* else has uncommitted rows: no error path leaves it taken (queue.py, _connect).
LockDiscipline ==
    /\ \A c \in Client : writer = c <=> pc[c] \in InTransaction
    /\ \A c \in Client : draft[c] # {} => pc[c] \in InTransaction

\* "Start their lease now ... one full lease of grace, then the reaper sees
\* them" (queue.py, the migration): once the column is there and nobody is
\* about to start the leases, no running row is without one.
MigrationLeases ==
    hasLeaseColumn /\ (\A c \in Client : pc[c] # "backfill") =>
      \A t \in Task : status[t] = "running" => age[t] # TQ!NoLease
=============================================================================
