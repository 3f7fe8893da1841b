----------------------------- MODULE TaskQueue -----------------------------
(***************************************************************************)
(* What a task-queue backend promises to the worker loop: the abstract     *)
(* class TaskQueue of queue.py and its docstring.  Every operation is one  *)
(* atomic step.  SqliteTaskQueue implements this module; RunWorker uses it. *)
(*                                                                         *)
(* A claim is a lease: age[t] is the time since the row was stamped        *)
(* 'running'.  Only "is the age above the lease" is ever asked, so the age *)
(* saturates at Lease + 1, and time needs no bound.                        *)
(***************************************************************************)
EXTENDS Integers, FiniteSets

CONSTANTS
    Task,        \* task ids
    Client,      \* the processes that use the queue
    NoClient,    \* nobody
    Lease,       \* KART_STALE_SECONDS, in units of the clock's tick
    CommitLag,   \* most ticks between stamping a claim and its commit
    HostDriven   \* rows whose host calls mark_running (the worker never does)

\* The modules that instantiate this one say what the constants may be
\* (SqliteAssumption).

NoLease == -1                      \* claimed_at IS NULL
Terminal == {"completed", "failed"}
Status == {"absent", "pending", "running"} \cup Terminal
Age == {NoLease} \cup 0 .. (Lease + 1)

VARIABLES
    status,     \* status[t]: the row's status, "absent" before it is submitted
    age,        \* age[t]: ticks since claimed_at while running, NoLease otherwise
                \* (claimed_at outlives the run in the table, but only running
                \* rows are ever asked for it, and a new run stamps it again)
    claimant,   \* claimant[t]: who claim_pending returned the row to
    verdict,    \* verdict[t]: what the last mark_done recorded, or "none"
    reapedBy    \* reapedBy[t]: the client whose reap_stale reported the row

vars == <<status, age, claimant, verdict, reapedBy>>

\* A row has one of the statuses of QueueStats (queue.py), a lease that has an
\* age or none, and a history.
TypeOK ==
    /\ status \in [Task -> Status]
    /\ age \in [Task -> Age]
    /\ claimant \in [Task -> Client \cup {NoClient}]
    /\ verdict \in [Task -> Terminal \cup {"none"}]
    /\ reapedBy \in [Task -> Client \cup {NoClient}]

\* A queue may be opened on rows an earlier version left 'running', with no
\* lease and nobody to finish them.
Init ==
    /\ status \in [Task -> {"absent", "pending", "running"}]
    /\ age = [t \in Task |-> NoLease]
    /\ claimant = [t \in Task |-> NoClient]
    /\ verdict = [t \in Task |-> "none"]
    /\ reapedBy = [t \in Task |-> NoClient]

Expired(t) == status[t] = "running" /\ age[t] > Lease

Submit(t) ==
    /\ status[t] = "absent"
    /\ status' = [status EXCEPT ![t] = "pending"]
    /\ UNCHANGED <<age, claimant, verdict, reapedBy>>

\* The rows of S go to client c; lag[t] is how old t's stamp already is.
HandOut(c, S, lag) ==
    /\ status' = [t \in Task |-> IF t \in S THEN "running" ELSE status[t]]
    /\ age' = [t \in Task |-> IF t \in S THEN lag[t] ELSE age[t]]
    /\ claimant' = [t \in Task |-> IF t \in S THEN c ELSE claimant[t]]
    /\ UNCHANGED <<verdict, reapedBy>>

\* claim_pending takes pending rows only, all of S at once.
Claim(c, S, lag) ==
    /\ \A t \in S : status[t] = "pending"
    /\ HandOut(c, S, lag)

\* Idempotent: a row already running keeps its lease.
MarkRunning(t) ==
    /\ status[t] \notin {"absent", "running"}
    /\ status' = [status EXCEPT ![t] = "running"]
    /\ age' = [age EXCEPT ![t] = 0]
    /\ verdict' = [verdict EXCEPT ![t] = "none"]
    /\ UNCHANGED <<claimant, reapedBy>>

\* Only the client that claimed a row calls mark_done, and the row takes the
\* verdict whatever its status: one that arrives after a reap replaces it.
MarkDone(c, t, s) ==
    /\ claimant[t] = c
    /\ status' = [status EXCEPT ![t] = s]
    /\ age' = [age EXCEPT ![t] = NoLease]
    /\ verdict' = [verdict EXCEPT ![t] = s]
    /\ UNCHANGED <<claimant, reapedBy>>

\* The rows of S fail as orphaned_running_reaped, reported to client c.
FailOrphans(c, S) ==
    /\ status' = [t \in Task |-> IF t \in S THEN "failed" ELSE status[t]]
    /\ age' = [t \in Task |-> IF t \in S THEN NoLease ELSE age[t]]
    /\ reapedBy' = [t \in Task |-> IF t \in S THEN c ELSE reapedBy[t]]
    /\ UNCHANGED <<claimant, verdict>>

\* reap_stale fails claims that outlived their lease and reports them.  A row
\* that mark_running re-leased after the reaper looked may go with them.
Reap(c, S) ==
    /\ \A t \in S : status[t] = "running" /\ (Expired(t) \/ t \in HostDriven)
    /\ FailOrphans(c, S)

\* Rows left by a version that kept no claim time get one full lease.
GrantLeases ==
    /\ age' = [t \in Task |->
                 IF status[t] = "running" /\ age[t] = NoLease THEN 0 ELSE age[t]]
    /\ UNCHANGED <<status, claimant, verdict, reapedBy>>

Older(a) == IF a = NoLease \/ a > Lease THEN a ELSE a + 1

Tick ==
    /\ age' = [t \in Task |->
                 IF status[t] = "running" THEN Older(age[t]) ELSE age[t]]
    /\ UNCHANGED <<status, claimant, verdict, reapedBy>>

Next ==
    \/ \E t \in Task : Submit(t)
    \/ \E c \in Client, S \in SUBSET Task :
         \E lag \in [S -> 0 .. CommitLag] : Claim(c, S, lag)
    \/ \E t \in HostDriven : MarkRunning(t)
    \/ \E c \in Client, t \in Task, s \in Terminal : MarkDone(c, t, s)
    \/ \E c \in Client, S \in SUBSET Task : Reap(c, S)
    \/ GrantLeases
    \/ Tick

Spec == Init /\ [][Next]_vars

(***************************************************************************)
(* What the contract guarantees.                                           *)
(***************************************************************************)

\* What the claimant recorded with mark_done stands: no reaper that looked
\* at the row before it finished (queue.py, reap_stale) overwrites it.
VerdictStands ==
    \A t \in Task : verdict[t] # "none" => status[t] = verdict[t]

\* A row is handed out by claim_pending at most once in its life, even after
\* a crash, a reap or a late finish: nothing puts it back in 'pending'.
ClaimedOnce ==
    [][\A t \in Task : claimant[t] # NoClient => claimant'[t] = claimant[t]]_vars

\* One lost claim is reported by one reaper, once: the ids reap_stale returns
\* to two workers never overlap, and a reaped row
\* does not run again unless its host runs it.
ReapedOnce ==
    [][\A t \in Task \ HostDriven :
         reapedBy[t] # NoClient =>
           reapedBy'[t] = reapedBy[t] /\ status'[t] \in Terminal]_vars
=============================================================================
