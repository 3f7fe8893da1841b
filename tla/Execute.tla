------------------------------ MODULE Execute ------------------------------
(***************************************************************************)
(* execute.py: from a claimed row to its verdict.  A drainer is either a   *)
(* thread of run_worker, which has one row and guards execute_task_row     *)
(* against exceptions (_process_row), or a caller of drain_claimed_tasks,  *)
(* which has a batch and does not.  The rows are those of TaskQueue, and a *)
(* reaper may take them meanwhile.                                         *)
(*                                                                         *)
(* One row:  pick -> route [-> grant] -> scan -> run ... run               *)
(*             [-> ledger] -> log -> record -> pick                        *)
(* with handler for scan and run if the row is not a shell task.           *)
(***************************************************************************)
EXTENDS Integers, FiniteSets

CONSTANTS
    Task, NoTask,
    Drainer, NoDrainer,
    Guarded,       \* the drainers that are threads of run_worker
    Authorizing,   \* the drainers with a network_authorizer
    Handling,      \* the drainers with a handler for every task type
    Lease,
    MaxBatch,      \* most rows drain_claimed_tasks is given at once
    Rows,          \* what the rows may be like: functions from Task to RowKind
    MaxFailures    \* how many mark_done calls, "open" callbacks and forensic writes may
                   \* fail

\* net and localhost are the directives in the text; submitted and envelope say
\* that submitted_by and network_authorization are given; clean that
\* check_kart_task passes the text; blocks counts its commands.
RowKind == [type : {"shell", "goal"}, net : BOOLEAN, localhost : BOOLEAN,
            submitted : BOOLEAN, envelope : BOOLEAN, clean : BOOLEAN, blocks : Nat]

ASSUME ExecuteAssumption ==
    /\ NoTask \notin Task /\ NoDrainer \notin Drainer
    /\ Guarded \subseteq Drainer /\ Authorizing \subseteq Drainer
    /\ Handling \subseteq Drainer
    /\ Lease \in Nat /\ MaxBatch \in Nat /\ MaxFailures \in Nat
    /\ Rows \subseteq [Task -> RowKind]

VARIABLES
    status, age, claimant, verdict, reapedBy,  \* the queue, as in TaskQueue
    failures,
    row,        \* row[t]: what row t is like
    batch,      \* batch[d]: the claimed rows d has not come to yet
    pc,         \* pc[d]
    cur,        \* cur[d]: the row d is on
    todo,       \* todo[d]: how many commands of cur[d] it has not run
    errors,     \* errors[d]: some command of cur[d] failed
    ends,       \* ends[t]: the status execute_task_row returns for t
    why,        \* why[t]: and which return it was
    granted,    \* granted[t]: the authorizer's answer for t
    good, bad,  \* good[t], bad[t]: how many commands of t were run, by their end
    logged,     \* logged[t]: the result names a log directory
    noted       \* noted[t]: the block of t is in the scan ledger

queueVars == <<status, age, claimant, verdict, reapedBy>>
drainVars == <<batch, cur, todo, errors>>
ranVars == <<good, bad>>
traceVars == <<logged, noted>>
vars == <<queueVars, failures, row, pc, drainVars, ends, why, granted, ranVars, traceVars>>

Q == INSTANCE TaskQueue
       WITH Client <- Drainer, NoClient <- NoDrainer, CommitLag <- 0, HostDriven <- {}

Answers == {"True", "truthy", "falsy", "raises"}
Refusal == {"localhost", "denied", "unsupported", "scan", "empty"}

\* The rows, and of every drainer where it is in execute_task_row (execute.py).
TypeOK ==
    /\ Q!TypeOK
    /\ failures \in 0 .. MaxFailures
    /\ row \in Rows
    /\ batch \in [Drainer -> SUBSET Task]
    /\ pc \in [Drainer -> {"idle", "pick", "route", "grant", "scan", "run", "handler",
                           "ledger", "log", "record"}]
    /\ cur \in [Drainer -> Task \cup {NoTask}]
    /\ todo \in [Drainer -> Nat]
    /\ errors \in [Drainer -> BOOLEAN]
    /\ ends \in [Task -> Q!Terminal \cup {"none"}]
    /\ why \in [Task -> Refusal \cup {"none", "ran", "raised", "handler"}]
    /\ granted \in [Task -> Answers \cup {"unasked"}]
    /\ good \in [Task -> Nat] /\ bad \in [Task -> Nat]
    /\ logged \in [Task -> BOOLEAN] /\ noted \in [Task -> BOOLEAN]

Init ==
    /\ status = [t \in Task |-> "pending"]
    /\ age = [t \in Task |-> Q!NoLease]
    /\ claimant = [t \in Task |-> NoDrainer]
    /\ verdict = [t \in Task |-> "none"]
    /\ reapedBy = [t \in Task |-> NoDrainer]
    /\ failures = 0
    /\ row \in Rows
    /\ batch = [d \in Drainer |-> {}]
    /\ pc = [d \in Drainer |-> "idle"]
    /\ cur = [d \in Drainer |-> NoTask]
    /\ todo = [d \in Drainer |-> 0]
    /\ errors = [d \in Drainer |-> FALSE]
    /\ ends = [t \in Task |-> "none"]
    /\ why = [t \in Task |-> "none"]
    /\ granted = [t \in Task |-> "unasked"]
    /\ good = [t \in Task |-> 0] /\ bad = [t \in Task |-> 0]
    /\ logged = [t \in Task |-> FALSE] /\ noted = [t \in Task |-> FALSE]

At(d, here) == pc[d] = here
Goto(d, there) == pc' = [pc EXCEPT ![d] = there]
Row(d) == row[cur[d]]

\* execute_task_row ends with status s; reason says where.
Ends(d, s, reason) ==
    /\ ends' = [ends EXCEPT ![cur[d]] = s]
    /\ why' = [why EXCEPT ![cur[d]] = reason]

\* The early returns, which write no log.
Refuse(d, reason) == Ends(d, "failed", reason) /\ Goto(d, "record")

Continue(d, there) == Goto(d, there) /\ UNCHANGED <<ends, why>>

Failure == failures < MaxFailures /\ failures' = failures + 1

(***************************************************************************)
(* The drain.                                                              *)
(***************************************************************************)

Claim(d) ==
    /\ At(d, "idle")
    /\ \E S \in SUBSET {t \in Task : status[t] = "pending"} :
         /\ Cardinality(S) \in 1 .. (IF d \in Guarded THEN 1 ELSE MaxBatch)
         /\ Q!Claim(d, S, [t \in S |-> 0])
         /\ batch' = [batch EXCEPT ![d] = S]
    /\ Goto(d, "pick")
    /\ UNCHANGED <<failures, row, cur, todo, errors, ends, why, granted, ranVars, traceVars>>

Pick(d) ==
    /\ At(d, "pick")
    /\ \E t \in batch[d] :
         /\ cur' = [cur EXCEPT ![d] = t]
         /\ batch' = [batch EXCEPT ![d] = @ \ {t}]
    /\ Goto(d, "route")
    /\ UNCHANGED <<queueVars, failures, row, todo, errors, ends, why, granted, ranVars,
                   traceVars>>

Return(d) ==
    /\ At(d, "pick") /\ batch[d] = {}
    /\ Goto(d, "idle")
    /\ UNCHANGED <<queueVars, failures, row, drainVars, ends, why, granted, ranVars, traceVars>>

\* d lets an exception through, and drops what it was given.
GiveUp(d) ==
    /\ Continue(d, "idle")
    /\ batch' = [batch EXCEPT ![d] = {}]
    /\ cur' = [cur EXCEPT ![d] = NoTask]

\* on_run_event("open") raises, before the try of _process_row: the thread is
\* done with its row, which stays running.
OpenRaises(d) ==
    /\ d \in Guarded /\ At(d, "route")
    /\ Failure
    /\ GiveUp(d)
    /\ UNCHANGED <<queueVars, row, todo, errors, granted, ranVars, traceVars>>

\* mark_done with the status, or one that raises: reported and left at that.
Record(d) ==
    /\ At(d, "record")
    /\ \/ Q!MarkDone(d, cur[d], ends[cur[d]]) /\ UNCHANGED failures
       \/ Failure /\ UNCHANGED queueVars
    /\ cur' = [cur EXCEPT ![d] = NoTask]
    /\ Goto(d, "pick")
    /\ UNCHANGED <<row, batch, todo, errors, ends, why, granted, ranVars, traceVars>>

(***************************************************************************)
(* execute_task_row.                                                       *)
(***************************************************************************)

\* _fleet_egress_request: full egress, with fleet attribution.
FleetEgress(r) == r.net /\ (r.submitted \/ r.envelope)

\* _network_denial, up to the call of the verifier.
Deniable(d) == d \notin Authorizing \/ ~Row(d).submitted \/ ~Row(d).envelope

\* Mutant: egress is classified before the retired directive is looked for,
\* which parse_task_network does not report next to allow_net.
RouteNetFirst(d) ==
    /\ At(d, "route")
    /\ IF Row(d).type # "shell" THEN Continue(d, "handler")
       ELSE IF FleetEgress(Row(d))
         THEN IF Deniable(d) THEN Refuse(d, "denied") ELSE Continue(d, "grant")
       ELSE IF Row(d).net
         THEN Continue(d, IF d \in Authorizing THEN "grant" ELSE "scan")
       ELSE IF Row(d).localhost THEN Refuse(d, "localhost")
       ELSE Continue(d, "scan")
    /\ UNCHANGED <<queueVars, failures, row, drainVars, granted, ranVars, traceVars>>

\* The task's type, the retired directive and the egress gate, in this order.
Route(d) ==
    /\ At(d, "route")
    /\ IF Row(d).type # "shell" THEN Continue(d, "handler")
       ELSE IF Row(d).localhost THEN Refuse(d, "localhost")
       ELSE IF FleetEgress(Row(d))
         THEN IF Deniable(d) THEN Refuse(d, "denied") ELSE Continue(d, "grant")
       ELSE Continue(d, IF Row(d).net /\ d \in Authorizing THEN "grant" ELSE "scan")
    /\ UNCHANGED <<queueVars, failures, row, drainVars, granted, ranVars, traceVars>>

Asks(d, a) == granted' = [granted EXCEPT ![cur[d]] = a]

\* Mutant: nothing guards execute_task_row in the worker's thread either.
EscapeAlways(d) == GiveUp(d)

\* An exception leaves execute_task_row.  _process_row makes it a failed
\* result; drain_claimed_tasks lets it through, and drops the rest of the batch.
Escape(d) ==
    IF d \in Guarded
      THEN Refuse(d, "raised") /\ UNCHANGED <<batch, cur>>
      ELSE GiveUp(d)

\* The authorizer is asked.  For a fleet row nothing but True is a yes and an
\* exception is a denial; for any other row the answer's truth counts, and an
\* exception is not caught here.
Grant(d) ==
    /\ At(d, "grant")
    /\ \E a \in Answers :
         /\ Asks(d, a)
         /\ \/ /\ a = "True" \/ (a = "truthy" /\ ~FleetEgress(Row(d)))
               /\ Continue(d, "scan") /\ UNCHANGED <<batch, cur>>
            \/ /\ a = "falsy" \/ (a # "True" /\ FleetEgress(Row(d)))
               /\ Refuse(d, "denied") /\ UNCHANGED <<batch, cur>>
            \/ /\ a = "raises" /\ ~FleetEgress(Row(d))
               /\ Escape(d)
    /\ UNCHANGED <<queueVars, failures, row, todo, errors, ranVars, traceVars>>

\* A handler's result, or its exception as one; or there is no handler.
Handler(d) ==
    /\ At(d, "handler")
    /\ IF d \in Handling
         THEN \/ \E s \in Q!Terminal : Ends(d, s, "handler")
              \/ Ends(d, "failed", "raised")
         ELSE Ends(d, "failed", "unsupported")
    /\ Goto(d, "log")
    /\ UNCHANGED <<queueVars, failures, row, drainVars, granted, ranVars, traceVars>>

\* run_shell_task up to the first command: check_kart_task, and the blocks.
Scan(d) ==
    /\ At(d, "scan")
    /\ \/ /\ ~Row(d).clean
          /\ Ends(d, "failed", "scan") /\ Goto(d, "ledger")
       \/ /\ Row(d).clean /\ Row(d).blocks = 0
          /\ Ends(d, "failed", "empty") /\ Goto(d, "log")
       \/ /\ Row(d).clean /\ Row(d).blocks > 0
          /\ Continue(d, "run")
    /\ todo' = [todo EXCEPT ![d] = Row(d).blocks]
    /\ errors' = [errors EXCEPT ![d] = FALSE]
    /\ UNCHANGED <<queueVars, failures, row, batch, cur, granted, ranVars, traceVars>>

Ran(d, ok) ==
    /\ good' = [good EXCEPT ![cur[d]] = @ + (IF ok THEN 1 ELSE 0)]
    /\ bad' = [bad EXCEPT ![cur[d]] = @ + (IF ok THEN 0 ELSE 1)]

\* After the last command the row is completed if none failed.
Proceed(d, failed) ==
    /\ errors' = [errors EXCEPT ![d] = failed]
    /\ todo' = [todo EXCEPT ![d] = @ - 1]
    /\ IF todo[d] > 1 THEN Continue(d, "run")
       ELSE Ends(d, IF failed THEN "failed" ELSE "completed", "ran") /\ Goto(d, "log")

\* Mutant: the status is the last command's.
RunLastCounts(d) ==
    /\ At(d, "run")
    /\ \E ok \in BOOLEAN : Ran(d, ok) /\ Proceed(d, ~ok)
    /\ UNCHANGED <<queueVars, failures, row, batch, cur, granted, traceVars>>

\* One command; the next one is run whether or not it failed.
Run(d) ==
    /\ At(d, "run")
    /\ \E ok \in BOOLEAN : Ran(d, ok) /\ Proceed(d, errors[d] \/ ~ok)
    /\ UNCHANGED <<queueVars, failures, row, batch, cur, granted, traceVars>>

\* run_shell_task raises, in the scan or in a command: the row fails at once.
RunRaises(d) ==
    /\ At(d, "scan") \/ At(d, "run")
    /\ Ends(d, "failed", "raised") /\ Goto(d, "log")
    /\ UNCHANGED <<queueVars, failures, row, drainVars, granted, ranVars, traceVars>>

\* record_block, which swallows every failure.
Ledger(d) ==
    /\ At(d, "ledger")
    /\ \/ noted' = [noted EXCEPT ![cur[d]] = TRUE] /\ UNCHANGED failures
       \/ Failure /\ UNCHANGED noted
    /\ Goto(d, "log")
    /\ UNCHANGED <<queueVars, row, drainVars, ends, why, granted, ranVars, logged>>

\* write_task_log for a row that is not completed; None if it fails.
Log(d) ==
    /\ At(d, "log")
    /\ IF ends[cur[d]] = "completed" THEN UNCHANGED <<logged, failures>>
       ELSE \/ logged' = [logged EXCEPT ![cur[d]] = TRUE] /\ UNCHANGED failures
            \/ Failure /\ UNCHANGED logged
    /\ Goto(d, "record")
    /\ UNCHANGED <<queueVars, row, drainVars, ends, why, granted, ranVars, noted>>

Step(d) ==
    \/ Pick(d) \/ Return(d) \/ Route(d) \/ Grant(d) \/ Handler(d) \/ Scan(d)
    \/ Run(d) \/ Ledger(d) \/ Log(d) \/ Record(d)

(***************************************************************************)
(* The other workers of the queue.                                         *)
(***************************************************************************)

\* Mutant: rows of a claimant that is known to live are passed over.
ReapTheDead(d) ==
    LET S == {t \in Task : Q!Expired(t) /\ claimant[t] = NoDrainer} IN
    /\ S # {}
    /\ Q!Reap(d, S)
    /\ UNCHANGED <<failures, row, pc, drainVars, ends, why, granted, ranVars, traceVars>>

\* reap_stale of a worker of this queue: every row whose lease has run out.
Reap(d) ==
    LET S == {t \in Task : Q!Expired(t)} IN
    /\ S # {}
    /\ Q!Reap(d, S)
    /\ UNCHANGED <<failures, row, pc, drainVars, ends, why, granted, ranVars, traceVars>>

Tick ==
    /\ Q!Tick
    /\ UNCHANGED <<failures, row, pc, drainVars, ends, why, granted, ranVars, traceVars>>

Next ==
    \/ \E d \in Drainer : Claim(d) \/ Step(d) \/ RunRaises(d)
    \/ \E d \in Guarded : OpenRaises(d) \/ Reap(d)
    \/ Tick

Spec == Init /\ [][Next]_vars

\* A drainer goes on (a command ends, at the latest by its timeout), the workers
\* reap (run_worker does; drain_claimed_tasks does not), and time passes.
Fairness ==
    /\ \A d \in Drainer : WF_vars(Step(d))
    /\ \A d \in Guarded : WF_vars(Reap(d))
    /\ WF_vars(Tick)

FairSpec == Spec /\ Fairness

(***************************************************************************)
(* Properties.                                                             *)
(***************************************************************************)

\* Every change of the rows is one the queue's contract allows.
Contract == Q!Spec

\* No command of a row is run unless every gate of execute_task_row and of
\* run_shell_task passed it: the retired directive alone or beside allow_net
\* (finding F3 in execute.py), the scan, and for egress the authorizer, whose
\* answer must be True for a row with fleet attribution.  For a row with none,
\* execute_task_row takes any answer that is true (see OnlyTrueAuthorizes).
OnlyPassedRowsRun ==
    \A t \in Task : good[t] + bad[t] > 0 =>
      /\ row[t].type = "shell" /\ row[t].clean /\ ~row[t].localhost
      /\ FleetEgress(row[t]) =>
           row[t].submitted /\ row[t].envelope /\ granted[t] = "True"
      /\ row[t].net /\ claimant[t] \in Authorizing => granted[t] \in {"True", "truthy"}

\* "Only the literal bool True authorizes egress" (execute.py, NetworkAuthorizer):
\* where there is an authorizer, no command with egress runs on another answer.
\* The code takes any true answer for a row without fleet attribution.
OnlyTrueAuthorizes ==
    \A t \in Task :
      good[t] + bad[t] > 0 /\ row[t].net /\ claimant[t] \in Authorizing
        => granted[t] = "True"

\* The verdict is what happened: completed means that every command of the row
\* ran and succeeded, a failure of one is not covered up by the next, and a
\* refused row ran nothing.
VerdictIsWhatHappened ==
    \A t \in Task :
      /\ verdict[t] # "none" => verdict[t] = ends[t]
      /\ why[t] = "ran" => /\ good[t] + bad[t] = row[t].blocks
                           /\ ends[t] = "completed" <=> bad[t] = 0
      /\ why[t] \in Refusal => ends[t] = "failed" /\ good[t] + bad[t] = 0

\* Nothing of execute_task_row has been done for row t.
Untouched(t) == granted[t] = "unasked" /\ good[t] + bad[t] = 0

\* A row that d was given and that is still running: d has it, or has a result
\* of it that could not be recorded, or did not begin with it.
Answered(d) ==
    \A t \in Task :
      claimant[t] = d /\ status[t] = "running" =>
        t \in batch[d] \/ t = cur[d] \/ ends[t] # "none" \/ Untouched(t)

\* "defense in depth" (worker.py, _process_row): whatever the authorizer, a
\* handler or a command raises, a thread of the worker comes to a result for the
\* row it was given.  It leaves a row running only if mark_done raises, or the
\* "open" callback does, before the row is begun.
WorkersAnswer == \A d \in Guarded : Answered(d)

\* A claimed row ends, although its result may be dropped.
RowsEnd == \A t \in Task : status[t] = "running" ~> status[t] \in Q!Terminal
=============================================================================
