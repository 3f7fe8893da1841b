----------------------------- MODULE RunWorker -----------------------------
(***************************************************************************)
(* run_worker of worker.py: several worker processes over one queue.  A    *)
(* process has a polling loop and a pool of threads that share in_flight;  *)
(* the queue's operations are the atomic ones of TaskQueue.                *)
(*                                                                         *)
(* The loop:  beat -> scan [-> reap] -> free [-> claim -> dispatch] -> beat*)
(* with check -> drain -> down for once=True.  A thread of the pool:       *)
(* queued -> exec -> leave -> none.                                        *)
(***************************************************************************)
EXTENDS Integers, FiniteSets

CONSTANTS
    Task,
    Proc, NoProc,  \* worker processes
    Lease,         \* KART_STALE_SECONDS
    Slots,         \* Slots[w]: max_workers of process w
    Ceiling,       \* Ceiling[w]: kart_timeout of w's lane and context
    Blocks,        \* Blocks[t]: shell blocks of t; each may run for the ceiling
    Overhead,      \* most time from claim to mark_done spent outside the blocks
    Timely,        \* whether processes keep to Ceiling and Overhead
    Once,          \* the processes started with once=True
    Preloaded,     \* rows pending from the start
    Agent,         \* agent names
    AgentOf,       \* AgentOf[t]: agent of the row
    WorkerAgent,   \* WorkerAgent[w]: run_worker's agent argument
    ReapAgent,     \* the agent reap_stale() defaults to
    Faults,        \* what may go wrong: "queue", "open", "heartbeat", "crash"
    MaxFaults      \* how often, in all

ASSUME RunWorkerAssumption ==
    /\ Lease \in Nat /\ Overhead \in Nat /\ MaxFaults \in Nat
    /\ NoProc \notin Proc /\ Once \subseteq Proc /\ Preloaded \subseteq Task
    /\ Slots \in [Proc -> Nat \ {0}] /\ Ceiling \in [Proc -> Nat]
    /\ Blocks \in [Task -> Nat] /\ Timely \in BOOLEAN /\ IsFiniteSet(Task)
    /\ AgentOf \in [Task -> Agent] /\ WorkerAgent \in [Proc -> Agent]
    /\ ReapAgent \in Agent

VARIABLES
    status, age, claimant, verdict, reapedBy,  \* the queue, as in TaskQueue
    queueUp,      \* FALSE while every queue operation raises
    faults,       \* how many faults have happened
    pc,           \* pc[w]: where w's loop is; "down" when no process runs
    lastClaimOk,  \* lastClaimOk[w]: last_claim_ok
    tickOk,       \* tickOk[w]: tick_ok of the last heartbeat published
    candidates,   \* candidates[w]: what reap_stale's scan returned
    free,         \* free[w]: slots found free under the lock, 0 once used
    todo,         \* todo[w]: rows claimed and not yet handed to the pool
    inFlight,     \* inFlight[w]: in_flight
    stage,        \* stage[w][t]: where the pool's thread is with t
    runs,         \* runs[t]: how often t was executed (counted to 2)
    lost          \* rows abandoned before mark_done took effect

queueVars == <<status, age, claimant, verdict, reapedBy>>
loopVars == <<lastClaimOk, tickOk, candidates, free, todo>>
poolVars == <<inFlight, stage, runs>>
envVars == <<queueUp, faults>>
vars == <<queueVars, envVars, pc, loopVars, poolVars, lost>>

Q == INSTANCE TaskQueue
       WITH Client <- Proc, NoClient <- NoProc, CommitLag <- 0, HostDriven <- {}

LoopAt == {"down", "beat", "scan", "reap", "free", "claim", "dispatch", "check",
           "drain"}
Stage == {"none", "queued", "exec", "leave"}

\* The rows, and of every process its loop, its memory and what its pool's
\* threads are at (worker.py).
TypeOK ==
    /\ Q!TypeOK
    /\ queueUp \in BOOLEAN
    /\ faults \in 0 .. MaxFaults
    /\ pc \in [Proc -> LoopAt]
    /\ lastClaimOk \in [Proc -> BOOLEAN]
    /\ tickOk \in [Proc -> BOOLEAN]
    /\ candidates \in [Proc -> SUBSET Task]
    /\ free \in [Proc -> Nat]
    /\ todo \in [Proc -> SUBSET Task]
    /\ inFlight \in [Proc -> SUBSET Task]
    /\ stage \in [Proc -> [Task -> Stage]]
    /\ runs \in [Task -> 0 .. 2]
    /\ lost \in SUBSET Task

Init ==
    /\ status = [t \in Task |-> IF t \in Preloaded THEN "pending" ELSE "absent"]
    /\ age = [t \in Task |-> Q!NoLease]
    /\ claimant = [t \in Task |-> NoProc]
    /\ verdict = [t \in Task |-> "none"]
    /\ reapedBy = [t \in Task |-> NoProc]
    /\ queueUp = TRUE
    /\ faults = 0
    /\ pc = [w \in Proc |-> "down"]
    /\ lastClaimOk = [w \in Proc |-> TRUE]
    /\ tickOk = [w \in Proc |-> TRUE]
    /\ candidates = [w \in Proc |-> {}]
    /\ free = [w \in Proc |-> 0]
    /\ todo = [w \in Proc |-> {}]
    /\ inFlight = [w \in Proc |-> {}]
    /\ stage = [w \in Proc |-> [t \in Task |-> "none"]]
    /\ runs = [t \in Task |-> 0]
    /\ lost = {}

Goto(w, there) == pc' = [pc EXCEPT ![w] = there]

Fault(kind) ==
    /\ kind \in Faults
    /\ faults < MaxFaults
    /\ faults' = faults + 1

(***************************************************************************)
(* The loop.                                                               *)
(***************************************************************************)

\* A supervisor (or cron, for once=True) starts the process, with the local
\* variables as Init, Drain and Crash left them: last_claim_ok is TRUE.
Start(w) ==
    /\ pc[w] = "down"
    /\ Goto(w, "beat")
    /\ UNCHANGED <<queueVars, envVars, loopVars, poolVars, lost>>

\* on_heartbeat(tick_ok=last_claim_ok)
Beat(w) ==
    /\ pc[w] = "beat"
    /\ tickOk' = [tickOk EXCEPT ![w] = lastClaimOk[w]]
    /\ Goto(w, "scan")
    /\ UNCHANGED <<queueVars, envVars, lastClaimOk, candidates, free, todo, poolVars,
                   lost>>

\* An on_heartbeat that raises leaves the loop; the pool is drained.
BeatRaises(w) ==
    /\ pc[w] = "beat"
    /\ Fault("heartbeat")
    /\ Goto(w, "drain")
    /\ UNCHANGED <<queueVars, queueUp, loopVars, poolVars, lost>>

\* stale_running(): strictly older than the lease, of the default agent.
Stale == {t \in Task : AgentOf[t] = ReapAgent /\ Q!Expired(t)}

\* The first half of reap_stale; an exception is logged and the loop goes on.
ReapScan(w) ==
    /\ pc[w] = "scan"
    /\ IF queueUp /\ Stale # {}
         THEN /\ candidates' = [candidates EXCEPT ![w] = Stale]
              /\ Goto(w, "reap")
         ELSE /\ UNCHANGED candidates
              /\ Goto(w, "free")
    /\ UNCHANGED <<queueVars, envVars, lastClaimOk, tickOk, free, todo, poolVars, lost>>

\* Mutant: stale rows go back to 'pending' instead of failing.
ReapRequeues(w) ==
    /\ pc[w] = "reap"
    /\ status' = [t \in Task |-> IF t \in candidates[w] /\ status[t] = "running"
                                   THEN "pending" ELSE status[t]]
    /\ candidates' = [candidates EXCEPT ![w] = {}]
    /\ Goto(w, "free")
    /\ UNCHANGED <<age, claimant, verdict, reapedBy>>
    /\ UNCHANGED <<envVars, lastClaimOk, tickOk, free, todo, poolVars, lost>>

\* Mutant: the UPDATE trusts the scan.
ReapUnguarded(w) ==
    /\ pc[w] = "reap"
    /\ Q!FailOrphans(w, candidates[w])
    /\ candidates' = [candidates EXCEPT ![w] = {}]
    /\ Goto(w, "free")
    /\ UNCHANGED <<envVars, lastClaimOk, tickOk, free, todo, poolVars, lost>>

\* Mutant: the UPDATE kept the status guard of claim_pending's.
ReapWrongGuard(w) ==
    /\ pc[w] = "reap"
    /\ Q!FailOrphans(w, {t \in candidates[w] : status[t] = "pending"})
    /\ candidates' = [candidates EXCEPT ![w] = {}]
    /\ Goto(w, "free")
    /\ UNCHANGED <<envVars, lastClaimOk, tickOk, free, todo, poolVars, lost>>

\* The second half: fail the candidates that are still 'running'.
ReapUpdate(w) ==
    /\ pc[w] = "reap"
    /\ IF queueUp
         THEN Q!FailOrphans(w, {t \in candidates[w] : status[t] = "running"})
         ELSE UNCHANGED queueVars
    /\ candidates' = [candidates EXCEPT ![w] = {}]
    /\ Goto(w, "free")
    /\ UNCHANGED <<envVars, lastClaimOk, tickOk, free, todo, poolVars, lost>>

\* Mutant: every poll claims up to max_workers.
ReadFreeAll(w) ==
    /\ pc[w] = "free"
    /\ free' = [free EXCEPT ![w] = Slots[w]]
    /\ Goto(w, "claim")
    /\ UNCHANGED <<queueVars, envVars, lastClaimOk, tickOk, candidates, todo, poolVars,
                   lost>>

\* free = max_workers - len(in_flight), read under the lock and used after it.
\* With no free slot no claim is attempted and last_claim_ok keeps its value.
ReadFree(w) ==
    LET n == Slots[w] - Cardinality(inFlight[w]) IN
    /\ pc[w] = "free"
    /\ free' = [free EXCEPT ![w] = IF n > 0 THEN n ELSE 0]
    /\ Goto(w, IF n > 0 THEN "claim" ELSE "check")
    /\ UNCHANGED <<queueVars, envVars, lastClaimOk, tickOk, candidates, todo, poolVars,
                   lost>>

PendingFor(w) == {t \in Task : status[t] = "pending" /\ AgentOf[t] = WorkerAgent[w]}

Smaller(m, n) == IF m < n THEN m ELSE n

\* claim_pending(agent, free) returns.
ClaimRows(w) ==
    /\ pc[w] = "claim"
    /\ queueUp
    /\ \E S \in SUBSET PendingFor(w) :
         /\ Cardinality(S) = Smaller(free[w], Cardinality(PendingFor(w)))
         /\ Q!Claim(w, S, [t \in S |-> 0])
         /\ todo' = [todo EXCEPT ![w] = S]
         /\ Goto(w, IF S = {} THEN "check" ELSE "dispatch")
    /\ lastClaimOk' = [lastClaimOk EXCEPT ![w] = TRUE]
    /\ free' = [free EXCEPT ![w] = 0]
    /\ UNCHANGED <<envVars, tickOk, candidates, poolVars, lost>>

\* Mutant: the failure is logged and forgotten.
ClaimForgets(w) ==
    /\ pc[w] = "claim"
    /\ ~queueUp
    /\ free' = [free EXCEPT ![w] = 0]
    /\ Goto(w, "check")
    /\ UNCHANGED <<queueVars, envVars, lastClaimOk, tickOk, candidates, todo, poolVars,
                   lost>>

\* claim_pending raises: logged, remembered in last_claim_ok, never fatal.
ClaimRaises(w) ==
    /\ pc[w] = "claim"
    /\ ~queueUp
    /\ lastClaimOk' = [lastClaimOk EXCEPT ![w] = FALSE]
    /\ free' = [free EXCEPT ![w] = 0]
    /\ Goto(w, "check")
    /\ UNCHANGED <<queueVars, envVars, tickOk, candidates, todo, poolVars, lost>>

\* Mutant: only one of the rows claimed is submitted.
DispatchOne(w) ==
    /\ pc[w] = "dispatch"
    /\ \E t \in todo[w] :
         /\ todo' = [todo EXCEPT ![w] = {}]
         /\ inFlight' = [inFlight EXCEPT ![w] = @ \cup {t}]
         /\ stage' = [stage EXCEPT ![w][t] = "queued"]
         /\ Goto(w, "beat")
    /\ UNCHANGED <<queueVars, envVars, lastClaimOk, tickOk, candidates, free, runs, lost>>

\* in_flight.add(task_id); pool.submit(_run, row)
Dispatch(w) ==
    /\ pc[w] = "dispatch"
    /\ \E t \in todo[w] :
         /\ todo' = [todo EXCEPT ![w] = @ \ {t}]
         /\ inFlight' = [inFlight EXCEPT ![w] = @ \cup {t}]
         /\ stage' = [stage EXCEPT ![w][t] = "queued"]
         /\ Goto(w, IF todo[w] = {t} THEN "beat" ELSE "dispatch")
    /\ UNCHANGED <<queueVars, envVars, lastClaimOk, tickOk, candidates, free, runs, lost>>

\* Nothing was claimed: once=True is over when nothing is in flight either.
Check(w) ==
    /\ pc[w] = "check"
    /\ Goto(w, IF w \in Once /\ inFlight[w] = {} THEN "drain" ELSE "beat")
    /\ UNCHANGED <<queueVars, envVars, loopVars, poolVars, lost>>

\* pool.shutdown(wait=True), and run_worker returns or raises.
Drain(w) ==
    /\ pc[w] = "drain"
    /\ \A t \in Task : stage[w][t] = "none"
    /\ Goto(w, "down")
    /\ lastClaimOk' = [lastClaimOk EXCEPT ![w] = TRUE]
    /\ UNCHANGED <<queueVars, envVars, tickOk, candidates, free, todo, poolVars, lost>>

Loop(w) ==
    \/ Beat(w) \/ ReapScan(w) \/ ReapUpdate(w) \/ ReadFree(w)
    \/ ClaimRows(w) \/ ClaimRaises(w) \/ Dispatch(w) \/ Check(w) \/ Drain(w)

(***************************************************************************)
(* The pool: _run and _process_row.                                        *)
(***************************************************************************)

Counted(n) == Smaller(n + 1, 2)

\* on_run_event("open"), and the execution starts.
OpenEvent(w, t) ==
    /\ stage[w][t] = "queued"
    /\ stage' = [stage EXCEPT ![w][t] = "exec"]
    /\ runs' = [runs EXCEPT ![t] = Counted(@)]
    /\ UNCHANGED <<queueVars, envVars, pc, loopVars, inFlight, lost>>

\* on_run_event("open") is outside the try: if it raises, nothing is executed
\* and mark_done is never called.
OpenRaises(w, t) ==
    /\ stage[w][t] = "queued"
    /\ Fault("open")
    /\ stage' = [stage EXCEPT ![w][t] = "leave"]
    /\ lost' = lost \cup {t}
    /\ UNCHANGED <<queueVars, queueUp, pc, loopVars, inFlight, runs>>

\* Mutant: a mark_done that was answered is sent again.
FinishRetries(w, t) ==
    /\ stage[w][t] = "exec"
    /\ queueUp
    /\ \E s \in Q!Terminal : Q!MarkDone(w, t, s)
    /\ stage' = [stage EXCEPT ![w][t] = IF verdict[t] = "none" THEN "exec" ELSE "leave"]
    /\ UNCHANGED <<envVars, pc, loopVars, inFlight, runs, lost>>

\* The execution ends, by itself, by its timeout or by an exception, and its
\* outcome is recorded.
Finish(w, t) ==
    /\ stage[w][t] = "exec"
    /\ queueUp
    /\ \E s \in Q!Terminal : Q!MarkDone(w, t, s)
    /\ stage' = [stage EXCEPT ![w][t] = "leave"]
    /\ UNCHANGED <<envVars, pc, loopVars, inFlight, runs, lost>>

\* mark_done raises: logged, and the row stays 'running'.
FinishUnrecorded(w, t) ==
    /\ stage[w][t] = "exec"
    /\ ~queueUp
    /\ stage' = [stage EXCEPT ![w][t] = "leave"]
    /\ lost' = lost \cup {t}
    /\ UNCHANGED <<queueVars, envVars, pc, loopVars, inFlight, runs>>

\* Mutant: in_flight.discard is not in a finally, and the close event raises.
LeaveLeaks(w, t) ==
    /\ stage[w][t] = "leave"
    /\ stage' = [stage EXCEPT ![w][t] = "none"]
    /\ UNCHANGED <<queueVars, envVars, pc, loopVars, inFlight, runs, lost>>

\* on_run_event("close"), raising or not, and _run's finally.
Leave(w, t) ==
    /\ stage[w][t] = "leave"
    /\ stage' = [stage EXCEPT ![w][t] = "none"]
    /\ inFlight' = [inFlight EXCEPT ![w] = @ \ {t}]
    /\ UNCHANGED <<queueVars, envVars, pc, loopVars, runs, lost>>

Thread(w, t) ==
    OpenEvent(w, t) \/ Finish(w, t) \/ FinishUnrecorded(w, t) \/ Leave(w, t)

(***************************************************************************)
(* The environment.                                                        *)
(***************************************************************************)

Submit(t) ==
    /\ queueUp
    /\ Q!Submit(t)
    /\ UNCHANGED <<envVars, pc, loopVars, poolVars, lost>>

QueueFails ==
    /\ queueUp
    /\ Fault("queue")
    /\ queueUp' = FALSE
    /\ UNCHANGED <<queueVars, pc, loopVars, poolVars, lost>>

QueueRecovers ==
    /\ ~queueUp
    /\ queueUp' = TRUE
    /\ UNCHANGED <<queueVars, faults, pc, loopVars, poolVars, lost>>

\* The rows process w has claimed and not finished.
Working(w) == todo[w] \cup {t \in Task : stage[w][t] \in {"queued", "exec"}}

\* The process is killed.  Its memory is gone; its rows stay as they are.
Crash(w) ==
    /\ pc[w] # "down"
    /\ Fault("crash")
    /\ Goto(w, "down")
    /\ lost' = lost \cup Working(w)
    /\ candidates' = [candidates EXCEPT ![w] = {}]
    /\ todo' = [todo EXCEPT ![w] = {}]
    /\ inFlight' = [inFlight EXCEPT ![w] = {}]
    /\ stage' = [stage EXCEPT ![w] = [t \in Task |-> "none"]]
    /\ free' = [free EXCEPT ![w] = 0]
    /\ lastClaimOk' = [lastClaimOk EXCEPT ![w] = TRUE]
    /\ UNCHANGED <<queueVars, queueUp, tickOk, runs>>

\* The longest a row may have been claimed: the overhead until it executes,
\* and then run_shell_task gives every block the full ceiling.
Budget(w, t) ==
    (IF stage[w][t] = "exec" THEN Ceiling[w] * Blocks[t] ELSE 0) + Overhead

\* reaper_alignment_warning() returns None.  It looks at the ceilings, not at
\* how many blocks a task has.
Aligned == \A w \in Proc : Ceiling[w] + Overhead <= Lease

OnTime == \A w \in Proc : \A t \in Working(w) : age[t] < Budget(w, t)

Tick ==
    /\ Timely => OnTime
    /\ Q!Tick
    /\ UNCHANGED <<envVars, pc, loopVars, poolVars, lost>>

Next ==
    \/ \E w \in Proc : Start(w) \/ Loop(w) \/ BeatRaises(w) \/ Crash(w)
    \/ \E w \in Proc, t \in Task : Thread(w, t) \/ OpenRaises(w, t)
    \/ \E t \in Task : Submit(t)
    \/ QueueFails
    \/ QueueRecovers
    \/ Tick

Spec == Init /\ [][Next]_vars

\* The loop and the threads of a process that is up keep running, time passes,
\* and a process that ended is started again.  Nothing makes the queue recover.
Fairness ==
    /\ \A w \in Proc : WF_vars(Loop(w)) /\ WF_vars(Start(w))
    /\ \A w \in Proc, t \in Task : WF_vars(Thread(w, t))
    /\ WF_vars(Tick)

FairSpec == Spec /\ Fairness

(***************************************************************************)
(* Properties.                                                             *)
(***************************************************************************)

\* Every change of the rows is one the queue's contract allows: the worker
\* never reaps a live lease, claims twice or finishes another's row.
Contract == Q!Spec

\* A task is executed at most once, whatever crashes, times out or is reaped.
RunAtMostOnce == \A t \in Task : runs[t] <= 1

\* A process never holds more rows than it has threads, although the number of
\* free slots is used after the lock it was read under is released.
SlotsRespected ==
    \A w \in Proc : Cardinality(inFlight[w] \cup todo[w]) <= Slots[w]

\* As long as nothing failed, a running row is with the process that claimed it:
\* it waits to be handed to the pool, or a thread is at it.  A row that slips
\* out of the loop, or that another worker's reap, restart or late finish sets
\* back, would sit in 'running' until its lease ends.
RunningIsHeld ==
    faults = 0 => \A t \in Task : status[t] = "running" =>
      claimant[t] # NoProc /\ t \in Working(claimant[t])

\* A terminal row changes only when the finish of its own claimant arrives
\* after the reaper gave the claim up, and then only once.
OnlyALateFinishChanges ==
    [][\A t \in Task :
         status[t] \in Q!Terminal /\ status'[t] # status[t] =>
           /\ reapedBy[t] # NoProc
           /\ verdict[t] = "none" /\ verdict'[t] = status'[t]]_vars

\* "every lane's task should die by its own timeout, never by the reaper"
\* (lanes.py): a reaped row is one its process had already abandoned.
NoLiveReap == \A t \in Task : reapedBy[t] # NoProc => t \in lost

\* "Drain queue until ... it is empty" (worker.py, run_worker): a once=True
\* worker that leaves its loop leaves no row of its agent pending.
OnceDrains ==
    \A w \in Once : pc[w] = "drain" => PendingFor(w) = {}

\* A once=True worker returns.
OnceReturns == \A w \in Once : pc[w] = "beat" ~> pc[w] = "down"

\* If the queue stays up in the end, every submitted task ends, and an
\* abandoned row does not stay 'running'.
EventuallyTerminal ==
    <>[]queueUp =>
      \A t \in Task : status[t] \in {"pending", "running"} ~> status[t] \in Q!Terminal

\* The heartbeat says whether the worker can take work: while a process stays
\* up, a queue that stays down is reported in the end, and so is one that
\* stays up again (worker.py, the 2026-09-05 restart).
HeartbeatTellsTheTruth ==
    \A w \in Proc :
      /\ <>[](~queueUp /\ pc[w] # "down") => <>[]~tickOk[w]
      /\ <>[](queueUp /\ pc[w] # "down") => <>[]tickOk[w]
=============================================================================
