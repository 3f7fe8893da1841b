------------------------------ MODULE RunShell ------------------------------
(***************************************************************************)
(* run_shell of sandbox.py and the cgroup leaf it runs a task in: several  *)
(* worker processes, each with its pool, share one cgroup parent.  A task  *)
(* is named by its leaf, whose uuid is never used again.                   *)
(*                                                                         *)
(* A thread:  made -> ready -> wait [-> reap [-> drain]] -> kill -> rmdir  *)
(*            -> done, or "lost" when its process is killed.  Without a    *)
(*            cgroup parent there is no leaf, and no made, kill and rmdir. *)
(* A starting worker:  list -> look [-> kill -> rmdir -> look] -> serving. *)
(*                                                                         *)
(* What a task is made of, by where SIGKILL to its group reaches it and    *)
(* whether it keeps the output pipes open: "main" is the child run_shell   *)
(* started, "group" a background job, "quiet" one with its output          *)
(* redirected, "escapee" and "daemon" the same two after setsid.           *)
(***************************************************************************)
EXTENDS Integers, FiniteSets

CONSTANTS
    Worker, NoWorker,
    Namespace,     \* pid namespaces
    Pid,
    Leaf, NoLeaf,
    Kinds,         \* the descendants a task may have
    ParentStates,  \* what cgroup_parent_state() may be at first
    Faults,        \* "crash", "mkdir", "limits", "build", "popen", "wait", "parent", "slow"
    MaxFaults

ASSUME RunShellAssumption ==
    /\ NoWorker \notin Worker /\ NoLeaf \notin Leaf
    /\ Kinds \subseteq {"group", "quiet", "escapee", "daemon"}
    /\ ParentStates \subseteq {"usable", "unusable", "absent"}
    /\ MaxFaults \in Nat

VARIABLES
    parent,   \* "absent": no cgroup parent is configured
    faults,
    phase,    \* phase[w]: where worker w is in its start, or "serving"
    id,       \* id[w]: the pid of process w, and the namespace it means something in
    toSweep,  \* toSweep[w]: leaves it listed and has not looked at
    victim,   \* victim[w]: the leaf it is removing
    owner,    \* owner[l]: who made leaf l
    name,     \* name[l]: the namespace and pid in its name, its owner's
    orphan,   \* orphan[l]: the process that made it is dead
    dir,      \* dir[l]: the directory exists
    limited,  \* limited[l]: memory.max and pids.max are written
    stage,    \* stage[l]: where l's run_shell is
    outcome,  \* outcome[l]: what run_shell returns
    joined,   \* joined[l]: the child has exec'd the task, in the leaf if there is one
    tree,     \* tree[l]: which processes of the task live
    doomed    \* doomed[l]: those of them that were sent SIGKILL

sweepVars == <<phase, id, toSweep, victim>>
leafVars == <<owner, name, orphan, dir, limited>>
taskVars == <<stage, outcome, joined, tree, doomed>>
envVars == <<parent, faults>>
vars == <<envVars, sweepVars, leafVars, taskVars>>

Kind == {"main", "group", "quiet", "escapee", "daemon"}
InGroup == {"main", "group", "quiet"}
HoldsPipe == {"main", "group", "escapee"}
Id == [ns : Namespace, pid : Pid]
NoId == [ns |-> "none", pid |-> "none"]

\* What the workers, the leaves and the processes of a task may be like
\* (sandbox.py).
TypeOK ==
    /\ parent \in {"usable", "unusable", "absent"}
    /\ faults \in 0 .. MaxFaults
    /\ phase \in [Worker -> {"down", "list", "look", "kill", "rmdir", "serving"}]
    /\ id \in [Worker -> Id \cup {NoId}]
    /\ toSweep \in [Worker -> SUBSET Leaf]
    /\ victim \in [Worker -> Leaf \cup {NoLeaf}]
    /\ owner \in [Leaf -> Worker \cup {NoWorker}]
    /\ name \in [Leaf -> Id \cup {NoId}]
    /\ orphan \in [Leaf -> BOOLEAN]
    /\ dir \in [Leaf -> BOOLEAN] /\ \A l \in Leaf : dir[l] => name[l] \in Id
    /\ limited \in [Leaf -> BOOLEAN]
    /\ stage \in [Leaf -> {"none", "made", "ready", "wait", "reap", "drain", "kill",
                           "rmdir", "done", "kept", "lost"}]
    /\ outcome \in [Leaf -> {"none", "refused", "raised", "failed", "timeout", "ran",
                             "join_failed"}]
    /\ joined \in [Leaf -> BOOLEAN]
    /\ tree \in [Leaf -> SUBSET Kind]
    /\ doomed \in [Leaf -> SUBSET Kind]

Init ==
    /\ parent \in ParentStates
    /\ faults = 0
    /\ phase = [w \in Worker |-> "down"]
    /\ id = [w \in Worker |-> NoId]
    /\ toSweep = [w \in Worker |-> {}]
    /\ victim = [w \in Worker |-> NoLeaf]
    /\ owner = [l \in Leaf |-> NoWorker]
    /\ name = [l \in Leaf |-> NoId]
    /\ orphan = [l \in Leaf |-> FALSE]
    /\ dir = [l \in Leaf |-> FALSE]
    /\ limited = [l \in Leaf |-> FALSE]
    /\ stage = [l \in Leaf |-> "none"]
    /\ outcome = [l \in Leaf |-> "none"]
    /\ joined = [l \in Leaf |-> FALSE]
    /\ tree = [l \in Leaf |-> {}]
    /\ doomed = [l \in Leaf |-> {}]

Fault(kind) ==
    /\ kind \in Faults
    /\ faults < MaxFaults
    /\ faults' = faults + 1

Goto(l, there) == stage' = [stage EXCEPT ![l] = there]
Ends(l, how) == outcome' = [outcome EXCEPT ![l] = how]
Kill(l, S) == doomed' = [doomed EXCEPT ![l] = @ \cup (tree[l] \cap S)]

Capped == parent # "absent"

\* The processes in the leaf's cgroup.procs; rmdir fails while there is one.
Members(l) == IF joined[l] /\ dir[l] THEN tree[l] ELSE {}

\* rmdir's attempts run out on a leaf with members: they were sent SIGKILL and
\* take too long to go, or were not, having joined after cgroup.kill.
Busy(l) ==
    /\ Members(l) # {}
    /\ IF Members(l) \subseteq doomed[l] THEN Fault("slow") ELSE UNCHANGED faults

\* cleanup(), if there is a leaf.
Cleanup(l) == Goto(l, IF Capped THEN "kill" ELSE "done")

(***************************************************************************)
(* run_shell: the leaf.                                                    *)
(***************************************************************************)

\* _limits_context: mkdir of a leaf, a refusal, or rlimits and no leaf.
Begin(w, l) ==
    /\ phase[w] = "serving" /\ stage[l] = "none"
    /\ owner' = [owner EXCEPT ![l] = w]
    /\ \/ /\ parent = "usable"
          /\ dir' = [dir EXCEPT ![l] = TRUE]
          /\ name' = [name EXCEPT ![l] = id[w]]
          /\ Goto(l, "made")
          /\ UNCHANGED outcome
       \/ /\ parent = "unusable"
          /\ Goto(l, "done") /\ Ends(l, "refused")
          /\ UNCHANGED <<dir, name>>
       \/ /\ parent = "absent"
          /\ Goto(l, "ready")
          /\ UNCHANGED <<outcome, dir, name>>
    /\ UNCHANGED <<envVars, sweepVars, orphan, limited, joined, tree, doomed>>

MkdirFails(w, l) ==
    /\ phase[w] = "serving" /\ stage[l] = "none"
    /\ parent = "usable"
    /\ Fault("mkdir")
    /\ owner' = [owner EXCEPT ![l] = w]
    /\ Goto(l, "done") /\ Ends(l, "refused")
    /\ UNCHANGED <<parent, sweepVars, name, orphan, dir, limited, joined, tree, doomed>>

SetLimits(l) ==
    /\ stage[l] = "made"
    /\ dir[l]
    /\ limited' = [limited EXCEPT ![l] = TRUE]
    /\ Goto(l, "ready")
    /\ UNCHANGED <<envVars, sweepVars, owner, name, orphan, dir, outcome, joined, tree,
                   doomed>>

\* A limit cannot be written; or there is no leaf any more to write it to.
\* The leaf is removed, and the task refused.
LimitsFail(l) ==
    /\ stage[l] = "made"
    /\ IF dir[l] THEN Fault("limits") ELSE UNCHANGED faults
    /\ dir' = [dir EXCEPT ![l] = FALSE]
    /\ Goto(l, "done") /\ Ends(l, "refused")
    /\ UNCHANGED <<parent, sweepVars, owner, name, orphan, limited, joined, tree, doomed>>

\* Mutant: an error while the command line is built skips the cleanup.
BuildFailsLeaks(l) ==
    /\ stage[l] = "ready"
    /\ Fault("build")
    /\ Goto(l, "done") /\ Ends(l, "raised")
    /\ UNCHANGED <<parent, sweepVars, leafVars, joined, tree, doomed>>

\* Building the command line raises: cleanup, and the error goes on.
BuildFails(l) ==
    /\ stage[l] = "ready"
    /\ Fault("build")
    /\ Cleanup(l) /\ Ends(l, "raised")
    /\ UNCHANGED <<parent, sweepVars, leafVars, joined, tree, doomed>>

(***************************************************************************)
(* run_shell: the process.                                                 *)
(***************************************************************************)

Popen(l) ==
    /\ stage[l] = "ready"
    /\ tree' = [tree EXCEPT ![l] = {"main"}]
    /\ Goto(l, "wait")
    /\ UNCHANGED <<envVars, sweepVars, leafVars, outcome, joined, doomed>>

\* The error becomes a result.
PopenFails(l) ==
    /\ stage[l] = "ready"
    /\ Fault("popen")
    /\ Cleanup(l) /\ Ends(l, "failed")
    /\ UNCHANGED <<parent, sweepVars, leafVars, joined, tree, doomed>>

\* Mutant: the child execs the task whether or not the join worked.
ExecUnjoined(l) ==
    /\ "main" \in tree[l] \ doomed[l] /\ ~joined[l]
    /\ joined' = [joined EXCEPT ![l] = TRUE]
    /\ UNCHANGED <<envVars, sweepVars, leafVars, stage, outcome, tree, doomed>>

\* The child writes its pid to the leaf's cgroup.procs and execs the task; or
\* exits, if it cannot (_CGROUP_JOIN_SH).  Without a leaf it just execs.
Exec(l) ==
    /\ "main" \in tree[l] \ doomed[l] /\ ~joined[l]
    /\ IF Capped => dir[l]
         THEN /\ joined' = [joined EXCEPT ![l] = TRUE]
              /\ UNCHANGED <<tree, outcome>>
         ELSE /\ tree' = [tree EXCEPT ![l] = {}]
              /\ Ends(l, "join_failed")
              /\ UNCHANGED joined
    /\ UNCHANGED <<envVars, sweepVars, leafVars, stage, doomed>>

\* The task starts a descendant; setsid cannot be undone.
Spawn(l, k) ==
    /\ joined[l] /\ k \notin tree[l]
    /\ (tree[l] \ doomed[l]) \cap (IF k \in InGroup THEN InGroup ELSE Kind) # {}
    /\ tree' = [tree EXCEPT ![l] = @ \cup {k}]
    /\ UNCHANGED <<envVars, sweepVars, leafVars, stage, outcome, joined, doomed>>

\* A process of the task ends, by itself or by a signal.
Exit(l, k) ==
    /\ k \in tree[l]
    /\ k = "main" => joined[l] \/ k \in doomed[l]
    /\ tree' = [tree EXCEPT ![l] = @ \ {k}]
    /\ doomed' = [doomed EXCEPT ![l] = @ \ {k}]
    /\ UNCHANGED <<envVars, sweepVars, leafVars, stage, outcome, joined>>

\* communicate() returns: the child has ended and nobody holds a pipe.
Answer(l) ==
    /\ stage[l] = "wait"
    /\ tree[l] \cap HoldsPipe = {}
    /\ Cleanup(l)
    /\ Ends(l, IF outcome[l] = "none" THEN "ran" ELSE outcome[l])
    /\ UNCHANGED <<envVars, sweepVars, leafVars, joined, tree, doomed>>

\* Mutant: only the child is killed, as subprocess.run does.
TimeoutKillsChild(l) ==
    /\ stage[l] = "wait"
    /\ Kill(l, {"main"})
    /\ Goto(l, "reap") /\ Ends(l, "timeout")
    /\ UNCHANGED <<envVars, sweepVars, leafVars, joined, tree>>

\* communicate() times out: killpg.
Timeout(l) ==
    /\ stage[l] = "wait"
    /\ Kill(l, InGroup)
    /\ Goto(l, "reap") /\ Ends(l, "timeout")
    /\ UNCHANGED <<envVars, sweepVars, leafVars, joined, tree>>

\* communicate() raises anything else: killpg as well.
WaitRaises(l) ==
    /\ stage[l] = "wait"
    /\ Fault("wait")
    /\ Kill(l, InGroup)
    /\ Goto(l, "reap") /\ Ends(l, "failed")
    /\ UNCHANGED <<parent, sweepVars, leafVars, joined, tree>>

\* proc.wait(); after a timeout the output is drained, after an error it is not.
Reaped(l) ==
    /\ stage[l] = "reap"
    /\ "main" \notin tree[l]
    /\ IF outcome[l] = "timeout" THEN Goto(l, "drain") ELSE Cleanup(l)
    /\ UNCHANGED <<envVars, sweepVars, leafVars, outcome, joined, tree, doomed>>

\* Mutant: the drain waits for the end of the output.
DrainsToTheEnd(l) ==
    /\ stage[l] = "drain"
    /\ tree[l] \cap HoldsPipe = {}
    /\ Cleanup(l)
    /\ UNCHANGED <<envVars, sweepVars, leafVars, outcome, joined, tree, doomed>>

\* The second communicate() ends with the output, or after five seconds.
Drained(l) ==
    /\ stage[l] = "drain"
    /\ Cleanup(l)
    /\ UNCHANGED <<envVars, sweepVars, leafVars, outcome, joined, tree, doomed>>

\* _kill_and_remove_leaf: cgroup.kill ...
KillLeaf(l) ==
    /\ stage[l] = "kill"
    /\ Kill(l, Members(l))
    /\ Goto(l, "rmdir")
    /\ UNCHANGED <<envVars, sweepVars, leafVars, outcome, joined, tree>>

\* ... and rmdir, until it works or nothing is there to remove ...
RemoveLeaf(l) ==
    /\ stage[l] = "rmdir"
    /\ Members(l) = {}
    /\ dir' = [dir EXCEPT ![l] = FALSE]
    /\ Goto(l, "done")
    /\ UNCHANGED <<envVars, sweepVars, owner, name, orphan, limited, outcome, joined, tree,
                   doomed>>

\* ... or the attempts are used up.
KeepLeaf(l) ==
    /\ stage[l] = "rmdir"
    /\ Busy(l)
    /\ Goto(l, "kept")
    /\ UNCHANGED <<parent, sweepVars, leafVars, outcome, joined, tree, doomed>>

Thread(l) ==
    \/ SetLimits(l) \/ LimitsFail(l) \/ Popen(l) \/ Answer(l) \/ Timeout(l)
    \/ Reaped(l) \/ Drained(l) \/ KillLeaf(l) \/ RemoveLeaf(l) \/ KeepLeaf(l)

(***************************************************************************)
(* sweep_stale_cgroup_leaves, once when a worker starts.                   *)
(***************************************************************************)

\* Mutant: a process of another user (PermissionError) counts as dead.
AliveIfPermitted(i) == FALSE

\* os.kill(pid, 0) finds the process.
Alive(i) == \E w \in Worker : phase[w] # "down" /\ id[w] = i

Start(w) ==
    /\ phase[w] = "down"
    /\ \E i \in Id :
         /\ ~Alive(i)
         /\ id' = [id EXCEPT ![w] = i]
    /\ phase' = [phase EXCEPT ![w] = "list"]
    /\ UNCHANGED <<envVars, toSweep, victim, leafVars, taskVars>>

SweepList(w) ==
    /\ phase[w] = "list"
    /\ phase' = [phase EXCEPT ![w] = IF parent = "usable" THEN "look" ELSE "serving"]
    /\ toSweep' = [toSweep EXCEPT ![w] =
                     IF parent = "usable" THEN {l \in Leaf : dir[l]} ELSE {}]
    /\ UNCHANGED <<envVars, id, victim, leafVars, taskVars>>

\* Mutant: the namespace in the name is not compared.
OursByPid(w, l) == TRUE

\* Mutant: the pattern does not match the names that are made.
OursNever(w, l) == FALSE

\* The name says that the leaf was made in w's own pid namespace.
Ours(w, l) == name[l].ns = id[w].ns

\* One listed leaf: ours and its owner dead, it is killed and removed; ours
\* and its owner alive, it is left alone; not ours, rmdir is tried once.
SweepLook(w, l) ==
    /\ phase[w] = "look" /\ l \in toSweep[w]
    /\ toSweep' = [toSweep EXCEPT ![w] = @ \ {l}]
    /\ IF dir[l] /\ Ours(w, l) /\ ~Alive([ns |-> id[w].ns, pid |-> name[l].pid])
         THEN /\ victim' = [victim EXCEPT ![w] = l]
              /\ phase' = [phase EXCEPT ![w] = "kill"]
         ELSE UNCHANGED <<victim, phase>>
    /\ dir' = [dir EXCEPT ![l] = @ /\ (Ours(w, l) \/ Members(l) # {})]
    /\ UNCHANGED <<envVars, id, owner, name, orphan, limited, taskVars>>

SweepKill(w) ==
    /\ phase[w] = "kill"
    /\ Kill(victim[w], Members(victim[w]))
    /\ phase' = [phase EXCEPT ![w] = "rmdir"]
    /\ UNCHANGED <<envVars, id, toSweep, victim, leafVars, stage, outcome, joined, tree>>

SweepRemove(w) ==
    /\ phase[w] = "rmdir"
    /\ Members(victim[w]) = {}
    /\ dir' = [dir EXCEPT ![victim[w]] = FALSE]
    /\ victim' = [victim EXCEPT ![w] = NoLeaf]
    /\ phase' = [phase EXCEPT ![w] = "look"]
    /\ UNCHANGED <<envVars, id, toSweep, owner, name, orphan, limited, taskVars>>

SweepKeep(w) ==
    /\ phase[w] = "rmdir"
    /\ Busy(victim[w])
    /\ victim' = [victim EXCEPT ![w] = NoLeaf]
    /\ phase' = [phase EXCEPT ![w] = "look"]
    /\ UNCHANGED <<parent, id, toSweep, leafVars, taskVars>>

SweepEnds(w) ==
    /\ phase[w] = "look" /\ toSweep[w] = {}
    /\ phase' = [phase EXCEPT ![w] = "serving"]
    /\ UNCHANGED <<envVars, id, toSweep, victim, leafVars, taskVars>>

Sweep(w) ==
    \/ SweepList(w) \/ (\E l \in Leaf : SweepLook(w, l))
    \/ SweepKill(w) \/ SweepRemove(w) \/ SweepKeep(w) \/ SweepEnds(w)

(***************************************************************************)
(* The environment.                                                        *)
(***************************************************************************)

\* The worker is killed.  Its tasks are not; nobody waits for them any more.
Crash(w) ==
    /\ phase[w] # "down"
    /\ Fault("crash")
    /\ phase' = [phase EXCEPT ![w] = "down"]
    /\ id' = [id EXCEPT ![w] = NoId]
    /\ toSweep' = [toSweep EXCEPT ![w] = {}]
    /\ victim' = [victim EXCEPT ![w] = NoLeaf]
    /\ orphan' = [l \in Leaf |-> orphan[l] \/ owner[l] = w]
    /\ stage' = [l \in Leaf |-> IF owner[l] = w /\ stage[l] \notin {"done", "kept"} THEN "lost"
                                                                    ELSE stage[l]]
    /\ UNCHANGED <<parent, owner, name, dir, limited, outcome, joined, tree, doomed>>

\* The parent loses its delegation (daemon-reload), or gets it back.
ParentLost ==
    /\ parent = "usable"
    /\ Fault("parent")
    /\ parent' = "unusable"
    /\ UNCHANGED <<sweepVars, leafVars, taskVars>>

ParentBack ==
    /\ parent = "unusable"
    /\ parent' = "usable"
    /\ UNCHANGED <<faults, sweepVars, leafVars, taskVars>>

Next ==
    \/ \E w \in Worker : Start(w) \/ Sweep(w) \/ Crash(w)
    \/ \E w \in Worker, l \in Leaf : Begin(w, l) \/ MkdirFails(w, l)
    \/ \E l \in Leaf : Thread(l) \/ BuildFails(l) \/ PopenFails(l) \/ WaitRaises(l)
    \/ \E l \in Leaf : Exec(l)
    \/ \E l \in Leaf, k \in Kinds : Spawn(l, k)
    \/ \E l \in Leaf, k \in Kind : Exit(l, k)
    \/ ParentLost
    \/ ParentBack

Spec == Init /\ [][Next]_vars

\* A thread and a starting worker keep going (a wait ends by its timeout), and
\* what was sent SIGKILL dies.  The task itself need not do anything.
Fairness ==
    /\ \A l \in Leaf : WF_vars(Thread(l))
    /\ \A w \in Worker : WF_vars(Sweep(w))
    /\ \A l \in Leaf, k \in Kind : WF_vars(k \in doomed[l] /\ Exit(l, k))

FairSpec == Spec /\ Fairness

(***************************************************************************)
(* Properties.                                                             *)
(***************************************************************************)

\* "the task is refused rather than run without a memory cap" (sandbox.py,
\* _try_make_cgroup): once a parent is configured, a task that executes does so
\* in a leaf that is there and has its limits, whoever sweeps meanwhile.
CappedOrRefused ==
    Capped => \A l \in Leaf : joined[l] /\ tree[l] # {} => dir[l] /\ limited[l]

\* As long as the worker of a task lives, its processes are killed by its own
\* thread only, at a timeout or when the leaf is released: no sweep takes a live
\* task for a leftover, though pids are used again and mean nothing in another
\* namespace (sandbox.py, sweep_stale_cgroup_leaves and run_shell).
OnlyOrphansAreSwept ==
    [][\A l \in Leaf :
         ~(doomed'[l] \subseteq doomed[l]) /\ ~orphan[l] =>
           \/ stage[l] = "wait" /\ stage'[l] = "reap"
           \/ stage[l] = "kill" /\ stage'[l] = "rmdir"]_vars

\* "leaves of live sibling workers are left alone" (worker.py, run_worker): a
\* live worker's leaf is removed by its own thread, or by a worker of another
\* pid namespace, and then only while its task has not joined it.
LiveLeafStays ==
    [][\A l \in Leaf :
         dir[l] /\ ~dir'[l] /\ ~orphan[l] =>
           \/ stage[l] \in {"made", "rmdir"} /\ stage'[l] = "done"
           \/ /\ ~joined[l] \/ tree[l] = {}
              /\ \E w \in Worker : phase[w] = "look" /\ id[w].ns # name[l].ns]_vars

\* run_shell releases the leaf on every way out, or had killed what kept it
\* from it; and no process of the task outlives its leaf.
LeafReleased ==
    \A l \in Leaf :
      /\ Capped /\ stage[l] = "done" => ~dir[l] /\ tree[l] = {}
      /\ stage[l] = "kept" => tree[l] \subseteq doomed[l]

\* A timeout "kills the whole tree, not just the direct child" (sandbox.py,
\* run_shell): what is left of the group when it returns was sent SIGKILL.
TimeoutKillsGroup ==
    \A l \in Leaf :
      stage[l] \in {"done", "kept"} /\ outcome[l] = "timeout"
        => tree[l] \cap InGroup \subseteq doomed[l]

\* run_shell returns, even if a descendant that escaped the group never ends
\* and keeps its output open.
RunShellReturns ==
    \A l \in Leaf : stage[l] = "wait" ~> stage[l] \in {"done", "kept", "lost"}

\* A starting worker removes what a dead one of its namespace left, with the
\* task still in it, or kills it if the rest takes too long; unless it dies
\* itself, the pid in the name is in use again or the parent is lost.  (A child
\* that has not joined yet may slip in after the kill.)
SweepRecovers ==
    \A w \in Worker, l \in Leaf :
      (/\ phase[w] = "list" /\ dir[l] /\ orphan[l] /\ id[w].ns = name[l].ns
       /\ joined[l] \/ tree[l] = {})
        ~> (\/ ~dir[l]
            \/ tree[l] # {} /\ tree[l] \subseteq doomed[l]
            \/ phase[w] = "down" \/ Alive(name[l]) \/ parent # "usable")
=============================================================================
