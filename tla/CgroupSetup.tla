---------------------------- MODULE CgroupSetup ----------------------------
(***************************************************************************)
(* cgroup_setup.py: operators install and delegate kart.slice, the parent   *)
(* of the tasks' cgroup leaves, while workers look for it, systemd reloads   *)
(* and stops it, and processes come and go in it.  systemd and the kernel    *)
(* are external.                                                            *)
(*                                                                          *)
(* setup_cgroup:  write -> reload -> start -> path -> enable -> check       *)
(*   -> reload again -> enable again -> check again -> look -> done         *)
(* a worker's task:  idle -> look -> mkdir -> memory -> pids -> capped,     *)
(*   or uncapped, or refused                                                *)
(* look, cgroup_parent_state:  explicit -> explicit_procs -> show -> auto   *)
(*   -> auto_procs -> unit, up to the first that answers                    *)
(***************************************************************************)
EXTENDS Integers, FiniteSets

CONSTANTS
    Setup,       \* calls of setup_cgroup
    Task,        \* tasks that workers start
    Explicit,    \* what KART_CGROUP_PARENT may be: "none", "slice" or "elsewhere"
    MaxDisturb   \* failures of a systemctl, and what others do

ASSUME CgroupSetupAssumption ==
    /\ Setup \cap Task = {}
    /\ Explicit \subseteq {"none", "slice", "elsewhere"}
    /\ MaxDisturb \in Nat

VARIABLES
    explicit,
    controllers,  \* the kernel has memory and pids to give
    unit,         \* the unit file is there
    running,      \* the slice has its cgroup
    subtree,      \* memory and pids are delegated to its children
    procs,        \* there are processes in the slice itself
    leaf,         \* leaf[t]: the task's directory exists
    stage,        \* stage[p]: where a setup or a task is
    auto,         \* auto[p]: systemctl show gave it a path
    errors,       \* errors[s]: a step of setup s failed
    ok,           \* ok[s]: what it reports
    intended,     \* intended[t]: a parent was configured when t began to look
    limits,       \* limits[t]: the limits written for t that are in force
    lost,         \* lost[t]: the delegation went after t's first write
    disturbed

hostVars == <<explicit, controllers>>
sliceVars == <<unit, running, subtree, procs>>
limitVars == <<limits, lost>>
taskVars == <<leaf, intended, limitVars>>
setupVars == <<errors, ok>>
vars == <<hostVars, sliceVars, taskVars, setupVars, stage, auto, disturbed>>

Proc == Setup \cup Task
LookStages == {"explicit", "explicit_procs", "show", "auto", "auto_procs", "unit"}
SetupStages == {"none", "reload", "start", "path", "enable", "check", "reload again",
                "enable again", "check again", "done"}
TaskStages == {"none", "mkdir", "memory", "pids", "capped", "uncapped", "refused"}

\* What the slice, the setups and the tasks may be like (cgroup_setup.py).
TypeOK ==
    /\ explicit \in Explicit
    /\ controllers \in BOOLEAN /\ unit \in BOOLEAN /\ running \in BOOLEAN
    /\ subtree \in BOOLEAN /\ procs \in BOOLEAN
    /\ leaf \in [Task -> BOOLEAN]
    /\ stage \in [Proc -> SetupStages \cup TaskStages \cup LookStages]
    /\ auto \in [Proc -> BOOLEAN]
    /\ errors \in [Setup -> BOOLEAN] /\ ok \in [Setup -> BOOLEAN]
    /\ intended \in [Task -> BOOLEAN]
    /\ limits \in [Task -> SUBSET {"memory", "pids"}]
    /\ lost \in [Task -> BOOLEAN]
    /\ disturbed \in 0 .. MaxDisturb

Usable == running /\ controllers /\ subtree /\ ~procs

\* A slice may be set up, stopped, undelegated or unknown at first, and exist
\* without a unit file of the operator's own.
Init ==
    /\ explicit \in Explicit
    /\ controllers \in BOOLEAN
    /\ unit \in BOOLEAN /\ running \in BOOLEAN
    /\ subtree \in BOOLEAN /\ (subtree => running /\ controllers)
    /\ procs \in BOOLEAN /\ (procs => running /\ ~subtree)
    /\ leaf = [t \in Task |-> FALSE]
    /\ stage = [p \in Proc |-> "none"]
    /\ auto = [p \in Proc |-> FALSE]
    /\ errors = [s \in Setup |-> FALSE]
    /\ ok = [s \in Setup |-> FALSE]
    /\ intended = [t \in Task |-> FALSE]
    /\ limits = [t \in Task |-> {}]
    /\ lost = [t \in Task |-> FALSE]
    /\ disturbed = 0

Disturb == disturbed < MaxDisturb /\ disturbed' = disturbed + 1

At(p, here) == stage[p] = here
Goto(p, there) == stage' = [stage EXCEPT ![p] = there]
Fails(s) == errors' = [errors EXCEPT ![s] = TRUE]

\* A controller's files go with the delegation, and with them the limits: when
\* it is delegated again they are there again, at "max" (the kernel).
Undelegate ==
    /\ subtree' = FALSE
    /\ limits' = [t \in Task |-> {}]
    /\ lost' = [t \in Task |-> lost[t] \/ limits[t] # {}]

(***************************************************************************)
(* cgroup_parent_state, for a task and for cgroup_status.                  *)
(***************************************************************************)

\* The answer: a setup reports it, a task acts on it.
Finds(p, answer) ==
    IF p \in Setup
      THEN /\ Goto(p, "done")
           /\ ok' = [ok EXCEPT ![p] = answer = "usable" /\ ~errors[p]]
      ELSE /\ Goto(p, CASE answer = "usable" -> "mkdir"
                        [] answer = "unusable" -> "refused"
                        [] answer = "absent" -> "uncapped")
           /\ UNCHANGED ok

\* is_delegated_cgroup_parent(explicit): is it a cgroup, and delegated ...
LookExplicit(p) ==
    /\ At(p, "explicit")
    /\ Goto(p, IF explicit = "slice" /\ running /\ controllers /\ subtree
                 THEN "explicit_procs" ELSE "show")
    /\ UNCHANGED <<hostVars, sliceVars, taskVars, setupVars, auto, disturbed>>

\* ... and empty, which is another read.
LookExplicitProcs(p) ==
    /\ At(p, "explicit_procs")
    /\ IF running /\ ~procs THEN Finds(p, "usable")
                            ELSE Goto(p, "show") /\ UNCHANGED ok
    /\ UNCHANGED <<hostVars, sliceVars, taskVars, errors, auto, disturbed>>

\* systemd_cgroup_path: None if the slice has no cgroup ...
Show(p) ==
    /\ At(p, "show")
    /\ auto' = [auto EXCEPT ![p] = running]
    /\ Goto(p, IF running THEN "auto" ELSE "unit")
    /\ UNCHANGED <<hostVars, sliceVars, taskVars, setupVars, disturbed>>

\* ... or systemctl fails or takes too long.
ShowFails(p) ==
    /\ At(p, "show")
    /\ Disturb
    /\ auto' = [auto EXCEPT ![p] = FALSE]
    /\ Goto(p, "unit")
    /\ UNCHANGED <<hostVars, sliceVars, taskVars, setupVars>>

LookAuto(p) ==
    /\ At(p, "auto")
    /\ Goto(p, IF running /\ controllers /\ subtree THEN "auto_procs" ELSE "unit")
    /\ UNCHANGED <<hostVars, sliceVars, taskVars, setupVars, auto, disturbed>>

LookAutoProcs(p) ==
    /\ At(p, "auto_procs")
    /\ IF running /\ ~procs THEN Finds(p, "usable")
                            ELSE Goto(p, "unit") /\ UNCHANGED ok
    /\ UNCHANGED <<hostVars, sliceVars, taskVars, errors, auto, disturbed>>

\* Mutant: an installed unit is no sign that the operator wants a cap.
ConfiguredIfRunning(p) == explicit # "none" \/ auto[p]

\* configured_but_unusable: "explicit or auto or installed_unit".
Configured(p) == explicit # "none" \/ auto[p] \/ unit

LookUnit(p) ==
    /\ At(p, "unit")
    /\ Finds(p, IF Configured(p) THEN "unusable" ELSE "absent")
    /\ UNCHANGED <<hostVars, sliceVars, taskVars, errors, auto, disturbed>>

Look(p) ==
    \/ LookExplicit(p) \/ LookExplicitProcs(p) \/ Show(p) \/ ShowFails(p)
    \/ LookAuto(p) \/ LookAutoProcs(p) \/ LookUnit(p)

(***************************************************************************)
(* _try_make_cgroup.                                                       *)
(***************************************************************************)

Begin(t) ==
    /\ At(t, "none")
    /\ intended' = [intended EXCEPT ![t] = explicit # "none" \/ unit]
    /\ Goto(t, "explicit")
    /\ UNCHANGED <<hostVars, sliceVars, setupVars, leaf, limitVars, auto, disturbed>>

Mkdir(t) ==
    /\ At(t, "mkdir")
    /\ leaf' = [leaf EXCEPT ![t] = running]
    /\ Goto(t, IF running THEN "memory" ELSE "refused")
    /\ UNCHANGED <<hostVars, sliceVars, setupVars, intended, limitVars, auto, disturbed>>

\* A limit file is there while its controller is delegated.  If it cannot be
\* written the leaf is removed and the task refused.
WriteLimit(t, file, next) ==
    IF leaf[t] /\ subtree
      THEN /\ Goto(t, next)
           /\ limits' = [limits EXCEPT ![t] = @ \cup {file}]
           /\ UNCHANGED leaf
      ELSE /\ Goto(t, "refused")
           /\ leaf' = [leaf EXCEPT ![t] = FALSE]
           /\ UNCHANGED limits

WriteMemory(t) ==
    /\ At(t, "memory")
    /\ WriteLimit(t, "memory", "pids")
    /\ UNCHANGED <<hostVars, sliceVars, setupVars, intended, lost, auto, disturbed>>

WritePids(t) ==
    /\ At(t, "pids")
    /\ WriteLimit(t, "pids", "capped")
    /\ UNCHANGED <<hostVars, sliceVars, setupVars, intended, lost, auto, disturbed>>

TaskStep(t) == Begin(t) \/ Look(t) \/ Mkdir(t) \/ WriteMemory(t) \/ WritePids(t)

(***************************************************************************)
(* setup_cgroup.                                                           *)
(***************************************************************************)

\* The unit file is written unless it is there as it should be.
WriteUnit(s) ==
    /\ At(s, "none")
    /\ unit' = TRUE
    /\ Goto(s, "reload")
    /\ UNCHANGED <<hostVars, running, subtree, procs, taskVars, setupVars, auto, disturbed>>

\* "subtree_control can reset on daemon-reload."
Reload(s) ==
    /\ At(s, "reload") \/ At(s, "reload again")
    /\ Undelegate \/ UNCHANGED <<subtree, limitVars>>
    /\ Goto(s, IF At(s, "reload") THEN "start" ELSE "enable again")
    /\ UNCHANGED <<hostVars, unit, running, procs, leaf, intended, setupVars, auto, disturbed>>

\* systemctl fails, and a setup does nothing more than look.
ReloadFails(s) ==
    /\ At(s, "reload") \/ At(s, "reload again")
    /\ Disturb
    /\ Fails(s)
    /\ Goto(s, "explicit")
    /\ UNCHANGED <<hostVars, sliceVars, taskVars, ok, auto>>

Start(s) ==
    /\ At(s, "start")
    /\ running' = TRUE
    /\ Goto(s, "path")
    /\ UNCHANGED <<hostVars, unit, subtree, procs, taskVars, setupVars, auto, disturbed>>

StartFails(s) ==
    /\ At(s, "start")
    /\ Disturb
    /\ Fails(s)
    /\ Goto(s, "explicit")
    /\ UNCHANGED <<hostVars, sliceVars, taskVars, ok, auto>>

\* setup_cgroup(start=False).
NoStart(s) ==
    /\ At(s, "start")
    /\ Disturb
    /\ Goto(s, "path")
    /\ UNCHANGED <<hostVars, sliceVars, taskVars, setupVars, auto>>

\* systemd_cgroup_path, and without a path no delegation.
Path(s) ==
    /\ At(s, "path")
    /\ Goto(s, IF running THEN "enable" ELSE "explicit")
    /\ UNCHANGED <<hostVars, sliceVars, taskVars, setupVars, auto, disturbed>>

PathFails(s) ==
    /\ At(s, "path")
    /\ Disturb
    /\ Goto(s, "explicit")
    /\ UNCHANGED <<hostVars, sliceVars, taskVars, setupVars, auto>>

\* enable_subtree_control writes, which the kernel refuses to a cgroup with
\* processes in it or without the controllers ...
Enable(s) ==
    /\ At(s, "enable") \/ At(s, "enable again")
    /\ IF running /\ controllers /\ ~procs
         THEN /\ subtree' = TRUE
              /\ Goto(s, IF At(s, "enable") THEN "check" ELSE "check again")
              /\ UNCHANGED errors
         ELSE /\ Fails(s)
              /\ Goto(s, "explicit")
              /\ UNCHANGED subtree
    /\ UNCHANGED <<hostVars, unit, running, procs, taskVars, ok, auto, disturbed>>

\* ... and reads back what it wrote.
Check(s, next) ==
    /\ IF subtree THEN Goto(s, next) /\ UNCHANGED errors
                  ELSE Goto(s, "explicit") /\ Fails(s)
    /\ UNCHANGED <<hostVars, sliceVars, taskVars, ok, auto, disturbed>>

\* Mutant: the delegation is not asserted again after the second reload.
ReloadLast(s) ==
    /\ At(s, "check")
    /\ Undelegate \/ UNCHANGED <<subtree, limitVars>>
    /\ Goto(s, "explicit")
    /\ UNCHANGED <<hostVars, unit, running, procs, leaf, intended, setupVars, auto, disturbed>>

CheckFirst(s) == At(s, "check") /\ Check(s, "reload again")

CheckAgain(s) == At(s, "check again") /\ Check(s, "explicit")

SetupStep(s) ==
    \/ WriteUnit(s) \/ Reload(s) \/ ReloadFails(s) \/ Start(s) \/ StartFails(s) \/ NoStart(s)
    \/ Path(s) \/ PathFails(s) \/ Enable(s) \/ CheckFirst(s) \/ CheckAgain(s) \/ Look(s)

(***************************************************************************)
(* The others.                                                             *)
(***************************************************************************)

\* Another daemon-reload, or a hand that undoes the delegation.
OtherReload ==
    /\ Disturb
    /\ Undelegate
    /\ UNCHANGED <<hostVars, unit, running, procs, leaf, intended, setupVars, stage, auto>>

\* The slice is stopped, with whatever is in it.
Stop ==
    /\ Disturb
    /\ Undelegate
    /\ running' = FALSE /\ procs' = FALSE
    /\ leaf' = [t \in Task |-> FALSE]
    /\ UNCHANGED <<hostVars, unit, intended, setupVars, stage, auto>>

\* A process is moved to the slice: the kernel refuses one that delegates.
Enter ==
    /\ Disturb
    /\ running /\ ~subtree
    /\ procs' = TRUE
    /\ UNCHANGED <<hostVars, unit, running, subtree, taskVars, setupVars, stage, auto>>

Next ==
    \/ \E t \in Task : TaskStep(t)
    \/ \E s \in Setup : SetupStep(s)
    \/ OtherReload \/ Stop \/ Enter

Spec == Init /\ [][Next]_vars

(***************************************************************************)
(* Properties.                                                             *)
(***************************************************************************)

\* "a caller can refuse rather than quietly run without the memory cap it was
\* set up for" (cgroup_setup.py, cgroup_parent_state): once the operator has
\* installed the unit or named a parent, a task is refused or goes on with a
\* leaf, and in the leaf both limits are in force until a delegation is lost
\* that the task has written under, whatever setups, reloads, stops and failures
\* come between its reads and writes.
NeverQuietlyUncapped ==
    \A t \in Task :
      /\ stage[t] = "uncapped" => ~intended[t]
      /\ stage[t] = "capped" => limits[t] = {"memory", "pids"} \/ lost[t]

\* "an unusable parent, or a failure to create or configure the leaf, raises
\* CgroupSetupError and the task is refused rather than run without a memory
\* cap" (sandbox.py, _try_make_cgroup): both limits are in force when the leaf
\* is handed out.  Violated: between the two writes the delegation can go and
\* come back, with memory.max at "max" again.
HandedOutCapped ==
    [][\A t \in Task : stage[t] = "pids" /\ stage'[t] = "capped"
                         => limits'[t] = {"memory", "pids"}]_vars

\* "Idempotently install kart.slice and optionally start it" (cgroup_setup.py,
\* setup_cgroup): when every setup has returned, and nobody else interfered,
\* the slice is usable and one of them says so, whatever was there before and
\* however they reset each other's delegation; if the kernel has the
\* controllers, and the slice was empty.
SetupsDelegate ==
    (/\ Setup # {} /\ \A s \in Setup : stage[s] = "done"
     /\ disturbed = 0 /\ controllers /\ ~procs)
      => Usable /\ \E s \in Setup : ok[s]
=============================================================================
