------------------------- MODULE CgroupSetup_proofs -------------------------
(***************************************************************************)
(* No task starts without the cap the operator configured, unless it loses  *)
(* the delegation it wrote its limits under, for any                        *)
(* number of setups and tasks and any interference with the slice; and any   *)
(* number of setups that run together delegate it, and know.                *)
(***************************************************************************)
EXTENDS CgroupSetup, TLAPS

\* Where a task may be (cgroup_setup.py, cgroup_parent_state).
WhereTask == LookStages \cup TaskStages

\* A parent that was configured when a task began to look still is, since
\* nothing removes the unit file; what the task has written so far is where it
\* is (sandbox.py, _try_make_cgroup).
Capping(t) ==
    /\ stage[t] \in WhereTask
    /\ intended[t] => explicit # "none" \/ unit
    /\ stage[t] = "uncapped" => ~intended[t]
    /\ limits[t] \subseteq {"memory", "pids"}
    /\ stage[t] = "pids" => "memory" \in limits[t] \/ lost[t]
    /\ stage[t] = "capped" => limits[t] = {"memory", "pids"} \/ lost[t]

CapInv ==
    /\ unit \in BOOLEAN
    /\ DOMAIN stage = Proc
    /\ intended \in [Task -> BOOLEAN]
    /\ DOMAIN limits = Task /\ lost \in [Task -> BOOLEAN]
    /\ \A t \in Task : Capping(t)

\* A task that loses what it has written has lost the delegation (sandbox.py,
\* _try_make_cgroup).
LEMMA UndelegateKeeps ==
    ASSUME CapInv, Undelegate \/ UNCHANGED <<limits, lost>>,
           UNCHANGED <<explicit, intended>>, unit' \in BOOLEAN, unit => unit',
           DOMAIN stage' = Proc, \A t \in Task : stage'[t] = stage[t]
    PROVE  CapInv'
<1>1. CASE UNCHANGED <<limits, lost>>
  BY <1>1 DEF CapInv, Capping
<1>2. CASE Undelegate
  BY <1>2 DEF Undelegate, CapInv, Capping
<1> QED  BY <1>1, <1>2

\* What a task finds when it has looked (cgroup_setup.py, cgroup_parent_state).
LEMMA LookKeeps ==
    ASSUME CapInv, NEW p \in Proc, Look(p)
    PROVE  CapInv'
<1> USE DEF CapInv
<1>0. UNCHANGED <<unit, explicit, intended, limits, lost>>
  BY DEF Look, LookExplicit, LookExplicitProcs, Show, ShowFails, LookAuto, LookAutoProcs,
    LookUnit, hostVars, sliceVars, taskVars, limitVars
<1>1. \E there : Goto(p, there)
  BY DEF Look, LookExplicit, LookExplicitProcs, Show, ShowFails, LookAuto, LookAutoProcs,
    LookUnit, Finds
<1>2. DOMAIN stage' = Proc /\ \A q \in Proc : q # p => stage'[q] = stage[q]
  BY <1>1 DEF Goto
<1>3. p \in Task =>
        /\ stage'[p] \in LookStages \cup {"mkdir", "refused", "uncapped"}
        /\ stage'[p] = "uncapped" => explicit = "none" /\ ~unit
  <2> SUFFICES ASSUME p \in Task
               PROVE  /\ stage'[p] \in LookStages \cup {"mkdir", "refused", "uncapped"}
                      /\ stage'[p] = "uncapped" => explicit = "none" /\ ~unit
    OBVIOUS
  <2>1. p \notin Setup
    BY CgroupSetupAssumption
  <2>2. CASE LookUnit(p)
    BY <2>1, <2>2 DEF LookUnit, Finds, Goto, Configured
  <2>3. CASE LookExplicitProcs(p) \/ LookAutoProcs(p)
    BY <2>1, <2>3 DEF LookExplicitProcs, LookAutoProcs, Finds, Goto, LookStages
  <2>4. CASE LookExplicit(p) \/ Show(p) \/ ShowFails(p) \/ LookAuto(p)
    BY <2>4 DEF LookExplicit, Show, ShowFails, LookAuto, Goto, LookStages
  <2> QED  BY <2>2, <2>3, <2>4 DEF Look
<1>4. ASSUME NEW t \in Task PROVE Capping(t)'
  <2>1. Capping(t) /\ t \in Proc
    BY DEF Proc
  <2>2. CASE t # p
    BY <1>0, <1>2, <2>1, <2>2 DEF Capping
  <2>3. CASE t = p
    BY <1>0, <1>3, <2>1, <2>3 DEF Capping, WhereTask, LookStages, TaskStages
  <2> QED  BY <2>2, <2>3
<1> QED  BY <1>0, <1>2, <1>4

\* What moves only t and its leaf leaves the other tasks where they are
\* (sandbox.py).
LEMMA TaskKeeps ==
    ASSUME CapInv, NEW t \in Task,
           Begin(t) \/ Mkdir(t) \/ WriteMemory(t) \/ WritePids(t)
    PROVE  CapInv'
<1> USE DEF CapInv
<1>0. UNCHANGED <<unit, explicit, lost>>
  BY DEF Begin, Mkdir, WriteMemory, WritePids, hostVars, sliceVars, limitVars
<1>1. t \in Proc
  BY DEF Proc
<1>2. /\ DOMAIN stage' = Proc /\ DOMAIN limits' = Task /\ intended' \in [Task -> BOOLEAN]
      /\ \A q \in Task : q # t => /\ stage'[q] = stage[q] /\ limits'[q] = limits[q]
                                  /\ intended'[q] = intended[q]
  BY <1>1 DEF Begin, Mkdir, WriteMemory, WritePids, WriteLimit, Goto, Proc,
    limitVars
<1>3. Capping(t)'
  <2>1. Capping(t)
    OBVIOUS
  <2>2. CASE Begin(t)
    BY <1>0, <1>1, <2>1, <2>2 DEF Begin, limitVars, At, Goto, Capping, WhereTask, LookStages
  <2>3. CASE Mkdir(t)
    BY <1>0, <1>1, <2>1, <2>3 DEF Mkdir, limitVars, At, Goto, Capping, WhereTask, TaskStages
  <2>4. CASE WriteMemory(t)
    BY <1>0, <1>1, <2>1, <2>4 DEF WriteMemory, WriteLimit, At, Goto, Capping, WhereTask,
      TaskStages
  <2>5. CASE WritePids(t)
    BY <1>0, <1>1, <2>1, <2>5 DEF WritePids, WriteLimit, At, Goto, Capping, WhereTask,
      TaskStages
  <2> QED  BY <2>2, <2>3, <2>4, <2>5
<1>4. ASSUME NEW q \in Task, q # t PROVE Capping(q)'
  BY <1>0, <1>2, <1>4 DEF Capping
<1> QED  BY <1>0, <1>2, <1>3, <1>4

\* A setup may write the unit, and removes none (cgroup_setup.py, setup_cgroup).
LEMMA SetupKeeps ==
    ASSUME CapInv, NEW s \in Setup, SetupStep(s)
    PROVE  CapInv'
<1> USE DEF CapInv
<1>1. CASE Look(s)
  BY <1>1, LookKeeps DEF Proc
<1>2. CASE ~Look(s)
  <2>1. UNCHANGED <<explicit, intended>> /\ unit' \in BOOLEAN /\ (unit => unit')
        /\ \E there : Goto(s, there)
    BY <1>2 DEF SetupStep, WriteUnit, Reload, ReloadFails, Start, StartFails, NoStart, Path,
      PathFails, Enable, CheckFirst, CheckAgain, Check, hostVars, sliceVars, taskVars
  <2>4. Undelegate \/ UNCHANGED <<limits, lost>>
    BY <1>2 DEF SetupStep, WriteUnit, Reload, ReloadFails, Start, StartFails, NoStart, Path,
      PathFails, Enable, CheckFirst, CheckAgain, Check, taskVars, limitVars
  <2>2. s \in Proc /\ s \notin Task
    BY CgroupSetupAssumption DEF Proc
  <2>3. DOMAIN stage' = Proc /\ \A t \in Task : stage'[t] = stage[t]
    BY <2>1, <2>2 DEF Goto, Proc
  <2> QED  BY <2>1, <2>3, <2>4, UndelegateKeeps
<1> QED  BY <1>1, <1>2

LEMMA CapInvariance ==
    ASSUME CapInv, [Next]_vars
    PROVE  CapInv'
<1>1. ASSUME NEW t \in Task, TaskStep(t) PROVE CapInv'
  BY <1>1, LookKeeps, TaskKeeps DEF TaskStep, Proc
<1>2. ASSUME NEW s \in Setup, SetupStep(s) PROVE CapInv'
  BY <1>2, SetupKeeps
<1>3. CASE OtherReload \/ Stop \/ Enter
  <2>1. UNCHANGED <<explicit, intended, unit, stage>>
        /\ (Undelegate \/ UNCHANGED <<limits, lost>>)
    BY <1>3 DEF OtherReload, Stop, Enter, hostVars, taskVars, limitVars
  <2> QED  BY <2>1, UndelegateKeeps DEF CapInv
<1>4. CASE UNCHANGED vars
  BY <1>4 DEF CapInv, Capping, vars, hostVars, sliceVars, taskVars, limitVars
<1> QED  BY <1>1, <1>2, <1>3, <1>4 DEF Next

\* Once the operator has installed the unit or named a parent a task is refused
\* or gets a leaf, where both limits are in force until a delegation is lost
\* that it has written under, whatever setups, reloads, stops and failures come
\* in between (cgroup_setup.py, cgroup_parent_state; sandbox.py,
\* _try_make_cgroup).
THEOREM CapsAreNeverLostQuietly == Spec => []NeverQuietlyUncapped
<1>1. Init => CapInv
  BY DEF Init, CapInv, Capping, WhereTask, TaskStages, Proc
<1>2. CapInv /\ [Next]_vars => CapInv'
  BY CapInvariance
<1>3. CapInv => NeverQuietlyUncapped
  BY DEF CapInv, Capping, NeverQuietlyUncapped
<1> QED  BY <1>1, <1>2, <1>3, PTL DEF Spec

-----------------------------------------------------------------------------
(***************************************************************************)
(* Setups that reset each other's delegation.  Whoever reloads will enable  *)
(* again, so the setup that reloads last finds its delegation undisturbed.  *)
(***************************************************************************)

\* A setup that has not come to an end, and not failed.
Working == {"none", "reload", "start", "path", "enable", "check", "reload again",
            "enable again", "check again"}

\* It will delegate, whatever the delegation is now.
WillEnable == Working \ {"check", "check again"}

\* From here a delegation that stays is found.
OnItsWay == {"check", "check again", "explicit", "explicit_procs", "show", "auto",
             "auto_procs"}

\* A setup that will succeed unless another reloads, or has.
Hopeful(s) ==
    \/ stage[s] \in WillEnable
    \/ stage[s] \in OnItsWay /\ subtree /\ ~errors[s]
    \/ stage[s] = "done" /\ ok[s]

\* Nobody else interferes, and the kernel can delegate.
Quiet == disturbed = 0 /\ controllers /\ ~procs

SetupTypes ==
    /\ disturbed \in Nat /\ subtree \in BOOLEAN /\ running \in BOOLEAN
    /\ stage \in [Proc -> SetupStages \cup TaskStages \cup LookStages]
    /\ errors \in [Setup -> BOOLEAN] /\ ok \in [Setup -> BOOLEAN]

\* The slice runs once a setup has started it; the delegation is there, or a
\* setup that will assert it; and one setup may hope.
Delegating ==
    /\ \A s \in Setup : stage[s] \notin {"none", "reload", "start"} => running
    /\ Setup # {} => subtree \/ \E s \in Setup : stage[s] \in WillEnable
    /\ Setup # {} => \E s \in Setup : Hopeful(s)

DelegInv ==
    /\ SetupTypes
    /\ \A s \in Setup : stage[s] \in Working => ~errors[s]
    /\ Quiet => Delegating

Stages == SetupStages \cup TaskStages \cup LookStages

\* Every step moves one process at most, and keeps the types.
LEMMA TypesKeep ==
    ASSUME SetupTypes, Next
    PROVE  SetupTypes'
  <1> USE DEF SetupTypes
  <1>1. ASSUME NEW p \in Proc, Look(p) PROVE SetupTypes'
    <2>1. /\ UNCHANGED <<subtree, running, errors>>
          /\ disturbed' \in {disturbed, disturbed + 1}
      BY <1>1 DEF Look, LookExplicit, LookExplicitProcs, Show, ShowFails, LookAuto,
                  LookAutoProcs, LookUnit, Disturb, sliceVars, setupVars
    <2>2. \E there \in Stages : Goto(p, there)
      BY <1>1 DEF Look, LookExplicit, LookExplicitProcs, Show, ShowFails, LookAuto,
                  LookAutoProcs, LookUnit, Finds, Stages, LookStages, TaskStages, SetupStages
    <2>3. ok' \in [Setup -> BOOLEAN]
      BY <1>1 DEF Look, LookExplicit, LookExplicitProcs, Show, ShowFails, LookAuto,
                  LookAutoProcs, LookUnit, Finds, setupVars
    <2>. QED
      BY <2>1, <2>2, <2>3 DEF Goto, Stages
  <1>2. ASSUME NEW t \in Task, Begin(t) \/ Mkdir(t) \/ WriteMemory(t) \/ WritePids(t)
        PROVE  SetupTypes'
    <2>1. UNCHANGED <<subtree, running, errors, ok, disturbed>>
      BY <1>2 DEF Begin, Mkdir, WriteMemory, WritePids, sliceVars, setupVars
    <2>2. \E there \in Stages : Goto(t, there)
      BY <1>2 DEF Begin, Mkdir, WriteMemory, WritePids, WriteLimit, Stages, LookStages,
                  TaskStages
    <2>. QED
      BY <2>1, <2>2 DEF Goto, Stages
  <1>3. ASSUME NEW s \in Setup, SetupStep(s), ~Look(s) PROVE SetupTypes'
    <2>1. /\ subtree' \in BOOLEAN /\ running' \in BOOLEAN /\ UNCHANGED ok
          /\ errors' \in [Setup -> BOOLEAN] /\ disturbed' \in {disturbed, disturbed + 1}
      BY <1>3 DEF SetupStep, WriteUnit, Reload, ReloadFails, Start, StartFails, NoStart, Path,
                  PathFails, Enable, CheckFirst, CheckAgain, Check, Fails, Disturb, Undelegate,
                  sliceVars, setupVars
    <2>2. \E there \in Stages : Goto(s, there)
      BY <1>3 DEF SetupStep, WriteUnit, Reload, ReloadFails, Start, StartFails, NoStart, Path,
                  PathFails, Enable, CheckFirst, CheckAgain, Check, Stages, LookStages,
                  SetupStages
    <2>3. disturbed' \in Nat
      <3>1. disturbed + 1 \in Nat
        OBVIOUS
      <3>. QED
        BY <2>1, <3>1
    <2>4. stage' \in [Proc -> Stages]
      BY <2>2 DEF Goto, Stages
    <2>. QED
      BY <2>1, <2>3, <2>4 DEF Stages
  <1>4. ASSUME OtherReload \/ Stop \/ Enter PROVE SetupTypes'
    <2>1. disturbed' \in Nat /\ UNCHANGED <<stage, errors, ok>>
      BY <1>4 DEF OtherReload, Stop, Enter, Disturb, setupVars
    <2>2. subtree' \in BOOLEAN /\ running' \in BOOLEAN
      BY <1>4 DEF OtherReload, Stop, Enter, Undelegate
    <2>. QED
      BY <2>1, <2>2
  <1>. QED
    BY <1>1, <1>2, <1>3, <1>4 DEF Next, TaskStep, SetupStep, Proc

\* What disturbs the slice is counted for good.
LEMMA QuietBefore ==
    ASSUME SetupTypes, Next, Quiet'
    PROVE  /\ Quiet
           /\ ~(OtherReload \/ Stop \/ Enter)
           /\ \A p \in Proc : ~ShowFails(p)
           /\ \A s \in Setup : ~(ReloadFails(s) \/ StartFails(s) \/ NoStart(s) \/ PathFails(s))
  <1>0. \A n \in Nat : n + 1 # 0
    OBVIOUS
  <1>1. ~Disturb
    BY <1>0 DEF SetupTypes, Quiet, Disturb
  <1>2. ~(OtherReload \/ Stop \/ Enter) /\ \A p \in Proc : ~ShowFails(p)
    BY <1>1 DEF OtherReload, Stop, Enter, ShowFails
  <1>3. \A s \in Setup : ~(ReloadFails(s) \/ StartFails(s) \/ NoStart(s) \/ PathFails(s))
    BY <1>1 DEF ReloadFails, StartFails, NoStart, PathFails
  <1>4. ASSUME NEW p \in Proc, Look(p) PROVE UNCHANGED <<controllers, procs, disturbed>>
    BY <1>2, <1>4 DEF Look, LookExplicit, LookExplicitProcs, Show, LookAuto, LookAutoProcs,
                      LookUnit, sliceVars, hostVars
  <1>5. ASSUME NEW t \in Task, Begin(t) \/ Mkdir(t) \/ WriteMemory(t) \/ WritePids(t)
        PROVE  UNCHANGED <<controllers, procs, disturbed>>
    BY <1>5 DEF Begin, Mkdir, WriteMemory, WritePids, sliceVars, hostVars
  <1>6. ASSUME NEW s \in Setup, SetupStep(s), ~Look(s)
        PROVE  UNCHANGED <<controllers, procs, disturbed>>
    BY <1>3, <1>6 DEF SetupStep, WriteUnit, Reload, Start, Path, Enable, CheckFirst,
                      CheckAgain, Check, sliceVars, hostVars
  <1>7. UNCHANGED <<controllers, procs, disturbed>>
    BY <1>2, <1>4, <1>5, <1>6 DEF Next, TaskStep, SetupStep, Proc
  <1>. QED
    BY <1>2, <1>3, <1>7 DEF Quiet

\* A step of one setup keeps the hope, if it keeps its own, takes no delegation
\* away without being about to assert it, and loses no slice.
LEMMA OneSetupKeeps ==
    ASSUME Delegating, NEW s \in Setup,
           \A q \in Setup : q # s => /\ stage'[q] = stage[q] /\ errors'[q] = errors[q]
                                     /\ ok'[q] = ok[q],
           stage[s] \in WillEnable => stage'[s] \in WillEnable \/ subtree',
           (subtree => subtree') \/ stage'[s] \in WillEnable,
           Hopeful(s) => Hopeful(s)',
           running => running',
           stage'[s] \notin {"none", "reload", "start"} => running'
    PROVE  Delegating'
  <1>1. \A q \in Setup : stage'[q] \notin {"none", "reload", "start"} => running'
    BY DEF Delegating
  <1>2. subtree' \/ \E q \in Setup : stage'[q] \in WillEnable
    BY DEF Delegating
  <1>3. \E q \in Setup : Hopeful(q)'
    <2>1. CASE stage'[s] \in WillEnable
      BY <2>1 DEF Hopeful
    <2>2. CASE subtree => subtree'
      <3>1. PICK q \in Setup : Hopeful(q)
        BY DEF Delegating
      <3>2. CASE q = s
        BY <3>1, <3>2
      <3>3. CASE q # s
        BY <2>2, <3>1, <3>3 DEF Hopeful
      <3>. QED
        BY <3>2, <3>3
    <2>. QED
      BY <2>1, <2>2
  <1>. QED
    BY <1>1, <1>2, <1>3 DEF Delegating

\* A look ends where it began to, and leaves the slice as it is.
LEMMA LookKeepsHope ==
    ASSUME SetupTypes, Quiet, Delegating, Quiet', NEW s \in Setup, Look(s), ~ShowFails(s)
    PROVE  Delegating'
  <1> USE DEF SetupTypes
  <1>1. /\ UNCHANGED <<subtree, running, errors, controllers, procs>>
        /\ stage[s] \in LookStages
    BY DEF Look, LookExplicit, LookExplicitProcs, Show, LookAuto, LookAutoProcs, LookUnit,
           At, LookStages, sliceVars, setupVars, hostVars
  <1>2. \E there \in LookStages \cup {"done"} : Goto(s, there)
    BY DEF Look, LookExplicit, LookExplicitProcs, Show, LookAuto, LookAutoProcs, LookUnit,
           Finds, LookStages
  <1>3. \A q \in Setup : q # s => ok'[q] = ok[q]
    BY DEF Look, LookExplicit, LookExplicitProcs, Show, LookAuto, LookAutoProcs, LookUnit,
           Finds, setupVars
  <1>4. s \in Proc /\ stage'[s] \in LookStages \cup {"done"}
    BY <1>2 DEF Goto, Proc
  <1>5. running
    BY <1>1 DEF Delegating, LookStages
  <1>6. Hopeful(s) => Hopeful(s)'
    <2> SUFFICES ASSUME Hopeful(s) PROVE Hopeful(s)'
      OBVIOUS
    <2>1. stage[s] \in OnItsWay /\ subtree /\ ~errors[s]
      BY <1>1 DEF Hopeful, LookStages, WillEnable, Working
    <2>2. CASE LookExplicit(s) \/ Show(s) \/ LookAuto(s)
      <3>1. stage'[s] \in OnItsWay
        BY <1>4, <1>5, <2>1, <2>2 DEF LookExplicit, Show, LookAuto, Goto, OnItsWay, Quiet
      <3>. QED
        BY <1>1, <2>1, <3>1 DEF Hopeful
    <2>3. CASE LookExplicitProcs(s) \/ LookAutoProcs(s)
      <3>1. stage'[s] = "done" /\ ok'[s]
        BY <1>4, <1>5, <2>1, <2>3 DEF LookExplicitProcs, LookAutoProcs, Finds, Goto, Quiet
      <3>. QED
        BY <3>1 DEF Hopeful
    <2>4. ~LookUnit(s)
      BY <2>1 DEF LookUnit, At, OnItsWay
    <2>. QED
      BY <2>2, <2>3, <2>4 DEF Look
  <1>7. stage[s] \notin WillEnable
    BY <1>1 DEF LookStages, WillEnable, Working
  <1>8. \A q \in Setup : q # s => stage'[q] = stage[q]
    BY <1>2 DEF Goto, Proc
  <1>. QED
    BY <1>1, <1>3, <1>5, <1>6, <1>7, <1>8, OneSetupKeeps

\* Nor does any other step of a setup end the hope.
LEMMA SetupKeepsHope ==
    ASSUME SetupTypes, Quiet, Delegating, NEW s \in Setup, SetupStep(s), ~Look(s),
           stage[s] \in Working => ~errors[s],
           ~(ReloadFails(s) \/ StartFails(s) \/ NoStart(s) \/ PathFails(s))
    PROVE  Delegating'
  <1> USE DEF SetupTypes
  <1>1. s \in Proc
    BY DEF Proc
  <1>2. PICK there : Goto(s, there)
    BY DEF SetupStep, WriteUnit, Reload, Start, Path, Enable, CheckFirst, CheckAgain, Check
  <1>3. stage'[s] = there /\ \A q \in Setup : q # s => stage'[q] = stage[q]
    BY <1>1, <1>2 DEF Goto, Proc
  <1>4. UNCHANGED ok /\ \A q \in Setup : q # s => errors'[q] = errors[q]
    BY DEF SetupStep, WriteUnit, Reload, Start, Path, Enable, CheckFirst, CheckAgain, Check,
           Fails, setupVars
  <1>5. running => running'
    BY DEF SetupStep, WriteUnit, Reload, Start, Path, Enable, CheckFirst, CheckAgain, Check,
           sliceVars
  <1>6. stage[s] \notin {"none", "reload", "start"} => running
    BY DEF Delegating
  <1>7. /\ stage[s] \in WillEnable => stage'[s] \in WillEnable \/ subtree'
        /\ (subtree => subtree') \/ stage'[s] \in WillEnable
        /\ Hopeful(s) => Hopeful(s)'
        /\ stage'[s] \notin {"none", "reload", "start"} => running'
    <2>1. CASE WriteUnit(s)
      BY <1>1, <2>1 DEF WriteUnit, At, Goto, WillEnable, Working, Hopeful
    <2>2. CASE Reload(s)
      BY <1>1, <1>6, <2>2 DEF Reload, Undelegate, At, Goto, WillEnable, Working, Hopeful
    <2>3. CASE Start(s)
      BY <1>1, <2>3 DEF Start, At, Goto, WillEnable, Working, Hopeful
    <2>4. CASE Path(s)
      BY <1>1, <1>6, <2>4 DEF Path, At, Goto, WillEnable, Working, Hopeful, sliceVars
    <2>5. CASE Enable(s)
      <3>1. running /\ ~procs /\ controllers
        BY <1>6, <2>5 DEF Enable, At, Quiet
      <3>2. subtree' /\ running' /\ stage'[s] \in {"check", "check again"} /\ ~errors'[s]
        BY <1>1, <2>5, <3>1 DEF Enable, At, Goto, Working
      <3>. QED
        BY <3>2 DEF Hopeful, OnItsWay
    <2>6. CASE CheckFirst(s) \/ CheckAgain(s)
      <3>1. UNCHANGED <<subtree, running>> /\ stage[s] \in {"check", "check again"} /\ running
        BY <1>6, <2>6 DEF CheckFirst, CheckAgain, Check, At, sliceVars
      <3>2. subtree => /\ stage'[s] \in WillEnable \cup OnItsWay
                       /\ UNCHANGED errors
        BY <1>1, <2>6 DEF CheckFirst, CheckAgain, Check, Goto, WillEnable, Working, OnItsWay
      <3>3. Hopeful(s) => Hopeful(s)'
        <4>1. Hopeful(s) => subtree /\ ~errors[s]
          BY <3>1 DEF Hopeful, WillEnable
        <4>. QED
          BY <3>1, <3>2, <4>1 DEF Hopeful
      <3>. QED
        BY <3>1, <3>3 DEF WillEnable
    <2>. QED
      BY <2>1, <2>2, <2>3, <2>4, <2>5, <2>6 DEF SetupStep
  <1>. QED
    BY <1>3, <1>4, <1>5, <1>7, OneSetupKeeps

\* A setup that failed at a step goes to look, and comes back to no step.
LEMMA WorkingKeeps ==
    ASSUME SetupTypes, NEW s \in Setup, SetupStep(s),
           \A q \in Setup : stage[q] \in Working => ~errors[q]
    PROVE  \A q \in Setup : stage'[q] \in Working => ~errors'[q]
  <1> USE DEF SetupTypes
  <1>1. s \in Proc
    BY DEF Proc
  <1>2. CASE Look(s)
    <2>1. UNCHANGED errors /\ \E there \in LookStages \cup {"done"} : Goto(s, there)
      BY <1>2 DEF Look, LookExplicit, LookExplicitProcs, Show, ShowFails, LookAuto,
                  LookAutoProcs, LookUnit, Finds, LookStages, setupVars
    <2>2. stage'[s] \notin Working
      BY <1>1, <2>1 DEF Goto, LookStages, Working
    <2>3. \A q \in Setup : q # s => stage'[q] = stage[q]
      BY <2>1 DEF Goto, Proc
    <2>. QED
      BY <2>1, <2>2, <2>3
  <1>3. CASE ~Look(s)
    <2>1. \/ UNCHANGED errors /\ stage[s] \in Working /\ \E there : Goto(s, there)
          \/ Fails(s) /\ Goto(s, "explicit")
      BY <1>3 DEF SetupStep, WriteUnit, Reload, ReloadFails, Start, StartFails, NoStart, Path,
                  PathFails, Enable, CheckFirst, CheckAgain, Check, At, Working, setupVars
    <2>2. \A q \in Setup : q # s => stage'[q] = stage[q] /\ errors'[q] = errors[q]
      BY <2>1 DEF Goto, Fails, Proc
    <2>3. stage'[s] \in Working => ~errors'[s]
      BY <1>1, <2>1 DEF Goto, Fails, Working
    <2>. QED
      BY <2>2, <2>3
  <1>. QED
    BY <1>2, <1>3

\* What a task does is nothing to a setup.
LEMMA TasksAside ==
    ASSUME SetupTypes, NEW t \in Task, TaskStep(t)
    PROVE  /\ UNCHANGED <<subtree, running, errors>>
           /\ \A q \in Setup : stage'[q] = stage[q] /\ ok'[q] = ok[q]
  <1> USE DEF SetupTypes
  <1>1. t \notin Setup
    BY CgroupSetupAssumption
  <1>2. /\ UNCHANGED <<subtree, running, errors, ok>>
        /\ \E there : Goto(t, there)
    BY <1>1 DEF TaskStep, Begin, Mkdir, WriteMemory, WritePids, WriteLimit, Look, LookExplicit,
                LookExplicitProcs, Show, ShowFails, LookAuto, LookAutoProcs, LookUnit, Finds,
                sliceVars, setupVars
  <1>. QED
    BY <1>1, <1>2 DEF Goto, Proc

LEMMA DelegInvariance ==
    ASSUME DelegInv, [Next]_vars
    PROVE  DelegInv'
  <1>1. CASE UNCHANGED vars
    BY <1>1 DEF DelegInv, SetupTypes, Quiet, Delegating, Hopeful, vars, hostVars, sliceVars,
                taskVars, setupVars
  <1>2. CASE Next
    <2>1. SetupTypes /\ SetupTypes'
      BY <1>2, TypesKeep DEF DelegInv
    <2>2. ASSUME NEW t \in Task, TaskStep(t) PROVE DelegInv'
      <3>1. \A q \in Setup : stage'[q] \in Working => ~errors'[q]
        BY <2>1, <2>2, TasksAside DEF DelegInv
      <3>2. ASSUME Quiet' PROVE Delegating'
        <4>1. Delegating
          BY <1>2, <2>1, <3>2, QuietBefore DEF DelegInv
        <4>. QED
          BY <2>1, <2>2, <4>1, TasksAside DEF Delegating, Hopeful
      <3>. QED
        BY <2>1, <3>1, <3>2 DEF DelegInv
    <2>3. ASSUME NEW s \in Setup, SetupStep(s) PROVE DelegInv'
      <3>1. \A q \in Setup : stage'[q] \in Working => ~errors'[q]
        BY <2>1, <2>3, WorkingKeeps DEF DelegInv
      <3>2. ASSUME Quiet' PROVE Delegating'
        <4>1. /\ Quiet /\ Delegating /\ ~ShowFails(s)
              /\ ~(ReloadFails(s) \/ StartFails(s) \/ NoStart(s) \/ PathFails(s))
          BY <1>2, <2>1, <3>2, QuietBefore DEF DelegInv, Proc
        <4>2. CASE Look(s)
          BY <2>1, <3>2, <4>1, <4>2, LookKeepsHope
        <4>3. CASE ~Look(s)
          BY <2>1, <2>3, <4>1, <4>3, SetupKeepsHope DEF DelegInv
        <4>. QED
          BY <4>2, <4>3
      <3>. QED
        BY <2>1, <3>1, <3>2 DEF DelegInv
    <2>4. ASSUME OtherReload \/ Stop \/ Enter PROVE DelegInv'
      <3>1. ~Quiet'
        BY <1>2, <2>1, <2>4, QuietBefore
      <3>2. UNCHANGED <<stage, errors>>
        BY <2>4 DEF OtherReload, Stop, Enter, setupVars
      <3>. QED
        BY <2>1, <3>1, <3>2 DEF DelegInv
    <2>. QED
      BY <1>2, <2>2, <2>3, <2>4 DEF Next
  <1>. QED
    BY <1>1, <1>2

\* When every setup has returned and nobody else interfered the slice is
\* usable, and one of the setups says so, however many there are and however
\* their reloads and writes come in between (cgroup_setup.py, setup_cgroup).
THEOREM SetupsAgree == Spec => []SetupsDelegate
  <1>1. Init => DelegInv
    <2> SUFFICES ASSUME Init PROVE DelegInv
      OBVIOUS
    <2>1. SetupTypes
      BY DEF Init, SetupTypes, SetupStages
    <2>2. \A s \in Setup : stage[s] = "none" /\ ~errors[s]
      BY DEF Init, Proc
    <2>. QED
      BY <2>1, <2>2 DEF DelegInv, Delegating, Hopeful, WillEnable, Working
  <1>2. DelegInv /\ [Next]_vars => DelegInv'
    BY DelegInvariance
  <1>3. DelegInv => SetupsDelegate
    <2> SUFFICES ASSUME DelegInv, Setup # {}, \A s \in Setup : stage[s] = "done", Quiet
                 PROVE  Usable /\ \E s \in Setup : ok[s]
      BY DEF SetupsDelegate, Quiet
    <2>1. Delegating
      BY DEF DelegInv
    <2>2. running /\ subtree
      BY <2>1 DEF Delegating, WillEnable, Working
    <2>3. \E s \in Setup : ok[s]
      BY <2>1 DEF Delegating, Hopeful, WillEnable, Working, OnItsWay
    <2>. QED
      BY <2>2, <2>3 DEF Usable, Quiet
  <1>. QED
    BY <1>1, <1>2, <1>3, PTL DEF Spec

-----------------------------------------------------------------------------
(***************************************************************************)
(* Types.                                                                  *)
(***************************************************************************)

\* The rest of what the slice and the tasks are like.
TaskTypes ==
    /\ explicit \in Explicit
    /\ controllers \in BOOLEAN /\ unit \in BOOLEAN /\ procs \in BOOLEAN
    /\ leaf \in [Task -> BOOLEAN]
    /\ auto \in [Proc -> BOOLEAN]
    /\ intended \in [Task -> BOOLEAN]
    /\ limits \in [Task -> SUBSET {"memory", "pids"}] /\ lost \in [Task -> BOOLEAN]
    /\ disturbed <= MaxDisturb

\* Looking changes what one process has found (cgroup_setup.py,
\* cgroup_parent_state).
LEMMA LookTypes ==
    ASSUME SetupTypes, TaskTypes, NEW p \in Proc, Look(p)
    PROVE  TaskTypes'
  <1>1. UNCHANGED <<explicit, controllers, unit, procs, leaf, intended, limits, lost>>
    BY DEF Look, LookExplicit, LookExplicitProcs, Show, ShowFails, LookAuto, LookAutoProcs,
           LookUnit, hostVars, sliceVars, taskVars, limitVars
  <1>2. auto' \in [Proc -> BOOLEAN]
    BY DEF Look, LookExplicit, LookExplicitProcs, Show, ShowFails, LookAuto, LookAutoProcs,
           LookUnit, SetupTypes, TaskTypes
  <1>3. disturbed' = disturbed \/ Disturb
    BY DEF Look, LookExplicit, LookExplicitProcs, Show, ShowFails, LookAuto, LookAutoProcs,
           LookUnit
  <1>4. disturbed' <= MaxDisturb
    BY <1>3, CgroupSetupAssumption DEF Disturb, SetupTypes, TaskTypes
  <1>. QED
    BY <1>1, <1>2, <1>4 DEF TaskTypes

\* Every step keeps the rest of the types (cgroup_setup.py).
LEMMA TaskTypesKeep ==
    ASSUME SetupTypes, TaskTypes, Next
    PROVE  TaskTypes'
  <1>1. ASSUME NEW t \in Task, Begin(t) \/ Mkdir(t) \/ WriteMemory(t) \/ WritePids(t)
        PROVE  TaskTypes'
    <2>1. UNCHANGED <<explicit, controllers, unit, procs, auto, disturbed, lost>>
      BY <1>1 DEF Begin, Mkdir, WriteMemory, WritePids, hostVars, sliceVars, limitVars
    <2>2. leaf' \in [Task -> BOOLEAN] /\ intended' \in [Task -> BOOLEAN]
      BY <1>1 DEF Begin, Mkdir, WriteMemory, WritePids, WriteLimit, SetupTypes, TaskTypes
    <2>3. limits' \in [Task -> SUBSET {"memory", "pids"}]
      BY <1>1 DEF Begin, Mkdir, WriteMemory, WritePids, WriteLimit, TaskTypes, limitVars
    <2>. QED
      BY <2>1, <2>2, <2>3 DEF TaskTypes
  <1>2. ASSUME NEW s \in Setup, SetupStep(s), ~Look(s) PROVE TaskTypes'
    <2> DEFINE Same == /\ UNCHANGED <<explicit, controllers, procs, leaf, intended, auto>>
                       /\ Undelegate \/ UNCHANGED <<limits, lost>>
                       /\ unit' = unit \/ unit' = TRUE
                       /\ disturbed' = disturbed \/ Disturb
    <2>1. ASSUME WriteUnit(s) PROVE Same
      BY <2>1 DEF WriteUnit, hostVars, taskVars, limitVars
    <2>2. ASSUME Reload(s) \/ Start(s) \/ Path(s) PROVE Same
      BY <2>2 DEF Reload, Start, Path, hostVars, sliceVars, taskVars, limitVars
    <2>3. ASSUME ReloadFails(s) \/ StartFails(s) \/ NoStart(s) \/ PathFails(s) PROVE Same
      BY <2>3 DEF ReloadFails, StartFails, NoStart, PathFails, hostVars, sliceVars, taskVars, limitVars
    <2>4. ASSUME Enable(s) PROVE Same
      BY <2>4 DEF Enable, hostVars, taskVars, limitVars
    <2>5. ASSUME CheckFirst(s) \/ CheckAgain(s) PROVE Same
      BY <2>5 DEF CheckFirst, CheckAgain, Check, hostVars, sliceVars, taskVars, limitVars
    <2>6. Same
      BY <1>2, <2>1, <2>2, <2>3, <2>4, <2>5 DEF SetupStep
    <2>7. disturbed' <= MaxDisturb
      BY <2>6, CgroupSetupAssumption DEF Disturb, SetupTypes, TaskTypes
    <2>8. limits' \in [Task -> SUBSET {"memory", "pids"}] /\ lost' \in [Task -> BOOLEAN]
      BY <2>6 DEF Undelegate, TaskTypes
    <2>. QED
      BY <2>6, <2>7, <2>8 DEF TaskTypes
  <1>3. ASSUME OtherReload \/ Stop \/ Enter PROVE TaskTypes'
    <2>1. /\ UNCHANGED <<explicit, controllers, unit, intended, auto>>
          /\ procs' \in BOOLEAN /\ leaf' \in [Task -> BOOLEAN]
      BY <1>3 DEF OtherReload, Stop, Enter, hostVars, taskVars, TaskTypes
    <2>3. Undelegate \/ UNCHANGED <<limits, lost>>
      BY <1>3 DEF OtherReload, Stop, Enter, taskVars, limitVars
    <2>4. limits' \in [Task -> SUBSET {"memory", "pids"}] /\ lost' \in [Task -> BOOLEAN]
      BY <2>3 DEF Undelegate, TaskTypes
    <2>2. disturbed' <= MaxDisturb
      BY <1>3, CgroupSetupAssumption DEF OtherReload, Stop, Enter, Disturb, SetupTypes
    <2>. QED
      BY <2>1, <2>2, <2>4 DEF TaskTypes
  <1>. QED
    BY <1>1, <1>2, <1>3, LookTypes DEF Next, TaskStep, SetupStep, Proc

\* The types of the slice, of the setups and of the tasks are kept
\* (cgroup_setup.py).
THEOREM TypeCorrect == Spec => []TypeOK
  <1> DEFINE Types == SetupTypes /\ TaskTypes
  <1>1. Init => Types
    BY CgroupSetupAssumption DEF Init, SetupTypes, TaskTypes, SetupStages
  <1>2. Types /\ [Next]_vars => Types'
    <2>1. CASE Next
      BY <2>1, TypesKeep, TaskTypesKeep
    <2>2. CASE UNCHANGED vars
      BY <2>2 DEF vars, hostVars, sliceVars, taskVars, limitVars, setupVars, SetupTypes,
                      TaskTypes
    <2>. QED
      BY <2>1, <2>2
  <1>3. Types => TypeOK
    BY CgroupSetupAssumption DEF SetupTypes, TaskTypes, TypeOK
  <1>. QED
    BY <1>1, <1>2, <1>3, PTL DEF Spec
=============================================================================
