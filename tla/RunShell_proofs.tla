--------------------------- MODULE RunShell_proofs ---------------------------
(***************************************************************************)
(* What run_shell and the sweep guarantee for any number of workers, tasks, *)
(* namespaces, pids and faults.                                            *)
(*                                                                         *)
(* Two arguments that share their state.  A leaf goes while its task lives *)
(* only if the task has not joined it (Launch, Limits, Caps, Endings): the *)
(* order of run_shell's steps and rmdir's refusal are enough, whoever      *)
(* removes.  A leaf whose task is not orphaned belongs to a process that   *)
(* is up and has the pid in its name (Owners), so that a sweep of the same *)
(* namespace never takes it (Victims).                                     *)
(***************************************************************************)
EXTENDS RunShell, TLAPS

Early == {"none", "made", "ready"}

\* A process that is up has a pid.
Numbered == \A w \in Worker : phase[w] # "down" => id[w] \in Id

\* What a sweep is removing was left by a dead worker.
Victims ==
    \A w \in Worker :
      phase[w] \in {"kill", "rmdir"} => victim[w] \in Leaf /\ orphan[victim[w]]

\* The name of a leaf that is not orphaned is that of its owner, which is up.
Owners ==
    \A l \in Leaf :
      dir[l] /\ ~orphan[l] =>
        owner[l] \in Worker /\ phase[owner[l]] # "down" /\ id[owner[l]] = name[l]

\* Before the launch there is no process, before the join only the child, and
\* before the start no leaf.
Launch ==
    \A l \in Leaf :
      /\ stage[l] \in Early => ~joined[l] /\ tree[l] = {} /\ outcome[l] = "none"
      /\ ~joined[l] => tree[l] \subseteq {"main"}
      /\ stage[l] = "none" => ~dir[l]

\* With a cgroup parent, nothing is launched before the limits are written.
Limits ==
    Capped => \A l \in Leaf : stage[l] = "ready" \/ tree[l] # {} => limited[l]

\* What has joined a leaf keeps it there.
Caps ==
    Capped => \A l \in Leaf : joined[l] /\ tree[l] # {} => dir[l]

\* How run_shell's last steps find the task.
Endings ==
    \A l \in Leaf :
      /\ stage[l] \in {"drain", "kill", "rmdir"} => "main" \notin tree[l]
      /\ stage[l] \in {"kill", "rmdir"} => Capped
      /\ stage[l] \in {"rmdir", "kept"} => tree[l] \subseteq doomed[l]
      /\ Capped /\ stage[l] = "done" => ~dir[l] /\ tree[l] = {}

\* Nobody joins a group that was sent SIGKILL.
Group ==
    \A l \in Leaf : outcome[l] = "timeout" => tree[l] \cap InGroup \subseteq doomed[l]

IInv ==
    /\ TypeOK /\ Numbered /\ Victims /\ Owners
    /\ Launch /\ Limits /\ Caps /\ Endings /\ Group

\* The actions, by what they are about.
Comes(w) == Start(w) \/ Crash(w)
Sweeps(w) ==
    SweepList(w) \/ SweepKill(w) \/ SweepRemove(w) \/ SweepKeep(w) \/ SweepEnds(w)
Begins(w, l) == Begin(w, l) \/ MkdirFails(w, l)
Launches(l) == SetLimits(l) \/ LimitsFail(l) \/ BuildFails(l) \/ Popen(l) \/ PopenFails(l)
Waits(l) == Answer(l) \/ Timeout(l) \/ WaitRaises(l) \/ Reaped(l) \/ Drained(l)
Removes(l) == KillLeaf(l) \/ RemoveLeaf(l) \/ KeepLeaf(l)
TaskDoes(l) ==
    \/ Exec(l)
    \/ \E k \in Kinds : Spawn(l, k)
    \/ \E k \in Kind : Exit(l, k)

\* They are all there is.
LEMMA StepCases ==
    ASSUME [Next]_vars
    PROVE  \/ \E w \in Worker : Comes(w) \/ Sweeps(w)
           \/ \E w \in Worker, l \in Leaf : SweepLook(w, l) \/ Begins(w, l)
           \/ \E l \in Leaf : Launches(l) \/ Waits(l) \/ Removes(l) \/ TaskDoes(l)
           \/ ParentLost \/ ParentBack \/ UNCHANGED vars
BY DEF Next, Thread, Sweep, Comes, Sweeps, Begins, Launches, Waits, Removes, TaskDoes

\* Every step keeps the types.
LEMMA TypeStep ==
    ASSUME TypeOK, Numbered, [Next]_vars
    PROVE  TypeOK'
<1> USE RunShellAssumption DEF envVars, sweepVars, leafVars, taskVars
<1>1. ASSUME NEW w \in Worker, Comes(w) PROVE TypeOK'
  <2>1. CASE Start(w)
    BY <2>1 DEF TypeOK, Kind, Start
  <2>2. CASE Crash(w)
    BY <2>2 DEF TypeOK, Kind, Crash, Fault
  <2> QED  BY <1>1, <2>1, <2>2 DEF Comes
<1>2. ASSUME NEW w \in Worker, Sweeps(w) PROVE TypeOK'
  <2>1. CASE SweepList(w)
    BY <2>1 DEF TypeOK, Kind, SweepList
  <2>2. CASE SweepKill(w)
    BY <2>2 DEF TypeOK, Kind, SweepKill, Kill, Members
  <2>3. CASE SweepRemove(w)
    BY <2>3 DEF TypeOK, Kind, SweepRemove, Members
  <2>4. CASE SweepKeep(w)
    BY <2>4 DEF TypeOK, Kind, SweepKeep, Busy, Fault
  <2>5. CASE SweepEnds(w)
    BY <2>5 DEF TypeOK, Kind, SweepEnds
  <2> QED  BY <1>2, <2>1, <2>2, <2>3, <2>4, <2>5 DEF Sweeps
<1>3. ASSUME NEW w \in Worker, NEW m \in Leaf, SweepLook(w, m) PROVE TypeOK'
  BY <1>3 DEF TypeOK, Kind, SweepLook, Alive, Ours, Members
<1>4. ASSUME NEW w \in Worker, NEW m \in Leaf, Begins(w, m) PROVE TypeOK'
  <2>1. CASE Begin(w, m)
    <3>1. id[w] \in Id /\ owner' \in [Leaf -> Worker \cup {NoWorker}]
      BY <2>1 DEF TypeOK, Numbered, Begin
    <3>2. CASE parent = "usable"
      BY <2>1, <3>1, <3>2 DEF TypeOK, Begin, Goto
    <3>3. CASE parent # "usable"
      BY <2>1, <3>1, <3>3 DEF TypeOK, Begin, Goto, Ends
    <3> QED  BY <3>2, <3>3
  <2>2. CASE MkdirFails(w, m)
    BY <2>2 DEF TypeOK, Kind, MkdirFails, Goto, Ends, Fault
  <2> QED  BY <1>4, <2>1, <2>2 DEF Begins
<1>5. ASSUME NEW m \in Leaf, Launches(m) PROVE TypeOK'
  <2>1. CASE SetLimits(m)
    BY <2>1 DEF TypeOK, Kind, SetLimits, Goto
  <2>2. CASE LimitsFail(m)
    BY <2>2 DEF TypeOK, Kind, LimitsFail, Goto, Ends, Fault
  <2>3. CASE BuildFails(m)
    BY <2>3 DEF TypeOK, Kind, BuildFails, Goto, Ends, Fault, Cleanup
  <2>4. CASE Popen(m)
    BY <2>4 DEF TypeOK, Kind, Popen, Goto
  <2>5. CASE PopenFails(m)
    BY <2>5 DEF TypeOK, Kind, PopenFails, Goto, Ends, Fault, Cleanup
  <2> QED  BY <1>5, <2>1, <2>2, <2>3, <2>4, <2>5 DEF Launches
<1>6. ASSUME NEW m \in Leaf, Waits(m) PROVE TypeOK'
  <2>1. CASE Answer(m)
    BY <2>1 DEF TypeOK, Kind, Answer, Goto, Ends, Cleanup
  <2>2. CASE Timeout(m)
    BY <2>2 DEF TypeOK, Kind, Timeout, Goto, Ends, Kill
  <2>3. CASE WaitRaises(m)
    BY <2>3 DEF TypeOK, Kind, WaitRaises, Goto, Ends, Kill, Fault
  <2>4. CASE Reaped(m)
    BY <2>4 DEF TypeOK, Kind, Reaped, Goto, Cleanup
  <2>5. CASE Drained(m)
    BY <2>5 DEF TypeOK, Kind, Drained, Goto, Cleanup
  <2> QED  BY <1>6, <2>1, <2>2, <2>3, <2>4, <2>5 DEF Waits
<1>7. ASSUME NEW m \in Leaf, Removes(m) PROVE TypeOK'
  <2>1. CASE KillLeaf(m)
    BY <2>1 DEF TypeOK, Kind, KillLeaf, Goto, Kill, Members
  <2>2. CASE RemoveLeaf(m)
    BY <2>2 DEF TypeOK, Kind, RemoveLeaf, Goto, Members
  <2>3. CASE KeepLeaf(m)
    BY <2>3 DEF TypeOK, Kind, KeepLeaf, Goto, Busy, Fault, Members
  <2> QED  BY <1>7, <2>1, <2>2, <2>3 DEF Removes
<1>8. ASSUME NEW m \in Leaf, TaskDoes(m) PROVE TypeOK'
  <2>1. CASE Exec(m)
    <3>1. CASE Capped => dir[m]
      BY <2>1, <3>1 DEF TypeOK, Exec
    <3>2. CASE ~(Capped => dir[m])
      BY <2>1, <3>2 DEF TypeOK, Exec, Ends
    <3> QED  BY <3>1, <3>2
  <2>2. ASSUME NEW k \in Kinds, Spawn(m, k) PROVE TypeOK'
    BY <2>2 DEF TypeOK, Kind, Spawn
  <2>3. ASSUME NEW k \in Kind, Exit(m, k) PROVE TypeOK'
    BY <2>3 DEF TypeOK, Kind, Exit
  <2> QED  BY <1>8, <2>1, <2>2, <2>3 DEF TaskDoes
<1>9. CASE ParentLost \/ ParentBack \/ UNCHANGED vars
  BY <1>9 DEF TypeOK, Kind, ParentLost, ParentBack, Fault, vars
<1> QED  BY StepCases, <1>1, <1>2, <1>3, <1>4, <1>5, <1>6, <1>7, <1>8, <1>9

\* Pids are given at the start and last until the crash.
LEMMA NumberedStep ==
    ASSUME TypeOK, Numbered, [Next]_vars
    PROVE  Numbered'
<1> USE RunShellAssumption DEF envVars, sweepVars, leafVars, taskVars
<1>1. ASSUME NEW w \in Worker, Comes(w) PROVE Numbered'
  BY <1>1 DEF TypeOK, Numbered, Comes, Start, Crash, Fault
<1>2. ASSUME NEW w \in Worker, Sweeps(w) PROVE Numbered'
  BY <1>2 DEF TypeOK, Numbered, Sweeps, SweepList, SweepKill, SweepRemove,
         SweepKeep, SweepEnds, Kill, Members, Busy, Fault
<1>3. ASSUME NEW w \in Worker, NEW m \in Leaf, SweepLook(w, m) PROVE Numbered'
  BY <1>3 DEF TypeOK, Numbered, SweepLook, Alive, Ours, Members
<1>4. ASSUME NEW w \in Worker, NEW m \in Leaf, Begins(w, m) PROVE Numbered'
  BY <1>4 DEF TypeOK, Numbered, Begins, Begin, MkdirFails, Goto, Ends, Fault
<1>5. ASSUME NEW m \in Leaf, Launches(m) PROVE Numbered'
  BY <1>5 DEF TypeOK, Numbered, Launches, SetLimits, LimitsFail, BuildFails, Popen,
         PopenFails, Goto, Ends, Fault, Cleanup
<1>6. ASSUME NEW m \in Leaf, Waits(m) PROVE Numbered'
  BY <1>6 DEF TypeOK, Numbered, Waits, Answer, Timeout, WaitRaises, Reaped, Drained,
         Goto, Ends, Cleanup, Kill, Fault
<1>7. ASSUME NEW m \in Leaf, Removes(m) PROVE Numbered'
  BY <1>7 DEF TypeOK, Numbered, Removes, KillLeaf, RemoveLeaf, KeepLeaf, Goto, Kill,
         Members, Busy, Fault
<1>8. ASSUME NEW m \in Leaf, TaskDoes(m) PROVE Numbered'
  BY <1>8 DEF TypeOK, Numbered, TaskDoes, Exec, Spawn, Exit, Ends
<1>9. CASE ParentLost \/ ParentBack \/ UNCHANGED vars
  BY <1>9 DEF TypeOK, Numbered, ParentLost, ParentBack, Fault, vars
<1> QED  BY StepCases, <1>1, <1>2, <1>3, <1>4, <1>5, <1>6, <1>7, <1>8, <1>9

\* A leaf that Ours and a dead pid select is an orphan's, by Owners, and stays one.
LEMMA VictimsStep ==
    ASSUME TypeOK, Victims, Owners, [Next]_vars
    PROVE  Victims'
<1> USE RunShellAssumption DEF envVars, sweepVars, leafVars, taskVars
<1>1. ASSUME NEW w \in Worker, Comes(w) PROVE Victims'
  BY <1>1 DEF TypeOK, Victims, Comes, Start, Crash, Fault
<1>2. ASSUME NEW w \in Worker, Sweeps(w) PROVE Victims'
  BY <1>2 DEF TypeOK, Victims, Sweeps, SweepList, SweepKill, SweepRemove, SweepKeep,
         SweepEnds, Kill, Members, Busy, Fault
<1>3. ASSUME NEW w \in Worker, NEW m \in Leaf, SweepLook(w, m) PROVE Victims'
  BY <1>3 DEF TypeOK, Victims, SweepLook, Alive, Ours, Members, Owners, Id
<1>4. ASSUME NEW w \in Worker, NEW m \in Leaf, Begins(w, m) PROVE Victims'
  BY <1>4 DEF TypeOK, Victims, Begins, Begin, MkdirFails, Goto, Ends, Fault
<1>5. ASSUME NEW m \in Leaf, Launches(m) PROVE Victims'
  BY <1>5 DEF TypeOK, Victims, Launches, SetLimits, LimitsFail, BuildFails, Popen,
         PopenFails, Goto, Ends, Fault, Cleanup
<1>6. ASSUME NEW m \in Leaf, Waits(m) PROVE Victims'
  BY <1>6 DEF TypeOK, Victims, Waits, Answer, Timeout, WaitRaises, Reaped, Drained,
         Goto, Ends, Cleanup, Kill, Fault
<1>7. ASSUME NEW m \in Leaf, Removes(m) PROVE Victims'
  BY <1>7 DEF TypeOK, Victims, Removes, KillLeaf, RemoveLeaf, KeepLeaf, Goto, Kill,
         Members, Busy, Fault
<1>8. ASSUME NEW m \in Leaf, TaskDoes(m) PROVE Victims'
  BY <1>8 DEF TypeOK, Victims, TaskDoes, Exec, Spawn, Exit, Ends
<1>9. CASE ParentLost \/ ParentBack \/ UNCHANGED vars
  BY <1>9 DEF TypeOK, Victims, ParentLost, ParentBack, Fault, vars
<1> QED  BY StepCases, <1>1, <1>2, <1>3, <1>4, <1>5, <1>6, <1>7, <1>8, <1>9

\* A leaf is given its owner's name; the owner's end makes it an orphan.
LEMMA OwnersStep ==
    ASSUME TypeOK, Owners, Launch, [Next]_vars
    PROVE  Owners'
<1> USE RunShellAssumption DEF envVars, sweepVars, leafVars, taskVars
<1>1. ASSUME NEW w \in Worker, Comes(w) PROVE Owners'
  BY <1>1 DEF TypeOK, Owners, Launch, Comes, Start, Crash, Fault
<1>2. ASSUME NEW w \in Worker, Sweeps(w) PROVE Owners'
  BY <1>2 DEF TypeOK, Owners, Launch, Sweeps, SweepList, SweepKill, SweepRemove,
         SweepKeep, SweepEnds, Kill, Members, Busy, Fault
<1>3. ASSUME NEW w \in Worker, NEW m \in Leaf, SweepLook(w, m) PROVE Owners'
  BY <1>3 DEF TypeOK, Owners, Launch, SweepLook, Alive, Ours, Members
<1>4. ASSUME NEW w \in Worker, NEW m \in Leaf, Begins(w, m) PROVE Owners'
  BY <1>4 DEF TypeOK, Owners, Launch, Begins, Begin, MkdirFails, Goto, Ends, Fault
<1>5. ASSUME NEW m \in Leaf, Launches(m) PROVE Owners'
  BY <1>5 DEF TypeOK, Owners, Launch, Launches, SetLimits, LimitsFail, BuildFails,
         Popen, PopenFails, Goto, Ends, Fault, Cleanup
<1>6. ASSUME NEW m \in Leaf, Waits(m) PROVE Owners'
  BY <1>6 DEF TypeOK, Owners, Launch, Waits, Answer, Timeout, WaitRaises, Reaped,
         Drained, Goto, Ends, Cleanup, Kill, Fault
<1>7. ASSUME NEW m \in Leaf, Removes(m) PROVE Owners'
  BY <1>7 DEF TypeOK, Owners, Launch, Removes, KillLeaf, RemoveLeaf, KeepLeaf, Goto,
         Kill, Members, Busy, Fault
<1>8. ASSUME NEW m \in Leaf, TaskDoes(m) PROVE Owners'
  BY <1>8 DEF TypeOK, Owners, Launch, TaskDoes, Exec, Spawn, Exit, Ends
<1>9. CASE ParentLost \/ ParentBack \/ UNCHANGED vars
  BY <1>9 DEF TypeOK, Owners, Launch, ParentLost, ParentBack, Fault, vars
<1> QED  BY StepCases, <1>1, <1>2, <1>3, <1>4, <1>5, <1>6, <1>7, <1>8, <1>9

\* The child is the first process, and joins before it does anything else.
LEMMA LaunchStep ==
    ASSUME TypeOK, Launch, [Next]_vars
    PROVE  Launch'
<1> USE RunShellAssumption DEF envVars, sweepVars, leafVars, taskVars
<1>1. ASSUME NEW w \in Worker, Comes(w) PROVE Launch'
  BY <1>1 DEF TypeOK, Launch, Early, Kind, Comes, Start, Crash, Fault
<1>2. ASSUME NEW w \in Worker, Sweeps(w) PROVE Launch'
  BY <1>2 DEF TypeOK, Launch, Early, Kind, Sweeps, SweepList, SweepKill,
         SweepRemove, SweepKeep, SweepEnds, Kill, Members, Busy, Fault
<1>3. ASSUME NEW w \in Worker, NEW m \in Leaf, SweepLook(w, m) PROVE Launch'
  BY <1>3 DEF TypeOK, Launch, Early, Kind, SweepLook, Alive, Ours, Members
<1>4. ASSUME NEW w \in Worker, NEW m \in Leaf, Begins(w, m) PROVE Launch'
  BY <1>4 DEF TypeOK, Launch, Early, Kind, Begins, Begin, MkdirFails, Goto, Ends,
         Fault
<1>5. ASSUME NEW m \in Leaf, Launches(m) PROVE Launch'
  BY <1>5 DEF TypeOK, Launch, Early, Kind, Launches, SetLimits, LimitsFail,
         BuildFails, Popen, PopenFails, Goto, Ends, Fault, Cleanup
<1>6. ASSUME NEW m \in Leaf, Waits(m) PROVE Launch'
  BY <1>6 DEF TypeOK, Launch, Early, Kind, Waits, Answer, Timeout, WaitRaises,
         Reaped, Drained, Goto, Ends, Cleanup, Kill, Fault
<1>7. ASSUME NEW m \in Leaf, Removes(m) PROVE Launch'
  BY <1>7 DEF TypeOK, Launch, Early, Kind, Removes, KillLeaf, RemoveLeaf, KeepLeaf,
         Goto, Kill, Members, Busy, Fault
<1>8. ASSUME NEW m \in Leaf, TaskDoes(m) PROVE Launch'
  BY <1>8 DEF TypeOK, Launch, Early, Kind, TaskDoes, Exec, Spawn, Exit, Ends
<1>9. CASE ParentLost \/ ParentBack \/ UNCHANGED vars
  BY <1>9 DEF TypeOK, Launch, Early, Kind, ParentLost, ParentBack, Fault, vars
<1> QED  BY StepCases, <1>1, <1>2, <1>3, <1>4, <1>5, <1>6, <1>7, <1>8, <1>9

\* The limits are written on the only way from made to ready.
LEMMA LimitsStep ==
    ASSUME TypeOK, Launch, Limits, [Next]_vars
    PROVE  Limits'
<1> USE RunShellAssumption DEF envVars, sweepVars, leafVars, taskVars
<1>1. ASSUME NEW w \in Worker, Comes(w) PROVE Limits'
  BY <1>1 DEF TypeOK, Launch, Early, Limits, Capped, Kind, Comes, Start, Crash,
         Fault
<1>2. ASSUME NEW w \in Worker, Sweeps(w) PROVE Limits'
  BY <1>2 DEF TypeOK, Launch, Early, Limits, Capped, Kind, Sweeps, SweepList,
         SweepKill, SweepRemove, SweepKeep, SweepEnds, Kill, Members, Busy, Fault
<1>3. ASSUME NEW w \in Worker, NEW m \in Leaf, SweepLook(w, m) PROVE Limits'
  BY <1>3 DEF TypeOK, Launch, Early, Limits, Capped, Kind, SweepLook, Alive, Ours,
         Members
<1>4. ASSUME NEW w \in Worker, NEW m \in Leaf, Begins(w, m) PROVE Limits'
  BY <1>4 DEF TypeOK, Launch, Early, Limits, Capped, Kind, Begins, Begin,
         MkdirFails, Goto, Ends, Fault
<1>5. ASSUME NEW m \in Leaf, Launches(m) PROVE Limits'
  BY <1>5 DEF TypeOK, Launch, Early, Limits, Capped, Kind, Launches, SetLimits,
         LimitsFail, BuildFails, Popen, PopenFails, Goto, Ends, Fault, Cleanup
<1>6. ASSUME NEW m \in Leaf, Waits(m) PROVE Limits'
  BY <1>6 DEF TypeOK, Launch, Early, Limits, Capped, Kind, Waits, Answer, Timeout,
         WaitRaises, Reaped, Drained, Goto, Ends, Cleanup, Kill, Fault
<1>7. ASSUME NEW m \in Leaf, Removes(m) PROVE Limits'
  BY <1>7 DEF TypeOK, Launch, Early, Limits, Capped, Kind, Removes, KillLeaf,
         RemoveLeaf, KeepLeaf, Goto, Kill, Members, Busy, Fault
<1>8. ASSUME NEW m \in Leaf, TaskDoes(m) PROVE Limits'
  BY <1>8 DEF TypeOK, Launch, Early, Limits, Capped, Kind, TaskDoes, Exec, Spawn,
         Exit, Ends
<1>9. CASE ParentLost \/ ParentBack \/ UNCHANGED vars
  BY <1>9 DEF TypeOK, Launch, Early, Limits, Capped, Kind, ParentLost, ParentBack,
         Fault, vars
<1> QED  BY StepCases, <1>1, <1>2, <1>3, <1>4, <1>5, <1>6, <1>7, <1>8, <1>9

\* rmdir does not remove a leaf with members, and what joins finds it there.
LEMMA CapsStep ==
    ASSUME TypeOK, Launch, Caps, [Next]_vars
    PROVE  Caps'
<1> USE RunShellAssumption DEF envVars, sweepVars, leafVars, taskVars
<1>1. ASSUME NEW w \in Worker, Comes(w) PROVE Caps'
  BY <1>1 DEF TypeOK, Launch, Early, Caps, Capped, Kind, Comes, Start, Crash, Fault
<1>2. ASSUME NEW w \in Worker, Sweeps(w) PROVE Caps'
  BY <1>2 DEF TypeOK, Launch, Early, Caps, Capped, Kind, Sweeps, SweepList,
         SweepKill, SweepRemove, SweepKeep, SweepEnds, Kill, Members, Busy, Fault
<1>3. ASSUME NEW w \in Worker, NEW m \in Leaf, SweepLook(w, m) PROVE Caps'
  BY <1>3 DEF TypeOK, Launch, Early, Caps, Capped, Kind, SweepLook, Alive, Ours,
         Members
<1>4. ASSUME NEW w \in Worker, NEW m \in Leaf, Begins(w, m) PROVE Caps'
  BY <1>4 DEF TypeOK, Launch, Early, Caps, Capped, Kind, Begins, Begin, MkdirFails,
         Goto, Ends, Fault
<1>5. ASSUME NEW m \in Leaf, Launches(m) PROVE Caps'
  BY <1>5 DEF TypeOK, Launch, Early, Caps, Capped, Kind, Launches, SetLimits,
         LimitsFail, BuildFails, Popen, PopenFails, Goto, Ends, Fault, Cleanup
<1>6. ASSUME NEW m \in Leaf, Waits(m) PROVE Caps'
  BY <1>6 DEF TypeOK, Launch, Early, Caps, Capped, Kind, Waits, Answer, Timeout,
         WaitRaises, Reaped, Drained, Goto, Ends, Cleanup, Kill, Fault
<1>7. ASSUME NEW m \in Leaf, Removes(m) PROVE Caps'
  BY <1>7 DEF TypeOK, Launch, Early, Caps, Capped, Kind, Removes, KillLeaf,
         RemoveLeaf, KeepLeaf, Goto, Kill, Members, Busy, Fault
<1>8. ASSUME NEW m \in Leaf, TaskDoes(m) PROVE Caps'
  BY <1>8 DEF TypeOK, Launch, Early, Caps, Capped, Kind, TaskDoes, Exec, Spawn,
         Exit, Ends
<1>9. CASE ParentLost \/ ParentBack \/ UNCHANGED vars
  BY <1>9 DEF TypeOK, Launch, Early, Caps, Capped, Kind, ParentLost, ParentBack,
         Fault, vars
<1> QED  BY StepCases, <1>1, <1>2, <1>3, <1>4, <1>5, <1>6, <1>7, <1>8, <1>9

\* After the wait the child is gone, after cgroup.kill all live processes are doomed,
\* and the doomed start nothing.
LEMMA EndingsStep ==
    ASSUME TypeOK, Launch, Caps, Endings, [Next]_vars
    PROVE  Endings'
<1> USE RunShellAssumption DEF envVars, sweepVars, leafVars, taskVars
<1>1. ASSUME NEW w \in Worker, Comes(w) PROVE Endings'
  BY <1>1 DEF TypeOK, Launch, Early, Caps, Endings, Capped, Kind, Comes, Start,
         Crash, Fault
<1>2. ASSUME NEW w \in Worker, Sweeps(w) PROVE Endings'
  BY <1>2 DEF TypeOK, Launch, Early, Caps, Endings, Capped, Kind, Sweeps, SweepList,
         SweepKill, SweepRemove, SweepKeep, SweepEnds, Kill, Members, Busy, Fault
<1>3. ASSUME NEW w \in Worker, NEW m \in Leaf, SweepLook(w, m) PROVE Endings'
  BY <1>3 DEF TypeOK, Launch, Early, Caps, Endings, Capped, Kind, SweepLook, Alive,
         Ours, Members
<1>4. ASSUME NEW w \in Worker, NEW m \in Leaf, Begins(w, m) PROVE Endings'
  BY <1>4 DEF TypeOK, Launch, Early, Caps, Endings, Capped, Kind, Begins, Begin,
         MkdirFails, Goto, Ends, Fault
<1>5. ASSUME NEW m \in Leaf, Launches(m) PROVE Endings'
  BY <1>5 DEF TypeOK, Launch, Early, Caps, Endings, Capped, Kind, Launches,
         SetLimits, LimitsFail, BuildFails, Popen, PopenFails, Goto, Ends, Fault,
         Cleanup
<1>6. ASSUME NEW m \in Leaf, Waits(m) PROVE Endings'
  BY <1>6 DEF TypeOK, Launch, Early, Caps, Endings, Capped, Kind, Waits, Answer,
         Timeout, WaitRaises, Reaped, Drained, Goto, Ends, Cleanup, HoldsPipe, Kill,
         Fault
<1>7. ASSUME NEW m \in Leaf, Removes(m) PROVE Endings'
  BY <1>7 DEF TypeOK, Launch, Early, Caps, Endings, Capped, Kind, Removes, KillLeaf,
         RemoveLeaf, KeepLeaf, Goto, Kill, Members, Busy, Fault
<1>8. ASSUME NEW m \in Leaf, TaskDoes(m) PROVE Endings'
  BY <1>8 DEF TypeOK, Launch, Early, Caps, Endings, Capped, Kind, TaskDoes, Exec,
         Spawn, Exit, Ends
<1>9. CASE ParentLost \/ ParentBack \/ UNCHANGED vars
  BY <1>9 DEF TypeOK, Launch, Early, Caps, Endings, Capped, Kind, ParentLost,
         ParentBack, Fault, vars
<1> QED  BY StepCases, <1>1, <1>2, <1>3, <1>4, <1>5, <1>6, <1>7, <1>8, <1>9

\* What is in the group was started by something in the group.
LEMMA GroupStep ==
    ASSUME TypeOK, Launch, Group, [Next]_vars
    PROVE  Group'
<1> USE RunShellAssumption DEF envVars, sweepVars, leafVars, taskVars
<1>1. ASSUME NEW w \in Worker, Comes(w) PROVE Group'
  BY <1>1 DEF TypeOK, Launch, Early, Group, InGroup, Comes, Start, Crash, Fault
<1>2. ASSUME NEW w \in Worker, Sweeps(w) PROVE Group'
  BY <1>2 DEF TypeOK, Launch, Early, Group, InGroup, Sweeps, SweepList, SweepKill,
         SweepRemove, SweepKeep, SweepEnds, Kill, Members, Busy, Fault
<1>3. ASSUME NEW w \in Worker, NEW m \in Leaf, SweepLook(w, m) PROVE Group'
  BY <1>3 DEF TypeOK, Launch, Early, Group, InGroup, SweepLook, Alive, Ours, Members
<1>4. ASSUME NEW w \in Worker, NEW m \in Leaf, Begins(w, m) PROVE Group'
  BY <1>4 DEF TypeOK, Launch, Early, Group, InGroup, Begins, Begin, MkdirFails,
         Goto, Ends, Fault
<1>5. ASSUME NEW m \in Leaf, Launches(m) PROVE Group'
  BY <1>5 DEF TypeOK, Launch, Early, Group, InGroup, Launches, SetLimits,
         LimitsFail, BuildFails, Popen, PopenFails, Goto, Ends, Fault, Cleanup
<1>6. ASSUME NEW m \in Leaf, Waits(m) PROVE Group'
  BY <1>6 DEF TypeOK, Launch, Early, Group, InGroup, Waits, Answer, Timeout,
         WaitRaises, Reaped, Drained, Goto, Ends, Cleanup, Kill, Fault
<1>7. ASSUME NEW m \in Leaf, Removes(m) PROVE Group'
  BY <1>7 DEF TypeOK, Launch, Early, Group, InGroup, Removes, KillLeaf, RemoveLeaf,
         KeepLeaf, Goto, Kill, Members, Busy, Fault
<1>8. ASSUME NEW m \in Leaf, TaskDoes(m) PROVE Group'
  BY <1>8 DEF TypeOK, Launch, Early, Group, InGroup, TaskDoes, Exec, Spawn, Exit,
         Ends
<1>9. CASE ParentLost \/ ParentBack \/ UNCHANGED vars
  BY <1>9 DEF TypeOK, Launch, Early, Group, InGroup, ParentLost, ParentBack, Fault,
         vars
<1> QED  BY StepCases, <1>1, <1>2, <1>3, <1>4, <1>5, <1>6, <1>7, <1>8, <1>9

\* The invariant holds in every initial state ...
LEMMA IInvInitially == Init => IInv
BY RunShellAssumption
DEF Init, IInv, TypeOK, Numbered, Victims, Owners, Launch, Limits, Caps, Endings, Group,
    Early, Kind

\* ... and is kept by every step.
LEMMA IInvInductive == IInv /\ [Next]_vars => IInv'
BY TypeStep, NumberedStep, VictimsStep, OwnersStep, LaunchStep, LimitsStep, CapsStep,
   EndingsStep, GroupStep
DEF IInv

LEMMA Invariance == Spec => []IInv
BY IInvInitially, IInvInductive, PTL DEF Spec

\* A task runs in a leaf with its limits or, when a parent is configured, not at
\* all, whatever sweeps, crashes and errors come in between (sandbox.py,
\* _limits_context and _CGROUP_JOIN_SH).
THEOREM RunsAreCapped == Spec => []CappedOrRefused
<1>1. IInv => CappedOrRefused
  BY DEF IInv, Limits, Caps, CappedOrRefused
<1> QED  BY <1>1, Invariance, PTL

\* Every way out of run_shell removes the leaf, or has killed what is in it
\* (sandbox.py, run_shell and _kill_and_remove_leaf).
THEOREM LeavesAreReleased == Spec => []LeafReleased
<1>1. IInv => LeafReleased
  BY DEF IInv, Endings, LeafReleased
<1> QED  BY <1>1, Invariance, PTL

\* A timeout leaves nothing of the group that was not sent SIGKILL (sandbox.py,
\* _kill_process_group).
THEOREM TimeoutsKillTheGroup == Spec => []TimeoutKillsGroup
<1>1. IInv => TimeoutKillsGroup
  BY DEF IInv, Group, TimeoutKillsGroup
<1> QED  BY <1>1, Invariance, PTL

\* The steps of l's own thread that kill: a timeout or an error of the wait, and
\* the release of the leaf.
OwnKill(l) ==
    \/ stage[l] = "wait" /\ stage'[l] = "reap"
    \/ stage[l] = "kill" /\ stage'[l] = "rmdir"

\* A step that kills a process whose worker lives is that worker's own.
LEMMA KillsAreOwn ==
    ASSUME IInv, [Next]_vars, NEW l \in Leaf,
           ~(doomed'[l] \subseteq doomed[l]), ~orphan[l]
    PROVE  OwnKill(l)
<1> USE DEF envVars, sweepVars, leafVars, taskVars
<1>1. ASSUME NEW w \in Worker, Comes(w) \/ Sweeps(w) PROVE OwnKill(l)
  BY <1>1 DEF IInv, TypeOK, Victims, Comes, Start, Crash, Sweeps, SweepList, SweepKill,
              SweepRemove, SweepKeep, SweepEnds, Kill
<1>2. ASSUME NEW w \in Worker, NEW m \in Leaf, SweepLook(w, m) \/ Begins(w, m)
      PROVE  OwnKill(l)
  BY <1>2 DEF SweepLook, Begins, Begin, MkdirFails
<1>3. ASSUME NEW m \in Leaf, Launches(m) \/ TaskDoes(m)
      PROVE  OwnKill(l)
  BY <1>3 DEF IInv, TypeOK, Launches, SetLimits, LimitsFail, BuildFails, Popen,
              PopenFails, TaskDoes, Exec, Spawn, Exit
<1>4. ASSUME NEW m \in Leaf, Waits(m) \/ Removes(m) PROVE OwnKill(l)
  BY <1>4 DEF IInv, TypeOK, Waits, Answer, Timeout, WaitRaises, Reaped, Drained, Removes,
              KillLeaf, RemoveLeaf, KeepLeaf, Kill, Goto, OwnKill
<1>5. CASE ParentLost \/ ParentBack \/ UNCHANGED vars
  BY <1>5 DEF ParentLost, ParentBack, vars
<1> QED  BY StepCases, <1>1, <1>2, <1>3, <1>4, <1>5

\* No sweep kills a process of a task whose worker lives, however pids are used
\* again and whatever namespaces there are (sandbox.py, sweep_stale_cgroup_leaves).
THEOREM LiveTasksAreNotSwept == Spec => OnlyOrphansAreSwept
<1>1. IInv /\ [Next]_vars =>
        [\A l \in Leaf : ~(doomed'[l] \subseteq doomed[l]) /\ ~orphan[l] =>
           \/ stage[l] = "wait" /\ stage'[l] = "reap"
           \/ stage[l] = "kill" /\ stage'[l] = "rmdir"]_vars
  BY KillsAreOwn DEF OwnKill
<1> QED  BY <1>1, Invariance, PTL DEF Spec, OnlyOrphansAreSwept

\* When a leaf of a living worker may go.
Goes(l) ==
    \/ stage[l] \in {"made", "rmdir"} /\ stage'[l] = "done"
    \/ /\ ~joined[l] \/ tree[l] = {}
       /\ \E w \in Worker : phase[w] = "look" /\ id[w].ns # name[l].ns

\* A step that removes the leaf of a living worker is its thread's, or a sweep's
\* from another namespace.
LEMMA RemovalsAreOwn ==
    ASSUME IInv, [Next]_vars, NEW l \in Leaf, dir[l], ~dir'[l], ~orphan[l]
    PROVE  Goes(l)
<1> USE DEF envVars, sweepVars, leafVars, taskVars
<1>1. ASSUME NEW w \in Worker, Comes(w) \/ Sweeps(w) PROVE Goes(l)
  BY <1>1 DEF IInv, TypeOK, Victims, Comes, Start, Crash, Sweeps, SweepList, SweepKill,
              SweepRemove, SweepKeep, SweepEnds
<1>2. ASSUME NEW w \in Worker, NEW m \in Leaf, SweepLook(w, m) PROVE Goes(l)
  BY <1>2 DEF IInv, TypeOK, SweepLook, Ours, Members, Goes
<1>3. ASSUME NEW w \in Worker, NEW m \in Leaf, Begins(w, m) PROVE Goes(l)
  BY <1>3 DEF IInv, TypeOK, Begins, Begin, MkdirFails
<1>4. ASSUME NEW m \in Leaf, Launches(m) \/ Removes(m) PROVE Goes(l)
  BY <1>4 DEF IInv, TypeOK, Launches, SetLimits, LimitsFail, BuildFails, Popen,
              PopenFails, Removes, KillLeaf, RemoveLeaf, KeepLeaf, Goto, Goes
<1>5. ASSUME NEW m \in Leaf, Waits(m) \/ TaskDoes(m) PROVE Goes(l)
  BY <1>5 DEF Waits, Answer, Timeout, WaitRaises, Reaped, Drained, TaskDoes, Exec,
              Spawn, Exit
<1>6. CASE ParentLost \/ ParentBack \/ UNCHANGED vars
  BY <1>6 DEF ParentLost, ParentBack, vars
<1> QED  BY StepCases, <1>1, <1>2, <1>3, <1>4, <1>5, <1>6

\* A sibling never loses the leaf of a task that has joined it, nor to a sweep of
\* its own namespace (sandbox.py, sweep_stale_cgroup_leaves).
THEOREM LiveLeavesStay == Spec => LiveLeafStays
<1>1. IInv /\ [Next]_vars =>
        [\A l \in Leaf : dir[l] /\ ~dir'[l] /\ ~orphan[l] => Goes(l)]_vars
  BY RemovalsAreOwn
<1> QED  BY <1>1, Invariance, PTL DEF Spec, LiveLeafStays, Goes
=============================================================================
