--------------------------- MODULE TaskScan_proofs ---------------------------
(***************************************************************************)
(* Proofs about TaskScan: the walk is where the shell is for as long as the *)
(* shell takes the cd statements the walk follows, whatever the variables,  *)
(* directories, policies, words and joins; and the answer lets no finding   *)
(* pass that nothing excuses.                                               *)
(***************************************************************************)
EXTENDS TaskScan, TLAPS

\* What the variables range over, as far as the argument needs it.
Typed ==
    /\ host \in Hosts
    /\ cwd \in Dir
    /\ assigned \in [Name -> Path \cup {Unset}]
    /\ env \in [Name -> Path \cup {Unset}]
    /\ trackedOf \subseteq Name

\* A variable the shell set as the walk did has a value, the same in both.
VariablesFollow == \A n \in trackedOf : env[n] # Unset /\ Lookup(n) = env[n]

\* If the shell took every cd, the directory of the walk is the shell's.
DirectoryFollows == tracked => known = cwd

\* A verb that is not refused was not to be.
ReadOnlyStops == last = "tree" /\ verdict = "reading" => ~Blocked

\* What the walk refused, it had to; and its refusal is kept in the answer.
RefusalHolds ==
    /\ verdict \in {"refused", "tree_rewrite"} => last \in {"tree", "skipped"} /\ Blocked
    /\ verdict = "runs" /\ text.enabled /\ last = "tree" => ~Blocked

IInv == Typed /\ VariablesFollow /\ DirectoryFollows /\ ReadOnlyStops /\ RefusalHolds

-----------------------------------------------------------------------------

\* A path extended by components is a path: never "no value".
LEMMA ExtendType ==
    ASSUME NEW v \in Path, NEW seg \in Dir
    PROVE  Extend(v, seg) \in Path
  BY DEF Extend, Path, Dir

\* The two expansions of a word whose variable is tracked are one path.
LEMMA ExpansionsAgree ==
    ASSUME Typed, VariablesFollow, NEW w \in Word, Tracks(w)
    PROVE  Expand(w) = ShellExpand(w) /\ Expand(w) \in Path
  <1> USE TaskScanAssumption
  <1>0. w \in [name : Name \cup {NoName}, lit : Path]
    OBVIOUS
  <1>1. CASE w.name = NoName
    BY <1>0, <1>1 DEF Expand, ShellExpand
  <1>2. CASE w.name # NoName
    <2>1. w.name \in trackedOf /\ w.lit.seg \in Dir
      BY <1>0, <1>2 DEF Tracks, Path
    <2>2. env[w.name] # Unset /\ Lookup(w.name) = env[w.name] /\ env[w.name] \in Path
      BY <2>1 DEF VariablesFollow, Typed
    <2>3. Extend(env[w.name], w.lit.seg) \in Path
      BY <2>1, <2>2, ExtendType
    <2>. QED
      BY <1>2, <2>2, <2>3 DEF Expand, ShellExpand
  <1>. QED
    BY <1>1, <1>2

\* Whatever a word expands to is a path, or nothing.
LEMMA ExpansionTypes ==
    ASSUME Typed, NEW w \in Word
    PROVE  Expand(w) \in Path \cup {Unset} /\ ShellExpand(w) \in Path
  <1> USE TaskScanAssumption
  <1>0. w \in [name : Name \cup {NoName}, lit : Path] /\ Empty \in Path
    BY DEF Path, Empty, Dir
  <1>1. CASE w.name = NoName
    BY <1>0, <1>1 DEF Expand, ShellExpand
  <1>2. CASE w.name # NoName
    <2>1. w.name \in Name /\ w.lit.seg \in Dir
      BY <1>0, <1>2 DEF Path
    <2>2. host.value \in [Name -> Path \cup {Unset}]
      BY DEF Typed
    <2>3. Lookup(w.name) \in Path \cup {Unset}
      BY <2>1, <2>2 DEF Lookup, Typed
    <2>4. Lookup(w.name) # Unset => Extend(Lookup(w.name), w.lit.seg) \in Path
      BY <2>1, <2>3, ExtendType
    <2>5. (IF env[w.name] = Unset THEN Empty ELSE env[w.name]) \in Path
      BY <1>0, <2>1 DEF Typed
    <2>6. Extend(IF env[w.name] = Unset THEN Empty ELSE env[w.name], w.lit.seg) \in Path
      BY <2>1, <2>5, ExtendType
    <2>. QED
      BY <1>2, <2>4, <2>6 DEF Expand, ShellExpand
  <1>. QED
    BY <1>1, <1>2

\* A fresh shell has what the worker passes on.
LEMMA InheritedFollows ==
    ASSUME host \in Hosts
    PROVE  /\ Inherited \in [Name -> Path \cup {Unset}]
           /\ Shared \subseteq Name
           /\ \A n \in Shared : Inherited[n] # Unset /\ Inherited[n] = host.value[n]
  BY TaskScanAssumption DEF Inherited, Shared

-----------------------------------------------------------------------------

LEMMA Initially == Init => IInv
  <1> SUFFICES ASSUME Init PROVE IInv
    OBVIOUS
  <1>1. Typed
    BY TaskScanAssumption, InheritedFollows DEF Init, Typed
  <1>2. VariablesFollow
    BY InheritedFollows DEF Init, VariablesFollow, Lookup
  <1>. QED
    BY <1>1, <1>2 DEF Init, IInv, DirectoryFollows, ReadOnlyStops, RefusalHolds

LEMMA AssignKeeps ==
    ASSUME IInv, NEW j \in Joins, NEW n \in Name, NEW w \in Word, Assign(j, n, w)
    PROVE  IInv'
  <1> USE TaskScanAssumption
  <1>0. Typed /\ VariablesFollow /\ UNCHANGED host
    BY DEF IInv, Assign
  <1>1. Expand(w) \in Path \cup {Unset} /\ ShellExpand(w) \in Path
    BY <1>0, ExpansionTypes
  <1>2. Typed'
    BY <1>0, <1>1 DEF Assign, Typed
  <1>3. VariablesFollow'
    <2> SUFFICES ASSUME NEW m \in trackedOf' PROVE (env[m] # Unset /\ Lookup(m) = env[m])'
      BY DEF VariablesFollow
    <2>1. CASE m = n
      <3>1. Tracks(w) /\ Runs(j)
        BY <1>0, <2>1 DEF Assign, Typed
      <3>2. Expand(w) = ShellExpand(w) /\ Expand(w) \in Path
        BY <1>0, <3>1, ExpansionsAgree
      <3>3. assigned'[n] = Expand(w) /\ env'[n] = Expand(w) /\ Expand(w) # Unset
        BY <1>0, <3>1, <3>2 DEF Assign, Typed
      <3>. QED
        BY <2>1, <3>3 DEF Lookup
    <2>2. CASE m # n
      <3>1. m \in trackedOf /\ m \in Name
        BY <1>0, <2>2 DEF Assign, Typed
      <3>2. assigned'[m] = assigned[m] /\ env'[m] = env[m]
        BY <1>0, <2>2, <3>1 DEF Assign, Typed
      <3>. QED
        BY <1>0, <3>1, <3>2 DEF VariablesFollow, Lookup
    <2>. QED
      BY <2>1, <2>2
  <1>4. (DirectoryFollows /\ ReadOnlyStops /\ RefusalHolds)'
    BY DEF IInv, Assign, Follows, Reads, DirectoryFollows, ReadOnlyStops, RefusalHolds
  <1>. QED
    BY <1>2, <1>3, <1>4 DEF IInv

LEMMA CdKeeps ==
    ASSUME IInv, NEW j \in Joins, NEW w \in Word, Cd(j, w)
    PROVE  IInv'
  <1> USE TaskScanAssumption
  <1>0. Typed /\ VariablesFollow /\ DirectoryFollows
    BY DEF IInv
  <1>1. Typed'
    BY <1>0 DEF Cd, Typed
  <1>2. VariablesFollow'
    BY <1>0 DEF Cd, VariablesFollow, Lookup
  <1>3. DirectoryFollows'
    <2> SUFFICES ASSUME tracked' PROVE known' = cwd'
      BY DEF DirectoryFollows
    <2>1. Runs(j) /\ Tracks(w) /\ ShellExpand(w) # Empty /\ ShellTarget(w) \in Present
      BY DEF Cd
    <2>2. Expand(w) = ShellExpand(w) /\ Expand(w) # Unset
      BY <1>0, <2>1, ExpansionsAgree
    <2>3. cwd' = Enter(cwd, Expand(w))
      BY <2>1, <2>2 DEF Cd, ShellTarget
    <2>4. known' = Enter(IF known = Unknown THEN ProcessCwd ELSE known, Expand(w))
      BY <2>2 DEF Cd, CdTarget
    <2>5. CASE Expand(w).abs
      BY <2>3, <2>4, <2>5 DEF Enter
    <2>6. CASE ~Expand(w).abs
      <3>1. known = cwd
        BY <1>0, <2>2, <2>6 DEF Cd, DirectoryFollows
      <3>2. known # Unknown
        BY <1>0, <3>1 DEF Typed
      <3>. QED
        BY <2>3, <2>4, <3>1, <3>2
    <2>. QED
      BY <2>5, <2>6
  <1>4. (ReadOnlyStops /\ RefusalHolds)'
    BY DEF Cd, Follows, Reads, ReadOnlyStops, RefusalHolds
  <1>. QED
    BY <1>1, <1>2, <1>3, <1>4 DEF IInv

LEMMA GitKeeps ==
    ASSUME IInv, NEW j \in Joins, NEW g \in GitVerbs, Git(j, g)
    PROVE  IInv'
  <1>1. Blocked' <=> Blocked
    BY DEF Git, walkVars, Blocked, BindOf
  <1>2. (Typed /\ VariablesFollow /\ DirectoryFollows)'
    BY DEF IInv, Git, walkVars, trackVars, Typed, VariablesFollow,
           DirectoryFollows, Lookup
  <1>3. (ReadOnlyStops /\ RefusalHolds)'
    BY <1>1 DEF IInv, Git, Follows, Reads, ReadOnlyStops, RefusalHolds
  <1>. QED
    BY <1>2, <1>3 DEF IInv

LEMMA NextBlockKeeps ==
    ASSUME IInv, NextBlock
    PROVE  IInv'
  <1> USE TaskScanAssumption
  <1>0. Typed /\ UNCHANGED <<host, assigned>>
    BY DEF IInv, NextBlock, walkVars
  <1>1. /\ Inherited \in [Name -> Path \cup {Unset}]
        /\ Shared \subseteq Name
        /\ \A n \in Shared : Inherited[n] # Unset /\ Inherited[n] = host.value[n]
    BY <1>0, InheritedFollows DEF Typed
  <1>2. Typed'
    BY <1>0, <1>1 DEF NextBlock, Typed
  <1>3. VariablesFollow'
    BY <1>0, <1>1 DEF NextBlock, VariablesFollow, Lookup
  <1>4. (DirectoryFollows /\ ReadOnlyStops /\ RefusalHolds)'
    BY DEF IInv, NextBlock, Reads, walkVars, DirectoryFollows, ReadOnlyStops, RefusalHolds
  <1>. QED
    BY <1>2, <1>3, <1>4 DEF IInv

LEMMA EndKeeps ==
    ASSUME IInv, NEW t \in Texts, End(t)
    PROVE  IInv'
  <1>1. Blocked' <=> Blocked
    BY DEF End, walkVars, Blocked, BindOf
  <1>2. (Typed /\ VariablesFollow /\ DirectoryFollows)'
    BY DEF IInv, End, walkVars, shellVars, trackVars, Typed, VariablesFollow,
           DirectoryFollows, Lookup
  <1>3. /\ verdict' \notin {"reading", "refused"}
        /\ verdict' = "tree_rewrite" => verdict = "refused"
        /\ verdict' = "runs" /\ t.enabled => verdict = "reading"
    <2>1. \A i \in DOMAIN Order : Order[i] \in Screens /\ Order[i] # "tree_rewrite"
      BY DEF Order, Screens
    <2>2. ASSUME \E i \in DOMAIN Order : Refuses(t, Order[i])
          PROVE  \E i \in DOMAIN Order :
                   /\ Refuses(t, Order[i])
                   /\ \A j \in 1 .. i - 1 : ~Refuses(t, Order[j])
      <3>1. DOMAIN Order = 1 .. 4
        BY DEF Order
      <3>. QED
        BY <2>2, <3>1
    <2>3. (\E i \in DOMAIN Order : Refuses(t, Order[i])) => First(t) \in DOMAIN Order
      BY <2>2, Zenon DEF First
    <2>4. verdict' = Answer(t) /\ verdict \in {"reading", "refused"}
      BY DEF End
    <2>5. CASE ~t.enabled
      BY <2>4, <2>5 DEF Answer
    <2>6. CASE t.enabled /\ \E i \in DOMAIN Order : Refuses(t, Order[i])
      <3>1. verdict' \in Screens
        BY <2>1, <2>3, <2>4, <2>6 DEF Answer
      <3>. QED
        BY <3>1 DEF Screens
    <2>7. CASE t.enabled /\ ~\E i \in DOMAIN Order : Refuses(t, Order[i])
      BY <2>4, <2>7 DEF Answer
    <2>. QED
      BY <2>5, <2>6, <2>7
  <1>4. (ReadOnlyStops /\ RefusalHolds)'
    BY <1>1, <1>3 DEF IInv, End, ReadOnlyStops, RefusalHolds
  <1>. QED
    BY <1>2, <1>4 DEF IInv

LEMMA StutterKeeps ==
    ASSUME IInv, UNCHANGED vars
    PROVE  IInv'
  BY DEF vars, walkVars, shellVars, trackVars, IInv, Typed, VariablesFollow, Lookup,
         DirectoryFollows, ReadOnlyStops, RefusalHolds, Blocked, BindOf

LEMMA Invariance == Spec => []IInv
  <1>1. IInv /\ [Next]_vars => IInv'
    BY AssignKeeps, CdKeeps, GitKeeps, NextBlockKeeps, EndKeeps, StutterKeeps DEF Next
  <1>. QED
    BY Initially, <1>1, PTL DEF Spec

-----------------------------------------------------------------------------

\* An answer "runs" to a task that is looked at: no screen refuses it, and in
\* no fragment does anything block.
LEMMA RunsAreClean ==
    ASSUME NEW t \in Texts, t.enabled, Answer(t) = "runs"
    PROVE  /\ \A s \in t.found : s = "hook_tamper" /\ t.maintenance
           /\ \A f \in t.fragments : ~Blocking(f)
  <1>0. t \in Text
    BY TaskScanAssumption
  <1>1. /\ DOMAIN Order = 1 .. 4
        /\ Order[1] = "control_characters" /\ Order[2] = "heredoc_wrapper_collision"
        /\ Order[3] = "hook_tamper" /\ Order[4] = "systemd_manager"
    BY DEF Order
  <1>2. \A i \in DOMAIN Order : ~Refuses(t, Order[i])
    <2> SUFFICES ASSUME \E i \in DOMAIN Order : Refuses(t, Order[i]) PROVE FALSE
      OBVIOUS
    <2>1. \E i \in DOMAIN Order : /\ Refuses(t, Order[i])
                                  /\ \A j \in 1 .. i - 1 : ~Refuses(t, Order[j])
      BY <1>1
    <2>2. First(t) \in DOMAIN Order
      BY <2>1, Zenon DEF First
    <2>3. Answer(t) = Order[First(t)]
      BY DEF Answer
    <2>. QED
      BY <1>1, <2>2, <2>3
  <1>3. "script_body" \notin t.found /\ \A f \in t.fragments : ~Blocking(f)
    BY <1>2 DEF Answer
  <1>4. \A s \in t.found : s \in Screens
    BY <1>0 DEF Text
  <1>5. \A s \in t.found : s = "hook_tamper" /\ t.maintenance
    <2> SUFFICES ASSUME NEW s \in t.found PROVE s = "hook_tamper" /\ t.maintenance
      OBVIOUS
    <2>1. s \in {Order[i] : i \in DOMAIN Order}
      BY <1>1, <1>3, <1>4 DEF Screens
    <2>. QED
      BY <1>2, <2>1 DEF Refuses
  <1>. QED
    BY <1>3, <1>5

\* A fragment in which nothing blocks: what its commands may be.
LEMMA NotBlocking ==
    ASSUME NEW f \in SUBSET Command, ~Blocking(f), NEW c \in f
    PROVE  \/ c.severity = "none"
           \/ c.severity = "high" /\ ~c.always /\ \A d \in f : d.allowed
  <1>1. c.severity \in {"none", "high", "critical"}
    BY DEF Command
  <1>. QED
    BY <1>1 DEF Blocking, Hard

\* "block at SEV_HIGH+ even when an allowed verb is present on another
\* fragment" (task_scan.py, _blocking_issues, check_kart_task): whatever the
\* screens find and however many fragments there are, a task that runs has no
\* finding that nothing excuses.
THEOREM RunsHaveNoFindings == Spec => []FindingsAreExcused
  <1>1. Init => FindingsAreExcused
    BY DEF Init, FindingsAreExcused
  <1>2. ASSUME NEW t \in Texts, End(t) PROVE FindingsAreExcused'
    <2> SUFFICES ASSUME Answer(t) = "runs", t.enabled
                 PROVE  FindingsAreExcused'
      BY <1>2 DEF End, FindingsAreExcused
    <2>1. /\ \A s \in t.found : s = "hook_tamper" /\ t.maintenance
          /\ \A f \in t.fragments : ~Blocking(f)
      BY RunsAreClean
    <2>2. text' = t /\ t.fragments \in SUBSET SUBSET Command
      BY <1>2, TaskScanAssumption DEF End, Text
    <2>3. t.found \subseteq (IF t.maintenance THEN {"hook_tamper"} ELSE {})
      BY <2>1
    <2>4. ASSUME NEW f \in t.fragments, NEW c \in f
          PROVE  \/ c.severity = "none"
                 \/ c.severity = "high" /\ ~c.always /\ \A d \in f : d.allowed
      BY <2>1, <2>2, <2>4, NotBlocking
    <2>. QED
      BY <2>2, <2>3, <2>4 DEF FindingsAreExcused
  <1>3. ASSUME NEW j \in Joins, NEW n \in Name, NEW w \in Word, Assign(j, n, w)
        PROVE  FindingsAreExcused'
    BY <1>3 DEF Assign, Follows, Reads, FindingsAreExcused
  <1>4. ASSUME NEW j \in Joins, NEW w \in Word, Cd(j, w) PROVE FindingsAreExcused'
    BY <1>4 DEF Cd, Follows, Reads, FindingsAreExcused
  <1>5. ASSUME NEW j \in Joins, NEW g \in GitVerbs, Git(j, g) PROVE FindingsAreExcused'
    BY <1>5 DEF Git, Follows, Reads, FindingsAreExcused
  <1>6. ASSUME NextBlock PROVE FindingsAreExcused'
    BY <1>6 DEF NextBlock, Reads, FindingsAreExcused
  <1>7. ASSUME FindingsAreExcused, UNCHANGED vars PROVE FindingsAreExcused'
    BY <1>7 DEF vars, FindingsAreExcused
  <1>8. FindingsAreExcused /\ [Next]_vars => FindingsAreExcused'
    BY <1>2, <1>3, <1>4, <1>5, <1>6, <1>7 DEF Next
  <1>. QED
    BY <1>1, <1>8, PTL DEF Spec

-----------------------------------------------------------------------------

\* Whatever the words, the joins, the directories and the policy: a task whose
\* shell takes the cd statements that the walk follows does not half-switch a
\* read-only checkout (task_scan.py, check_tree_rewrite).
THEOREM HalfSwitchesAreRefused == Spec => []NoHalfSwitch
  <1>1. IInv => NoHalfSwitch
    BY DEF IInv, NoHalfSwitch, Passes, DirectoryFollows, ReadOnlyStops, RefusalHolds, Blocked
  <1>. QED
    BY Invariance, <1>1, PTL

\* And of such a task the walk refuses nothing but a verb in a directory bound
\* read-only, or in one it cannot tell.
THEOREM RefusalsAreDeserved == Spec => []RefusalDeserved
  <1>1. IInv => RefusalDeserved
    BY DEF IInv, RefusalDeserved, DirectoryFollows, RefusalHolds, Blocked
  <1>. QED
    BY Invariance, <1>1, PTL
=============================================================================
