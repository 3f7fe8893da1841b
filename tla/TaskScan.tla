------------------------------ MODULE TaskScan ------------------------------
(***************************************************************************)
(* task_scan.py: check_kart_task reads a task before it runs.  Its walk     *)
(* over the statements (check_tree_rewrite) follows the shell's working     *)
(* directory and variables without running anything, to refuse a git verb   *)
(* that would rewrite the files of a checkout bound read-only and leave it  *)
(* half-switched.                                                           *)
(*                                                                          *)
(* The model reads the task one statement at a time, and carries beside     *)
(* what the scanner believes (known, assigned) what the shell that runs the *)
(* same statements would have (cwd, env).  The walk splits at ";", "&&" and *)
(* "||" alike and follows every statement; the shell skips what "&&" and    *)
(* "||" tell it to.  Each fenced block runs in a shell of its own           *)
(* (execute.py), and the walk goes on as if it did not.  Whatever else the  *)
(* text holds is looked at when the walk ends.                              *)
(***************************************************************************)
EXTENDS Integers, Sequences, SequencesExt

CONSTANTS
    Name, NoName,        \* variables
    Word,                \* the targets of cd, and the values assigned
    Up,                  \* ".."
    Unset, Unknown,
    TaskCwd,             \* where the scanner takes the task to start
    Start,               \* where it does
    ProcessCwd, Home,
    Present,             \* the directories there are
    Policies,            \* what collect_bind_mounts may return
    Hosts,               \* the environments of the worker: values, and what kart_env passes on
    Texts,               \* what the screens may find
    Joins,               \* what may stand before a statement: "seq" is a ";" or a new
                         \* line, "and" is "&&", "or" is "||"
    MaxBlocks,
    MaxDepth, MaxValue   \* components of a directory, and of a value

VARIABLES
    policy, host,
    blocks,     \* fenced blocks begun
    known,      \* current of check_tree_rewrite
    assigned,   \* its task_vars
    cwd,        \* the shell's directory
    env,        \* the shell's variables
    ok,         \* the shell's status: the last command it ran succeeded
    tracked,    \* the shell took every cd the walk followed, since an absolute one
    trackedOf,  \* the variables it set as the walk did
    last,       \* the last statement of the block: "tree" is a git verb that rewrites
                \* files, "skipped" one that the shell does not come to
    verdict,    \* "reading", "refused" by the walk, or the answer
    text        \* what else was found in the text

walkVars == <<known, assigned>>
shellVars == <<cwd, env, ok>>
trackVars == <<tracked, trackedOf>>
vars == <<policy, host, blocks, walkVars, shellVars, trackVars, last, verdict, text>>

Dir == Seq(STRING)
Path == [abs : BOOLEAN, seg : Dir]
Empty == [abs |-> FALSE, seg |-> <<>>]
Mode == {"ro", "rw"}
Screens == {"control_characters", "heredoc_wrapper_collision", "hook_tamper",
            "systemd_manager", "script_body"}
Command == [allowed : BOOLEAN, severity : {"none", "high", "critical"}, always : BOOLEAN]
Text == [enabled : BOOLEAN, maintenance : BOOLEAN, found : SUBSET Screens,
         fragments : SUBSET SUBSET Command]
NoText == [enabled |-> FALSE, maintenance |-> FALSE, found |-> {}, fragments |-> {}]

ASSUME TaskScanAssumption ==
    /\ NoName \notin Name
    /\ Word \subseteq [name : Name \cup {NoName}, lit : Path]
    /\ Unset \notin Path /\ Unknown \notin Dir
    /\ {TaskCwd, Start, ProcessCwd, Home} \subseteq Dir /\ Present \subseteq Dir
    /\ \A p \in Policies : p \subseteq [at : Dir, mode : Mode]
    /\ Hosts \subseteq [value : [Name -> Path \cup {Unset}], passed : SUBSET Name]
    /\ Texts \subseteq Text
    /\ Joins \subseteq {"seq", "and", "or"}
    /\ MaxBlocks \in Nat \ {0} /\ MaxDepth \in Nat /\ MaxValue \in Nat

\* What the scanner and the shell may hold (task_scan.py).
TypeOK ==
    /\ policy \in Policies /\ host \in Hosts
    /\ blocks \in 1 .. MaxBlocks
    /\ known \in Dir \cup {Unknown} /\ cwd \in Dir
    /\ assigned \in [Name -> Path \cup {Unset}] /\ env \in [Name -> Path \cup {Unset}]
    /\ ok \in BOOLEAN
    /\ tracked \in BOOLEAN /\ trackedOf \subseteq Name
    /\ last \in {"none", "tree", "skipped", "other"}
    /\ verdict \in {"reading", "refused", "runs", "tree_rewrite", "fragment"} \cup Screens
    /\ text \in Texts \cup {NoText}

\* The variables a shell starts with: what kart_env passes on.
Inherited == [n \in Name |-> IF n \in host.passed THEN host.value[n] ELSE Unset]

\* The variables that the worker and the shell then agree on.
Shared == {n \in host.passed : host.value[n] # Unset}

Init ==
    /\ policy \in Policies
    /\ host \in Hosts
    /\ blocks = 1
    /\ known = TaskCwd
    /\ assigned = [n \in Name |-> Unset]
    /\ cwd = Start
    /\ env = Inherited
    /\ ok = TRUE
    /\ tracked = (TaskCwd = Start)
    /\ trackedOf = Shared
    /\ last = "none"
    /\ verdict = "reading"
    /\ text = NoText

(***************************************************************************)
(* Paths and words.                                                        *)
(***************************************************************************)

\* One component of a path.
Descend(d, s) == IF s # Up THEN Append(d, s) ELSE IF d = <<>> THEN d ELSE Front(d)

\* posixpath.join, and the resolution of the result.
Enter(d, p) == FoldLeft(Descend, IF p.abs THEN <<>> ELSE d, p.seg)

\* A value with the rest of a word behind it.
Extend(v, seg) ==
    [abs |-> v.abs \/ (v = Empty /\ seg # <<>>), seg |-> v.seg \o seg]

\* Mutant: the worker's environment wins over the task's assignments.
HostFirst(n) == IF host.value[n] # Unset THEN host.value[n] ELSE assigned[n]

\* "A name assigned earlier in this same task body wins over the host env."
Lookup(n) == IF assigned[n] # Unset THEN assigned[n] ELSE host.value[n]

\* _expand_vars; Unset is its None.
Expand(w) ==
    IF w.name = NoName THEN w.lit
    ELSE IF Lookup(w.name) = Unset THEN Unset
    ELSE Extend(Lookup(w.name), w.lit.seg)

\* The shell's expansion: an unset variable is empty.
ShellExpand(w) ==
    IF w.name = NoName THEN w.lit
    ELSE Extend(IF env[w.name] = Unset THEN Empty ELSE env[w.name], w.lit.seg)

\* path_read_only_in_policy: the longest bind above the directory; "none" is None.
BindOf(d) ==
    LET above == {b \in policy : IsPrefix(b.at, d)}
    IN  IF above = {} THEN "none"
        ELSE (CHOOSE b \in above : \A c \in above : Len(c.at) <= Len(b.at)).mode

(***************************************************************************)
(* The statements.                                                         *)
(***************************************************************************)

Reads == verdict = "reading"

\* A statement that follows j: the first of a block follows nothing.
Follows(j) == Reads /\ (j = "seq" \/ last # "none")

\* Whether the shell runs it; the walk does not ask.
Runs(j) ==
    \/ j = "seq"
    \/ j = "and" /\ ok
    \/ j = "or" /\ ~ok

Tracks(w) == w.name = NoName \/ w.name \in trackedOf

\* _expand_cd_target(.., current or "", ..): nothing is joined to an unknown
\* directory, and the mount policy resolves what is left where the worker is.
CdTarget(w) ==
    IF Expand(w) = Unset THEN Unknown
    ELSE Enter(IF known = Unknown THEN ProcessCwd ELSE known, Expand(w))

\* Where the shell's cd wants to go; a bare cd goes home.
ShellTarget(w) ==
    IF ShellExpand(w) = Empty THEN Home ELSE Enter(cwd, ShellExpand(w))

\* NAME=value.  A value that cannot be resolved is not noted.
Assign(j, n, w) ==
    /\ Follows(j)
    /\ \A v \in {Expand(w), ShellExpand(w)} \ {Unset} : Len(v.seg) <= MaxValue
    /\ assigned' = IF Expand(w) = Unset THEN assigned
                                        ELSE [assigned EXCEPT ![n] = Expand(w)]
    /\ env' = IF Runs(j) THEN [env EXCEPT ![n] = ShellExpand(w)] ELSE env
    /\ ok' = (ok \/ Runs(j))
    /\ trackedOf' = IF Runs(j) /\ Tracks(w) THEN trackedOf \cup {n} ELSE trackedOf \ {n}
    /\ last' = "other"
    /\ UNCHANGED <<policy, host, blocks, known, cwd, tracked, verdict, text>>

\* cd WORD.  The shell stays where it is if there is no such directory, or if it
\* skips the statement.
Cd(j, w) ==
    LET found == ShellTarget(w) \in Present
        moves == Runs(j) /\ found
    IN  /\ Follows(j)
        /\ known' = CdTarget(w)
        /\ known' \in Dir => Len(known') <= MaxDepth
        /\ cwd' = IF moves THEN ShellTarget(w) ELSE cwd
        /\ ok' = IF Runs(j) THEN found ELSE ok
        /\ tracked' = (/\ moves
                       /\ Tracks(w) /\ ShellExpand(w) # Empty
                       /\ ShellExpand(w).abs \/ tracked)
        /\ last' = "other"
        /\ UNCHANGED <<policy, host, blocks, assigned, env, trackedOf, verdict, text>>

\* Mutant: one read-only bind refuses the verb everywhere.
BlockedSomewhere == known = Unknown \/ \E b \in policy : b.mode = "ro"

\* is_blocked: an unknown directory, or one bound read-only.
Blocked == known = Unknown \/ BindOf(known) = "ro"

\* _tree_rewrite_verb, of a few shapes of git commands.
TreeRewriteVerb(g) ==
    g \in {"checkout REF", "checkout -b NAME START", "merge", "rebase", "restore",
           "clean", "reset --hard", "stash pop"}

GitVerbs == {"checkout REF", "checkout -b NAME", "checkout -b NAME START", "merge",
             "rebase", "restore", "clean", "reset", "reset --hard", "stash pop", "commit"}

\* A git command, which the shell may skip, and which may fail.
Git(j, g) ==
    /\ Follows(j)
    /\ last' = IF ~TreeRewriteVerb(g) THEN "other" ELSE IF Runs(j) THEN "tree" ELSE "skipped"
    /\ verdict' = IF TreeRewriteVerb(g) /\ Blocked THEN "refused" ELSE verdict
    /\ ok' \in IF Runs(j) THEN BOOLEAN ELSE {ok}
    /\ UNCHANGED <<policy, host, blocks, walkVars, cwd, env, trackVars, text>>

\* The next fenced block: a new shell (run_shell_task); the walk goes on, with the
\* directory and the variables it has.
NextBlock ==
    /\ Reads /\ blocks < MaxBlocks
    /\ blocks' = blocks + 1
    /\ cwd' = Start
    /\ env' = Inherited
    /\ ok' = TRUE
    /\ tracked' = (tracked /\ cwd = Start)
    /\ trackedOf' = {n \in Shared : assigned[n] = Unset}
    /\ last' = "none"
    /\ UNCHANGED <<policy, host, walkVars, verdict, text>>

(***************************************************************************)
(* The answer.                                                             *)
(***************************************************************************)

Hard(c) == c.severity = "critical" \/ (c.always /\ c.severity = "high")

\* Mutant: what always blocks does so only where the allowance fails.
BlockingUnlessFleet(f) ==
    \E c \in f : \/ c.severity = "critical"
                 \/ c.severity = "high" /\ \E d \in f : ~d.allowed

\* _blocking_issues: an allowed verb excuses a high finding, if every command
\* of the fragment is one and the category may be excused.
Blocking(f) ==
    \E c \in f : \/ Hard(c)
                 \/ c.severity = "high" /\ \E d \in f : ~d.allowed

\* The screens before the walk, in the order they are asked.
Order == <<"control_characters", "heredoc_wrapper_collision", "hook_tamper",
           "systemd_manager">>

Refuses(t, screen) ==
    screen \in t.found /\ ~(screen = "hook_tamper" /\ t.maintenance)

First(t) == CHOOSE i \in DOMAIN Order :
                /\ Refuses(t, Order[i])
                /\ \A j \in 1 .. i - 1 : ~Refuses(t, Order[j])

\* What check_kart_task answers.
Answer(t) ==
    IF ~t.enabled THEN "runs"
    ELSE IF \E i \in DOMAIN Order : Refuses(t, Order[i])
      THEN Order[First(t)]
    ELSE IF verdict = "refused" THEN "tree_rewrite"
    ELSE IF "script_body" \in t.found THEN "script_body"
    ELSE IF \E f \in t.fragments : Blocking(f) THEN "fragment"
    ELSE "runs"

\* The walk is over.
End(t) ==
    /\ verdict \in {"reading", "refused"}
    /\ text' = t
    /\ verdict' = Answer(t)
    /\ UNCHANGED <<policy, host, blocks, walkVars, shellVars, trackVars, last>>

Next ==
    \/ \E j \in Joins, n \in Name, w \in Word : Assign(j, n, w)
    \/ \E j \in Joins, w \in Word : Cd(j, w)
    \/ \E j \in Joins, g \in GitVerbs : Git(j, g)
    \/ NextBlock
    \/ \E t \in Texts : End(t)

Spec == Init /\ [][Next]_vars

(***************************************************************************)
(* Properties.                                                             *)
(***************************************************************************)

Passes == verdict = "reading" \/ (verdict = "runs" /\ text.enabled)

\* A task whose shell takes the cd statements that the walk follows is refused
\* before it rewrites the files of a read-only checkout: directory and variables
\* are followed as the shell does, through any number of cd and assignments, and
\* the longest bind decides (task_scan.py, check_tree_rewrite).  What happens
\* after a cd that the shell skips or fails, or one of an earlier block, is what
\* RewritesAreRefused is about.
NoHalfSwitch ==
    last = "tree" /\ tracked /\ BindOf(cwd) = "ro" => ~Passes

\* Of such a task, nothing is refused but a verb in a directory bound read-only,
\* or in one the walk cannot tell (task_scan.py, check_tree_rewrite); whether the
\* shell would come to the verb is not asked.
RefusalDeserved ==
    verdict \in {"refused", "tree_rewrite"} =>
      /\ last \in {"tree", "skipped"}
      /\ known = Unknown \/ (tracked => BindOf(cwd) = "ro")

\* "Refuse a git verb that would rewrite the working tree of a checkout the mount
\* policy binds read-only" (task_scan.py, check_tree_rewrite).  The code does
\* not: it follows a cd that the shell skips, and one of an earlier block.
RewritesAreRefused ==
    last = "tree" /\ BindOf(cwd) = "ro" => ~Passes

\* "a tree rewrite is refused only where the half-write can actually happen"
\* (sandbox.py, path_read_only_in_policy): in a directory bound read-only, if the
\* walk knows one.  The code refuses after a cd that the shell skips, too.
RefusedOnlyReadOnly ==
    verdict \in {"refused", "tree_rewrite"} => known = Unknown \/ BindOf(cwd) = "ro"

\* "block at SEV_HIGH+ even when an allowed verb is present on another
\* fragment" (task_scan.py): a task that runs has no finding that nothing
\* excuses.  Maintenance excuses the hook guard only, and an allowed verb a high
\* finding that need not block, among allowed verbs only.
FindingsAreExcused ==
    verdict = "runs" /\ text.enabled =>
      /\ text.found \subseteq (IF text.maintenance THEN {"hook_tamper"} ELSE {})
      /\ \A f \in text.fragments : \A c \in f :
           \/ c.severity = "none"
           \/ /\ c.severity = "high" /\ ~c.always
              /\ \A d \in f : d.allowed
=============================================================================
