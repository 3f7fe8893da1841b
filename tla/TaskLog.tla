------------------------------ MODULE TaskLog ------------------------------
(***************************************************************************)
(* write_task_log of sandbox.py: after a task, its worker writes a          *)
(* directory of three files, with no lock, and prunes all but the newest    *)
(* ones.  Workers do so at once, for the same directory too: a task that    *)
(* was reaped and submitted again under its id, or ids that safe_id makes   *)
(* the same.                                                                *)
(*                                                                          *)
(*   task -> mkdir -> keys -> meta -> stdout -> stderr -> list -> sort      *)
(*     [-> unlink -> rmdir ..] -> done, or failed (None), or dead           *)
(*                                                                          *)
(* The directory's time is that of its last new or removed entry.           *)
(***************************************************************************)
EXTENDS KartEnv, Sequences, SequencesExt

CONSTANTS
    Run, NoRun,       \* executions of a task that end in a log
    Dir,              \* directories in .kart-logs
    Retention,        \* KART_LOG_RETENTION
    Cases,            \* which executions there are, and in which world
    MaxEdits,         \* how often the policy or the host changes meanwhile
    MaxDeaths

\* manifest says whether the result still has its sandbox_manifest when the
\* log is written: a task without fenced blocks.
Case == [runs : SUBSET Run, dirOf : [Run -> Dir], ask : [Run -> Ask],
         manifest : [Run -> BOOLEAN], world : Config \X Host, other : Config \X Host]

ASSUME TaskLogAssumption ==
    /\ IsFiniteSet(Run) /\ NoRun \notin Run
    /\ Retention \in Nat \ {0}
    /\ Cases \subseteq Case
    /\ MaxEdits \in Nat /\ MaxDeaths \in Nat

VARIABLES
    case,
    world,      \* the policy and the host as they are now
    at,         \* at[r]: where execution r is
    handed,     \* handed[r]: the environment its task had
    keys,       \* keys[r]: the env_keys of its log
    logs,       \* the directories, the most recently changed last
    content,    \* content[d]: which execution wrote each file, by name
    stale,      \* stale[r]: the directories r lists, and then those it removes
    same,       \* same[r]: the world has not changed since r's task started
    changed,    \* changed[r]: the other directories that changed since r's was made
    mixed,      \* the directories several executions had to do with
    misses,     \* how many listings, removals and logs failed
    edits, deaths

worldVars == <<case, world, edits>>
recordVars == <<handed, keys, same>>
diskVars == <<logs, content>>
traceVars == <<changed, mixed, misses, deaths>>
logVars == <<worldVars, recordVars, diskVars, traceVars, at, stale>>

File == {"meta", "stdout", "stderr"}
NoEnv == [n \in {} |-> "kart"]
Dirs == Range(logs)
active == case.runs
DirOf(r) == case.dirOf[r]

LogStage == {"task", "mkdir", "keys", "meta", "stdout", "stderr", "list", "sort", "unlink",
             "rmdir", "done", "failed", "dead"}

\* The executions and the directories there are (sandbox.py).
LogTypeOK ==
    /\ case \in Cases /\ world \in {case.world, case.other}
    /\ at \in [Run -> LogStage]
    /\ \A r \in Run : DOMAIN handed[r] \subseteq Name /\ keys[r] \subseteq Name
    /\ logs \in Seq(Dir) /\ IsInjective(logs)
    /\ content \in [Dir -> [File -> Run \cup {NoRun}]]
    /\ stale \in [Run -> Seq(Dir)]
    /\ same \in [Run -> BOOLEAN] /\ mixed \subseteq Dir
    /\ changed \in [Run -> SUBSET Dir]
    /\ misses \in Nat /\ edits \in 0 .. MaxEdits /\ deaths \in 0 .. MaxDeaths

LogInit ==
    /\ case \in Cases
    /\ world = case.world
    /\ at = [r \in Run |-> IF r \in case.runs THEN "task" ELSE "done"]
    /\ handed = [r \in Run |-> NoEnv]
    /\ keys = [r \in Run |-> {}]
    /\ logs = <<>>
    /\ content = [d \in Dir |-> [f \in File |-> NoRun]]
    /\ stale = [r \in Run |-> <<>>]
    /\ same = [r \in Run |-> TRUE]
    /\ changed = [r \in Run |-> {}]
    /\ mixed = {}
    /\ misses = 0 /\ edits = 0 /\ deaths = 0

\* The elements of s that are in S, in their order: SelectSeq, written out
\* because the prover knows nothing of it.
Only(s, S) ==
    LET only[i \in 0 .. Len(s)] ==
          IF i = 0 THEN <<>>
          ELSE IF s[i] \in S THEN Append(only[i - 1], s[i]) ELSE only[i - 1]
    IN only[Len(s)]

LogGoto(r, there) == at' = [at EXCEPT ![r] = there]

\* d comes after the directories that were made, one to each execution.
Later(held, d) ==
    [q \in Run |-> IF DirOf(q) = d \/ at[q] \in {"task", "mkdir"}
                     THEN held[q] ELSE held[q] \cup {d}]

\* d is changed: it is now the newest.
Touch(d) ==
    /\ logs' = Append(Only(logs, Dirs \ {d}), d)
    /\ changed' = Later(changed, d)

Untouched == UNCHANGED <<logs, changed>>

Writing(r) == at[r] \in {"keys", "meta", "stdout", "stderr"}

\* The world is as kart_env sees it, when it is called for a task.
Handed(a) == KartEnv(world[1], world[2], a)

\* run_shell, which may take long.
RunTask(r) ==
    /\ at[r] = "task"
    /\ handed' = [handed EXCEPT ![r] = Handed(case.ask[r])]
    /\ same' = [same EXCEPT ![r] = TRUE]
    /\ LogGoto(r, "mkdir")
    /\ UNCHANGED <<worldVars, keys, diskVars, traceVars, stale>>

\* mkdir(exist_ok=True), which does not change a directory that is there.
Mkdir(r) ==
    /\ at[r] = "mkdir"
    /\ IF DirOf(r) \in Dirs
         THEN Untouched ELSE Touch(DirOf(r))
    /\ mixed' = IF \E q \in active \ {r} : Writing(q) /\ DirOf(q) = DirOf(r)
                  THEN mixed \cup {DirOf(r)} ELSE mixed
    /\ LogGoto(r, "keys")
    /\ UNCHANGED <<worldVars, recordVars, content, stale, misses, deaths>>

\* The environment is computed again, from what the manifest says.
Keys(r) ==
    /\ at[r] = "keys"
    /\ LET m == case.manifest[r]
           a == case.ask[r]
       IN keys' = [keys EXCEPT ![r] = DOMAIN Handed(
            [net |-> m /\ a.net, db |-> m /\ a.db, by |-> a.by])]
    /\ LogGoto(r, "meta")
    /\ UNCHANGED <<worldVars, handed, same, diskVars, traceVars, stale>>

\* Mutant: what an earlier execution wrote is left.
WriteFileOnce(r, file, next) ==
    LET d == DirOf(r) IN
    /\ at[r] = file
    /\ IF d \in Dirs
         THEN /\ content' = IF content[d][file] = NoRun
                              THEN [content EXCEPT ![d][file] = r] ELSE content
              /\ IF content[d][file] = NoRun THEN Touch(d) ELSE Untouched
              /\ LogGoto(r, next)
              /\ UNCHANGED misses
         ELSE /\ LogGoto(r, "failed")
              /\ misses' = misses + 1
              /\ Untouched /\ UNCHANGED content
    /\ UNCHANGED <<worldVars, recordVars, mixed, stale, deaths>>

\* write_text; without the directory it raises, and there is no log.
WriteFile(r, file, next) ==
    LET d == DirOf(r) IN
    /\ at[r] = file
    /\ IF d \in Dirs
         THEN /\ content' = [content EXCEPT ![d][file] = r]
              /\ IF content[d][file] = NoRun THEN Touch(d) ELSE Untouched
              /\ LogGoto(r, next)
              /\ UNCHANGED misses
         ELSE /\ LogGoto(r, "failed")
              /\ misses' = misses + 1
              /\ Untouched /\ UNCHANGED content
    /\ UNCHANGED <<worldVars, recordVars, mixed, stale, deaths>>

WriteMeta(r) == WriteFile(r, "meta", "stdout")
WriteStdout(r) == WriteFile(r, "stdout", "stderr")
WriteStderr(r) == WriteFile(r, "stderr", "list")

(***************************************************************************)
(* _prune_task_logs.                                                       *)
(***************************************************************************)

\* root.iterdir().
ListLogs(r) ==
    /\ at[r] = "list"
    /\ stale' = [stale EXCEPT ![r] = logs]
    /\ LogGoto(r, "sort")
    /\ UNCHANGED <<worldVars, recordVars, diskVars, traceVars>>

\* Mutant: the oldest are kept.
NewestLast(listed) ==
    LET order == Only(logs, listed)
    IN SubSeq(order, Retention + 1, Len(order))

\* Mutant: dirs[keep + 1:].
StaleOneLess(listed) ==
    LET order == Reverse(Only(logs, listed))
    IN SubSeq(order, Retention + 2, Len(order))

\* dirs[keep:] of the directories in the order of their times, newest first.
Stale(listed) ==
    LET order == Reverse(Only(logs, listed))
    IN SubSeq(order, Retention + 1, Len(order))

\* stat() raises if a directory is gone: then nothing is pruned.
SortLogs(r) ==
    /\ at[r] = "sort"
    /\ LET listed == Range(stale[r])
           gone == ~(listed \subseteq Dirs)
           old == IF gone THEN <<>> ELSE Stale(listed)
       IN /\ stale' = [stale EXCEPT ![r] = old]
          /\ misses' = IF gone THEN misses + 1 ELSE misses
          /\ LogGoto(r, IF old = <<>> THEN "done" ELSE "unlink")
    /\ UNCHANGED <<worldVars, recordVars, diskVars, changed, mixed, deaths>>

\* rmtree removes the files it finds, which makes the directory the newest ...
Unlink(r) ==
    /\ at[r] = "unlink"
    /\ LET d == Head(stale[r]) IN
         /\ content' = [content EXCEPT ![d] = [f \in File |-> NoRun]]
         /\ IF content' = content THEN Untouched ELSE Touch(d)
    /\ LogGoto(r, "rmdir")
    /\ UNCHANGED <<worldVars, recordVars, stale, mixed, misses, deaths>>

\* ... and the directory, unless it has a file again: errors are ignored.
Rmdir(r) ==
    /\ at[r] = "rmdir"
    /\ LET d == Head(stale[r])
           empty == \A f \in File : content[d][f] = NoRun
       IN /\ logs' = IF empty THEN Only(logs, Dirs \ {d}) ELSE logs
          /\ misses' = IF empty THEN misses ELSE misses + 1
    /\ stale' = [stale EXCEPT ![r] = Tail(@)]
    /\ LogGoto(r, IF Len(stale[r]) = 1 THEN "done" ELSE "unlink")
    /\ UNCHANGED <<worldVars, recordVars, content, changed, mixed, deaths>>

\* Its process is killed.
LogDies(r) ==
    /\ at[r] \notin {"task", "done", "failed", "dead"}
    /\ deaths < MaxDeaths
    /\ deaths' = deaths + 1
    /\ mixed' = IF Writing(r) THEN mixed \cup {DirOf(r)} ELSE mixed
    /\ LogGoto(r, "dead")
    /\ stale' = [stale EXCEPT ![r] = <<>>]
    /\ UNCHANGED <<worldVars, recordVars, diskVars, changed, misses>>

\* The operator changes the policy, the fleet's file or a worker's environment.
EditWorld ==
    /\ edits < MaxEdits /\ world # case.other
    /\ edits' = edits + 1
    /\ world' = case.other
    /\ same' = [r \in Run |-> same[r] /\ at[r] \notin {"mkdir", "keys"}]
    /\ UNCHANGED <<case, handed, keys, diskVars, traceVars, at, stale>>

LogStep(r) ==
    \/ RunTask(r) \/ Mkdir(r) \/ Keys(r) \/ WriteMeta(r) \/ WriteStdout(r) \/ WriteStderr(r)
    \/ ListLogs(r) \/ SortLogs(r) \/ Unlink(r) \/ Rmdir(r) \/ LogDies(r)

LogNext == EditWorld \/ \E r \in active : LogStep(r)

LogSpec == LogInit /\ [][LogNext]_logVars

(***************************************************************************)
(* Properties.                                                             *)
(***************************************************************************)

\* "Unconditional deny by exact name - after every source so nothing re-adds a
\* denied name", "a no-network task cannot exfil keys it was never handed", "a
\* Kart task carries only its submitter's identity" (sandbox.py, kart_env): of
\* all that the worker's environment, the fleet's file, the repository and the
\* host give, under any policy.  Database variables need allow_db unless
\* env_prefixes has them too, or kart_env found the socket or sets them itself.
EnvIsGated ==
    \A r \in active : at[r] = "mkdir" /\ same[r] =>
      LET c == world[1]
          a == case.ask[r]
      IN \A n \in DOMAIN handed[r] :
           /\ n \notin c.deny
           /\ n \in c.credentials => a.net
           /\ n \in Identity => handed[r][n] = "submitter" /\ a.by # NoOne
           /\ n \in c.db \ c.pass /\ handed[r][n] \in {"environ", "fleet"} => a.db
           /\ n = RuntimeDir => c.runtimeBound

\* Without its submitter "the forensic record misrepresents what the sandbox
\* handed the task" (sandbox.py, write_task_log): the keys in a log are those of
\* the environment its task had, as long as nobody changes the policy or the
\* host before they are computed again, and the result kept its manifest.
KeysAreTheTasks ==
    \A r \in active :
      /\ at[r] \notin {"task", "mkdir", "keys", "dead"}
      /\ same[r] /\ case.manifest[r]
      => keys[r] = DOMAIN handed[r]

\* "Write a durable forensic artifact for one task" (sandbox.py): the files of a
\* log are one execution's, unless two wrote at once or one died on the way.
LogIsOfOneRun ==
    \A d \in Dirs \ mixed :
      (\A r \in active : DirOf(r) = d => ~Writing(r))
        => Cardinality(Range(content[d]) \ {NoRun}) <= 1

Alone(r) == \A q \in active \ {r} : DirOf(q) # DirOf(r)

Intact(r) == DirOf(r) \in Dirs /\ \A f \in File : content[DirOf(r)][f] = r

\* "Keep the newest keep task-log dirs" (sandbox.py, _prune_task_logs): a log
\* whose path was returned is there, and whole, until as many other directories
\* changed as are kept; if its directory is that of no other execution.  They
\* change when an execution writes to them, and when a pruner begins to remove
\* them: for another one that sorts just then, a directory that is being emptied
\* takes the place of a log.
OnlyUnchangedArePruned ==
    \A r \in active : at[r] = "done" /\ Alone(r) =>
      Intact(r) \/ Cardinality(changed[r]) >= Retention

\* When everyone has returned no more logs are left than are kept, unless a
\* listing, a removal or a log failed under another one's hands.
RetentionHolds ==
    (\A r \in active : at[r] = "done") /\ misses = 0 /\ deaths = 0
      => Len(logs) <= Retention
=============================================================================
