# A TLA+ model of Kartikeya

Kartikeya drains a task queue: it claims rows, executes each one in a sandbox
and records how it ended. This directory holds a formal model of the parts of
it that are concurrent, that fail half-way, or that depend on time, the TLC
configurations that check the model on small instances, and proofs, checked by
TLAPS, of its most important properties for every instance.

Paths below are relative to the repository; `queue.py` and the other modules
are in `src/kartikeya/`.

## 1. The system

| Component | State it keeps | Operations | What makes it correct |
|---|---|---|---|
| Queue contract (`TaskQueue`, queue.py) | rows: status, lease, result | claim, mark_running, mark_done, reap | atomic claims; a verdict stands; one reap per lost claim |
| SQLite backend (`SqliteTaskQueue`, queue.py) | one WAL file, its write lock, `created_at`/`claimed_at` | the same in several statements; migration in the constructor | implements the contract although every operation can be cut; no lock outlives its operation; no running row without a lease |
| Worker loop (worker.py) | `in_flight`, `last_claim_ok`, a thread pool | poll: heartbeat, reap, claim, dispatch; thread: open, execute, record, close | no task runs twice; slots respected; abandoned rows recovered; an honest heartbeat; `once=True` drains and returns |
| Lanes (lanes.py) | environment | slots, ceilings, lease, alignment warning | the lease is longer than any live task |
| Task execution (execute.py) | none | route a row, egress gates, fenced blocks, batch drain | a refused row runs nothing; each task ends with one verdict |
| Process lifecycle (sandbox.py, `run_shell`) | a process tree, its pipes, a status file | launch, wait, kill, drain, clean up | every exit releases the leaf; a task runs capped or not at all; a timeout ends |
| Cgroup leaves (sandbox.py) | a directory and its processes per task | make, join, kill and remove, sweep at start | a dead worker's leaves go, a live one's stay |
| Mount policy (sandbox.py) | a JSON configuration | binds, overlays, bwrap arguments | a read-only path is never mounted writable |
| Environment (sandbox.py, `kart_env`) | none; reads the policy and five sources | gather, identify, complete, gate | what the policy withholds reaches no task, whatever source has it |
| Task logs (sandbox.py) | `.kart-logs/`, three files per task | write, prune | a log is of one run and whole while it is among the newest; its keys are those the task had |
| Landlock launcher (landlock.py) | a ruleset | carve directories, restrict, exec | at most the mounts' rights |
| Cgroup setup (cgroup_setup.py) | a unit file, a systemd slice, its delegation | install, reload, start, delegate, look | once a cap is configured no task runs quietly without it; racing setups end with a usable slice |
| Task scanner (task_scan.py) | the directory and variables of its walk | follow statements, screens by precedence | it follows the shell where the shell takes the same statements; a hard block is never softened |
| Scan ledger (scan_ledger.py) | two JSONL files | append, rotate, read | bounded; only a raced or cut rewrite, or a cut append, loses more than the oldest records |
| Security scan, paths, console, package interface | none | stateless lookups, argument parsing | not modelled |

How they meet: several worker *processes* share one queue file and one cgroup
parent and nothing else. Inside a process the polling loop and the pool's
threads share `in_flight` under a lock. A thread calls `execute_task_row`,
which calls the gates, the scanner and `run_shell`, and then the queue's
`mark_done`. The host plugs in callbacks (`on_heartbeat`, `on_run_event`,
`network_authorizer`, `handlers`), any of which may raise.

The hard behaviours are the ones `PROJECT.json` lists as hazards: interleaved
claims and reaps, the late finish of a row that was reaped, a crash between
any two statements, a lease that races a live task, values read under a lock
and used after it, and callbacks that raise half-way.

## 2. The modules

### TaskQueue: the contract

`TaskQueue.tla` states what a backend promises, one atomic action per method
(`Submit`, `Claim`, `MarkRunning`, `MarkDone`, `Reap`), plus `GrantLeases` (the
migration's back-fill) and `Tick`. A row is `status`, `age` (time since
`claimed_at`, which saturates one above the lease, so that time is unbounded
and the model finite) and three history variables: `claimant`, `verdict` and
`reapedBy`. `CommitLag` is the most time between stamping a claim and its
commit; `HostDriven` are the rows a host calls `mark_running` on. `MarkDone` is
for the claimant only but asks nothing of the status, as in the code.

### SqliteTaskQueue: the backend

`SqliteTaskQueue.tla` is queue.py statement by statement. `writer` is SQLite's
reserved lock, `draft[c]` the uncommitted updates of client `c`, `ids[c]` what
it has read, `pc[c]` where it is. A one-statement operation is one step.
`claim_pending` is `ClaimBegin` (BEGIN IMMEDIATE and SELECT), one `ClaimUpdate`
per row and `ClaimCommit`; `reap_stale` is `ReapScan` on one connection, then
`ReapBegin`, `ReapUpdate`s and `ReapCommit` on another; the constructor is
`OpenProbe`, `OpenAlter` and `OpenBackfill`, each autocommitted. A
`Crash`, or an `OperationRaises` (disk full, SQLITE_BUSY), may come between any
two; `Rollback` is what `_connect`'s `close()` does. The other column the
migration adds, `network_authorization`, changes no control and is left out.
`Contract == TQ!Spec` says that it implements `TaskQueue`; the refinement
mapping is the identity on the rows, because uncommitted updates live in
`draft`.

### RunWorker: the worker loop

`RunWorker.tla` is `run_worker`, `_process_row` and `_maybe_reap_and_prune` for
any set of processes over one queue whose operations are the contract's atomic
ones (with `CommitLag = 0`), but whose `reap_stale` still scans and updates in
two steps. The loop is `Beat`, `ReapScan`, `ReapUpdate`, `ReadFree`,
`ClaimRows`/`ClaimRaises`, `Dispatch`, `Check`, `Drain`; a pool thread is
`OpenEvent`/`OpenRaises`, `Finish`/`FinishUnrecorded`, `Leave`. The environment
can make every queue operation raise (`QueueFails`, `QueueRecovers`), make a
callback raise, and kill a process (`Crash`), which forgets all of its memory.
`lost` records the rows abandoned in one of these ways. `Budget` is the time a
row may take, with one ceiling per fenced block as in `run_shell_task`, and
`Aligned` the condition under which `reaper_alignment_warning` is silent.

The module has no `lock` variable: `in_flight` is only touched under the lock,
and each critical section is a single step. What is *decided* on values read
under it happens in later steps.

### RunShell: the process of a task and its cgroup leaf

`RunShell.tla` is `run_shell`, `_limits_context`, `_kill_process_group`,
`_kill_and_remove_leaf` and `sweep_stale_cgroup_leaves` of sandbox.py, for any set
of workers over one cgroup parent. A task is named by its leaf (its uuid is never
used again) and goes through `stage`: made, ready, wait, reap, drain, kill, rmdir,
and `done`, `kept` (rmdir gave up) or `lost` (its worker was killed). `tree[l]` says
which kinds of processes of the task live: the child, background jobs with and
without the output pipes, and the same after `setsid`; `doomed[l]` which of them
were sent SIGKILL. `limited[l]` says that the limits were *written* (whether they
stay in force is `CgroupSetup`'s subject). `joined[l]` is the child's write to
`cgroup.procs`, which it does itself before the exec, so that anything can happen
between `Popen` and `Exec`. The sweep goes leaf by leaf over a listing it took
before; a pid is alive if some worker of that namespace has it, and a worker that
starts may be given the pid of a dead one.

### Execute: from a row to its verdict

`Execute.tla` is `execute_task_row`, `run_shell_task` and
`drain_claimed_tasks`. A drainer is a worker's thread (`Guarded`), which holds
one row and guards the call, or a caller of `drain_claimed_tasks`, which holds
a batch. `Route` is the order of the gates: task type, the retired localhost
directive, the egress gate. `Grant` is the host's authorizer, which answers
anything or raises and is judged differently for attributed and unattributed
rows. `Scan`, `Run` (a command), `RunRaises`, `Ledger` and `Log` follow, and
`Record` is `mark_done`, and `OpenRaises` the callback that raises before a
thread's `try`. The rows are those of `TaskQueue` by `INSTANCE`, so
that a reaper may take a row meanwhile, and `Contract == Q!Spec` is the
refinement. What a row asks for is a record of Booleans (`RowKind`), not text.

### SandboxPolicy: what a task may write

`SandboxPolicy.tla` computes, for one mount policy, what `collect_bind_mounts` binds
(`Collect`), what `build_bwrap_argv` emits and the Landlock spec made of it
(`Build`; `BuildPlain` without bwrap), and what the launcher of landlock.py carves
and grants (`Launch`). Paths are model values with their ancestors and their string
order. The binds are emitted in the order of `Listing`, all paths in that order,
where a path that is not bound leaves a place `Skipped`. `Mounted` is bwrap (the
last mount over a path decides), `Granted` is Landlock (a rule holds for everything
beneath). The properties compare the three views of a path the code uses: the
scanner's `path_read_only_in_policy`, the order of the mounts, and the rules. The
socket of the database is the one thing bound last whatever the policy says, so that
the properties speak of what is not `Socketed`.

### ScanLedger: a file that several processes append to and rewrite

`ScanLedger.tla` is `_append_bounded`: an append, a `stat`, a read, a truncating
open and a write, each a step. The file is a sequence of cells and a record one
to `MaxSize` of them, the last of which holds the newline: enough to see lines
lost, duplicated, out of order and cut. `AppendCut` and `WriteCut` are a full disk
or a kill in the middle of a write, `Fails` a death between two calls; `cuts`
counts the appends that were cut, and `spoiled` says that a rewrite was raced by
another step on the file or cut itself. Every write of the program is one write of
the file, which is what a record below the buffer's 8 KiB is; a longer one may be
several. `Lines` is a recursive
function over the cells (and `Only` of `TaskLog` one over the directories),
because the prover knows no fact about `SelectSeq` or sorting.

### TaskScan: what a task may not even try

`TaskScan.tla` is `check_kart_task`. Its walk (`check_tree_rewrite`) reads the
task a statement at a time: `Assign`, `Cd`, `Git` and `NextBlock` (each fenced
block is a shell of its own). Before a statement stands a semicolon, `&&` or `||`
(`Joins`): the walk follows all three alike, the shell skips what its status `ok`
tells it to. What the scanner believes (`known`, `assigned`) moves beside what the
shell that runs the same statements has (`cwd`, `env`). `tracked` and `trackedOf`
say whether the shell took every `cd` the walk followed since an absolute one, and
which variables it set as the walk did. A skipped or failing `cd`, a name
`kart_env` does not pass on, an empty expansion or a new block that starts
elsewhere ends that; what the code does then is under findings 5 to 7. `End` is what the
other screens find in the text, and `Answer` their precedence and
`_blocking_issues`. A `set -e`, pipes, background jobs, subshells and heredocs are
not followed by the model's shell, and text outside fences, which the walk reads
too, is not one of its blocks.

### KartEnv and TaskLog: what a task is handed, and what is written down

`KartEnv.tla` is `kart_env` as a function of the policy, the host and what the
task asks for: every source in the order in which it overrides, then everything
that takes a name away. A value is the source it came from. `TaskLog.tla` is
`write_task_log` and `_prune_task_logs`, file by file, by several workers over
one directory: `RunTask` (the environment is handed over), `Mkdir`, `Keys` (it
is computed again), `WriteMeta`, `WriteStdout`, `WriteStderr`, `ListLogs`,
`SortLogs`, `Unlink` and `Rmdir`. `logs` is ordered by the directories' times,
which only a new or a removed entry changes. `changed[r]` are the other
directories that changed since `r` made its own, those included that another pruner
is emptying. `EditWorld` is the operator who changes the policy or the host
meanwhile, `LogDies` a killed worker.

### CgroupSetup: the slice everything runs under

`CgroupSetup.tla` is `setup_cgroup` call by call, `cgroup_parent_state` read by
read and a task's `_try_make_cgroup`, around one slice that systemd may reload
or stop and that processes may enter at any time. When the delegation goes the
controllers' files go with it, so that every limit written so far is gone, and is
at `max` when the delegation comes back (`Undelegate`): `limits[t]` are the limits
in force, `lost[t]` says that a delegation went which `t` had written under. It
details what `RunShell`
takes as given: when a parent is usable, unusable or absent.

### The others

`MC*.tla` give the constants for TLC. `Records_proofs` is about `ScanLedger` and
`TaskLog`, which share nothing.
`*_proofs.tla` hold the theorems. An operator marked *Mutant* belongs to no
specification: it is a plausible mistake in the definition that follows it, and
`PROJECT.json` names the property that fails with it.

## 3. The runs

| Run | Instance | Shows |
|---|---|---|
| `sqlite` | 2 rows, one driven by its host; 2 clients; lease 2, commit lag 1; errors and crashes between any two statements | the backend implements the contract; no double claim; oldest first |
| `sqlite_migration` | 2 rows, 2 clients, a crash while opening | **violated**: finding 3 |
| `worker_safety` | 2 processes (2 slots and 1), 2 rows, 1 fault of any kind, no timing assumption | at most one run, slots, no row out of hand without a fault, the contract, late finishes |
| `worker_live` | a looping and a `once=True` process, 1 row, 2 faults, fair | every row ends, the abandoned ones too; `once=True` returns; the heartbeat is honest |
| `worker_once_drains` | 2 rows, 1 slot, no fault | **violated**: finding 1 |
| `worker_live_reap` | tasks of two blocks, no fault | **violated**: finding 2 |
| `execute` | a thread with an authorizer and a batch drain without one; 2 rows of nine kinds; 1 failing write; fair | only rows every gate passed run; the verdict is what happened; threads answer for their rows; rows end |
| `shell` | 1 task with a background job and an escaped descendant, 2 workers, 2 pid namespaces of 2 pids, 2 faults of any kind, fair | capped or refused; the leaf released; a timeout kills the group; `run_shell` returns; orphans swept, live tasks never |
| `policy` | every policy of at most 2+2 entries over 7 paths, 4 deep, with a worktree, a runtime, an installed tree and trust roots | mounts, scanner and rules agree; read-only stays read-only |
| `scan` | tasks of 2 blocks and any length over 7 words, 3 joins and a variable; 1 policy with both nestings, 3 hosts, 5 directories at most 2 deep; every screen alone, all of them, fragments of two commands | a half-switch is refused and a refusal deserved, where the shell takes the statements; no finding passes unexcused |
| `cgroup` | 2 setups and a task around a slice in any state, 2 disturbances | no task quietly uncapped; racing setups delegate |
| `records` | ledger: 3 writers, 5 records of 1 or 2 cells, a rewrite from 3 cells to 2 lines, 2 faults; logs: 3 runs in 1 to 3 directories, 1 kept, 1 death; environment: 1 run, 32 policies, 16 hosts, 8 requests, 1 edit; one of the three at a time | ledger: the newest records unless raced or cut, a cut confined, bounded; logs of one run, unchanged ones survive, no more than are kept; the environment gated |

**Bounds.** Two clients and two rows are enough for every pairwise race (claim
against claim, claim against reap, reap against finish, reap against reap). A lease
of one or two ticks distinguishes fresh, at the limit and expired, which is all the
code asks; ages saturate, and time has no bound. `MaxFaults`, `MaxFailures` and
`MaxRecords` bound the environment. In `shell`, one task is enough because leaves
share nothing but the sweep, which treats each listed leaf by itself; two workers
give a live sibling, a dead owner and a successor, and two pids in two namespaces
give a pid used again and one that means nothing here. In `policy`, four levels give
a read-write entry over a read-only one over a read-write one over a read-only one.
In `records`, three writers let two rewrites overlap while a third process
appends, and two faults cut two records in a row, or a record and the rewrite that
would have removed it; three logs let two prunes overlap while a
third log is being written, and with one log kept each finish prunes. The ledger
and the logs share nothing, so one moves while the other is at rest. In `scan`, a word
is absolute, relative, `..`, empty or a variable alone or with a tail, which are the
cases of `_expand_cd_target`, and a state of the walk does not depend on how many
statements led to it, so that the length of a task needs no bound. In `cgroup`, two
setups are needed for one to reset the other's delegation, and two disturbances for
a look that fails twice. The proofs remove the bounds for all safety: every
invariant and action property of the passing runs but `CutsAreConfined` is a
theorem, for any sets of rows, processes, paths, directories or records; what the
runs alone show is that one and liveness. Symmetry is used on rows, writers or
setups only, in safety runs whose constants treat them alike.

**Deadlock** is checked in the runs of the queue and of the loop. It is not in
`shell`, `execute`, `policy`, `scan`, `cgroup` and `records`, where the system
ends: every task has ended and its workers are up with nothing else to do, every
row is terminal, the policy is in force, the task is judged, setups have returned,
every record has been appended and every task logged.

**Types.** `TypeOK` says what the variables of a module range over. It is a theorem
of `SqliteTaskQueue`, `TaskQueue`, `RunWorker`, `SandboxPolicy`, `CgroupSetup`,
`TaskLog` (`LogTypeOK`) and `ScanLedger`, and part of the inductive invariants of
`Execute` and `RunShell`. The runs spend themselves on properties that are harder
to get right. So with what the contract promises (verdicts stand, claims and reaps
happen once, no call renews a lease), which `Contract` contains and
`SqliteTaskQueue_proofs` proves, and with the lock discipline.

**Fairness.** In `RunWorker`, weak fairness of each loop (its sleeps are
finite), of restarting an ended process (a supervisor or cron), of each pool
thread (an execution ends, at the latest by its timeout) and of time. In
`Execute`, of a drainer's steps (a command ends by its timeout), of the workers'
reaping (a caller of `drain_claimed_tasks` does not reap) and of time. In
`RunShell`, of `run_shell`'s thread (each of its waits has a timeout), of a
starting worker's sweep, and of the exit of a process that was sent SIGKILL; a
task need not ever do or end anything. Nothing is assumed of submissions, faults
or the queue's recovery: `EventuallyTerminal` says `<>[]queueUp` where it needs
it.

## 4. Findings

The first three have runs of their own, which TLC ends with a violation. The others
were found with the instances of section 3: findings 4 to 7 and 9 by making the
formula named there, which its module keeps and no run checks, a property of the
configuration.

1. **`once=True` may stop with rows pending** (worker.py:196-218). With every
   slot busy the loop computes `free = 0` and claims nothing; if the last task
   then finishes before `idle = not in_flight`, both `idle` and `not claimed`
   hold and the loop breaks. The docstring promises to drain the queue "until
   it is empty". One slot, two rows and no fault suffice.
2. **A live task can be reaped** (execute.py:205-221). The ceiling is per
   fenced block, the lease per task; `reaper_alignment_warning()` compares the
   two and is silent. lanes.py: "every lane's task should die by its own
   timeout, never by the reaper". The late finish then replaces the reaper's
   `failed` (`OnlyALateFinishChanges` holds).
3. **The migration is not atomic** (queue.py:146-156). `ALTER TABLE` commits by
   itself; cut before the `UPDATE`, the running rows keep a NULL `claimed_at`
   that neither a later opening nor the reaper looks at.
4. **A truthy answer authorizes egress** (execute.py:353). For a row with
   `allow_net` and no fleet attribution `execute_task_row` tests `not
   network_authorizer(..)`, so that any true answer lets it through. The type's
   comment says "Only the literal bool True authorizes egress"
   (execute.py:33-34), as `_network_denial` has it for attributed rows.
   `OnlyPassedRowsRun` says what the code does; `OnlyTrueAuthorizes` is what the
   comment says, and is refuted on `MCExecute.cfg` as it stands.
5. **The walk follows a `cd` the shell skips** (task_scan.py:43, 205).
   `check_tree_rewrite` splits at `&&` and `||` as at a semicolon. After
   `cd <read-only> || cd <writable>` it judges a verb by the writable directory,
   and the read-only checkout is rewritten. Its docstring: "Refuse a git verb that
   would rewrite the working tree of a checkout the mount policy binds read-only".
   Refuted: `RewritesAreRefused`, in one block.
6. **And refuses where it need not** (the same lines). After
   `cd <writable> || cd <read-only>` the verb is refused, although "a tree rewrite
   is refused only where the half-write can actually happen" (sandbox.py:405-407).
   Refuted: `RefusedOnlyReadOnly`.
7. **The walk carries its directory into the next block** (task_scan.py:293-311).
   Every fenced block starts in the task's directory (execute.py:201-224); after one
   that ends in a writable directory, a verb in the read-only one passes. Refuted:
   `RewritesAreRefused` again, with `Joins = {"seq"}`.
8. **A prune may take a log of the newest** (sandbox.py:1923). `rmtree` makes the
   directory it empties the newest, and another worker that sorts just then removes
   a log after which nothing was written. With 200 logs kept it costs one log too
   many for every worker that is removing at that moment. The docstring: "Keep the
   newest `keep` task-log dirs; remove the rest".
9. **A reset between two limits uncaps a task** (sandbox.py:1354-1360).
   `setup_cgroup` on a slice in use reloads systemd, which may reset
   `subtree_control`, and asserts it again; if `memory.max` was written before and
   `pids.max` is written after, the leaf is handed out with `memory.max` at `max`.
   The docstring: "the task is refused rather than run without a memory cap". The
   same reset uncaps tasks that already run, which nothing in the code looks at;
   `NeverQuietlyUncapped` holds up to that (`lost`). Refuted: `HandedOutCapped`, with
   one setup, one task and `MaxDisturb = 0`.

What the code does and a reader may not expect, seen while modelling and not
claimed by any run:

* The loop reaps with `reap_stale()`'s default agent, `kart`, whatever agent the
  worker claims for (worker.py:108). The runs give every row the default agent;
  `ReapAgent` and `AgentOf` are constants of the models.
* A sweep in another pid namespace tries `rmdir` once on every leaf that is not
  of its namespace (sandbox.py:1454-1472), which removes one whose task has not
  joined yet. The task is then refused, not run uncapped: `LiveLeafStays` says
  when this can happen, `CappedOrRefused` that it is harmless.
* A child that joins a leaf after the sweep's `cgroup.kill` survives it, and the
  leaf stays (`SweepRecovers` speaks of tasks that had joined).
* The installed tree is overlaid before the worktrees are added
  (sandbox.py:545-563): a worktree equal to it is mounted read-write
  (`InstalledHolds` excludes it), and entries inside it keep their mode.
* A trust root that the policy itself lists read-write gets no overlay. Without
  bwrap, read-write entries inside a trust root stay writable; bwrap's overlay
  hides them (`TrustHolds` has one conjunct for each).
* `ro_binds_needing_carving` calls a read-only bind shadowed by any later mount,
  a read-only one too, so that the warning may name directories that are not
  carved (`CarvingIsAnnounced` is exact only without bwrap); the warning prints the
  first few names, once for every set.
* A raising authorizer ends a batch drain: for a row with `allow_net` and no fleet
  attribution it is called with nothing around it (execute.py:347-360).
  `_process_row` catches the exception; `drain_claimed_tasks` lets it through,
  and that row and the rest of its batch stay `running` until a worker reaps
  them, although the comments say "any failure in it is a denial, not a crash"
  and "never raised past the worker" (execute.py:296, 365). `WorkersAnswer` is
  therefore about the guarded threads; `RowsEnd` holds where a worker reaps.
* The scanner's walk, after a `cd` it cannot resolve, joins a following relative
  `cd` to nothing and judges it where the worker is (`CdTarget`); a value it
  cannot resolve leaves the variable's older or host value in place. `tracked` and
  `trackedOf` exclude these cases.
* A slice that exists without the operator's unit file, and for which
  `systemctl show` fails once, looks as if no cap had been configured;
  `NeverQuietlyUncapped` is about an installed unit or a named parent. The
  several reads of `cgroup_parent_state` may see different moments of the slice,
  which is harmless as long as it is not undelegated and delegated again: the
  writes of the limits fail.
* `_normalize_shell_result` (execute.py:103-121) and the merged result of fenced
  blocks keep neither `_full_stdout` nor `_full_stderr`, so that the log stores
  the clipped output, although sandbox.py:1881-1886 explains why it has the
  whole. The merged result has no `sandbox_manifest` either: the keys logged for
  a fenced task are those of one without network or database
  (`KeysAreTheTasks` asks for the manifest).
* `mkdir(exist_ok=True)` and overwriting do not change a directory's time, so the
  log of a task that runs again under its id may be pruned at once although its
  path is reported (`OnlyUnchangedArePruned` is about an id of its own). The log of a
  task that was refused lists keys although nothing was handed to it.
* The markers kart_env sets (what a task may use) come before the worker's own
  environment, which overrides them where `env_prefixes` matches.
* Two racing rewrites of the ledger may not only lose and cut lines but repeat
  one and change the order; readers tell records apart by their ids only. An append
  that is cut short spoils the next record too, which is put on its line, and
  readers skip the line (`CutsAreConfined`); a rewrite that is cut loses what it
  had read.

## 5. What is proved

All theorems hold for every value of the constants that satisfies the named
assumptions of the modules (any sets of rows, processes, tasks, paths, policies;
any lease).

* `SqliteTaskQueue_proofs`: `LockDiscipline` says that `writer` is exactly the
  client inside a transaction; `ClaimTxn` and `ReapTxn` that the `ids` and the
  `draft` of an open transaction are still pending, or still running and
  overdue, in the committed rows; `Candidates` that what was scanned was
  overdue; `HeldIsClaimed` that what a client holds is claimed by it only.
  Without the first nothing protects `draft`, without the second COMMIT could
  not be shown to be a legal `Claim` or `Reap`. The invariant gives
  `TypeCorrect`, `LockIsDisciplined`, `ClaimsAreExclusive` and, action by
  action, `Implements`: the whole specification refines `TaskQueue`.
  `TakenInOrder`, that no row a claim has left behind is older than one it has
  taken while it updates row by row, gives `ClaimsTakeTheOldest`.
  Of the contract itself, `QInv` (`VerdictStands`, `ClaimedHasLeft`: a row
  with a claimant is past `pending`, `ReapedIsOver`: what was reaped is
  terminal) gives `ContractVerdictsStand`, `ContractClaimsAreOnce` and
  `ContractReapsAreOnce` for constants that satisfy `Parameters`, which the
  backend's assumption implies; with `Implements` they become `VerdictsStand`,
  `ClaimsAreOnce` and `ReapsAreOnce` of the backend.
* `RunWorker_proofs`: `Ownership`, `NotYetRun`, `OnlyDispatchHasTodo`,
  `TerminalHow`, `ClaimedHasLeft` and `Candidates` tie `runs`, `stage`, `todo`,
  `claimant` and `lost` together: a row is in one process, in one place, and has run
  at most once and only after being claimed. A running row is with its process or in
  `lost` (`RunningIsAccountedFor`), and rows get there only by a fault
  (`FaultsAreCounted`), hence `NothingIsMislaid`. `ExecutedOnce`, `LateFinishOnly`
  and `KeepsContract` (refinement of `TaskQueue`) follow. `FreeIsSafe`, that the
  free slots a process has counted are still free when it uses them (threads only
  ever free more), gives `SlotsAreRespected`. `LeaseHolds`, that a row worked on is
  within its lease, gives `AlignedLeasesAreSafe`: if processes keep to their time,
  the alignment warning is silent and no task has more than one block, the reaper
  takes abandoned rows only. Finding 2 is the missing hypothesis.
* `Execute_proofs`: `Ownership` says that a drainer holds only rows it claimed, so
  no other drainer's step is about them; `Stage` what is known of its row at each
  point of `execute_task_row` (the gates passed, how many commands ran, whether one
  failed); `Locality` that a step inside it disturbs one row only, so that each
  action is one leaf about one row. `GatesHold`, `VerdictsAreTrue` and
  `ThreadsAnswer` (a thread that lets go of its row has recorded a verdict, unless
  the open callback raised or the recording failed) follow, and `KeepsContract`: the
  whole of it, batch drains, failing writes and the reaper included, refines
  `TaskQueue`.
* `RunShell_proofs`: `Launch`, `Limits`, `Caps`, `Endings` and `Group` follow a task
  from the leaf's creation to its removal: nothing is launched before the limits
  are written, what joined keeps the directory there because rmdir refuses it,
  what was sent SIGKILL starts nothing. `Owners` says that a leaf that is not
  orphaned has the name of a process that is up, without which a sweep could
  take it for a leftover when pids are used again; `Victims` that what a sweep
  removes is an orphan's, and `KillsAreOwn` that no step but its worker's own kills a
  process of a task whose worker lives. `RunsAreCapped`, `LeavesAreReleased`,
  `TimeoutsKillTheGroup`, `LiveTasksAreNotSwept` and `LiveLeavesStay` follow.
* `TaskScan_proofs`: as long as the shell took every `cd` that the walk followed, the
  scanner's directory is the shell's (`DirectoryFollows`), and the variables it set as
  the walk did have the same values (`VariablesFollow`), whatever the words, joins and
  policies; a verb that is not refused was not to be. `HalfSwitchesAreRefused` and
  `RefusalsAreDeserved` follow. `RunsHaveNoFindings`
  follows from `RunsAreClean`: `runs` is answered only if no screen refuses, in
  whatever order they are asked, and no fragment blocks.
* `CgroupSetup_proofs`: what was configured when a task began to look still is when
  it decides, each limit is written before the next step, and one that is gone went
  with a delegation (`Capping`, `UndelegateKeeps`), so `CapsAreNeverLostQuietly` for
  any number of setups and tasks.
  `SetupsAgree` is about the last setup to reload: `DelegInv` says that, while
  nobody else interferes, some setup will still delegate or finds that what it
  delegated stays, and `QuietBefore` that what disturbs is counted for good.
* `SandboxPolicy_proofs`: the stages run once, and `IInv` says what each has made of
  the policy. The rest is about trees and lists. `Deepest` finds the bind that
  decides a path (the greatest place in the order of those that cover it),
  `LastMount` and `MountsAre` the mount that does, and the two are compared bind by
  bind, overlay by overlay (`UnderABind`, `UnderATrustRoot`): `PolicyIsMounted`,
  `TrustRootsStay`, `InstalledTreeStays`. `NoRuleAbove`, `NoRuleBeneath` and
  `WritableGetsARule` (the topmost path between a writable one and its bind that
  needs no carving is granted) give `RulesFollow`, `BwrapNeedsNoCarving` and
  `CarvingAnnounced`. Of paths it is assumed that ancestors form a finite chain
  and come first in the string order, as prefixes do.
* `Records_proofs`, in three parts that share nothing.
  The environment: lemmas on each part of `kart_env` (what is gathered came by a
  prefix, the identity is the submitter's, what is completed is kart's own) give
  `KartEnvIsGated`; with it `EnvironmentsAreGated` and `KeysAreTruthful`.
  The logs: `OnlyIsSelected`, `OnlyOrder` and `AppendOrder` say what picking some
  directories, or touching one, does to `NewerThan`, and `StaleIs` that exactly
  those are stale than which `Retention` others are newer. `DiskInv` has the
  types and that a directory that is gone has no files; `OneWrites`, that one
  execution at a time writes into a directory in which none was interrupted,
  gives `LogsAreOfOneRun`. `FreshInv` follows one log from its `mkdir`: what is
  newer began after it, so that a list by which it would be removed was made when
  enough others had changed (`Due`); it gives `UnchangedLogsSurvive`. `RetentionInv`, that
  somebody is always left who lists what is there or has listed it, gives
  `RetentionIsKept`: the last to finish prunes for all.
  The ledger: `WholeSplits` says that lines put together and read again are the
  same lines. As long as nothing was raced or cut, `LedgerInv` says that the file is
  the records from some first one on, that who rewrites holds the newest, and that
  who writes is alone (`LedgerTypes`, `Begins`, `Rewrites`): `NewestAreKept`.
  `RotationsBound` holds with cut appends too: a rewrite leaves `Keep` lines,
  whatever they hold. `LedgerTypeCorrect` is the types alone.

**Induction over data.** The induction theorems of the library take an operator as
a parameter, which the provers cannot instantiate. What the recursive functions
compute (`Only`, `Lines`, `FlattenSeq`'s fold, the chains of ancestors) is
proved by the smallest counterexample instead: `Smallest` says that a set of
naturals that is not empty has a least member, which the library's theorem on
well-founded sets (`WFMin`) gives without an operator. That a recursive function
exists at all is proved the same way (`SelectingExists`, `SplittingExists`,
`FlatteningExists`).

**Model-checked only:** all liveness (`OnceReturns`, `EventuallyTerminal`,
`HeartbeatTellsTheTruth`, `RowsEnd`, `RunShellReturns`, `SweepRecovers`), because
the prover has no reasoning about fairness or ENABLED; and `CutsAreConfined`, what a
cut append costs. `TypeOK` of `TaskScan` is not proved: that entering a directory
gives one is what a fold over the words of a path computes; `Typed` has the types
the theorems need. The violated properties are refuted by their runs.
`KeysAreTheTasks` (the keys a log records) is proved only: no run checks it.

## 6. Not modelled, and the plan

Left out of the components that are modelled: payloads, results and wording;
`stats()` and `get()` (they only read); `prune_completed` (no backend here has
it); argument parsing; which configuration file wins and `--symlink` entries;
the files bound for `allow_net`; kernels without `cgroup.kill`; Landlock's mode
and its refusals; `WILLOW_KART_LOG_ALL`; `_warn_if_db_gate_defeated`; the join of
the ledger with its annotations. Of the scanner: how the text is split, heredoc
bodies, what stands outside fences, Python blocks, subshells and `pushd`, and
which text each screen's regular expressions match. In `RunShell` an absent
cgroup parent stays absent; `CgroupSetup` has what changes it. A crash of the
machine that loses committed WAL frames is out of scope: SQLite's durability is
trusted.

Not modelled at all: security_scan.py (tables of regular expressions), home.py and
pyenv.py (stateless lookups), changelog_dedup.py (a release script) and the
package's re-exports. None of them keeps state or runs beside another part.

Two hazards have no property. The loop reaps for `reap_stale()`'s default agent
(worker.py:108), which the observations above describe; and the Landlock
launcher walks directories that a task of another worker may be changing
(landlock.py:386), which needs a file tree that moves under `SandboxPolicy`.

What would come next: that moving tree; the loop's default agent, as a constant
of the runs that differs from the rows'; and heredocs and subshells in the
scanner's walk.
