--------------------------- MODULE SandboxPolicy ---------------------------
(***************************************************************************)
(* From a mount policy to what a task may write: collect_bind_mounts and   *)
(* build_bwrap_argv (sandbox.py) make the mounts, landlock.py reads them    *)
(* back and turns them into rules, which only ever add rights.  Without     *)
(* bwrap the rules are the only lock.                                       *)
(*                                                                          *)
(*   collect -> build -> launch -> done, and without bwrap no build         *)
(*                                                                          *)
(* Paths are resolved host paths, and a path is mounted where it is on the  *)
(* host.  Bits: only whether a task may write, which includes creating and  *)
(* removing entries in a directory.                                         *)
(***************************************************************************)
EXTENDS Integers, Sequences, FiniteSets, FiniteSetsExt, SequencesExt

CONSTANTS
    Path, NoPath,
    Above,      \* Above[p]: the directories p is in
    Listing,    \* the paths in string order
    Tmp,        \* /tmp
    Socket,     \* the Postgres socket's directory
    Policies    \* what collect_bind_mounts may find

Covers(p, q) == p = q \/ p \in Above[q]

\* ro and rw are the configured entries, worktrees what the scan roots give,
\* runtime the interpreters' directories; trust is what must not be written.
Policy == [bwrap : BOOLEAN, db : BOOLEAN, exists : SUBSET Path, ro : SUBSET Path,
           rw : SUBSET Path, worktrees : SUBSET Path, runtime : SUBSET Path,
           installed : Path \cup {NoPath}, trust : SUBSET Path]

ASSUME SandboxPolicyAssumption ==
    /\ NoPath \notin Path
    /\ Above \in [Path -> SUBSET Path]
    /\ \A p \in Path : /\ p \notin Above[p]
                       /\ \A q \in Above[p] : Above[q] \subseteq Above[p]
                       /\ \A q, r \in Above[p] : Covers(q, r) \/ Covers(r, q)
    /\ Listing \in Seq(Path) /\ Range(Listing) = Path
    /\ \A i, j \in DOMAIN Listing : /\ Listing[i] = Listing[j] => i = j
                                    /\ Listing[i] \in Above[Listing[j]] => i < j
    /\ {Tmp, Socket} \subseteq Path
    /\ Policies \subseteq Policy
    /\ \A p \in Policies : /\ p.installed \in p.exists \cup {NoPath}
                           /\ \A q \in p.exists : Above[q] \subseteq p.exists

VARIABLES
    policy,
    stage,
    binds,      \* collect_bind_mounts: path to "ro" or "rw"
    argv,       \* bwrap's mounts, in order
    rw, ro,     \* the paths of the landlock spec
    warned,     \* the directories announced as carved
    carved,     \* the directories the launcher carves
    granted     \* where a rule gives every right

vars == <<policy, stage, binds, argv, rw, ro, warned, carved, granted>>

Mode == {"ro", "rw"}
Mount == [at : Path, mode : Mode]
Skipped == [at |-> NoPath, mode |-> "none"]    \* of the listing, and not bound

\* The binds that exist, the mounts, and the rules made of them (sandbox.py,
\* landlock.py).
TypeOK ==
    /\ policy \in Policies
    /\ stage \in {"collect", "build", "launch", "done"}
    /\ DOMAIN binds \subseteq policy.exists /\ \A p \in DOMAIN binds : binds[p] \in Mode
    /\ argv \in Seq(Mount \cup {Skipped})
    /\ rw \subseteq Path /\ ro \subseteq Path \ rw
    /\ warned \subseteq Path /\ carved \subseteq Path /\ granted \subseteq Path

Init ==
    /\ policy \in Policies
    /\ stage = "collect"
    /\ binds = [p \in {} |-> "ro"]
    /\ argv = <<>>
    /\ rw = {} /\ ro = {} /\ warned = {} /\ carved = {} /\ granted = {}

(***************************************************************************)
(* collect_bind_mounts.                                                    *)
(***************************************************************************)

\* _add for every path of S: what is missing is skipped, and read-write wins.
Add(m, S, mode) ==
    LET here == S \cap policy.exists IN
    [p \in DOMAIN m \cup here |->
       IF p \notin DOMAIN m \/ (p \in here /\ mode = "rw") THEN mode ELSE m[p]]

Configured == Add(Add([p \in {} |-> "ro"], policy.ro, "ro"), policy.rw, "rw")

\* Mutant: the installed tree is overlaid only if it is bound itself.
OverlaidIfListed(m) ==
    IF policy.installed \in DOMAIN m
      THEN [m EXCEPT ![policy.installed] = "ro"] ELSE m

\* An installed willow_mcp under a read-write bind is bound read-only over it.
Overlaid(m) ==
    IF policy.installed # NoPath
       /\ \E k \in DOMAIN m : m[k] = "rw" /\ Covers(k, policy.installed)
      THEN [p \in DOMAIN m \cup {policy.installed} |->
              IF p = policy.installed THEN "ro" ELSE m[p]]
      ELSE m

Collect ==
    /\ stage = "collect"
    /\ binds' = Add(Add(Overlaid(Configured), policy.worktrees, "rw"), policy.runtime, "ro")
    /\ stage' = "build"
    /\ UNCHANGED <<policy, argv, rw, ro, warned, carved, granted>>

\* path_read_only_in_policy: the longest bind over p decides.
InPolicy(p) ==
    LET over == {k \in DOMAIN binds : Covers(k, p)} IN
    IF over = {} THEN "none"
    ELSE binds[CHOOSE k \in over : \A j \in over : Covers(j, k)]

(***************************************************************************)
(* build_bwrap_argv, and what bwrap makes of it.                           *)
(***************************************************************************)

\* The mounts of the paths of m, sorted by path.
InOrder(m) == [i \in DOMAIN Listing |->
    IF Listing[i] \in DOMAIN m THEN [at |-> Listing[i], mode |-> m[Listing[i]]]
                               ELSE Skipped]

ReadOnly(S) == [p \in S |-> "ro"]

\* Mutant: the binds in the order of the policy's lists.
SortedByList ==
    InOrder(ReadOnly({p \in DOMAIN binds : binds[p] = "ro"}))
    \o InOrder([p \in {q \in DOMAIN binds : binds[q] = "rw"} |-> "rw"])

Sorted == InOrder(binds)

\* collect_mcp_trust_ro_overlays, without what is bound already.
Overlays == (policy.trust \cap policy.exists) \ DOMAIN binds

Scratch == <<[at |-> Tmp, mode |-> "rw"]>>
Database == IF policy.db /\ Socket \in policy.exists
              THEN <<[at |-> Socket, mode |-> "rw"]>> ELSE <<>>

\* Mutant: the trust roots are bound before the policy's binds.
ArgvTrustFirst == Scratch \o InOrder(ReadOnly(Overlays)) \o Sorted \o Database

Argv == Scratch \o Sorted \o InOrder(ReadOnly(Overlays)) \o Database

\* bwrap mounts in the order of its arguments: the last one over p decides.
Mounted(p) ==
    LET over == {i \in DOMAIN argv : Covers(argv[i].at, p)} IN
    IF over = {} THEN "none" ELSE argv[Max(over)].mode

\* binds_from_bwrap_argv, in the order of landlock_spec: read-write wins.
Bound(mounts, mode) == {mounts[i].at : i \in {j \in DOMAIN mounts : mounts[j].mode = mode}}

\* ro_binds_needing_carving: a later mount, of either mode, covers the bind.
Shadowed(mounts) ==
    {mounts[i].at : i \in {j \in DOMAIN mounts :
       /\ mounts[j].mode = "ro"
       /\ \E k \in DOMAIN mounts : k > j /\ Covers(mounts[k].at, mounts[j].at)}}

\* Mutant: only the read-write path itself.
CarvedDirsTop(R, D) == {r \in R : \E d \in D : r \in Above[d]}

\* carved_dirs: from each read-write path down to the read-only ones in it.
CarvedDirs(R, D) ==
    {q \in Path : \E r \in R, d \in D : r \in Above[d] /\ Covers(r, q) /\ q \in Above[d]}

Build ==
    /\ stage = "build" /\ policy.bwrap
    /\ argv' = Argv
    /\ rw' = Bound(argv', "rw")
    /\ ro' = Bound(argv', "ro") \ rw'
    /\ warned' = CarvedDirs(rw', Shadowed(argv'))
    /\ stage' = "launch"
    /\ UNCHANGED <<policy, binds, carved, granted>>

\* run_shell without bwrap: the lists are the binds, and the trust roots.
BuildPlain ==
    /\ stage = "build" /\ ~policy.bwrap
    /\ rw' = {p \in DOMAIN binds : binds[p] = "rw"}
    /\ LET d == {p \in DOMAIN binds : binds[p] = "ro"} \cup (policy.trust \cap policy.exists)
       IN ro' = d \ rw' /\ warned' = CarvedDirs(rw', d)
    /\ stage' = "launch"
    /\ UNCHANGED <<policy, binds, argv, carved, granted>>

(***************************************************************************)
(* The launcher.                                                           *)
(***************************************************************************)

\* Mutant: the mount flags are not looked at.
OnReadOnlyMountNever == {}

\* The read-only paths whose mount refuses every write already.
OnReadOnlyMount == {p \in ro : policy.bwrap /\ Mounted(p) = "ro"}

ToCarve == ro \ OnReadOnlyMount

\* From r down to the read-only paths in it, without these.
OnWay(r) ==
    {q \in Path : Covers(r, q) /\ \E d \in ToCarve : r \in Above[d] /\ q \in Above[d]}

\* carve(), which recurses on the way and into no read-only path.
Visited(r) ==
    {q \in OnWay(r) : \A x \in ro : ~(r \in Above[x] /\ Covers(x, q))}

In(x, dirs) == \E q \in dirs : q \in Above[x] /\ \A y \in Above[x] : Covers(y, q)

\* Mutant: a read-write path gets its rule whatever is in it.
GrantsUncarved(r) == {r}

\* Every right on r; or, if r is carved, on the entries of the carved
\* directories that are not carved or read-only themselves.
Grants(r) ==
    IF OnWay(r) = {} THEN {r}
    ELSE {x \in policy.exists : In(x, Visited(r)) /\ x \notin ro \cup OnWay(r)}

Launch ==
    /\ stage = "launch"
    /\ granted' = UNION {Grants(r) : r \in rw \cap policy.exists}
    /\ carved' = UNION {Visited(r) : r \in rw \cap policy.exists}
    /\ stage' = "done"
    /\ UNCHANGED <<policy, binds, argv, rw, ro, warned>>

Next == Collect \/ Build \/ BuildPlain \/ Launch

Spec == Init /\ [][Next]_vars

(***************************************************************************)
(* Properties.                                                             *)
(***************************************************************************)

\* A rule on a directory holds for everything in it.
Granted(p) == \E g \in granted : Covers(g, p)

\* bwrap alone must do, for Landlock may be off; without bwrap Landlock must.
MayWrite(p) == IF policy.bwrap THEN Mounted(p) = "rw" ELSE Granted(p)

Launched == stage = "done"

\* The socket's directory is bound last, over whatever else is there.
Socketed(p) == policy.db /\ Covers(Socket, p)

\* "Longest matching bind wins, which is how bwrap applies them too": what
\* path_read_only_in_policy tells the task scanner is what the task will find,
\* wherever no trust root and no socket is bound on top.
PolicyIsWhatIsMounted ==
    Launched /\ policy.bwrap =>
      \A p \in Path :
        \/ InPolicy(p) = Mounted(p)
        \/ Socketed(p) \/ \E t \in Overlays \cup {Tmp} : Covers(t, p)

\* "trust roots that must be read-only": no task writes one that the policy does
\* not list read-write itself; and under bwrap nothing in one that is not bound.
\* Where the socket is bound, what is there is the database's.
TrustHolds ==
    Launched => \A t \in policy.trust \cap policy.exists :
      /\ t \notin policy.rw \cup policy.worktrees /\ ~Socketed(t) => ~MayWrite(t)
      /\ policy.bwrap /\ t \in Overlays =>
           \A p \in Path : Covers(t, p) /\ ~Socketed(p) => ~MayWrite(p)

\* "A task must not be able to edit the code that gates it": an installed tree
\* in a read-write entry of the policy is written only through an entry inside.
InstalledHolds ==
    Launched /\ policy.installed # NoPath /\ policy.installed \notin policy.worktrees
    /\ (\E k \in policy.rw \cap policy.exists : Covers(k, policy.installed))
      => \A p \in Path : Covers(policy.installed, p) /\ ~Socketed(p) /\ MayWrite(p) =>
           \E k \in policy.rw \cup policy.worktrees :
             policy.installed \in Above[k] /\ Covers(k, p)

\* Without bwrap, the rules give what the deepest entry over a path says: no
\* read-only path is made writable by a directory above it, and what is beside
\* or in between stays writable, except for the carved directories themselves.
RulesFollowTheLists ==
    Launched /\ ~policy.bwrap => \A p \in policy.exists :
      LET over == {k \in rw \cup ro : Covers(k, p)}
          writable == over # {} /\ (CHOOSE k \in over : \A j \in over : Covers(j, k)) \in rw
      IN Granted(p) <=> writable /\ p \notin carved

\* Under bwrap every read-only path is on a read-only mount: nothing is carved
\* (git can create .git/index.lock beside a read-only .git/hooks), and Landlock
\* takes nothing away from what is mounted read-write; unless the socket's
\* directory is bound over a read-only path.
NothingCarvedUnderBwrap ==
    Launched /\ policy.bwrap /\ (\A p \in ro : ~Socketed(p)) =>
      carved = {} /\ \A p \in policy.exists : Mounted(p) = "rw" => Granted(p)

\* The warning names every directory that is carved; and without bwrap only
\* directories that lost the right to create, unless a trust root is listed
\* read-write as well.
CarvingIsAnnounced ==
    Launched => /\ carved \subseteq warned
                /\ ~policy.bwrap /\ policy.trust \cap rw = {} => \A d \in warned : ~Granted(d)
=============================================================================
