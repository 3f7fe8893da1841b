------------------------ MODULE SandboxPolicy_proofs ------------------------
(***************************************************************************)
(* Proofs about SandboxPolicy, for every tree, every policy and any number  *)
(* of binds.  The stages run once, so the inductive invariant says what     *)
(* each has computed; the rest is about trees, mounts and rules.            *)
(***************************************************************************)
EXTENDS SandboxPolicy, WellFoundedInduction, TLAPS

\* What collect_bind_mounts returns.
Collected == Add(Add(Overlaid(Configured), policy.worktrees, "rw"), policy.runtime, "ro")

\* What the launcher is to keep read-only without bwrap.
PlainReadOnly ==
    {p \in DOMAIN binds : binds[p] = "ro"} \cup (policy.trust \cap policy.exists)

BuiltFor ==
    IF policy.bwrap
      THEN /\ argv = Argv
           /\ rw = Bound(argv, "rw") /\ ro = Bound(argv, "ro") \ rw
           /\ warned = CarvedDirs(rw, Shadowed(argv))
      ELSE /\ rw = {p \in DOMAIN binds : binds[p] = "rw"}
           /\ ro = PlainReadOnly \ rw
           /\ warned = CarvedDirs(rw, PlainReadOnly)

LaunchedFor ==
    /\ granted = UNION {Grants(r) : r \in rw \cap policy.exists}
    /\ carved = UNION {Visited(r) : r \in rw \cap policy.exists}

\* Every stage's variables hold what the stage makes of the policy.
IInv ==
    /\ policy \in Policies
    /\ stage \in {"collect", "build", "launch", "done"}
    /\ stage # "collect" => binds = Collected
    /\ stage \in {"launch", "done"} => BuiltFor
    /\ stage = "done" => LaunchedFor

\* The same policy gives the same binds, and the same binds the same mounts.
LEMMA SamePolicy ==
    ASSUME policy' = policy
    PROVE  Collected' = Collected
  <1>1. \A m, S, mode : Add(m, S, mode)' = Add(m, S, mode)
    BY DEF Add
  <1>2. Configured' = Configured
    BY <1>1 DEF Configured
  <1>3. \A m : Overlaid(m)' = Overlaid(m)
    BY DEF Overlaid
  <1>. QED
    BY <1>1, <1>2, <1>3 DEF Collected

LEMMA SameBinds ==
    ASSUME policy' = policy, binds' = binds
    PROVE  Argv' = Argv /\ PlainReadOnly' = PlainReadOnly
  <1>1. \A m : InOrder(m)' = InOrder(m)
    BY DEF InOrder
  <1>2. Sorted' = Sorted /\ Overlays' = Overlays /\ Database' = Database
    BY <1>1 DEF Sorted, Overlays, Database
  <1>. QED
    BY <1>1, <1>2 DEF Argv, Scratch, ReadOnly, PlainReadOnly

LEMMA Invariance == Spec => []IInv
  <1>1. Init => IInv
    BY DEF Init, IInv
  <1>2. ASSUME IInv, Collect PROVE IInv'
    BY <1>2, SamePolicy DEF IInv, Collect, Collected
  <1>3. ASSUME IInv, Build PROVE IInv'
    <2>1. policy' = policy /\ binds' = binds
      BY <1>3 DEF Build
    <2>. QED
      BY <1>3, <2>1, SamePolicy, SameBinds
      DEF IInv, Build, BuiltFor, Bound, Shadowed, CarvedDirs
  <1>4. ASSUME IInv, BuildPlain PROVE IInv'
    <2>1. policy' = policy /\ binds' = binds
      BY <1>4 DEF BuildPlain
    <2>. QED
      BY <1>4, <2>1, SamePolicy, SameBinds
      DEF IInv, BuildPlain, BuiltFor, CarvedDirs, PlainReadOnly
  <1>5. ASSUME IInv, Launch PROVE IInv'
    <2>0. policy' = policy /\ binds' = binds
      BY <1>5 DEF Launch
    <2>1. BuiltFor' <=> BuiltFor
      BY <1>5, <2>0, SameBinds DEF Launch, BuiltFor, Bound, Shadowed, CarvedDirs
    <2>3. \A r : Grants(r)' = Grants(r) /\ Visited(r)' = Visited(r)
      BY <1>5 DEF Launch, Grants, Visited, OnWay, ToCarve, OnReadOnlyMount, Mounted
    <2>4. LaunchedFor'
      BY <1>5, <2>3 DEF Launch, LaunchedFor
    <2>. QED
      BY <1>5, <2>0, <2>1, <2>4, SamePolicy DEF IInv, Launch
  <1>6. ASSUME IInv, UNCHANGED vars PROVE IInv'
    <2>0. /\ policy' = policy /\ binds' = binds /\ argv' = argv /\ stage' = stage
          /\ rw' = rw /\ ro' = ro /\ warned' = warned
          /\ granted' = granted /\ carved' = carved
      BY <1>6 DEF vars
    <2>1. BuiltFor' <=> BuiltFor
      BY <2>0, SameBinds DEF BuiltFor, Bound, Shadowed, CarvedDirs
    <2>2. LaunchedFor' <=> LaunchedFor
      <3>1. \A r : Grants(r)' = Grants(r) /\ Visited(r)' = Visited(r)
        BY <2>0 DEF Grants, Visited, OnWay, ToCarve, OnReadOnlyMount, Mounted
      <3>. QED
        BY <2>0, <3>1 DEF LaunchedFor
    <2>. QED
      BY <1>6, <2>0, <2>1, <2>2, SamePolicy DEF IInv
  <1>7. IInv /\ [Next]_vars => IInv'
    BY <1>2, <1>3, <1>4, <1>5, <1>6 DEF Next
  <1>. QED
    BY <1>1, <1>7, PTL DEF Spec

-----------------------------------------------------------------------------
(***************************************************************************)
(* Numbers: every set of them has a smallest one, and a bounded one a       *)
(* greatest.                                                                *)
(***************************************************************************)

LEMMA Smallest ==
    ASSUME NEW S, S \subseteq Nat, S # {}
    PROVE  \E x \in S : \A y \in S : x <= y
  <1> DEFINE R == OpToRel(<, Nat)
  <1>1. IsWellFoundedOn(R, Nat)
    BY NatLessThanWellFounded
  <1>2. \A x, y \in Nat : <<y, x>> \in R <=> y < x
    BY DEF OpToRel
  <1> HIDE DEF R
  <1>3. PICK x \in S : \A y \in S : ~(<<y, x>> \in R)
    BY <1>1, WFMin
  <1>4. \A y \in S : y \in Nat /\ x \in Nat /\ ~(y < x)
    BY <1>2, <1>3
  <1>. QED
    BY <1>4

LEMMA Greatest ==
    ASSUME NEW S, S \subseteq Nat, S # {}, NEW n \in Nat, \A x \in S : x <= n
    PROVE  Max(S) \in S /\ \A y \in S : y <= Max(S)
  <1> DEFINE T == {m \in Nat : n - m \in S}
  <1>1. \A x \in S : n - x \in T
    <2> TAKE x \in S
    <2>1. x \in Nat /\ n - x \in Nat /\ n - (n - x) = x
      OBVIOUS
    <2>. QED
      BY <2>1
  <1>2. T \subseteq Nat /\ T # {}
    BY <1>1
  <1> HIDE DEF T
  <1>3. PICK m \in T : \A y \in T : m <= y
    BY <1>2, Smallest
  <1>4. n - m \in S
    BY DEF T
  <1>5. \A y \in S : n - m >= y
    <2> TAKE y \in S
    <2>1. m <= n - y /\ y \in Nat /\ m \in Nat
      BY <1>1, <1>2, <1>3
    <2>. QED
      BY <2>1
  <1>6. Max(S) \in S /\ \A y \in S : Max(S) >= y
    BY <1>4, <1>5 DEF Max
  <1>. QED
    BY <1>6

-----------------------------------------------------------------------------
(***************************************************************************)
(* The tree.                                                               *)
(***************************************************************************)

\* Covers is an order, and what covers one path is a chain.
LEMMA CoversIsAnOrder ==
    ASSUME NEW p \in Path, NEW q \in Path, NEW r \in Path
    PROVE  /\ Covers(p, p)
           /\ Covers(p, q) /\ Covers(q, r) => Covers(p, r)
           /\ p \in Above[q] /\ Covers(q, r) => p \in Above[r]
           /\ Covers(p, q) /\ q \in Above[r] => p \in Above[r]
           /\ Covers(p, q) /\ Covers(q, p) => p = q
           /\ Covers(p, r) /\ Covers(q, r) => Covers(p, q) \/ Covers(q, p)
  BY SandboxPolicyAssumption DEF Covers

\* Where a path is listed.
Index(p) == CHOOSE i \in DOMAIN Listing : Listing[i] = p

LEMMA IndexOf ==
    ASSUME NEW p \in Path
    PROVE  Index(p) \in DOMAIN Listing /\ Listing[Index(p)] = p /\ Index(p) \in Nat
  <1>1. \E i \in DOMAIN Listing : Listing[i] = p
    BY SandboxPolicyAssumption DEF Range
  <1>2. DOMAIN Listing \subseteq Nat
    BY SandboxPolicyAssumption
  <1>. QED
    BY <1>1, <1>2 DEF Index

LEMMA IndexOfListed ==
    ASSUME NEW i \in DOMAIN Listing
    PROVE  Listing[i] \in Path /\ Index(Listing[i]) = i
  <1>1. Listing[i] \in Path
    BY SandboxPolicyAssumption
  <1>2. Index(Listing[i]) \in DOMAIN Listing /\ Listing[Index(Listing[i])] = Listing[i]
    BY <1>1, IndexOf
  <1>3. \A j, k \in DOMAIN Listing : Listing[j] = Listing[k] => j = k
    BY SandboxPolicyAssumption
  <1>. QED
    BY <1>1, <1>2, <1>3

\* Directories are listed before what is in them.
LEMMA IndexGrows ==
    ASSUME NEW p \in Path, NEW q \in Path, Covers(p, q)
    PROVE  Index(p) <= Index(q) /\ (Index(q) <= Index(p) => p = q)
  <1>1. p = q \/ Index(p) < Index(q)
    BY IndexOf, SandboxPolicyAssumption DEF Covers
  <1>. QED
    BY <1>1, IndexOf

\* Of the paths that cover p there is a deepest, unless there are none.
LEMMA Deepest ==
    ASSUME NEW p \in Path, NEW S \in SUBSET Path, S # {}, \A k \in S : Covers(k, p)
    PROVE  \E k \in S : \A j \in S : Covers(j, k)
  <1> DEFINE I == {Index(q) : q \in S}
  <1>1. I \subseteq Nat /\ I # {} /\ Len(Listing) \in Nat
    BY IndexOf, SandboxPolicyAssumption
  <1>2. \A i \in I : i <= Len(Listing)
    BY IndexOf, SandboxPolicyAssumption
  <1>3. Max(I) \in I /\ \A i \in I : i <= Max(I)
    BY <1>1, <1>2, Greatest
  <1>4. PICK k \in S : Index(k) = Max(I)
    BY <1>3
  <1>5. \A j \in S : Index(j) <= Index(k)
    BY <1>3, <1>4
  <1>6. \A j \in S : Covers(j, k)
    <2> TAKE j \in S
    <2>1. Covers(j, k) \/ Covers(k, j)
      BY CoversIsAnOrder
    <2>2. CASE Covers(k, j)
      BY <1>5, <2>2, IndexGrows, CoversIsAnOrder
    <2>. QED
      BY <2>1, <2>2
  <1>. QED
    BY <1>6

\* And it is the only one.
LEMMA DeepestIsOne ==
    ASSUME NEW S \in SUBSET Path, NEW k \in S, \A j \in S : Covers(j, k)
    PROVE  k = CHOOSE x \in S : \A j \in S : Covers(j, x)
  <1>1. \A x \in S : (\A j \in S : Covers(j, x)) => x = k
    BY CoversIsAnOrder
  <1>. QED
    BY <1>1

-----------------------------------------------------------------------------
(***************************************************************************)
(* The binds.                                                              *)
(***************************************************************************)

\* What the policy holds.
LEMMA PolicyTypes ==
    ASSUME policy \in Policies
    PROVE  /\ policy.exists \subseteq Path /\ policy.ro \subseteq Path
           /\ policy.rw \subseteq Path /\ policy.worktrees \subseteq Path
           /\ policy.runtime \subseteq Path /\ policy.trust \subseteq Path
           /\ policy.installed \in policy.exists \cup {NoPath}
           /\ policy.db \in BOOLEAN /\ policy.bwrap \in BOOLEAN
           /\ \A p, q \in Path : Covers(p, q) /\ q \in policy.exists => p \in policy.exists
  <1>1. policy \in Policy
    BY SandboxPolicyAssumption
  <1>. QED
    BY <1>1, SandboxPolicyAssumption DEF Policy, Covers

\* Every bind exists, and the read-write ones are listed or found so.
LEMMA CollectedBinds ==
    ASSUME policy \in Policies
    PROVE  /\ DOMAIN Collected \subseteq policy.exists
           /\ \A p \in DOMAIN Collected :
                /\ Collected[p] \in {"ro", "rw"}
                /\ Collected[p] = "rw" => p \in policy.rw \cup policy.worktrees
  <1>0. policy.installed \in policy.exists \cup {NoPath}
    BY PolicyTypes
  <1> DEFINE Good(m) ==
        /\ DOMAIN m \subseteq policy.exists
        /\ \A p \in DOMAIN m : /\ m[p] \in {"ro", "rw"}
                               /\ m[p] = "rw" => p \in policy.rw \cup policy.worktrees
  <1>1. ASSUME NEW m, Good(m), NEW S PROVE Good(Add(m, S, "ro"))
    BY <1>1 DEF Add
  <1>2. ASSUME NEW m, Good(m), NEW S, S \subseteq policy.rw \cup policy.worktrees
        PROVE  Good(Add(m, S, "rw"))
    BY <1>2 DEF Add
  <1>3. ASSUME NEW m, Good(m) PROVE Good(Overlaid(m))
    BY <1>0, <1>3 DEF Overlaid
  <1>4. Good([p \in {} |-> "ro"])
    OBVIOUS
  <1> HIDE DEF Good
  <1>5. Good(Configured)
    BY <1>1, <1>2, <1>4 DEF Configured
  <1>6. Good(Collected)
    BY <1>1, <1>2, <1>3, <1>5 DEF Collected
  <1>. QED
    BY <1>6 DEF Good

\* An installed tree that a read-write entry covers is bound read-only.
LEMMA InstalledIsBound ==
    ASSUME policy \in Policies, policy.installed # NoPath,
           policy.installed \notin policy.worktrees,
           NEW k \in policy.rw \cap policy.exists, Covers(k, policy.installed)
    PROVE  /\ policy.installed \in DOMAIN Collected
           /\ Collected[policy.installed] = "ro"
  <1>1. k \in DOMAIN Configured /\ Configured[k] = "rw"
    BY DEF Configured, Add
  <1>2. /\ policy.installed \in DOMAIN Overlaid(Configured)
        /\ Overlaid(Configured)[policy.installed] = "ro"
    BY <1>1 DEF Overlaid
  <1> DEFINE m == Add(Overlaid(Configured), policy.worktrees, "rw")
  <1>3. policy.installed \in DOMAIN m /\ m[policy.installed] = "ro"
    BY <1>2 DEF Add
  <1> HIDE DEF m
  <1>4. LET n == Add(m, policy.runtime, "ro")
        IN  policy.installed \in DOMAIN n /\ n[policy.installed] = "ro"
    BY <1>3 DEF Add
  <1>. QED
    BY <1>4 DEF Collected, m

-----------------------------------------------------------------------------
(***************************************************************************)
(* The mounts.                                                             *)
(***************************************************************************)

N == Len(Listing)

\* The places of the mounts: the scratch directory, the binds, the trust roots,
\* and perhaps the socket.
LEMMA ArgvShape ==
    ASSUME policy \in Policies, argv = Argv
    PROVE  /\ N \in Nat /\ DOMAIN Listing = 1 .. N /\ DOMAIN argv = 1 .. Len(argv)
           /\ Len(argv) \in {N + N + 1, N + N + 2}
           /\ argv[1] = [at |-> Tmp, mode |-> "rw"]
           /\ \A i \in 1 .. N : /\ argv[1 + i] = Sorted[i]
                                /\ argv[1 + N + i] = InOrder(ReadOnly(Overlays))[i]
           /\ Len(argv) = N + N + 2 =>
                /\ policy.db /\ Socket \in policy.exists
                /\ argv[N + N + 2] = [at |-> Socket, mode |-> "rw"]
  <1> DEFINE b == Sorted
             c == InOrder(ReadOnly(Overlays))
             A == {Scratch[1]} \cup {b[i] : i \in 1 .. N} \cup {c[i] : i \in 1 .. N}
                  \cup {[at |-> Socket, mode |-> "rw"]}
  <1>1. N \in Nat /\ DOMAIN Listing = 1 .. N
    BY SandboxPolicyAssumption DEF N
  <1>2. Scratch = <<[at |-> Tmp, mode |-> "rw"]>> /\ Scratch \in Seq(A) /\ Len(Scratch) = 1
    BY DEF Scratch
  <1>3. b \in Seq(A) /\ Len(b) = N
    <2>1. b = [i \in 1 .. N |-> b[i]]
      BY <1>1 DEF Sorted, InOrder
    <2> HIDE DEF b
    <2>. QED
      BY <1>1, <2>1
  <1>4. c \in Seq(A) /\ Len(c) = N
    <2>1. c = [i \in 1 .. N |-> c[i]]
      BY <1>1 DEF InOrder
    <2> HIDE DEF c
    <2>. QED
      BY <1>1, <2>1
  <1>5. /\ Database \in Seq(A) /\ Len(Database) \in {0, 1}
        /\ Len(Database) = 1 => /\ policy.db /\ Socket \in policy.exists
                                /\ Database[1] = [at |-> Socket, mode |-> "rw"]
    <2>1. CASE policy.db /\ Socket \in policy.exists
      BY <2>1 DEF Database
    <2>2. CASE ~(policy.db /\ Socket \in policy.exists)
      BY <2>2 DEF Database
    <2>. QED
      BY <2>1, <2>2
  <1> HIDE DEF A, b, c
  <1> DEFINE m == Scratch \o b \o c
  <1>6. /\ m \in Seq(A) /\ Len(m) = 1 + N + N
        /\ \A i \in 1 .. 1 : m[i] = Scratch[i]
        /\ \A i \in 1 .. N : m[1 + i] = b[i] /\ m[1 + N + i] = c[i]
    <2>1. /\ m \in Seq(A) /\ Len(m) = Len(Scratch) + Len(b) + Len(c)
          /\ \A i \in 1 .. Len(Scratch) : m[i] = Scratch[i]
          /\ \A i \in 1 .. Len(b) : m[Len(Scratch) + i] = b[i]
          /\ \A i \in 1 .. Len(c) : m[Len(Scratch) + Len(b) + i] = c[i]
      BY <1>2, <1>3, <1>4, SMTT(60)
    <2> HIDE DEF m
    <2>. QED
      BY <1>1, <1>2, <1>3, <1>4, <2>1, SMTT(60)
  <1> HIDE DEF m
  <1>7. /\ argv \in Seq(A) /\ Len(argv) = 1 + N + N + Len(Database)
        /\ argv[1] = Scratch[1]
        /\ \A i \in 1 .. N : argv[1 + i] = b[i] /\ argv[1 + N + i] = c[i]
        /\ \A i \in 1 .. Len(Database) : argv[1 + N + N + i] = Database[i]
    <2>1. argv = m \o Database
      BY DEF Argv, m, b, c
    <2>2. /\ argv \in Seq(A) /\ Len(argv) = Len(m) + Len(Database)
          /\ \A i \in 1 .. Len(m) : argv[i] = m[i]
          /\ \A i \in 1 .. Len(Database) : argv[Len(m) + i] = Database[i]
      BY <1>5, <1>6, <2>1, SMTT(60)
    <2>. QED
      BY <1>1, <1>6, <2>2, SMTT(60)
  <1>8. Len(argv) \in {N + N + 1, N + N + 2}
    <2>1. N \in Nat /\ Len(Database) \in {0, 1} /\ Len(argv) = 1 + N + N + Len(Database)
      BY <1>1, <1>5, <1>7
    <2> DEFINE d == Len(Database)
               l == Len(argv)
    <2> HIDE DEF d, l
    <2>2. d \in {0, 1} /\ l = 1 + N + N + d
      BY <2>1 DEF d, l
    <2>3. l \in {N + N + 1, N + N + 2}
      BY <2>1, <2>2
    <2>. QED
      BY <2>3 DEF l
  <1>9. Len(argv) = N + N + 2 => Len(Database) = 1 /\ argv[N + N + 2] = Database[1]
    BY <1>1, <1>5, <1>7, SMTT(60)
  <1>. QED
    BY <1>1, <1>2, <1>5, <1>7, <1>8, <1>9 DEF b, c

\* bwrap's mounts are made.
Built == IInv /\ stage \in {"launch", "done"} /\ policy.bwrap

\* What decides over p is the last mount over it.
LEMMA LastMount ==
    ASSUME Built, NEW p \in Path, NEW i \in DOMAIN argv, Covers(argv[i].at, p)
    PROVE  \E k \in DOMAIN argv :
             /\ Covers(argv[k].at, p) /\ Mounted(p) = argv[k].mode
             /\ \A j \in DOMAIN argv : Covers(argv[j].at, p) => j <= k
  <1> DEFINE over == {j \in DOMAIN argv : Covers(argv[j].at, p)}
  <1>1. DOMAIN argv = 1 .. Len(argv) /\ Len(argv) \in Nat
    BY ArgvShape DEF Built, IInv, BuiltFor
  <1>2. over \subseteq Nat /\ over # {} /\ \A j \in over : j <= Len(argv)
    BY <1>1
  <1>3. Max(over) \in over /\ \A j \in over : j <= Max(over)
    BY <1>1, <1>2, Greatest
  <1>4. Mounted(p) = argv[Max(over)].mode
    BY <1>2 DEF Mounted
  <1>. QED
    BY <1>3, <1>4

\* What a mount is: the scratch directory, a bind, a trust root or the socket.
LEMMA MountIs ==
    ASSUME Built, NEW k \in DOMAIN argv
    PROVE  \/ argv[k] = Skipped
           \/ k = 1 /\ argv[k] = [at |-> Tmp, mode |-> "rw"]
           \/ \E q \in DOMAIN binds : /\ k = 1 + Index(q)
                                      /\ argv[k] = [at |-> q, mode |-> binds[q]]
           \/ \E t \in Overlays : /\ k = 1 + N + Index(t)
                                  /\ argv[k] = [at |-> t, mode |-> "ro"]
           \/ policy.db /\ Socket \in policy.exists /\ argv[k] = [at |-> Socket, mode |-> "rw"]
  <1>1. \A i \in DOMAIN Listing : i = Index(Listing[i])
    BY IndexOfListed
  <1>2. /\ N \in Nat /\ DOMAIN Listing = 1 .. N /\ DOMAIN argv = 1 .. Len(argv)
        /\ Len(argv) \in {N + N + 1, N + N + 2}
        /\ argv[1] = [at |-> Tmp, mode |-> "rw"]
        /\ \A i \in 1 .. N : /\ argv[1 + i] = Sorted[i]
                             /\ argv[1 + N + i] = InOrder(ReadOnly(Overlays))[i]
        /\ Len(argv) = N + N + 2 =>
             /\ policy.db /\ Socket \in policy.exists
             /\ argv[N + N + 2] = [at |-> Socket, mode |-> "rw"]
    BY ArgvShape DEF Built, IInv, BuiltFor
  <1>n. N \in Nat /\ k \in 1 .. Len(argv)
    BY <1>2
  <1>3. CASE k \in 2 .. N + 1
    <2>1. k - 1 \in 1 .. N /\ k = 1 + (k - 1)
      BY <1>n, <1>3
    <2>2. argv[k] = Sorted[k - 1]
      BY <1>2, <2>1
    <2>3. IF Listing[k - 1] \in DOMAIN binds
            THEN argv[k] = [at |-> Listing[k - 1], mode |-> binds[Listing[k - 1]]]
            ELSE argv[k] = Skipped
      BY <1>2, <2>1, <2>2 DEF Sorted, InOrder
    <2>. QED
      BY <1>1, <1>2, <2>1, <2>3
  <1>4. CASE k \in N + 2 .. N + N + 1
    <2>1. k - 1 - N \in 1 .. N /\ k = 1 + N + (k - 1 - N)
      BY <1>n, <1>4
    <2>2. argv[k] = InOrder(ReadOnly(Overlays))[k - 1 - N]
      BY <1>2, <2>1
    <2>3. IF Listing[k - 1 - N] \in Overlays
            THEN argv[k] = [at |-> Listing[k - 1 - N], mode |-> "ro"]
            ELSE argv[k] = Skipped
      BY <1>2, <2>1, <2>2 DEF InOrder, ReadOnly
    <2>. QED
      BY <1>1, <1>2, <2>1, <2>3
  <1>5. CASE k = N + N + 2 /\ Len(argv) = N + N + 2
    BY <1>2, <1>5
  <1>6. k = 1 \/ k \in 2 .. N + 1 \/ k \in N + 2 .. N + N + 1
        \/ (k = N + N + 2 /\ Len(argv) = N + N + 2)
    <2>1. CASE Len(argv) = N + N + 1
      BY <1>n, <2>1
    <2>2. CASE Len(argv) = N + N + 2
      BY <1>n, <2>2
    <2>. QED
      BY <1>2, <2>1, <2>2
  <1>. QED
    BY <1>2, <1>3, <1>4, <1>5, <1>6

\* And what one over a path is.
LEMMA MountOver ==
    ASSUME Built, NEW p \in Path, NEW k \in DOMAIN argv, Covers(argv[k].at, p)
    PROVE  \/ k = 1 /\ argv[k] = [at |-> Tmp, mode |-> "rw"]
           \/ \E q \in DOMAIN binds : /\ k = 1 + Index(q)
                                      /\ argv[k] = [at |-> q, mode |-> binds[q]]
           \/ \E t \in Overlays : /\ k = 1 + N + Index(t)
                                  /\ argv[k] = [at |-> t, mode |-> "ro"]
           \/ Socketed(p) /\ Socket \in policy.exists /\ argv[k] = [at |-> Socket, mode |-> "rw"]
  <1>1. argv[k] # Skipped
    BY SandboxPolicyAssumption DEF Covers, Skipped
  <1>2. argv[k] = [at |-> Socket, mode |-> "rw"] => Covers(Socket, p)
    OBVIOUS
  <1>. QED
    BY <1>1, <1>2, MountIs DEF Socketed

\* Where the mounts are.
LEMMA MountsAre ==
    ASSUME Built
    PROVE  /\ N \in Nat /\ 1 \in DOMAIN argv /\ argv[1] = [at |-> Tmp, mode |-> "rw"]
           /\ \A q \in DOMAIN binds :
                /\ q \in Path /\ q \in policy.exists /\ Index(q) \in 1 .. N
                /\ 1 + Index(q) \in DOMAIN argv
                /\ argv[1 + Index(q)] = [at |-> q, mode |-> binds[q]]
           /\ \A t \in Overlays :
                /\ t \in Path /\ Index(t) \in 1 .. N
                /\ 1 + N + Index(t) \in DOMAIN argv
                /\ argv[1 + N + Index(t)] = [at |-> t, mode |-> "ro"]
  <1>1. policy \in Policies /\ binds = Collected /\ argv = Argv
    BY DEF Built, IInv, BuiltFor
  <1>2. \A q \in DOMAIN binds : q \in policy.exists /\ q \in Path
    BY <1>1, CollectedBinds, PolicyTypes
  <1>3. \A t \in Overlays : t \in Path
    BY <1>1, PolicyTypes DEF Overlays
  <1>4. /\ N \in Nat /\ DOMAIN Listing = 1 .. N /\ DOMAIN argv = 1 .. Len(argv)
        /\ Len(argv) \in {N + N + 1, N + N + 2}
        /\ argv[1] = [at |-> Tmp, mode |-> "rw"]
        /\ \A i \in 1 .. N : /\ argv[1 + i] = Sorted[i]
                             /\ argv[1 + N + i] = InOrder(ReadOnly(Overlays))[i]
    BY <1>1, ArgvShape
  <1>n. N \in Nat /\ DOMAIN argv = 1 .. Len(argv) /\ Len(argv) \in Nat /\ N + N + 1 <= Len(argv)
    <2>1. CASE Len(argv) = N + N + 1
      BY <1>4, <2>1
    <2>2. CASE Len(argv) = N + N + 2
      BY <1>4, <2>2
    <2>. QED
      BY <1>4, <2>1, <2>2
  <1>5. ASSUME NEW q \in DOMAIN binds
        PROVE  /\ Index(q) \in 1 .. N /\ 1 + Index(q) \in DOMAIN argv
               /\ argv[1 + Index(q)] = [at |-> q, mode |-> binds[q]]
    <2>1. Index(q) \in 1 .. N /\ Listing[Index(q)] = q
      BY <1>2, <1>4, IndexOf
    <2>2. Sorted[Index(q)] = [at |-> q, mode |-> binds[q]]
      BY <1>4, <2>1 DEF Sorted, InOrder
    <2>3. 1 + Index(q) \in DOMAIN argv
      BY <1>n, <2>1
    <2>. QED
      BY <1>4, <2>1, <2>2, <2>3
  <1>6. ASSUME NEW t \in Overlays
        PROVE  /\ Index(t) \in 1 .. N /\ 1 + N + Index(t) \in DOMAIN argv
               /\ argv[1 + N + Index(t)] = [at |-> t, mode |-> "ro"]
    <2>1. Index(t) \in 1 .. N /\ Listing[Index(t)] = t
      BY <1>3, <1>4, IndexOf
    <2>2. InOrder(ReadOnly(Overlays))[Index(t)] = [at |-> t, mode |-> "ro"]
      BY <1>4, <2>1 DEF ReadOnly, InOrder
    <2>3. 1 + N + Index(t) \in DOMAIN argv
      BY <1>n, <2>1
    <2>. QED
      BY <1>4, <2>1, <2>2, <2>3
  <1>7. 1 \in DOMAIN argv
    BY <1>n
  <1>. QED
    BY <1>2, <1>3, <1>4, <1>5, <1>6, <1>7

\* Under a trust root, and out of the socket's directory, nothing is writable.
LEMMA UnderATrustRoot ==
    ASSUME Built, NEW p \in Path, ~Socketed(p), NEW t \in Overlays, Covers(t, p)
    PROVE  Mounted(p) = "ro"
  <1>1. /\ N \in Nat /\ 1 + N + Index(t) \in DOMAIN argv /\ Index(t) \in 1 .. N
        /\ argv[1 + N + Index(t)] = [at |-> t, mode |-> "ro"]
    BY MountsAre
  <1>2. PICK k \in DOMAIN argv :
          /\ Covers(argv[k].at, p) /\ Mounted(p) = argv[k].mode
          /\ \A j \in DOMAIN argv : Covers(argv[j].at, p) => j <= k
    BY <1>1, LastMount
  <1>3. 1 + N + Index(t) <= k
    BY <1>1, <1>2
  <1>4. ~\E q \in DOMAIN binds : k = 1 + Index(q)
    <2>1. \A q \in DOMAIN binds : Index(q) \in 1 .. N
      BY MountsAre
    <2>. QED
      BY <1>1, <1>3, <2>1
  <1>. QED
    BY <1>1, <1>2, <1>3, <1>4, MountOver

\* Elsewhere the deepest bind decides.
LEMMA UnderABind ==
    ASSUME Built, NEW p \in Path, ~Socketed(p), \A t \in Overlays : ~Covers(t, p),
           NEW q \in DOMAIN binds, Covers(q, p),
           \A r \in DOMAIN binds : Covers(r, p) => Covers(r, q)
    PROVE  Mounted(p) = binds[q]
  <1>1. /\ N \in Nat /\ 1 + Index(q) \in DOMAIN argv /\ Index(q) \in 1 .. N
        /\ argv[1 + Index(q)] = [at |-> q, mode |-> binds[q]]
    BY MountsAre
  <1>2. PICK k \in DOMAIN argv :
          /\ Covers(argv[k].at, p) /\ Mounted(p) = argv[k].mode
          /\ \A j \in DOMAIN argv : Covers(argv[j].at, p) => j <= k
    BY <1>1, LastMount
  <1>3. 1 + Index(q) <= k
    BY <1>1, <1>2
  <1>4. PICK r \in DOMAIN binds : k = 1 + Index(r) /\ argv[k] = [at |-> r, mode |-> binds[r]]
    BY <1>1, <1>2, <1>3, MountOver
  <1>5. Covers(r, q) /\ r \in Path /\ q \in Path /\ Index(r) \in 1 .. N
    <2>1. Covers(r, p)
      BY <1>2, <1>4
    <2>. QED
      BY <2>1, MountsAre
  <1>6. r = q
    BY <1>1, <1>3, <1>4, <1>5, IndexGrows
  <1>. QED
    BY <1>2, <1>4, <1>6

-----------------------------------------------------------------------------
(***************************************************************************)
(* The rules, where nothing is on a read-only mount: what the launcher does *)
(* with the lists alone.                                                    *)
(***************************************************************************)

\* The launcher is done, and had only the lists.
Plain == IInv /\ stage = "done" /\ ~policy.bwrap

LEMMA PlainLists ==
    ASSUME Plain
    PROVE  /\ policy \in Policies /\ binds = Collected
           /\ rw = {p \in DOMAIN binds : binds[p] = "rw"} /\ rw \subseteq policy.exists
           /\ ro = PlainReadOnly \ rw /\ PlainReadOnly \subseteq policy.exists
           /\ policy.exists \subseteq Path /\ ToCarve = ro
           /\ warned = CarvedDirs(rw, PlainReadOnly)
           /\ granted = UNION {Grants(r) : r \in rw}
           /\ carved = UNION {Visited(r) : r \in rw}
  <1>1. /\ policy \in Policies /\ binds = Collected /\ BuiltFor /\ LaunchedFor
        /\ ~policy.bwrap
    BY DEF Plain, IInv
  <1>2. DOMAIN binds \subseteq policy.exists /\ policy.exists \subseteq Path
    BY <1>1, CollectedBinds, PolicyTypes
  <1>3. rw \subseteq policy.exists /\ PlainReadOnly \subseteq policy.exists
    BY <1>1, <1>2 DEF BuiltFor, PlainReadOnly
  <1>4. rw \cap policy.exists = rw
    BY <1>3
  <1>5. ToCarve = ro
    BY <1>1 DEF ToCarve, OnReadOnlyMount
  <1>. QED
    BY <1>1, <1>2, <1>3, <1>4, <1>5 DEF BuiltFor, LaunchedFor

\* A rule of a read-write path is beneath it.
LEMMA GrantsBeneath ==
    ASSUME Plain, NEW r \in rw, NEW g \in Grants(r)
    PROVE  g \in policy.exists /\ Covers(r, g)
  <1>1. r \in policy.exists /\ policy.exists \subseteq Path
    BY PlainLists
  <1>2. CASE OnWay(r) = {}
    BY <1>1, <1>2, CoversIsAnOrder DEF Grants
  <1>3. CASE OnWay(r) # {}
    <2>1. g \in policy.exists /\ In(g, Visited(r))
      BY <1>3 DEF Grants
    <2>2. PICK q \in Visited(r) : q \in Above[g]
      BY <2>1 DEF In
    <2>3. q \in Path /\ Covers(r, q)
      BY DEF Visited, OnWay
    <2>. QED
      BY <1>1, <2>1, <2>2, <2>3, CoversIsAnOrder DEF Covers
  <1>. QED
    BY <1>2, <1>3

\* No rule is on a directory above a read-only path, or on the path.
LEMMA NoRuleAbove ==
    ASSUME Plain, NEW d \in ro
    PROVE  ~Granted(d)
  <1> SUFFICES ASSUME NEW g \in granted, Covers(g, d) PROVE FALSE
    BY DEF Granted
  <1>0. /\ d \in policy.exists /\ policy.exists \subseteq Path /\ d \in ToCarve /\ d \notin rw
        /\ rw \subseteq policy.exists
    BY PlainLists
  <1>1. PICK r \in rw : g \in Grants(r)
    BY PlainLists
  <1>2. g \in Path /\ Covers(r, g)
    BY <1>0, <1>1, GrantsBeneath
  <1>3. Covers(r, d) /\ r # d
    BY <1>0, <1>1, <1>2, CoversIsAnOrder
  <1>4. r \in Above[d]
    BY <1>3 DEF Covers
  <1>5. CASE OnWay(r) = {}
    <2>1. r \in OnWay(r)
      BY <1>0, <1>4, CoversIsAnOrder DEF OnWay
    <2>. QED
      BY <1>5, <2>1
  <1>6. CASE OnWay(r) # {}
    <2>1. g \notin ro /\ g \notin OnWay(r)
      BY <1>1, <1>6 DEF Grants
    <2>2. g \in Above[d]
      BY <2>1 DEF Covers
    <2>3. g \in OnWay(r)
      BY <1>0, <1>2, <1>4, <2>2 DEF OnWay
    <2>. QED
      BY <2>1, <2>3
  <1>. QED
    BY <1>5, <1>6

\* No rule made for a read-write path is inside a read-only one in it.
LEMMA NoRuleBeneath ==
    ASSUME Plain, NEW r \in rw, NEW g \in Grants(r), NEW k \in ro, r \in Above[k],
           Covers(k, g)
    PROVE  FALSE
  <1>0. /\ k \in Path /\ r \in Path /\ k \in ToCarve
    BY PlainLists
  <1>1. r \in OnWay(r)
    BY <1>0, CoversIsAnOrder DEF OnWay
  <1>2. g \notin ro /\ In(g, Visited(r))
    BY <1>1 DEF Grants
  <1>3. k \in Above[g]
    BY <1>2 DEF Covers
  <1>4. PICK q \in Visited(r) : q \in Above[g] /\ \A y \in Above[g] : Covers(y, q)
    BY <1>2 DEF In
  <1>5. Covers(k, q)
    BY <1>3, <1>4
  <1>. QED
    BY <1>4, <1>5 DEF Visited

\* Of any paths there is one that is listed first.
LEMMA Topmost ==
    ASSUME NEW S \in SUBSET Path, S # {}
    PROVE  \E x \in S : \A y \in S : Index(x) <= Index(y)
  <1> DEFINE I == {Index(q) : q \in S}
  <1>1. I \subseteq Nat /\ I # {}
    BY IndexOf
  <1>2. PICK i \in I : \A j \in I : i <= j
    BY <1>1, Smallest
  <1>. QED
    BY <1>2

\* What the deepest list entry over a path makes writable gets a rule, unless it
\* is a directory that is carved.
LEMMA WritableGetsARule ==
    ASSUME Plain, NEW p \in policy.exists, p \notin carved,
           NEW k \in rw, Covers(k, p),
           \A j \in rw \cup ro : Covers(j, p) => Covers(j, k)
    PROVE  Granted(p)
  <1>0. /\ p \in Path /\ k \in Path /\ rw \subseteq Path /\ ro \subseteq Path /\ ToCarve = ro
        /\ policy \in Policies /\ rw \cap ro = {}
        /\ granted = UNION {Grants(r) : r \in rw} /\ carved = UNION {Visited(r) : r \in rw}
    BY PlainLists
  <1>1. ASSUME NEW x \in Path, Covers(x, p), NEW y \in ro, k \in Above[y], Covers(y, x)
        PROVE  FALSE
    <2>1. Covers(y, p)
      BY <1>0, <1>1, CoversIsAnOrder
    <2>2. Covers(y, k) /\ Covers(k, y) /\ y # k
      BY <1>0, <1>1, <2>1 DEF Covers
    <2>. QED
      BY <1>0, <2>2, CoversIsAnOrder
  <1>2. CASE OnWay(k) = {}
    <2>1. k \in Grants(k)
      BY <1>2 DEF Grants
    <2>. QED
      BY <1>0, <2>1 DEF Granted
  <1>3. CASE OnWay(k) # {}
    <2>1. k \in OnWay(k)
      BY <1>0, <1>3, CoversIsAnOrder DEF OnWay
    <2>2. ASSUME NEW x \in OnWay(k), Covers(x, p) PROVE x \in Visited(k)
      <3>1. x \in Path
        BY DEF OnWay
      <3>. QED
        BY <1>1, <2>2, <3>1 DEF Visited
    <2>3. p \notin OnWay(k)
      BY <1>0, <2>2, CoversIsAnOrder
    <2> DEFINE S == {x \in Path : Covers(x, p) /\ k \in Above[x] /\ x \notin OnWay(k)}
    <2>4. p \in S
      BY <1>0, <2>1, <2>3, CoversIsAnOrder DEF Covers
    <2>5. PICK x \in S : \A y \in S : Index(x) <= Index(y)
      BY <2>4, Topmost
    <2>6. x \in Path /\ Above[x] \in SUBSET Path /\ Above[x] # {}
          /\ \A y \in Above[x] : Covers(y, x)
      BY <2>5, SandboxPolicyAssumption DEF Covers
    <2>7. PICK q \in Above[x] : \A y \in Above[x] : Covers(y, q)
      BY <2>6, Deepest
    <2>8. q \in Path /\ Covers(k, q) /\ Covers(q, p) /\ ~Covers(x, q) /\ Covers(q, x)
      BY <1>0, <2>5, <2>6, <2>7, SandboxPolicyAssumption, CoversIsAnOrder DEF Covers
    <2>9. q \in OnWay(k)
      <3>1. CASE q = k
        BY <2>1, <3>1
      <3>2. CASE q # k
        <4>1. k \in Above[q]
          BY <2>8, <3>2 DEF Covers
        <4>2. ~(Index(x) <= Index(q))
          BY <2>6, <2>8, IndexGrows, CoversIsAnOrder
        <4>. QED
          BY <2>5, <2>8, <4>1, <4>2
      <3>. QED
        BY <3>1, <3>2
    <2>10. In(x, Visited(k))
      BY <2>2, <2>7, <2>8, <2>9 DEF In
    <2>11. x \notin ro
      BY <1>0, <1>1, <2>5, <2>6, CoversIsAnOrder
    <2>12. x \in policy.exists
      BY <1>0, <2>5, PolicyTypes
    <2>13. x \in Grants(k)
      BY <1>3, <2>5, <2>10, <2>11, <2>12 DEF Grants
    <2>. QED
      BY <1>0, <2>5, <2>13 DEF Granted
  <1>. QED
    BY <1>2, <1>3

-----------------------------------------------------------------------------

\* "Longest matching bind wins, which is how bwrap applies them too" (sandbox.py,
\* path_read_only_in_policy), for every policy over every tree: the directory's
\* deepest bind is the last one mounted over it, because the binds are sorted.
THEOREM PolicyIsMounted == Spec => []PolicyIsWhatIsMounted
  <1>1. IInv => PolicyIsWhatIsMounted
    <2> SUFFICES ASSUME Built, NEW p \in Path, ~Socketed(p),
                        \A t \in Overlays \cup {Tmp} : ~Covers(t, p)
                 PROVE  InPolicy(p) = Mounted(p)
      BY DEF PolicyIsWhatIsMounted, Built, Launched
    <2> DEFINE over == {k \in DOMAIN binds : Covers(k, p)}
    <2>0. over \in SUBSET Path
      BY MountsAre
    <2>1. CASE over = {}
      <3>1. \A k \in DOMAIN argv : ~Covers(argv[k].at, p)
        <4> SUFFICES ASSUME NEW k \in DOMAIN argv, Covers(argv[k].at, p) PROVE FALSE
          OBVIOUS
        <4>. QED
          BY <2>1, MountOver
      <3>. QED
        BY <2>1, <3>1 DEF InPolicy, Mounted
    <2>2. CASE over # {}
      <3>1. PICK q \in over : \A j \in over : Covers(j, q)
        BY <2>0, <2>2, Deepest
      <3>2. InPolicy(p) = binds[q]
        BY <2>0, <2>2, <3>1, DeepestIsOne DEF InPolicy
      <3>. QED
        BY <3>1, <3>2, UnderABind
    <2>. QED
      BY <2>1, <2>2
  <1>. QED
    BY Invariance, <1>1, PTL

\* "trust roots that must be read-only" (sandbox.py, collect_mcp_trust_ro_overlays),
\* with bwrap or with rules only, whatever directories above one are read-write.
THEOREM TrustRootsStay == Spec => []TrustHolds
  <1>1. ASSUME IInv, Launched, NEW t \in policy.trust \cap policy.exists
        PROVE  /\ t \notin policy.rw \cup policy.worktrees /\ ~Socketed(t) => ~MayWrite(t)
               /\ policy.bwrap /\ t \in Overlays =>
                    \A p \in Path : Covers(t, p) /\ ~Socketed(p) => ~MayWrite(p)
    <2>0. policy \in Policies /\ binds = Collected /\ t \in Path
      BY <1>1, PolicyTypes DEF IInv, Launched
    <2>1. ASSUME policy.bwrap, t \in Overlays, NEW p \in Path, Covers(t, p), ~Socketed(p)
          PROVE  ~MayWrite(p)
      BY <1>1, <2>1, UnderATrustRoot DEF Built, Launched, MayWrite
    <2>2. ASSUME t \notin policy.rw \cup policy.worktrees, ~Socketed(t), policy.bwrap
          PROVE  ~MayWrite(t)
      <3>0. Built
        BY <1>1, <2>2 DEF Built, Launched
      <3>1. CASE \E u \in Overlays : Covers(u, t)
        BY <2>0, <2>2, <3>0, <3>1, UnderATrustRoot DEF MayWrite
      <3>2. CASE \A u \in Overlays : ~Covers(u, t)
        <4>1. Covers(t, t)
          BY <2>0, CoversIsAnOrder
        <4>2. t \in DOMAIN binds
          BY <3>2, <4>1 DEF Overlays
        <4>3. binds[t] = "ro"
          BY <2>0, <2>2, <4>2, CollectedBinds
        <4>4. Mounted(t) = binds[t]
          BY <2>0, <2>2, <3>0, <3>2, <4>1, <4>2, UnderABind
        <4>. QED
          BY <2>2, <4>3, <4>4 DEF MayWrite
      <3>. QED
        BY <3>1, <3>2
    <2>3. ASSUME t \notin policy.rw \cup policy.worktrees, ~policy.bwrap
          PROVE  ~MayWrite(t)
      <3>0. Plain
        BY <1>1, <2>3 DEF Plain, Launched
      <3>1. t \notin rw
        BY <2>0, <2>3, <3>0, CollectedBinds, PlainLists
      <3>2. t \in ro
        BY <3>0, <3>1, PlainLists DEF PlainReadOnly
      <3>. QED
        BY <2>3, <3>0, <3>2, NoRuleAbove DEF MayWrite
    <2>. QED
      BY <2>1, <2>2, <2>3
  <1>2. IInv => TrustHolds
    BY <1>1 DEF TrustHolds
  <1>. QED
    BY Invariance, <1>2, PTL

\* "A task must not be able to edit the code that gates it" (sandbox.py,
\* collect_bind_mounts): only what the policy lists inside the installed tree.
THEOREM InstalledTreeStays == Spec => []InstalledHolds
  <1>1. ASSUME IInv, Launched, policy.installed # NoPath,
               policy.installed \notin policy.worktrees,
               NEW c \in policy.rw \cap policy.exists, Covers(c, policy.installed),
               NEW p \in Path, Covers(policy.installed, p), ~Socketed(p), MayWrite(p)
        PROVE  \E k \in policy.rw \cup policy.worktrees :
                 policy.installed \in Above[k] /\ Covers(k, p)
    <2> DEFINE tree == policy.installed
    <2>0. policy \in Policies /\ binds = Collected /\ tree \in Path
      BY <1>1, PolicyTypes DEF IInv, Launched
    <2>1. tree \in DOMAIN binds /\ binds[tree] = "ro"
      BY <1>1, <2>0, InstalledIsBound
    <2>2. \A k \in DOMAIN binds :
            /\ k \in Path
            /\ binds[k] = "rw" => k \in policy.rw \cup policy.worktrees /\ k # tree
      BY <2>0, <2>1, CollectedBinds, PolicyTypes
    <2> HIDE DEF tree
    <2>3. ASSUME NEW k \in DOMAIN binds, binds[k] = "rw", Covers(k, p), Covers(tree, k)
          PROVE  tree \in Above[k] /\ k \in policy.rw \cup policy.worktrees
      BY <2>2, <2>3 DEF Covers
    <2>4. CASE policy.bwrap
      <3>0. Built
        BY <1>1, <2>4 DEF Built, Launched
      <3>1. /\ N \in Nat /\ 1 + Index(tree) \in DOMAIN argv /\ Index(tree) \in 1 .. N
            /\ argv[1 + Index(tree)] = [at |-> tree, mode |-> "ro"]
        BY <2>1, <3>0, MountsAre
      <3>2. Covers(tree, p)
        BY <1>1 DEF tree
      <3>3. PICK k \in DOMAIN argv :
              /\ Covers(argv[k].at, p) /\ Mounted(p) = argv[k].mode
              /\ \A j \in DOMAIN argv : Covers(argv[j].at, p) => j <= k
        BY <1>1, <3>0, <3>1, <3>2, LastMount
      <3>4. argv[k].mode = "rw" /\ 1 + Index(tree) <= k
        BY <1>1, <2>4, <3>1, <3>2, <3>3 DEF MayWrite
      <3>5. PICK q \in DOMAIN binds : k = 1 + Index(q) /\ argv[k] = [at |-> q, mode |-> binds[q]]
        BY <1>1, <3>0, <3>1, <3>3, <3>4, MountOver
      <3>6. q \in Path /\ Covers(q, p) /\ binds[q] = "rw" /\ Index(q) \in 1 .. N
        BY <3>0, <3>3, <3>4, <3>5, MountsAre
      <3>7. Index(tree) <= Index(q)
        BY <3>1, <3>4, <3>5, <3>6
      <3>8. Covers(tree, q)
        BY <1>1, <2>0, <2>2, <3>2, <3>6, <3>7, IndexGrows, CoversIsAnOrder
      <3>. QED
        BY <2>3, <3>6, <3>8 DEF tree
    <2>5. CASE ~policy.bwrap
      <3>0. Plain
        BY <1>1, <2>5 DEF Plain, Launched
      <3>1. tree \in ro /\ policy.exists \subseteq Path
        BY <2>1, <3>0, PlainLists DEF PlainReadOnly
      <3>2. PICK g \in granted : Covers(g, p)
        BY <1>1, <2>5 DEF MayWrite, Granted
      <3>3. PICK r \in rw : g \in Grants(r)
        BY <3>0, <3>2, PlainLists
      <3>4. g \in Path /\ Covers(r, g) /\ r \in DOMAIN binds /\ binds[r] = "rw"
        BY <3>0, <3>1, <3>3, GrantsBeneath, PlainLists
      <3>5. ~Covers(g, tree)
        BY <3>0, <3>1, <3>2, NoRuleAbove DEF Granted
      <3>6. Covers(tree, p) /\ tree \in Path /\ r \in Path
        BY <1>1, <2>0, <2>2, <3>4 DEF tree
      <3>7. Covers(tree, g) /\ Covers(r, p)
        BY <3>2, <3>4, <3>5, <3>6, CoversIsAnOrder, <1>1
      <3>8. ~(r \in Above[tree])
        BY <3>0, <3>1, <3>3, <3>7, NoRuleBeneath
      <3>9. Covers(tree, r)
        BY <1>1, <2>2, <3>4, <3>6, <3>7, <3>8, CoversIsAnOrder DEF Covers
      <3>. QED
        BY <2>3, <3>4, <3>7, <3>9 DEF tree
    <2>. QED
      BY <2>4, <2>5
  <1>2. IInv => InstalledHolds
    BY <1>1 DEF InstalledHolds
  <1>. QED
    BY Invariance, <1>2, PTL

\* Without bwrap the rules give what the deepest entry over a path says, in a
\* tree of any depth (landlock.py, LAUNCHER: carve).
THEOREM RulesFollow == Spec => []RulesFollowTheLists
  <1>1. ASSUME Plain, NEW p \in policy.exists
        PROVE  LET over == {k \in rw \cup ro : Covers(k, p)}
                   writable == over # {}
                     /\ (CHOOSE k \in over : \A j \in over : Covers(j, k)) \in rw
               IN  Granted(p) <=> writable /\ p \notin carved
    <2> DEFINE over == {k \in rw \cup ro : Covers(k, p)}
    <2>0. /\ p \in Path /\ over \in SUBSET Path /\ rw \subseteq Path /\ ro \subseteq Path
          /\ ro = ToCarve /\ rw \cap ro = {}
          /\ granted = UNION {Grants(r) : r \in rw} /\ carved = UNION {Visited(r) : r \in rw}
      BY <1>1, PlainLists
    <2>1. CASE over = {}
      <3>1. ~Granted(p)
        <4> SUFFICES ASSUME NEW r \in rw, NEW g \in Grants(r), Covers(g, p) PROVE FALSE
          BY <2>0 DEF Granted
        <4>1. g \in Path /\ Covers(r, g)
          BY <1>1, GrantsBeneath, PlainLists
        <4>. QED
          BY <2>0, <2>1, <4>1, CoversIsAnOrder
      <3>. QED
        BY <2>1, <3>1
    <2>2. CASE over # {}
      <3>1. PICK k \in over : \A j \in over : Covers(j, k)
        BY <2>0, <2>2, Deepest
      <3>2. k = CHOOSE x \in over : \A j \in over : Covers(j, x)
        BY <2>0, <3>1, DeepestIsOne
      <3>3. k \in Path /\ Covers(k, p)
        BY <2>0, <3>1
      <3>4. ASSUME Granted(p) PROVE k \in rw /\ p \notin carved
        <4>0. PICK r \in rw : \E x \in Grants(r) : Covers(x, p)
          BY <2>0, <3>4 DEF Granted
        <4>1. PICK g \in Grants(r) : Covers(g, p)
          BY <4>0
        <4>2. g \in Path /\ r \in Path /\ Covers(r, g) /\ Covers(r, p) /\ g \in granted
          BY <1>1, <2>0, <4>1, GrantsBeneath, PlainLists, CoversIsAnOrder
        <4>3. Covers(r, k)
          BY <3>1, <4>2
        <4>4. k \in rw
          <5> SUFFICES ASSUME k \in ro PROVE FALSE
            BY <3>1
          <5>1. r \in Above[k]
            BY <2>0, <4>1, <4>3 DEF Covers
          <5>2. ~Covers(g, k)
            BY <1>1, <4>2, NoRuleAbove DEF Granted
          <5>3. Covers(k, g)
            BY <2>0, <3>3, <4>1, <4>2, <5>2, CoversIsAnOrder
          <5>. QED
            BY <1>1, <4>1, <5>1, <5>3, NoRuleBeneath
        <4>5. p \notin carved
          <5> SUFFICES ASSUME NEW q \in rw, p \in Visited(q) PROVE FALSE
            BY <2>0
          <5>1. PICK d \in ro : p \in Above[d]
            BY <2>0 DEF Visited, OnWay
          <5>2. d \in Path /\ Covers(g, d)
            BY <2>0, <4>1, <4>2, <5>1, CoversIsAnOrder DEF Covers
          <5>. QED
            BY <1>1, <4>2, <5>2, NoRuleAbove DEF Granted
        <4>. QED
          BY <4>4, <4>5
      <3>5. ASSUME k \in rw, p \notin carved PROVE Granted(p)
        BY <1>1, <3>1, <3>3, <3>5, WritableGetsARule
      <3>. QED
        BY <2>2, <3>2, <3>4, <3>5
    <2>. QED
      BY <2>1, <2>2
  <1>2. IInv => RulesFollowTheLists
    BY <1>1 DEF RulesFollowTheLists, Plain, Launched
  <1>. QED
    BY Invariance, <1>2, PTL


\* Under bwrap the launcher finds every read-only path on a read-only mount
\* (landlock.py, LAUNCHER), for every policy over every tree.
THEOREM BwrapNeedsNoCarving == Spec => []NothingCarvedUnderBwrap
  <1>1. ASSUME IInv, Launched, policy.bwrap, \A p \in ro : ~Socketed(p)
        PROVE  carved = {} /\ \A p \in policy.exists : Mounted(p) = "rw" => Granted(p)
    <2>0. Built /\ policy \in Policies /\ BuiltFor /\ LaunchedFor
      BY <1>1 DEF IInv, Built, Launched
    <2>1. rw = Bound(argv, "rw") /\ ro = Bound(argv, "ro") \ rw
      BY <1>1, <2>0 DEF BuiltFor
    <2>2. ASSUME NEW d \in ro PROVE Mounted(d) = "ro"
      <3>1. PICK i \in DOMAIN argv : argv[i].mode = "ro" /\ argv[i].at = d
        BY <2>1 DEF Bound
      <3>2. (d \in DOMAIN binds /\ binds[d] = "ro") \/ d \in Overlays
        BY <2>0, <3>1, MountIs DEF Skipped
      <3>3. d \in Path /\ Covers(d, d) /\ ~Socketed(d)
        BY <1>1, <2>0, <3>2, MountsAre, CoversIsAnOrder
      <3>4. CASE \E t \in Overlays : Covers(t, d)
        BY <2>0, <3>3, <3>4, UnderATrustRoot
      <3>5. CASE \A t \in Overlays : ~Covers(t, d)
        BY <2>0, <3>2, <3>3, <3>5, UnderABind
      <3>. QED
        BY <3>4, <3>5
    <2>3. ToCarve = {}
      BY <1>1, <2>2 DEF ToCarve, OnReadOnlyMount
    <2>4. \A r : OnWay(r) = {} /\ Visited(r) = {} /\ Grants(r) = {r}
      BY <2>3 DEF OnWay, Visited, Grants
    <2>5. carved = {} /\ granted = rw \cap policy.exists
      BY <2>0, <2>4 DEF LaunchedFor
    <2>6. ASSUME NEW p \in policy.exists, Mounted(p) = "rw" PROVE Granted(p)
      <3>1. p \in Path
        BY <2>0, PolicyTypes
      <3>2. PICK i \in DOMAIN argv : Covers(argv[i].at, p)
        BY <2>6 DEF Mounted
      <3>3. PICK k \in DOMAIN argv : Covers(argv[k].at, p) /\ Mounted(p) = argv[k].mode
        BY <2>0, <3>1, <3>2, LastMount
      <3>4. argv[k].at \in rw
        BY <2>1, <2>6, <3>3 DEF Bound
      <3>5. argv[k].at \in Path
        BY <2>0, <3>1, <3>3, MountOver, MountsAre, SandboxPolicyAssumption
      <3>6. argv[k].at \in policy.exists
        BY <2>0, <3>1, <3>3, <3>5, PolicyTypes
      <3>. QED
        BY <2>5, <3>3, <3>4, <3>6 DEF Granted
    <2>. QED
      BY <2>5, <2>6
  <1>2. IInv => NothingCarvedUnderBwrap
    BY <1>1 DEF NothingCarvedUnderBwrap
  <1>. QED
    BY Invariance, <1>2, PTL

\* The warning (sandbox.py, run_shell; landlock.py, carved_dirs) names every
\* directory that will be carved, and without bwrap no other.
THEOREM CarvingAnnounced == Spec => []CarvingIsAnnounced
  <1>1. ASSUME IInv, Launched, policy.bwrap PROVE carved \subseteq warned
    <2>0. Built /\ BuiltFor /\ LaunchedFor
      BY <1>1 DEF IInv, Built, Launched
    <2>1. ToCarve \subseteq Shadowed(argv)
      <3> SUFFICES ASSUME NEW d \in ro, Mounted(d) # "ro" PROVE d \in Shadowed(argv)
        BY <1>1 DEF ToCarve, OnReadOnlyMount
      <3>1. PICK i \in DOMAIN argv : argv[i].mode = "ro" /\ argv[i].at = d
        BY <1>1, <2>0 DEF BuiltFor, Bound
      <3>2. d \in Path
        BY <2>0, <3>1, MountIs, MountsAre DEF Skipped
      <3>3. PICK k \in DOMAIN argv :
              /\ Covers(argv[k].at, d) /\ Mounted(d) = argv[k].mode
              /\ \A j \in DOMAIN argv : Covers(argv[j].at, d) => j <= k
        BY <2>0, <3>1, <3>2, LastMount, CoversIsAnOrder
      <3>4. i <= k /\ i # k /\ i \in Nat /\ k \in Nat
        <4>1. DOMAIN argv \subseteq Nat
          BY <2>0, ArgvShape DEF Built, IInv, BuiltFor
        <4>. QED
          BY <3>1, <3>2, <3>3, <4>1, CoversIsAnOrder
      <3>5. k > i
        BY <3>4
      <3>. QED
        BY <3>1, <3>3, <3>5 DEF Shadowed
    <2>2. warned = CarvedDirs(rw, Shadowed(argv))
      BY <1>1, <2>0 DEF BuiltFor
    <2>. QED
      BY <2>0, <2>1, <2>2 DEF LaunchedFor, Visited, OnWay, CarvedDirs
  <1>2. ASSUME IInv, Launched, ~policy.bwrap PROVE carved \subseteq warned
    <2>0. Plain
      BY <1>2 DEF Plain, Launched
    <2>. QED
      BY <2>0, PlainLists DEF Visited, OnWay, CarvedDirs
  <1>3. ASSUME IInv, Launched, ~policy.bwrap, policy.trust \cap rw = {}, NEW w \in warned
        PROVE  ~Granted(w)
    <2>0. Plain
      BY <1>3 DEF Plain, Launched
    <2>1. PlainReadOnly = ro
      BY <1>3, <2>0, PlainLists DEF PlainReadOnly
    <2>2. PICK d \in ro : w \in Above[d]
      BY <2>0, <2>1, PlainLists DEF CarvedDirs
    <2>3. ASSUME NEW g \in granted, Covers(g, w) PROVE Covers(g, d)
      BY <2>0, <2>2, <2>3, PlainLists, SandboxPolicyAssumption DEF Covers
    <2>. QED
      BY <2>0, <2>2, <2>3, NoRuleAbove DEF Granted
  <1>4. IInv => CarvingIsAnnounced
    BY <1>1, <1>2, <1>3 DEF CarvingIsAnnounced
  <1>. QED
    BY Invariance, <1>4, PTL

-----------------------------------------------------------------------------
(***************************************************************************)
(* Types.                                                                  *)
(***************************************************************************)

\* The binds of any map of paths, in order (sandbox.py, build_bwrap_argv).
LEMMA ListingOfMounts ==
    ASSUME policy \in Policies, NEW m, DOMAIN m \subseteq Path,
           \A p \in DOMAIN m : m[p] \in Mode
    PROVE  InOrder(m) \in Seq(Mount \cup {Skipped})
  <1> DEFINE s == InOrder(m)
             A == Mount \cup {Skipped}
  <1>1. N \in Nat /\ DOMAIN Listing = 1 .. N /\ \A i \in 1 .. N : Listing[i] \in Path
    BY SandboxPolicyAssumption DEF N
  <1>2. s = [i \in 1 .. N |-> s[i]] /\ \A i \in 1 .. N : s[i] \in A
    BY <1>1 DEF InOrder, Mount
  <1> HIDE DEF s, A
  <1>3. s \in Seq(A)
    BY <1>1, <1>2
  <1>. QED
    BY <1>3 DEF s, A

\* bwrap's mounts are mounts of paths (sandbox.py, build_bwrap_argv).
LEMMA ArgvTypes ==
    ASSUME policy \in Policies, DOMAIN binds \subseteq policy.exists,
           \A p \in DOMAIN binds : binds[p] \in Mode
    PROVE  Argv \in Seq(Mount \cup {Skipped})
  <1>1. Sorted \in Seq(Mount \cup {Skipped})
    BY ListingOfMounts, PolicyTypes DEF Sorted
  <1>2. InOrder(ReadOnly(Overlays)) \in Seq(Mount \cup {Skipped})
    <2>1. DOMAIN ReadOnly(Overlays) \subseteq Path
          /\ \A p \in DOMAIN ReadOnly(Overlays) : ReadOnly(Overlays)[p] \in Mode
      BY PolicyTypes DEF ReadOnly, Overlays, Mode
    <2>. QED
      BY <2>1, ListingOfMounts
  <1>3. [at |-> Tmp, mode |-> "rw"] \in Mount /\ [at |-> Socket, mode |-> "rw"] \in Mount
    BY SandboxPolicyAssumption DEF Mount, Mode
  <1>4. Scratch \in Seq(Mount \cup {Skipped}) /\ Database \in Seq(Mount \cup {Skipped})
    BY <1>3 DEF Scratch, Database
  <1>. QED
    BY <1>1, <1>2, <1>4 DEF Argv

\* What bwrap's mounts make read-write or read-only are paths.
LEMMA BoundTypes ==
    ASSUME NEW s \in Seq(Mount \cup {Skipped}), NEW mode \in Mode
    PROVE  Bound(s, mode) \subseteq Path
BY DEF Bound, Mount, Skipped, Mode

\* Every stage keeps the types (sandbox.py; landlock.py).
LEMMA TypesKeep == TypeOK /\ [Next]_vars => TypeOK'
  <1> SUFFICES ASSUME TypeOK, [Next]_vars PROVE TypeOK'
    OBVIOUS
  <1>0. policy \in Policies /\ policy' = policy
    BY DEF TypeOK, Next, Collect, Build, BuildPlain, Launch, vars
  <1>1. CASE Collect
    BY <1>0, <1>1, CollectedBinds DEF Collect, Collected, TypeOK, Mode
  <1>2. CASE Build
    <2>1. argv' \in Seq(Mount \cup {Skipped})
      BY <1>2, ArgvTypes DEF Build, TypeOK
    <2>2. rw' \subseteq Path /\ ro' \subseteq Path \ rw'
      BY <1>2, <2>1, BoundTypes DEF Build, Mode
    <2>3. warned' \subseteq Path
      BY <1>2 DEF Build, CarvedDirs
    <2>. QED
      BY <1>0, <1>2, <2>1, <2>2, <2>3 DEF Build, TypeOK
  <1>3. CASE BuildPlain
    <2>1. rw' \subseteq Path /\ ro' \subseteq Path \ rw'
      BY <1>3, PolicyTypes DEF BuildPlain, TypeOK
    <2>2. warned' \subseteq Path
      BY <1>3 DEF BuildPlain, CarvedDirs
    <2>. QED
      BY <1>0, <1>3, <2>1, <2>2 DEF BuildPlain, TypeOK
  <1>4. CASE Launch
    <2>1. \A r \in rw : Visited(r) \subseteq Path
      BY DEF Visited, OnWay
    <2>2. \A r \in rw : Grants(r) \subseteq Path
      BY PolicyTypes DEF Grants, TypeOK
    <2>3. carved' \subseteq Path /\ granted' \subseteq Path
      BY <1>4, <2>1, <2>2 DEF Launch
    <2>. QED
      BY <1>0, <1>4, <2>3 DEF Launch, TypeOK
  <1>5. CASE UNCHANGED vars
    BY <1>5 DEF vars, TypeOK
  <1>. QED
    BY <1>1, <1>2, <1>3, <1>4, <1>5 DEF Next

\* The stages keep the types, whatever the tree and the policy (sandbox.py,
\* landlock.py).
THEOREM TypeCorrect == Spec => []TypeOK
  <1>1. Init => TypeOK
    BY DEF Init, TypeOK
  <1>. QED
    BY <1>1, TypesKeep, PTL DEF Spec
=============================================================================
