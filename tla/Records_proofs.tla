--------------------------- MODULE Records_proofs ---------------------------
(***************************************************************************)
(* What the workers leave on disk, for any number of them and any           *)
(* interleaving: the environment of every task obeys its policy and its log *)
(* names it; the logs are one execution's each, none is removed before      *)
(* enough others changed and no more are left than are kept; the scan       *)
(* ledger is the newest records, unless a rewrite was raced or something    *)
(* was cut short.                                                           *)
(*                                                                          *)
(* What recursive functions compute is proved by the smallest counter-      *)
(* example, which well-foundedness of the natural numbers gives.            *)
(***************************************************************************)
EXTENDS TaskLog, ScanLedger, TLAPS, WellFoundedInduction, FiniteSetTheorems, SequenceTheorems

(***************************************************************************)
(* kart_env.                                                               *)
(***************************************************************************)

\* What is gathered comes from the worker or the fleet only by a prefix that the
\* task was passed (sandbox.py, kart_env).
LEMMA GatheredByPrefix ==
    ASSUME NEW c \in Config, NEW h \in Host, NEW a \in Ask,
           NEW n \in DOMAIN Gathered(c, h, a),
           Gathered(c, h, a)[n] \in {"environ", "fleet"}
    PROVE  n \in c.pass \/ (a.db /\ n \in c.db)
BY DEF Gathered, Over, Under, Passed

\* The identity is the submitter's, and nothing else changes its source
\* (sandbox.py, kart_env).
LEMMA IdentityIsSubmitters ==
    ASSUME NEW c \in Config, NEW h \in Host, NEW a \in Ask
    PROVE  LET g == Gathered(c, h, a)
               e == Identified(g, a)
           IN \A n \in DOMAIN e :
                /\ n \in Identity => e[n] = "submitter" /\ a.by # NoOne
                /\ e[n] \in {"environ", "fleet"} => n \in DOMAIN g /\ g[n] = e[n]
BY DEF Identified, Over, Without

\* What is completed keeps the sources that were given (sandbox.py, kart_env).
LEMMA CompletedIsOwn ==
    ASSUME NEW e, NEW h \in Host, NEW a \in Ask
    PROVE  LET k == Completed(e, h, a)
           IN \A n \in DOMAIN k :
                \/ n \in DOMAIN e /\ k[n] = e[n]
                \/ n \in {PgHost, SafeRoot} /\ k[n] = "kart"
BY DEF Completed, Under, Over

\* What an environment obeys that is handed to a task which asks for a under
\* policy c (sandbox.py, kart_env).
Gated(env, c, a) ==
    \A n \in DOMAIN env :
      /\ n \notin c.deny
      /\ n \in c.credentials => a.net
      /\ n \in Identity => env[n] = "submitter" /\ a.by # NoOne
      /\ n \in c.db \ c.pass /\ env[n] \in {"environ", "fleet"} => a.db
      /\ n = RuntimeDir => c.runtimeBound

LEMMA KartEnvIsGated ==
    ASSUME NEW c \in Config, NEW h \in Host, NEW a \in Ask
    PROVE  Gated(KartEnv(c, h, a), c, a)
<1> DEFINE g == Gathered(c, h, a)
           e == Identified(g, a)
           k == Completed(e, h, a)
           l == Without(k, IF a.net THEN {} ELSE c.credentials)
           m == Without(l, c.deny)
           o == Without(m, IF c.runtimeBound THEN {} ELSE {RuntimeDir})
<1>1. KartEnv(c, h, a) = o
  BY DEF KartEnv
<1>2. \A n \in DOMAIN o :
        /\ n \in DOMAIN k /\ o[n] = k[n]
        /\ n \notin c.deny
        /\ n \in c.credentials => a.net
        /\ n = RuntimeDir => c.runtimeBound
  <2> HIDE DEF k
  <2>1. DOMAIN l = DOMAIN k \ (IF a.net THEN {} ELSE c.credentials)
        /\ \A n \in DOMAIN l : l[n] = k[n]
    BY DEF Without
  <2> HIDE DEF l
  <2>2. DOMAIN m = DOMAIN l \ c.deny /\ \A n \in DOMAIN m : m[n] = l[n]
    BY DEF Without
  <2> HIDE DEF m
  <2>3. DOMAIN o = DOMAIN m \ (IF c.runtimeBound THEN {} ELSE {RuntimeDir})
        /\ \A n \in DOMAIN o : o[n] = m[n]
    BY DEF Without
  <2> QED  BY <2>1, <2>2, <2>3
<1>3. \A n \in DOMAIN k : n \in Identity => k[n] = "submitter" /\ a.by # NoOne
  BY IdentityIsSubmitters, CompletedIsOwn, KartEnvAssumption
<1>4. \A n \in DOMAIN k : k[n] \in {"environ", "fleet"} => n \in c.pass \/ a.db
  <2> TAKE n \in DOMAIN k
  <2> HAVE k[n] \in {"environ", "fleet"}
  <2>1. n \in DOMAIN e /\ e[n] = k[n]
    BY CompletedIsOwn
  <2>2. n \in DOMAIN g /\ g[n] = k[n]
    BY <2>1, IdentityIsSubmitters
  <2> QED  BY <2>2, GatheredByPrefix
<1> HIDE DEF o, k
<1> QED  BY <1>1, <1>2, <1>3, <1>4 DEF Gated

(***************************************************************************)
(* The environment and the keys.                                           *)
(***************************************************************************)

\* Before its keys are computed an execution has the environment that the world
\* would still give it, if the world has not changed; after that its keys are
\* those of that environment (sandbox.py, write_task_log).
Fresh(r) ==
    /\ at[r] \in {"mkdir", "keys"} /\ same[r]
         => handed[r] = Handed(case.ask[r])
    /\ at[r] \notin {"task", "mkdir", "keys", "dead"} /\ same[r] /\ case.manifest[r]
         => keys[r] = DOMAIN handed[r]

RecordInv ==
    /\ case \in Cases
    /\ world \in {case.world, case.other}
    /\ at \in [Run -> LogStage]
    /\ DOMAIN handed = Run /\ DOMAIN keys = Run /\ DOMAIN same = Run
    /\ \A r \in case.runs : Fresh(r)

\* What a case holds (sandbox.py).
LEMMA CaseTypes ==
    ASSUME case \in Cases, world \in {case.world, case.other}
    PROVE  /\ case.runs \subseteq Run
           /\ world[1] \in Config /\ world[2] \in Host
           /\ \A r \in Run : case.ask[r] \in Ask /\ case.manifest[r] \in BOOLEAN
BY TaskLogAssumption DEF Case

\* No step but RunTask, Keys and EditWorld concerns the environments
\* (sandbox.py).
LEMMA OthersKeep ==
    ASSUME RecordInv, NEW r \in case.runs,
           UNCHANGED <<worldVars, recordVars>>,
           NEW there \in LogStage, at' = [at EXCEPT ![r] = there],
           at[r] \notin {"task", "dead"}, there \notin {"task", "mkdir"},
           at[r] = "mkdir" => there \in {"keys", "dead"},
           at[r] = "keys" => there = "dead",
           there = "keys" => at[r] = "mkdir"
    PROVE  RecordInv'
<1> USE DEF RecordInv, worldVars, recordVars
<1>1. r \in Run
  BY CaseTypes
<1>2. at' \in [Run -> LogStage]
  BY <1>1
<1>3. ASSUME NEW q \in case'.runs PROVE Fresh(q)'
  <2>1. q \in Run /\ q \in case.runs
    BY CaseTypes
  <2>2. Fresh(q)
    BY <2>1
  <2>3. CASE q # r
    BY <1>1, <2>1, <2>2, <2>3 DEF Fresh, Handed
  <2>4. CASE q = r
    BY <1>1, <2>1, <2>2, <2>4 DEF Fresh, Handed
  <2> QED  BY <2>3, <2>4
<1> QED  BY <1>2, <1>3

LEMMA Invariance ==
    ASSUME RecordInv, [LogNext]_logVars
    PROVE  RecordInv'
<1> USE DEF RecordInv
<1>0. /\ case.runs \subseteq Run
      /\ world[1] \in Config /\ world[2] \in Host
      /\ \A r \in Run : case.ask[r] \in Ask /\ case.manifest[r] \in BOOLEAN
  BY CaseTypes
<1>1. CASE EditWorld
  <2>1. ASSUME NEW q \in case'.runs PROVE Fresh(q)'
    <3>1. q \in case.runs /\ q \in Run /\ Fresh(q)
      BY <1>0, <1>1 DEF EditWorld
    <3> QED  BY <1>1, <3>1 DEF EditWorld, Fresh, Handed
  <2> QED  BY <1>1, <2>1 DEF EditWorld
<1>2. ASSUME NEW r \in active, LogStep(r) PROVE RecordInv'
  <2>0. r \in case.runs /\ r \in Run
    BY <1>0, <1>2 DEF active
  <2>1. CASE RunTask(r)
    <3>1. ASSUME NEW q \in case'.runs PROVE Fresh(q)'
      <4>1. q \in Run /\ Fresh(q)
        BY <1>0, <2>1 DEF RunTask, worldVars
      <4> QED  BY <2>0, <2>1, <4>1 DEF RunTask, LogGoto, Fresh, Handed, worldVars
    <3> QED  BY <2>0, <2>1, <3>1 DEF RunTask, LogGoto, worldVars, LogStage
  <2>2. CASE Keys(r)
    <3>1. case.manifest[r] =>
            [net |-> case.manifest[r] /\ case.ask[r].net, db |-> case.manifest[r] /\ case.ask[r].db,
             by |-> case.ask[r].by] = case.ask[r]
      BY <1>0, <2>0 DEF Ask
    <3>2. case.manifest[r] => keys'[r] = DOMAIN Handed(case.ask[r])
      BY <2>0, <2>2, <3>1 DEF Keys
    <3>3. ASSUME NEW q \in case'.runs PROVE Fresh(q)'
      <4>1. q \in Run /\ Fresh(q)
        BY <1>0, <2>2 DEF Keys, worldVars
      <4>2. CASE q # r
        BY <2>0, <2>2, <4>1, <4>2 DEF Keys, LogGoto, Fresh, Handed, worldVars
      <4>3. CASE q = r
        BY <2>0, <2>2, <3>2, <4>1, <4>3 DEF Keys, LogGoto, Fresh, worldVars
      <4> QED  BY <4>2, <4>3
    <3> QED  BY <2>0, <2>2, <3>3 DEF Keys, LogGoto, worldVars, LogStage
  <2>3. CASE Mkdir(r)
    BY <2>0, <2>3, OthersKeep DEF Mkdir, LogGoto, LogStage
  <2>4. CASE WriteMeta(r) \/ WriteStdout(r) \/ WriteStderr(r)
    BY <2>0, <2>4, OthersKeep DEF WriteMeta, WriteStdout, WriteStderr, WriteFile, LogGoto,
      LogStage
  <2>5. CASE ListLogs(r)
    BY <2>0, <2>5, OthersKeep DEF ListLogs, LogGoto, LogStage
  <2>6. CASE SortLogs(r)
    BY <2>0, <2>6, OthersKeep DEF SortLogs, LogGoto, LogStage
  <2>7. CASE Unlink(r)
    BY <2>0, <2>7, OthersKeep DEF Unlink, LogGoto, LogStage
  <2>8. CASE Rmdir(r)
    BY <2>0, <2>8, OthersKeep DEF Rmdir, LogGoto, LogStage
  <2>9. CASE LogDies(r)
    BY <2>0, <2>9, OthersKeep DEF LogDies, LogGoto, LogStage
  <2> QED  BY <1>2, <2>1, <2>2, <2>3, <2>4, <2>5, <2>6, <2>7, <2>8, <2>9 DEF LogStep
<1>3. CASE UNCHANGED logVars
  BY <1>3 DEF logVars, worldVars, recordVars, Fresh, Handed
<1> QED  BY <1>1, <1>2, <1>3 DEF LogNext

(***************************************************************************)
(* The theorems about them.                                                *)
(***************************************************************************)

LEMMA Always == LogSpec => []RecordInv
<1>1. LogInit => RecordInv
  BY CaseTypes, TaskLogAssumption DEF LogInit, RecordInv, Fresh, LogStage, Case
<1>2. RecordInv /\ [LogNext]_logVars => RecordInv'
  BY Invariance
<1> QED  BY <1>1, <1>2, PTL DEF LogSpec

\* No task is handed a denied name, a credential without the network, a
\* database variable without allow_db or another identity than its
\* submitter's, whatever its worker's environment, the fleet's file and the
\* policy hold (sandbox.py, kart_env).
THEOREM EnvironmentsAreGated == LogSpec => []EnvIsGated
<1>1. RecordInv => EnvIsGated
  <2> SUFFICES ASSUME RecordInv, NEW r \in case.runs, at[r] = "mkdir", same[r]
               PROVE  Gated(handed[r], world[1], case.ask[r])
    BY DEF EnvIsGated, Gated, active
  <2>1. handed[r] = KartEnv(world[1], world[2], case.ask[r])
    BY DEF RecordInv, Fresh, Handed
  <2> QED  BY <2>1, CaseTypes, KartEnvIsGated DEF RecordInv
<1> QED  BY <1>1, Always, PTL

\* The env_keys of a log are those of its task, if its result kept the manifest
\* and nobody changed the world in between (sandbox.py, write_task_log).
THEOREM KeysAreTruthful == LogSpec => []KeysAreTheTasks
<1>1. RecordInv => KeysAreTheTasks
  BY DEF RecordInv, Fresh, KeysAreTheTasks, active
<1> QED  BY <1>1, Always, PTL

(***************************************************************************)
(* The selection and the order of the logs.                                *)
(***************************************************************************)

\* A set of numbers that is not empty has a smallest one: what is proved for
\* every length below is proved by the smallest that it would fail for.
LEMMA Smallest ==
    ASSUME NEW S, S \subseteq Nat, S # {}
    PROVE  \E x \in S : \A y \in S : x <= y
<1> DEFINE R == OpToRel(<, Nat)
<1>1. IsWellFoundedOn(R, Nat)
  BY NatLessThanWellFounded
<1>2. \A x, y \in Nat : <<y, x>> \in R <=> y < x
  BY DEF OpToRel
<1> HIDE DEF R
<1>3. PICK x \in S : \A y \in S : ~(<<y, x>> \in R)
  BY <1>1, WFMin
<1>4. \A y \in S : y \in Nat /\ x \in Nat /\ ~(y < x)
  BY <1>2, <1>3
<1>. QED
  BY <1>4

\* What Only goes through: f[i] is what it has selected of the first i.
Selecting(f, s, S, n) ==
    f = [i \in 0 .. n |->
           IF i = 0 THEN <<>>
           ELSE IF s[i] \in S THEN Append(f[i - 1], s[i]) ELSE f[i - 1]]

\* There is such a function, for any length.
LEMMA SelectingExists ==
    ASSUME NEW s, NEW S, NEW n \in Nat
    PROVE  \E f : Selecting(f, s, S, n)
<1> DEFINE B == {k \in Nat : ~ \E f : Selecting(f, s, S, k)}
<1> SUFFICES ASSUME B # {} PROVE FALSE
  OBVIOUS
<1>1. PICK k \in B : \A j \in B : k <= j
  BY Smallest
<1>2. k # 0
  <2>1. Selecting([i \in 0 .. 0 |-> <<>>], s, S, 0)
    BY DEF Selecting
  <2>. QED
    BY <1>1, <2>1
<1>3. k \in Nat /\ k - 1 \in Nat /\ ~(k <= k - 1)
  BY <1>1, <1>2
<1>4. k - 1 \notin B
  BY <1>1, <1>3
<1>5. PICK f : Selecting(f, s, S, k - 1)
  BY <1>3, <1>4
<1> DEFINE g == [i \in 0 .. k |->
                   IF i < k THEN f[i]
                   ELSE IF s[i] \in S THEN Append(f[i - 1], s[i]) ELSE f[i - 1]]
<1>6. Selecting(g, s, S, k)
  <2>1. ASSUME NEW i \in 0 .. k
        PROVE  g[i] = IF i = 0 THEN <<>>
                      ELSE IF s[i] \in S THEN Append(g[i - 1], s[i]) ELSE g[i - 1]
    <3>1. CASE i < k
      <4>1. i \in 0 .. k - 1 /\ g[i] = f[i]
        BY <1>3, <3>1
      <4>2. i # 0 => i - 1 \in 0 .. k /\ i - 1 < k /\ g[i - 1] = f[i - 1]
        BY <1>3, <3>1
      <4>3. f[i] = IF i = 0 THEN <<>>
                   ELSE IF s[i] \in S THEN Append(f[i - 1], s[i]) ELSE f[i - 1]
        BY <1>5, <4>1 DEF Selecting
      <4>. QED
        BY <4>1, <4>2, <4>3
    <3>2. CASE i = k
      <4>1. i # 0 /\ ~(i < k) /\ g[i - 1] = f[i - 1]
        BY <1>2, <1>3, <3>2
      <4>. QED
        BY <4>1
    <3>. QED
      BY <1>3, <3>1, <3>2
  <2>. QED
    BY <2>1 DEF Selecting
<1>. QED
  BY <1>1, <1>6

\* Only returns the last value of such a function (sandbox.py,
\* _prune_task_logs).
LEMMA OnlyIsSelected ==
    ASSUME NEW D, NEW s \in Seq(D), NEW S
    PROVE  \E f : Selecting(f, s, S, Len(s)) /\ Only(s, S) = f[Len(s)]
<1> DEFINE f == CHOOSE f : Selecting(f, s, S, Len(s))
<1>1. Selecting(f, s, S, Len(s))
  BY SelectingExists
<1>2. Only(s, S) = f[Len(s)]
  BY DEF Only, Selecting
<1>. QED
  BY <1>1, <1>2

\* t is what is in S of the first n elements of s, and m says where it is.
Picks(t, s, S, n, m) ==
    /\ m \in [1 .. Len(t) -> 1 .. n]
    /\ \A k \in 1 .. Len(t) : t[k] = s[m[k]] /\ t[k] \in S
    /\ \A j, k \in 1 .. Len(t) : j < k => m[j] < m[k]
    /\ \A i \in 1 .. n : s[i] \in S => \E k \in 1 .. Len(t) : m[k] = i

\* Only returns the elements that are in S, in their order and all of them
\* (sandbox.py, _prune_task_logs).
LEMMA OnlyPicks ==
    ASSUME NEW D, NEW s \in Seq(D), NEW S
    PROVE  Only(s, S) \in Seq(D) /\ \E m : Picks(Only(s, S), s, S, Len(s), m)
<1>1. PICK f : Selecting(f, s, S, Len(s)) /\ Only(s, S) = f[Len(s)]
  BY OnlyIsSelected
<1> DEFINE Good(i) == f[i] \in Seq(D) /\ \E m : Picks(f[i], s, S, i, m)
           B == {i \in 0 .. Len(s) : ~Good(i)}
<1>2. Len(s) \in Nat
  OBVIOUS
<1>3. ASSUME B # {} PROVE FALSE
  <2>0. B \subseteq Nat
    BY <1>2
  <2>1. PICK i \in B : \A j \in B : i <= j
    <3> HIDE DEF B
    <3>. QED
      BY <1>3, <2>0, Smallest
  <2>2. i \in 0 .. Len(s) /\ ~Good(i)
    BY <2>1
  <2>3. CASE i = 0
    <3>1. f[i] = <<>>
      BY <1>1, <1>2, <2>3 DEF Selecting
    <3>2. Picks(<<>>, s, S, 0, [k \in 1 .. 0 |-> 0])
      BY DEF Picks
    <3>. QED
      BY <2>2, <2>3, <3>1, <3>2
  <2>4. CASE i # 0
    <3>1. i \in Nat /\ i - 1 \in 0 .. Len(s) /\ ~(i <= i - 1) /\ i \in 1 .. Len(s) /\ s[i] \in D
      BY <2>2, <2>4
    <3>2. Good(i - 1)
      BY <2>1, <3>1
    <3>3. PICK m : Picks(f[i - 1], s, S, i - 1, m)
      BY <3>2
    <3>4. f[i] = IF s[i] \in S THEN Append(f[i - 1], s[i]) ELSE f[i - 1]
      BY <1>1, <2>2, <2>4 DEF Selecting
    <3> DEFINE t == f[i - 1]
    <3>5. t \in Seq(D) /\ Picks(t, s, S, i - 1, m)
      BY <3>2, <3>3
    <3>6. CASE s[i] \notin S
      <4>1. Picks(t, s, S, i, m)
        <5> HIDE DEF t
        <5>. QED
          BY <3>1, <3>5, <3>6 DEF Picks
      <4>. QED
        BY <2>2, <3>4, <3>5, <3>6, <4>1
    <3>7. CASE s[i] \in S
      <4> DEFINE u == Append(t, s[i])
                 n == [k \in 1 .. Len(u) |-> IF k = Len(u) THEN i ELSE m[k]]
      <4> HIDE DEF t
      <4>1. /\ u \in Seq(D) /\ Len(u) = Len(t) + 1 /\ Len(t) \in Nat
            /\ u[Len(u)] = s[i]
            /\ \A k \in 1 .. Len(t) : u[k] = t[k] /\ k \in 1 .. Len(u) /\ k # Len(u)
            /\ \A k \in 1 .. Len(u) : k \in 1 .. Len(t) \/ k = Len(u)
            /\ Len(u) \in 1 .. Len(u)
        BY <3>1, <3>5
      <4> HIDE DEF u
      <4>2. n[Len(u)] = i /\ \A k \in 1 .. Len(t) : n[k] = m[k] /\ m[k] \in 1 .. i - 1
        BY <3>5, <4>1 DEF Picks
      <4>3. n \in [1 .. Len(u) -> 1 .. i]
        <5>1. ASSUME NEW k \in 1 .. Len(u) PROVE n[k] \in 1 .. i
          <6> HIDE DEF n
          <6>1. CASE k = Len(u)
            BY <3>1, <4>2, <6>1
          <6>2. CASE k \in 1 .. Len(t)
            <7>1. n[k] \in 1 .. i - 1
              BY <4>2, <6>2
            <7>. QED
              BY <3>1, <7>1
          <6>. QED
            BY <4>1, <6>1, <6>2
        <5>. QED
          BY <5>1
      <4> HIDE DEF n
      <4>4. \A k \in 1 .. Len(u) : u[k] = s[n[k]] /\ u[k] \in S
        BY <3>5, <3>7, <4>1, <4>2 DEF Picks
      <4>5. ASSUME NEW j \in 1 .. Len(u), NEW k \in 1 .. Len(u), j < k PROVE n[j] < n[k]
        <5>1. j \in 1 .. Len(t)
          BY <4>1, <4>5
        <5>2. CASE k \in 1 .. Len(t)
          BY <3>5, <4>2, <4>5, <5>1, <5>2 DEF Picks
        <5>3. CASE k = Len(u)
          BY <3>1, <4>2, <5>1, <5>3
        <5>. QED
          BY <4>1, <5>2, <5>3
      <4>6. ASSUME NEW h \in 1 .. i, s[h] \in S PROVE \E k \in 1 .. Len(u) : n[k] = h
        <5>1. CASE h = i
          BY <4>1, <4>2, <5>1
        <5>2. CASE h # i
          <6>1. h \in 1 .. i - 1
            BY <3>1, <5>2
          <6>2. PICK k \in 1 .. Len(t) : m[k] = h
            BY <3>5, <4>6, <6>1 DEF Picks
          <6>. QED
            BY <4>1, <4>2, <6>2
        <5>. QED
          BY <5>1, <5>2
      <4>7. Picks(u, s, S, i, n)
        BY <4>3, <4>4, <4>5, <4>6 DEF Picks
      <4>8. f[i] = u
        BY <3>4, <3>7 DEF t, u
      <4>. QED
        BY <2>2, <4>1, <4>7, <4>8
    <3>. QED
      BY <3>6, <3>7
  <2>. QED
    BY <2>3, <2>4
<1>4. Good(Len(s))
  BY <1>2, <1>3
<1>. QED
  BY <1>1, <1>4

\* The elements of s that come after d.
NewerThan(s, d) == {s[j] : j \in {k \in DOMAIN s : \E i \in DOMAIN s : i < k /\ s[i] = d}}

\* Without repetitions: nothing becomes newer by leaving others out
\* (sandbox.py, _prune_task_logs).
LEMMA OnlyOrder ==
    ASSUME NEW D, NEW s \in Seq(D), IsInjective(s), NEW S
    PROVE  /\ Only(s, S) \in Seq(D) /\ IsInjective(Only(s, S))
           /\ Range(Only(s, S)) = Range(s) \cap S
           /\ \A d : NewerThan(Only(s, S), d) \subseteq NewerThan(s, d)
<1> DEFINE t == Only(s, S)
<1>1. t \in Seq(D)
  BY OnlyPicks
<1>2. PICK m : Picks(t, s, S, Len(s), m)
  BY OnlyPicks
<1> HIDE DEF t
<1>3. DOMAIN t = 1 .. Len(t) /\ DOMAIN s = 1 .. Len(s) /\ Len(t) \in Nat /\ Len(s) \in Nat
  BY <1>1
<1>4. \A k \in DOMAIN t : m[k] \in DOMAIN s /\ t[k] = s[m[k]] /\ t[k] \in S
  BY <1>2, <1>3 DEF Picks
<1>5. \A j, k \in DOMAIN t : j < k => m[j] < m[k]
  BY <1>2, <1>3 DEF Picks
<1>6. \A i \in DOMAIN s : s[i] \in S => \E k \in DOMAIN t : m[k] = i
  BY <1>2, <1>3 DEF Picks
<1>7. IsInjective(t)
  <2> SUFFICES ASSUME NEW j \in DOMAIN t, NEW k \in DOMAIN t, t[j] = t[k] PROVE j = k
    BY DEF IsInjective
  <2>1. m[j] = m[k] /\ m[j] \in Nat
    BY <1>3, <1>4 DEF IsInjective
  <2>2. ~(j < k) /\ ~(k < j) /\ j \in Nat /\ k \in Nat
    BY <1>3, <1>5, <2>1
  <2>. QED
    BY <2>2
<1>8. Range(t) = Range(s) \cap S
  <2>1. Range(t) \subseteq Range(s) \cap S
    BY <1>4 DEF Range
  <2>2. Range(s) \cap S \subseteq Range(t)
    BY <1>4, <1>6 DEF Range
  <2>. QED
    BY <2>1, <2>2
<1>9. ASSUME NEW d PROVE NewerThan(t, d) \subseteq NewerThan(s, d)
  <2> SUFFICES ASSUME NEW j \in DOMAIN t, NEW i \in DOMAIN t, i < j, t[i] = d
               PROVE  t[j] \in NewerThan(s, d)
    BY DEF NewerThan
  <2>1. m[i] < m[j] /\ m[i] \in DOMAIN s /\ m[j] \in DOMAIN s /\ s[m[i]] = d /\ t[j] = s[m[j]]
    BY <1>4, <1>5
  <2>. QED
    BY <2>1 DEF NewerThan
<1>. QED
  BY <1>1, <1>7, <1>8, <1>9 DEF t

\* What is appended is newer than all there was, and nothing else becomes
\* newer (sandbox.py, write_task_log).
LEMMA AppendOrder ==
    ASSUME NEW D, NEW t \in Seq(D), IsInjective(t), NEW d \in D, d \notin Range(t)
    PROVE  /\ Append(t, d) \in Seq(D) /\ IsInjective(Append(t, d))
           /\ Range(Append(t, d)) = Range(t) \cup {d}
           /\ NewerThan(Append(t, d), d) = {}
           /\ \A e : NewerThan(Append(t, d), e) \subseteq NewerThan(t, e) \cup {d}
<1> DEFINE u == Append(t, d)
           l == Len(t) + 1
<1>1. /\ u \in Seq(D) /\ Len(t) \in Nat
      /\ DOMAIN u = 1 .. l /\ DOMAIN t = 1 .. Len(t) /\ u[l] = d
      /\ \A k \in DOMAIN t : k \in DOMAIN u /\ u[k] = t[k] /\ k < l
      /\ \A k \in DOMAIN u : (k \in DOMAIN t \/ k = l) /\ k <= l
      /\ l \in DOMAIN u
  OBVIOUS
<1> HIDE DEF u, l
<1>2. \A k \in DOMAIN t : t[k] # d
  BY DEF Range
<1>3. IsInjective(u)
  BY <1>1, <1>2 DEF IsInjective
<1>4. Range(u) = Range(t) \cup {d}
  <2>1. Range(u) \subseteq Range(t) \cup {d}
    BY <1>1 DEF Range
  <2>2. Range(t) \subseteq Range(u) /\ d \in Range(u)
    BY <1>1 DEF Range
  <2>. QED
    BY <2>1, <2>2
<1>5. NewerThan(u, d) = {}
  <2> SUFFICES ASSUME NEW j \in DOMAIN u, NEW i \in DOMAIN u, i < j, u[i] = d PROVE FALSE
    BY DEF NewerThan
  <2>1. i = l
    BY <1>1, <1>2
  <2>2. j <= l /\ j \in Nat /\ i \in Nat
    BY <1>1
  <2>. QED
    BY <2>1, <2>2
<1>6. ASSUME NEW e PROVE NewerThan(u, e) \subseteq NewerThan(t, e) \cup {d}
  <2> SUFFICES ASSUME NEW j \in DOMAIN u, NEW i \in DOMAIN u, i < j, u[i] = e
               PROVE  u[j] \in NewerThan(t, e) \cup {d}
    BY DEF NewerThan
  <2>1. CASE j = l
    BY <1>1, <2>1
  <2>2. CASE j # l
    <3>1. j \in DOMAIN t /\ j < l /\ i \in Nat /\ j \in Nat /\ l \in Nat
      BY <1>1, <2>2 DEF l
    <3>2. i # l
      BY <3>1
    <3>3. i \in DOMAIN t /\ u[i] = t[i] /\ u[j] = t[j]
      BY <1>1, <3>1, <3>2
    <3>. QED
      BY <3>1, <3>3 DEF NewerThan
  <2>. QED
    BY <2>1, <2>2
<1>. QED
  BY <1>1, <1>3, <1>4, <1>5, <1>6 DEF u

\* The newest that are kept are as many as are kept, or all.
LEMMA StaleIs ==
    ASSUME logs \in Seq(Dir), IsInjective(logs), NEW listed, listed \subseteq Dirs
    PROVE  /\ Stale(listed) \in Seq(Dir)
           /\ Range(Stale(listed)) \subseteq listed
           /\ IsFiniteSet(listed \ Range(Stale(listed)))
           /\ Cardinality(listed \ Range(Stale(listed))) <= Retention
           /\ \A d \in Range(Stale(listed)) :
                \E N \in SUBSET NewerThan(logs, d) : IsFiniteSet(N) /\ Cardinality(N) = Retention
<1> DEFINE t == Only(logs, listed)
           n == Len(t)
           order == Reverse(t)
           old == SubSeq(order, Retention + 1, Len(order))
<1>1. /\ t \in Seq(Dir) /\ IsInjective(t) /\ Range(t) = listed
      /\ \A d : NewerThan(t, d) \subseteq NewerThan(logs, d)
  <2>1. Dirs \cap listed = listed
    OBVIOUS
  <2>. QED
    BY <2>1, OnlyOrder DEF Dirs
<1>2. Stale(listed) = old
  BY DEF Stale
<1> HIDE DEF t
<1>3. n \in Nat /\ DOMAIN t = 1 .. n /\ Retention \in Nat \ {0}
  BY <1>1, TaskLogAssumption
<1>4. /\ order \in Seq(Dir) /\ Len(order) = n
      /\ \A i \in 1 .. n : order[i] = t[n - i + 1]
  <2>1. \A i \in 1 .. n : n - i + 1 \in 1 .. n /\ t[n - i + 1] \in Dir
    BY <1>1, <1>3
  <2>. QED
    BY <1>3, <2>1 DEF Reverse
<1> HIDE DEF n, order
<1>5. /\ old \in Seq(Dir) /\ Len(old) = IF Retention < n THEN n - Retention ELSE 0
      /\ \A k \in 1 .. n - Retention : old[k] = order[Retention + k]
  <2>1. \A i \in Retention + 1 .. Len(order) : order[i] \in Dir
    BY <1>3, <1>4
  <2>2. /\ old \in Seq(Dir)
        /\ Len(old) = IF Retention + 1 <= n THEN n - (Retention + 1) + 1 ELSE 0
        /\ \A k \in 1 .. n - (Retention + 1) + 1 : old[k] = order[Retention + 1 + k - 1]
    BY <1>3, <1>4, <2>1, SubSeqProperties
  <2>. QED
    BY <1>3, <2>2
<1> HIDE DEF old
<1>6. \A k \in 1 .. n - Retention : old[k] = t[n - Retention - k + 1]
  <2> TAKE k \in 1 .. n - Retention
  <2>1. Retention + k \in 1 .. n /\ n - (Retention + k) + 1 = n - Retention - k + 1
    BY <1>3
  <2>. QED
    BY <1>4, <1>5, <2>1
<1>7. Range(old) = {t[k] : k \in 1 .. n - Retention}
  <2>0. DOMAIN old = 1 .. n - Retention
    BY <1>3, <1>5
  <2>1. Range(old) \subseteq {t[k] : k \in 1 .. n - Retention}
    <3> SUFFICES ASSUME NEW k \in 1 .. n - Retention PROVE old[k] \in {t[h] : h \in 1 .. n - Retention}
      BY <2>0 DEF Range
    <3>1. n - Retention - k + 1 \in 1 .. n - Retention
      BY <1>3
    <3>. QED
      BY <1>6, <3>1
  <2>2. {t[k] : k \in 1 .. n - Retention} \subseteq Range(old)
    <3> SUFFICES ASSUME NEW k \in 1 .. n - Retention PROVE t[k] \in Range(old)
      OBVIOUS
    <3> DEFINE h == n - Retention - k + 1
    <3>1. h \in 1 .. n - Retention /\ n - Retention - h + 1 = k
      BY <1>3
    <3> HIDE DEF h
    <3>2. old[h] = t[k]
      BY <1>6, <3>1
    <3>. QED
      BY <2>0, <3>1, <3>2 DEF Range
  <2>. QED
    BY <2>1, <2>2
<1>8. Range(old) \subseteq listed
  <2>1. \A k \in 1 .. n - Retention : k \in DOMAIN t
    BY <1>3
  <2>2. \A k \in 1 .. n - Retention : t[k] \in listed
    BY <1>1, <2>1 DEF Range
  <2>. QED
    BY <1>7, <2>2
\* The places of the directories that stay.
<1> DEFINE last == {k \in 1 .. n : n - Retention < k}
           new == {t[k] : k \in last}
<1>9. /\ listed \ Range(old) \subseteq new
      /\ IsFiniteSet(last) /\ Cardinality(last) <= Retention
      /\ n >= Retention => Cardinality(last) = Retention
  <2>1. listed \ Range(old) \subseteq new
    BY <1>1, <1>3, <1>7 DEF Range
  <2>2. CASE n >= Retention
    <3>1. last = n - Retention + 1 .. n
      BY <1>3, <2>2
    <3>2. IsFiniteSet(last) /\ Cardinality(last) = Retention
      <4>1. n - Retention + 1 \in Int /\ n \in Int /\ n - (n - Retention + 1) + 1 = Retention
            /\ ~(n - Retention + 1 > n)
        BY <1>3
      <4>. QED
        BY <3>1, <4>1, FS_Interval
    <3>. QED
      BY <1>3, <2>1, <3>2
  <2>3. CASE ~(n >= Retention)
    <3>1. last = 1 .. n
      BY <1>3, <2>3
    <3>2. IsFiniteSet(last) /\ Cardinality(last) = n
      <4>1. /\ IsFiniteSet(1 .. n)
            /\ Cardinality(1 .. n) = IF 1 > n THEN 0 ELSE n - 1 + 1
        BY <1>3, FS_Interval
      <4>2. Cardinality(1 .. n) = n
        BY <1>3, <4>1
      <4>. QED
        BY <3>1, <4>1, <4>2
    <3>. QED
      BY <1>3, <2>1, <2>3, <3>2
  <2>. QED
    BY <2>2, <2>3
<1>10. IsFiniteSet(new) /\ Cardinality(new) = Cardinality(last)
  <2> DEFINE f == [k \in last |-> t[k]]
  <2>1. f \in Bijection(last, new)
    BY <1>1, <1>3 DEF IsInjective, Bijection, Injection, Surjection
  <2>. QED
    BY <1>9, <2>1, FS_Bijection DEF ExistsBijection
<1>11. IsFiniteSet(listed \ Range(old)) /\ Cardinality(listed \ Range(old)) <= Retention
  <2>1. /\ IsFiniteSet(listed \ Range(old))
        /\ Cardinality(listed \ Range(old)) <= Cardinality(new)
    BY <1>9, <1>10, FS_Subset
  <2>2. Cardinality(listed \ Range(old)) \in Nat /\ Cardinality(new) \in Nat
    BY <1>10, <2>1, FS_CardinalityType
  <2>. QED
    BY <1>3, <1>9, <1>10, <2>1, <2>2
<1>12. ASSUME NEW d \in Range(old)
       PROVE  \E N \in SUBSET NewerThan(logs, d) : IsFiniteSet(N) /\ Cardinality(N) = Retention
  <2>1. PICK k \in 1 .. n - Retention : d = t[k]
    BY <1>7
  <2>2. n >= Retention
    BY <1>3, <2>1
  <2>3. new \subseteq NewerThan(t, d)
    BY <1>3, <2>1 DEF NewerThan
  <2>. QED
    BY <1>1, <1>9, <1>10, <2>2, <2>3
<1>. QED
  BY <1>2, <1>5, <1>8, <1>11, <1>12

\* What touching does to the order of the logs, and to nobody's past.
LEMMA TouchedLast ==
    ASSUME logs \in Seq(Dir), IsInjective(logs), changed \in [Run -> SUBSET Dir],
           NEW d \in Dir, Touch(d)
    PROVE  /\ logs' \in Seq(Dir) /\ IsInjective(logs)' /\ Dirs' = Dirs \cup {d}
           /\ changed' \in [Run -> SUBSET Dir]
           /\ \A r \in Run : changed[r] \subseteq changed'[r] /\ changed'[r] \subseteq changed[r] \cup {d}
           /\ \A r \in Run : /\ at[r] \notin {"task", "mkdir"}
                             /\ NewerThan(logs, DirOf(r)) \subseteq changed[r]
                             => NewerThan(logs', DirOf(r)) \subseteq changed'[r]
<1> DEFINE t == Only(logs, Dirs \ {d})
<1>1. /\ t \in Seq(Dir) /\ IsInjective(t) /\ Range(t) = Dirs \ {d}
      /\ \A e : NewerThan(t, e) \subseteq NewerThan(logs, e)
  <2>1. Range(logs) \cap (Dirs \ {d}) = Dirs \ {d}
    BY DEF Dirs
  <2>. QED
    BY <2>1, OnlyOrder
<1> HIDE DEF t
<1>2. logs' = Append(t, d)
  BY DEF Touch, t
<1>3. /\ logs' \in Seq(Dir) /\ IsInjective(logs') /\ Range(logs') = (Dirs \ {d}) \cup {d}
      /\ NewerThan(logs', d) = {}
      /\ \A e : NewerThan(logs', e) \subseteq NewerThan(t, e) \cup {d}
  <2>1. d \notin Range(t)
    BY <1>1
  <2>. QED
    BY <1>1, <1>2, <2>1, AppendOrder
<1>4. /\ changed' \in [Run -> SUBSET Dir]
      /\ \A r \in Run : changed[r] \subseteq changed'[r] /\ changed'[r] \subseteq changed[r] \cup {d}
      /\ \A r \in Run : DirOf(r) # d /\ at[r] \notin {"task", "mkdir"} => d \in changed'[r]
  BY DEF Touch, Later
<1>5. ASSUME NEW r \in Run, at[r] \notin {"task", "mkdir"},
             NewerThan(logs, DirOf(r)) \subseteq changed[r]
      PROVE  NewerThan(logs', DirOf(r)) \subseteq changed'[r]
  <2>1. CASE DirOf(r) = d
    BY <1>3, <2>1
  <2>2. CASE DirOf(r) # d
    BY <1>1, <1>3, <1>4, <1>5, <2>2
  <2>. QED
    BY <2>1, <2>2
<1>. QED
  BY <1>3, <1>4, <1>5 DEF Dirs

\* A directory that is changed is the newest (sandbox.py, write_task_log).
LEMMA TouchedNewest ==
    ASSUME logs \in Seq(Dir), IsInjective(logs), NEW d \in Dir, Touch(d)
    PROVE  NewerThan(logs', d) = {}
<1> DEFINE t == Only(logs, Dirs \ {d})
<1>1. t \in Seq(Dir) /\ IsInjective(t) /\ d \notin Range(t)
  BY OnlyOrder
<1> HIDE DEF t
<1>2. logs' = Append(t, d)
  BY DEF Touch, t
<1>. QED
  BY <1>1, <1>2, AppendOrder

\* A removal leaves the others in their order (sandbox.py, _prune_task_logs).
LEMMA RemovedOnly ==
    ASSUME logs \in Seq(Dir), IsInjective(logs), NEW d, logs' = Only(logs, Dirs \ {d})
    PROVE  /\ logs' \in Seq(Dir) /\ IsInjective(logs)' /\ Dirs' = Dirs \ {d}
           /\ \A e : NewerThan(logs', e) \subseteq NewerThan(logs, e)
<1>1. Range(logs) \cap (Dirs \ {d}) = Dirs \ {d}
  BY DEF Dirs
<1>. QED
  BY <1>1, OnlyOrder DEF Dirs

(***************************************************************************)
(* What is on the disk.                                                    *)
(***************************************************************************)

DiskTypes ==
    /\ case \in Cases
    /\ at \in [Run -> LogStage]
    /\ logs \in Seq(Dir) /\ IsInjective(logs)
    /\ content \in [Dir -> [File -> Run \cup {NoRun}]]
    /\ stale \in [Run -> Seq(Dir)]
    /\ changed \in [Run -> SUBSET Dir] /\ \A r \in Run : IsFiniteSet(changed[r])
    /\ mixed \subseteq Dir /\ misses \in Nat /\ deaths \in Nat

\* A pruner has something to remove, and nobody else a list.
Listing(r) ==
    /\ at[r] \in {"unlink", "rmdir"} => stale[r] # <<>>
    /\ at[r] \notin {"sort", "unlink", "rmdir"} => stale[r] = <<>>

DiskInv ==
    /\ DiskTypes
    /\ \A r \in Run : Listing(r)
    /\ \A d \in Dir \ Dirs, f \in File : content[d][f] = NoRun

\* The executions of a case and their directories (sandbox.py).
LEMMA ActiveTypes ==
    ASSUME case \in Cases
    PROVE  active \subseteq Run /\ \A r \in Run : DirOf(r) \in Dir
BY TaskLogAssumption DEF Case, active, DirOf

\* The parts of a step of r.
LEMMA DiskStays ==
    ASSUME DiskInv, NEW r \in Run, NEW there \in LogStage, at' = [at EXCEPT ![r] = there],
           UNCHANGED <<case, logs, content, changed, stale>>,
           mixed' \subseteq Dir, misses' \in Nat, deaths' \in Nat,
           stale[r] = <<>>, there \notin {"unlink", "rmdir"}
    PROVE  DiskInv'
<1> USE DEF DiskInv, DiskTypes
<1>1. DiskTypes'
  OBVIOUS
<1>2. ASSUME NEW q \in Run PROVE Listing(q)'
  <2>1. Listing(q)
    OBVIOUS
  <2>2. CASE q = r
    BY <2>1, <2>2 DEF Listing
  <2>3. CASE q # r
    BY <2>1, <2>3 DEF Listing
  <2>. QED
    BY <2>2, <2>3
<1>. QED
  BY <1>1, <1>2 DEF Dirs

\* A pruner's list is its first directory and the rest (sandbox.py,
\* _prune_task_logs).
LEMMA StaleHolds ==
    ASSUME DiskInv, NEW r \in Run, at[r] \in {"unlink", "rmdir"}
    PROVE  /\ stale[r] \in Seq(Dir) /\ stale[r] # <<>> /\ Len(stale[r]) \in Nat \ {0}
           /\ Head(stale[r]) \in Dir /\ Head(stale[r]) \in Range(stale[r])
           /\ Tail(stale[r]) \in Seq(Dir) /\ Len(Tail(stale[r])) = Len(stale[r]) - 1
           /\ Range(stale[r]) = Range(Tail(stale[r])) \cup {Head(stale[r])}
<1> DEFINE s == stale[r]
<1>1. s \in Seq(Dir) /\ s # <<>>
  BY DEF DiskInv, DiskTypes, Listing
<1> HIDE DEF s
<1>2. /\ Len(s) \in Nat \ {0} /\ 1 \in DOMAIN s /\ Head(s) = s[1]
      /\ Tail(s) \in Seq(Dir) /\ Len(Tail(s)) = Len(s) - 1
      /\ DOMAIN s = 1 .. Len(s) /\ DOMAIN Tail(s) = 1 .. Len(s) - 1
      /\ \A i \in 1 .. Len(s) - 1 : Tail(s)[i] = s[i + 1]
  BY <1>1
<1>3. Head(s) \in Dir /\ Head(s) \in Range(s)
  BY <1>1, <1>2 DEF Range
<1>4. Range(s) \subseteq Range(Tail(s)) \cup {Head(s)}
  <2> SUFFICES ASSUME NEW i \in DOMAIN s PROVE s[i] \in Range(Tail(s)) \cup {Head(s)}
    BY DEF Range
  <2>1. CASE i = 1
    BY <1>2, <2>1
  <2>2. CASE i # 1
    <3>1. i - 1 \in DOMAIN Tail(s) /\ i - 1 + 1 = i /\ Tail(s)[i - 1] = s[i - 1 + 1]
      BY <1>2, <2>2
    <3>2. Tail(s)[i - 1] = s[i]
      BY <3>1
    <3>. QED
      BY <3>1, <3>2 DEF Range
  <2>. QED
    BY <2>1, <2>2
<1>5. Range(Tail(s)) \subseteq Range(s)
  <2> SUFFICES ASSUME NEW i \in DOMAIN Tail(s) PROVE Tail(s)[i] \in Range(s)
    BY DEF Range
  <2>1. i + 1 \in DOMAIN s /\ Tail(s)[i] = s[i + 1]
    BY <1>2
  <2>. QED
    BY <2>1 DEF Range
<1>. QED
  BY <1>1, <1>2, <1>3, <1>4, <1>5 DEF s

\* One more directory leaves a finite set finite (sandbox.py, write_task_log).
LEMMA FiniteAfter ==
    ASSUME NEW e \in [Run -> SUBSET Dir], NEW g \in [Run -> SUBSET Dir], NEW d,
           \A r \in Run : IsFiniteSet(e[r]),
           \A r \in Run : e[r] \subseteq g[r] /\ g[r] \subseteq e[r] \cup {d}
    PROVE  \A r \in Run : IsFiniteSet(g[r])
<1> TAKE r \in Run
<1>1. g[r] = e[r] \/ g[r] = e[r] \cup {d}
  OBVIOUS
<1>2. IsFiniteSet(e[r] \cup {d})
  BY FS_AddElement
<1>. QED
  BY <1>1, <1>2

\* A new directory is empty (sandbox.py, write_task_log).
LEMMA DiskMkdir ==
    ASSUME DiskInv, NEW r \in active, Mkdir(r)
    PROVE  DiskInv'
<1> USE DEF DiskInv, DiskTypes
<1>0. r \in Run /\ DirOf(r) \in Dir
  BY ActiveTypes
<1>1. /\ at' = [at EXCEPT ![r] = "keys"] /\ UNCHANGED <<case, content, stale, misses, deaths>>
      /\ mixed' \subseteq Dir /\ at[r] = "mkdir"
  BY <1>0 DEF Mkdir, LogGoto, worldVars
<1>2. /\ logs' \in Seq(Dir) /\ IsInjective(logs)' /\ Dirs \subseteq Dirs'
      /\ changed' \in [Run -> SUBSET Dir] /\ \A q \in Run : IsFiniteSet(changed'[q])
  <2>1. CASE Untouched
    BY <2>1 DEF Untouched, Dirs
  <2>2. CASE Touch(DirOf(r))
    <3>1. /\ logs' \in Seq(Dir) /\ IsInjective(logs)' /\ Dirs' = Dirs \cup {DirOf(r)}
          /\ changed' \in [Run -> SUBSET Dir]
          /\ \A q \in Run : changed[q] \subseteq changed'[q] /\ changed'[q] \subseteq changed[q] \cup {DirOf(r)}
      BY <1>0, <2>2, TouchedLast
    <3>2. \A q \in Run : IsFiniteSet(changed'[q])
      BY <3>1, FiniteAfter
    <3>. QED
      BY <3>1, <3>2
  <2>. QED
    BY <2>1, <2>2 DEF Mkdir
<1>3. \A q \in Run : Listing(q)'
  BY <1>0, <1>1 DEF Listing
<1>4. at' \in [Run -> LogStage]
  BY <1>1 DEF LogStage
<1>. QED
  BY <1>1, <1>2, <1>3, <1>4

\* A file is only written into a directory that is there (sandbox.py,
\* write_task_log).
LEMMA DiskWrite ==
    ASSUME DiskInv, NEW r \in active, NEW name \in File, NEW next \in {"stdout", "stderr", "list"},
           WriteFile(r, name, next)
    PROVE  DiskInv'
<1> USE DEF DiskInv, DiskTypes
<1>0. r \in Run /\ DirOf(r) \in Dir
  BY ActiveTypes
<1>1. CASE DirOf(r) \notin Dirs
  <2>1. misses' \in Nat
    BY <1>1 DEF WriteFile
  <2>2. /\ at' = [at EXCEPT ![r] = "failed"] /\ stale[r] = <<>> /\ "failed" \in LogStage
        /\ UNCHANGED <<case, logs, content, changed, stale, mixed, deaths>>
    BY <1>0, <1>1 DEF WriteFile, LogGoto, Untouched, worldVars, Listing, File, LogStage
  <2>. QED
    BY <1>0, <2>1, <2>2, DiskStays
<1>2. CASE DirOf(r) \in Dirs
  <2>1. /\ at' = [at EXCEPT ![r] = next] /\ at[r] = name
        /\ UNCHANGED <<case, stale, misses, mixed, deaths>>
        /\ content' = [content EXCEPT ![DirOf(r)][name] = r]
        /\ Untouched \/ Touch(DirOf(r))
    BY <1>2 DEF WriteFile, LogGoto, worldVars
  <2>2. /\ logs' \in Seq(Dir) /\ IsInjective(logs)' /\ Dirs = Dirs'
        /\ changed' \in [Run -> SUBSET Dir] /\ \A q \in Run : IsFiniteSet(changed'[q])
    <3>1. CASE Untouched
      BY <3>1 DEF Untouched, Dirs
    <3>2. CASE Touch(DirOf(r))
      <4>1. /\ logs' \in Seq(Dir) /\ IsInjective(logs)' /\ Dirs' = Dirs \cup {DirOf(r)}
            /\ changed' \in [Run -> SUBSET Dir]
            /\ \A q \in Run : changed[q] \subseteq changed'[q] /\ changed'[q] \subseteq changed[q] \cup {DirOf(r)}
        BY <1>0, <3>2, TouchedLast
      <4>2. \A q \in Run : IsFiniteSet(changed'[q])
        BY <4>1, FiniteAfter
      <4>. QED
        BY <1>2, <4>1, <4>2
    <3>. QED
      BY <2>1, <3>1, <3>2
  <2>3. content' \in [Dir -> [File -> Run \cup {NoRun}]]
    BY <1>0, <2>1
  <2>4. \A d \in Dir \ Dirs', f \in File : content'[d][f] = NoRun
    BY <1>0, <1>2, <2>1, <2>2
  <2>5. \A q \in Run : Listing(q)'
    BY <1>0, <2>1 DEF Listing, File
  <2>6. at' \in [Run -> LogStage]
    BY <2>1 DEF LogStage
  <2>. QED
    BY <2>1, <2>2, <2>3, <2>4, <2>5, <2>6
<1>. QED
  BY <1>1, <1>2

\* A pruner lists, sorts and removes directories that are empty (sandbox.py,
\* _prune_task_logs).
LEMMA DiskPrune ==
    ASSUME DiskInv, NEW r \in active, ListLogs(r) \/ SortLogs(r) \/ Rmdir(r)
    PROVE  DiskInv'
<1> USE DEF DiskInv, DiskTypes
<1>0. r \in Run
  BY ActiveTypes
<1>1. CASE ListLogs(r)
  <2>1. \A q \in Run : Listing(q)'
    BY <1>0, <1>1 DEF ListLogs, LogGoto, Listing
  <2>2. at' \in [Run -> LogStage] /\ stale' \in [Run -> Seq(Dir)]
    BY <1>1 DEF ListLogs, LogGoto, LogStage
  <2>. QED
    BY <1>1, <2>1, <2>2 DEF ListLogs, worldVars, diskVars, traceVars, Dirs
<1>2. CASE SortLogs(r)
  <2> DEFINE listed == Range(stale[r])
             old == IF ~(listed \subseteq Dirs) THEN <<>> ELSE Stale(listed)
  <2>1. /\ stale' = [stale EXCEPT ![r] = old]
        /\ at' = [at EXCEPT ![r] = IF old = <<>> THEN "done" ELSE "unlink"]
        /\ misses' \in Nat
    BY <1>2 DEF SortLogs, LogGoto
  <2>2. old \in Seq(Dir)
    <3>1. listed \subseteq Dirs => Stale(listed) \in Seq(Dir)
      BY StaleIs
    <3>. QED
      BY <3>1
  <2> HIDE DEF old
  <2>3. \A q \in Run : Listing(q)'
    BY <1>0, <2>1 DEF Listing
  <2>4. at' \in [Run -> LogStage] /\ stale' \in [Run -> Seq(Dir)]
    BY <2>1, <2>2 DEF LogStage
  <2>. QED
    BY <1>2, <2>1, <2>3, <2>4 DEF SortLogs, worldVars, diskVars, Dirs
<1>3. CASE Rmdir(r)
  <2> DEFINE d == Head(stale[r])
             last == Len(stale[r]) = 1
  <2>1. at[r] = "rmdir"
    BY <1>3 DEF Rmdir
  <2>2. /\ Tail(stale[r]) \in Seq(Dir) /\ Len(Tail(stale[r])) = Len(stale[r]) - 1
        /\ Len(stale[r]) \in Nat \ {0} /\ d \in Dir
    BY <1>0, <2>1, StaleHolds
  <2>3. last <=> Tail(stale[r]) = <<>>
    <3> HIDE DEF d
    <3>1. Len(stale[r]) = 1 <=> Len(Tail(stale[r])) = 0
      BY <2>2
    <3>2. \A q \in Seq(Dir) : Len(q) = 0 <=> q = <<>>
      OBVIOUS
    <3>. QED
      BY <2>2, <3>1, <3>2
  <2>4. /\ stale' = [stale EXCEPT ![r] = Tail(stale[r])]
        /\ at' = [at EXCEPT ![r] = IF last THEN "done" ELSE "unlink"]
    BY <1>3 DEF Rmdir, LogGoto
  <2>5. \A q \in Run : Listing(q)'
    BY <1>0, <2>3, <2>4 DEF Listing
  <2>6. at' \in [Run -> LogStage] /\ stale' \in [Run -> Seq(Dir)]
    BY <2>2, <2>4 DEF LogStage
  <2>7. /\ logs' \in Seq(Dir) /\ IsInjective(logs)'
        /\ \A e \in Dir \ Dirs' : e \in Dir \ Dirs \/ \A f \in File : content[e][f] = NoRun
    <3>1. CASE \A f \in File : content[d][f] = NoRun
      BY <1>3, <3>1, RemovedOnly DEF Rmdir
    <3>2. CASE ~(\A f \in File : content[d][f] = NoRun)
      BY <1>3, <3>2 DEF Rmdir, Dirs
    <3>. QED
      BY <3>1, <3>2
  <2>8. misses' \in Nat
    BY <1>3 DEF Rmdir
  <2>. QED
    BY <1>3, <2>5, <2>6, <2>7, <2>8 DEF Rmdir, worldVars
<1>. QED
  BY <1>1, <1>2, <1>3

\* A removal of files leaves the directory they were in, the most recently
\* changed, or finds none.
LEMMA DiskUnlink ==
    ASSUME DiskInv, NEW r \in active, Unlink(r)
    PROVE  /\ DiskInv' /\ Dirs' = Dirs
           /\ Untouched \/ Touch(Head(stale[r]))
           /\ content' = [content EXCEPT ![Head(stale[r])] = [f \in File |-> NoRun]]
<1> USE DEF DiskInv, DiskTypes
<1> DEFINE d == Head(stale[r])
<1>0. r \in Run /\ at[r] = "unlink"
  BY ActiveTypes DEF Unlink
<1>1. d \in Dir
  BY <1>0, StaleHolds
<1>2. /\ content' = [content EXCEPT ![d] = [f \in File |-> NoRun]]
      /\ content' = content => Untouched
      /\ Untouched \/ Touch(d)
      /\ at' = [at EXCEPT ![r] = "rmdir"]
      /\ UNCHANGED <<case, stale, mixed, misses, deaths>>
  BY <1>0 DEF Unlink, LogGoto, worldVars
<1>3. d \notin Dirs => Untouched
  <2> SUFFICES ASSUME d \notin Dirs PROVE content' = content
    BY <1>2
  <2>1. content[d] = [f \in File |-> NoRun]
    BY <1>1
  <2>. QED
    BY <1>1, <1>2, <2>1
<1>4. /\ logs' \in Seq(Dir) /\ IsInjective(logs)' /\ Dirs = Dirs'
      /\ changed' \in [Run -> SUBSET Dir] /\ \A q \in Run : IsFiniteSet(changed'[q])
  <2>1. CASE Untouched
    BY <2>1 DEF Untouched, Dirs
  <2>2. CASE ~Untouched
    <3>1. /\ logs' \in Seq(Dir) /\ IsInjective(logs)' /\ Dirs' = Dirs \cup {d}
          /\ changed' \in [Run -> SUBSET Dir]
          /\ \A q \in Run : changed[q] \subseteq changed'[q] /\ changed'[q] \subseteq changed[q] \cup {d}
      BY <1>1, <1>2, <2>2, TouchedLast
    <3>2. \A q \in Run : IsFiniteSet(changed'[q])
      BY <3>1, FiniteAfter
    <3>. QED
      BY <1>3, <2>2, <3>1, <3>2
  <2>. QED
    BY <2>1, <2>2
<1>5. content' \in [Dir -> [File -> Run \cup {NoRun}]]
  BY <1>1, <1>2
<1>6. \A e \in Dir \ Dirs', f \in File : content'[e][f] = NoRun
  BY <1>1, <1>2, <1>4
<1>7. \A q \in Run : Listing(q)'
  BY <1>0, <1>2 DEF Listing
<1>8. at' \in [Run -> LogStage]
  BY <1>2 DEF LogStage
<1>. QED
  BY <1>2, <1>4, <1>5, <1>6, <1>7, <1>8

\* Every step keeps what is said of the disk (sandbox.py).
LEMMA DiskInvariance ==
    ASSUME DiskInv, [LogNext]_logVars
    PROVE  DiskInv'
<1> USE DEF DiskInv, DiskTypes
<1>1. CASE EditWorld \/ UNCHANGED logVars
  BY <1>1 DEF EditWorld, logVars, worldVars, diskVars, traceVars, Dirs, Listing
<1>2. ASSUME NEW r \in active, LogStep(r) PROVE DiskInv'
  <2>0. r \in Run /\ DirOf(r) \in Dir
    BY ActiveTypes
  <2>1. CASE RunTask(r) \/ Keys(r)
    <3>1. PICK there \in {"mkdir", "meta"} : LogGoto(r, there)
      BY <2>1 DEF RunTask, Keys
    <3>2. there \in LogStage /\ there \notin {"unlink", "rmdir"}
      BY DEF LogStage
    <3>3. UNCHANGED <<case, logs, content, changed, stale, mixed, misses, deaths>>
          /\ stale[r] = <<>>
      BY <2>0, <2>1 DEF RunTask, Keys, worldVars, diskVars, traceVars, Listing
    <3>. QED
      BY <2>0, <3>1, <3>2, <3>3, DiskStays DEF LogGoto
  <2>2. CASE LogDies(r)
    <3>1. /\ at' = [at EXCEPT ![r] = "dead"] /\ stale' = [stale EXCEPT ![r] = <<>>]
          /\ UNCHANGED <<case, logs, content, changed, misses>>
          /\ mixed' \subseteq Dir /\ deaths' \in Nat
      BY <2>0, <2>2 DEF LogDies, LogGoto, worldVars, diskVars
    <3>2. \A q \in Run : Listing(q)'
      BY <2>0, <3>1 DEF Listing
    <3>3. at' \in [Run -> LogStage]
      BY <3>1 DEF LogStage
    <3>4. stale' \in [Run -> Seq(Dir)]
      <4>1. <<>> \in Seq(Dir)
        OBVIOUS
      <4>. QED
        BY <3>1, <4>1
    <3>. QED
      BY <3>1, <3>2, <3>3, <3>4 DEF Dirs
  <2>. QED
    BY <1>2, <2>1, <2>2, DiskMkdir, DiskWrite, DiskPrune, DiskUnlink
    DEF LogStep, WriteMeta, WriteStdout, WriteStderr, File
<1>. QED
  BY <1>1, <1>2 DEF LogNext

(***************************************************************************)
(* The files of a log.                                                     *)
(***************************************************************************)

\* What an execution has written, by where it is.
Wrote(stage) ==
    CASE stage \in {"task", "mkdir", "keys", "meta"} -> {}
      [] stage = "stdout" -> {"meta"}
      [] stage = "stderr" -> {"meta", "stdout"}
      [] OTHER -> File

\* One writes at a time where nobody was mixed up, and what it has written is
\* not another's; what is left after the last is one execution's.
OneWrites ==
    /\ \A r, q \in active :
         Writing(r) /\ Writing(q) /\ DirOf(r) = DirOf(q) /\ DirOf(r) \notin mixed => r = q
    /\ \A r \in active : Writing(r) /\ DirOf(r) \notin mixed =>
         \A f \in Wrote(at[r]) : content[DirOf(r)][f] \in {r, NoRun}
    /\ \A d \in Dir \ mixed : (\A r \in active : DirOf(r) = d => ~Writing(r)) =>
         \E q \in Run \cup {NoRun} : \A f \in File : content[d][f] \in {q, NoRun}

\* An execution that leaves no file alone: it goes on, returns or dies, the
\* last with its directory mixed up (sandbox.py, write_task_log).
LEMMA OneWritesAside ==
    ASSUME DiskInv, OneWrites, NEW r \in active, NEW there, at' = [at EXCEPT ![r] = there],
           UNCHANGED <<case, content>>, mixed \subseteq mixed',
           \/ ~Writing(r) /\ there \notin {"keys", "meta", "stdout", "stderr"}
           \/ Writing(r) /\ there \notin {"keys", "meta", "stdout", "stderr"} /\ DirOf(r) \in mixed'
           \/ at[r] = "keys" /\ there = "meta"
    PROVE  OneWrites'
<1> USE DEF OneWrites
<1>0. /\ active' = active /\ r \in Run /\ active \subseteq Run
      /\ \A q \in Run : DirOf(q)' = DirOf(q) /\ DirOf(q) \in Dir
  BY ActiveTypes DEF active, DirOf, DiskInv, DiskTypes
<1>1. \A q \in active : /\ q # r => at'[q] = at[q] /\ (Writing(q)' <=> Writing(q))
                        /\ Writing(q)' => Writing(q)
                        /\ Wrote(at'[q]) \subseteq Wrote(at[q]) \/ ~Writing(q)'
  BY <1>0, ActiveTypes DEF Writing, Wrote, DiskInv, DiskTypes
<1>2. \A q \in active : Writing(q) /\ DirOf(q) \notin mixed' => Writing(q)'
  BY <1>0, <1>1, ActiveTypes DEF Writing, DiskInv, DiskTypes
<1>3. ASSUME NEW p \in active, NEW q \in active, Writing(p)', Writing(q)', DirOf(p) = DirOf(q),
             DirOf(p) \notin mixed'
      PROVE  p = q
  BY <1>1, <1>3
<1>4. ASSUME NEW q \in active, Writing(q)', DirOf(q) \notin mixed', NEW f \in Wrote(at'[q])
      PROVE  content'[DirOf(q)][f] \in {q, NoRun}
  BY <1>1, <1>4
<1>5. ASSUME NEW d \in Dir \ mixed', \A q \in active : DirOf(q) = d => ~Writing(q)'
      PROVE  \E q \in Run \cup {NoRun} : \A f \in File : content'[d][f] \in {q, NoRun}
  <2>1. \A q \in active : DirOf(q) = d => ~Writing(q)
    BY <1>2, <1>5
  <2>. QED
    BY <1>5, <2>1
<1>. QED
  BY <1>0, <1>3, <1>4, <1>5

\* A second one that starts writing mixes the directory up (sandbox.py,
\* write_task_log).
LEMMA OneWritesMkdir ==
    ASSUME DiskInv, OneWrites, NEW r \in active, Mkdir(r)
    PROVE  OneWrites'
<1> USE DEF OneWrites
<1>0. r \in Run /\ active \subseteq Run /\ \A q \in Run : DirOf(q) \in Dir
  BY ActiveTypes DEF DiskInv, DiskTypes
<1>1. /\ at' = [at EXCEPT ![r] = "keys"] /\ UNCHANGED <<case, content>> /\ mixed \subseteq mixed'
      /\ (\E q \in active \ {r} : Writing(q) /\ DirOf(q) = DirOf(r)) => DirOf(r) \in mixed'
      /\ ~Writing(r)
  BY DEF Mkdir, LogGoto, worldVars, Writing
<1>2. active' = active /\ \A q \in Run : DirOf(q)' = DirOf(q)
  BY <1>1 DEF active, DirOf
<1>3. \A q \in active : q # r => at'[q] = at[q] /\ (Writing(q)' <=> Writing(q))
  BY <1>0, <1>1 DEF Writing, DiskInv, DiskTypes
<1>4. Writing(r)' /\ Wrote(at'[r]) = {}
  BY <1>0, <1>1 DEF Writing, Wrote, DiskInv, DiskTypes
<1>5. ASSUME NEW p \in active, NEW q \in active, Writing(p)', Writing(q)', DirOf(p) = DirOf(q),
             DirOf(p) \notin mixed'
      PROVE  p = q
  <2>1. CASE p # r /\ q # r
    BY <1>1, <1>3, <1>5, <2>1
  <2>2. CASE p = r \/ q = r
    BY <1>1, <1>3, <1>5, <2>2
  <2>. QED
    BY <2>1, <2>2
<1>6. \A q \in active : Writing(q)' /\ DirOf(q)' \notin mixed' =>
        \A f \in Wrote(at'[q]) : content'[DirOf(q)'][f] \in {q, NoRun}
  BY <1>0, <1>1, <1>2, <1>3, <1>4
<1>7. \A d \in Dir \ mixed' : (\A q \in active : DirOf(q)' = d => ~Writing(q)') =>
        \E q \in Run \cup {NoRun} : \A f \in File : content'[d][f] \in {q, NoRun}
  BY <1>0, <1>1, <1>2, <1>3, <1>4
<1>. QED
  BY <1>0, <1>2, <1>5, <1>6, <1>7

\* The next file, of the directory of one that writes alone.
LEMMA OneWritesOn ==
    ASSUME DiskInv, OneWrites, NEW r \in active, WriteMeta(r) \/ WriteStdout(r) \/ WriteStderr(r)
    PROVE  OneWrites'
<1> USE DEF OneWrites
<1> DEFINE d == DirOf(r)
<1>0. /\ r \in Run /\ active \subseteq Run /\ \A q \in Run : DirOf(q) \in Dir
      /\ at \in [Run -> LogStage] /\ content \in [Dir -> [File -> Run \cup {NoRun}]]
  BY ActiveTypes DEF DiskInv, DiskTypes
<1>1. PICK name \in File, next \in {"stdout", "stderr", "list"} :
        /\ WriteFile(r, name, next)
        /\ \/ name = "meta" /\ next = "stdout"
           \/ name = "stdout" /\ next = "stderr"
           \/ name = "stderr" /\ next = "list"
  BY DEF WriteMeta, WriteStdout, WriteStderr, File
<1>2. UNCHANGED <<case, mixed>> /\ active' = active /\ \A q \in Run : DirOf(q)' = DirOf(q)
  BY <1>1 DEF WriteFile, worldVars, active, DirOf
<1>3. PICK there : at' = [at EXCEPT ![r] = there]
  BY <1>1 DEF WriteFile, LogGoto
<1>4. Writing(r) /\ at[r] = name
  BY <1>1 DEF WriteFile, Writing, File
<1>5. \A q \in active : q # r => at'[q] = at[q] /\ (Writing(q)' <=> Writing(q))
  BY <1>0, <1>3 DEF Writing
<1>6. \A p, q \in active :
        Writing(p)' /\ Writing(q)' /\ DirOf(p) = DirOf(q) /\ DirOf(p) \notin mixed => p = q
  BY <1>4, <1>5
<1>7. \A e \in Dir : e # d => content'[e] = content[e]
  BY <1>0, <1>1 DEF WriteFile
<1>8. d \notin mixed => \A q \in active : q # r /\ Writing(q) => DirOf(q) # d
  BY <1>4
<1>9. CASE d \in Dirs
  <2>1. /\ content' = [content EXCEPT ![d][name] = r] /\ at'[r] = next
    BY <1>0, <1>1, <1>9 DEF WriteFile, LogGoto
  <2>2. /\ content'[d][name] = r /\ \A f \in File : f # name => content'[d][f] = content[d][f]
    BY <1>0, <2>1
  <2>3. d \notin mixed => \A f \in Wrote(name) \cup {name} : content'[d][f] \in {r, NoRun}
    <3>1. Wrote(name) \subseteq File
      BY <1>1 DEF Wrote, File
    <3>. QED
      BY <1>4, <2>2, <3>1
  <2>4. Wrote(next) = Wrote(name) \cup {name}
    BY <1>1 DEF Wrote, File
  <2>5. \A q \in active : Writing(q)' /\ DirOf(q) \notin mixed =>
          \A f \in Wrote(at'[q]) : content'[DirOf(q)][f] \in {q, NoRun}
    <3> SUFFICES ASSUME NEW q \in active, Writing(q)', DirOf(q) \notin mixed
                 PROVE  \A f \in Wrote(at'[q]) : content'[DirOf(q)][f] \in {q, NoRun}
      OBVIOUS
    <3>1. CASE q = r
      BY <2>1, <2>3, <2>4, <3>1
    <3>2. CASE q # r
      <4>1. DirOf(q) # d
        BY <1>5, <1>8, <3>2
      <4>. QED
        BY <1>0, <1>5, <1>7, <3>2, <4>1
    <3>. QED
      BY <3>1, <3>2
  <2>6. ASSUME NEW e \in Dir \ mixed, \A q \in active : DirOf(q) = e => ~Writing(q)'
        PROVE  \E q \in Run \cup {NoRun} : \A f \in File : content'[e][f] \in {q, NoRun}
    <3>1. CASE e = d
      <4>1. ~Writing(r)'
        BY <2>6, <3>1
      <4>2. next = "list"
        BY <1>1, <2>1, <4>1 DEF Writing
      <4>3. Wrote(next) = File
        BY <4>2 DEF Wrote
      <4>. QED
        BY <1>0, <2>3, <2>4, <2>6, <3>1, <4>3
    <3>2. CASE e # d
      <4>1. \A q \in active : DirOf(q) = e => ~Writing(q)
        BY <1>5, <2>6, <3>2
      <4>. QED
        BY <1>7, <2>6, <3>2, <4>1
    <3>. QED
      BY <3>1, <3>2
  <2>. QED
    BY <1>0, <1>2, <1>6, <2>5, <2>6
<1>10. CASE d \notin Dirs
  <2>1. content' = content /\ at'[r] = "failed"
    BY <1>0, <1>1, <1>10 DEF WriteFile, LogGoto
  <2>2. ~Writing(r)'
    BY <2>1 DEF Writing
  <2>3. \A q \in active : Writing(q)' /\ DirOf(q) \notin mixed =>
          \A f \in Wrote(at'[q]) : content'[DirOf(q)][f] \in {q, NoRun}
    BY <1>5, <2>1, <2>2
  <2>4. ASSUME NEW e \in Dir \ mixed, \A q \in active : DirOf(q) = e => ~Writing(q)'
        PROVE  \E q \in Run \cup {NoRun} : \A f \in File : content'[e][f] \in {q, NoRun}
    <3>1. CASE e = d
      BY <1>10, <2>1, <3>1 DEF DiskInv
    <3>2. CASE e # d
      <4>1. \A q \in active : DirOf(q) = e => ~Writing(q)
        BY <1>5, <2>4, <3>2
      <4>. QED
        BY <2>1, <2>4, <4>1
    <3>. QED
      BY <3>1, <3>2
  <2>. QED
    BY <1>0, <1>2, <1>6, <2>3, <2>4
<1>. QED
  BY <1>9, <1>10

\* A pruner leaves no files, whoever's they were (sandbox.py,
\* _prune_task_logs).
LEMMA OneWritesUnlink ==
    ASSUME DiskInv, OneWrites, NEW r \in active, Unlink(r)
    PROVE  OneWrites'
<1> USE DEF OneWrites
<1> DEFINE d == Head(stale[r])
<1>0. /\ r \in Run /\ active \subseteq Run /\ \A q \in Run : DirOf(q) \in Dir
      /\ at \in [Run -> LogStage] /\ content \in [Dir -> [File -> Run \cup {NoRun}]]
  BY ActiveTypes DEF DiskInv, DiskTypes
<1>1. UNCHANGED <<case, mixed>> /\ at' = [at EXCEPT ![r] = "rmdir"] /\ ~Writing(r)
  BY DEF Unlink, LogGoto, worldVars, Writing
<1>2. active' = active /\ \A q \in Run : DirOf(q)' = DirOf(q)
  BY <1>1 DEF active, DirOf
<1>3. \A q \in active : /\ Writing(q)' <=> Writing(q)
                        /\ Writing(q) => at'[q] = at[q]
  BY <1>0, <1>1 DEF Writing
<1>4. \A e \in Dir : content'[e] = content[e] \/ \A f \in File : content'[e][f] = NoRun
  BY <1>0, DiskUnlink
<1>5. \A q \in active : Writing(q) => Wrote(at[q]) \subseteq File
  BY DEF Writing, Wrote, File
<1>6. \A q \in active : Writing(q)' /\ DirOf(q)' \notin mixed' =>
        \A f \in Wrote(at'[q]) : content'[DirOf(q)'][f] \in {q, NoRun}
  BY <1>0, <1>1, <1>2, <1>3, <1>4, <1>5
<1>7. \A e \in Dir \ mixed' : (\A q \in active : DirOf(q)' = e => ~Writing(q)') =>
        \E q \in Run \cup {NoRun} : \A f \in File : content'[e][f] \in {q, NoRun}
  BY <1>0, <1>1, <1>2, <1>3, <1>4
<1>8. \A p, q \in active :
        Writing(p)' /\ Writing(q)' /\ DirOf(p)' = DirOf(q)' /\ DirOf(p)' \notin mixed' => p = q
  BY <1>0, <1>1, <1>2, <1>3
<1>. QED
  BY <1>2, <1>6, <1>7, <1>8

\* Every step keeps the writers apart (sandbox.py).
LEMMA OneWritesInvariance ==
    ASSUME DiskInv, OneWrites, [LogNext]_logVars
    PROVE  OneWrites'
<1>1. CASE EditWorld \/ UNCHANGED logVars
  BY <1>1 DEF EditWorld, logVars, worldVars, diskVars, traceVars, OneWrites, Writing, DirOf, active
<1>2. ASSUME NEW r \in active, LogStep(r) PROVE OneWrites'
  <2>0. r \in Run /\ stale \in [Run -> Seq(Dir)]
    BY ActiveTypes DEF DiskInv, DiskTypes
  <2>1. CASE RunTask(r) \/ Keys(r) \/ ListLogs(r) \/ SortLogs(r) \/ Rmdir(r)
    <3>1. UNCHANGED <<case, content, mixed>>
      BY <2>1 DEF RunTask, Keys, ListLogs, SortLogs, Rmdir, worldVars, diskVars, traceVars
    <3>2. \E there : /\ at' = [at EXCEPT ![r] = there]
                     /\ \/ ~Writing(r) /\ there \notin {"keys", "meta", "stdout", "stderr"}
                        \/ at[r] = "keys" /\ there = "meta"
      <4>1. CASE RunTask(r) \/ Keys(r) \/ ListLogs(r)
        BY <4>1 DEF RunTask, Keys, ListLogs, LogGoto, Writing
      <4>2. CASE SortLogs(r)
        <5>1. ~Writing(r) /\ \E there \in {"done", "unlink"} : LogGoto(r, there)
          BY <4>2 DEF SortLogs, Writing
        <5>. QED
          BY <5>1 DEF LogGoto
      <4>3. CASE Rmdir(r)
        <5>1. ~Writing(r) /\ \E there \in {"done", "unlink"} : LogGoto(r, there)
          BY <4>3 DEF Rmdir, Writing
        <5>. QED
          BY <5>1 DEF LogGoto
      <4>. QED
        BY <2>1, <4>1, <4>2, <4>3
    <3>. QED
      BY <3>1, <3>2, OneWritesAside
  <2>2. CASE LogDies(r)
    <3>1. UNCHANGED <<case, content>> /\ mixed \subseteq mixed' /\ at' = [at EXCEPT ![r] = "dead"]
          /\ (Writing(r) => DirOf(r) \in mixed')
      BY <2>2 DEF LogDies, LogGoto, worldVars, diskVars
    <3>. QED
      BY <3>1, OneWritesAside
  <2>. QED
    BY <1>2, <2>1, <2>2, OneWritesMkdir, OneWritesOn, OneWritesUnlink DEF LogStep
<1>. QED
  BY <1>1, <1>2 DEF LogNext

(***************************************************************************)
(* The logs that survive.                                                  *)
(***************************************************************************)

\* As many others were changed since as are kept.
Due(r) == Cardinality(changed[r]) >= Retention

Begun(r) == at[r] \notin {"task", "mkdir"}

\* The log of an execution that has its directory to itself: nobody knows of
\* it before it is made; then what is newer was changed since, and it is as its
\* execution left it or due, which it is when a pruner is about to remove it.
Survives(r) ==
    /\ ~Begun(r) => /\ DirOf(r) \notin Dirs
                    /\ \A q \in active : DirOf(r) \notin Range(stale[q])
    /\ Begun(r) => NewerThan(logs, DirOf(r)) \subseteq changed[r]
    /\ Begun(r) => \A q \in active :
         at[q] \in {"unlink", "rmdir"} /\ DirOf(r) \in Range(stale[q]) => Due(r)
    /\ Begun(r) /\ at[r] \notin {"failed", "dead"} =>
         \/ Due(r)
         \/ DirOf(r) \in Dirs /\ \A f \in Wrote(at[r]) : content[DirOf(r)][f] = r

FreshInv == \A r \in active : Alone(r) => Survives(r)

\* What is due stays due (sandbox.py, _prune_task_logs).
LEMMA DueGrows ==
    ASSUME NEW S, NEW T, IsFiniteSet(T), S \subseteq T, Cardinality(S) >= Retention
    PROVE  Cardinality(T) >= Retention
<1>1. IsFiniteSet(S) /\ Cardinality(S) <= Cardinality(T)
  BY FS_Subset
<1>2. Cardinality(S) \in Nat /\ Cardinality(T) \in Nat
  BY <1>1, FS_CardinalityType
<1>. QED
  BY <1>1, <1>2, TaskLogAssumption

\* What a step of p has to leave to r.
LEMMA SurvivesStep ==
    ASSUME DiskInv, DiskInv', NEW r \in Run, DirOf(r)' = DirOf(r), active' = active, Survives(r),
           changed[r] \subseteq changed'[r],
           ~Begun(r)' => /\ ~Begun(r) /\ DirOf(r) \notin Dirs'
                         /\ \A q \in active : DirOf(r) \notin Range(stale'[q]),
           Begun(r)' => NewerThan(logs', DirOf(r)) \subseteq changed'[r],
           Begun(r)' => \A q \in active :
             at'[q] \in {"unlink", "rmdir"} /\ DirOf(r) \in Range(stale'[q]) =>
               \/ Begun(r) /\ at[q] \in {"unlink", "rmdir"} /\ DirOf(r) \in Range(stale[q])
               \/ Due(r)',
           Begun(r)' /\ at'[r] \notin {"failed", "dead"} =>
             \/ Due(r)
             \/ DirOf(r) \in Dirs' /\ \A f \in Wrote(at'[r]) : content'[DirOf(r)][f] = r
    PROVE  Survives(r)'
<1>1. Due(r) => Due(r)'
  BY DueGrows DEF Due, DiskInv, DiskTypes
<1>. QED
  BY <1>1 DEF Survives

\* Nothing is newer than a directory that is not there (sandbox.py).
LEMMA NothingNewer ==
    ASSUME logs \in Seq(Dir), NEW d, d \notin Dirs
    PROVE  NewerThan(logs, d) = {}
BY DEF NewerThan, Dirs, Range

\* Nobody writes for another's directory, and the rest is how far r is.
LEMMA SurvivesAside ==
    ASSUME DiskInv, DiskInv', NEW r \in active, NEW p \in active, Survives(r),
           RunTask(p) \/ Keys(p) \/ ListLogs(p) \/ LogDies(p)
    PROVE  Survives(r)'
<1>0. /\ r \in Run /\ p \in Run /\ active \subseteq Run /\ logs \in Seq(Dir)
      /\ stale \in [Run -> Seq(Dir)] /\ at \in [Run -> LogStage]
  BY ActiveTypes DEF DiskInv, DiskTypes
<1>1. UNCHANGED <<case, logs, content, changed>>
  BY DEF RunTask, Keys, ListLogs, LogDies, worldVars, diskVars, traceVars
<1>2. active' = active /\ Dirs' = Dirs /\ DirOf(r)' = DirOf(r)
  BY <1>1 DEF active, DirOf, Dirs
<1>3. PICK there \in {"mkdir", "meta", "sort", "dead"} : at' = [at EXCEPT ![p] = there]
  BY DEF RunTask, Keys, ListLogs, LogDies, LogGoto
<1>4. \A q \in active : at'[q] \in {"unlink", "rmdir"} => stale'[q] = stale[q] /\ at'[q] = at[q]
  BY <1>0, <1>3 DEF RunTask, Keys, ListLogs, LogDies
<1>5. ASSUME ~Begun(r), NEW q \in active PROVE DirOf(r) \notin Range(stale'[q])
  <2>1. CASE stale'[q] = stale[q]
    BY <1>5, <2>1 DEF Survives
  <2>2. CASE stale'[q] = logs
    BY <1>5, <2>2 DEF Survives, Dirs
  <2>3. CASE stale'[q] = <<>>
    <3>1. Range(<<>>) = {}
      BY DEF Range
    <3>. QED
      BY <2>3, <3>1
  <2>4. stale'[q] \in {stale[q], logs, <<>>}
    BY <1>0 DEF RunTask, Keys, ListLogs, LogDies
  <2>. QED
    BY <2>1, <2>2, <2>3, <2>4
<1>6. Begun(r) => Begun(r)'
  BY <1>0, <1>3 DEF RunTask, Keys, ListLogs, LogDies, LogGoto, Begun
<1>7. NewerThan(logs, DirOf(r)) \subseteq changed[r]
  BY <1>0, NothingNewer DEF Survives
<1>8. ASSUME Begun(r)', at'[r] \notin {"failed", "dead"}
      PROVE  Begun(r) /\ at[r] \notin {"failed", "dead"} /\ Wrote(at'[r]) = Wrote(at[r])
  <2>1. CASE p # r
    BY <1>0, <1>3, <1>8, <2>1 DEF Begun
  <2>2. CASE p = r
    <3>1. ~LogDies(r)
      BY <1>0, <1>8 DEF LogDies, LogGoto
    <3>2. \/ at[r] = "task" /\ at'[r] = "mkdir"
          \/ at[r] = "keys" /\ at'[r] = "meta"
          \/ at[r] = "list" /\ at'[r] = "sort"
      BY <1>0, <2>2, <3>1 DEF RunTask, Keys, ListLogs, LogGoto
    <3>. QED
      BY <1>8, <3>2 DEF Begun, Wrote
  <2>. QED
    BY <2>1, <2>2
<1>9. \A q \in active :
        at'[q] \in {"unlink", "rmdir"} /\ DirOf(r) \in Range(stale'[q]) =>
          Begun(r) /\ at[q] \in {"unlink", "rmdir"} /\ DirOf(r) \in Range(stale[q])
  BY <1>4, <1>5
<1>10. Begun(r)' /\ at'[r] \notin {"failed", "dead"} =>
         \/ Due(r)
         \/ DirOf(r) \in Dirs' /\ \A f \in Wrote(at'[r]) : content'[DirOf(r)][f] = r
  BY <1>1, <1>2, <1>8 DEF Survives
<1>11. ~Begun(r)' => ~Begun(r) /\ DirOf(r) \notin Dirs'
  BY <1>2, <1>6 DEF Survives
<1>12. changed[r] \subseteq changed'[r] /\ NewerThan(logs', DirOf(r)) \subseteq changed'[r]
  BY <1>1, <1>7
<1>. QED
  BY <1>0, <1>2, <1>5, <1>9, <1>10, <1>11, <1>12, SurvivesStep

\* Whoever makes its directory makes it the newest.
LEMMA SurvivesMkdir ==
    ASSUME DiskInv, DiskInv', NEW r \in active, NEW p \in active, Alone(r), Survives(r), Mkdir(p)
    PROVE  Survives(r)'
<1>0. /\ r \in Run /\ p \in Run /\ active \subseteq Run /\ at \in [Run -> LogStage]
      /\ logs \in Seq(Dir) /\ IsInjective(logs) /\ changed \in [Run -> SUBSET Dir]
      /\ DirOf(p) \in Dir
  BY ActiveTypes DEF DiskInv, DiskTypes
<1>1. /\ UNCHANGED <<case, content, stale>> /\ at' = [at EXCEPT ![p] = "keys"] /\ at[p] = "mkdir"
      /\ IF DirOf(p) \in Dirs THEN Untouched ELSE Touch(DirOf(p))
  BY DEF Mkdir, LogGoto, worldVars
<1>2. active' = active /\ DirOf(r)' = DirOf(r)
  BY <1>1 DEF active, DirOf
<1>3. /\ Dirs' = Dirs \cup {DirOf(p)} /\ changed[r] \subseteq changed'[r]
      /\ Begun(r) => NewerThan(logs', DirOf(r)) \subseteq changed'[r]
      /\ DirOf(p) \notin Dirs => Touch(DirOf(p))
  <2>1. CASE DirOf(p) \in Dirs
    <3>1. Untouched
      BY <1>1, <2>1
    <3>2. Dirs' = Dirs
      BY <3>1 DEF Untouched, Dirs
    <3>. QED
      BY <2>1, <3>1, <3>2 DEF Untouched, Survives
  <2>2. CASE DirOf(p) \notin Dirs
    <3>1. Touch(DirOf(p))
      BY <1>1, <2>2
    <3>. QED
      BY <1>0, <3>1, TouchedLast DEF Survives, Begun
  <2>. QED
    BY <2>1, <2>2
<1>4. CASE p # r
  <2>1. DirOf(p) # DirOf(r)
    BY <1>4 DEF Alone
  <2>2. at'[r] = at[r] /\ (Begun(r)' <=> Begun(r))
    BY <1>0, <1>1, <1>4 DEF Begun
  <2>3. \A q \in active : at'[q] \in {"unlink", "rmdir"} => at'[q] = at[q]
    BY <1>0, <1>1
  <2>. QED
    BY <1>0, <1>1, <1>2, <1>3, <2>1, <2>2, <2>3, SurvivesStep DEF Survives
<1>5. CASE p = r
  <2>1. ~Begun(r) /\ Begun(r)' /\ at'[r] = "keys" /\ Wrote(at'[r]) = {}
    BY <1>0, <1>1, <1>5 DEF Begun, Wrote
  <2>2. DirOf(r) \notin Dirs /\ \A q \in active : DirOf(r) \notin Range(stale[q])
    BY <2>1 DEF Survives
  <2>3. NewerThan(logs', DirOf(r)) = {}
    BY <1>0, <1>3, <1>5, <2>2, TouchedNewest
  <2>. QED
    BY <1>0, <1>1, <1>2, <1>3, <1>5, <2>1, <2>2, <2>3, SurvivesStep
<1>. QED
  BY <1>4, <1>5

\* It writes its own files, and others touch their own directories
\* (sandbox.py, write_task_log).
LEMMA SurvivesWrite ==
    ASSUME DiskInv, DiskInv', NEW r \in active, NEW p \in active, Alone(r), Survives(r),
           WriteMeta(p) \/ WriteStdout(p) \/ WriteStderr(p)
    PROVE  Survives(r)'
<1> DEFINE d == DirOf(r)
<1>0. /\ r \in Run /\ p \in Run /\ active \subseteq Run /\ at \in [Run -> LogStage]
      /\ logs \in Seq(Dir) /\ IsInjective(logs) /\ changed \in [Run -> SUBSET Dir]
      /\ DirOf(p) \in Dir /\ content \in [Dir -> [File -> Run \cup {NoRun}]] /\ d \in Dir
  BY ActiveTypes DEF DiskInv, DiskTypes
<1>1. PICK name \in File, next \in {"stdout", "stderr", "list"} :
        /\ WriteFile(p, name, next)
        /\ \/ name = "meta" /\ next = "stdout"
           \/ name = "stdout" /\ next = "stderr"
           \/ name = "stderr" /\ next = "list"
  BY DEF WriteMeta, WriteStdout, WriteStderr, File
<1>2. UNCHANGED <<case, stale>> /\ active' = active /\ DirOf(r)' = DirOf(r)
  BY <1>1 DEF WriteFile, worldVars, active, DirOf
<1>3. /\ at[p] = name
      /\ \/ /\ DirOf(p) \in Dirs /\ content' = [content EXCEPT ![DirOf(p)][name] = p]
            /\ at' = [at EXCEPT ![p] = next] /\ (Untouched \/ Touch(DirOf(p)))
         \/ DirOf(p) \notin Dirs /\ at' = [at EXCEPT ![p] = "failed"] /\ Untouched /\ content' = content
  BY <1>1 DEF WriteFile, LogGoto
<1>4. /\ Dirs' = Dirs /\ changed[r] \subseteq changed'[r]
      /\ Begun(r) => NewerThan(logs', d) \subseteq changed'[r]
  <2>1. CASE Untouched
    BY <2>1 DEF Untouched, Dirs, Survives
  <2>2. CASE Touch(DirOf(p)) /\ DirOf(p) \in Dirs
    <3>1. /\ Dirs' = Dirs \cup {DirOf(p)} /\ changed[r] \subseteq changed'[r]
          /\ at[r] \notin {"task", "mkdir"} /\ NewerThan(logs, d) \subseteq changed[r]
             => NewerThan(logs', d) \subseteq changed'[r]
      BY <1>0, <2>2, TouchedLast
    <3>2. Dirs' = Dirs
      BY <2>2, <3>1
    <3>. QED
      BY <3>1, <3>2 DEF Survives, Begun
  <2>. QED
    BY <1>3, <2>1, <2>2
<1>5. \A q \in active : at'[q] \in {"unlink", "rmdir"} => at'[q] = at[q]
  BY <1>0, <1>3
<1>6. Begun(r)' <=> Begun(r)
  BY <1>0, <1>3 DEF Begun, File
<1>7. CASE p # r
  <2>1. DirOf(p) # d
    BY <1>7 DEF Alone
  <2>2. at'[r] = at[r] /\ content'[d] = content[d]
    BY <1>0, <1>3, <1>7, <2>1
  <2>3. Begun(r)' /\ at'[r] \notin {"failed", "dead"} =>
          Due(r) \/ (d \in Dirs' /\ \A f \in Wrote(at'[r]) : content'[d][f] = r)
    BY <1>4, <1>6, <2>2 DEF Survives
  <2>. QED
    BY <1>0, <1>2, <1>4, <1>5, <1>6, <2>3, SurvivesStep DEF Survives
<1>8. CASE p = r
  <2>1. ASSUME at'[r] \notin {"failed", "dead"}
        PROVE  Due(r) \/ (d \in Dirs' /\ \A f \in Wrote(at'[r]) : content'[d][f] = r)
    <3>1. d \in Dirs /\ content' = [content EXCEPT ![d][name] = r] /\ at'[r] = next
      BY <1>0, <1>3, <1>8, <2>1
    <3>2. Wrote(next) = Wrote(name) \cup {name} /\ Wrote(name) \subseteq File
      BY <1>1 DEF Wrote, File
    <3>3. content'[d][name] = r /\ \A f \in File : f # name => content'[d][f] = content[d][f]
      BY <1>0, <3>1
    <3>4. Due(r) \/ \A f \in Wrote(name) : content[d][f] = r
      BY <1>3, <1>8 DEF Survives, Begun, File
    <3>. QED
      BY <1>4, <3>1, <3>2, <3>3, <3>4
  <2>. QED
    BY <1>0, <1>2, <1>4, <1>5, <1>6, <2>1, SurvivesStep DEF Survives
<1>. QED
  BY <1>7, <1>8

\* A pruner finds stale what is due.
LEMMA SurvivesSort ==
    ASSUME DiskInv, DiskInv', NEW r \in active, NEW p \in active, Survives(r), SortLogs(p)
    PROVE  Survives(r)'
<1> DEFINE d == DirOf(r)
           listed == Range(stale[p])
           old == IF ~(listed \subseteq Dirs) THEN <<>> ELSE Stale(listed)
<1>0. /\ r \in Run /\ p \in Run /\ active \subseteq Run /\ at \in [Run -> LogStage]
      /\ logs \in Seq(Dir) /\ IsInjective(logs) /\ stale \in [Run -> Seq(Dir)]
      /\ IsFiniteSet(changed[r])
  BY ActiveTypes DEF DiskInv, DiskTypes
<1>1. /\ stale' = [stale EXCEPT ![p] = old] /\ at[p] = "sort"
      /\ at' = [at EXCEPT ![p] = IF old = <<>> THEN "done" ELSE "unlink"]
      /\ UNCHANGED <<case, logs, content, changed>>
  BY DEF SortLogs, LogGoto, worldVars, diskVars
<1>2. active' = active /\ Dirs' = Dirs /\ DirOf(r)' = DirOf(r)
  BY <1>1 DEF active, DirOf, Dirs
<1>3. Range(old) \subseteq listed /\ (d \in Range(old) /\ Begun(r) => Due(r))
  <2>1. CASE listed \subseteq Dirs
    <3>1. /\ Range(Stale(listed)) \subseteq listed
          /\ d \in Range(Stale(listed)) =>
               \E N \in SUBSET NewerThan(logs, d) : IsFiniteSet(N) /\ Cardinality(N) = Retention
      BY <1>0, <2>1, StaleIs
    <3>2. ASSUME Begun(r), NEW N \in SUBSET NewerThan(logs, d), Cardinality(N) = Retention
          PROVE  Due(r)
      <4>1. N \subseteq changed[r]
        BY <3>2 DEF Survives
      <4>2. Cardinality(N) >= Retention
        BY <3>2, TaskLogAssumption
      <4>. QED
        BY <1>0, <4>1, <4>2, DueGrows DEF Due
    <3>. QED
      BY <2>1, <3>1, <3>2
  <2>2. CASE ~(listed \subseteq Dirs)
    <3>1. Range(<<>>) = {}
      BY DEF Range
    <3>. QED
      BY <2>2, <3>1
  <2>. QED
    BY <2>1, <2>2
<1> HIDE DEF old
<1>4. at'[r] # at[r] => at[r] = "sort" /\ at'[r] \in {"done", "unlink"}
  BY <1>0, <1>1
<1>5. (Begun(r)' <=> Begun(r)) /\ (Begun(r) => Wrote(at'[r]) = Wrote(at[r]))
      /\ (at'[r] \notin {"failed", "dead"} => at[r] \notin {"failed", "dead"})
  BY <1>4 DEF Begun, Wrote
<1>6. \A q \in active : Range(stale'[q]) \subseteq Range(stale[q])
  BY <1>0, <1>1, <1>3
<1>7. ASSUME Begun(r), NEW q \in active, at'[q] \in {"unlink", "rmdir"}, d \in Range(stale'[q])
      PROVE  (at[q] \in {"unlink", "rmdir"} /\ d \in Range(stale[q])) \/ Due(r)'
  <2>1. CASE q = p
    BY <1>0, <1>1, <1>3, <1>7, <2>1 DEF Due
  <2>2. CASE q # p
    BY <1>0, <1>1, <1>7, <2>2
  <2>. QED
    BY <2>1, <2>2
<1>. QED
  BY <1>0, <1>1, <1>2, <1>5, <1>6, <1>7, SurvivesStep DEF Survives

\* A pruner removes what is due, and others keep their place (sandbox.py,
\* _prune_task_logs).
LEMMA SurvivesRemoval ==
    ASSUME DiskInv, DiskInv', NEW r \in active, NEW p \in active, Survives(r),
           Unlink(p) \/ Rmdir(p)
    PROVE  Survives(r)'
<1> DEFINE d == DirOf(r)
           e == Head(stale[p])
<1>0. /\ r \in Run /\ p \in Run /\ active \subseteq Run /\ at \in [Run -> LogStage]
      /\ logs \in Seq(Dir) /\ IsInjective(logs) /\ changed \in [Run -> SUBSET Dir]
      /\ stale \in [Run -> Seq(Dir)] /\ content \in [Dir -> [File -> Run \cup {NoRun}]] /\ d \in Dir
  BY ActiveTypes DEF DiskInv, DiskTypes
<1>1. at[p] \in {"unlink", "rmdir"}
  BY DEF Unlink, Rmdir
<1>2. /\ e \in Dir /\ e \in Range(stale[p])
      /\ Range(stale[p]) = Range(Tail(stale[p])) \cup {e}
  BY <1>0, <1>1, StaleHolds
<1>3. /\ case' = case /\ stale' \in {stale, [stale EXCEPT ![p] = Tail(stale[p])]}
      /\ \E there \in {"unlink", "rmdir", "done"} : at' = [at EXCEPT ![p] = there]
  BY DEF Unlink, Rmdir, LogGoto, worldVars
<1>4. active' = active /\ DirOf(r)' = DirOf(r)
  BY <1>3 DEF active, DirOf
<1>5. \A q \in active : /\ Range(stale'[q]) \subseteq Range(stale[q])
                        /\ at'[q] \in {"unlink", "rmdir"} => at[q] \in {"unlink", "rmdir"}
  BY <1>0, <1>1, <1>2, <1>3
<1>6. (Begun(r)' <=> Begun(r)) /\ (Begun(r) => Wrote(at'[r]) = Wrote(at[r]))
      /\ (at'[r] \notin {"failed", "dead"} => at[r] \notin {"failed", "dead"})
  <2>1. at'[r] # at[r] => at[r] \in {"unlink", "rmdir"} /\ at'[r] \in {"unlink", "rmdir", "done"}
    BY <1>0, <1>1, <1>3
  <2>. QED
    BY <2>1 DEF Begun, Wrote
<1>7. /\ changed[r] \subseteq changed'[r]
      /\ Begun(r) => NewerThan(logs', d) \subseteq changed'[r]
      /\ Dirs' \subseteq Dirs
      /\ e # d => content'[d] = content[d] /\ (d \in Dirs => d \in Dirs')
  <2>1. CASE Unlink(p)
    <3>1. /\ Dirs' = Dirs /\ (Untouched \/ Touch(e))
          /\ content' = [content EXCEPT ![e] = [f \in File |-> NoRun]]
      BY <2>1, DiskUnlink
    <3>2. CASE Untouched
      BY <1>0, <3>1, <3>2 DEF Untouched, Survives
    <3>3. CASE Touch(e)
      BY <1>0, <1>2, <3>1, <3>3, TouchedLast DEF Survives, Begun
    <3>. QED
      BY <3>1, <3>2, <3>3
  <2>2. CASE Rmdir(p)
    <3>1. /\ UNCHANGED <<content, changed>>
          /\ logs' = logs \/ logs' = Only(logs, Dirs \ {e})
      BY <2>2 DEF Rmdir
    <3>2. CASE logs' = logs
      BY <3>1, <3>2 DEF Dirs, Survives
    <3>3. CASE logs' = Only(logs, Dirs \ {e})
      BY <1>0, <3>1, <3>3, RemovedOnly DEF Survives
    <3>. QED
      BY <3>1, <3>2, <3>3
  <2>. QED
    BY <2>1, <2>2
<1>8. Begun(r) /\ e = d => Due(r)
  BY <1>1, <1>2 DEF Survives
<1>9. Begun(r)' /\ at'[r] \notin {"failed", "dead"} =>
        Due(r) \/ (d \in Dirs' /\ \A f \in Wrote(at'[r]) : content'[d][f] = r)
  BY <1>6, <1>7, <1>8 DEF Survives
<1>. QED
  BY <1>0, <1>4, <1>5, <1>6, <1>7, <1>9, SurvivesStep DEF Survives

\* Every step leaves to a log that is alone what it has (sandbox.py).
LEMMA FreshInvariance ==
    ASSUME DiskInv, FreshInv, [LogNext]_logVars
    PROVE  FreshInv'
<1>0. DiskInv'
  BY DiskInvariance
<1>1. CASE EditWorld \/ UNCHANGED logVars
  <2>1. UNCHANGED <<case, at, logs, content, stale, changed>>
    BY <1>1 DEF EditWorld, logVars, worldVars, diskVars, traceVars
  <2>. QED
    BY <2>1 DEF FreshInv, Survives, Alone, Due, Begun, Dirs, DirOf, active
<1>2. ASSUME NEW p \in active, LogStep(p) PROVE FreshInv'
  <2>1. active' = active /\ \A r \in active : Alone(r)' <=> Alone(r)
    BY <1>2 DEF LogStep, RunTask, Mkdir, Keys, WriteMeta, WriteStdout, WriteStderr, WriteFile,
                ListLogs, SortLogs, Unlink, Rmdir, LogDies, worldVars, active, Alone, DirOf
  <2>2. ASSUME NEW r \in active, Alone(r) PROVE Survives(r)'
    <3>1. Survives(r)
      BY <2>2 DEF FreshInv
    <3>. QED
      BY <1>0, <1>2, <2>2, <3>1, SurvivesAside, SurvivesMkdir, SurvivesWrite, SurvivesSort,
         SurvivesRemoval DEF LogStep
  <2>. QED
    BY <2>1, <2>2 DEF FreshInv
<1>. QED
  BY <1>1, <1>2 DEF LogNext

(***************************************************************************)
(* The logs that are kept.                                                 *)
(***************************************************************************)

\* Before its listing an execution will see all there is; then it keeps as many
\* as are kept, and removes the others or has.
Prunes(r) ==
    \/ at[r] \in {"task", "mkdir", "keys", "meta", "stdout", "stderr", "list"}
    \/ at[r] = "sort" /\ Dirs \subseteq Range(stale[r])
    \/ at[r] \in {"unlink", "rmdir", "done"} /\ Cardinality(Dirs \ Range(stale[r])) <= Retention

RetentionInv ==
    /\ active = {} => logs = <<>>
    /\ misses = 0 /\ deaths = 0 /\ active # {} => \E r \in active : Prunes(r)

\* There are as many directories as the sequence is long (sandbox.py).
LEMMA DirsAreCounted ==
    ASSUME logs \in Seq(Dir), IsInjective(logs)
    PROVE  IsFiniteSet(Dirs) /\ Cardinality(Dirs) = Len(logs)
<1>1. Len(logs) \in Nat /\ DOMAIN logs = 1 .. Len(logs)
  OBVIOUS
<1>2. IsFiniteSet(1 .. Len(logs)) /\ Cardinality(1 .. Len(logs)) = Len(logs)
  <2>1. /\ IsFiniteSet(1 .. Len(logs))
        /\ Cardinality(1 .. Len(logs)) = IF 1 > Len(logs) THEN 0 ELSE Len(logs) - 1 + 1
    BY <1>1, FS_Interval
  <2>. QED
    BY <1>1, <2>1
<1> DEFINE f == [k \in 1 .. Len(logs) |-> logs[k]]
<1>3. f \in Bijection(1 .. Len(logs), Dirs)
  BY <1>1 DEF IsInjective, Dirs, Range, Bijection, Injection, Surjection
<1>. QED
  BY <1>2, <1>3, FS_Bijection DEF ExistsBijection

\* Fewer directories are not more to be removed.
LEMMA FewerLeft ==
    ASSUME DiskInv, NEW D, D \subseteq Dirs, NEW R, NEW S, D \ S \subseteq Dirs \ R,
           Cardinality(Dirs \ R) <= Retention
    PROVE  Cardinality(D \ S) <= Retention
<1>1. IsFiniteSet(Dirs \ R)
  BY DirsAreCounted, FS_Subset DEF DiskInv, DiskTypes
<1>2. IsFiniteSet(D \ S) /\ Cardinality(D \ S) <= Cardinality(Dirs \ R)
  BY <1>1, FS_Subset
<1>3. Cardinality(D \ S) \in Nat /\ Cardinality(Dirs \ R) \in Nat
  BY <1>1, <1>2, FS_CardinalityType
<1>. QED
  BY <1>2, <1>3, TaskLogAssumption

\* An execution that does not move keeps its promise while others remove
\* directories (sandbox.py, _prune_task_logs).
LEMMA PrunesOn ==
    ASSUME DiskInv, NEW w \in Run, Prunes(w), at'[w] = at[w], Dirs' \subseteq Dirs,
           stale'[w] = stale[w]
    PROVE  Prunes(w)'
<1>1. Cardinality(Dirs \ Range(stale[w])) <= Retention
        => Cardinality(Dirs' \ Range(stale[w])) <= Retention
  <2>1. Dirs' \ Range(stale[w]) \subseteq Dirs \ Range(stale[w])
    OBVIOUS
  <2>. QED
    BY <2>1, FewerLeft
<1>. QED
  BY <1>1 DEF Prunes

\* The last one to list sees what all the others have made (sandbox.py,
\* _prune_task_logs).
LEMMA RetentionInvariance ==
    ASSUME DiskInv, RetentionInv, [LogNext]_logVars
    PROVE  RetentionInv'
<1>1. CASE EditWorld \/ UNCHANGED logVars
  <2>1. UNCHANGED <<case, at, logs, stale, misses, deaths>>
    BY <1>1 DEF EditWorld, logVars, worldVars, diskVars, traceVars
  <2>. QED
    BY <2>1 DEF RetentionInv, Prunes, Dirs, active
<1>2. ASSUME NEW p \in active, LogStep(p) PROVE RetentionInv'
  <2>1. active' = active
    BY <1>2 DEF LogStep, RunTask, Mkdir, Keys, WriteMeta, WriteStdout, WriteStderr, WriteFile,
                ListLogs, SortLogs, Unlink, Rmdir, LogDies, worldVars, active
  <2>2. ASSUME misses' = 0, deaths' = 0 PROVE \E r \in active : Prunes(r)'
    <3>0. /\ p \in Run /\ active \subseteq Run /\ at \in [Run -> LogStage]
          /\ stale \in [Run -> Seq(Dir)] /\ misses \in Nat /\ deaths \in Nat
          /\ logs \in Seq(Dir) /\ IsInjective(logs)
      BY ActiveTypes DEF DiskInv, DiskTypes
    <3>1. misses = 0 /\ deaths = 0 /\ ~LogDies(p)
      <4>1. misses' \in {misses, misses + 1} /\ deaths' \in {deaths, deaths + 1}
            /\ (LogDies(p) => deaths' = deaths + 1)
        BY <1>2 DEF LogStep, RunTask, Mkdir, Keys, WriteMeta, WriteStdout, WriteStderr, WriteFile,
                    ListLogs, SortLogs, Unlink, Rmdir, LogDies, traceVars
      <4>. QED
        BY <2>2, <3>0, <4>1
    <3>2. PICK w \in active : Prunes(w)
      BY <3>1 DEF RetentionInv
    <3>3. CASE RunTask(p) \/ Mkdir(p) \/ Keys(p) \/ WriteMeta(p) \/ WriteStdout(p) \/ WriteStderr(p)
      <4>1. at'[p] \in {"mkdir", "keys", "meta", "stdout", "stderr", "list"}
        <5>1. CASE RunTask(p) \/ Mkdir(p) \/ Keys(p)
          BY <3>0, <5>1 DEF RunTask, Mkdir, Keys, LogGoto
        <5>2. ASSUME NEW name, NEW next, WriteFile(p, name, next) PROVE at'[p] = next
          BY <2>2, <3>0, <3>1, <5>2 DEF WriteFile, LogGoto
        <5>. QED
          BY <3>3, <5>1, <5>2 DEF WriteMeta, WriteStdout, WriteStderr
      <4>. QED
        BY <4>1 DEF Prunes
    <3>4. CASE ListLogs(p)
      <4>1. at'[p] = "sort" /\ stale'[p] = logs /\ logs' = logs
        BY <3>0, <3>4 DEF ListLogs, LogGoto, diskVars
      <4>. QED
        BY <4>1 DEF Prunes, Dirs
    <3>5. CASE SortLogs(p)
      <4> DEFINE listed == Range(stale[p])
      <4>1. logs' = logs /\ listed \subseteq Dirs
        BY <2>2, <3>1, <3>5 DEF SortLogs, diskVars
      <4>2. Dirs' = Dirs
        BY <4>1 DEF Dirs
      <4>3. CASE w # p
        <5>1. at'[w] = at[w] /\ stale'[w] = stale[w]
          BY <3>0, <3>5, <4>3 DEF SortLogs, LogGoto
        <5>. QED
          BY <3>0, <3>2, <4>2, <5>1, PrunesOn
      <4>4. CASE w = p
        <5>1. listed = Dirs
          BY <3>2, <3>5, <4>1, <4>4 DEF Prunes, SortLogs
        <5>2. stale'[p] = Stale(listed) /\ at'[p] \in {"done", "unlink"}
          BY <3>0, <3>5, <4>1 DEF SortLogs, LogGoto
        <5>3. Cardinality(listed \ Range(Stale(listed))) <= Retention
          BY <3>0, <4>1, StaleIs
        <5>4. Cardinality(Dirs' \ Range(stale'[p])) <= Retention
          BY <4>2, <5>1, <5>2, <5>3
        <5>. QED
          BY <5>2, <5>4 DEF Prunes
      <4>. QED
        BY <4>3, <4>4
    <3>6. CASE Unlink(p)
      <4>1. Dirs' = Dirs /\ stale' = stale /\ at' = [at EXCEPT ![p] = "rmdir"] /\ at[p] = "unlink"
        BY <3>6, DiskUnlink DEF Unlink, LogGoto
      <4>. QED
        BY <3>0, <3>2, <4>1 DEF Prunes
    <3>7. CASE Rmdir(p)
      <4> DEFINE d == Head(stale[p])
      <4>1. logs' = Only(logs, Dirs \ {d})
        BY <2>2, <3>1, <3>7 DEF Rmdir
      <4>2. Dirs' = Dirs \ {d}
        BY <3>0, <4>1, RemovedOnly
      <4>3. CASE w # p
        <5>1. at'[w] = at[w] /\ stale'[w] = stale[w]
          BY <3>0, <3>7, <4>3 DEF Rmdir, LogGoto
        <5>. QED
          BY <3>0, <3>2, <4>2, <5>1, PrunesOn
      <4>4. CASE w = p
        <5>1. /\ stale'[p] = Tail(stale[p]) /\ at[p] = "rmdir" /\ at'[p] \in {"unlink", "done"}
          BY <3>0, <3>7 DEF Rmdir, LogGoto
        <5>2. Range(stale[p]) = Range(Tail(stale[p])) \cup {d}
          BY <3>0, <5>1, StaleHolds
        <5>3. Cardinality(Dirs \ Range(stale[p])) <= Retention
          BY <3>2, <4>4, <5>1 DEF Prunes
        <5>4. Dirs' \ Range(stale'[p]) \subseteq Dirs \ Range(stale[p]) /\ Dirs' \subseteq Dirs
          BY <4>2, <5>1, <5>2
        <5>5. Cardinality(Dirs' \ Range(stale'[p])) <= Retention
          BY <5>3, <5>4, FewerLeft
        <5>. QED
          BY <5>1, <5>5 DEF Prunes
      <4>. QED
        BY <4>3, <4>4
    <3>. QED
      BY <1>2, <3>1, <3>3, <3>4, <3>5, <3>6, <3>7 DEF LogStep
  <2>. QED
    BY <1>2, <2>1, <2>2 DEF RetentionInv
<1>. QED
  BY <1>1, <1>2 DEF LogNext

\* The four invariants hold together (sandbox.py).
LEMMA DiskAlways == LogSpec => [](DiskInv /\ OneWrites /\ FreshInv /\ RetentionInv)
<1>1. ASSUME LogInit PROVE DiskInv /\ OneWrites /\ FreshInv /\ RetentionInv
  <2>0. /\ active \subseteq Run /\ (\A r \in Run : DirOf(r) \in Dir) /\ case \in Cases
        /\ Dirs = {} /\ logs = <<>> /\ Range(<<>>) = {}
    BY <1>1, ActiveTypes DEF LogInit, Dirs, Range
  <2>1. DiskInv
    <3>1. logs \in Seq(Dir) /\ IsInjective(logs)
      BY <2>0 DEF IsInjective
    <3>2. stale \in [Run -> Seq(Dir)] /\ \A r \in Run : stale[r] = <<>>
      <4>1. <<>> \in Seq(Dir)
        OBVIOUS
      <4>. QED
        BY <1>1, <4>1 DEF LogInit
    <3>3. changed \in [Run -> SUBSET Dir] /\ \A r \in Run : IsFiniteSet(changed[r])
      BY <1>1, FS_EmptySet DEF LogInit
    <3>4. at \in [Run -> LogStage] /\ \A r \in Run : at[r] \in {"task", "done"}
      BY <1>1 DEF LogInit, LogStage
    <3>. QED
      BY <1>1, <2>0, <3>1, <3>2, <3>3, <3>4 DEF LogInit, DiskInv, DiskTypes, Listing
  <2>2. OneWrites
    <3>1. \A r \in active : ~Writing(r)
      BY <1>1, <2>0 DEF LogInit, Writing, active
    <3>. QED
      BY <1>1, <3>1 DEF LogInit, OneWrites
  <2>3. FreshInv
    <3>1. \A r \in active : ~Begun(r) /\ stale[r] = <<>>
      BY <1>1, <2>0 DEF LogInit, Begun, active
    <3>. QED
      BY <2>0, <3>1 DEF FreshInv, Survives
  <2>4. RetentionInv
    <3>1. \A r \in active : at[r] = "task"
      BY <1>1, <2>0 DEF LogInit, active
    <3>. QED
      BY <2>0, <3>1 DEF RetentionInv, Prunes
  <2>. QED
    BY <2>1, <2>2, <2>3, <2>4
<1>2. DiskInv /\ OneWrites /\ FreshInv /\ RetentionInv /\ [LogNext]_logVars
        => (DiskInv /\ OneWrites /\ FreshInv /\ RetentionInv)'
  BY DiskInvariance, OneWritesInvariance, FreshInvariance, RetentionInvariance
<1>. QED
  BY <1>1, <1>2, PTL DEF LogSpec

\* "Write a durable forensic artifact for one task": the files of a log are one
\* execution's, for any number of executions, directories and interleavings,
\* unless two wrote at once or one died on the way (sandbox.py, write_task_log).
THEOREM LogsAreOfOneRun == LogSpec => []LogIsOfOneRun
<1>1. ASSUME DiskInv, OneWrites PROVE LogIsOfOneRun
  <2> SUFFICES ASSUME NEW d \in Dirs \ mixed, \A r \in active : DirOf(r) = d => ~Writing(r)
               PROVE  Cardinality(Range(content[d]) \ {NoRun}) <= 1
    BY DEF LogIsOfOneRun
  <2>1. d \in Dir /\ content[d] \in [File -> Run \cup {NoRun}]
    BY <1>1 DEF DiskInv, DiskTypes, Dirs, Range
  <2>2. PICK q \in Run \cup {NoRun} : \A f \in File : content[d][f] \in {q, NoRun}
    BY <1>1, <2>1 DEF OneWrites
  <2>3. Range(content[d]) \ {NoRun} \subseteq {q}
    BY <2>1, <2>2 DEF Range
  <2>4. IsFiniteSet({q}) /\ Cardinality({q}) = 1
    BY FS_Singleton
  <2>. QED
    BY <2>3, <2>4, FS_Subset
<1>. QED
  BY <1>1, DiskAlways, PTL

\* A log whose path was returned is there and whole until as many other
\* directories as are kept changed after it, written or being removed by another
\* process, whoever prunes meanwhile and with whatever old listing (sandbox.py,
\* _prune_task_logs).
THEOREM UnchangedLogsSurvive == LogSpec => []OnlyUnchangedArePruned
<1>1. ASSUME FreshInv PROVE OnlyUnchangedArePruned
  <2>1. Wrote("done") = File
    BY DEF Wrote
  <2>. QED
    BY <1>1, <2>1 DEF FreshInv, OnlyUnchangedArePruned, Intact, Survives, Begun, Due
<1>. QED
  BY <1>1, DiskAlways, PTL

\* No more logs are left than are kept when everyone has returned: if no
\* listing, removal or log failed, the last one to list removed the surplus
\* (sandbox.py, _prune_task_logs).
THEOREM RetentionIsKept == LogSpec => []RetentionHolds
<1>1. ASSUME DiskInv, RetentionInv PROVE RetentionHolds
  <2> SUFFICES ASSUME \A r \in active : at[r] = "done", misses = 0, deaths = 0
               PROVE  Len(logs) <= Retention
    BY DEF RetentionHolds
  <2>1. CASE active = {}
    <3>1. logs = <<>>
      BY <1>1, <2>1 DEF RetentionInv
    <3>. QED
      BY <3>1, TaskLogAssumption
  <2>2. CASE active # {}
    <3>1. PICK r \in active : Prunes(r)
      BY <1>1, <2>2 DEF RetentionInv
    <3>2. stale[r] = <<>> /\ at[r] = "done"
      BY <1>1, <3>1, ActiveTypes DEF DiskInv, DiskTypes, Listing
    <3>3. Dirs \ Range(stale[r]) = Dirs
      BY <3>2 DEF Range
    <3>4. Cardinality(Dirs) <= Retention
      BY <3>1, <3>2, <3>3 DEF Prunes
    <3>. QED
      BY <1>1, <3>4, DirsAreCounted DEF DiskInv, DiskTypes
  <2>. QED
    BY <2>1, <2>2
<1>. QED
  BY <1>1, DiskAlways, PTL

\* The environment of a task has names only (sandbox.py, kart_env).
LEMMA KartEnvNames ==
    ASSUME NEW c \in Config, NEW h \in Host, NEW a
    PROVE  DOMAIN KartEnv(c, h, a) \subseteq Name
<1> DEFINE g == Gathered(c, h, a)
           i == Identified(g, a)
           k == Completed(i, h, a)
<1>1. DOMAIN g \subseteq Name
  BY KartEnvAssumption DEF Gathered, Over, Under, Config, Host
<1> HIDE DEF g
<1>2. DOMAIN i \subseteq Name
  BY <1>1, KartEnvAssumption DEF Identified, Without, Over
<1> HIDE DEF i
<1>3. DOMAIN k \subseteq Name
  BY <1>2, KartEnvAssumption DEF Completed, Under, Over
<1>4. DOMAIN KartEnv(c, h, a) \subseteq DOMAIN k
  BY DEF KartEnv, Without, g, i, k
<1>. QED
  BY <1>3, <1>4

\* The types that the other invariants do without.
RecordTypes ==
    /\ \A r \in Run : DOMAIN handed[r] \subseteq Name /\ keys[r] \subseteq Name
    /\ same \in [Run -> BOOLEAN]
    /\ edits \in 0 .. MaxEdits /\ deaths <= MaxDeaths

\* Every step keeps them (sandbox.py, kart_env, write_task_log).
LEMMA RecordTypesKeep ==
    ASSUME RecordInv, DiskInv, RecordTypes, [LogNext]_logVars
    PROVE  RecordTypes'
<1>0. /\ case.runs \subseteq Run /\ world[1] \in Config /\ world[2] \in Host
      /\ DOMAIN handed = Run /\ DOMAIN keys = Run /\ deaths \in Nat
  BY CaseTypes DEF RecordInv, DiskInv, DiskTypes
<1>1. CASE EditWorld
  <2>1. edits' \in 0 .. MaxEdits
    BY <1>1, TaskLogAssumption DEF EditWorld, RecordTypes
  <2>2. UNCHANGED <<handed, keys, deaths>>
    BY <1>1 DEF EditWorld, traceVars
  <2>3. same' \in [Run -> BOOLEAN]
    <3>1. same' = [r \in Run |-> same[r] /\ at[r] \notin {"mkdir", "keys"}]
      BY <1>1 DEF EditWorld
    <3>. QED
      BY <3>1
  <2>. QED
    BY <2>1, <2>2, <2>3 DEF RecordTypes
<1>2. ASSUME NEW r \in active, LogStep(r) PROVE RecordTypes'
  <2>0. r \in Run
    BY <1>0 DEF active
  <2>1. CASE RunTask(r)
    <3>1. DOMAIN Handed(case.ask[r]) \subseteq Name
      BY <1>0, KartEnvNames DEF Handed
    <3>. QED
      BY <1>0, <2>0, <2>1, <3>1 DEF RunTask, RecordTypes, worldVars, traceVars
  <2>2. CASE Keys(r)
    <3>1. PICK a : keys' = [keys EXCEPT ![r] = DOMAIN Handed(a)]
      BY <2>2 DEF Keys
    <3>2. DOMAIN Handed(a) \subseteq Name
      BY <1>0, KartEnvNames DEF Handed
    <3>3. UNCHANGED <<handed, same, edits, deaths>>
      BY <2>2 DEF Keys, worldVars, traceVars
    <3>. QED
      BY <1>0, <2>0, <3>1, <3>2, <3>3 DEF RecordTypes
  <2>3. CASE LogDies(r)
    <3>1. deaths' <= MaxDeaths
      BY <1>0, <2>3, TaskLogAssumption DEF LogDies
    <3>2. UNCHANGED <<handed, keys, same, edits>>
      BY <2>3 DEF LogDies, worldVars, recordVars
    <3>. QED
      BY <3>1, <3>2 DEF RecordTypes
  <2>4. CASE ~RunTask(r) /\ ~Keys(r) /\ ~LogDies(r)
    <3>1. UNCHANGED <<handed, keys, same, edits, deaths>>
      BY <1>2, <2>4 DEF LogStep, Mkdir, WriteMeta, WriteStdout, WriteStderr, WriteFile, ListLogs,
                        SortLogs, Unlink, Rmdir, worldVars, recordVars, traceVars
    <3>. QED
      BY <3>1 DEF RecordTypes
  <2>. QED
    BY <2>1, <2>2, <2>3, <2>4
<1>3. CASE UNCHANGED logVars
  BY <1>3 DEF logVars, worldVars, recordVars, traceVars, RecordTypes
<1>. QED
  BY <1>1, <1>2, <1>3 DEF LogNext

\* The types of the environments and the logs are kept, a directory is listed
\* once, and what a log names are names (sandbox.py, write_task_log).
THEOREM LogTypeCorrect == LogSpec => []LogTypeOK
<1>1. ASSUME LogInit PROVE RecordTypes
  BY <1>1, TaskLogAssumption DEF LogInit, RecordTypes, NoEnv
<1>2. RecordInv /\ DiskInv /\ RecordTypes /\ [LogNext]_logVars => RecordTypes'
  BY RecordTypesKeep
<1>3. RecordInv /\ DiskInv /\ RecordTypes => LogTypeOK
  <2>1. ASSUME RecordTypes, DiskInv PROVE deaths \in 0 .. MaxDeaths
    BY <2>1, TaskLogAssumption DEF RecordTypes, DiskInv, DiskTypes
  <2>. QED
    BY <2>1 DEF RecordInv, DiskInv, DiskTypes, RecordTypes, LogTypeOK
<1>. QED
  BY <1>1, <1>2, <1>3, Always, DiskAlways, PTL DEF LogSpec

(***************************************************************************)
(* The lines of the ledger.                                                *)
(***************************************************************************)

\* The lines when cell i of f comes to those before it, ls.
WithCell(ls, f, i) ==
    IF i = 1 \/ IsEnd(f[i - 1]) THEN Append(ls, <<f[i]>>)
    ELSE [ls EXCEPT ![Len(ls)] = Append(@, f[i])]

\* What Lines goes through: g[i] is the lines of the first i cells.
Splitting(g, f, n) == g = [i \in 0 .. n |-> IF i = 0 THEN <<>> ELSE WithCell(g[i - 1], f, i)]

\* What FlattenSeq goes through.
Flattening(g, s, n) == g = [i \in 1 .. n |-> IF i = 1 THEN s[i] ELSE g[i - 1] \o s[i]]

\* Such a function, at one place.
LEMMA FlatteningAt ==
    ASSUME NEW g, NEW s, NEW n, Flattening(g, s, n), NEW i \in 1 .. n
    PROVE  g[i] = IF i = 1 THEN s[i] ELSE g[i - 1] \o s[i]
BY DEF Flattening

\* There is such a function, for any length.
LEMMA SplittingExists ==
    ASSUME NEW f, NEW n \in Nat
    PROVE  \E g : Splitting(g, f, n)
<1> DEFINE B == {k \in Nat : ~ \E g : Splitting(g, f, k)}
<1> SUFFICES ASSUME B # {} PROVE FALSE
  OBVIOUS
<1>1. PICK k \in B : \A j \in B : k <= j
  BY Smallest
<1>2. k # 0
  <2>1. Splitting([i \in 0 .. 0 |-> <<>>], f, 0)
    BY DEF Splitting
  <2>. QED
    BY <1>1, <2>1
<1>3. k \in Nat /\ k - 1 \in Nat /\ ~(k <= k - 1)
  BY <1>1, <1>2
<1>4. k - 1 \notin B
  BY <1>1, <1>3
<1>5. PICK g : Splitting(g, f, k - 1)
  BY <1>3, <1>4
<1> DEFINE h == [i \in 0 .. k |-> IF i < k THEN g[i] ELSE WithCell(g[i - 1], f, i)]
<1>6. ASSUME NEW i \in 0 .. k
      PROVE  h[i] = IF i = 0 THEN <<>> ELSE WithCell(h[i - 1], f, i)
  <2>1. CASE i < k
    <3>1. i \in 0 .. k - 1 /\ h[i] = g[i]
      BY <1>3, <2>1
    <3>2. i # 0 => i - 1 \in 0 .. k /\ i - 1 < k /\ h[i - 1] = g[i - 1]
      BY <1>3, <2>1
    <3>3. g[i] = IF i = 0 THEN <<>> ELSE WithCell(g[i - 1], f, i)
      BY <1>5, <3>1 DEF Splitting
    <3>. QED
      BY <3>1, <3>2, <3>3
  <2>2. CASE i = k
    BY <1>2, <1>3, <2>2
  <2>. QED
    BY <1>3, <2>1, <2>2
<1>. QED
  BY <1>1, <1>6 DEF Splitting

\* Lines returns the last value of one (scan_ledger.py, _append_bounded).
LEMMA LinesAreSplit ==
    ASSUME NEW D, NEW f \in Seq(D)
    PROVE  \E g : Splitting(g, f, Len(f)) /\ Lines(f) = g[Len(f)]
<1> DEFINE g == CHOOSE g : Splitting(g, f, Len(f))
<1>1. Splitting(g, f, Len(f))
  BY SplittingExists
<1>2. Lines(f) = g[Len(f)]
  BY DEF Lines, Splitting, WithCell
<1>. QED
  BY <1>1, <1>2

\* There is such a function, for any length.
LEMMA FlatteningExists ==
    ASSUME NEW s, NEW n \in Nat
    PROVE  \E g : Flattening(g, s, n)
<1> DEFINE B == {k \in Nat : ~ \E g : Flattening(g, s, k)}
<1> SUFFICES ASSUME B # {} PROVE FALSE
  OBVIOUS
<1>1. PICK k \in B : \A j \in B : k <= j
  BY Smallest
<1>2. k # 0
  <2>1. Flattening([i \in 1 .. 0 |-> <<>>], s, 0)
    BY DEF Flattening
  <2>. QED
    BY <1>1, <2>1
<1>3. k \in Nat /\ k - 1 \in Nat /\ ~(k <= k - 1)
  BY <1>1, <1>2
<1>4. k - 1 \notin B
  BY <1>1, <1>3
<1>5. PICK g : Flattening(g, s, k - 1)
  BY <1>3, <1>4
<1> DEFINE h == [i \in 1 .. k |-> IF i < k THEN g[i] ELSE IF i = 1 THEN s[i] ELSE g[i - 1] \o s[i]]
<1>6. ASSUME NEW i \in 1 .. k
      PROVE  h[i] = IF i = 1 THEN s[i] ELSE h[i - 1] \o s[i]
  <2>0. i # 1 => i - 1 \in 1 .. k /\ i - 1 < k /\ h[i - 1] = g[i - 1]
    BY <1>3
  <2>1. CASE i < k
    <3>1. i \in 1 .. k - 1 /\ h[i] = g[i]
      BY <1>3, <2>1
    <3>2. g[i] = IF i = 1 THEN s[i] ELSE g[i - 1] \o s[i]
      BY <1>5, <3>1 DEF Flattening
    <3>. QED
      BY <2>0, <3>1, <3>2
  <2>2. CASE i = k
    BY <1>2, <1>3, <2>0, <2>2
  <2>. QED
    BY <1>3, <2>1, <2>2
<1>7. h = [i \in 1 .. k |-> h[i]]
  OBVIOUS
<1> HIDE DEF h
<1>8. Flattening(h, s, k)
  BY <1>6, <1>7 DEF Flattening
<1>. QED
  BY <1>1, <1>8

\* FlattenSeq returns the last value of one (scan_ledger.py, _append_bounded).
LEMMA FlatIsFlattened ==
    ASSUME NEW E, NEW s \in Seq(E), s # <<>>
    PROVE  \E g : Flattening(g, s, Len(s)) /\ FlattenSeq(s) = g[Len(s)]
<1> DEFINE g == CHOOSE g : Flattening(g, s, Len(s))
<1>2. Len(s) # 0 /\ Len(s) \in Nat
  OBVIOUS
<1>1. Flattening(g, s, Len(s))
  BY <1>2, FlatteningExists
<1>3. FlattenSeq(s) = g[Len(s)]
  BY <1>2 DEF FlattenSeq, Flattening
<1>. QED
  BY <1>1, <1>3

\* The lines of a text depend on nothing that comes later.
LEMMA SplittingAgrees ==
    ASSUME NEW m \in Nat, NEW n \in Nat, m <= n, NEW e, NEW f, NEW g, NEW h,
           Splitting(g, e, n), Splitting(h, f, m), \A i \in 1 .. m : e[i] = f[i]
    PROVE  g[m] = h[m]
<1> DEFINE B == {i \in 0 .. m : g[i] # h[i]}
<1>1. ASSUME B # {} PROVE FALSE
  <2>1. PICK i \in B : \A j \in B : i <= j
    <3>1. B \subseteq Nat
      OBVIOUS
    <3> HIDE DEF B
    <3>. QED
      BY <1>1, <3>1, Smallest
  <2>2. i \in 0 .. m /\ i \in 0 .. n /\ i \in Nat /\ g[i] # h[i]
    BY <2>1
  <2>3. /\ g[i] = IF i = 0 THEN <<>> ELSE WithCell(g[i - 1], e, i)
        /\ h[i] = IF i = 0 THEN <<>> ELSE WithCell(h[i - 1], f, i)
    BY <2>2 DEF Splitting
  <2>4. i # 0
    BY <2>2, <2>3
  <2>5. i - 1 \in 0 .. m /\ ~(i <= i - 1) /\ i \in 1 .. m /\ (i = 1 \/ i - 1 \in 1 .. m)
    BY <2>2, <2>4
  <2>6. g[i - 1] = h[i - 1]
    BY <2>1, <2>5
  <2>7. WithCell(g[i - 1], e, i) = WithCell(h[i - 1], f, i)
    BY <2>5, <2>6 DEF WithCell
  <2>. QED
    BY <2>2, <2>3, <2>4, <2>7
<1>. QED
  BY <1>1

\* What is put together depends on nothing that comes later.
LEMMA FlatteningAgrees ==
    ASSUME NEW m \in Nat \ {0}, NEW n \in Nat, m <= n, NEW s, NEW t, NEW g, NEW h,
           Flattening(g, s, n), Flattening(h, t, m), \A i \in 1 .. m : s[i] = t[i]
    PROVE  g[m] = h[m]
<1> DEFINE B == {i \in 1 .. m : g[i] # h[i]}
<1>1. ASSUME B # {} PROVE FALSE
  <2>1. PICK i \in B : \A j \in B : i <= j
    <3>1. B \subseteq Nat
      OBVIOUS
    <3> HIDE DEF B
    <3>. QED
      BY <1>1, <3>1, Smallest
  <2>2. i \in 1 .. m /\ i \in 1 .. n /\ i \in Nat /\ g[i] # h[i]
    BY <2>1
  <2>3. /\ g[i] = IF i = 1 THEN s[i] ELSE g[i - 1] \o s[i]
        /\ h[i] = IF i = 1 THEN t[i] ELSE h[i - 1] \o t[i]
    BY <2>2 DEF Flattening
  <2>4. i # 1 => i - 1 \in 1 .. m /\ ~(i <= i - 1)
    BY <2>2
  <2>5. i # 1 => g[i - 1] = h[i - 1]
    BY <2>1, <2>4
  <2>. QED
    BY <2>2, <2>3, <2>5
<1>. QED
  BY <1>1

\* One more part comes at the end (scan_ledger.py, _append_bounded).
LEMMA FlattenAppend ==
    ASSUME NEW E, NEW s \in Seq(E), NEW x \in E
    PROVE  FlattenSeq(Append(s, x)) = IF s = <<>> THEN x ELSE FlattenSeq(s) \o x
<1> DEFINE t == Append(s, x)
           n == Len(s)
<1>1. /\ t \in Seq(E) /\ t # <<>> /\ Len(t) = n + 1 /\ n \in Nat /\ t[n + 1] = x
      /\ \A i \in 1 .. n : t[i] = s[i]
      /\ s # <<>> => n # 0
      /\ s = <<>> => n = 0
  OBVIOUS
<1> HIDE DEF t, n
<1>2. PICK g : Flattening(g, t, n + 1) /\ FlattenSeq(t) = g[n + 1]
  BY <1>1, FlatIsFlattened
<1> DEFINE l == n + 1
<1>3. l \in 1 .. n + 1 /\ l = n + 1 /\ l - 1 = n /\ (s = <<>> => l = 1) /\ (s # <<>> => l # 1)
  BY <1>1
<1> HIDE DEF l
<1>4. g[l] = IF l = 1 THEN t[l] ELSE g[l - 1] \o t[l]
  BY <1>2, <1>3, FlatteningAt
<1>5. FlattenSeq(t) = g[l] /\ t[l] = x
  BY <1>1, <1>2, <1>3
<1>6. CASE s = <<>>
  <2>1. FlattenSeq(t) = x
    BY <1>3, <1>4, <1>5, <1>6
  <2>. QED
    BY <1>6, <2>1 DEF t
<1>7. CASE s # <<>>
  <2>1. PICK h : Flattening(h, s, n) /\ FlattenSeq(s) = h[n]
    BY <1>7, FlatIsFlattened DEF n
  <2>2. n \in Nat \ {0} /\ n + 1 \in Nat /\ n <= n + 1
    BY <1>1, <1>7
  <2>3. g[n] = h[n]
    BY <1>1, <1>2, <2>1, <2>2, FlatteningAgrees
  <2>4. FlattenSeq(t) = FlattenSeq(s) \o x
    BY <1>3, <1>4, <1>5, <1>7, <2>1, <2>3
  <2>. QED
    BY <1>7, <2>4 DEF t
<1>. QED
  BY <1>6, <1>7

\* A line ends once, at its end.
IsLine(x) == x # <<>> /\ \A j \in 1 .. Len(x) : IsEnd(x[j]) <=> j = Len(x)

\* A text that is empty or ends with a newline.
Ended(f) == f # <<>> => IsEnd(f[Len(f)])

\* An empty ledger has no lines (scan_ledger.py, _append_bounded).
LEMMA NoLines == Lines(<<>>) = <<>>
<1>1. <<>> \in Seq(Cell) /\ Len(<<>>) = 0
  OBVIOUS
<1>2. PICK g : Splitting(g, <<>>, 0) /\ Lines(<<>>) = g[0]
  BY <1>1, LinesAreSplit
<1>. QED
  BY <1>2 DEF Splitting

\* The last element, and another one in its place.
LEMMA LastReplaced ==
    ASSUME NEW E, NEW l \in Seq(E), NEW y \in E, NEW z \in E
    PROVE  /\ Append(l, y)[Len(Append(l, y))] = y
           /\ [Append(l, y) EXCEPT ![Len(Append(l, y))] = z] = Append(l, z)
<1> DEFINE a == Append(l, y)
           b == [a EXCEPT ![Len(a)] = z]
           c == Append(l, z)
<1>1. /\ a \in Seq(E) /\ Len(a) = Len(l) + 1 /\ a[Len(a)] = y /\ Len(l) \in Nat
      /\ DOMAIN a = 1 .. Len(l) + 1 /\ \A k \in 1 .. Len(l) : a[k] = l[k]
  OBVIOUS
<1>2. /\ c \in Seq(E) /\ c[Len(l) + 1] = z /\ DOMAIN c = 1 .. Len(l) + 1
      /\ \A k \in 1 .. Len(l) : c[k] = l[k]
  OBVIOUS
<1> HIDE DEF a, c
<1>3. b = [k \in 1 .. Len(l) + 1 |-> IF k = Len(l) + 1 THEN z ELSE a[k]]
  BY <1>1
<1>4. c = [k \in 1 .. Len(l) + 1 |-> c[k]]
  BY <1>2
<1>5. \A k \in 1 .. Len(l) + 1 : c[k] = IF k = Len(l) + 1 THEN z ELSE a[k]
  BY <1>1, <1>2
<1>6. b = c
  BY <1>3, <1>4, <1>5
<1>. QED
  BY <1>1, <1>6 DEF a, c

\* A line that is appended to a text that ends with a newline is one more line
\* (scan_ledger.py, _append_bounded).
LEMMA LineAppended ==
    ASSUME NEW D, NEW f \in Seq(D), NEW x \in Seq(D), Ended(f), IsLine(x),
           Lines(f) \in Seq(Seq(D))
    PROVE  Lines(f \o x) = Append(Lines(f), x)
<1> DEFINE e == f \o x
           n == Len(f)
           m == Len(x)
           l == Lines(f)
           First(j) == [k \in 1 .. j |-> x[k]]
<1>1. /\ n \in Nat /\ m \in Nat \ {0} /\ e \in Seq(D) /\ Len(e) = n + m /\ First(m) = x
      /\ \A i \in 1 .. n : e[i] = f[i]
      /\ \A j \in 1 .. m : e[n + j] = x[j]
      /\ f # <<>> <=> n # 0
  BY DEF IsLine
<1>2. \A j \in 1 .. m : First(j) \in Seq(D)
  <2> TAKE j \in 1 .. m
  <2>1. \A k \in 1 .. j : x[k] \in D
    BY <1>1
  <2>. QED
    BY <2>1
<1> HIDE DEF e, n, m, l
<1>3. PICK g : Splitting(g, e, n + m) /\ Lines(e) = g[n + m]
  BY <1>1, LinesAreSplit
<1>4. PICK h : Splitting(h, f, n) /\ l = h[n]
  BY LinesAreSplit DEF n, l
<1>5. g[n] = l
  <2>1. n <= n + m /\ n + m \in Nat
    BY <1>1
  <2>. QED
    BY <1>1, <1>3, <1>4, <2>1, SplittingAgrees
<1>6. \A i \in 1 .. n + m : g[i] = WithCell(g[i - 1], e, i)
  BY <1>1, <1>3 DEF Splitting
<1> DEFINE B == {j \in 1 .. m : g[n + j] # Append(l, First(j))}
<1>7. ASSUME B # {} PROVE FALSE
  <2>1. PICK j \in B : \A k \in B : j <= k
    <3>1. B \subseteq Nat
      OBVIOUS
    <3> HIDE DEF B
    <3>. QED
      BY <1>7, <3>1, Smallest
  <2>2. j \in 1 .. m /\ j \in Nat /\ g[n + j] # Append(l, First(j))
    BY <1>1, <2>1
  <2>3. PICK i : i = n + j /\ i - 1 = n + (j - 1)
    BY <1>1, <2>2
  <2>4. i \in 1 .. n + m /\ i \in Nat
    BY <1>1, <2>2, <2>3
  <2>5. g[i] = WithCell(g[i - 1], e, i) /\ e[i] = x[j]
    BY <1>1, <1>6, <2>2, <2>3, <2>4
  <2>6. CASE j = 1
    <3>1. i = n + 1 /\ i - 1 = n
      BY <1>1, <2>3, <2>6
    <3>2. i = 1 \/ IsEnd(e[i - 1])
      <4>1. CASE n = 0
        BY <3>1, <4>1
      <4>2. CASE n # 0
        <5>1. n \in 1 .. n /\ e[n] = f[n]
          BY <1>1, <4>2
        <5>2. IsEnd(f[n])
          BY <1>1, <4>2 DEF Ended, n
        <5>. QED
          BY <3>1, <5>1, <5>2
      <4>. QED
        BY <4>1, <4>2
    <3>3. g[i] = Append(l, <<x[1]>>)
      BY <1>5, <2>5, <2>6, <3>1, <3>2 DEF WithCell
    <3>4. First(1) = <<x[1]>>
      OBVIOUS
    <3>. QED
      BY <2>2, <2>3, <2>6, <3>3, <3>4
  <2>7. CASE j # 1
    <3>1. j - 1 \in 1 .. m /\ ~(j <= j - 1) /\ j - 1 # m
      BY <1>1, <2>2, <2>7
    <3>2. g[i - 1] = Append(l, First(j - 1))
      BY <2>1, <2>3, <3>1
    <3>3. i # 1 /\ ~IsEnd(e[i - 1])
      <4>1. e[i - 1] = x[j - 1]
        BY <1>1, <2>3, <3>1
      <4>2. ~IsEnd(x[j - 1])
        BY <3>1 DEF IsLine, m
      <4>. QED
        BY <1>1, <2>2, <2>3, <2>7, <4>1, <4>2
    <3> DEFINE y == First(j - 1)
               a == Append(l, y)
    <3>4. y \in Seq(D) /\ Append(y, x[j]) = First(j)
      <4>1. y \in Seq(D) /\ Len(y) = j - 1 /\ \A k \in 1 .. j - 1 : y[k] = x[k]
        BY <1>2, <2>2, <3>1
      <4> HIDE DEF y
      <4>2. x[j] \in D
        BY <2>2 DEF m
      <4>3. /\ Append(y, x[j]) \in Seq(D) /\ Len(Append(y, x[j])) = j
            /\ \A k \in 1 .. j : Append(y, x[j])[k] = x[k]
        BY <2>2, <4>1, <4>2
      <4>4. Append(y, x[j]) = [k \in 1 .. j |-> Append(y, x[j])[k]]
        BY <4>3
      <4>5. [k \in 1 .. j |-> Append(y, x[j])[k]] = [k \in 1 .. j |-> x[k]]
        BY <4>3
      <4>. QED
        BY <4>1, <4>4, <4>5
    <3> HIDE DEF y, First
    <3>5. l \in Seq(Seq(D))
      BY DEF l
    <3>6. a[Len(a)] = y /\ \A z \in Seq(D) : [a EXCEPT ![Len(a)] = z] = Append(l, z)
      BY <3>4, <3>5, LastReplaced
    <3>7. g[i - 1] = a
      BY <3>2 DEF y
    <3> HIDE DEF a
    <3>8. g[i] = [a EXCEPT ![Len(a)] = Append(@, x[j])]
      BY <2>5, <3>3, <3>7 DEF WithCell
    <3>9. g[i] = Append(l, First(j))
      BY <1>2, <2>2, <3>4, <3>6, <3>8
    <3>. QED
      BY <2>2, <2>3, <3>9
  <2>. QED
    BY <2>6, <2>7
<1>8. g[n + m] = Append(l, First(m))
  <2>1. m \in 1 .. m
    BY <1>1
  <2> HIDE DEF First
  <2>. QED
    BY <1>7, <2>1
<1>. QED
  BY <1>1, <1>3, <1>8 DEF e, l

\* The lines of lines that were put together are these lines.
LEMMA FlatSplits ==
    ASSUME NEW D, NEW s \in Seq(Seq(D)), \A k \in 1 .. Len(s) : IsLine(s[k])
    PROVE  /\ FlattenSeq(s) \in Seq(D) /\ Ended(FlattenSeq(s))
           /\ Lines(FlattenSeq(s)) = s
<1> DEFINE First(j) == [k \in 1 .. j |-> s[k]]
           Good(j) == LET t == FlattenSeq(First(j))
                      IN t \in Seq(D) /\ Ended(t) /\ Lines(t) = First(j)
           n == Len(s)
           B == {j \in 0 .. n : ~Good(j)}
<1>1. n \in Nat /\ First(n) = s
  OBVIOUS
<1>2. \A j \in 0 .. n : First(j) \in Seq(Seq(D)) /\ Len(First(j)) = j
  <2> TAKE j \in 0 .. n
  <2>1. \A k \in 1 .. j : s[k] \in Seq(D)
    OBVIOUS
  <2>. QED
    BY <2>1
<1>3. ASSUME B # {} PROVE FALSE
  <2>1. PICK j \in B : \A k \in B : j <= k
    <3>1. B \subseteq Nat
      OBVIOUS
    <3> HIDE DEF B
    <3>. QED
      BY <1>3, <3>1, Smallest
  <2>2. j \in 0 .. n /\ ~Good(j)
    BY <2>1
  <2>3. CASE j = 0
    <3>1. First(j) = <<>>
      BY <2>3
    <3>2. FlattenSeq(<<>>) = <<>>
      BY DEF FlattenSeq
    <3>3. Good(j)
      <4> HIDE DEF First
      <4>1. <<>> \in Seq(D) /\ Ended(<<>>)
        BY DEF Ended
      <4>. QED
        BY <3>1, <3>2, <4>1, NoLines
    <3>. QED
      BY <2>2, <3>3
  <2>4. CASE j # 0
    <3>1. j - 1 \in 0 .. n /\ ~(j <= j - 1) /\ j \in 1 .. n
      BY <2>2, <2>4
    <3>2. Good(j - 1)
      BY <2>1, <3>1
    <3> DEFINE p == First(j - 1)
               t == FlattenSeq(p)
               x == s[j]
    <3>3. p \in Seq(Seq(D)) /\ Len(p) = j - 1 /\ (p = <<>> <=> j = 1)
      <4>1. p \in Seq(Seq(D)) /\ Len(p) = j - 1
        BY <1>2, <3>1
      <4> HIDE DEF p
      <4>. QED
        BY <3>1, <4>1
    <3>4. x \in Seq(D) /\ IsLine(x)
      BY <3>1
    <3>5. First(j) = Append(p, x)
      <4>1. \A k \in 1 .. j - 1 : p[k] = s[k]
        OBVIOUS
      <4> HIDE DEF p
      <4>2. /\ Append(p, x) \in Seq(Seq(D)) /\ Len(Append(p, x)) = j
            /\ \A k \in 1 .. j : Append(p, x)[k] = s[k]
        BY <3>1, <3>3, <3>4, <4>1
      <4>3. Append(p, x) = [k \in 1 .. j |-> Append(p, x)[k]]
        BY <4>2
      <4>. QED
        BY <4>2, <4>3
    <3>6. t \in Seq(D) /\ Ended(t) /\ Lines(t) = p
      BY <3>2
    <3> HIDE DEF First, p, x
    <3>7. FlattenSeq(First(j)) = t \o x
      <4>1. FlattenSeq(First(j)) = IF p = <<>> THEN x ELSE t \o x
        BY <3>3, <3>4, <3>5, FlattenAppend
      <4>2. p = <<>> => t = <<>>
        BY DEF FlattenSeq
      <4>3. <<>> \o x = x
        BY <3>4
      <4>. QED
        BY <4>1, <4>2, <4>3
    <3>8. t \o x \in Seq(D) /\ Ended(t \o x)
      <4> HIDE DEF t
      <4>1. /\ t \o x \in Seq(D) /\ Len(t \o x) = Len(t) + Len(x) /\ Len(x) \in 1 .. Len(x)
            /\ (t \o x)[Len(t) + Len(x)] = x[Len(x)]
        BY <3>4, <3>6 DEF IsLine
      <4>. QED
        BY <3>4, <4>1 DEF Ended, IsLine
    <3>9. Lines(t \o x) = First(j)
      BY <3>3, <3>4, <3>5, <3>6, LineAppended
    <3>. QED
      BY <2>2, <3>7, <3>8, <3>9
  <2>. QED
    BY <2>3, <2>4
<1>4. Good(n)
  <2>1. n \in 0 .. n
    BY <1>1
  <2> HIDE DEF Good
  <2>. QED
    BY <1>3, <2>1
<1>. QED
  BY <1>1, <1>4


\* One element more, and another one in a place.
LEMMA OneMore ==
    ASSUME NEW E, NEW s \in Seq(E), NEW x \in E
    PROVE  /\ Append(s, x) \in Seq(E) /\ Len(Append(s, x)) = Len(s) + 1 /\ Append(s, x) # <<>>
           /\ Append(s, x)[Len(s) + 1] = x
           /\ \A k \in 1 .. Len(s) : Append(s, x)[k] = s[k]
OBVIOUS

LEMMA OneElse ==
    ASSUME NEW E, NEW s \in Seq(E), NEW i \in 1 .. Len(s), NEW x \in E
    PROVE  /\ [s EXCEPT ![i] = x] \in Seq(E) /\ Len([s EXCEPT ![i] = x]) = Len(s)
           /\ [s EXCEPT ![i] = x] # <<>>
           /\ [s EXCEPT ![i] = x][i] = x
           /\ \A k \in 1 .. Len(s) : k # i => [s EXCEPT ![i] = x][k] = s[k]
OBVIOUS

LEMMA Same ==
    ASSUME NEW E, NEW s \in Seq(E), NEW i
    PROVE  [s EXCEPT ![i] = s[i]] = s
OBVIOUS

LEMMA LastIn ==
    ASSUME NEW E, NEW s \in Seq(E), s # <<>>
    PROVE  Len(s) \in Nat \ {0} /\ Len(s) \in 1 .. Len(s) /\ s[Len(s)] \in E
OBVIOUS

\* The last n elements.
LEMMA LastOnes ==
    ASSUME NEW E, NEW s \in Seq(E), NEW n \in Nat, n < Len(s),
           NEW t, t = SubSeq(s, Len(s) - n + 1, Len(s))
    PROVE  t \in Seq(E) /\ Len(t) = n /\ \A k \in 1 .. n : t[k] = s[Len(s) - n + k]
OBVIOUS

\* The last cell of lines.
LastCell(ls) == ls[Len(ls)][Len(ls[Len(ls)])]

\* The lines of the first i cells of f: only the last one may not have ended.
SomeLines(D, ls, f, i) ==
    /\ ls \in Seq(Seq(D))
    /\ \A k \in 1 .. Len(ls) :
         /\ ls[k] # <<>>
         /\ \A j \in 1 .. Len(ls[k]) - 1 : ~IsEnd(ls[k][j])
         /\ k < Len(ls) => IsEnd(ls[k][Len(ls[k])])
    /\ i = 0 => ls = <<>>
    /\ i # 0 => ls # <<>> /\ LastCell(ls) = f[i]

\* One cell more (scan_ledger.py, _append_bounded).
LEMMA SomeLinesGrow ==
    ASSUME NEW D, NEW f \in Seq(D), NEW i \in 1 .. Len(f), NEW ls, SomeLines(D, ls, f, i - 1)
    PROVE  SomeLines(D, WithCell(ls, f, i), f, i)
<1>1. /\ i # 0 /\ f[i] \in D /\ ls \in Seq(Seq(D)) /\ Len(ls) \in Nat
      /\ i = 1 => ls = <<>>
      /\ i # 1 => ls # <<>> /\ LastCell(ls) = f[i - 1]
  BY DEF SomeLines
<1>2. \A k \in 1 .. Len(ls) :
         /\ ls[k] \in Seq(D) /\ ls[k] # <<>>
         /\ \A j \in 1 .. Len(ls[k]) - 1 : ~IsEnd(ls[k][j])
         /\ k < Len(ls) => IsEnd(ls[k][Len(ls[k])])
  BY <1>1 DEF SomeLines
<1>3. CASE i = 1 \/ IsEnd(f[i - 1])
  <2> DEFINE x == <<f[i]>>
             t == Append(ls, x)
  <2>1. x \in Seq(D) /\ x # <<>> /\ Len(x) = 1 /\ x[1] = f[i]
    BY <1>1
  <2> HIDE DEF x
  <2>2. /\ t \in Seq(Seq(D)) /\ Len(t) = Len(ls) + 1 /\ t # <<>> /\ t[Len(ls) + 1] = x
        /\ \A k \in 1 .. Len(ls) : t[k] = ls[k]
    <3> DEFINE E == Seq(D)
    <3>1. ls \in Seq(E) /\ x \in E
      BY <1>1, <2>1
    <3> HIDE DEF E
    <3>2. /\ t \in Seq(E) /\ Len(t) = Len(ls) + 1 /\ t # <<>> /\ t[Len(ls) + 1] = x
          /\ \A k \in 1 .. Len(ls) : t[k] = ls[k]
      BY <3>1, OneMore
    <3>. QED
      BY <3>2 DEF E
  <2>3. WithCell(ls, f, i) = t
    BY <1>3 DEF WithCell, x
  <2> HIDE DEF t
  <2>4. ASSUME NEW k \in 1 .. Len(t)
        PROVE  /\ t[k] # <<>>
               /\ \A j \in 1 .. Len(t[k]) - 1 : ~IsEnd(t[k][j])
               /\ k < Len(t) => IsEnd(t[k][Len(t[k])])
    <3>1. CASE k = Len(ls) + 1
      <4>1. t[k] = x /\ ~(k < Len(t)) /\ Len(x) - 1 = 0
        BY <1>1, <2>1, <2>2, <3>1
      <4>2. \A j : j \notin 1 .. 0
        OBVIOUS
      <4>. QED
        BY <2>1, <4>1, <4>2
    <3>2. CASE k # Len(ls) + 1
      <4>1. k \in 1 .. Len(ls) /\ t[k] = ls[k]
        BY <1>1, <2>2, <3>2
      <4>2. CASE k < Len(ls)
        BY <1>2, <4>1, <4>2
      <4>3. CASE k = Len(ls)
        <5>1. i # 1
          BY <1>1, <4>1
        <5>2. IsEnd(ls[k][Len(ls[k])])
          BY <1>1, <1>3, <4>3, <5>1 DEF LastCell
        <5>. QED
          BY <1>2, <4>1, <5>2
      <4>. QED
        BY <1>1, <4>1, <4>2, <4>3
    <3>. QED
      BY <3>1, <3>2
  <2>5. LastCell(t) = f[i]
    BY <2>1, <2>2 DEF LastCell
  <2>. QED
    BY <1>1, <2>2, <2>3, <2>4, <2>5 DEF SomeLines
<1>4. CASE ~(i = 1 \/ IsEnd(f[i - 1]))
  <2> DEFINE n == Len(ls)
             l == ls[n]
             x == Append(l, f[i])
             t == [ls EXCEPT ![n] = x]
  <2>1. n \in 1 .. n /\ n \in Nat /\ l \in Seq(D) /\ l # <<>>
    BY <1>1, <1>2, <1>4
  <2>2. l[Len(l)] = f[i - 1] /\ \A j \in 1 .. Len(l) - 1 : ~IsEnd(l[j])
    BY <1>1, <1>2, <1>4, <2>1 DEF LastCell
  <2> HIDE DEF l
  <2>3. /\ x \in Seq(D) /\ x # <<>> /\ x[Len(x)] = f[i] /\ Len(x) = Len(l) + 1
        /\ \A j \in 1 .. Len(l) : x[j] = l[j]
    <3>0. x = Append(l, f[i]) /\ l \in Seq(D) /\ f[i] \in D
      BY <1>1, <2>1
    <3> HIDE DEF x
    <3>1. /\ x \in Seq(D) /\ x # <<>> /\ x[Len(l) + 1] = f[i] /\ Len(x) = Len(l) + 1
          /\ \A j \in 1 .. Len(l) : x[j] = l[j]
      BY <3>0, OneMore
    <3>. QED
      BY <3>1
  <2> HIDE DEF x
  <2>4. \A j \in 1 .. Len(x) - 1 : ~IsEnd(x[j])
    <3> TAKE j \in 1 .. Len(x) - 1
    <3>1. j \in 1 .. Len(l) /\ x[j] = l[j]
      BY <2>1, <2>3
    <3>2. CASE j = Len(l)
      BY <1>4, <2>2, <3>1, <3>2
    <3>3. CASE j # Len(l)
      <4>1. j \in 1 .. Len(l) - 1
        BY <2>1, <3>1, <3>3
      <4>. QED
        BY <2>2, <3>1, <4>1
    <3>. QED
      BY <3>2, <3>3
  <2>5. /\ t \in Seq(Seq(D)) /\ Len(t) = n /\ t[n] = x /\ t # <<>>
        /\ \A k \in 1 .. n : k # n => t[k] = ls[k]
    <3> DEFINE E == Seq(D)
    <3>1. ls \in Seq(E) /\ x \in E
      BY <1>1, <2>3
    <3> HIDE DEF E
    <3>2. /\ t \in Seq(E) /\ Len(t) = n /\ t[n] = x /\ t # <<>>
          /\ \A k \in 1 .. n : k # n => t[k] = ls[k]
      BY <2>1, <3>1, OneElse
    <3>. QED
      BY <3>2 DEF E
  <2>6. WithCell(ls, f, i) = t
    BY <1>4 DEF WithCell, x, l
  <2> HIDE DEF t
  <2>7. ASSUME NEW k \in 1 .. Len(t)
        PROVE  /\ t[k] # <<>>
               /\ \A j \in 1 .. Len(t[k]) - 1 : ~IsEnd(t[k][j])
               /\ k < Len(t) => IsEnd(t[k][Len(t[k])])
    <3>1. CASE k = n
      <4>1. t[k] = x /\ ~(k < Len(t))
        BY <2>1, <2>5, <3>1
      <4>. QED
        BY <2>3, <2>4, <4>1
    <3>2. CASE k # n
      BY <1>2, <2>5, <3>2
    <3>. QED
      BY <3>1, <3>2
  <2> HIDE DEF n
  <2>8. LastCell(t) = f[i]
    BY <2>3, <2>5 DEF LastCell
  <2>. QED
    BY <1>1, <2>5, <2>6, <2>7, <2>8 DEF SomeLines
<1>. QED
  BY <1>3, <1>4

\* The lines of any text have cells, and all but the last end
\* (scan_ledger.py, _append_bounded).
LEMMA LinesAreLines ==
    ASSUME NEW D, NEW f \in Seq(D)
    PROVE  SomeLines(D, Lines(f), f, Len(f))
<1>1. PICK g : Splitting(g, f, Len(f)) /\ Lines(f) = g[Len(f)]
  BY LinesAreSplit
<1> DEFINE B == {i \in 0 .. Len(f) : ~ SomeLines(D, g[i], f, i)}
<1>2. ASSUME B # {} PROVE FALSE
  <2>1. PICK i \in B : \A j \in B : i <= j
    <3>1. B \subseteq Nat
      OBVIOUS
    <3> HIDE DEF B
    <3>. QED
      BY <1>2, <3>1, Smallest
  <2>2. i \in 0 .. Len(f) /\ i \in Nat /\ ~ SomeLines(D, g[i], f, i)
    BY <2>1
  <2>3. g[i] = IF i = 0 THEN <<>> ELSE WithCell(g[i - 1], f, i)
    BY <1>1, <2>2 DEF Splitting
  <2>4. i # 0
    BY <2>2, <2>3 DEF SomeLines
  <2>5. i \in 1 .. Len(f) /\ i - 1 \in 0 .. Len(f) /\ ~(i <= i - 1)
    BY <2>2, <2>4
  <2>6. SomeLines(D, g[i - 1], f, i - 1)
    BY <2>1, <2>5
  <2>. QED
    BY <2>2, <2>3, <2>4, <2>5, <2>6, SomeLinesGrow
<1>3. Len(f) \in 0 .. Len(f)
  OBVIOUS
<1>. QED
  BY <1>1, <1>2, <1>3

\* Texts put together are a text (scan_ledger.py, _append_bounded).
LEMMA FlatType ==
    ASSUME NEW D, NEW s \in Seq(Seq(D))
    PROVE  FlattenSeq(s) \in Seq(D)
<1>1. CASE s = <<>>
  BY <1>1 DEF FlattenSeq
<1>2. CASE s # <<>>
  <2>1. PICK g : Flattening(g, s, Len(s)) /\ FlattenSeq(s) = g[Len(s)]
    BY <1>2, FlatIsFlattened
  <2> DEFINE B == {i \in 1 .. Len(s) : g[i] \notin Seq(D)}
  <2>2. ASSUME B # {} PROVE FALSE
    <3>1. PICK i \in B : \A j \in B : i <= j
      <4>1. B \subseteq Nat
        OBVIOUS
      <4> HIDE DEF B
      <4>. QED
        BY <2>2, <4>1, Smallest
    <3>2. i \in 1 .. Len(s) /\ i \in Nat /\ g[i] \notin Seq(D)
      BY <3>1
    <3>3. g[i] = IF i = 1 THEN s[i] ELSE g[i - 1] \o s[i]
      BY <2>1, <3>2, FlatteningAt
    <3>4. s[i] \in Seq(D)
      BY <3>2
    <3>5. i # 1
      BY <3>2, <3>3, <3>4
    <3>6. i - 1 \in 1 .. Len(s) /\ ~(i <= i - 1)
      BY <3>2, <3>5
    <3>7. g[i - 1] \in Seq(D)
      BY <3>1, <3>6
    <3>. QED
      BY <3>2, <3>3, <3>4, <3>5, <3>7
  <2>3. Len(s) \in 1 .. Len(s)
    BY <1>2
  <2> HIDE DEF B
  <2>4. g[Len(s)] \in Seq(D)
    <3>1. \A i \in 1 .. Len(s) : g[i] \in Seq(D)
      BY <2>2 DEF B
    <3>. QED
      BY <2>3, <3>1
  <2>. QED
    BY <2>1, <2>4
<1>. QED
  BY <1>1, <1>2

\* The last of several lines.
LEMMA NewestOf ==
    ASSUME NEW D, NEW ls \in Seq(Seq(D)), NEW n \in Nat, n < Len(ls),
           NEW t, t = SubSeq(ls, Len(ls) - n + 1, Len(ls))
    PROVE  t \in Seq(Seq(D)) /\ Len(t) = n /\ \A k \in 1 .. n : t[k] = ls[Len(ls) - n + k]
<1>1. PICK E : E = Seq(D)
  OBVIOUS
<1>2. ls \in Seq(E)
  BY <1>1
<1>3. t \in Seq(E) /\ Len(t) = n /\ \A k \in 1 .. n : t[k] = ls[Len(ls) - n + k]
  BY <1>2, LastOnes
<1>. QED
  BY <1>1, <1>3

\* Lines that have ended, but perhaps for the last one, are joined to lines that
\* have (scan_ledger.py, _append_bounded).
LEMMA JoinedEnd ==
    ASSUME NEW t \in Seq(Seq(Cell)), Len(t) = Keep,
           \A k \in 1 .. Keep : /\ t[k] # <<>>
                                /\ \A j \in 1 .. Len(t[k]) - 1 : ~IsEnd(t[k][j])
                                /\ k < Keep => IsEnd(t[k][Len(t[k])])
    PROVE  /\ Joined(t, TRUE) \in Seq(Seq(Cell)) /\ Len(Joined(t, TRUE)) = Keep
           /\ \A k \in 1 .. Keep : IsLine(Joined(t, TRUE)[k])
<1> DEFINE l == t[Keep]
           e == Ends(l, TRUE)
           u == Joined(t, TRUE)
<1>0. Keep \in Nat \ {0} /\ Keep \in 1 .. Keep
  BY ScanLedgerAssumption
<1>5. /\ l \in Seq(Cell) /\ l # <<>> /\ Len(l) \in Nat \ {0} /\ l[Len(l)] \in Cell
      /\ \A j \in 1 .. Len(l) - 1 : ~IsEnd(l[j])
  <2>1. l \in Seq(Cell) /\ l # <<>> /\ \A j \in 1 .. Len(l) - 1 : ~IsEnd(l[j])
    BY <1>0
  <2> HIDE DEF l
  <2>. QED
    BY <2>1, LastIn
<1> DEFINE c == [l[Len(l)] EXCEPT !.nl = TRUE]
<1>6. c \in Cell /\ IsEnd(c)
  BY <1>5 DEF Cell, IsEnd
<1>7. e = [l EXCEPT ![Len(l)] = c]
  BY DEF Ends
<1> HIDE DEF c, l
<1> HIDE DEF e
<1>8. e \in Seq(Cell) /\ Len(e) = Len(l) /\ e # <<>> /\ e[Len(e)] = c
      /\ \A j \in 1 .. Len(l) - 1 : e[j] = l[j]
  <2>1. Len(l) \in 1 .. Len(l) /\ \A j \in 1 .. Len(l) - 1 : j \in 1 .. Len(l) /\ j # Len(l)
    BY <1>5
  <2>. QED
    BY <1>5, <1>6, <1>7, <2>1, OneElse
<1>9. IsLine(e)
  <2>1. ASSUME NEW j \in 1 .. Len(e) PROVE IsEnd(e[j]) <=> j = Len(e)
    <3>1. j # Len(l) => j \in 1 .. Len(l) - 1
      BY <1>5, <1>8
    <3>. QED
      BY <1>5, <1>6, <1>8, <3>1
  <2>. QED
    BY <1>8, <2>1 DEF IsLine
<1>10. u = [t EXCEPT ![Keep] = e]
  BY DEF Joined, l, e
<1> HIDE DEF u
<1>11. /\ u \in Seq(Seq(Cell)) /\ Len(u) = Keep /\ u[Keep] = e
       /\ \A k \in 1 .. Keep : k # Keep => u[k] = t[k]
  <2>1. PICK E : E = Seq(Cell)
    OBVIOUS
  <2>2. t \in Seq(E) /\ e \in E /\ Keep \in 1 .. Len(t)
    BY <1>0, <1>8, <2>1
  <2> DEFINE v == [t EXCEPT ![Keep] = e]
  <2>3. /\ v \in Seq(E) /\ Len(v) = Len(t) /\ v[Keep] = e
        /\ \A k \in 1 .. Len(t) : k # Keep => v[k] = t[k]
    BY <2>2, OneElse
  <2>. QED
    BY <1>10, <2>1, <2>3
<1>12. ASSUME NEW k \in 1 .. Keep, k # Keep PROVE IsLine(u[k])
  <2> DEFINE x == t[k]
  <2>1. u[k] = x /\ k < Keep
    BY <1>0, <1>11, <1>12
  <2>2. /\ x \in Seq(Cell) /\ x # <<>> /\ IsEnd(x[Len(x)])
        /\ \A j \in 1 .. Len(x) - 1 : ~IsEnd(x[j])
    BY <2>1
  <2> HIDE DEF x
  <2>3. ASSUME NEW j \in 1 .. Len(x) PROVE IsEnd(x[j]) <=> j = Len(x)
    <3>1. j # Len(x) => j \in 1 .. Len(x) - 1
      BY <2>2
    <3>. QED
      BY <2>2, <3>1
  <2>. QED
    BY <2>1, <2>2, <2>3 DEF IsLine
<1>. QED
  BY <1>9, <1>11, <1>12 DEF u

\* The newest of the lines of a text, joined, are lines (scan_ledger.py,
\* _append_bounded).
LEMMA JoinedAreLines ==
    ASSUME NEW f \in Seq(Cell), Len(Lines(f)) > Keep
    PROVE  LET t == Joined(SubSeq(Lines(f), Len(Lines(f)) - Keep + 1, Len(Lines(f))), TRUE)
           IN t \in Seq(Seq(Cell)) /\ Len(t) = Keep /\ \A k \in 1 .. Keep : IsLine(t[k])
<1>1. PICK ls : ls = Lines(f)
  OBVIOUS
<1>2. PICK t : t = SubSeq(ls, Len(ls) - Keep + 1, Len(ls))
  OBVIOUS
<1>3. /\ ls \in Seq(Seq(Cell))
      /\ \A k \in 1 .. Len(ls) : /\ ls[k] # <<>>
                                 /\ \A j \in 1 .. Len(ls[k]) - 1 : ~IsEnd(ls[k][j])
                                 /\ k < Len(ls) => IsEnd(ls[k][Len(ls[k])])
  BY <1>1, LinesAreLines DEF SomeLines
<1>4. Len(ls) \in Nat /\ Keep \in Nat \ {0} /\ Keep < Len(ls)
  BY <1>1, <1>3, ScanLedgerAssumption
<1>5. /\ t \in Seq(Seq(Cell)) /\ Len(t) = Keep
      /\ \A k \in 1 .. Keep : t[k] = ls[Len(ls) - Keep + k]
  <2>1. PICK n \in Nat : n = Keep
    BY <1>4
  <2>2. n < Len(ls) /\ t = SubSeq(ls, Len(ls) - n + 1, Len(ls))
    BY <1>2, <1>4, <2>1
  <2>3. /\ t \in Seq(Seq(Cell)) /\ Len(t) = n
        /\ \A k \in 1 .. n : t[k] = ls[Len(ls) - n + k]
    BY <1>3, <2>2, NewestOf
  <2>. QED
    BY <2>1, <2>3
<1>6. ASSUME NEW k \in 1 .. Keep
      PROVE  /\ t[k] # <<>>
             /\ \A j \in 1 .. Len(t[k]) - 1 : ~IsEnd(t[k][j])
             /\ k < Keep => IsEnd(t[k][Len(t[k])])
  <2>1. PICK i : i = Len(ls) - Keep + k
    OBVIOUS
  <2>2. i \in 1 .. Len(ls) /\ (k < Keep => i < Len(ls))
    BY <1>4, <2>1
  <2>3. t[k] = ls[i]
    BY <1>5, <2>1
  <2>. QED
    BY <1>3, <2>2, <2>3
<1>. QED
  BY <1>1, <1>2, <1>5, <1>6, JoinedEnd

\* Lines that have ended are joined as they are (scan_ledger.py,
\* _append_bounded).
LEMMA JoinedWhole ==
    ASSUME NEW s \in Seq(Seq(Cell)), s # <<>>, IsLine(s[Len(s)])
    PROVE  Joined(s, TRUE) = s
<1> DEFINE l == s[Len(s)]
           c == l[Len(l)]
<1>1. l \in Seq(Cell) /\ l # <<>> /\ Len(l) \in 1 .. Len(l) /\ c \in Cell /\ IsEnd(c)
  BY DEF IsLine
<1>2. [c EXCEPT !.nl = TRUE] = c
  BY <1>1 DEF Cell, IsEnd
<1> HIDE DEF c
<1>3. [l EXCEPT ![Len(l)] = c] = l
  BY <1>1 DEF c
<1>4. Ends(l, TRUE) = l
  <2>1. Ends(l, TRUE) = [l EXCEPT ![Len(l)] = [c EXCEPT !.nl = TRUE]]
    BY DEF Ends, c
  <2>. QED
    BY <1>2, <1>3, <2>1
<1>5. Joined(s, TRUE) = [s EXCEPT ![Len(s)] = Ends(l, TRUE)]
  BY DEF Joined
<1> HIDE DEF l
<1>6. Joined(s, TRUE) = [s EXCEPT ![Len(s)] = s[Len(s)]]
  BY <1>4, <1>5 DEF l
<1>. QED
  BY <1>6, Same

\* What is written is a text (scan_ledger.py, _append_bounded).
LEMMA WrittenType ==
    ASSUME file \in Seq(Cell), NEW text \in Seq(Cell), NEW m \in 0 .. Len(text)
    PROVE  /\ Written(text, m) \in Seq(Cell)
           /\ file = <<>> /\ m = Len(text) => Written(text, m) = text
<1> DEFINE a == SubSeq(text, 1, m)
           b == SubSeq(file, m + 1, Len(file))
<1>1. a \in Seq(Cell) /\ (m = Len(text) => a = text)
  OBVIOUS
<1>2. b \in Seq(Cell) /\ (file = <<>> => b = <<>>)
  <2>1. m \in Nat /\ Len(file) \in Nat
    OBVIOUS
  <2>2. CASE m < Len(file)
    BY <2>1, <2>2
  <2>3. CASE ~(m < Len(file))
    BY <2>1, <2>3
  <2>. QED
    BY <2>2, <2>3
<1> HIDE DEF a, b
<1>3. Written(text, m) = a \o b
  BY DEF Written, a, b
<1>. QED
  BY <1>1, <1>2, <1>3

(***************************************************************************)
(* The newest records.                                                     *)
(***************************************************************************)

\* The records from first on, whole and in their order.
Whole(first) == [k \in 1 .. Len(size) + 1 - first |-> Line(first + k - 1)]

LedgerTypes ==
    /\ size \in Seq(1 .. MaxSize) /\ Len(size) <= MaxRecords
    /\ file \in Seq(Cell)
    /\ pc \in [Writer -> {"idle", "stat", "read", "truncate", "write"}]
    /\ DOMAIN newest = Writer
    /\ \A w \in Writer : newest[w] \in Seq(Seq(Cell)) /\ Len(newest[w]) <= Keep
    /\ faults \in Nat /\ faults <= MaxFaults
    /\ cuts \in Nat /\ cuts <= faults
    /\ spoiled \in BOOLEAN

\* Whoever rewrites has as many lines as are kept, whole ones or not, and all of
\* them end.
Prepared ==
    \A w \in Writer : pc[w] \in {"truncate", "write"} =>
      Len(newest[w]) = Keep /\ \A k \in 1 .. Keep : IsLine(newest[w][k])

\* Who writes is alone with a file that is empty.
Undisturbed ==
    \A w \in Writer : pc[w] = "write" =>
      file = <<>> /\ \A v \in Writer \ {w} : pc[v] \notin {"truncate", "write"}

\* The ledger is the records from first on, unless it is being written.
Begins(first) ==
    /\ first > 1 => Len(size) + 1 - first >= Keep
    /\ Settled => file = FlattenSeq(Whole(first))

\* Who rewrites has the newest records.
Rewrites ==
    \A w \in Writer : pc[w] \in {"truncate", "write"} =>
      Keep <= Len(size) /\ newest[w] = Whole(Len(size) + 1 - Keep)

Newest == Rewrites /\ \E first \in 1 .. Len(size) + 1 : Begins(first)

LedgerInv ==
    /\ LedgerTypes
    /\ Prepared
    /\ ~spoiled => Undisturbed
    /\ ~spoiled /\ cuts = 0 => Newest

\* A function on 1 .. n is a sequence.
LEMMA SequenceOf ==
    ASSUME NEW E, NEW n \in Nat, NEW s, s = [k \in 1 .. n |-> s[k]], \A k \in 1 .. n : s[k] \in E
    PROVE  s \in Seq(E) /\ Len(s) = n
OBVIOUS

\* Append, element by element.
LEMMA Appended ==
    ASSUME NEW E, NEW s \in Seq(E), NEW x \in E, NEW n, n = Len(s)
    PROVE  Append(s, x) = [k \in 1 .. n + 1 |-> IF k = n + 1 THEN x ELSE s[k]]
<1> DEFINE t == Append(s, x)
<1>1. /\ t \in Seq(E) /\ Len(t) = Len(s) + 1 /\ t[Len(s) + 1] = x /\ Len(s) \in Nat
      /\ \A k \in 1 .. Len(s) : t[k] = s[k]
  OBVIOUS
<1> HIDE DEF t
<1>2. t = [k \in 1 .. n + 1 |-> t[k]]
  BY <1>1
<1>3. \A k \in 1 .. n + 1 : t[k] = IF k = n + 1 THEN x ELSE s[k]
  BY <1>1
<1>4. t = [k \in 1 .. n + 1 |-> IF k = n + 1 THEN x ELSE s[k]]
  BY <1>2, <1>3
<1>. QED
  BY <1>4 DEF t

\* The records are lines (scan_ledger.py, _append_bounded).
LEMMA WholeIsLines ==
    ASSUME LedgerTypes, NEW first \in 1 .. Len(size) + 1
    PROVE  /\ Whole(first) \in Seq(Seq(Cell)) /\ Len(Whole(first)) = Len(size) + 1 - first
           /\ \A k \in 1 .. Len(Whole(first)) : IsLine(Whole(first)[k])
<1>1. Len(size) \in Nat /\ \A r \in 1 .. Len(size) : size[r] \in 1 .. MaxSize /\ r \in 1 .. MaxRecords
  BY ScanLedgerAssumption DEF LedgerTypes
<1>2. ASSUME NEW r \in 1 .. Len(size) PROVE Line(r) \in Seq(Cell) /\ IsLine(Line(r))
  <2>1. size[r] \in 1 .. MaxSize /\ r \in 1 .. MaxRecords
    BY <1>1
  <2>2. /\ Line(r) = [k \in 1 .. size[r] |-> Line(r)[k]]
        /\ \A k \in 1 .. size[r] : Line(r)[k] = [rec |-> r, part |-> k, nl |-> k = size[r]]
    BY DEF Line, LineOf
  <2>3. \A k \in 1 .. size[r] : k \in 1 .. MaxSize
    BY <2>1, ScanLedgerAssumption
  <2>4. \A k \in 1 .. size[r] : Line(r)[k] \in Cell
    <3>1. \A k \in 1 .. size[r] : [rec |-> r, part |-> k, nl |-> k = size[r]] \in Cell
      BY <2>1, <2>3 DEF Cell
    <3>. QED
      BY <2>2, <3>1
  <2>5. size[r] \in Nat /\ size[r] # 0
    BY <2>1, ScanLedgerAssumption
  <2>6. Line(r) \in Seq(Cell) /\ Len(Line(r)) = size[r]
    BY <2>2, <2>4, <2>5, SequenceOf
  <2>7. Line(r) # <<>>
    BY <2>5, <2>6
  <2>8. \A k \in 1 .. size[r] : IsEnd(Line(r)[k]) <=> k = size[r]
    <3>1. \A k \in 1 .. size[r] :
            IsEnd([rec |-> r, part |-> k, nl |-> k = size[r]]) <=> k = size[r]
      BY DEF IsEnd
    <3>. QED
      BY <2>2, <3>1
  <2>. QED
    BY <2>6, <2>7, <2>8 DEF IsLine
<1> DEFINE n == Len(size) + 1 - first
<1>3. n \in Nat /\ \A k \in 1 .. n : first + k - 1 \in 1 .. Len(size)
  BY <1>1
<1>4. \A k \in 1 .. n : Line(first + k - 1) \in Seq(Cell) /\ IsLine(Line(first + k - 1))
  BY <1>2, <1>3
<1>5. Whole(first) = [k \in 1 .. n |-> Whole(first)[k]]
      /\ \A k \in 1 .. n : Whole(first)[k] = Line(first + k - 1)
  BY DEF Whole
<1>6. \A k \in 1 .. n : Whole(first)[k] \in Seq(Cell)
  BY <1>4, <1>5
<1>7. Whole(first) \in Seq(Seq(Cell)) /\ Len(Whole(first)) = n
  <2> HIDE DEF n
  <2>. QED
    BY <1>3, <1>5, <1>6, SequenceOf
<1>. QED
  BY <1>4, <1>5, <1>7

\* They can be read back (scan_ledger.py, _append_bounded).
LEMMA WholeSplits ==
    ASSUME LedgerTypes, NEW first \in 1 .. Len(size) + 1
    PROVE  Lines(FlattenSeq(Whole(first))) = Whole(first)
BY WholeIsLines, FlatSplits

\* lines[-keep:] of the records are the newest records (scan_ledger.py,
\* _append_bounded).
LEMMA NewestLines ==
    ASSUME LedgerTypes, NEW first \in 1 .. Len(size) + 1, Len(Whole(first)) > Keep
    PROVE  /\ Keep <= Len(size)
           /\ SubSeq(Whole(first), Len(Whole(first)) - Keep + 1, Len(Whole(first)))
                = Whole(Len(size) + 1 - Keep)
<1> DEFINE s == Whole(first)
           n == Len(s)
           a == n - Keep + 1
           t == SubSeq(s, a, n)
<1>1. /\ n = Len(size) + 1 - first /\ s \in Seq(Seq(Cell)) /\ Len(size) \in Nat
      /\ Keep \in Nat \ {0} /\ first \in Nat \ {0}
  BY WholeIsLines, ScanLedgerAssumption DEF LedgerTypes
<1>2. \A k \in 1 .. n : s[k] = Line(first + k - 1)
  BY <1>1 DEF Whole
<1> HIDE DEF s, n
<1>3. n > Keep /\ n \in Nat
  BY <1>1 DEF n, s
<1>4. a \in 1 .. n + 1 /\ n - a + 1 = Keep /\ \A k \in 1 .. Keep : a + k - 1 \in 1 .. n
  BY <1>1, <1>3
<1>5. t = [k \in 1 .. Keep |-> s[a + k - 1]]
  <2>1. \A i \in a .. n : s[i] \in Seq(Cell)
    BY <1>1, <1>4 DEF n
  <2>2. /\ t \in Seq(Seq(Cell)) /\ Len(t) = (IF a <= n THEN n - a + 1 ELSE 0)
        /\ \A k \in 1 .. n - a + 1 : t[k] = s[a + k - 1]
    <3> HIDE DEF a
    <3>1. a \in Int /\ n \in Int /\ s \in Seq(Seq(Cell))
      BY <1>1, <1>3, <1>4
    <3>. QED
      BY <2>1, <3>1, SubSeqProperties
  <2>3. Len(t) = Keep
    BY <1>1, <1>3, <1>4, <2>2
  <2> HIDE DEF t, a
  <2>4. t = [k \in 1 .. Keep |-> t[k]]
    BY <2>2, <2>3
  <2>. QED
    BY <1>4, <2>2, <2>4
<1> HIDE DEF t
<1>6. Whole(Len(size) + 1 - Keep) = [k \in 1 .. Keep |-> Line(Len(size) + 1 - Keep + k - 1)]
  BY <1>1 DEF Whole
<1>7. \A k \in 1 .. Keep : s[a + k - 1] = Line(Len(size) + 1 - Keep + k - 1)
  <2> TAKE k \in 1 .. Keep
  <2>1. a + k - 1 \in 1 .. n /\ first + (a + k - 1) - 1 = Len(size) + 1 - Keep + k - 1
    BY <1>1, <1>4
  <2>. QED
    BY <1>2, <2>1
<1>8. t = Whole(Len(size) + 1 - Keep)
  BY <1>5, <1>6, <1>7
<1>. QED
  BY <1>1, <1>3, <1>8 DEF t, n, s

\* An append to the records that are there gives these and one more
\* (scan_ledger.py, _append_bounded).
LEMMA WholeAppended ==
    ASSUME LedgerTypes, NEW n \in 1 .. MaxSize, size' = Append(size, n),
           NEW first \in 1 .. Len(size) + 1
    PROVE  /\ Len(size') = Len(size) + 1
           /\ FlattenSeq(Whole(first)')
                = FlattenSeq(Whole(first)) \o LineOf(Len(size) + 1, n)
<1> DEFINE r == Len(size) + 1
           x == LineOf(r, n)
           m == r - first
           s == Whole(first)
           D == [rec : Nat, part : Nat, nl : BOOLEAN]
           After(q) == LineOf(q, size'[q])
<1>1. /\ Len(size) \in Nat /\ Len(size') = r /\ size'[r] = n /\ n \in Nat
      /\ \A q \in 1 .. Len(size) : size'[q] = size[q]
  BY ScanLedgerAssumption DEF LedgerTypes
<1>2. x \in Seq(D) /\ After(r) = x
  <2>1. x = [k \in 1 .. n |-> x[k]] /\ \A k \in 1 .. n : x[k] \in D
    BY <1>1 DEF LineOf
  <2>2. After(r) = x
    BY <1>1
  <2> HIDE DEF x, D, After
  <2>. QED
    BY <1>1, <2>1, <2>2, SequenceOf
<1>3. \A q \in 1 .. Len(size) : After(q) = Line(q)
  BY <1>1 DEF Line
<1>4. s \in Seq(Seq(D)) /\ Len(s) = m /\ m \in Nat
  <2>1. Cell \subseteq D
    BY ScanLedgerAssumption DEF Cell
  <2>2. s \in Seq(Seq(Cell)) /\ Len(s) = m
    BY WholeIsLines
  <2>3. \A k \in 1 .. m : s[k] \in Seq(D)
    <3>1. \A k \in 1 .. m : s[k] \in Seq(Cell)
      BY <2>2
    <3>2. \A y \in Seq(Cell) : y \in Seq(D)
      <4> HIDE DEF D
      <4>1. \A y \in Seq(Cell) : y = [k \in 1 .. Len(y) |-> y[k]]
                                 /\ Len(y) \in Nat /\ \A k \in 1 .. Len(y) : y[k] \in Cell
        OBVIOUS
      <4>2. \A y \in Seq(Cell) : \A k \in 1 .. Len(y) : y[k] \in D
        BY <2>1, <4>1
      <4>. QED
        BY <4>1, <4>2, SequenceOf
    <3>. QED
      BY <3>1, <3>2
  <2>4. m \in Nat
    BY <1>1
  <2> HIDE DEF s, m
  <2>. QED
    BY <2>2, <2>3, <2>4
<1>5. Whole(first)' = Append(s, x)
  <2>1. \A k \in 1 .. m : s[k] = Line(first + k - 1) /\ first + k - 1 \in 1 .. Len(size)
    BY <1>1, <1>4 DEF Whole
  <2>2. Whole(first)' = [k \in 1 .. m + 1 |-> After(first + k - 1)]
    <3>1. Len(size') + 1 - first = m + 1
      BY <1>1
    <3>. QED
      BY <3>1 DEF Whole, Line
  <2>3. first + (m + 1) - 1 = r
    BY <1>1
  <2> HIDE DEF s, x, m, D, After
  <2>4. Append(s, x) = [k \in 1 .. m + 1 |-> IF k = m + 1 THEN x ELSE s[k]]
    <3> DEFINE E == Seq(D)
    <3>1. s \in Seq(E) /\ x \in E /\ m = Len(s)
      BY <1>2, <1>4
    <3> HIDE DEF E
    <3>. QED
      BY <3>1, Appended
  <2>5. \A k \in 1 .. m + 1 : After(first + k - 1) = IF k = m + 1 THEN x ELSE s[k]
    <3> TAKE k \in 1 .. m + 1
    <3>1. CASE k = m + 1
      <4>1. first + k - 1 = r
        BY <2>3, <3>1
      <4>. QED
        BY <1>2, <3>1, <4>1
    <3>2. CASE k # m + 1
      <4>1. k \in 1 .. m
        BY <1>4, <3>2
      <4>. QED
        BY <1>3, <2>1, <3>2, <4>1
    <3>. QED
      BY <3>1, <3>2
  <2>. QED
    BY <2>2, <2>4, <2>5
<1>6. FlattenSeq(Append(s, x)) = IF s = <<>> THEN x ELSE FlattenSeq(s) \o x
  <2> HIDE DEF s, x, D
  <2>. QED
    BY <1>2, <1>4, FlattenAppend
<1>7. s = <<>> => FlattenSeq(s) \o x = x
  <2> HIDE DEF s, x
  <2>1. FlattenSeq(<<>>) = <<>>
    BY DEF FlattenSeq
  <2>2. <<>> \o x = x
    BY <1>2
  <2>. QED
    BY <2>1, <2>2
<1>. QED
  BY <1>1, <1>5, <1>6, <1>7

\* The newest lines of the newest records, joined, are records (scan_ledger.py,
\* _append_bounded).
LEMMA NewestJoined ==
    ASSUME LedgerTypes, Keep <= Len(size)
    PROVE  Joined(Whole(Len(size) + 1 - Keep), TRUE) = Whole(Len(size) + 1 - Keep)
<1>1. PICK first : first = Len(size) + 1 - Keep
  OBVIOUS
<1>2. first \in 1 .. Len(size) + 1 /\ Len(size) + 1 - first = Keep /\ Keep \in Nat \ {0}
  BY <1>1, ScanLedgerAssumption DEF LedgerTypes
<1>3. PICK s : s = Whole(first)
  OBVIOUS
<1>4. s \in Seq(Seq(Cell)) /\ Len(s) = Keep /\ \A k \in 1 .. Len(s) : IsLine(s[k])
  BY <1>2, <1>3, WholeIsLines
<1>5. s # <<>> /\ Len(s) \in 1 .. Len(s)
  BY <1>2, <1>4
<1>. QED
  BY <1>1, <1>3, <1>4, <1>5, JoinedWhole

\* What is said of the newest records depends on nothing but these variables.
LEMMA NewestStays ==
    ASSUME Newest, UNCHANGED <<file, size>>, Settled' <=> Settled,
           \A w \in Writer : pc'[w] \in {"truncate", "write"} =>
             \/ pc[w] \in {"truncate", "write"} /\ newest'[w] = newest[w]
             \/ Keep <= Len(size) /\ newest'[w] = Whole(Len(size) + 1 - Keep)
    PROVE  Newest'
<1>1. \A first : Whole(first)' = Whole(first)
  BY DEF Whole, Line
<1>2. Whole(Len(size) + 1 - Keep)' = Whole(Len(size) + 1 - Keep)
  BY DEF Whole, Line
<1>3. Rewrites'
  BY <1>2 DEF Newest, Rewrites
<1>4. PICK first \in 1 .. Len(size) + 1 : Begins(first)
  BY DEF Newest
<1>5. Begins(first)' /\ first \in 1 .. Len(size') + 1
  BY <1>1, <1>4 DEF Begins
<1>. QED
  BY <1>3, <1>5 DEF Newest

\* A line is cells (scan_ledger.py, _append_bounded).
LEMMA LineType ==
    ASSUME NEW r \in 1 .. MaxRecords, NEW n \in 1 .. MaxSize, NEW m \in 0 .. n
    PROVE  /\ LineOf(r, n) \in Seq(Cell)
           /\ [k \in 1 .. m |-> [LineOf(r, n)[k] EXCEPT !.nl = FALSE]] \in Seq(Cell)
<1>1. n \in Nat /\ m \in Nat /\ \A k \in 1 .. m : k \in 1 .. n
  BY ScanLedgerAssumption
<1>2. \A k \in 1 .. n : [rec |-> r, part |-> k, nl |-> k = n] \in Cell
  BY ScanLedgerAssumption DEF Cell
<1> DEFINE x == LineOf(r, n)
           y == [k \in 1 .. m |-> [x[k] EXCEPT !.nl = FALSE]]
<1>3. x = [k \in 1 .. n |-> x[k]] /\ \A k \in 1 .. n : x[k] \in Cell
  BY <1>2 DEF LineOf
<1> HIDE DEF x
<1>4. x \in Seq(Cell)
  BY <1>1, <1>3, SequenceOf
<1>5. \A k \in 1 .. m : y[k] \in Cell
  <2> TAKE k \in 1 .. m
  <2>1. x[k] \in Cell
    BY <1>1, <1>3
  <2>2. [x[k] EXCEPT !.nl = FALSE] \in Cell
    BY <2>1 DEF Cell
  <2>. QED
    BY <2>2
<1>6. y = [k \in 1 .. m |-> y[k]]
  OBVIOUS
<1> HIDE DEF y
<1>7. y \in Seq(Cell)
  BY <1>1, <1>5, <1>6, SequenceOf
<1>. QED
  BY <1>4, <1>7 DEF x, y

\* An append, whole or cut, is between nobody's read and write, or a race
\* (scan_ledger.py, _append_bounded).
LEMMA LedgerAppend ==
    ASSUME LedgerInv, NEW w \in Writer, AppendLine(w) \/ AppendCut(w)
    PROVE  LedgerInv'
<1> USE DEF LedgerInv
<1>1. /\ pc[w] = "idle" /\ newest' = newest /\ Len(size) < MaxRecords
      /\ spoiled' = (spoiled \/ Rewriting(w))
      /\ pc' = [pc EXCEPT ![w] = "stat"] \/ pc' = pc
  BY DEF AppendLine, AppendCut, Races, Goto
<1>0. 0 \in 0 .. 0 /\ \A n \in 1 .. MaxSize : 0 \in 0 .. n
  BY ScanLedgerAssumption
<1> DEFINE Cut(n, m) == [k \in 1 .. m |-> [LineOf(Len(size) + 1, n)[k] EXCEPT !.nl = FALSE]]
           Whether(n, m) == \/ file' = file \o LineOf(Len(size) + 1, n) /\ UNCHANGED <<faults, cuts>>
                            \/ /\ file' = file \o Cut(n, m)
                               /\ faults' = faults + 1 /\ cuts' = cuts + 1 /\ faults < MaxFaults
<1>2. PICK n \in 1 .. MaxSize : size' = Append(size, n) /\ \E m \in 0 .. n : Whether(n, m)
  <2>1. CASE AppendLine(w)
    BY <1>0, <2>1 DEF AppendLine
  <2>2. CASE AppendCut(w)
    BY <2>2 DEF AppendCut, Fault
  <2>. QED
    BY <2>1, <2>2
<1>10. PICK m \in 0 .. n : Whether(n, m)
  BY <1>2
<1>3. size' \in Seq(1 .. MaxSize) /\ Len(size') = Len(size) + 1 /\ Len(size) \in Nat
      /\ Len(size) + 1 \in 1 .. MaxRecords
  BY <1>1, <1>2, ScanLedgerAssumption DEF LedgerTypes
<1>4. LedgerTypes'
  <2>1. file' \in Seq(Cell)
    <3>1. PICK x \in Seq(Cell) : file' = file \o x
      BY <1>3, <1>10, LineType
    <3>. QED
      BY <3>1 DEF LedgerTypes
  <2>2. pc' \in [Writer -> {"idle", "stat", "read", "truncate", "write"}]
    BY <1>1 DEF LedgerTypes
  <2>3. /\ faults' \in Nat /\ faults' <= MaxFaults /\ cuts' \in Nat /\ cuts' <= faults'
    BY <1>10, ScanLedgerAssumption DEF LedgerTypes
  <2>4. size' \in Seq(1 .. MaxSize) /\ Len(size') <= MaxRecords
    BY <1>3, ScanLedgerAssumption
  <2>5. spoiled' \in BOOLEAN
    BY <1>1
  <2>. QED
    BY <1>1, <2>1, <2>2, <2>3, <2>4, <2>5 DEF LedgerTypes
<1>5. \A v \in Writer : /\ pc'[v] = pc[v] \/ (v = w /\ pc'[v] = "stat")
                        /\ pc'[v] \in {"truncate", "write"} => pc'[v] = pc[v]
  <2>1. CASE pc' = pc
    BY <2>1
  <2>2. CASE pc' = [pc EXCEPT ![w] = "stat"]
    BY <2>2 DEF LedgerTypes
  <2>. QED
    BY <1>1, <2>1, <2>2
<1>6. Prepared'
  BY <1>1, <1>5 DEF Prepared
<1>7. ASSUME ~spoiled' PROVE ~spoiled /\ \A v \in Writer : pc[v] \notin {"truncate", "write"}
  BY <1>1, <1>7 DEF Rewriting, LedgerTypes
<1>8. ~spoiled' => Undisturbed'
  BY <1>5, <1>7 DEF Undisturbed
<1>9. ASSUME ~spoiled', cuts' = 0 PROVE Newest'
  <2>1. cuts = 0 /\ file' = file \o LineOf(Len(size) + 1, n)
    BY <1>9, <1>10 DEF LedgerTypes
  <2>2. \A v \in Writer : pc[v] \notin {"truncate", "write"} /\ pc'[v] \notin {"truncate", "write"}
    BY <1>5, <1>7, <1>9
  <2>3. PICK first \in 1 .. Len(size) + 1 : Begins(first)
    BY <1>7, <1>9, <2>1 DEF Newest
  <2>4. FlattenSeq(Whole(first)') = FlattenSeq(Whole(first)) \o LineOf(Len(size) + 1, n)
    BY <1>2, WholeAppended
  <2>5. first > 1 => Len(size') + 1 - first >= Keep
    BY <1>3, <2>3, ScanLedgerAssumption DEF Begins
  <2>6. file' = FlattenSeq(Whole(first)')
    BY <2>1, <2>2, <2>3, <2>4 DEF Begins, Settled
  <2>7. first \in 1 .. Len(size') + 1
    BY <1>3
  <2>8. Begins(first)'
    BY <2>5, <2>6 DEF Begins
  <2>. QED
    BY <2>2, <2>7, <2>8 DEF Newest, Rewrites
<1>. QED
  BY <1>4, <1>6, <1>8, <1>9


\* Who finds the ledger too long has read all of it: one that is being written
\* is empty (scan_ledger.py, _append_bounded).
LEMMA LedgerRead ==
    ASSUME LedgerInv, NEW w \in Writer, Stat(w) \/ Read(w)
    PROVE  LedgerInv'
<1> USE DEF LedgerInv
<1> DEFINE lines == Lines(file)
           n == Len(lines)
           t == Joined(SubSeq(lines, n - Keep + 1, n), TRUE)
<1>1. /\ UNCHANGED <<file, size, faults, cuts, spoiled>> /\ pc[w] \in {"stat", "read"}
      /\ \/ newest' = newest /\ \E there \in {"idle", "read"} : pc' = [pc EXCEPT ![w] = there]
         \/ /\ n > Keep /\ newest' = [newest EXCEPT ![w] = t]
            /\ pc' = [pc EXCEPT ![w] = "truncate"]
  BY DEF Stat, Read, Rewrite, Goto
<1>2. n > Keep => t \in Seq(Seq(Cell)) /\ Len(t) = Keep /\ \A k \in 1 .. Keep : IsLine(t[k])
  BY JoinedAreLines DEF LedgerTypes
<1> HIDE DEF t, n, lines
<1>3. \A v \in Writer :
        \/ v # w /\ pc'[v] = pc[v] /\ newest'[v] = newest[v]
        \/ v = w /\ pc'[v] \in {"idle", "read"} /\ newest'[v] = newest[v]
        \/ v = w /\ pc'[v] = "truncate" /\ newest'[v] = t /\ n > Keep
  <2>1. CASE newest' = newest /\ \E there \in {"idle", "read"} : pc' = [pc EXCEPT ![w] = there]
    BY <2>1 DEF LedgerTypes
  <2>2. CASE n > Keep /\ newest' = [newest EXCEPT ![w] = t] /\ pc' = [pc EXCEPT ![w] = "truncate"]
    BY <2>2 DEF LedgerTypes
  <2>. QED
    BY <1>1, <2>1, <2>2
<1>4. LedgerTypes'
  <2>1. pc' \in [Writer -> {"idle", "stat", "read", "truncate", "write"}] /\ DOMAIN newest' = Writer
    BY <1>1 DEF LedgerTypes
  <2>2. \A v \in Writer : newest'[v] \in Seq(Seq(Cell)) /\ Len(newest'[v]) <= Keep
    <3>1. Keep <= Keep
      BY ScanLedgerAssumption
    <3>. QED
      BY <1>2, <1>3, <3>1 DEF LedgerTypes
  <2>. QED
    BY <1>1, <2>1, <2>2 DEF LedgerTypes
<1>5. Prepared'
  <2> SUFFICES ASSUME NEW v \in Writer, pc'[v] \in {"truncate", "write"}
               PROVE  Len(newest'[v]) = Keep /\ \A k \in 1 .. Keep : IsLine(newest'[v][k])
    BY DEF Prepared
  <2>1. CASE v # w
    BY <1>3, <2>1 DEF Prepared
  <2>2. CASE v = w
    BY <1>2, <1>3, <2>2
  <2>. QED
    BY <2>1, <2>2
<1>6. pc[w] # "write" /\ pc'[w] # "write" /\ (Settled' <=> Settled)
  <2>1. pc[w] # "write" /\ pc'[w] # "write"
    BY <1>1, <1>3
  <2>. QED
    BY <1>3, <2>1 DEF Settled
<1>7. ASSUME ~spoiled, pc'[w] = "truncate" PROVE Settled
  <2> SUFFICES ASSUME ~Settled PROVE FALSE
    OBVIOUS
  <2>1. file = <<>>
    BY <1>7 DEF Settled, Undisturbed
  <2>2. n = 0
    BY <2>1, NoLines DEF n, lines
  <2>3. n > Keep
    BY <1>3, <1>7
  <2>. QED
    BY <2>2, <2>3, ScanLedgerAssumption
<1>8. ~spoiled' => Undisturbed'
  <2> SUFFICES ASSUME ~spoiled, NEW v \in Writer, pc'[v] = "write"
               PROVE  file = <<>> /\ \A u \in Writer \ {v} : pc'[u] \notin {"truncate", "write"}
    BY <1>1 DEF Undisturbed
  <2>1. v # w /\ pc[v] = "write" /\ pc'[w] # "truncate"
    BY <1>3, <1>6, <1>7 DEF Settled
  <2>. QED
    BY <1>3, <1>6, <2>1 DEF Undisturbed
<1>9. ASSUME ~spoiled', cuts' = 0 PROVE Newest'
  <2>1. ~spoiled /\ Newest
    BY <1>1, <1>9
  <2>2. ASSUME pc'[w] = "truncate"
        PROVE  Keep <= Len(size) /\ newest'[w] = Whole(Len(size) + 1 - Keep)
    <3>1. PICK first \in 1 .. Len(size) + 1 : Begins(first)
      BY <2>1 DEF Newest
    <3>2. lines = Whole(first)
      BY <1>7, <2>1, <2>2, <3>1, WholeSplits DEF Begins, lines
    <3>3. n > Keep /\ newest'[w] = t
      BY <1>3, <2>2
    <3>4. /\ Keep <= Len(size)
          /\ SubSeq(lines, n - Keep + 1, n) = Whole(Len(size) + 1 - Keep)
      BY <3>2, <3>3, NewestLines DEF n
    <3>. QED
      BY <3>3, <3>4, NewestJoined DEF t
  <2>3. \A v \in Writer : pc'[v] \in {"truncate", "write"} =>
          \/ pc[v] \in {"truncate", "write"} /\ newest'[v] = newest[v]
          \/ Keep <= Len(size) /\ newest'[v] = Whole(Len(size) + 1 - Keep)
    BY <1>3, <2>2
  <2>. QED
    BY <1>1, <1>6, <2>1, <2>3, NewestStays
<1>. QED
  BY <1>4, <1>5, <1>8, <1>9

\* Who truncates is alone, or a race (scan_ledger.py, _append_bounded).
LEMMA LedgerTruncate ==
    ASSUME LedgerInv, NEW w \in Writer, Truncate(w)
    PROVE  LedgerInv'
<1> USE DEF LedgerInv
<1>1. /\ UNCHANGED <<newest, size, faults, cuts>> /\ pc[w] = "truncate" /\ file' = <<>>
      /\ pc' = [pc EXCEPT ![w] = "write"] /\ spoiled' = (spoiled \/ Rewriting(w))
  BY DEF Truncate, Goto, Races
<1>2. LedgerTypes'
  <2>1. <<>> \in Seq(Cell)
    OBVIOUS
  <2>. QED
    BY <1>1, <2>1 DEF LedgerTypes
<1>3. \A v \in Writer : pc'[v] = IF v = w THEN "write" ELSE pc[v]
  BY <1>1 DEF LedgerTypes
<1>4. Prepared'
  BY <1>1, <1>3 DEF Prepared
<1>5. ASSUME ~spoiled' PROVE ~spoiled /\ \A v \in Writer \ {w} : pc'[v] \notin {"truncate", "write"}
  BY <1>1, <1>3, <1>5 DEF Rewriting, LedgerTypes
<1>6. ~spoiled' => Undisturbed'
  BY <1>1, <1>3, <1>5 DEF Undisturbed
<1>7. ASSUME ~spoiled', cuts' = 0 PROVE Newest'
  <2>1. Newest /\ ~Settled'
    BY <1>1, <1>3, <1>5, <1>7 DEF Settled
  <2>2. \A first : Whole(first)' = Whole(first)
    BY <1>1 DEF Whole, Line
  <2>3. Whole(Len(size) + 1 - Keep)' = Whole(Len(size) + 1 - Keep)
    BY <1>1 DEF Whole, Line
  <2>4. PICK first \in 1 .. Len(size) + 1 : Begins(first)
    BY <2>1 DEF Newest
  <2>5. Begins(first)' /\ first \in 1 .. Len(size') + 1
    BY <1>1, <2>1, <2>4 DEF Begins
  <2>6. Rewrites'
    BY <1>1, <1>3, <2>1, <2>3 DEF Newest, Rewrites
  <2>. QED
    BY <2>5, <2>6 DEF Newest
<1>. QED
  BY <1>2, <1>4, <1>6, <1>7

\* Without a race a rewrite leaves what was prepared (scan_ledger.py,
\* _append_bounded).
LEMMA Rewritten ==
    ASSUME LedgerInv, ~spoiled, NEW w \in Writer, Write(w)
    PROVE  /\ file' = FlattenSeq(newest[w])
           /\ Lines(file') = newest[w] /\ Len(newest[w]) = Keep
<1> USE DEF LedgerInv
<1>1. PICK text : text = FlattenSeq(newest[w])
  OBVIOUS
<1>2. pc[w] = "write" /\ file' = Written(text, Len(text))
  BY <1>1 DEF Write
<1>3. file = <<>> /\ Len(newest[w]) = Keep /\ \A k \in 1 .. Keep : IsLine(newest[w][k])
  BY <1>2 DEF Undisturbed, Prepared
<1>4. newest[w] \in Seq(Seq(Cell)) /\ file \in Seq(Cell)
  BY DEF LedgerTypes
<1>5. text \in Seq(Cell) /\ Lines(text) = newest[w]
  BY <1>1, <1>3, <1>4, FlatSplits
<1>6. Len(text) \in 0 .. Len(text)
  BY <1>5
<1>7. file' = text
  BY <1>2, <1>3, <1>4, <1>5, <1>6, WrittenType
<1>. QED
  BY <1>1, <1>3, <1>5, <1>7

\* The first cells of a text are written: the types stay (scan_ledger.py,
\* _append_bounded).
LEMMA WriteTypes ==
    ASSUME LedgerTypes, Prepared, NEW w \in Writer, Write(w) \/ WriteCut(w) \/ Fails(w)
    PROVE  LedgerTypes' /\ Prepared'
<1>1. UNCHANGED <<size, cuts>> /\ newest' = [newest EXCEPT ![w] = <<>>] /\ pc' = [pc EXCEPT ![w] = "idle"]
      /\ spoiled' \in BOOLEAN
  BY DEF Write, WriteCut, Fails, Goto, Races, LedgerTypes
<1>2. faults' = faults \/ (faults' = faults + 1 /\ faults < MaxFaults)
  <2>1. CASE Write(w)
    BY <2>1 DEF Write
  <2>2. CASE WriteCut(w)
    BY <2>2 DEF WriteCut, Fault
  <2>3. CASE Fails(w)
    BY <2>3 DEF Fails, Fault
  <2>. QED
    BY <2>1, <2>2, <2>3
<1>3. faults' \in Nat /\ faults' <= MaxFaults /\ cuts <= faults'
  BY <1>2, ScanLedgerAssumption DEF LedgerTypes
<1>4. file' \in Seq(Cell)
  <2>1. PICK text : text = FlattenSeq(newest[w])
    OBVIOUS
  <2>2. text \in Seq(Cell) /\ file \in Seq(Cell)
    BY <2>1, FlatType DEF LedgerTypes
  <2>3. Len(text) \in 0 .. Len(text) /\ \A m \in 0 .. Len(text) - 1 : m \in 0 .. Len(text)
    BY <2>2
  <2>4. \/ \E m \in 0 .. Len(text) : file' = Written(text, m)
        \/ file' = file
    BY <2>1, <2>3 DEF Write, WriteCut, Fails
  <2>. QED
    BY <2>2, <2>4, WrittenType
<1>5. \A v \in Writer : /\ v # w => pc'[v] = pc[v] /\ newest'[v] = newest[v]
                        /\ v = w => pc'[v] = "idle" /\ newest'[v] = <<>>
  BY <1>1 DEF LedgerTypes
<1>6. \A v \in Writer : newest'[v] \in Seq(Seq(Cell)) /\ Len(newest'[v]) <= Keep
  <2>1. <<>> \in Seq(Seq(Cell)) /\ Len(<<>>) <= Keep
    BY ScanLedgerAssumption
  <2>. QED
    BY <1>5, <2>1 DEF LedgerTypes
<1>7. pc' \in [Writer -> {"idle", "stat", "read", "truncate", "write"}] /\ DOMAIN newest' = Writer
  BY <1>1 DEF LedgerTypes
<1>8. LedgerTypes'
  BY <1>1, <1>3, <1>4, <1>6, <1>7 DEF LedgerTypes
<1>9. Prepared'
  BY <1>5 DEF Prepared
<1>. QED
  BY <1>8, <1>9

\* A rewrite ends (scan_ledger.py, _append_bounded).
LEMMA LedgerWrite ==
    ASSUME LedgerInv, NEW w \in Writer, Write(w)
    PROVE  LedgerInv'
<1> USE DEF LedgerInv
<1>1. /\ UNCHANGED <<size, faults, cuts>> /\ pc[w] = "write" /\ pc' = [pc EXCEPT ![w] = "idle"]
      /\ newest' = [newest EXCEPT ![w] = <<>>] /\ spoiled' = (spoiled \/ Rewriting(w))
  BY DEF Write, Goto, Races
<1>2. LedgerTypes' /\ Prepared'
  BY WriteTypes
<1>3. ASSUME ~spoiled' PROVE ~spoiled /\ \A v \in Writer : pc'[v] \notin {"truncate", "write"}
  BY <1>1, <1>3 DEF Rewriting, LedgerTypes
<1>4. ~spoiled' => Undisturbed'
  BY <1>3 DEF Undisturbed
<1>5. ASSUME ~spoiled', cuts' = 0 PROVE Newest'
  <2>1. PICK first : first = Len(size) + 1 - Keep
    OBVIOUS
  <2>2. Keep <= Len(size) /\ newest[w] = Whole(first)
    BY <1>1, <1>3, <1>5, <2>1 DEF Newest, Rewrites
  <2>3. file' = FlattenSeq(Whole(first))
    BY <1>3, <1>5, <2>2, Rewritten
  <2>4. first \in 1 .. Len(size') + 1 /\ Len(size') + 1 - first >= Keep
    BY <1>1, <2>1, <2>2, ScanLedgerAssumption DEF LedgerTypes
  <2>5. \A f : Whole(f)' = Whole(f)
    BY <1>1 DEF Whole, Line
  <2>6. Begins(first)'
    BY <2>3, <2>4, <2>5 DEF Begins
  <2>7. Rewrites'
    BY <1>3, <1>5 DEF Rewrites
  <2>. QED
    BY <2>4, <2>6, <2>7 DEF Newest
<1>. QED
  BY <1>2, <1>4, <1>5

\* Who dies before the truncation leaves everything, and who is cut short after
\* it spoils the ledger (scan_ledger.py, record_block).
LEMMA LedgerFails ==
    ASSUME LedgerInv, NEW w \in Writer, Fails(w) \/ WriteCut(w)
    PROVE  LedgerInv'
<1> USE DEF LedgerInv
<1>1. LedgerTypes' /\ Prepared'
  BY WriteTypes
<1>2. CASE WriteCut(w)
  <2>1. spoiled'
    BY <1>2 DEF WriteCut
  <2>. QED
    BY <1>1, <2>1
<1>3. CASE Fails(w)
  <2>1. /\ UNCHANGED <<file, size, cuts, spoiled>> /\ pc[w] # "write"
        /\ pc' = [pc EXCEPT ![w] = "idle"] /\ newest' = [newest EXCEPT ![w] = <<>>]
    BY <1>3 DEF Fails, Goto
  <2>2. pc'[w] = "idle" /\ \A v \in Writer : v # w => pc'[v] = pc[v] /\ newest'[v] = newest[v]
    BY <2>1 DEF LedgerTypes
  <2>3. Settled' <=> Settled
    BY <2>1, <2>2 DEF Settled
  <2>4. ~spoiled' => Undisturbed'
    BY <2>1, <2>2 DEF Undisturbed
  <2>5. \A v \in Writer : pc'[v] \in {"truncate", "write"} =>
          pc[v] \in {"truncate", "write"} /\ newest'[v] = newest[v]
    BY <2>2
  <2>6. ~spoiled' /\ cuts' = 0 => Newest'
    BY <2>1, <2>3, <2>5, NewestStays
  <2>. QED
    BY <1>1, <2>4, <2>6
<1>. QED
  BY <1>2, <1>3

\* Every step keeps what is said of the ledger (scan_ledger.py).
LEMMA LedgerInvariance ==
    ASSUME LedgerInv, [Next]_vars
    PROVE  LedgerInv'
<1>1. CASE UNCHANGED vars
  <2>1. UNCHANGED <<file, pc, newest, size, faults, cuts, spoiled>> /\ (Settled' <=> Settled)
    BY <1>1 DEF vars, Settled
  <2>2. LedgerTypes' /\ Prepared' /\ (Undisturbed' <=> Undisturbed)
    BY <2>1 DEF LedgerInv, LedgerTypes, Prepared, Undisturbed
  <2>3. Newest => Newest'
    <3>1. \A w \in Writer : pc'[w] \in {"truncate", "write"} =>
            pc[w] \in {"truncate", "write"} /\ newest'[w] = newest[w]
      BY <2>1
    <3>. QED
      BY <2>1, <3>1, NewestStays
  <2>. QED
    BY <2>1, <2>2, <2>3 DEF LedgerInv
<1>. QED
  BY <1>1, LedgerAppend, LedgerRead, LedgerTruncate, LedgerWrite, LedgerFails DEF Next

\* So it always holds (scan_ledger.py).
LEMMA LedgerAlways == Spec => []LedgerInv
<1>1. ASSUME Init PROVE LedgerInv
  <2>1. <<>> \in Seq(Cell) /\ <<>> \in Seq(Seq(Cell)) /\ Len(<<>>) <= Keep /\ <<>> \in Seq(1 .. MaxSize)
        /\ Len(<<>>) <= MaxRecords /\ 0 <= MaxFaults
    BY ScanLedgerAssumption
  <2>6. pc \in [Writer -> {"idle", "stat", "read", "truncate", "write"}]
    BY <1>1 DEF Init
  <2>7. DOMAIN newest = Writer /\ \A w \in Writer : newest[w] = <<>>
    BY <1>1 DEF Init
  <2>8. /\ file = <<>> /\ size = <<>> /\ faults = 0 /\ cuts = 0 /\ spoiled = FALSE
        /\ 0 \in Nat /\ 0 <= 0
    BY <1>1 DEF Init
  <2>2. LedgerTypes
    BY <2>1, <2>6, <2>7, <2>8 DEF LedgerTypes
  <2>3. Prepared /\ Undisturbed /\ Rewrites
    BY <1>1 DEF Init, Prepared, Undisturbed, Rewrites
  <2>4. Len(size) = 0 /\ Whole(1) = <<>> /\ FlattenSeq(<<>>) = <<>>
    BY <1>1 DEF Init, Whole, FlattenSeq
  <2>5. 1 \in 1 .. Len(size) + 1 /\ Begins(1)
    BY <1>1, <2>4 DEF Init, Begins
  <2>. QED
    BY <2>2, <2>3, <2>5 DEF LedgerInv, Newest
<1>2. LedgerInv /\ [Next]_vars => LedgerInv'
  BY LedgerInvariance
<1>. QED
  BY <1>1, <1>2, PTL DEF Spec

\* "losing a rotation race loses log fidelity": as long as no rewrite is raced or
\* cut short and no append is, the ledger is the newest records, whole and in
\* their order, for any number of writers, records and processes that die between
\* two calls, and any sizes (scan_ledger.py, _append_bounded).
THEOREM NewestAreKept == Spec => []NewestUnlessSpoiled
<1>1. ASSUME LedgerInv PROVE NewestUnlessSpoiled
  <2> SUFFICES ASSUME ~spoiled, cuts = 0, Settled
               PROVE  \E first \in 1 .. Len(size) + 1 :
                        /\ Lines(file) = [k \in 1 .. Len(size) + 1 - first |-> Line(first + k - 1)]
                        /\ first > 1 => Len(size) + 1 - first >= Keep
    BY DEF NewestUnlessSpoiled
  <2>1. PICK first \in 1 .. Len(size) + 1 : Begins(first)
    BY <1>1 DEF LedgerInv, Newest
  <2>2. Lines(file) = Whole(first)
    BY <1>1, <2>1, WholeSplits DEF Begins, LedgerInv
  <2>. QED
    BY <2>1, <2>2 DEF Begins, Whole
<1>. QED
  BY <1>1, LedgerAlways, PTL

\* An appender that nobody interrupts leaves a ledger that is small or has no
\* more lines than are kept, cut lines or not, unless a rewrite was raced or cut
\* short (scan_ledger.py, _append_bounded).
THEOREM RotationsBound == Spec => RotationBounds
<1> DEFINE A == \A w \in Writer :
                  pc[w] # "idle" /\ pc'[w] = "idle" /\ faults' = faults /\ ~spoiled
                    => Len(file') < Threshold \/ Len(Lines(file')) <= Keep
<1>1. ASSUME LedgerInv, [Next]_vars PROVE [A]_vars
  <2> SUFFICES ASSUME NEW w \in Writer, pc[w] # "idle", pc'[w] = "idle", faults' = faults,
                      ~spoiled, Next
               PROVE  Len(file') < Threshold \/ Len(Lines(file')) <= Keep
    BY <1>1
  <2>0. pc \in [Writer -> {"idle", "stat", "read", "truncate", "write"}] /\ faults \in Nat
        /\ file \in Seq(Cell)
    BY <1>1 DEF LedgerInv, LedgerTypes
  <2>1. PICK v \in Writer : \/ AppendLine(v) \/ AppendCut(v) \/ Stat(v) \/ Read(v)
                            \/ Truncate(v) \/ Write(v) \/ WriteCut(v) \/ Fails(v)
    BY DEF Next
  <2>2. v = w
    <3>1. pc' = pc \/ \E there : pc' = [pc EXCEPT ![v] = there]
      BY <2>1 DEF AppendLine, AppendCut, Stat, Read, Rewrite, Truncate, Write, WriteCut, Fails, Goto
    <3>. QED
      BY <2>0, <3>1
  <2>3. CASE Stat(w)
    <3>1. file' = file /\ pc' = [pc EXCEPT ![w] = IF Len(file) < Threshold THEN "idle" ELSE "read"]
      BY <2>3 DEF Stat, Goto
    <3>. QED
      BY <2>0, <3>1
  <2>4. CASE Read(w)
    <3>1. file' = file
      BY <2>4 DEF Read, Rewrite
    <3>2. ~(Len(Lines(file)) > Keep)
      BY <2>0, <2>4 DEF Read, Rewrite, Goto
    <3>3. Len(Lines(file)) \in Nat
      <4>1. Lines(file) \in Seq(Seq(Cell))
        BY <2>0, LinesAreLines DEF SomeLines
      <4>. QED
        BY <4>1
    <3>. QED
      BY <3>1, <3>2, <3>3, ScanLedgerAssumption
  <2>5. CASE Write(w)
    <3>1. Len(Lines(file')) = Keep
      BY <1>1, <2>5, Rewritten
    <3>. QED
      BY <3>1, ScanLedgerAssumption
  <2>6. ~AppendLine(w) /\ ~AppendCut(w) /\ ~Truncate(w) /\ ~WriteCut(w) /\ ~Fails(w)
    <3>1. ~AppendLine(w) /\ ~AppendCut(w)
      BY DEF AppendLine, AppendCut
    <3>2. ~Truncate(w)
      BY <2>0 DEF Truncate, Goto
    <3>3. faults' # faults + 1
      BY <2>0
    <3>. QED
      BY <3>1, <3>2, <3>3 DEF WriteCut, Fails, Fault
  <2>. QED
    BY <2>1, <2>2, <2>3, <2>4, <2>5, <2>6
<1>. QED
  BY <1>1, LedgerAlways, PTL DEF RotationBounds, Spec

\* The file and what the processes hold consist of cells of the records, and
\* nobody holds more lines than are kept, whoever races, dies or is cut short
\* (scan_ledger.py, _append_bounded).
THEOREM LedgerTypeCorrect == Spec => []TypeOK
<1>1. ASSUME LedgerInv PROVE TypeOK
  <2>1. LedgerTypes
    BY <1>1 DEF LedgerInv
  <2>2. faults \in 0 .. MaxFaults /\ cuts \in 0 .. faults
    BY <2>1, ScanLedgerAssumption DEF LedgerTypes
  <2>. QED
    BY <2>1, <2>2 DEF LedgerTypes, TypeOK
<1>. QED
  BY <1>1, LedgerAlways, PTL
=============================================================================
