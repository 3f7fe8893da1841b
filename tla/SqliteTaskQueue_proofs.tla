---------------------- MODULE SqliteTaskQueue_proofs ----------------------
(***************************************************************************)
(* SqliteTaskQueue implements TaskQueue, for every set of rows, processes  *)
(* and agents, with crashes and errors anywhere.                           *)
(*                                                                         *)
(* The argument: whoever holds the reserved lock is the only one whose     *)
(* transaction is open (LockDiscipline), so what it read still holds when  *)
(* it commits: the rows of a claim are still pending (ClaimTxn), those of  *)
(* a reap still running (ReapTxn).  The reaper's scan is outside the lock: *)
(* what survives from it is weaker, that a candidate is expired or no      *)
(* longer running (Candidates), and AND status='running' makes up for the  *)
(* rest.                                                                   *)
(***************************************************************************)
EXTENDS SqliteTaskQueue, TLAPS

OverdueOrHosts(t) == t \in HostDriven \/ age[t] > Lease

\* The rows a claim has read are still pending: nobody else can write.
ClaimTxn ==
    \A c \in Client : pc[c] = "claiming" =>
      \A t \in ids[c] \cup draft[c] : status[t] = "pending"

\* The rows a reap has updated are still running, on an expired claim.
ReapTxn ==
    \A c \in Client : pc[c] = "reaping" =>
      \A t \in draft[c] : status[t] = "running" /\ OverdueOrHosts(t)

\* What a scan found may have finished since, but is not running afresh.
Candidates ==
    \A c \in Client : pc[c] \in {"scanned", "reaping"} =>
      \A t \in ids[c] :
        /\ status[t] = "running" => OverdueOrHosts(t)
        /\ t \in HostDriven \/ status[t] \in {"running"} \cup TQ!Terminal

\* A client holds only rows that were handed to it, ...
HeldIsClaimed == \A c \in Client : \A t \in holding[c] : claimant[t] = c

\* ... and a row that was handed out never is pending again.
ClaimedHasLeft ==
    \A t \in Task : claimant[t] # NoClient => status[t] \notin {"absent", "pending"}

IInv ==
    /\ TypeOK
    /\ LockDiscipline
    /\ ClaimTxn
    /\ ReapTxn
    /\ Candidates
    /\ HeldIsClaimed
    /\ ClaimedHasLeft

\* The invariant holds in every initial state.
LEMMA IInvInitially == Init => IInv
<1> SUFFICES ASSUME Init PROVE IInv
    OBVIOUS
<1>1. TypeOK
  BY SqliteAssumption
  DEF Init, TypeOK, TQ!TypeOK, TQ!Status, TQ!Terminal, TQ!Age, TQ!NoLease
<1>2. QED
  BY <1>1, SqliteAssumption
  DEF Init, IInv, LockDiscipline, InTransaction, ClaimTxn, ReapTxn, Candidates,
      HeldIsClaimed, ClaimedHasLeft

\* Ages saturate one above the lease: a row that has expired stays expired.
LEMMA OlderIsAge == \A a \in TQ!Age : TQ!Older(a) \in TQ!Age /\ (a > Lease => TQ!Older(a) > Lease)
BY SqliteAssumption DEF TQ!Older, TQ!Age, TQ!NoLease

\* No lock, no transaction.
LEMMA NobodyWrites ==
    ASSUME IInv, writer = NoClient
    PROVE  \A c \in Client : pc[c] \notin InTransaction /\ draft[c] = {}
BY SqliteAssumption DEF IInv, LockDiscipline, TypeOK

\* One lock, one transaction.
LEMMA OneTransaction ==
    ASSUME IInv, NEW c \in Client, pc[c] \in InTransaction
    PROVE  \A d \in Client \ {c} : pc[d] \notin InTransaction /\ draft[d] = {}
BY DEF IInv, LockDiscipline, TypeOK

\* Opening the file touches at most the leases of rows that have none.
LEMMA OpenKeeps ==
    ASSUME IInv, NEW c \in Client, Open(c)
    PROVE  IInv'
<1> USE SqliteAssumption
    DEF IInv, TypeOK, TQ!TypeOK, LockDiscipline, InTransaction, ClaimTxn, ReapTxn, Candidates,
        OverdueOrHosts, HeldIsClaimed, ClaimedHasLeft, Goto, rowVars, timeVars, txnVars
<1>1. CASE OpenProbe(c)
  BY <1>1 DEF OpenProbe
<1>2. CASE OpenAlter(c)
  BY <1>2 DEF OpenAlter
<1>3. CASE OpenBackfill(c)
  <2>1. 0 \in TQ!Age
    BY DEF TQ!Age
  <2>2. age' \in [Task -> TQ!Age]
    BY <1>3, <2>1 DEF OpenBackfill, TQ!GrantLeases
  <2>3. \A t \in Task : age[t] > Lease => age'[t] > Lease
    BY <1>3 DEF OpenBackfill, TQ!GrantLeases, TQ!Age, TQ!NoLease
  <2>4. QED
    BY <1>3, <2>2, <2>3 DEF OpenBackfill, TQ!GrantLeases
<1>4. CASE OpenFails(c)
  BY <1>4 DEF OpenFails
<1>5. QED
  BY <1>1, <1>2, <1>3, <1>4 DEF Open

\* Autocommitted statements run while nobody is inside a transaction.
LEMMA StatementsKeep ==
    ASSUME IInv, NEW c \in Client, NEW t \in Task,
           \/ Submit(c, t)
           \/ t \in HostDriven /\ MarkRunning(c, t)
           \/ \E s \in TQ!Terminal : MarkDone(c, t, s)
    PROVE  IInv'
<1>1. \A d \in Client : pc[d] \notin InTransaction /\ draft[d] = {}
  BY NobodyWrites DEF Submit, MarkRunning, MarkDone
<1>2. \A d \in Client : pc'[d] \notin InTransaction /\ draft'[d] = {}
  BY <1>1 DEF Submit, MarkRunning, MarkDone, txnVars
<1>3. ClaimTxn' /\ ReapTxn'
  BY <1>2 DEF ClaimTxn, ReapTxn, InTransaction
<1>4. LockDiscipline'
  BY <1>1, <1>2 DEF IInv, LockDiscipline, Submit, MarkRunning, MarkDone, txnVars
<1> USE SqliteAssumption
    DEF IInv, TypeOK, TQ!TypeOK, Candidates, OverdueOrHosts, HeldIsClaimed, ClaimedHasLeft,
        rowVars, timeVars, txnVars
<1>5. CASE Submit(c, t)
  BY <1>3, <1>4, <1>5 DEF Submit, TQ!Submit, TQ!Status, TQ!Terminal
<1>6. CASE t \in HostDriven /\ MarkRunning(c, t)
  <2>1. 0 \in TQ!Age
    BY DEF TQ!Age
  <2>2. QED
    BY <1>3, <1>4, <1>6, <2>1 DEF MarkRunning, TQ!MarkRunning, TQ!Status
<1>7. ASSUME NEW s \in TQ!Terminal, MarkDone(c, t, s) PROVE IInv'
  <2>1. TypeOK'
    BY <1>7 DEF MarkDone, TQ!MarkDone, TQ!Status, TQ!Age
  <2>2. Candidates'
    BY <1>7 DEF MarkDone, TQ!MarkDone, TQ!Terminal
  <2>3. HeldIsClaimed' /\ ClaimedHasLeft'
    BY <1>7 DEF MarkDone, TQ!MarkDone, TQ!Terminal
  <2>4. QED
    BY <1>3, <1>4, <2>1, <2>2, <2>3
<1>8. QED
  BY <1>5, <1>6, <1>7

\* claim_pending: until the commit only the draft changes; the commit hands
\* out rows that are still pending.
LEMMA ClaimKeeps ==
    ASSUME IInv, NEW c \in Client,
           \/ \E a \in Agent, n \in 1 .. MaxLimit : ClaimBegin(c, a, n)
           \/ \E t \in Task : ClaimUpdate(c, t)
           \/ ClaimCommit(c)
    PROVE  IInv'
<1> USE SqliteAssumption
    DEF IInv, TypeOK, TQ!TypeOK, Candidates, OverdueOrHosts, HeldIsClaimed, ClaimedHasLeft,
        ClaimTxn, ReapTxn, LockDiscipline, InTransaction, Goto, rowVars, timeVars, txnVars
<1>1. ASSUME NEW a \in Agent, NEW n \in 1 .. MaxLimit, ClaimBegin(c, a, n) PROVE IInv'
  BY <1>1 DEF ClaimBegin, PendingOf
<1>2. ASSUME NEW t \in Task, ClaimUpdate(c, t) PROVE IInv'
  BY <1>2 DEF ClaimUpdate
<1>3. CASE ClaimCommit(c)
  <2>1. \A t \in draft[c] : t \in Task /\ status[t] = "pending"
    BY <1>3 DEF ClaimCommit
  <2>2. TypeOK'
    <3>1. \A t \in Task : lag[t] \in TQ!Age
      BY DEF TQ!Age, TQ!NoLease
    <3>2. QED
      BY <1>3, <3>1 DEF ClaimCommit, TQ!HandOut, TQ!Status
  <2>3. \A d \in Client \ {c} : pc[d] \notin InTransaction /\ draft[d] = {}
    BY <1>3, OneTransaction DEF ClaimCommit
  <2>4. LockDiscipline' /\ ClaimTxn' /\ ReapTxn'
    BY <1>3, <2>3 DEF ClaimCommit
  <2>5. \A d \in Client : \A t \in ids[d] \ HostDriven :
          pc'[d] \in {"scanned", "reaping"} => t \notin draft[c]
    BY <1>3, <2>1 DEF ClaimCommit, TQ!Terminal
  <2>6. Candidates'
    BY <1>3, <2>5 DEF ClaimCommit, TQ!HandOut
  <2>7. HeldIsClaimed' /\ ClaimedHasLeft'
    BY <1>3, <2>1 DEF ClaimCommit, TQ!HandOut
  <2>8. QED
    BY <2>2, <2>4, <2>6, <2>7
<1>4. QED
  BY <1>1, <1>2, <1>3

\* reap_stale: the scan promises little, the guarded updates make it enough.
LEMMA ReapKeeps ==
    ASSUME IInv, NEW c \in Client,
           \/ ReapScan(c) \/ ReapBegin(c) \/ ReapCommit(c)
           \/ \E t \in Task : ReapUpdate(c, t)
    PROVE  IInv'
<1> USE SqliteAssumption
    DEF IInv, TypeOK, TQ!TypeOK, Candidates, OverdueOrHosts, HeldIsClaimed, ClaimedHasLeft,
        ClaimTxn, ReapTxn, LockDiscipline, InTransaction, Goto, rowVars, timeVars, txnVars
<1>1. CASE ReapScan(c)
  BY <1>1 DEF ReapScan, Stale, TQ!Expired
<1>2. CASE ReapBegin(c)
  BY <1>2 DEF ReapBegin
<1>3. ASSUME NEW t \in Task, ReapUpdate(c, t) PROVE IInv'
  BY <1>3 DEF ReapUpdate
<1>4. CASE ReapCommit(c)
  <2>1. \A d \in Client \ {c} : pc[d] \notin InTransaction /\ draft[d] = {}
    BY <1>4, OneTransaction DEF ReapCommit
  <2>2. TypeOK'
    BY <1>4 DEF ReapCommit, TQ!FailOrphans, TQ!Status, TQ!Terminal, TQ!Age
  <2>3. LockDiscipline' /\ ClaimTxn' /\ ReapTxn'
    BY <1>4, <2>1 DEF ReapCommit
  <2>4. Candidates'
    BY <1>4 DEF ReapCommit, TQ!FailOrphans, TQ!Terminal
  <2>5. HeldIsClaimed' /\ ClaimedHasLeft'
    BY <1>4 DEF ReapCommit, TQ!FailOrphans
  <2>6. QED
    BY <2>2, <2>3, <2>4, <2>5
<1>5. QED
  BY <1>1, <1>2, <1>3, <1>4

\* A rollback only forgets.
LEMMA FailureKeeps ==
    ASSUME IInv, NEW c \in Client, OperationRaises(c) \/ Crash(c)
    PROVE  IInv'
<1> USE SqliteAssumption
    DEF IInv, TypeOK, TQ!TypeOK, Candidates, OverdueOrHosts, HeldIsClaimed, ClaimedHasLeft,
        ClaimTxn, ReapTxn, LockDiscipline, InTransaction, Goto, rowVars, timeVars, Rollback
<1>1. CASE OperationRaises(c)
  BY <1>1 DEF OperationRaises
<1>2. CASE Crash(c)
  BY <1>2 DEF Crash
<1>3. QED
  BY <1>1, <1>2

\* Time only makes claims older.
LEMMA TickKeeps ==
    ASSUME IInv, Tick
    PROVE  IInv'
<1> USE SqliteAssumption
    DEF IInv, TypeOK, TQ!TypeOK, Candidates, OverdueOrHosts, HeldIsClaimed, ClaimedHasLeft,
        ClaimTxn, ReapTxn, LockDiscipline, InTransaction
<1>1. age' \in [Task -> TQ!Age] /\ \A t \in Task : age[t] > Lease => age'[t] > Lease
  BY OlderIsAge DEF Tick, TQ!Tick
<1>2. lag' \in [Task -> 0 .. CommitLag]
  BY DEF Tick, Stamped
<1>3. second' \in Nat \ {0}
  BY DEF Tick
<1>4. QED
  BY <1>1, <1>2, <1>3 DEF Tick, TQ!Tick

\* Every step of the code and of its environment keeps the invariant.
LEMMA IInvInductive == IInv /\ [Next]_vars => IInv'
<1> SUFFICES ASSUME IInv, [Next]_vars PROVE IInv'
    OBVIOUS
<1>1. CASE Next
  <2>1. ASSUME NEW c \in Client, Open(c) PROVE IInv'
    BY <2>1, OpenKeeps
  <2>2. ASSUME NEW c \in Client, NEW t \in Task,
               \/ Submit(c, t)
               \/ t \in HostDriven /\ MarkRunning(c, t)
               \/ \E s \in TQ!Terminal : MarkDone(c, t, s)
        PROVE  IInv'
    BY <2>2, StatementsKeep
  <2>3. ASSUME NEW c \in Client,
               \/ \E a \in Agent, n \in 1 .. MaxLimit : ClaimBegin(c, a, n)
               \/ \E t \in Task : ClaimUpdate(c, t)
               \/ ClaimCommit(c)
        PROVE  IInv'
    BY <2>3, ClaimKeeps
  <2>4. ASSUME NEW c \in Client,
               \/ ReapScan(c) \/ ReapBegin(c) \/ ReapCommit(c)
               \/ \E t \in Task : ReapUpdate(c, t)
        PROVE  IInv'
    BY <2>4, ReapKeeps
  <2>5. ASSUME NEW c \in Client, OperationRaises(c) \/ Crash(c) PROVE IInv'
    BY <2>5, FailureKeeps
  <2>6. HostDriven \subseteq Task
    BY SqliteAssumption
  <2>7. QED
    BY <1>1, <2>1, <2>2, <2>3, <2>4, <2>5, <2>6, TickKeeps DEF Next
<1>2. CASE UNCHANGED vars
  BY <1>2 DEF vars, rowVars, timeVars, txnVars, IInv, TypeOK, TQ!TypeOK, Candidates,
              OverdueOrHosts, HeldIsClaimed, ClaimedHasLeft, ClaimTxn, ReapTxn, LockDiscipline
<1>3. QED
  BY <1>1, <1>2

\* The invariant holds in every reachable state.
THEOREM Invariance == Spec => []IInv
BY IInvInitially, IInvInductive, PTL DEF Spec

\* Every reachable state of the backend is of the declared types.
THEOREM TypeCorrect == Spec => []TypeOK
<1>1. IInv => TypeOK
  BY DEF IInv
<1>2. QED
  BY <1>1, Invariance, PTL

\* The write lock is held by exactly the process inside a transaction, after
\* any number of crashes and errors (_connect closes, and closing rolls back).
THEOREM LockIsDisciplined == Spec => []LockDiscipline
<1>1. IInv => LockDiscipline
  BY DEF IInv
<1>2. QED
  BY <1>1, Invariance, PTL

\* Two processes never hold the same row (claim_pending's BEGIN IMMEDIATE).
THEOREM ClaimsAreExclusive == Spec => []NoDoubleClaim
<1>1. IInv => NoDoubleClaim
  BY DEF IInv, TypeOK, HeldIsClaimed, NoDoubleClaim
<1>2. QED
  BY <1>1, Invariance, PTL

(***************************************************************************)
(* Refinement.                                                             *)
(***************************************************************************)

\* The first states are first states of the contract.
LEMMA InitRefines == Init => TQ!Init
BY DEF Init, TQ!Init

\* A commit, and a statement, is the contract's operation; every other step
\* changes no committed row.
LEMMA StepRefines == IInv /\ [Next]_vars => [TQ!Next]_(TQ!vars)
<1> SUFFICES ASSUME IInv, [Next]_vars PROVE TQ!Next \/ UNCHANGED TQ!vars
    OBVIOUS
<1> USE DEF rowVars, TQ!vars
<1>1. ASSUME NEW c \in Client, Open(c) PROVE TQ!Next \/ UNCHANGED TQ!vars
  BY <1>1 DEF Open, OpenProbe, OpenAlter, OpenBackfill, OpenFails, TQ!Next
<1>2. ASSUME NEW c \in Client, NEW t \in Task, Submit(c, t) PROVE TQ!Next
  BY <1>2 DEF Submit, TQ!Next
<1>3. ASSUME NEW c \in Client, NEW t \in HostDriven, MarkRunning(c, t) PROVE TQ!Next
  BY <1>3 DEF MarkRunning, TQ!Next
<1>4. ASSUME NEW c \in Client, NEW t \in Task, NEW s \in TQ!Terminal, MarkDone(c, t, s)
      PROVE  TQ!Next
  BY <1>4 DEF MarkDone, TQ!Next
<1>5. ASSUME NEW c \in Client, ClaimCommit(c) PROVE TQ!Next
  <2> DEFINE S == draft[c]
             stamps == [t \in S |-> lag[t]]
  <2>1. S \in SUBSET Task /\ stamps \in [S -> 0 .. CommitLag]
    BY DEF IInv, TypeOK
  <2>2. \A t \in S : status[t] = "pending"
    BY <1>5 DEF IInv, ClaimTxn, ClaimCommit
  <2>3. TQ!HandOut(c, S, stamps)
    BY <1>5 DEF ClaimCommit, TQ!HandOut
  <2>4. TQ!Claim(c, S, stamps)
    BY <2>2, <2>3 DEF TQ!Claim
  <2> HIDE DEF S, stamps
  <2>5. QED
    BY <2>1, <2>4 DEF TQ!Next
<1>6. ASSUME NEW c \in Client, ReapCommit(c) PROVE TQ!Next
  <2>1. draft[c] \in SUBSET Task
    BY DEF IInv, TypeOK
  <2>2. \A t \in draft[c] : status[t] = "running" /\ (TQ!Expired(t) \/ t \in HostDriven)
    BY <1>6 DEF IInv, ReapTxn, OverdueOrHosts, ReapCommit, TQ!Expired
  <2>3. TQ!Reap(c, draft[c])
    BY <1>6, <2>2 DEF ReapCommit, TQ!Reap
  <2>4. QED
    BY <2>1, <2>3 DEF TQ!Next
<1>7. CASE Tick
  BY <1>7 DEF Tick, TQ!Next
<1>8. ASSUME \/ \E c \in Client, a \in Agent, n \in 1 .. MaxLimit : ClaimBegin(c, a, n)
             \/ \E c \in Client, t \in Task : ClaimUpdate(c, t) \/ ReapUpdate(c, t)
             \/ \E c \in Client : ReapScan(c) \/ ReapBegin(c) \/ OperationRaises(c) \/ Crash(c)
             \/ UNCHANGED vars
      PROVE  UNCHANGED TQ!vars
  BY <1>8 DEF ClaimBegin, ClaimUpdate, ReapUpdate, ReapScan, ReapBegin, OperationRaises,
              Crash, vars
<1>9. QED
  BY <1>1, <1>2, <1>3, <1>4, <1>5, <1>6, <1>7, <1>8 DEF Next

\* Every behaviour of the SQLite backend, with its transactions, its two-part
\* reaper and its crashes, is one of the contract's.
THEOREM Implements == Spec => Contract
BY InitRefines, StepRefines, Invariance, PTL DEF Spec, Contract, TQ!Spec

(***************************************************************************)
(* What the contract guarantees.                                           *)
(*                                                                         *)
(* VerdictStands needs only the types.  The two "once" properties are      *)
(* about steps; the invariant that carries them says which statuses a row  *)
(* can have once it was handed out (ClaimedHasLeft) or reaped (terminal),  *)
(* because Claim takes pending rows and Reap running ones.                 *)
(***************************************************************************)

\* A reaped row does not run, unless its host runs it.
ReapedIsOver == \A t \in Task \ HostDriven : reapedBy[t] # NoClient => status[t] \in TQ!Terminal

QInv == TQ!TypeOK /\ TQ!VerdictStands /\ ClaimedHasLeft /\ ReapedIsOver

\* Every set the type invariant names is closed under the contract's steps.
LEMMA QTypesInductive == TQ!TypeOK /\ [TQ!Next]_(TQ!vars) => TQ!TypeOK'
<1> SUFFICES ASSUME TQ!TypeOK, [TQ!Next]_(TQ!vars) PROVE TQ!TypeOK'
    OBVIOUS
<1> USE DEF TQ!TypeOK
<1>1. ASSUME NEW t \in Task, TQ!Submit(t) PROVE TQ!TypeOK'
  BY <1>1 DEF TQ!Submit, TQ!Status, TQ!Terminal
<1>2. ASSUME NEW c \in Client, NEW S \in SUBSET Task,
             NEW stamps \in [S -> 0 .. CommitLag], TQ!Claim(c, S, stamps)
      PROVE  TQ!TypeOK'
  <2>1. \A t \in S : stamps[t] \in TQ!Age
    BY SqliteAssumption DEF TQ!Age, TQ!NoLease
  <2>2. age' \in [Task -> TQ!Age]
    BY <1>2, <2>1 DEF TQ!Claim, TQ!HandOut
  <2>3. QED
    BY <1>2, <2>2 DEF TQ!Claim, TQ!HandOut, TQ!Status
<1>3. ASSUME NEW t \in HostDriven, TQ!MarkRunning(t) PROVE TQ!TypeOK'
  <2>1. 0 \in TQ!Age
    BY SqliteAssumption DEF TQ!Age
  <2>2. QED
    BY <1>3, <2>1 DEF TQ!MarkRunning, TQ!Status
<1>4. ASSUME NEW c \in Client, NEW t \in Task, NEW s \in TQ!Terminal, TQ!MarkDone(c, t, s)
      PROVE  TQ!TypeOK'
  BY <1>4 DEF TQ!MarkDone, TQ!Status, TQ!Age
<1>5. ASSUME NEW c \in Client, NEW S \in SUBSET Task, TQ!Reap(c, S) PROVE TQ!TypeOK'
  BY <1>5 DEF TQ!Reap, TQ!FailOrphans, TQ!Status, TQ!Terminal, TQ!Age
<1>6. ASSUME TQ!GrantLeases PROVE TQ!TypeOK'
  <2>1. 0 \in TQ!Age
    BY SqliteAssumption DEF TQ!Age
  <2>2. QED
    BY <1>6, <2>1 DEF TQ!GrantLeases
<1>7. ASSUME TQ!Tick PROVE TQ!TypeOK'
  BY <1>7, OlderIsAge DEF TQ!Tick
<1>8. ASSUME UNCHANGED TQ!vars PROVE TQ!TypeOK'
  BY <1>8 DEF TQ!vars
<1>9. QED
  BY <1>1, <1>2, <1>3, <1>4, <1>5, <1>6, <1>7, <1>8 DEF TQ!Next

\* The invariant holds in every initial state.
LEMMA QInvInitially == TQ!Init => QInv
<1> SUFFICES ASSUME TQ!Init PROVE QInv
    OBVIOUS
<1>1. TQ!TypeOK
  BY DEF TQ!Init, TQ!TypeOK, TQ!Status, TQ!Age
<1>2. QED
  BY <1>1 DEF TQ!Init, QInv, TQ!VerdictStands, ClaimedHasLeft, ReapedIsOver

\* One step per operation; each keeps the verdicts and the two statements on
\* statuses because of the status its guard asks for.
LEMMA QInvInductive == QInv /\ [TQ!Next]_(TQ!vars) => QInv'
<1> SUFFICES ASSUME QInv, [TQ!Next]_(TQ!vars) PROVE QInv'
    OBVIOUS
<1>0. TQ!TypeOK'
  BY QTypesInductive DEF QInv
<1> DEFINE Kept == TQ!VerdictStands' /\ ClaimedHasLeft' /\ ReapedIsOver'
<1> USE DEF QInv, TQ!TypeOK, TQ!VerdictStands, ClaimedHasLeft, ReapedIsOver
<1>1. ASSUME NEW t \in Task, TQ!Submit(t) PROVE Kept
  BY <1>1 DEF TQ!Submit, TQ!Terminal
<1>2. ASSUME NEW c \in Client, NEW S \in SUBSET Task,
             NEW stamps \in [S -> 0 .. CommitLag], TQ!Claim(c, S, stamps)
      PROVE  Kept
  BY <1>2 DEF TQ!Claim, TQ!HandOut, TQ!Terminal
<1>3. ASSUME NEW t \in HostDriven, TQ!MarkRunning(t) PROVE Kept
  BY <1>3, SqliteAssumption DEF TQ!MarkRunning
<1>4. ASSUME NEW c \in Client, NEW t \in Task, NEW s \in TQ!Terminal, TQ!MarkDone(c, t, s)
      PROVE  Kept
  BY <1>4 DEF TQ!MarkDone, TQ!Terminal
<1>5. ASSUME NEW c \in Client, NEW S \in SUBSET Task, TQ!Reap(c, S) PROVE Kept
  BY <1>5 DEF TQ!Reap, TQ!FailOrphans, TQ!Terminal
<1>6. ASSUME TQ!GrantLeases PROVE Kept
  BY <1>6 DEF TQ!GrantLeases
<1>7. ASSUME TQ!Tick PROVE Kept
  BY <1>7 DEF TQ!Tick
<1>8. ASSUME UNCHANGED TQ!vars PROVE Kept
  BY <1>8 DEF TQ!vars
<1>9. Kept
  BY <1>1, <1>2, <1>3, <1>4, <1>5, <1>6, <1>7, <1>8 DEF TQ!Next
<1>10. QED
  BY <1>0, <1>9

\* The invariant holds in every reachable state.
LEMMA ContractInvariance == TQ!Spec => []QInv
<1>1. QInv /\ [TQ!Next]_(TQ!vars) => QInv'
  BY QInvInductive
<1>2. QED
  BY QInvInitially, <1>1, PTL DEF TQ!Spec

\* Every reachable state of the contract is of the declared types.
THEOREM ContractTypeCorrect == TQ!Spec => []TQ!TypeOK
<1>1. QInv => TQ!TypeOK
  BY DEF QInv
<1>2. QED
  BY <1>1, ContractInvariance, PTL

\* What mark_done recorded is never overwritten by a reaper (reap_stale's
\* AND status='running').
THEOREM ContractVerdictsStand == TQ!Spec => []TQ!VerdictStands
<1>1. QInv => TQ!VerdictStands
  BY DEF QInv
<1>2. QED
  BY <1>1, ContractInvariance, PTL

\* claim_pending hands a row out at most once in its life.
THEOREM ContractClaimsAreOnce == TQ!Spec => TQ!ClaimedOnce
<1> DEFINE Step == \A t \in Task : claimant[t] # NoClient => claimant'[t] = claimant[t]
<1>1. QInv /\ [TQ!Next]_(TQ!vars) => [Step]_(TQ!vars)
  <2> SUFFICES ASSUME QInv, TQ!Next PROVE Step
      OBVIOUS
  <2> USE DEF QInv, TQ!TypeOK, ClaimedHasLeft
  <2>1. ASSUME NEW c \in Client, NEW S \in SUBSET Task,
               NEW stamps \in [S -> 0 .. CommitLag], TQ!Claim(c, S, stamps)
        PROVE  Step
    BY <2>1 DEF TQ!Claim, TQ!HandOut
  <2>2. ASSUME UNCHANGED claimant PROVE Step
    BY <2>2
  <2>3. QED
    BY <2>1, <2>2 DEF TQ!Next, TQ!Submit, TQ!MarkRunning, TQ!MarkDone, TQ!Reap, TQ!FailOrphans, TQ!GrantLeases,
                      TQ!Tick
<1>2. QED
  BY <1>1, ContractInvariance, PTL DEF TQ!Spec, TQ!ClaimedOnce

\* A lost claim is reported by one reaper, and the row is over with it.
THEOREM ContractReapsAreOnce == TQ!Spec => TQ!ReapedOnce
<1> DEFINE Step == \A t \in Task \ HostDriven :
                     reapedBy[t] # NoClient =>
                       reapedBy'[t] = reapedBy[t] /\ status'[t] \in TQ!Terminal
<1>1. QInv /\ [TQ!Next]_(TQ!vars) => [Step]_(TQ!vars)
  <2> SUFFICES ASSUME QInv, QInv', TQ!Next PROVE Step
      BY QInvInductive
  <2> USE DEF QInv, TQ!TypeOK, ReapedIsOver
  <2>1. ASSUME NEW c \in Client, NEW S \in SUBSET Task, TQ!Reap(c, S) PROVE Step
    BY <2>1 DEF TQ!Reap, TQ!FailOrphans, TQ!Terminal
  <2>2. ASSUME UNCHANGED reapedBy PROVE Step
    BY <2>2
  <2>3. QED
    BY <2>1, <2>2 DEF TQ!Next, TQ!Submit, TQ!Claim, TQ!HandOut, TQ!MarkRunning, TQ!MarkDone, TQ!GrantLeases, TQ!Tick
<1>2. QED
  BY <1>1, ContractInvariance, PTL DEF TQ!Spec, TQ!ReapedOnce

(***************************************************************************)
(* And with it the backend: what holds of every behaviour of the contract  *)
(* holds of the backend's.                                                 *)
(***************************************************************************)

\* No reaper of the backend, whatever it read before a row finished, overwrites
\* what mark_done recorded (queue.py, reap_stale).
THEOREM VerdictsStand == Spec => []TQ!VerdictStands
BY Implements, ContractVerdictsStand, PTL DEF Contract

\* Through any crash, error, reap or late finish, claim_pending of the backend
\* hands a row out at most once in its life (queue.py, claim_pending).
THEOREM ClaimsAreOnce == Spec => TQ!ClaimedOnce
BY Implements, ContractClaimsAreOnce, PTL DEF Contract

\* Two reapers of the backend never both report a row (queue.py, reap_stale).
THEOREM ReapsAreOnce == Spec => TQ!ReapedOnce
BY Implements, ContractReapsAreOnce, PTL DEF Contract

(***************************************************************************)
(* Oldest first.  The SELECT orders what is pending when it runs; the lock *)
(* keeps every other writer out until COMMIT, so no row it left behind is  *)
(* older than one it took, and none was added.                             *)
(***************************************************************************)

\* What c has taken, updated or not.
Taken(c) == ids[c] \cup draft[c]

\* No row of the agent that the claim of c left behind is older.
OldestTaken(c) ==
    \A t \in Taken(c), u \in Task \ Taken(c) :
      status[u] = "pending" /\ AgentOf[u] = AgentOf[t] => created[t] <= created[u]

TakenInOrder == \A c \in Client : pc[c] = "claiming" => OldestTaken(c)

\* A claim goes on while its rows, and all the others, stay as they are.
LEMMA ClaimGoesOn ==
    ASSUME IInv, Next, NEW c \in Client, pc'[c] = "claiming",
           ~ \E a \in Agent, n \in 1 .. MaxLimit : ClaimBegin(c, a, n)
    PROVE  pc[c] = "claiming" /\ UNCHANGED <<status, created, Taken(c)>>
<1> DEFINE Same == pc[c] = "claiming" /\ UNCHANGED <<status, created, Taken(c)>>
<1>0. pc \in [Client -> {"closed", "alter", "backfill", "idle", "scanned"} \cup InTransaction]
      /\ ids \in [Client -> SUBSET Task] /\ draft \in [Client -> SUBSET Task]
  BY DEF IInv, TypeOK
<1>1. ASSUME pc[c] # "claiming" PROVE FALSE
  BY <1>0, <1>1
  DEF Next, Open, OpenProbe, OpenAlter, OpenBackfill, OpenFails, Submit, MarkRunning, MarkDone,
      ClaimBegin, ClaimUpdate, ClaimCommit, ReapScan, ReapBegin, ReapUpdate, ReapCommit,
      OperationRaises, Crash, Rollback, Tick, Goto
<1>2. writer = c /\ c # NoClient
  BY <1>1, SqliteAssumption DEF IInv, LockDiscipline, InTransaction
<1>3. ASSUME NEW d \in Client, d # c, pc[d] \in InTransaction PROVE FALSE
  BY <1>2, <1>3 DEF IInv, LockDiscipline
<1>4. ASSUME NEW d \in Client, Open(d) PROVE Same
  BY <1>0, <1>1, <1>2, <1>4 DEF Open, OpenProbe, OpenAlter, OpenBackfill, OpenFails, Taken,
                                rowVars, timeVars, txnVars
<1>5. ASSUME NEW d \in Client, NEW t \in Task, ClaimUpdate(d, t) \/ ReapUpdate(d, t) PROVE Same
  <2>1. d = c
    BY <1>3, <1>5 DEF ClaimUpdate, ReapUpdate, InTransaction
  <2>. QED
    BY <1>0, <1>1, <1>5, <2>1 DEF ClaimUpdate, ReapUpdate, Taken, rowVars, timeVars
<1>6. ASSUME NEW d \in Client, ClaimCommit(d) \/ ReapCommit(d) PROVE FALSE
  <2>1. d = c
    BY <1>3, <1>6 DEF ClaimCommit, ReapCommit, InTransaction
  <2>. QED
    BY <1>0, <1>6, <2>1 DEF ClaimCommit, ReapCommit, Goto
<1>7. ASSUME NEW d \in Client, ReapScan(d) PROVE Same
  <2>1. d # c
    BY <1>1, <1>7 DEF ReapScan
  <2>. QED
    BY <1>0, <1>1, <1>7, <2>1 DEF ReapScan, Taken, rowVars, timeVars
<1>8. ASSUME NEW d \in Client, OperationRaises(d) \/ Crash(d) PROVE Same
  <2>1. d # c
    BY <1>0, <1>8 DEF OperationRaises, Crash, Rollback, Goto
  <2>. QED
    BY <1>0, <1>1, <1>8, <2>1 DEF OperationRaises, Crash, Rollback, Taken, rowVars, timeVars
<1>9. CASE Tick
  BY <1>1, <1>9 DEF Tick, TQ!Tick, Taken
<1>10. ASSUME NEW d \in Client, NEW a \in Agent, NEW n \in 1 .. MaxLimit PROVE ~ClaimBegin(d, a, n)
  BY <1>2 DEF ClaimBegin
<1>11. ASSUME NEW d \in Client PROVE ~ReapBegin(d) /\ \A t \in Task : ~Submit(d, t) /\ ~MarkRunning(d, t)
                                      /\ \A s \in TQ!Terminal : ~MarkDone(d, t, s)
  BY <1>2 DEF ReapBegin, Submit, MarkRunning, MarkDone
<1> QED
  BY <1>4, <1>5, <1>6, <1>7, <1>8, <1>9, <1>10, <1>11, SqliteAssumption DEF Next

\* The SELECT takes the oldest, and what it took stays the oldest.
LEMMA OrderKept == IInv /\ TakenInOrder /\ [Next]_vars => TakenInOrder'
<1> SUFFICES ASSUME IInv, TakenInOrder, [Next]_vars, NEW c \in Client, pc'[c] = "claiming"
             PROVE  OldestTaken(c)'
    BY DEF TakenInOrder
<1>1. CASE UNCHANGED vars
  BY <1>1 DEF vars, rowVars, timeVars, txnVars, TakenInOrder, OldestTaken, Taken
<1>2. ASSUME NEW a \in Agent, NEW n \in 1 .. MaxLimit, ClaimBegin(c, a, n) PROVE OldestTaken(c)'
  <2>1. PICK S \in SUBSET PendingOf(a) : Selected(S, a, n) /\ ids' = [ids EXCEPT ![c] = S]
    BY <1>2 DEF ClaimBegin
  <2>2. draft[c] = {}
    BY <1>2, NobodyWrites DEF ClaimBegin
  <2>3. Taken(c)' = S /\ UNCHANGED <<status, created>>
    BY <1>2, <2>1, <2>2 DEF ClaimBegin, Taken, IInv, TypeOK, rowVars, timeVars
  <2>. QED
    BY <2>1, <2>3 DEF OldestTaken, Selected, PendingOf
<1>3. CASE Next /\ ~ \E a \in Agent, n \in 1 .. MaxLimit : ClaimBegin(c, a, n)
  <2>1. pc[c] = "claiming" /\ UNCHANGED <<status, created, Taken(c)>>
    BY <1>3, ClaimGoesOn
  <2>. QED
    BY <2>1 DEF TakenInOrder, OldestTaken
<1> QED
  BY <1>1, <1>2, <1>3

\* A claim that commits leaves no pending row of its agent behind that was
\* created in an earlier second, however many processes submit, claim, reap and
\* fail around it (queue.py, claim_pending's ORDER BY under BEGIN IMMEDIATE).
THEOREM ClaimsTakeTheOldest == Spec => OldestFirst
<1> DEFINE Step == \A t, u \in Task :
                     /\ claimant[t] = NoClient /\ claimant'[t] # NoClient
                     /\ AgentOf[u] = AgentOf[t] /\ status'[u] = "pending"
                     => created[t] <= created'[u]
<1>1. Init => TakenInOrder
  BY DEF Init, TakenInOrder
<1>2. IInv /\ TakenInOrder /\ [Next]_vars => [Step]_vars
  <2> SUFFICES ASSUME IInv, TakenInOrder, Next PROVE Step
      OBVIOUS
  <2>1. ASSUME NEW c \in Client, ClaimCommit(c) PROVE Step
    <3>1. OldestTaken(c) /\ Taken(c) = draft[c]
      BY <2>1 DEF ClaimCommit, TakenInOrder, Taken
    <3>2. \A t \in Task :
            /\ t \notin draft[c] => claimant'[t] = claimant[t] /\ status'[t] = status[t]
            /\ t \in draft[c] => status'[t] = "running"
      BY <2>1 DEF ClaimCommit, TQ!HandOut, IInv, TypeOK, TQ!TypeOK
    <3>3. UNCHANGED created
      BY <2>1 DEF ClaimCommit, timeVars
    <3>4. ASSUME NEW t \in Task, NEW u \in Task,
                 claimant[t] = NoClient /\ claimant'[t] # NoClient,
                 AgentOf[u] = AgentOf[t] /\ status'[u] = "pending"
          PROVE  created[t] <= created'[u]
      <4>1. t \in draft[c]
        BY <3>2, <3>4
      <4>2. u \notin draft[c] /\ status[u] = "pending"
        BY <3>2, <3>4
      <4>. QED
        BY <3>1, <3>3, <3>4, <4>1, <4>2 DEF OldestTaken
    <3>. QED
      BY <3>4
  <2>2. ASSUME UNCHANGED claimant PROVE Step
    BY <2>2
  <2>. QED
    BY <2>1, <2>2
    DEF Next, Open, OpenProbe, OpenAlter, OpenBackfill, OpenFails, Submit, MarkRunning, MarkDone,
        ClaimBegin, ClaimUpdate, ReapScan, ReapBegin, ReapUpdate, ReapCommit, OperationRaises,
        Crash, Tick, rowVars, TQ!Submit, TQ!MarkRunning, TQ!MarkDone, TQ!GrantLeases,
        TQ!FailOrphans, TQ!Tick
<1> QED
  BY <1>1, <1>2, OrderKept, Invariance, PTL DEF Spec, OldestFirst
=============================================================================
