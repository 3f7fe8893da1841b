------------------------- MODULE RunWorker_proofs -------------------------
(***************************************************************************)
(* What run_worker guarantees for every number of rows, processes, slots   *)
(* and faults, with no assumption on how fast anything runs; and, with     *)
(* one, that the reaper never takes a row from a live process.             *)
(*                                                                         *)
(* The argument is ownership.  A row that a process is working on was      *)
(* claimed by that process, has no verdict and is in one place of it       *)
(* (Ownership); since a claimed row is never pending again, no other       *)
(* process can get it, and it is executed at most once.  A running row     *)
(* leaves its process's hands only through mark_done or into lost          *)
(* (RunningIsAccountedFor).                                                *)
(***************************************************************************)
EXTENDS RunWorker, FiniteSetTheorems, TLAPS

Fresh(t) == status[t] \in {"absent", "pending"}

\* Claimed rows are exactly those that left 'pending'.
ClaimedHasLeft == \A t \in Task : claimant[t] = NoProc <=> Fresh(t)

\* A process works only on rows it claimed and has not finished; a row waiting
\* for its dispatch is not in the pool yet.
Ownership ==
    \A w \in Proc, t \in Task :
      /\ stage[w][t] # "none" => claimant[t] = w
      /\ stage[w][t] \in {"queued", "exec"} => verdict[t] = "none"
      /\ t \in todo[w] => /\ claimant[t] = w /\ verdict[t] = "none"
                          /\ stage[w][t] = "none"

\* A running row is with its process, or was abandoned in a way the code has:
\* killed, open raised, or mark_done raised.
RunningIsAccountedFor ==
    \A t \in Task : status[t] = "running" =>
      t \in lost \/ (claimant[t] # NoProc /\ t \in Working(claimant[t]))

\* Rows are abandoned, and the queue is down, only where something failed.
FaultsAreCounted == faults \in Nat /\ (faults = 0 => queueUp /\ lost = {})

\* A row not yet handed to a thread has not been executed.
NotYetRun ==
    \A t \in Task :
      /\ Fresh(t) => runs[t] = 0
      /\ \A w \in Proc : t \in todo[w] \/ stage[w][t] = "queued" => runs[t] = 0

OnlyDispatchHasTodo == \A w \in Proc : pc[w] # "dispatch" => todo[w] = {}

\* What a reaper's scan found is, if still running, expired.
Candidates ==
    \A w \in Proc : \A t \in candidates[w] : ~Fresh(t) /\ (status[t] = "running" => age[t] > Lease)

\* How a row came to be terminal.
TerminalHow ==
    \A t \in Task :
      /\ verdict[t] # "none" => status[t] = verdict[t]
      /\ status[t] \in Q!Terminal => verdict[t] # "none" \/ reapedBy[t] # NoProc

IInv ==
    /\ TypeOK
    /\ ClaimedHasLeft
    /\ Ownership
    /\ NotYetRun
    /\ RunAtMostOnce
    /\ OnlyDispatchHasTodo
    /\ Candidates
    /\ TerminalHow
    /\ RunningIsAccountedFor

\* The invariant holds in every initial state.
LEMMA IInvInitially == Init => IInv
<1> SUFFICES ASSUME Init PROVE IInv
    OBVIOUS
<1>1. TypeOK
  BY RunWorkerAssumption
  DEF Init, TypeOK, Q!TypeOK, Q!Status, Q!Terminal, Q!Age, Q!NoLease, LoopAt, Stage
<1>2. QED
  BY <1>1, RunWorkerAssumption
  DEF Init, IInv, ClaimedHasLeft, Fresh, Ownership, NotYetRun, RunAtMostOnce,
      OnlyDispatchHasTodo, Candidates, TerminalHow, RunningIsAccountedFor, Q!Terminal

\* Ages saturate one above the lease: a row that has expired stays expired.
LEMMA OlderIsAge == \A a \in Q!Age : Q!Older(a) \in Q!Age /\ (a > Lease => Q!Older(a) > Lease)
BY RunWorkerAssumption DEF Q!Older, Q!Age, Q!NoLease

\* A fault is counted up to its bound.
LEMMA FaultCounts ==
    ASSUME faults \in 0 .. MaxFaults, NEW kind, Fault(kind)
    PROVE  faults' \in 0 .. MaxFaults
BY RunWorkerAssumption DEF Fault

\* The first half of reap_stale remembers rows that are running and expired.
LEMMA ScanKeeps ==
    ASSUME IInv, NEW w \in Proc, ReapScan(w)
    PROVE  IInv'
<1>1. Stale \subseteq Task /\ \A t \in Stale : status[t] = "running" /\ age[t] > Lease
  BY DEF Stale, Q!Expired
<1>2. /\ UNCHANGED <<queueVars, envVars, lastClaimOk, tickOk, free, todo, poolVars, lost>>
      /\ pc[w] = "scan"
  BY DEF ReapScan
<1>3. PICK found \in SUBSET Stale, there \in {"reap", "free"} :
        /\ candidates' = [candidates EXCEPT ![w] = found] \/ candidates' = candidates
        /\ pc' = [pc EXCEPT ![w] = there]
  <2>1. CASE queueUp /\ Stale # {}
    BY <2>1 DEF ReapScan, Goto
  <2>2. CASE ~(queueUp /\ Stale # {})
    BY <2>2 DEF ReapScan, Goto
  <2>3. QED
    BY <2>1, <2>2
<1>4. \A v \in Proc : candidates'[v] \subseteq candidates[v] \cup Stale
  BY <1>3 DEF IInv, TypeOK
<1>5. TypeOK'
  BY <1>1, <1>2, <1>3
  DEF IInv, TypeOK, Q!TypeOK, queueVars, envVars, poolVars, LoopAt
<1>6. Candidates'
  BY <1>1, <1>2, <1>4 DEF IInv, Candidates, Fresh, queueVars
<1>7. OnlyDispatchHasTodo'
  BY <1>2, <1>3 DEF IInv, TypeOK, OnlyDispatchHasTodo
<1>8. /\ ClaimedHasLeft' /\ Ownership' /\ NotYetRun' /\ RunAtMostOnce' /\ TerminalHow'
      /\ RunningIsAccountedFor'
  BY <1>2
  DEF IInv, queueVars, poolVars, ClaimedHasLeft, Fresh, Ownership, NotYetRun, RunAtMostOnce,
      TerminalHow, RunningIsAccountedFor, Working
<1>9. QED
  BY <1>5, <1>6, <1>7, <1>8 DEF IInv

\* The steps of the loop that leave the rows alone.
LEMMA LoopKeeps ==
    ASSUME IInv, NEW w \in Proc,
           \/ Start(w) \/ Beat(w) \/ BeatRaises(w) \/ ReapScan(w) \/ ReadFree(w)
           \/ ClaimRaises(w) \/ Check(w) \/ Drain(w)
    PROVE  IInv'
<1> USE RunWorkerAssumption
    DEF IInv, TypeOK, Q!TypeOK, ClaimedHasLeft, Fresh, Ownership, NotYetRun, RunAtMostOnce,
        OnlyDispatchHasTodo, Candidates, TerminalHow, RunningIsAccountedFor, Working,
        queueVars, envVars, loopVars, poolVars, Goto, LoopAt, Fault
<1>1. CASE Start(w)
  BY <1>1 DEF Start
<1>2. CASE Beat(w)
  BY <1>2 DEF Beat
<1>3. CASE BeatRaises(w)
  BY <1>3 DEF BeatRaises
<1>4. CASE ReapScan(w)
  BY <1>4, ScanKeeps
<1>5. CASE ReadFree(w)
  <2> HIDE DEF IInv, Ownership
  <2>1. inFlight[w] \in SUBSET Task /\ Slots[w] \in Nat
    BY DEF IInv
  <2>2. Slots[w] - Cardinality(inFlight[w]) \in Int
    BY <2>1, FS_CardinalityType, FS_Subset
  <2> USE DEF IInv, Ownership
  <2>3. free' \in [Proc -> Nat]
    BY <1>5, <2>2 DEF ReadFree
  <2>4. QED
    BY <1>5, <2>3 DEF ReadFree
<1>6. CASE ClaimRaises(w)
  BY <1>6 DEF ClaimRaises
<1>7. CASE Check(w)
  BY <1>7 DEF Check
<1>8. CASE Drain(w)
  BY <1>8 DEF Drain
<1>9. QED
  BY <1>1, <1>2, <1>3, <1>4, <1>5, <1>6, <1>7, <1>8

\* The second half of reap_stale: rows still running become 'failed'.
LEMMA ReapKeeps ==
    ASSUME IInv, NEW w \in Proc, ReapUpdate(w)
    PROVE  IInv'
<1> DEFINE R == IF queueUp THEN {t \in candidates[w] : status[t] = "running"} ELSE {}
<1>1. R \subseteq Task /\ \A t \in R : status[t] = "running"
  BY DEF IInv, TypeOK
<1>2. /\ status \in [Task -> Q!Status] /\ age \in [Task -> Q!Age]
      /\ reapedBy \in [Task -> Proc \cup {NoProc}]
  BY DEF IInv, TypeOK, Q!TypeOK
<1>3. /\ status' = [t \in Task |-> IF t \in R THEN "failed" ELSE status[t]]
      /\ age' = [t \in Task |-> IF t \in R THEN Q!NoLease ELSE age[t]]
      /\ reapedBy' = [t \in Task |-> IF t \in R THEN w ELSE reapedBy[t]]
      /\ UNCHANGED <<claimant, verdict>>
  BY <1>2 DEF ReapUpdate, Q!FailOrphans, queueVars
<1>4. UNCHANGED <<stage, runs, todo, inFlight, lost, queueUp, faults, free, lastClaimOk, tickOk>>
  BY DEF ReapUpdate, envVars, poolVars
<1>5. /\ candidates' = [candidates EXCEPT ![w] = {}]
      /\ pc[w] = "reap" /\ pc' = [pc EXCEPT ![w] = "free"]
  BY DEF ReapUpdate, Goto
<1> HIDE DEF R
<1>6. TypeOK'
  BY <1>1, <1>3, <1>4, <1>5
  DEF IInv, TypeOK, Q!TypeOK, Q!Status, Q!Terminal, Q!Age, LoopAt
<1>7. ClaimedHasLeft' /\ NotYetRun' /\ RunAtMostOnce'
  BY <1>1, <1>3, <1>4
  DEF IInv, TypeOK, Q!TypeOK, ClaimedHasLeft, NotYetRun, RunAtMostOnce, Fresh
<1>8. Ownership' /\ OnlyDispatchHasTodo'
  BY <1>3, <1>4, <1>5 DEF IInv, TypeOK, Ownership, OnlyDispatchHasTodo
<1>9. Candidates'
  BY <1>1, <1>3, <1>5 DEF IInv, TypeOK, Candidates, Fresh
<1>10. TerminalHow'
  BY <1>1, <1>3, RunWorkerAssumption DEF IInv, TypeOK, Q!TypeOK, TerminalHow, Q!Terminal
<1>11. RunningIsAccountedFor'
  BY <1>1, <1>3, <1>4 DEF IInv, RunningIsAccountedFor, Working
<1>12. QED
  BY <1>6, <1>7, <1>8, <1>9, <1>10, <1>11 DEF IInv

\* A claim takes fresh rows, which nobody works on.
LEMMA ClaimKeeps ==
    ASSUME IInv, NEW w \in Proc, ClaimRows(w)
    PROVE  IInv'
<1> PICK S \in SUBSET PendingFor(w) :
        /\ Q!Claim(w, S, [t \in S |-> 0])
        /\ todo' = [todo EXCEPT ![w] = S]
        /\ Goto(w, IF S = {} THEN "check" ELSE "dispatch")
    BY DEF ClaimRows
<1>1. S \subseteq Task /\ \A t \in S : status[t] = "pending" /\ claimant[t] = NoProc
  BY DEF PendingFor, IInv, ClaimedHasLeft, Fresh
<1>2. /\ status' = [t \in Task |-> IF t \in S THEN "running" ELSE status[t]]
      /\ age' = [t \in Task |-> IF t \in S THEN 0 ELSE age[t]]
      /\ claimant' = [t \in Task |-> IF t \in S THEN w ELSE claimant[t]]
      /\ UNCHANGED <<verdict, reapedBy>>
  BY DEF Q!Claim, Q!HandOut
<1>3. UNCHANGED <<stage, runs, inFlight, lost, queueUp, faults, candidates, tickOk>>
  BY DEF ClaimRows, envVars, poolVars
<1>4. /\ todo' = [todo EXCEPT ![w] = S]
      /\ pc' = [pc EXCEPT ![w] = IF S = {} THEN "check" ELSE "dispatch"]
      /\ free' = [free EXCEPT ![w] = 0]
      /\ lastClaimOk' = [lastClaimOk EXCEPT ![w] = TRUE]
      /\ pc[w] = "claim"
  BY DEF ClaimRows, Goto
<1>5. TypeOK'
  <2>1. 0 \in Q!Age
    BY RunWorkerAssumption DEF Q!Age
  <2>2. Q!TypeOK'
    BY <1>1, <1>2, <2>1 DEF IInv, TypeOK, Q!TypeOK, Q!Status
  <2>3. QED
    BY <1>1, <1>3, <1>4, <2>2 DEF IInv, TypeOK, LoopAt
<1>6. ClaimedHasLeft' /\ RunAtMostOnce'
  BY <1>1, <1>2, <1>3, RunWorkerAssumption DEF IInv, ClaimedHasLeft, RunAtMostOnce, Fresh
<1>7. NotYetRun'
  BY <1>1, <1>2, <1>3, <1>4 DEF IInv, TypeOK, NotYetRun, Fresh
<1>8. Ownership'
  <2>1. \A v \in Proc, t \in Task : stage[v][t] # "none" \/ t \in todo[v] => t \notin S
    BY <1>1, RunWorkerAssumption DEF IInv, Ownership
  <2>2. \A t \in S : verdict[t] = "none" /\ stage[w][t] = "none"
    BY <1>1, <2>1 DEF IInv, TypeOK, Q!TypeOK, TerminalHow, Q!Terminal
  <2>3. \A v \in Proc : todo'[v] = IF v = w THEN S ELSE todo[v]
    BY <1>4 DEF IInv, TypeOK
  <2>4. \A t \in Task : claimant'[t] = IF t \in S THEN w ELSE claimant[t]
    BY <1>2
  <2>5. QED
    BY <1>1, <1>2, <1>3, <2>1, <2>2, <2>3, <2>4 DEF IInv, Ownership
<1>9. OnlyDispatchHasTodo'
  BY <1>4 DEF IInv, TypeOK, OnlyDispatchHasTodo
<1>10. Candidates'
  BY <1>1, <1>2, <1>3 DEF IInv, TypeOK, Candidates, Fresh
<1>11. TerminalHow'
  BY <1>1, <1>2 DEF IInv, TypeOK, Q!TypeOK, TerminalHow, Q!Terminal
<1>12. RunningIsAccountedFor'
  <2>1. \A v \in Proc : v # w => Working(v)' = Working(v)
    BY <1>3, <1>4 DEF Working, IInv, TypeOK
  <2>2. Working(w)' = S \cup Working(w)
    BY <1>3, <1>4 DEF Working, IInv, TypeOK, OnlyDispatchHasTodo
  <2>3. QED
    BY <1>1, <1>2, <1>3, <2>1, <2>2, RunWorkerAssumption
    DEF IInv, TypeOK, Q!TypeOK, RunningIsAccountedFor
<1>13. QED
  BY <1>5, <1>6, <1>7, <1>8, <1>9, <1>10, <1>11, <1>12 DEF IInv

\* A claimed row moves from the loop to the pool of the same process.
LEMMA DispatchKeeps ==
    ASSUME IInv, NEW w \in Proc, Dispatch(w)
    PROVE  IInv'
<1> PICK t \in todo[w] :
        /\ todo' = [todo EXCEPT ![w] = @ \ {t}]
        /\ inFlight' = [inFlight EXCEPT ![w] = @ \cup {t}]
        /\ stage' = [stage EXCEPT ![w][t] = "queued"]
        /\ Goto(w, IF todo[w] = {t} THEN "beat" ELSE "dispatch")
    BY DEF Dispatch
<1>1. t \in Task /\ claimant[t] = w /\ verdict[t] = "none" /\ runs[t] = 0
  BY DEF IInv, TypeOK, Ownership, NotYetRun
<1>2. UNCHANGED <<queueVars, queueUp, faults, lastClaimOk, tickOk, candidates, free, runs, lost>>
  BY DEF Dispatch, envVars
<1>3. /\ todo' = [todo EXCEPT ![w] = @ \ {t}]
      /\ stage' = [stage EXCEPT ![w][t] = "queued"]
      /\ pc' = [pc EXCEPT ![w] = IF todo[w] = {t} THEN "beat" ELSE "dispatch"]
  BY DEF Goto
<1>4. /\ \A v \in Proc : todo'[v] = IF v = w THEN todo[w] \ {t} ELSE todo[v]
      /\ \A v \in Proc, u \in Task :
           stage'[v][u] = IF v = w /\ u = t THEN "queued" ELSE stage[v][u]
  BY <1>3 DEF IInv, TypeOK
<1>5. TypeOK'
  BY <1>1, <1>2, <1>3 DEF IInv, TypeOK, Q!TypeOK, queueVars, Stage, LoopAt
<1>6. ClaimedHasLeft' /\ RunAtMostOnce' /\ Candidates' /\ TerminalHow'
  BY <1>2 DEF IInv, queueVars, ClaimedHasLeft, RunAtMostOnce, Candidates, TerminalHow, Fresh
<1>7. Ownership'
  BY <1>1, <1>2, <1>4 DEF IInv, queueVars, Ownership
<1>8. NotYetRun'
  BY <1>1, <1>2, <1>4 DEF IInv, queueVars, NotYetRun, Fresh
<1>9. OnlyDispatchHasTodo'
  BY <1>3 DEF IInv, TypeOK, OnlyDispatchHasTodo
<1>10. RunningIsAccountedFor'
  <2>1. \A v \in Proc : Working(v)' = Working(v)
    BY <1>1, <1>4 DEF IInv, TypeOK, Working
  <2>2. QED
    BY <1>2, <2>1 DEF IInv, TypeOK, Q!TypeOK, queueVars, RunningIsAccountedFor
<1>11. QED
  BY <1>5, <1>6, <1>7, <1>8, <1>9, <1>10 DEF IInv

\* A thread's steps concern one row, which its process owns.
LEMMA ThreadKeeps ==
    ASSUME IInv, NEW w \in Proc, NEW t \in Task, Thread(w, t) \/ OpenRaises(w, t)
    PROVE  IInv'
<1>1. UNCHANGED <<pc, loopVars>>
  BY DEF Thread, OpenEvent, Finish, FinishUnrecorded, Leave, OpenRaises
<1>2. ASSUME NEW there \in Stage \ {"queued"}, stage' = [stage EXCEPT ![w][t] = there]
      PROVE  \A v \in Proc, u \in Task :
               stage'[v][u] = IF v = w /\ u = t THEN there ELSE stage[v][u]
  BY <1>2 DEF IInv, TypeOK
<1>3. CASE OpenEvent(w, t)
  <2>1. /\ \A v \in Proc, u \in Task :
             stage'[v][u] = IF v = w /\ u = t THEN "exec" ELSE stage[v][u]
        /\ stage[w][t] = "queued" /\ runs[t] = 0 /\ claimant[t] = w
    <3>1. stage' = [stage EXCEPT ![w][t] = "exec"] /\ stage[w][t] = "queued"
      BY <1>3 DEF OpenEvent
    <3>2. QED
      BY <3>1 DEF IInv, TypeOK, NotYetRun, Ownership
  <2>2. runs' = [runs EXCEPT ![t] = 1]
    BY <1>3, <2>1 DEF OpenEvent, Counted, Smaller, IInv, TypeOK
  <2>3. UNCHANGED <<queueVars, queueUp, faults, inFlight, lost>>
    BY <1>3 DEF OpenEvent, envVars
  <2>4. TypeOK'
    BY <1>1, <1>3, <2>2, <2>3
    DEF OpenEvent, IInv, TypeOK, Q!TypeOK, queueVars, loopVars, Stage
  <2>5. ClaimedHasLeft' /\ Candidates' /\ TerminalHow' /\ OnlyDispatchHasTodo'
    BY <1>1, <2>3
    DEF IInv, queueVars, loopVars, ClaimedHasLeft, Candidates, TerminalHow, Fresh,
        OnlyDispatchHasTodo
  <2>6. Ownership'
    BY <1>1, <2>1, <2>3 DEF IInv, queueVars, loopVars, Ownership
  <2>7. NotYetRun' /\ RunAtMostOnce'
    <3>1. ~Fresh(t) /\ \A v \in Proc : t \notin todo[v] /\ (v # w => stage[v][t] = "none")
      BY <2>1, RunWorkerAssumption DEF IInv, ClaimedHasLeft, Ownership
    <3>2. QED
      BY <1>1, <2>1, <2>2, <2>3, <3>1
      DEF IInv, TypeOK, queueVars, loopVars, NotYetRun, RunAtMostOnce, Fresh
  <2>8. RunningIsAccountedFor'
    <3>1. \A v \in Proc : Working(v)' = Working(v)
      BY <1>1, <2>1 DEF Working, loopVars
    <3>2. QED
      BY <2>3, <3>1 DEF IInv, TypeOK, Q!TypeOK, queueVars, RunningIsAccountedFor
  <2>9. QED
    BY <2>4, <2>5, <2>6, <2>7, <2>8 DEF IInv
<1>4. CASE Finish(w, t)
  <2> PICK s \in Q!Terminal : Q!MarkDone(w, t, s)
    BY <1>4 DEF Finish
  <2>1. /\ \A v \in Proc, u \in Task :
             stage'[v][u] = IF v = w /\ u = t THEN "leave" ELSE stage[v][u]
        /\ stage[w][t] = "exec" /\ claimant[t] = w
    <3>1. stage' = [stage EXCEPT ![w][t] = "leave"] /\ stage[w][t] = "exec"
      BY <1>4 DEF Finish
    <3>2. QED
      BY <3>1 DEF IInv, TypeOK, Ownership
  <2>2. /\ status' = [status EXCEPT ![t] = s] /\ age' = [age EXCEPT ![t] = Q!NoLease]
        /\ verdict' = [verdict EXCEPT ![t] = s] /\ UNCHANGED <<claimant, reapedBy>>
    BY DEF Q!MarkDone
  <2>3. UNCHANGED <<queueUp, faults, inFlight, runs, lost>>
    BY <1>4 DEF Finish, envVars
  <2>4. TypeOK'
    BY <1>1, <1>4, <2>2, <2>3
    DEF Finish, IInv, TypeOK, Q!TypeOK, Q!Status, Q!Age, loopVars, Stage
  <2>5. ~Fresh(t)
    BY <2>1, RunWorkerAssumption DEF IInv, ClaimedHasLeft
  <2>6. ClaimedHasLeft' /\ RunAtMostOnce' /\ OnlyDispatchHasTodo'
    BY <1>1, <2>2, <2>3, <2>5
    DEF IInv, TypeOK, Q!TypeOK, loopVars, ClaimedHasLeft, RunAtMostOnce, Fresh,
        OnlyDispatchHasTodo, Q!Terminal
  <2>7. Candidates' /\ TerminalHow'
    BY <1>1, <2>2
    DEF IInv, TypeOK, Q!TypeOK, loopVars, Candidates, TerminalHow, Fresh, Q!Terminal
  <2>8. Ownership'
    <3>1. \A v \in Proc : t \notin todo[v] /\ (v # w => stage[v][t] = "none")
      BY <2>1 DEF IInv, Ownership
    <3>2. QED
      BY <1>1, <2>1, <2>2, <3>1 DEF IInv, TypeOK, Q!TypeOK, loopVars, Ownership
  <2>9. NotYetRun'
    BY <1>1, <2>1, <2>2, <2>3, <2>5
    DEF IInv, TypeOK, Q!TypeOK, loopVars, NotYetRun, Fresh, Q!Terminal
  <2>10. RunningIsAccountedFor'
    <3>1. \A v \in Proc, u \in Task : u # t /\ u \in Working(v) => u \in Working(v)'
      BY <1>1, <2>1 DEF Working, loopVars
    <3>2. status'[t] # "running"
      BY <2>2 DEF IInv, TypeOK, Q!TypeOK, Q!Terminal
    <3>3. QED
      BY <2>2, <2>3, <3>1, <3>2 DEF IInv, TypeOK, Q!TypeOK, RunningIsAccountedFor
  <2>11. QED
    BY <2>4, <2>6, <2>7, <2>8, <2>9, <2>10 DEF IInv
<1>5. CASE FinishUnrecorded(w, t) \/ OpenRaises(w, t)
  <2>1. /\ \A v \in Proc, u \in Task :
             stage'[v][u] = IF v = w /\ u = t THEN "leave" ELSE stage[v][u]
        /\ stage[w][t] # "none"
    BY <1>2, <1>5 DEF FinishUnrecorded, OpenRaises, Stage
  <2>2. UNCHANGED <<queueVars, queueUp, inFlight, runs>> /\ lost' = lost \cup {t}
    BY <1>5 DEF FinishUnrecorded, OpenRaises, envVars
  <2>3. TypeOK'
    <3>1. faults' \in 0 .. MaxFaults
      BY <1>5, FaultCounts DEF FinishUnrecorded, OpenRaises, envVars, IInv, TypeOK
    <3>2. stage' = [stage EXCEPT ![w][t] = "leave"]
      BY <1>5 DEF FinishUnrecorded, OpenRaises
    <3>3. QED
      BY <1>1, <2>2, <3>1, <3>2 DEF IInv, TypeOK, Q!TypeOK, queueVars, loopVars, Stage
  <2>4. /\ ClaimedHasLeft' /\ Candidates' /\ TerminalHow' /\ OnlyDispatchHasTodo'
        /\ RunAtMostOnce'
    BY <1>1, <2>2
    DEF IInv, queueVars, loopVars, ClaimedHasLeft, Candidates, TerminalHow, Fresh,
        OnlyDispatchHasTodo, RunAtMostOnce
  <2>5. Ownership' /\ NotYetRun'
    BY <1>1, <2>1, <2>2 DEF IInv, queueVars, loopVars, Ownership, NotYetRun, Fresh
  <2>6. RunningIsAccountedFor'
    <3>1. \A v \in Proc, u \in Task : u # t /\ u \in Working(v) => u \in Working(v)'
      BY <1>1, <2>1 DEF Working, loopVars
    <3>2. QED
      BY <2>2, <3>1 DEF IInv, TypeOK, Q!TypeOK, queueVars, RunningIsAccountedFor
  <2>7. QED
    BY <2>3, <2>4, <2>5, <2>6 DEF IInv
<1>6. CASE Leave(w, t)
  <2>1. /\ \A v \in Proc, u \in Task :
             stage'[v][u] = IF v = w /\ u = t THEN "none" ELSE stage[v][u]
        /\ stage[w][t] = "leave"
    BY <1>2, <1>6 DEF Leave, Stage
  <2>2. UNCHANGED <<queueVars, queueUp, faults, runs, lost>>
    BY <1>6 DEF Leave, envVars
  <2>3. TypeOK'
    BY <1>1, <1>6, <2>2 DEF Leave, IInv, TypeOK, Q!TypeOK, queueVars, loopVars, Stage
  <2>4. /\ ClaimedHasLeft' /\ Candidates' /\ TerminalHow' /\ OnlyDispatchHasTodo'
        /\ RunAtMostOnce'
    BY <1>1, <2>2
    DEF IInv, queueVars, loopVars, ClaimedHasLeft, Candidates, TerminalHow, Fresh,
        OnlyDispatchHasTodo, RunAtMostOnce
  <2>5. Ownership' /\ NotYetRun'
    BY <1>1, <2>1, <2>2 DEF IInv, queueVars, loopVars, Ownership, NotYetRun, Fresh
  <2>6. RunningIsAccountedFor'
    <3>1. \A v \in Proc : Working(v)' = Working(v)
      BY <1>1, <2>1 DEF Working, loopVars
    <3>2. QED
      BY <2>2, <3>1 DEF IInv, TypeOK, Q!TypeOK, queueVars, RunningIsAccountedFor
  <2>7. QED
    BY <2>3, <2>4, <2>5, <2>6 DEF IInv
<1>7. QED
  BY <1>3, <1>4, <1>5, <1>6 DEF Thread

\* A crash turns what the process was working on into lost rows.
LEMMA CrashKeeps ==
    ASSUME IInv, NEW w \in Proc, Crash(w)
    PROVE  IInv'
<1>1. /\ UNCHANGED <<queueVars, queueUp, tickOk, runs>>
      /\ lost' = lost \cup Working(w)
      /\ faults' \in 0 .. MaxFaults
      /\ Working(w) \subseteq Task
  BY RunWorkerAssumption DEF Crash, Fault, IInv, TypeOK, Working
<1>2. /\ \A v \in Proc : /\ pc'[v] = IF v = w THEN "down" ELSE pc[v]
                         /\ todo'[v] = IF v = w THEN {} ELSE todo[v]
                         /\ candidates'[v] = IF v = w THEN {} ELSE candidates[v]
      /\ \A v \in Proc, u \in Task : stage'[v][u] = IF v = w THEN "none" ELSE stage[v][u]
  BY DEF Crash, Goto, IInv, TypeOK
<1>3. TypeOK'
  BY <1>1 DEF Crash, Goto, IInv, TypeOK, Q!TypeOK, queueVars, LoopAt, Stage
<1>4. ClaimedHasLeft' /\ RunAtMostOnce' /\ TerminalHow'
  BY <1>1 DEF IInv, queueVars, ClaimedHasLeft, RunAtMostOnce, TerminalHow, Fresh
<1>5. Candidates' /\ OnlyDispatchHasTodo'
  BY <1>1, <1>2 DEF IInv, queueVars, Candidates, OnlyDispatchHasTodo, Fresh
<1>6. Ownership' /\ NotYetRun'
  BY <1>1, <1>2 DEF IInv, queueVars, Ownership, NotYetRun, Fresh
<1>7. RunningIsAccountedFor'
  <2>1. \A v \in Proc : v # w => Working(v)' = Working(v)
    BY <1>2 DEF Working
  <2>2. QED
    BY <1>1, <2>1 DEF IInv, TypeOK, Q!TypeOK, queueVars, RunningIsAccountedFor
<1>8. QED
  BY <1>3, <1>4, <1>5, <1>6, <1>7 DEF IInv

\* Submissions, outages, their ends and time keep the invariant.
LEMMA EnvironmentKeeps ==
    ASSUME IInv, (\E t \in Task : Submit(t)) \/ QueueFails \/ QueueRecovers \/ Tick
    PROVE  IInv'
<1>1. UNCHANGED <<pc, loopVars, poolVars, lost>>
  BY DEF Submit, QueueFails, QueueRecovers, Tick
<1>2. \A v \in Proc : Working(v)' = Working(v)
  BY <1>1 DEF Working, loopVars, poolVars
<1>3. ASSUME NEW t \in Task, Submit(t) PROVE IInv'
  <2>1. status[t] = "absent" /\ status' = [status EXCEPT ![t] = "pending"]
    BY <1>3 DEF Submit, Q!Submit
  <2>2. UNCHANGED <<age, claimant, verdict, reapedBy, queueUp, faults>>
    BY <1>3 DEF Submit, Q!Submit, envVars
  <2>3. TypeOK'
    BY <1>1, <2>1, <2>2
    DEF IInv, TypeOK, Q!TypeOK, Q!Status, loopVars, poolVars
  <2>4. ClaimedHasLeft' /\ Candidates' /\ OnlyDispatchHasTodo' /\ RunAtMostOnce'
    BY <1>1, <2>1, <2>2
    DEF IInv, TypeOK, Q!TypeOK, loopVars, poolVars, ClaimedHasLeft, Candidates, Fresh,
        OnlyDispatchHasTodo, RunAtMostOnce
  <2>5. TerminalHow'
    BY <2>1, <2>2 DEF IInv, TypeOK, Q!TypeOK, TerminalHow, Q!Terminal
  <2>6. Ownership' /\ NotYetRun'
    BY <1>1, <2>1, <2>2
    DEF IInv, TypeOK, Q!TypeOK, loopVars, poolVars, Ownership, NotYetRun, Fresh
  <2>7. RunningIsAccountedFor'
    BY <1>1, <1>2, <2>1, <2>2 DEF IInv, TypeOK, Q!TypeOK, RunningIsAccountedFor
  <2>8. QED
    BY <2>3, <2>4, <2>5, <2>6, <2>7 DEF IInv
<1>4. CASE QueueFails \/ QueueRecovers
  <2>1. UNCHANGED queueVars /\ queueUp' \in BOOLEAN /\ faults' \in 0 .. MaxFaults
    BY <1>4, FaultCounts DEF QueueFails, QueueRecovers, IInv, TypeOK
  <2>2. QED
    BY <1>1, <1>2, <2>1
    DEF IInv, TypeOK, Q!TypeOK, queueVars, loopVars, poolVars, ClaimedHasLeft, Ownership,
        NotYetRun, RunAtMostOnce, OnlyDispatchHasTodo, Candidates, TerminalHow, Fresh,
        RunningIsAccountedFor
<1>5. CASE Tick
  <2>1. /\ age' \in [Task -> Q!Age]
        /\ \A t \in Task : age[t] > Lease => age'[t] > Lease
        /\ UNCHANGED <<status, claimant, verdict, reapedBy, queueUp, faults>>
    BY <1>5, OlderIsAge DEF Tick, Q!Tick, IInv, TypeOK, Q!TypeOK, envVars
  <2>2. Candidates'
    BY <1>1, <2>1 DEF IInv, TypeOK, Candidates, Fresh, loopVars
  <2>3. QED
    BY <1>1, <1>2, <2>1, <2>2
    DEF IInv, TypeOK, Q!TypeOK, loopVars, poolVars, ClaimedHasLeft, Ownership, NotYetRun,
        RunAtMostOnce, OnlyDispatchHasTodo, TerminalHow, Fresh, RunningIsAccountedFor
<1>6. QED
  BY <1>3, <1>4, <1>5

\* Every step of the code and of its environment keeps the invariant.
LEMMA IInvInductive == IInv /\ [Next]_vars => IInv'
<1> SUFFICES ASSUME IInv, [Next]_vars PROVE IInv'
    OBVIOUS
<1>1. ASSUME NEW w \in Proc, Start(w) \/ Loop(w) \/ BeatRaises(w) \/ Crash(w) PROVE IInv'
  BY <1>1, LoopKeeps, ReapKeeps, ClaimKeeps, DispatchKeeps, CrashKeeps DEF Loop
<1>2. ASSUME NEW w \in Proc, NEW t \in Task, Thread(w, t) \/ OpenRaises(w, t) PROVE IInv'
  BY <1>2, ThreadKeeps
<1>3. CASE (\E t \in Task : Submit(t)) \/ QueueFails \/ QueueRecovers \/ Tick
  BY <1>3, EnvironmentKeeps
<1>4. CASE UNCHANGED vars
  BY <1>4
  DEF vars, queueVars, envVars, loopVars, poolVars, IInv, TypeOK, Q!TypeOK, ClaimedHasLeft,
      Fresh, Ownership, NotYetRun, RunAtMostOnce, OnlyDispatchHasTodo, Candidates,
      TerminalHow, RunningIsAccountedFor, Working
<1>5. QED
  BY <1>1, <1>2, <1>3, <1>4 DEF Next

\* The invariant holds in every reachable state.
THEOREM Invariance == Spec => []IInv
BY IInvInitially, IInvInductive, PTL DEF Spec

\* Every reachable state of the workers and their queue is of the declared types.
THEOREM TypeCorrect == Spec => []TypeOK
<1>1. IInv => TypeOK
  BY DEF IInv
<1>2. QED
  BY <1>1, Invariance, PTL

\* However many processes crash, restart, reap and finish late, no row is
\* executed twice.
THEOREM ExecutedOnce == Spec => []RunAtMostOnce
<1>1. IInv => RunAtMostOnce
  BY DEF IInv
<1>2. QED
  BY <1>1, Invariance, PTL

\* What abandons a row is a fault, or needs one (worker.py).
LEMMA FaultsKeepCounted ==
    ASSUME FaultsAreCounted, [Next]_vars
    PROVE  FaultsAreCounted'
<1>1. ASSUME NEW kind, Fault(kind) PROVE FaultsAreCounted'
  <2>1. \A n \in Nat : n + 1 \in Nat /\ n + 1 # 0
    OBVIOUS
  <2>2. QED
    BY <1>1, <2>1 DEF Fault, FaultsAreCounted
<1>2. ASSUME UNCHANGED <<faults, queueUp, lost>> PROVE FaultsAreCounted'
  BY <1>2 DEF FaultsAreCounted
<1>3. ASSUME NEW w \in Proc, Start(w) \/ Loop(w) PROVE FaultsAreCounted'
  BY <1>2, <1>3 DEF Start, Loop, Beat, ReapScan, ReapUpdate, ReadFree, ClaimRows, ClaimRaises,
    Dispatch, Check, Drain, envVars
<1>4. ASSUME NEW w \in Proc, BeatRaises(w) \/ Crash(w) PROVE FaultsAreCounted'
  BY <1>1, <1>4 DEF BeatRaises, Crash
<1>5. ASSUME NEW w \in Proc, NEW t \in Task, Thread(w, t) \/ OpenRaises(w, t)
      PROVE  FaultsAreCounted'
  <2>1. CASE OpenEvent(w, t) \/ Finish(w, t) \/ Leave(w, t)
    BY <1>2, <2>1 DEF OpenEvent, Finish, Leave, envVars
  <2>2. CASE FinishUnrecorded(w, t)
    BY <2>2 DEF FinishUnrecorded, FaultsAreCounted, envVars
  <2>3. CASE OpenRaises(w, t)
    BY <1>1, <2>3 DEF OpenRaises
  <2>4. QED
    BY <1>5, <2>1, <2>2, <2>3 DEF Thread
<1>6. CASE QueueFails
  BY <1>1, <1>6 DEF QueueFails
<1>7. CASE QueueRecovers
  BY <1>7 DEF QueueRecovers, FaultsAreCounted
<1>8. CASE Tick \/ (\E t \in Task : Submit(t)) \/ UNCHANGED vars
  BY <1>2, <1>8 DEF Tick, Submit, envVars, vars
<1>9. QED
  BY <1>3, <1>4, <1>5, <1>6, <1>7, <1>8 DEF Next

\* As long as nothing failed a running row is with the process that claimed it,
\* however claims, hand-overs, reaps and finishes of any number of processes
\* come between each other (worker.py).
THEOREM NothingIsMislaid == Spec => []RunningIsHeld
<1>1. Init => FaultsAreCounted
  BY DEF Init, FaultsAreCounted
<1>2. FaultsAreCounted /\ [Next]_vars => FaultsAreCounted'
  BY FaultsKeepCounted
<1>3. IInv /\ FaultsAreCounted => RunningIsHeld
  BY DEF IInv, FaultsAreCounted, RunningIsAccountedFor, RunningIsHeld
<1>4. QED
  BY <1>1, <1>2, <1>3, Invariance, PTL DEF Spec

\* A terminal row changes only by the late finish of its own claimant.
THEOREM LateFinishOnly == Spec => OnlyALateFinishChanges
<1> DEFINE Step == \A t \in Task :
                     status[t] \in Q!Terminal /\ status'[t] # status[t] =>
                       /\ reapedBy[t] # NoProc
                       /\ verdict[t] = "none" /\ verdict'[t] = status'[t]
<1>1. IInv /\ [Next]_vars => [Step]_vars
  <2> SUFFICES ASSUME IInv, Next PROVE Step
      OBVIOUS
  <2>1. ASSUME UNCHANGED status PROVE Step
    BY <2>1
  <2>2. ASSUME NEW t \in Task, Submit(t) PROVE Step
    BY <2>2 DEF Submit, Q!Submit, IInv, TypeOK, Q!TypeOK, Q!Terminal
  <2>3. ASSUME NEW w \in Proc, ClaimRows(w) PROVE Step
    BY <2>3 DEF ClaimRows, Q!Claim, Q!HandOut, IInv, TypeOK, Q!TypeOK, Q!Terminal
  <2>4. ASSUME NEW w \in Proc, ReapUpdate(w) PROVE Step
    BY <2>4 DEF ReapUpdate, Q!FailOrphans, queueVars, IInv, TypeOK, Q!TypeOK, Q!Terminal
  <2>5. ASSUME NEW w \in Proc, NEW t \in Task, Finish(w, t) PROVE Step
    <3> PICK s \in Q!Terminal : Q!MarkDone(w, t, s)
      BY <2>5 DEF Finish
    <3>1. verdict[t] = "none" /\ (status[t] \in Q!Terminal => reapedBy[t] # NoProc)
      BY <2>5 DEF Finish, IInv, Ownership, TerminalHow
    <3>2. QED
      BY <3>1 DEF Q!MarkDone, IInv, TypeOK, Q!TypeOK
  <2>6. QED
    BY <2>1, <2>2, <2>3, <2>4, <2>5
    DEF Next, Start, Loop, BeatRaises, Crash, Beat, ReapScan, ReadFree, ClaimRaises, Dispatch,
        Check, Drain, Thread, OpenEvent, FinishUnrecorded, Leave, OpenRaises, QueueFails,
        QueueRecovers, Tick, Q!Tick, queueVars
<1>2. QED
  BY <1>1, Invariance, PTL DEF Spec, OnlyALateFinishChanges

(***************************************************************************)
(* The slots.  free is stale when it is used, but only on the safe side:   *)
(* between the read and the claim, in_flight can only shrink.              *)
(***************************************************************************)

FreeIsSafe ==
    \A w \in Proc : pc[w] = "claim" => free[w] + Cardinality(inFlight[w]) <= Slots[w]

\* Sets of rows are finite; cardinality is monotonic and subadditive.
LEMMA TaskSets ==
    /\ \A A \in SUBSET Task : IsFiniteSet(A) /\ Cardinality(A) \in Nat
    /\ \A A, B \in SUBSET Task : A \subseteq B => Cardinality(A) <= Cardinality(B)
    /\ \A A, B \in SUBSET Task : Cardinality(A \cup B) <= Cardinality(A) + Cardinality(B)
<1>1. \A A \in SUBSET Task : IsFiniteSet(A) /\ Cardinality(A) \in Nat
  BY RunWorkerAssumption, FS_Subset, FS_CardinalityType
<1>2. \A A, B \in SUBSET Task : A \subseteq B => Cardinality(A) <= Cardinality(B)
  BY <1>1, FS_Subset
<1>3. ASSUME NEW A \in SUBSET Task, NEW B \in SUBSET Task
      PROVE  Cardinality(A \cup B) <= Cardinality(A) + Cardinality(B)
  <2>1. Cardinality(A \cup B) = Cardinality(A) + Cardinality(B) - Cardinality(A \cap B)
    BY <1>1, FS_Union
  <2>2. Cardinality(A \cap B) \in Nat /\ Cardinality(A) \in Nat /\ Cardinality(B) \in Nat
    BY <1>1
  <2>3. QED
    BY <2>1, <2>2
<1>4. QED
  BY <1>1, <1>2, <1>3

\* Between counting the free slots and using them, threads only free more.
LEMMA SlotsInductive ==
    IInv /\ SlotsRespected /\ FreeIsSafe /\ [Next]_vars => SlotsRespected' /\ FreeIsSafe'
<1> SUFFICES ASSUME IInv, SlotsRespected, FreeIsSafe, [Next]_vars
             PROVE  SlotsRespected' /\ FreeIsSafe'
    OBVIOUS
<1>1. /\ pc \in [Proc -> LoopAt] /\ free \in [Proc -> Nat]
      /\ todo \in [Proc -> SUBSET Task] /\ inFlight \in [Proc -> SUBSET Task]
      /\ Slots \in [Proc -> Nat \ {0}]
  BY RunWorkerAssumption DEF IInv, TypeOK
<1>2. ASSUME UNCHANGED <<inFlight, todo, free>>,
             \A v \in Proc : pc'[v] = "claim" => pc[v] = "claim"
      PROVE  SlotsRespected' /\ FreeIsSafe'
  BY <1>2 DEF SlotsRespected, FreeIsSafe
<1>3. ASSUME NEW w \in Proc, ReadFree(w) PROVE SlotsRespected' /\ FreeIsSafe'
  <2> DEFINE n == Slots[w] - Cardinality(inFlight[w])
  <2>1. n \in Int /\ Cardinality(inFlight[w]) \in Nat
    BY <1>1, TaskSets
  <2>2. UNCHANGED <<inFlight, todo>>
    BY <1>3 DEF ReadFree, poolVars
  <2>3. /\ free' = [free EXCEPT ![w] = IF n > 0 THEN n ELSE 0]
        /\ pc' = [pc EXCEPT ![w] = IF n > 0 THEN "claim" ELSE "check"]
    BY <1>3 DEF ReadFree, Goto
  <2>4. pc'[w] = "claim" => free'[w] + Cardinality(inFlight[w]) = Slots[w]
    BY <1>1, <2>1, <2>3
  <2>5. \A v \in Proc : v # w => pc'[v] = pc[v] /\ free'[v] = free[v]
    BY <1>1, <2>3
  <2>6. QED
    BY <1>1, <2>1, <2>2, <2>4, <2>5 DEF SlotsRespected, FreeIsSafe
<1>4. ASSUME NEW w \in Proc, ClaimRows(w) PROVE SlotsRespected' /\ FreeIsSafe'
  <2> PICK S \in SUBSET PendingFor(w) :
          /\ Cardinality(S) = Smaller(free[w], Cardinality(PendingFor(w)))
          /\ todo' = [todo EXCEPT ![w] = S]
          /\ Goto(w, IF S = {} THEN "check" ELSE "dispatch")
      BY <1>4 DEF ClaimRows
  <2>1. PendingFor(w) \in SUBSET Task /\ S \in SUBSET Task
    BY DEF PendingFor
  <2>2. Cardinality(S) <= free[w]
    BY <1>1, <2>1, TaskSets DEF Smaller
  <2>3. Cardinality(inFlight[w] \cup S) <= Slots[w]
    <3>1. free[w] + Cardinality(inFlight[w]) <= Slots[w]
      BY <1>4 DEF ClaimRows, FreeIsSafe
    <3>2. Cardinality(inFlight[w] \cup S) <= Cardinality(inFlight[w]) + Cardinality(S)
      BY <1>1, <2>1, TaskSets
    <3>3. /\ Cardinality(inFlight[w] \cup S) \in Nat /\ Cardinality(inFlight[w]) \in Nat
          /\ Cardinality(S) \in Nat /\ free[w] \in Nat /\ Slots[w] \in Nat
      BY <1>1, <2>1, TaskSets
    <3>4. QED
      BY <2>2, <3>1, <3>2, <3>3
  <2>4. /\ UNCHANGED inFlight /\ free' = [free EXCEPT ![w] = 0]
        /\ \A v \in Proc : todo'[v] = IF v = w THEN S ELSE todo[v]
        /\ pc'[w] # "claim" /\ \A v \in Proc : v # w => pc'[v] = pc[v]
    BY <1>1, <1>4 DEF ClaimRows, poolVars, Goto
  <2>5. QED
    BY <1>1, <2>3, <2>4 DEF SlotsRespected, FreeIsSafe
<1>5. ASSUME NEW w \in Proc, ClaimRaises(w) PROVE SlotsRespected' /\ FreeIsSafe'
  <2>1. /\ UNCHANGED <<inFlight, todo>> /\ free' = [free EXCEPT ![w] = 0]
        /\ pc' = [pc EXCEPT ![w] = "check"]
    BY <1>5 DEF ClaimRaises, poolVars, Goto
  <2>2. QED
    BY <1>1, <2>1 DEF SlotsRespected, FreeIsSafe
<1>6. ASSUME NEW w \in Proc, Dispatch(w) PROVE SlotsRespected' /\ FreeIsSafe'
  <2> PICK t \in todo[w] :
          /\ todo' = [todo EXCEPT ![w] = @ \ {t}]
          /\ inFlight' = [inFlight EXCEPT ![w] = @ \cup {t}]
          /\ Goto(w, IF todo[w] = {t} THEN "beat" ELSE "dispatch")
      BY <1>6 DEF Dispatch
  <2>1. \A v \in Proc : inFlight'[v] \cup todo'[v] = inFlight[v] \cup todo[v]
    BY <1>1
  <2>2. /\ pc'[w] # "claim" /\ UNCHANGED free
        /\ \A v \in Proc : v # w => pc'[v] = pc[v] /\ inFlight'[v] = inFlight[v]
    BY <1>1, <1>6 DEF Dispatch, Goto
  <2>3. QED
    BY <2>1, <2>2 DEF SlotsRespected, FreeIsSafe
<1>7. ASSUME NEW w \in Proc, NEW t \in Task, Leave(w, t) PROVE SlotsRespected' /\ FreeIsSafe'
  <2>1. /\ inFlight' = [inFlight EXCEPT ![w] = @ \ {t}] /\ UNCHANGED <<todo, free, pc>>
    BY <1>7 DEF Leave, loopVars
  <2>2. \A v \in Proc : /\ inFlight'[v] \in SUBSET Task /\ inFlight'[v] \subseteq inFlight[v]
                        /\ Cardinality(inFlight'[v]) <= Cardinality(inFlight[v])
                        /\ Cardinality(inFlight'[v] \cup todo[v])
                             <= Cardinality(inFlight[v] \cup todo[v])
    <3>1. \A v \in Proc : inFlight'[v] \in SUBSET Task /\ inFlight'[v] \subseteq inFlight[v]
      BY <1>1, <2>1
    <3>2. \A v \in Proc : /\ inFlight'[v] \cup todo[v] \in SUBSET Task
                          /\ inFlight[v] \cup todo[v] \in SUBSET Task
                          /\ inFlight'[v] \cup todo[v] \subseteq inFlight[v] \cup todo[v]
      BY <1>1, <3>1
    <3>3. QED
      BY <1>1, <3>1, <3>2, TaskSets
  <2>3. \A v \in Proc : /\ Cardinality(inFlight'[v]) \in Nat /\ Cardinality(inFlight[v]) \in Nat
                        /\ Cardinality(inFlight'[v] \cup todo[v]) \in Nat
                        /\ Cardinality(inFlight[v] \cup todo[v]) \in Nat
    BY <1>1, <2>2, TaskSets
  <2>4. ASSUME NEW v \in Proc
        PROVE  Cardinality(inFlight'[v] \cup todo'[v]) <= Slots[v]
    <3> DEFINE before == Cardinality(inFlight[v] \cup todo[v])
               after == Cardinality(inFlight'[v] \cup todo[v])
    <3>1. before <= Slots[v]
      BY DEF SlotsRespected
    <3>2. after <= before
      BY <2>2
    <3>3. after \in Nat /\ before \in Nat /\ Slots[v] \in Nat
      BY <1>1, <2>3
    <3>4. todo'[v] = todo[v]
      BY <2>1
    <3> HIDE DEF before, after
    <3>5. after <= Slots[v]
      BY <3>1, <3>2, <3>3
    <3>6. QED
      BY <3>4, <3>5 DEF after
  <2>5. ASSUME NEW v \in Proc, pc'[v] = "claim"
        PROVE  free'[v] + Cardinality(inFlight'[v]) <= Slots[v]
    <3> DEFINE before == Cardinality(inFlight[v])
               after == Cardinality(inFlight'[v])
    <3>1. free[v] + before <= Slots[v]
      BY <2>1, <2>5 DEF FreeIsSafe
    <3>2. free'[v] = free[v] /\ free[v] \in Nat /\ Slots[v] \in Nat
      BY <1>1, <2>1
    <3>3. after <= before
      BY <2>2
    <3>4. after \in Nat /\ before \in Nat
      BY <2>3
    <3> HIDE DEF before, after
    <3>5. free'[v] + after <= Slots[v]
      BY <3>1, <3>2, <3>3, <3>4
    <3>6. QED
      BY <3>5 DEF after
  <2>6. QED
    BY <2>4, <2>5 DEF FreeIsSafe, SlotsRespected
<1>8. ASSUME NEW w \in Proc, Crash(w) PROVE SlotsRespected' /\ FreeIsSafe'
  <2>1. \A v \in Proc : /\ pc'[v] = IF v = w THEN "down" ELSE pc[v]
                        /\ inFlight'[v] = IF v = w THEN {} ELSE inFlight[v]
                        /\ todo'[v] = IF v = w THEN {} ELSE todo[v]
                        /\ free'[v] = IF v = w THEN 0 ELSE free[v]
    BY <1>1, <1>8 DEF Crash, Goto
  <2>2. inFlight'[w] \cup todo'[w] = {} /\ Slots[w] \in Nat
    BY <1>1, <2>1
  <2>3. Cardinality(inFlight'[w] \cup todo'[w]) <= Slots[w]
    BY <2>2, FS_EmptySet
  <2>4. \A v \in Proc : v # w => /\ inFlight'[v] = inFlight[v] /\ todo'[v] = todo[v]
                                 /\ pc'[v] = pc[v] /\ free'[v] = free[v]
    BY <2>1
  <2>5. pc'[w] # "claim"
    BY <2>1
  <2>6. QED
    BY <2>3, <2>4, <2>5 DEF SlotsRespected, FreeIsSafe
<1>9. ASSUME NEW w \in Proc,
             \/ Start(w) \/ Beat(w) \/ BeatRaises(w) \/ ReapScan(w) \/ ReapUpdate(w)
             \/ Check(w) \/ Drain(w)
      PROVE  SlotsRespected' /\ FreeIsSafe'
  <2>1. UNCHANGED <<inFlight, todo, free>>
    BY <1>9 DEF Start, Beat, BeatRaises, ReapScan, ReapUpdate, Check, Drain, loopVars, poolVars
  <2>2. \E there \in LoopAt \ {"claim"} : pc' = [pc EXCEPT ![w] = there]
    BY <1>9 DEF Start, Beat, BeatRaises, ReapScan, ReapUpdate, Check, Drain, Goto, LoopAt
  <2>3. \A v \in Proc : pc'[v] = "claim" => pc[v] = "claim"
    BY <1>1, <2>2
  <2>4. QED
    BY <1>2, <2>1, <2>3
<1>10. ASSUME \/ \E w \in Proc, t \in Task : \/ OpenEvent(w, t) \/ Finish(w, t)
                                             \/ FinishUnrecorded(w, t) \/ OpenRaises(w, t)
              \/ \E t \in Task : Submit(t)
              \/ QueueFails \/ QueueRecovers \/ Tick \/ UNCHANGED vars
       PROVE  SlotsRespected' /\ FreeIsSafe'
  <2>1. UNCHANGED <<inFlight, todo, free, pc>>
    BY <1>10 DEF OpenEvent, Finish, FinishUnrecorded, OpenRaises, Submit, QueueFails,
                 QueueRecovers, Tick, vars, loopVars, poolVars
  <2>2. QED
    BY <1>2, <2>1
<1>11. QED
  BY <1>3, <1>4, <1>5, <1>6, <1>7, <1>8, <1>9, <1>10 DEF Next, Loop, Thread

\* A process never holds more rows than it has threads.
THEOREM SlotsAreRespected == Spec => []SlotsRespected
<1>1. Init => SlotsRespected /\ FreeIsSafe
  <2> SUFFICES ASSUME Init PROVE SlotsRespected /\ FreeIsSafe
      OBVIOUS
  <2>1. \A w \in Proc : inFlight[w] \cup todo[w] = {} /\ pc[w] = "down" /\ Slots[w] \in Nat
    BY RunWorkerAssumption DEF Init
  <2>2. \A w \in Proc : Cardinality(inFlight[w] \cup todo[w]) = 0
    BY <2>1, FS_EmptySet
  <2>3. QED
    BY <2>1, <2>2 DEF SlotsRespected, FreeIsSafe
<1>2. QED
  BY <1>1, SlotsInductive, Invariance, PTL DEF Spec

(***************************************************************************)
(* The lease.                                                              *)
(***************************************************************************)

\* The first states are first states of the contract.
LEMMA InitRefines == Init => Q!Init
BY DEF Init, Q!Init

\* Each step of the workers is a step of the queue's contract, or none.
LEMMA StepRefines == IInv /\ [Next]_vars => [Q!Next]_(Q!vars)
<1> SUFFICES ASSUME IInv, [Next]_vars PROVE Q!Next \/ UNCHANGED Q!vars
    OBVIOUS
<1>1. ASSUME UNCHANGED queueVars PROVE UNCHANGED Q!vars
  BY <1>1 DEF queueVars, Q!vars
<1>2. ASSUME NEW t \in Task, Submit(t) PROVE Q!Next
  BY <1>2 DEF Submit, Q!Next
<1>3. ASSUME NEW w \in Proc, ClaimRows(w) PROVE Q!Next
  <2> PICK S \in SUBSET PendingFor(w) : Q!Claim(w, S, [t \in S |-> 0])
      BY <1>3 DEF ClaimRows
  <2> DEFINE stamps == [t \in S |-> 0]
  <2>1. S \in SUBSET Task /\ stamps \in [S -> 0 .. 0] /\ Q!Claim(w, S, stamps)
    BY DEF PendingFor
  <2> HIDE DEF stamps
  <2>2. QED
    BY <2>1 DEF Q!Next
<1>4. ASSUME NEW w \in Proc, ReapUpdate(w) PROVE Q!Next \/ UNCHANGED queueVars
  <2> DEFINE R == {t \in candidates[w] : status[t] = "running"}
  <2>1. CASE queueUp
    <3>1. R \in SUBSET Task /\ \A t \in R : status[t] = "running" /\ Q!Expired(t)
      BY DEF IInv, TypeOK, Candidates, Q!Expired
    <3>2. Q!FailOrphans(w, R)
      BY <1>4, <2>1 DEF ReapUpdate
    <3>3. Q!Reap(w, R)
      BY <3>1, <3>2 DEF Q!Reap
    <3> HIDE DEF R
    <3>4. QED
      BY <3>1, <3>3 DEF Q!Next
  <2>2. CASE ~queueUp
    BY <1>4, <2>2 DEF ReapUpdate
  <2>3. QED
    BY <2>1, <2>2
<1>5. ASSUME NEW w \in Proc, NEW t \in Task, Finish(w, t) PROVE Q!Next
  BY <1>5 DEF Finish, Q!Next
<1>6. CASE Tick
  BY <1>6 DEF Tick, Q!Next
<1>7. ASSUME \/ \E w \in Proc : \/ Start(w) \/ Beat(w) \/ BeatRaises(w) \/ ReapScan(w)
                                \/ ReadFree(w) \/ ClaimRaises(w) \/ Dispatch(w) \/ Check(w)
                                \/ Drain(w) \/ Crash(w)
             \/ \E w \in Proc, t \in Task : \/ OpenEvent(w, t) \/ FinishUnrecorded(w, t)
                                            \/ OpenRaises(w, t) \/ Leave(w, t)
             \/ QueueFails \/ QueueRecovers \/ UNCHANGED vars
      PROVE  UNCHANGED queueVars
  BY <1>7 DEF Start, Beat, BeatRaises, ReapScan, ReadFree, ClaimRaises, Dispatch, Check,
              Drain, Crash, OpenEvent, FinishUnrecorded, OpenRaises, Leave, QueueFails,
              QueueRecovers, vars
<1>8. QED
  BY <1>1, <1>2, <1>3, <1>4, <1>5, <1>6, <1>7 DEF Next, Loop, Thread

\* run_worker uses the queue as its contract allows, so all that TaskQueue
\* guarantees holds of the rows under any number of workers.
THEOREM KeepsContract == Spec => Contract
BY InitRefines, StepRefines, Invariance, PTL DEF Spec, Contract, Q!Spec

\* A row that is worked on is running, and its lease has not run out.
LeaseHolds ==
    \A w \in Proc, t \in Task :
      t \in Working(w) => status[t] = "running" /\ age[t] \in 0 .. Lease

\* With no more than one block per task and the ceilings aligned with the
\* lease, time stops for no lease: it only has to be OnTime.
LEMMA LeaseInductive ==
    ASSUME Timely, Aligned, \A t \in Task : Blocks[t] \in {0, 1},
           IInv, LeaseHolds, NoLiveReap, [Next]_vars
    PROVE  LeaseHolds' /\ NoLiveReap'
<1> USE RunWorkerAssumption
<1>1. ASSUME UNCHANGED <<status, age, reapedBy>>, lost \subseteq lost',
             \A w \in Proc : Working(w)' \subseteq Working(w)
      PROVE  LeaseHolds' /\ NoLiveReap'
  BY <1>1 DEF LeaseHolds, NoLiveReap
<1>2. ASSUME NEW t \in Task, Submit(t) PROVE LeaseHolds' /\ NoLiveReap'
  <2>1. status[t] = "absent" /\ status' = [status EXCEPT ![t] = "pending"]
    BY <1>2 DEF Submit, Q!Submit
  <2>2. UNCHANGED <<age, reapedBy, lost>> /\ \A w \in Proc : Working(w)' = Working(w)
    BY <1>2 DEF Submit, Q!Submit, loopVars, poolVars, Working
  <2>3. QED
    BY <2>1, <2>2 DEF LeaseHolds, NoLiveReap, IInv, TypeOK, Q!TypeOK
<1>3. ASSUME NEW w \in Proc, ClaimRows(w) PROVE LeaseHolds' /\ NoLiveReap'
  <2> PICK S \in SUBSET PendingFor(w) :
          Q!Claim(w, S, [t \in S |-> 0]) /\ todo' = [todo EXCEPT ![w] = S]
      BY <1>3 DEF ClaimRows
  <2>1. /\ status' = [t \in Task |-> IF t \in S THEN "running" ELSE status[t]]
        /\ age' = [t \in Task |-> IF t \in S THEN 0 ELSE age[t]]
        /\ UNCHANGED <<reapedBy, lost, stage>>
    BY <1>3 DEF ClaimRows, Q!Claim, Q!HandOut, poolVars
  <2>2. \A v \in Proc : Working(v)' \subseteq Working(v) \cup S
    BY <2>1 DEF Working, IInv, TypeOK
  <2>3. QED
    BY <2>1, <2>2 DEF LeaseHolds, NoLiveReap, IInv, TypeOK, Q!TypeOK
<1>4. ASSUME NEW w \in Proc, ReapUpdate(w) PROVE LeaseHolds' /\ NoLiveReap'
  <2> DEFINE R == IF queueUp THEN {t \in candidates[w] : status[t] = "running"} ELSE {}
  <2>1. R \subseteq Task /\ \A t \in R : status[t] = "running" /\ age[t] > Lease
    BY DEF IInv, TypeOK, Candidates
  <2>2. /\ status \in [Task -> Q!Status] /\ age \in [Task -> Q!Age]
        /\ reapedBy \in [Task -> Proc \cup {NoProc}]
    BY DEF IInv, TypeOK, Q!TypeOK
  <2>3. /\ status' = [t \in Task |-> IF t \in R THEN "failed" ELSE status[t]]
        /\ age' = [t \in Task |-> IF t \in R THEN Q!NoLease ELSE age[t]]
        /\ reapedBy' = [t \in Task |-> IF t \in R THEN w ELSE reapedBy[t]]
        /\ UNCHANGED <<lost, todo, stage>>
    BY <1>4, <2>2 DEF ReapUpdate, Q!FailOrphans, queueVars, poolVars
  <2> HIDE DEF R
  <2>4. \A v \in Proc : Working(v)' = Working(v) /\ Working(v) \cap R = {}
    BY <2>1, <2>3 DEF Working, LeaseHolds
  <2>5. \A t \in R : t \in lost
    BY <2>1, <2>4 DEF IInv, TypeOK, Q!TypeOK, RunningIsAccountedFor
  <2>6. QED
    BY <2>1, <2>3, <2>4, <2>5 DEF LeaseHolds, NoLiveReap, Working, IInv, TypeOK
<1>5. ASSUME NEW w \in Proc, NEW t \in Task, Finish(w, t) PROVE LeaseHolds' /\ NoLiveReap'
  <2> PICK s \in Q!Terminal : Q!MarkDone(w, t, s)
      BY <1>5 DEF Finish
  <2>1. /\ \A u \in Task : u # t => status'[u] = status[u] /\ age'[u] = age[u]
        /\ UNCHANGED <<reapedBy, lost>>
    BY <1>5 DEF Finish, Q!MarkDone, IInv, TypeOK, Q!TypeOK
  <2>2. \A v \in Proc : Working(v)' \subseteq Working(v) \ {t}
    <3>1. stage' = [stage EXCEPT ![w][t] = "leave"] /\ UNCHANGED todo
      BY <1>5 DEF Finish, loopVars
    <3>2. stage[w][t] = "exec"
      BY <1>5 DEF Finish
    <3>3. \A v \in Proc, u \in Task :
            stage'[v][u] = IF v = w /\ u = t THEN "leave" ELSE stage[v][u]
      BY <3>1 DEF IInv, TypeOK
    <3>4. \A v \in Proc : t \notin todo[v] /\ (v # w => stage[v][t] = "none")
      BY <3>2 DEF IInv, Ownership
    <3>5. QED
      BY <3>1, <3>3, <3>4 DEF Working
  <2>3. QED
    BY <2>1, <2>2 DEF LeaseHolds, NoLiveReap, Working, IInv, TypeOK
<1>6. ASSUME Tick PROVE LeaseHolds' /\ NoLiveReap'
  <2>1. UNCHANGED <<status, reapedBy, lost>> /\ \A w \in Proc : Working(w)' = Working(w)
    BY <1>6 DEF Tick, Q!Tick, loopVars, poolVars, Working
  <2>2. ASSUME NEW w \in Proc, NEW t \in Task, t \in Working(w)
        PROVE  age'[t] \in 0 .. Lease
    <3>1. age[t] < Budget(w, t) /\ status[t] = "running" /\ age[t] \in 0 .. Lease
      BY <1>6, <2>2 DEF Tick, OnTime, LeaseHolds
    <3>2. Budget(w, t) <= Lease
      <4>1. Ceiling[w] \in Nat /\ Ceiling[w] + Overhead <= Lease
        BY DEF Aligned
      <4>2. CASE Blocks[t] = 0
        BY <4>1, <4>2 DEF Budget
      <4>3. CASE Blocks[t] = 1
        BY <4>1, <4>3 DEF Budget
      <4>4. QED
        BY <4>2, <4>3
    <3>3. Budget(w, t) \in Nat
      BY DEF Budget
    <3>4. age'[t] = age[t] + 1
      BY <1>6, <3>1 DEF Tick, Q!Tick, Q!Older, Q!NoLease
    <3>5. QED
      BY <3>1, <3>2, <3>3, <3>4
  <2>3. QED
    BY <2>1, <2>2 DEF LeaseHolds, NoLiveReap
<1>7. ASSUME \/ \E w \in Proc : \/ Start(w) \/ Beat(w) \/ BeatRaises(w) \/ ReapScan(w)
                                \/ ReadFree(w) \/ ClaimRaises(w) \/ Check(w) \/ Drain(w)
             \/ \E w \in Proc, t \in Task : OpenEvent(w, t)
             \/ QueueFails \/ QueueRecovers \/ UNCHANGED vars
      PROVE  LeaseHolds' /\ NoLiveReap'
  <2>1. UNCHANGED <<status, age, reapedBy, lost, todo>>
    BY <1>7 DEF Start, Beat, BeatRaises, ReapScan, ReadFree, ClaimRaises, Check, Drain,
                OpenEvent, QueueFails, QueueRecovers, vars, queueVars, loopVars
  <2>2. \A v \in Proc, u \in Task :
          stage'[v][u] \in {"queued", "exec"} => stage[v][u] \in {"queued", "exec"}
    <3>1. CASE \E w \in Proc, t \in Task : OpenEvent(w, t)
      <4> PICK w \in Proc, t \in Task : OpenEvent(w, t)
          BY <3>1
      <4>1. /\ stage[w][t] = "queued"
            /\ stage' = [stage EXCEPT ![w][t] = "exec"]
        BY DEF OpenEvent
      <4>2. \A v \in Proc, u \in Task :
              stage'[v][u] = IF v = w /\ u = t THEN "exec" ELSE stage[v][u]
        BY <4>1 DEF IInv, TypeOK
      <4>3. QED
        BY <4>1, <4>2
    <3>2. CASE ~\E w \in Proc, t \in Task : OpenEvent(w, t)
      <4>1. UNCHANGED stage
        BY <1>7, <3>2 DEF Start, Beat, BeatRaises, ReapScan, ReadFree, ClaimRaises, Check,
                          Drain, QueueFails, QueueRecovers, vars, poolVars
      <4>2. QED
        BY <4>1
    <3>3. QED
      BY <3>1, <3>2
  <2>3. \A v \in Proc : Working(v)' \subseteq Working(v)
    BY <2>1, <2>2 DEF Working
  <2>4. QED
    BY <1>1, <2>1, <2>3
<1>8. ASSUME NEW w \in Proc, NEW t \in Task,
             FinishUnrecorded(w, t) \/ OpenRaises(w, t) \/ Leave(w, t)
      PROVE  LeaseHolds' /\ NoLiveReap'
  <2>1. UNCHANGED <<status, age, reapedBy, todo>> /\ lost \subseteq lost'
    BY <1>8 DEF FinishUnrecorded, OpenRaises, Leave, queueVars, loopVars
  <2>2. \E there \in {"leave", "none"} : stage' = [stage EXCEPT ![w][t] = there]
    BY <1>8 DEF FinishUnrecorded, OpenRaises, Leave
  <2>3. \A v \in Proc, u \in Task :
          stage'[v][u] \in {"queued", "exec"} => stage[v][u] \in {"queued", "exec"}
    BY <2>2 DEF IInv, TypeOK
  <2>4. \A v \in Proc : Working(v)' \subseteq Working(v)
    BY <2>1, <2>3 DEF Working
  <2>5. QED
    BY <1>1, <2>1, <2>4
<1>9. ASSUME NEW w \in Proc, Dispatch(w) PROVE LeaseHolds' /\ NoLiveReap'
  <2> PICK t \in todo[w] :
          /\ todo' = [todo EXCEPT ![w] = @ \ {t}]
          /\ stage' = [stage EXCEPT ![w][t] = "queued"]
      BY <1>9 DEF Dispatch
  <2>1. UNCHANGED <<status, age, reapedBy, lost>>
    BY <1>9 DEF Dispatch, queueVars
  <2>2. \A v \in Proc : Working(v)' = Working(v)
    BY DEF Working, IInv, TypeOK
  <2>3. QED
    BY <1>1, <2>1, <2>2
<1>10. ASSUME NEW w \in Proc, Crash(w) PROVE LeaseHolds' /\ NoLiveReap'
  <2>1. UNCHANGED <<status, age, reapedBy>> /\ lost \subseteq lost'
    BY <1>10 DEF Crash, queueVars
  <2>2. \A v \in Proc : Working(v)' \subseteq Working(v)
    BY <1>10 DEF Crash, Working, IInv, TypeOK
  <2>3. QED
    BY <1>1, <2>1, <2>2
<1>11. QED
  BY <1>2, <1>3, <1>4, <1>5, <1>6, <1>7, <1>8, <1>9, <1>10 DEF Next, Loop, Thread

\* When every process keeps to its time, the ceilings leave the lease its
\* buffer (reaper_alignment_warning is silent) and no task has more than one
\* block, the reaper takes only rows nobody works on any more.
THEOREM AlignedLeasesAreSafe ==
    ASSUME Timely, Aligned, \A t \in Task : Blocks[t] \in {0, 1}
    PROVE  Spec => []NoLiveReap
<1>1. Init => LeaseHolds /\ NoLiveReap
  BY DEF Init, LeaseHolds, NoLiveReap, Working
<1>2. IInv /\ LeaseHolds /\ NoLiveReap /\ [Next]_vars => LeaseHolds' /\ NoLiveReap'
  BY LeaseInductive
<1>3. QED
  BY <1>1, <1>2, Invariance, PTL DEF Spec
=============================================================================
