--------------------------- MODULE Execute_proofs ---------------------------
(***************************************************************************)
(* What execute_task_row guarantees for every number of rows, drainers and *)
(* commands, whatever fails.                                               *)
(*                                                                         *)
(* A row that a drainer holds is one it claimed (Ownership), so no other   *)
(* drainer's step is about it.  Where a drainer is says what is known of   *)
(* its row (Stage): which gates it passed, how many of its commands ran and *)
(* whether one failed.  A step inside execute_task_row changes one row of  *)
(* one drainer; Locality says that it is enough to look at that row.       *)
(***************************************************************************)
EXTENDS Execute, TLAPS

Outside == {"idle", "pick"}
Ended == {"ledger", "log", "record"}

\* A drainer is on a row exactly while it executes or records it; it claimed
\* what it holds, and nothing that was claimed is pending again.
Ownership ==
    /\ \A d \in Drainer :
         /\ cur[d] = NoTask <=> pc[d] \in Outside
         /\ cur[d] # NoTask => claimant[cur[d]] = d
         /\ pc[d] = "idle" => batch[d] = {}
         /\ \A t \in batch[d] : claimant[t] = d /\ t # cur[d]
    /\ \A t \in Task : claimant[t] = NoDrainer <=> status[t] = "pending"

\* Nothing has happened to row t yet.
Fresh(t) ==
    /\ ends[t] = "none" /\ why[t] = "none" /\ verdict[t] = "none"
    /\ good[t] = 0 /\ bad[t] = 0

Unbegun(t) == Fresh(t) /\ Untouched(t)

Pristine ==
    /\ \A t \in Task : claimant[t] = NoDrainer => Unbegun(t)
    /\ \A d \in Drainer : \A t \in batch[d] : Unbegun(t)

\* Row t has passed the gates before the scan.
Gated(t) ==
    /\ row[t].type = "shell" /\ ~row[t].localhost
    /\ FleetEgress(row[t]) =>
         row[t].submitted /\ row[t].envelope /\ granted[t] = "True"
    /\ row[t].net /\ claimant[t] \in Authorizing => granted[t] \in {"True", "truthy"}

\* What is known of the row t that d is on.
Stage(d, t) ==
    /\ pc[d] \in {"route", "handler", "grant", "scan"} => Fresh(t)
    /\ pc[d] = "route" => Untouched(t)
    /\ pc[d] = "grant" =>
         /\ row[t].type = "shell" /\ ~row[t].localhost
         /\ FleetEgress(row[t]) => row[t].submitted /\ row[t].envelope
    /\ pc[d] \in {"scan", "run"} => Gated(t)
    /\ pc[d] = "run" =>
         /\ ends[t] = "none" /\ why[t] = "none" /\ verdict[t] = "none"
         /\ row[t].clean
         /\ todo[d] > 0 /\ good[t] + bad[t] + todo[d] = row[t].blocks
         /\ errors[d] <=> bad[t] # 0
    /\ pc[d] \in Ended => ends[t] \in Q!Terminal /\ why[t] # "none" /\ verdict[t] = "none"

Stages == \A d \in Drainer : cur[d] # NoTask => Stage(d, cur[d])

\* The properties, of one row.
PassedRow(t) == good[t] + bad[t] > 0 => Gated(t) /\ row[t].clean

TrueVerdict(t) ==
    /\ verdict[t] # "none" => verdict[t] = ends[t]
    /\ why[t] = "ran" => /\ good[t] + bad[t] = row[t].blocks
                         /\ ends[t] = "completed" <=> bad[t] = 0
    /\ why[t] \in Refusal => ends[t] = "failed" /\ good[t] + bad[t] = 0

Rowwise == \A t \in Task : PassedRow(t) /\ TrueVerdict(t)

IInv == TypeOK /\ Ownership /\ Pristine /\ Stages /\ Rowwise /\ WorkersAnswer

\* The rows are of their kind.
LEMMA RowTypes ==
    ASSUME TypeOK, NEW t \in Task
    PROVE  row[t] \in RowKind
BY ExecuteAssumption DEF TypeOK

\* The invariant says what the properties say.
LEMMA RowwiseIsEnough == Rowwise => OnlyPassedRowsRun /\ VerdictIsWhatHappened
BY DEF Rowwise, PassedRow, TrueVerdict, Gated, OnlyPassedRowsRun, VerdictIsWhatHappened

\* The invariant holds in every initial state.
LEMMA IInvInitially == Init => IInv
<1> SUFFICES ASSUME Init PROVE IInv
    OBVIOUS
<1>1. TypeOK
  BY ExecuteAssumption DEF Init, TypeOK, Q!TypeOK, Q!Status, Q!Age, Q!Terminal
<1>2. Ownership /\ Pristine /\ Stages
  BY ExecuteAssumption DEF Init, Ownership, Pristine, Unbegun, Untouched, Fresh, Stages,
                           Outside
<1>3. Rowwise
  BY DEF Init, Rowwise, PassedRow, TrueVerdict, Refusal
<1>4. WorkersAnswer
  BY ExecuteAssumption DEF Init, WorkersAnswer, Answered, Untouched
<1>5. QED
  BY <1>1, <1>2, <1>3, <1>4 DEF IInv

\* A step of d inside execute_task_row, on its row t: the queue, the other rows
\* and the other drainers are left alone, and d stays on its row or gives up,
\* which a guarded one does only with a row it has not begun.
Inside(d, t) ==
    /\ cur[d] = t /\ pc[d] \notin Outside
    /\ UNCHANGED <<queueVars, row>>
    /\ \A u \in Task \ {t} :
         /\ ends'[u] = ends[u] /\ why'[u] = why[u] /\ granted'[u] = granted[u]
         /\ good'[u] = good[u] /\ bad'[u] = bad[u]
    /\ \A e \in Drainer \ {d} :
         /\ pc'[e] = pc[e] /\ batch'[e] = batch[e] /\ cur'[e] = cur[e]
         /\ todo'[e] = todo[e] /\ errors'[e] = errors[e]
    /\ \/ batch'[d] = batch[d] /\ cur'[d] = t /\ pc'[d] \notin Outside
       \/ /\ d \in Guarded => Untouched(t)'
          /\ batch'[d] = {} /\ cur'[d] = NoTask /\ pc'[d] = "idle"

\* Nobody else holds the row, so the invariant is kept if it is for that row.
LEMMA Locality ==
    ASSUME NEW d \in Drainer, NEW t \in Task, IInv, TypeOK', Inside(d, t),
           cur'[d] = t => Stage(d, t)', PassedRow(t)', TrueVerdict(t)'
    PROVE  IInv'
<1> USE ExecuteAssumption
<1>1. \A e \in Drainer \ {d} : t \notin batch[e] /\ cur[e] # t
  BY DEF IInv, Ownership, Inside
<1>2. Ownership'
  BY DEF IInv, Ownership, Inside, queueVars, Outside
<1>3. \A u \in Task : claimant[u] = NoDrainer => u # t
  BY DEF IInv, Ownership, Inside
<1>4. Pristine'
  <2>1. ASSUME NEW u \in Task \ {t}, Unbegun(u) PROVE Unbegun(u)'
    BY <2>1 DEF Unbegun, Untouched, Fresh, Inside, queueVars
  <2>2. ASSUME NEW u \in Task, claimant'[u] = NoDrainer PROVE Unbegun(u)'
    BY <1>3, <2>1, <2>2 DEF IInv, Pristine, Inside, queueVars
  <2>3. ASSUME NEW e \in Drainer, NEW u \in batch'[e] PROVE Unbegun(u)'
    <3>1. u \in batch[e]
      BY <2>3 DEF Inside
    <3>2. u \in Task \ {t}
      BY <1>1, <3>1 DEF IInv, TypeOK, Ownership, Inside
    <3> QED
      BY <2>1, <3>1, <3>2 DEF IInv, Pristine
  <2>4. QED
    BY <2>2, <2>3 DEF Pristine
<1>5. ASSUME NEW e \in Drainer \ {d}, cur[e] # NoTask PROVE Stage(e, cur[e])'
  <2>1. cur[e] \in Task \ {t}
    BY <1>1, <1>5 DEF IInv, TypeOK
  <2>2. Stage(e, cur[e])
    BY <1>5 DEF IInv, Stages
  <2>3. QED
    BY <2>1, <2>2 DEF Stage, Untouched, Fresh, Gated, Inside, queueVars
<1>6. Stages'
  BY <1>5 DEF Stages, Inside
<1>7. Rowwise'
  <2> SUFFICES ASSUME NEW u \in Task \ {t} PROVE (PassedRow(u) /\ TrueVerdict(u))'
      BY DEF Rowwise
  <2>1. PassedRow(u) /\ TrueVerdict(u)
    BY DEF IInv, Rowwise
  <2>2. QED
    BY <2>1 DEF PassedRow, TrueVerdict, Gated, Inside, queueVars
<1>8. WorkersAnswer'
  <2> SUFFICES ASSUME NEW e \in Guarded, NEW u \in Task, claimant[u] = e,
                      status[u] = "running", u \notin batch'[e], u # cur'[e],
                      ends'[u] = "none"
               PROVE  Untouched(u)'
      BY DEF WorkersAnswer, Answered, Inside, queueVars
  <2>1. CASE u = t
    BY <1>1, <2>1 DEF IInv, Ownership, Inside
  <2>2. CASE u # t
    <3>1. ends[u] = "none" /\ (Untouched(u) => Untouched(u)')
      BY <2>2 DEF Inside, Untouched
    <3>2. u \in batch[e] => Unbegun(u)
      BY DEF IInv, Pristine
    <3>3. u # cur[e]
      BY <2>2 DEF Inside
    <3>4. QED
      BY <3>1, <3>2, <3>3 DEF IInv, WorkersAnswer, Answered, Unbegun
  <2>3. QED
    BY <2>1, <2>2
<1>9. QED
  BY <1>2, <1>4, <1>6, <1>7, <1>8 DEF IInv

\* Whatever a drainer does to its row, the row is one it holds.
LEMMA OnARow ==
    ASSUME NEW d \in Drainer, IInv, pc[d] \notin Outside
    PROVE  /\ cur[d] \in Task /\ claimant[cur[d]] = d /\ Stage(d, cur[d])
           /\ PassedRow(cur[d]) /\ TrueVerdict(cur[d])
BY DEF IInv, Ownership, Stages, TypeOK, Rowwise

\* The task's type and the gates.
LEMMA RouteKeeps == ASSUME NEW d \in Drainer, IInv, Route(d) PROVE IInv'
<1>1. pc[d] = "route" /\ pc[d] \notin Outside
  BY DEF Route, At, Outside
<1>2. PICK t \in Task : cur[d] = t /\ claimant[t] = d /\ Stage(d, t) /\ Fresh(t)
  BY <1>1, OnARow DEF Stage
<1>3. TypeOK'
  BY <1>2 DEF IInv, TypeOK, Route, Continue, Refuse, Ends, Goto, queueVars, drainVars, ranVars,
              traceVars, Q!TypeOK, Refusal, Q!Terminal
<1>4. Inside(d, t)
  BY <1>1, <1>2 DEF IInv, TypeOK, Inside, Route, Continue, Refuse, Ends, Goto, drainVars,
                    ranVars, traceVars, Outside
<1>5. Stage(d, t)'
  BY <1>2 DEF IInv, TypeOK, Route, Continue, Refuse, Ends, Goto, Row, Stage, Untouched, Fresh,
              Gated, Ended, FleetEgress, Deniable, queueVars, drainVars, ranVars, Q!Terminal
<1>6. PassedRow(t)' /\ TrueVerdict(t)'
  BY <1>2 DEF IInv, TypeOK, Route, Continue, Refuse, Ends, Fresh, PassedRow, TrueVerdict,
              Refusal, queueVars, ranVars
<1>7. QED
  BY <1>2, <1>3, <1>4, <1>5, <1>6, Locality

\* The "open" callback raises: the thread gives its row up before it is begun.
LEMMA OpenRaisesKeeps == ASSUME NEW d \in Drainer, IInv, OpenRaises(d) PROVE IInv'
<1>1. pc[d] = "route" /\ pc[d] \notin Outside
  BY DEF OpenRaises, At, Outside
<1>2. PICK t \in Task : /\ cur[d] = t /\ claimant[t] = d /\ Stage(d, t)
                        /\ PassedRow(t) /\ TrueVerdict(t)
  BY <1>1, OnARow
<1> USE DEF OpenRaises, GiveUp, Continue, Goto, queueVars, ranVars, traceVars
<1>3. TypeOK'
  BY ExecuteAssumption DEF IInv, TypeOK, Q!TypeOK, Failure
<1>4. Inside(d, t)
  BY <1>1, <1>2 DEF IInv, TypeOK, Inside, Outside, Stage, Untouched
<1>5. PassedRow(t)' /\ TrueVerdict(t)'
  BY <1>2 DEF PassedRow, TrueVerdict, Gated
<1>6. cur'[d] # t
  BY <1>2, ExecuteAssumption DEF IInv, TypeOK
<1>7. QED
  BY <1>2, <1>3, <1>4, <1>5, <1>6, Locality

\* The authorizer's answer, or its exception.
LEMMA GrantKeeps == ASSUME NEW d \in Drainer, IInv, Grant(d) PROVE IInv'
<1>1. pc[d] = "grant" /\ pc[d] \notin Outside
  BY DEF Grant, At, Outside
<1>2. PICK t \in Task : cur[d] = t /\ claimant[t] = d /\ Stage(d, t) /\ Fresh(t)
  BY <1>1, OnARow DEF Stage
<1>3. PICK a \in Answers :
        /\ Asks(d, a)
        /\ \/ /\ a = "True" \/ (a = "truthy" /\ ~FleetEgress(Row(d)))
              /\ Continue(d, "scan") /\ UNCHANGED <<batch, cur>>
           \/ Refuse(d, "denied") /\ UNCHANGED <<batch, cur>>
           \/ Escape(d)
  BY DEF Grant
<1>4. UNCHANGED <<queueVars, failures, row, todo, errors, ranVars, traceVars>>
  BY DEF Grant
<1> USE <1>4 DEF IInv, TypeOK, Asks, Row, queueVars, ranVars, traceVars
<1>5. CASE /\ a = "True" \/ (a = "truthy" /\ ~FleetEgress(Row(d)))
           /\ Continue(d, "scan") /\ UNCHANGED <<batch, cur>>
  <2>1. TypeOK'
    BY <1>2, <1>3, <1>5 DEF Continue, Goto, Q!TypeOK
  <2>2. Inside(d, t)
    BY <1>1, <1>2, <1>3, <1>5 DEF Inside, Continue, Goto, Outside
  <2>3. Stage(d, t)'
    BY <1>1, <1>2, <1>3, <1>5 DEF Stage, Untouched, Fresh, Gated, Ended, Continue, Goto
  <2>4. PassedRow(t)' /\ TrueVerdict(t)'
    BY <1>2, <1>5 DEF Fresh, PassedRow, TrueVerdict, Continue, Refusal
  <2>5. QED
    BY <1>2, <2>1, <2>2, <2>3, <2>4, Locality
<1>6. ASSUME NEW reason \in {"denied", "raised"}, Refuse(d, reason), UNCHANGED <<batch, cur>>
      PROVE  IInv'
  <2>1. TypeOK'
    BY <1>2, <1>3, <1>6 DEF Refuse, Ends, Goto, Q!TypeOK, Refusal, Q!Terminal
  <2>2. Inside(d, t)
    BY <1>1, <1>2, <1>3, <1>6 DEF Inside, Refuse, Ends, Goto, Outside
  <2>3. Stage(d, t)'
    BY <1>2, <1>6 DEF Stage, Untouched, Fresh, Ended, Refuse, Ends, Goto, Q!Terminal
  <2>4. PassedRow(t)' /\ TrueVerdict(t)'
    BY <1>2, <1>6 DEF Fresh, PassedRow, TrueVerdict, Refuse, Ends, Refusal
  <2>5. QED
    BY <1>2, <2>1, <2>2, <2>3, <2>4, Locality
<1>7. CASE Escape(d) /\ d \notin Guarded
  <2>1. TypeOK'
    BY <1>2, <1>3, <1>7 DEF Escape, GiveUp, Continue, Goto, Q!TypeOK
  <2>2. Inside(d, t)
    BY <1>1, <1>2, <1>3, <1>7 DEF Inside, Escape, GiveUp, Continue, Goto, Outside
  <2>3. PassedRow(t)' /\ TrueVerdict(t)'
    BY <1>2, <1>7 DEF Fresh, PassedRow, TrueVerdict, Escape, GiveUp, Continue, Refusal
  <2>4. cur'[d] # t
    BY <1>2, <1>7, ExecuteAssumption DEF Escape, GiveUp
  <2>5. QED
    BY <1>2, <2>1, <2>2, <2>3, <2>4, Locality
<1>8. QED
  BY <1>3, <1>5, <1>6, <1>7 DEF Escape

\* What a handler returns, or that there is none.
LEMMA HandlerKeeps == ASSUME NEW d \in Drainer, IInv, Handler(d) PROVE IInv'
<1>1. pc[d] = "handler" /\ pc[d] \notin Outside
  BY DEF Handler, At, Outside
<1>2. PICK t \in Task : cur[d] = t /\ claimant[t] = d /\ Stage(d, t) /\ Fresh(t)
  BY <1>1, OnARow DEF Stage
<1>3. PICK s \in Q!Terminal, reason \in {"handler", "raised", "unsupported"} :
        Ends(d, s, reason) /\ (reason = "unsupported" => s = "failed")
  BY DEF Handler, Q!Terminal
<1> USE DEF IInv, TypeOK, Handler, Goto, queueVars, drainVars, ranVars, traceVars
<1>4. TypeOK'
  BY <1>2, <1>3 DEF Ends, Q!TypeOK, Refusal
<1>5. Inside(d, t)
  BY <1>1, <1>2, <1>3 DEF Inside, Ends, Outside
<1>6. Stage(d, t)'
  BY <1>2, <1>3 DEF Stage, Untouched, Fresh, Ended, Ends
<1>7. PassedRow(t)' /\ TrueVerdict(t)'
  BY <1>2, <1>3 DEF Fresh, PassedRow, TrueVerdict, Ends, Refusal
<1>8. QED
  BY <1>2, <1>4, <1>5, <1>6, <1>7, Locality

\* The scan, and the blocks it counts.
LEMMA ScanKeeps == ASSUME NEW d \in Drainer, IInv, Scan(d) PROVE IInv'
<1>1. pc[d] = "scan" /\ pc[d] \notin Outside
  BY DEF Scan, At, Outside
<1>2. PICK t \in Task : cur[d] = t /\ claimant[t] = d /\ Stage(d, t) /\ Fresh(t) /\ Gated(t)
  BY <1>1, OnARow DEF Stage
<1>3. row[t].blocks \in Nat
  BY <1>2, RowTypes DEF IInv, RowKind
<1> USE DEF IInv, TypeOK, Scan, Goto, Row, queueVars, ranVars, traceVars
<1>4. TypeOK'
  <2>1. todo' \in [Drainer -> Nat] /\ errors' \in [Drainer -> BOOLEAN]
    BY <1>2, <1>3
  <2>2. /\ pc' \in [Drainer -> {"idle", "pick", "route", "grant", "scan", "run", "handler",
                                "ledger", "log", "record"}]
        /\ ends' \in [Task -> Q!Terminal \cup {"none"}]
        /\ why' \in [Task -> Refusal \cup {"none", "ran", "raised", "handler"}]
    BY <1>2 DEF Ends, Continue, Refusal, Q!Terminal
  <2>3. QED
    BY <2>1, <2>2 DEF Q!TypeOK
<1>5. Inside(d, t)
  BY <1>1, <1>2 DEF Inside, Ends, Continue, Outside
<1>6. Stage(d, t)'
  BY <1>2, <1>3 DEF Stage, Untouched, Fresh, Gated, Ended, Ends, Continue, Q!Terminal
<1>7. PassedRow(t)' /\ TrueVerdict(t)'
  BY <1>2 DEF Fresh, PassedRow, TrueVerdict, Ends, Continue, Refusal
<1>8. QED
  BY <1>2, <1>4, <1>5, <1>6, <1>7, Locality

\* One command of the row.
LEMMA RunKeeps == ASSUME NEW d \in Drainer, IInv, Run(d) PROVE IInv'
<1>1. pc[d] = "run" /\ pc[d] \notin Outside
  BY DEF Run, At, Outside
<1>2. PICK t \in Task : /\ cur[d] = t /\ claimant[t] = d /\ Stage(d, t)
                        /\ PassedRow(t) /\ TrueVerdict(t)
  BY <1>1, OnARow
<1>3. /\ row[t].blocks \in Nat /\ todo[d] \in Nat /\ good[t] \in Nat /\ bad[t] \in Nat
      /\ errors[d] \in BOOLEAN
  BY <1>2, RowTypes DEF IInv, TypeOK, RowKind
<1>4. PICK ok \in BOOLEAN : Ran(d, ok) /\ Proceed(d, errors[d] \/ ~ok)
  BY DEF Run
<1>5. /\ UNCHANGED <<queueVars, failures, row, batch, cur, granted, traceVars>>
      /\ errors' = [errors EXCEPT ![d] = errors[d] \/ ~ok]
      /\ todo' = [todo EXCEPT ![d] = @ - 1]
  BY <1>4 DEF Run, Proceed
<1>6. /\ good' = [good EXCEPT ![t] = @ + (IF ok THEN 1 ELSE 0)]
      /\ bad' = [bad EXCEPT ![t] = @ + (IF ok THEN 0 ELSE 1)]
  BY <1>2, <1>4 DEF Ran
<1>7. \/ todo[d] > 1 /\ pc' = [pc EXCEPT ![d] = "run"] /\ UNCHANGED <<ends, why>>
      \/ /\ todo[d] <= 1 /\ pc' = [pc EXCEPT ![d] = "log"]
         /\ ends' = [ends EXCEPT ![t] = IF errors[d] \/ ~ok THEN "failed" ELSE "completed"]
         /\ why' = [why EXCEPT ![t] = "ran"]
  BY <1>2, <1>3, <1>4 DEF Proceed, Continue, Ends, Goto
<1> USE DEF IInv, TypeOK, queueVars, traceVars
<1>8. /\ good'[t] + bad'[t] = good[t] + bad[t] + 1
      /\ good'[t] \in Nat /\ bad'[t] \in Nat
      /\ bad'[t] = 0 <=> bad[t] = 0 /\ ok
  BY <1>2, <1>3, <1>6
<1>9. TypeOK'
  <2>1. good' \in [Task -> Nat] /\ bad' \in [Task -> Nat]
    BY <1>2, <1>3, <1>6
  <2>2. todo' \in [Drainer -> Nat]
    BY <1>1, <1>2, <1>3, <1>5 DEF Stage
  <2>3. errors' \in [Drainer -> BOOLEAN]
    BY <1>5
  <2>4. /\ pc' \in [Drainer -> {"idle", "pick", "route", "grant", "scan", "run", "handler",
                                "ledger", "log", "record"}]
        /\ ends' \in [Task -> Q!Terminal \cup {"none"}]
        /\ why' \in [Task -> Refusal \cup {"none", "ran", "raised", "handler"}]
    BY <1>2, <1>7 DEF Q!Terminal
  <2>5. QED
    BY <1>5, <2>1, <2>2, <2>3, <2>4 DEF Q!TypeOK
<1>10. Inside(d, t)
  BY <1>1, <1>2, <1>5, <1>6, <1>7 DEF Inside, Outside
<1>11. Stage(d, t)'
  <2>1. /\ Gated(t)' /\ verdict'[t] = "none" /\ row'[t].clean
        /\ ends[t] = "none" /\ why[t] = "none"
        /\ todo[d] > 0 /\ good[t] + bad[t] + todo[d] = row[t].blocks
        /\ errors[d] <=> bad[t] # 0
    BY <1>1, <1>2, <1>5 DEF Stage, Gated
  <2>2. CASE pc'[d] = "run"
    <3>1. todo[d] > 1 /\ UNCHANGED <<ends, why>>
      BY <1>7, <2>2
    <3>2. todo'[d] = todo[d] - 1 /\ errors'[d] = (errors[d] \/ ~ok)
      BY <1>5
    <3>3. todo'[d] > 0 /\ good'[t] + bad'[t] + todo'[d] = row'[t].blocks
      BY <1>3, <1>5, <1>8, <2>1, <3>1, <3>2
    <3>4. errors'[d] <=> bad'[t] # 0
      BY <1>8, <2>1, <3>2
    <3>5. QED
      BY <2>1, <2>2, <3>1, <3>3, <3>4 DEF Stage, Ended
  <2>3. CASE pc'[d] = "log"
    <3>1. ends'[t] \in Q!Terminal /\ why'[t] # "none"
      BY <1>2, <1>7, <2>3 DEF Q!Terminal
    <3>2. QED
      BY <2>1, <2>3, <3>1 DEF Stage, Ended
  <2>4. QED
    BY <1>7, <2>2, <2>3
<1>12. PassedRow(t)'
  BY <1>1, <1>2, <1>5 DEF Stage, Gated, PassedRow
<1>13. TrueVerdict(t)'
  BY <1>1, <1>2, <1>3, <1>5, <1>7, <1>8 DEF Stage, TrueVerdict, Refusal
<1>14. QED
  BY <1>2, <1>9, <1>10, <1>11, <1>12, <1>13, Locality

\* An exception of run_shell_task.
LEMMA RunRaisesKeeps == ASSUME NEW d \in Drainer, IInv, RunRaises(d) PROVE IInv'
<1>1. pc[d] \in {"scan", "run"} /\ pc[d] \notin Outside
  BY DEF RunRaises, At, Outside
<1>2. PICK t \in Task : cur[d] = t /\ claimant[t] = d /\ Stage(d, t) /\ PassedRow(t)
  BY <1>1, OnARow
<1> USE DEF IInv, TypeOK, RunRaises, Ends, Goto, queueVars, drainVars, ranVars, traceVars
<1>3. TypeOK'
  BY <1>2 DEF Q!TypeOK, Refusal, Q!Terminal
<1>4. Inside(d, t)
  BY <1>1, <1>2 DEF Inside, Outside
<1>5. Stage(d, t)'
  BY <1>1, <1>2 DEF Stage, Untouched, Fresh, Ended, Q!Terminal
<1>6. PassedRow(t)' /\ TrueVerdict(t)'
  BY <1>1, <1>2 DEF Stage, Untouched, Fresh, PassedRow, Gated, TrueVerdict, Refusal
<1>7. QED
  BY <1>2, <1>3, <1>4, <1>5, <1>6, Locality

\* The forensic writes leave everything that is said of the row alone.
LEMMA WritesKeep == ASSUME NEW d \in Drainer, IInv, Ledger(d) \/ Log(d) PROVE IInv'
<1>1. pc[d] \in {"ledger", "log"} /\ pc[d] \notin Outside
  BY DEF Ledger, Log, At, Outside
<1>2. PICK t \in Task : /\ cur[d] = t /\ claimant[t] = d /\ Stage(d, t)
                        /\ PassedRow(t) /\ TrueVerdict(t)
  BY <1>1, OnARow
<1>3. /\ UNCHANGED <<queueVars, row, drainVars, ends, why, granted, ranVars>>
      /\ pc' \in {[pc EXCEPT ![d] = "log"], [pc EXCEPT ![d] = "record"]}
      /\ failures' = failures \/ Failure
      /\ noted' \in {noted, [noted EXCEPT ![t] = TRUE]}
      /\ logged' \in {logged, [logged EXCEPT ![t] = TRUE]}
  BY <1>2 DEF Ledger, Log, Goto, traceVars
<1> USE DEF IInv, TypeOK, queueVars, drainVars, ranVars
<1>4. TypeOK'
  <2>1. failures' \in 0 .. MaxFailures
    BY <1>3, ExecuteAssumption DEF Failure
  <2>2. noted' \in [Task -> BOOLEAN] /\ logged' \in [Task -> BOOLEAN]
    BY <1>2, <1>3
  <2>3. pc' \in [Drainer -> {"idle", "pick", "route", "grant", "scan", "run", "handler",
                             "ledger", "log", "record"}]
    BY <1>3
  <2>4. QED
    BY <1>3, <2>1, <2>2, <2>3 DEF Q!TypeOK
<1>5. Inside(d, t)
  BY <1>1, <1>2, <1>3 DEF Inside, Outside
<1>6. Stage(d, t)'
  BY <1>1, <1>2, <1>3 DEF Stage, Ended
<1>7. PassedRow(t)' /\ TrueVerdict(t)'
  BY <1>2, <1>3 DEF PassedRow, Gated, TrueVerdict
<1>8. QED
  BY <1>2, <1>4, <1>5, <1>6, <1>7, Locality

\* A drainer of nothing takes rows that nobody has.
LEMMA ClaimKeeps == ASSUME NEW d \in Drainer, IInv, Claim(d) PROVE IInv'
<1>1. pc[d] = "idle" /\ pc' = [pc EXCEPT ![d] = "pick"]
  BY DEF Claim, At, Goto
<1>2. PICK S \in SUBSET {t \in Task : status[t] = "pending"} :
        Q!Claim(d, S, [t \in S |-> 0]) /\ batch' = [batch EXCEPT ![d] = S]
  BY DEF Claim
<1>3. /\ status' = [t \in Task |-> IF t \in S THEN "running" ELSE status[t]]
      /\ age' = [t \in Task |-> IF t \in S THEN 0 ELSE age[t]]
      /\ claimant' = [t \in Task |-> IF t \in S THEN d ELSE claimant[t]]
      /\ UNCHANGED <<verdict, reapedBy>>
  BY <1>2 DEF Q!Claim, Q!HandOut
<1>4. UNCHANGED <<failures, row, cur, todo, errors, ends, why, granted, ranVars, traceVars>>
  BY DEF Claim
<1>5. batch[d] = {} /\ cur[d] = NoTask
  BY <1>1 DEF IInv, Ownership, Outside
<1>6. \A t \in S : t \in Task /\ claimant[t] = NoDrainer /\ Fresh(t)
                       /\ Untouched(t)
  BY <1>2 DEF IInv, Ownership, Pristine, Unbegun
<1> USE <1>1, <1>2, <1>3, <1>4 DEF ranVars, traceVars
<1>7. TypeOK'
  BY ExecuteAssumption DEF IInv, TypeOK, Q!TypeOK, Q!Status, Q!Age
<1>8. Ownership'
  BY <1>5, <1>6, ExecuteAssumption DEF IInv, Ownership, TypeOK, Outside
<1>9. Pristine'
  BY <1>6, ExecuteAssumption DEF IInv, Pristine, Unbegun, Untouched, Fresh, TypeOK
<1>10. Stages'
  <2> SUFFICES ASSUME NEW e \in Drainer, cur'[e] # NoTask PROVE Stage(e, cur[e])'
      BY DEF Stages
  <2>1. Stage(e, cur[e]) /\ cur[e] \notin S /\ cur[e] \in Task /\ e # d
    BY <1>5, <1>6, ExecuteAssumption DEF IInv, Stages, Ownership, TypeOK
  <2>2. QED
    BY <2>1 DEF Stage, Untouched, Fresh, Gated, IInv, TypeOK
<1>11. Rowwise'
  <2> SUFFICES ASSUME NEW t \in Task PROVE (PassedRow(t) /\ TrueVerdict(t))'
      BY DEF Rowwise
  <2>1. PassedRow(t) /\ TrueVerdict(t)
    BY DEF IInv, Rowwise
  <2>2. PassedRow(t)'
    BY <1>6, <2>1 DEF PassedRow, Gated, Fresh
  <2>3. QED
    BY <2>1, <2>2 DEF TrueVerdict
<1>12. WorkersAnswer'
  BY <1>5, <1>6, ExecuteAssumption DEF IInv, WorkersAnswer, Answered, Untouched, TypeOK
<1>13. QED
  BY <1>7, <1>8, <1>9, <1>10, <1>11, <1>12 DEF IInv

\* The next row of the batch, of which nothing is known but that it is new.
LEMMA PickKeeps == ASSUME NEW d \in Drainer, IInv, Pick(d) PROVE IInv'
<1>1. PICK t \in batch[d] : /\ cur' = [cur EXCEPT ![d] = t]
                            /\ batch' = [batch EXCEPT ![d] = @ \ {t}]
  BY DEF Pick
<1>2. /\ pc[d] = "pick" /\ pc' = [pc EXCEPT ![d] = "route"]
      /\ UNCHANGED <<queueVars, failures, row, todo, errors, ends, why, granted, ranVars,
                     traceVars>>
  BY DEF Pick, At, Goto
<1>3. t \in Task /\ claimant[t] = d /\ Fresh(t) /\ Untouched(t) /\ t # NoTask
  BY ExecuteAssumption DEF IInv, TypeOK, Ownership, Pristine, Unbegun
<1> USE <1>1, <1>2, <1>3 DEF queueVars, ranVars, traceVars
<1>4. TypeOK'
  BY DEF IInv, TypeOK, Q!TypeOK
<1>5. Ownership'
  BY DEF IInv, TypeOK, Ownership, Outside
<1>6. Pristine'
  BY DEF IInv, TypeOK, Pristine, Unbegun, Untouched, Fresh
<1>7. Stages'
  BY DEF IInv, TypeOK, Stages, Stage, Untouched, Fresh, Gated, Ended
<1>8. Rowwise'
  BY DEF IInv, Rowwise, PassedRow, TrueVerdict, Gated
<1>9. WorkersAnswer'
  <2>1. cur[d] = NoTask
    BY DEF IInv, Ownership, Outside
  <2>2. cur'[d] = t /\ batch'[d] = batch[d] \ {t}
    BY DEF IInv, TypeOK
  <2>3. \A e \in Drainer \ {d} : cur'[e] = cur[e] /\ batch'[e] = batch[e]
    BY DEF IInv, TypeOK
  <2>4. QED
    BY <2>1, <2>2, <2>3, ExecuteAssumption DEF IInv, WorkersAnswer, Answered, Untouched
<1>10. QED
  BY <1>4, <1>5, <1>6, <1>7, <1>8, <1>9 DEF IInv

LEMMA ReturnKeeps == ASSUME NEW d \in Drainer, IInv, Return(d) PROVE IInv'
<1> USE DEF Return, At, Goto, queueVars, drainVars, ranVars, traceVars
<1>1. TypeOK'
  BY DEF IInv, TypeOK, Q!TypeOK
<1>2. Ownership' /\ Pristine'
  BY DEF IInv, TypeOK, Ownership, Outside, Pristine, Unbegun, Untouched, Fresh
<1>3. Stages'
  BY DEF IInv, TypeOK, Ownership, Outside, Stages, Stage, Untouched, Fresh, Gated, Ended
<1>4. Rowwise' /\ WorkersAnswer'
  BY DEF IInv, Rowwise, PassedRow, TrueVerdict, Gated, WorkersAnswer, Answered, Untouched
<1>5. QED
  BY <1>1, <1>2, <1>3, <1>4 DEF IInv

\* The verdict is what execute_task_row returned; or it is lost.
LEMMA RecordKeeps == ASSUME NEW d \in Drainer, IInv, Record(d) PROVE IInv'
<1>1. pc[d] = "record" /\ pc[d] \notin Outside
  BY DEF Record, At, Outside
<1>2. PICK t \in Task : /\ cur[d] = t /\ claimant[t] = d /\ Stage(d, t)
                        /\ PassedRow(t) /\ TrueVerdict(t)
  BY <1>1, OnARow
<1>3. /\ cur' = [cur EXCEPT ![d] = NoTask] /\ pc' = [pc EXCEPT ![d] = "pick"]
      /\ UNCHANGED <<row, batch, todo, errors, ends, why, granted, ranVars, traceVars>>
  BY DEF Record, Goto
<1>4. \/ /\ status' = [status EXCEPT ![t] = ends[t]]
         /\ age' = [age EXCEPT ![t] = Q!NoLease]
         /\ verdict' = [verdict EXCEPT ![t] = ends[t]]
         /\ UNCHANGED <<claimant, reapedBy, failures>>
      \/ Failure /\ UNCHANGED queueVars
  BY <1>2 DEF Record, Q!MarkDone
<1>5. ends[t] \in Q!Terminal
  BY <1>1, <1>2 DEF Stage, Ended
<1>6. \A e \in Drainer \ {d} : t # cur[e] /\ t \notin batch[e]
  BY <1>2, ExecuteAssumption DEF IInv, Ownership
<1>7. t \notin batch[d] /\ claimant' = claimant
  BY <1>2, <1>4 DEF IInv, Ownership, queueVars
<1> USE <1>2, <1>3 DEF ranVars
<1>8. TypeOK'
  <2>1. failures' \in 0 .. MaxFailures
    BY <1>4, ExecuteAssumption DEF IInv, TypeOK, Failure
  <2>2. /\ status' \in [Task -> Q!Status] /\ age' \in [Task -> Q!Age]
        /\ verdict' \in [Task -> Q!Terminal \cup {"none"}] /\ reapedBy' = reapedBy
    <3>1. /\ status \in [Task -> Q!Status] /\ age \in [Task -> Q!Age]
          /\ verdict \in [Task -> Q!Terminal \cup {"none"}]
      BY DEF IInv, TypeOK, Q!TypeOK
    <3>2. ends[t] \in Q!Status /\ Q!NoLease \in Q!Age
      BY <1>5 DEF Q!Status, Q!Age
    <3> QED
      BY <1>4, <1>5, <3>1, <3>2 DEF queueVars
  <2>3. QED
    BY <1>7, <2>1, <2>2 DEF IInv, TypeOK, Q!TypeOK, traceVars
<1>9. Ownership'
  <2>1. status'[t] # "pending" /\ status[t] # "pending"
    BY <1>4, <1>5, ExecuteAssumption DEF IInv, Ownership, TypeOK, Q!TypeOK, Q!Terminal,
       queueVars
  <2>2. \A u \in Task : status'[u] = "pending" <=> status[u] = "pending"
    BY <1>4, <2>1 DEF IInv, TypeOK, Q!TypeOK, queueVars
  <2>3. \A e \in Drainer : cur'[e] = NoTask <=> pc'[e] \in Outside
    BY <1>1 DEF IInv, Ownership, TypeOK, Outside
  <2>4. QED
    BY <1>1, <1>7, <2>2, <2>3, ExecuteAssumption DEF IInv, Ownership, TypeOK
<1>10. \A u \in Task \ {t} : verdict'[u] = verdict[u] /\ status'[u] = status[u]
  BY <1>4 DEF queueVars, IInv, TypeOK, Q!TypeOK
<1>11. Pristine'
  BY <1>6, <1>7, <1>10, ExecuteAssumption DEF IInv, TypeOK, ranVars, Pristine,
                                             Unbegun, Untouched, Fresh
<1>12. Stages'
  <2> SUFFICES ASSUME NEW e \in Drainer, cur'[e] # NoTask PROVE Stage(e, cur[e])'
      BY DEF Stages
  <2>1. e # d /\ cur'[e] = cur[e] /\ cur[e] \in Task \ {t} /\ Stage(e, cur[e])
    BY <1>6 DEF IInv, TypeOK, Stages
  <2>2. QED
    BY <1>7, <1>10, <2>1 DEF Stage, Untouched, Fresh, Gated, IInv, TypeOK
<1>13. Rowwise'
  <2> SUFFICES ASSUME NEW u \in Task PROVE (PassedRow(u) /\ TrueVerdict(u))'
      BY DEF Rowwise
  <2>1. PassedRow(u) /\ TrueVerdict(u)
    BY DEF IInv, Rowwise
  <2>2. verdict'[u] = verdict[u] \/ verdict'[u] = ends[u]
    BY <1>4, <1>10 DEF IInv, TypeOK, Q!TypeOK, queueVars
  <2>3. QED
    BY <1>7, <2>1, <2>2 DEF PassedRow, Gated, TrueVerdict
<1>14. WorkersAnswer'
  <2>1. ends'[t] # "none"
    BY <1>5 DEF Q!Terminal
  <2>2. QED
    BY <1>6, <1>7, <1>10, <2>1 DEF IInv, TypeOK, WorkersAnswer, Answered, Untouched
<1>15. QED
  BY <1>8, <1>9, <1>11, <1>12, <1>13, <1>14 DEF IInv

\* Rows fail or grow older: nothing that was claimed is pending again.
LEMMA OthersKeep ==
    ASSUME IInv, (\E d \in Guarded : Reap(d)) \/ Tick
    PROVE  IInv'
<1>1. /\ UNCHANGED <<failures, row, pc, drainVars, ends, why, granted, ranVars, traceVars>>
      /\ UNCHANGED <<claimant, verdict>>
      /\ \A t \in Task : \/ status'[t] = status[t]
                         \/ status[t] = "running" /\ status'[t] = "failed"
  BY DEF Reap, Tick, Q!Reap, Q!FailOrphans, Q!Tick, IInv, TypeOK, Q!TypeOK
<1>2. Q!TypeOK'
  <2>1. CASE Tick
    <3>1. \A a \in Q!Age : Q!Older(a) \in Q!Age
      BY ExecuteAssumption DEF Q!Older, Q!Age, Q!NoLease
    <3>2. QED
      BY <2>1, <3>1 DEF IInv, TypeOK, Tick, Q!Tick, Q!TypeOK
  <2>2. ASSUME NEW d \in Guarded, Reap(d) PROVE Q!TypeOK'
    BY <2>2, ExecuteAssumption DEF IInv, TypeOK, Reap, Q!Reap, Q!FailOrphans, Q!TypeOK,
       Q!Status, Q!Terminal, Q!Age
  <2>3. QED
    BY <2>1, <2>2
<1> USE <1>1 DEF drainVars, ranVars, traceVars
<1>3. TypeOK'
  BY <1>2 DEF IInv, TypeOK
<1>4. Ownership' /\ Pristine'
  BY DEF IInv, Ownership, Pristine, Unbegun, Untouched, Fresh
<1>5. Stages'
  BY DEF IInv, Stages, Stage, Untouched, Fresh, Gated
<1>6. Rowwise' /\ WorkersAnswer'
  BY DEF IInv, Rowwise, PassedRow, TrueVerdict, Gated, WorkersAnswer, Answered, Untouched
<1>7. QED
  BY <1>3, <1>4, <1>5, <1>6 DEF IInv

LEMMA IInvInductive == IInv /\ [Next]_vars => IInv'
<1> SUFFICES ASSUME IInv, [Next]_vars PROVE IInv'
    OBVIOUS
<1>1. ASSUME NEW d \in Drainer, Step(d) PROVE IInv'
  BY <1>1, PickKeeps, ReturnKeeps, RouteKeeps, GrantKeeps, HandlerKeeps, ScanKeeps, RunKeeps,
     WritesKeep, RecordKeeps DEF Step
<1>2. CASE UNCHANGED vars
  <2>1. TypeOK'
    BY <1>2 DEF vars, queueVars, drainVars, ranVars, traceVars, IInv, TypeOK, Q!TypeOK
  <2>2. Ownership' /\ Pristine' /\ Stages'
    BY <1>2 DEF vars, queueVars, drainVars, ranVars, traceVars, IInv, Ownership, Pristine,
                Unbegun, Untouched, Fresh, Stages, Stage, Gated
  <2>3. Rowwise' /\ WorkersAnswer'
    BY <1>2 DEF vars, queueVars, drainVars, ranVars, traceVars, IInv, Rowwise, PassedRow,
                TrueVerdict, Gated, WorkersAnswer, Answered, Untouched
  <2>4. QED
    BY <2>1, <2>2, <2>3 DEF IInv
<1>3. QED
  BY <1>1, <1>2, ClaimKeeps, RunRaisesKeeps, OpenRaisesKeeps, OthersKeep, ExecuteAssumption
  DEF Next

\* The invariant holds in every reachable state.
THEOREM Invariance == Spec => []IInv
BY IInvInitially, IInvInductive, PTL DEF Spec

\* No command of a row runs unless the retired directive, the scan and, for
\* egress, the authorizer let it pass (execute_task_row, run_shell_task).
THEOREM GatesHold == Spec => []OnlyPassedRowsRun
<1>1. IInv => OnlyPassedRowsRun
  BY RowwiseIsEnough DEF IInv
<1>2. QED
  BY <1>1, Invariance, PTL

\* A recorded verdict is what happened to the commands of the row.
THEOREM VerdictsAreTrue == Spec => []VerdictIsWhatHappened
<1>1. IInv => VerdictIsWhatHappened
  BY RowwiseIsEnough DEF IInv
<1>2. QED
  BY <1>1, Invariance, PTL

\* Whatever raises in execute_task_row, a worker's thread comes to a result for
\* the row it was given; only mark_done or the "open" callback can make it leave
\* one running (worker.py, _process_row).
THEOREM ThreadsAnswer == Spec => []WorkersAnswer
<1>1. IInv => WorkersAnswer
  BY DEF IInv
<1>2. QED
  BY <1>1, Invariance, PTL

\* What the drainers and the reaper do to the rows is what the queue's contract
\* allows (queue.py, TaskQueue).
THEOREM KeepsContract == Spec => Contract
<1>1. Init => Q!Init
  BY DEF Init, Q!Init
<1>2. IInv /\ [Next]_vars => [Q!Next]_(Q!vars)
  <2> SUFFICES ASSUME IInv, [Next]_vars PROVE Q!Next \/ UNCHANGED queueVars
      BY DEF Q!vars, queueVars
  <2>1. ASSUME NEW d \in Drainer, Claim(d) PROVE Q!Next
    <3>1. PICK S \in SUBSET {t \in Task : status[t] = "pending"} :
            Q!Claim(d, S, [t \in S |-> 0])
      BY <2>1 DEF Claim
    <3>2. S \in SUBSET Task /\ [t \in S |-> 0] \in [S -> 0 .. 0]
      BY <3>1
    <3>3. QED
      BY <3>1, <3>2 DEF Q!Next
  <2>2. ASSUME NEW d \in Drainer, Record(d) PROVE Q!Next \/ UNCHANGED queueVars
    <3>1. pc[d] = "record" /\ pc[d] \notin Outside
      BY <2>2 DEF Record, At, Outside
    <3>2. cur[d] \in Task /\ ends[cur[d]] \in Q!Terminal
      BY <3>1, OnARow DEF Stage, Ended
    <3>3. QED
      BY <2>2, <3>2 DEF Record, Q!Next
  <2>3. ASSUME NEW d \in Guarded, Reap(d) PROVE Q!Next
    <3>1. d \in Drainer /\ {t \in Task : Q!Expired(t)} \in SUBSET Task
      BY <2>3, ExecuteAssumption
    <3>2. QED
      BY <2>3, <3>1 DEF Reap, Q!Next
  <2>4. ASSUME Tick PROVE Q!Next
    BY <2>4 DEF Tick, Q!Next
  <2>5. ASSUME NEW d \in Drainer, Step(d) \/ RunRaises(d) \/ OpenRaises(d), ~Record(d)
        PROVE  UNCHANGED queueVars
    BY <2>5 DEF Step, Pick, Return, Route, Grant, Handler, Scan, Run, Ledger, Log,
                RunRaises, OpenRaises
  <2>6. QED
    BY <2>1, <2>2, <2>3, <2>4, <2>5, ExecuteAssumption DEF Next, vars
<1>3. QED
  BY <1>1, <1>2, Invariance, PTL DEF Spec, Contract, Q!Spec
=============================================================================
