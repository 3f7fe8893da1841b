----------------------------- MODULE MCRecords -----------------------------
\* What the workers leave on disk, the scan ledger and the task logs, for TLC.
EXTENDS ScanLedger, TaskLog, TLC

CONSTANTS
    w1, w2, w3,
    r1, r2, r3,
    d1, d2, d3,
    path, marker, root, author, pghost, safe, runtime, key, password,
    app

\* Any policy of a few, on any host of a few, for a task of any kind, while
\* somebody changes them ...
Configs ==
    {[pass |-> p, db |-> {password, pghost}, credentials |-> c, deny |-> d, runtimeBound |-> b] :
       p \in {{}, {marker, author}, {key, runtime}, Name}, c \in {{}, {key, author, safe}},
       d \in {{}, {key, safe, author}}, b \in BOOLEAN}
AnyHosts == [environ : {{}, Name}, fleet : {{}, Name}, socket : BOOLEAN, safe : BOOLEAN]
Plain == [pass |-> {key}, db |-> {password}, credentials |-> {key}, deny |-> {},
          runtimeBound |-> TRUE]
Quiet == [environ |-> {key}, fleet |-> {}, socket |-> FALSE, safe |-> FALSE]
OneTask ==
    {[runs |-> {r1}, dirOf |-> [r \in Run |-> d1], ask |-> [r \in Run |-> a],
      manifest |-> [r \in Run |-> TRUE], world |-> <<c, h>>, other |-> <<Plain, Quiet>>] :
       a \in Ask, c \in Configs, h \in AnyHosts}

\* ... three tasks with three, two or one directories ...
ThreeTasks ==
    {[runs |-> Run, dirOf |-> f, ask |-> [r \in Run |-> [net |-> TRUE, db |-> FALSE, by |-> app]],
      manifest |-> [r \in Run |-> TRUE], world |-> <<Plain, Quiet>>,
      other |-> <<Plain, Quiet>>] :
       f \in {r1 :> d1 @@ r2 :> d2 @@ r3 :> d3, r1 :> d1 @@ r2 :> d1 @@ r3 :> d2,
              [r \in Run |-> d1]}}

\* ... or none, and the ledger alone.
NoTask == {[c EXCEPT !.runs = {}, !.dirOf = [r \in Run |-> d1]] : c \in ThreeTasks}

AllCases == OneTask \cup ThreeTasks \cup NoTask

RecordsInit == Init /\ LogInit

\* The two share nothing: one moves while the other is at rest.
RecordsNext ==
    \/ active = {} /\ Next /\ UNCHANGED logVars
    \/ LogNext /\ UNCHANGED vars

RecordsSpec == RecordsInit /\ [][RecordsNext]_<<vars, logVars>>

Symmetry == Permutations({w1, w2, w3})
=============================================================================
