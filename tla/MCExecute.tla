----------------------------- MODULE MCExecute -----------------------------
\* execute.py on a small instance, for TLC.
EXTENDS Execute, TLC

CONSTANTS t1, t2, d1, d2

Shell == [type |-> "shell", net |-> FALSE, localhost |-> FALSE, submitted |-> FALSE,
          envelope |-> FALSE, clean |-> TRUE, blocks |-> 1]

\* A row of two commands, one of none, what the scan refuses, a goal; the retired
\* directive alone and hidden by allow_net; egress without attribution, with
\* half of it and with all of it.
Fleet == [Shell EXCEPT !.net = TRUE, !.submitted = TRUE, !.envelope = TRUE]

AllKinds ==
    {[Shell EXCEPT !.blocks = 2], [Shell EXCEPT !.blocks = 0], [Shell EXCEPT !.clean = FALSE],
     [Shell EXCEPT !.type = "goal"], [Shell EXCEPT !.localhost = TRUE],
     [Fleet EXCEPT !.localhost = TRUE], [Shell EXCEPT !.net = TRUE],
     [Fleet EXCEPT !.envelope = FALSE], Fleet}

\* Every kind, next to a plain row and to one with egress.
AllRows == {t1 :> k @@ t2 :> other : k \in AllKinds, other \in {Shell, Fleet}}
=============================================================================
