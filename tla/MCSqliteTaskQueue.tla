------------------------- MODULE MCSqliteTaskQueue -------------------------
\* The SQLite backend on a small instance, for TLC.
EXTENDS SqliteTaskQueue, TLC

CONSTANTS t1, t2, t3, c1, c2, kart, other

OneAgent == [t \in Task |-> kart]
TwoAgents == [t \in Task |-> IF t = t1 THEN other ELSE kart]
Symmetry == Permutations({c1, c2})
=============================================================================
