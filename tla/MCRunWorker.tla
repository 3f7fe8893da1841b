---------------------------- MODULE MCRunWorker ----------------------------
\* run_worker on small instances, for TLC.
EXTENDS RunWorker, TLC

CONSTANTS t1, t2, t3, w1, w2, kart, other

OneAgent == [t \in Task |-> kart]
KartWorkers == [w \in Proc |-> kart]

OneSlot == [w \in Proc |-> 1]
FastAndBatch == [w \in Proc |-> IF w = w1 THEN 2 ELSE 1]

OneTick == [w \in Proc |-> 1]
OneBlock == [t \in Task |-> 1]
TwoBlocks == [t \in Task |-> 2]

Symmetry == Permutations({t1, t2, t3} \cap Task)
=============================================================================
