--------------------------- MODULE MCCgroupSetup ---------------------------
\* The cgroup parent on small instances, for TLC.
EXTENDS CgroupSetup, TLC

CONSTANTS s1, s2, t1

Symmetry == Permutations(Setup)
=============================================================================
