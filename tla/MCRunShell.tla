----------------------------- MODULE MCRunShell -----------------------------
\* run_shell and the leaf sweep on a small instance, for TLC.
EXTENDS RunShell

CONSTANTS w1, w2, host, container, p1, p2, l1
=============================================================================
