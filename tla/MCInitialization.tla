---------------------------- MODULE MCInitialization ----------------------------
EXTENDS Initialization, TLC

\* No name is special: every definition treats all of them alike.
Symmetry == Permutations(Names)
================================================================================
