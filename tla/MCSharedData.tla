------------------------------ MODULE MCSharedData ------------------------------
EXTENDS SharedData, TLC

\* Processes are alike.
Symmetry == Permutations(Procs)
================================================================================
