------------------------------- MODULE MCRunner -------------------------------
EXTENDS Runner, TLC

\* Neither the vmctl processes nor the process ids are told apart.
Symmetry == Permutations(Clients) \cup Permutations(Runners)
===============================================================================
