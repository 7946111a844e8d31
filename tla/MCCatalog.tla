------------------------------- MODULE MCCatalog -------------------------------
EXTENDS Catalog, TLC

\* No name is special: every definition treats all of them alike.
Symmetry == Permutations(Names)
===============================================================================
