----------------------------- MODULE MCInstallation -----------------------------
EXTENDS Installation, TLC

\* No installer, version or source is special.
Symmetry == Permutations(Installers) \cup Permutations(Versions) \cup Permutations(Sources)
================================================================================
