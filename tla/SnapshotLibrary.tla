--------------------------- MODULE SnapshotLibrary ---------------------------
(***************************************************************************)
(* What the snapshot catalog promises, with no process, file or failure in *)
(* it: a library of immutable snapshots, and one of them, the base, that   *)
(* `vmctl reset` can always load.  Catalog.tla implements it.              *)
(***************************************************************************)

CONSTANTS
    Names,    \* names a snapshot can have
    Records,  \* what a snapshot can hold
    Absent    \* no snapshot of that name

VARIABLES
    library,  \* the snapshot each name stands for, or Absent
    base      \* the name `vmctl reset` loads

vars == <<library, base>>

\* `vmctl init` registers the first snapshot and makes it the base.
Init ==
    /\ base \in Names
    /\ \E record \in Records :
          library = [n \in Names |-> IF n = base THEN record ELSE Absent]

\* A new snapshot appears as a whole, under a name that was free.
Add(n) ==
    /\ library[n] = Absent
    /\ \E record \in Records : library' = [library EXCEPT ![n] = record]
    /\ UNCHANGED base

\* Any snapshot but the base can be deleted; it is gone as a whole.
Delete(n) ==
    /\ n # base /\ library[n] # Absent
    /\ library' = [library EXCEPT ![n] = Absent]
    /\ UNCHANGED base

\* The base pointer moves from one snapshot of the library to another.
Promote(n) ==
    /\ library[n] # Absent
    /\ base' = n
    /\ UNCHANGED library

Next == \E n \in Names : Add(n) \/ Delete(n) \/ Promote(n)

Spec == Init /\ [][Next]_vars
===============================================================================
