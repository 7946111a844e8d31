-------------------------------- MODULE LiveVM --------------------------------
(***************************************************************************)
(* What `vmctl load` and `vmctl reset` promise about the live VM, without  *)
(* journals, phases or renames: a load replaces the live content by a      *)
(* clone of a snapshot in one step; when a load can be neither finished    *)
(* nor undone, what the live VM held is kept in the archive                *)
(* (recovery/failed).  Content the guest wrote is never lost otherwise.    *)
(***************************************************************************)
EXTENDS Naturals

CONSTANTS
    Snapshots,   \* names of the finished snapshots
    Absent,      \* the live bundle path names nothing
    Leftovers    \* archived things that are no VM content

VARIABLES
    live,        \* content of the live VM, or Absent
    archive      \* what recovery/failed holds

vars == <<live, archive>>

Content == [from : Snapshots, rev : Nat]
Clone(s) == [from |-> s, rev |-> 0]

Init ==
    /\ live \in {Clone(s) : s \in Snapshots}
    /\ archive = {}

\* The guest runs on the live bundle and changes its disk.
Write ==
    /\ live \in Content
    /\ live' \in {c \in Content : c.from = live.from /\ c.rev > live.rev}
    /\ UNCHANGED archive

\* A load commits: the old content is gone, the new one is a fresh clone.
Load(s) ==
    /\ live' = Clone(s)
    /\ UNCHANGED archive

\* A load can be neither committed nor undone: the displaced content moves to
\* the archive and the live path keeps the fresh clone or nothing.
SetAside ==
    /\ live \in Content
    /\ archive' = archive \cup {live}
    /\ live' \in {Absent} \cup {Clone(s) : s \in Snapshots}

\* Something else is preserved for diagnosis.
Preserve ==
    /\ \E c \in archive' :
          c \in Content \cup Leftovers /\ archive' = archive \cup {c}
    /\ UNCHANGED live

Next ==
    \/ Write
    \/ \E s \in Snapshots : Load(s)
    \/ SetAside
    \/ Preserve

Spec == Init /\ [][Next]_vars
===============================================================================
