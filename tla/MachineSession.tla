---------------------------- MODULE MachineSession ----------------------------
(***************************************************************************)
(* What `vmctl start`, `stop`, `shutdown` and `load` promise about one VM, *)
(* without processes, records, signals or locks: one guest at a time; a    *)
(* guest that is suspended leaves its memory with the disk it belongs to;  *)
(* that memory is used once, by the next guest and on that disk; and the   *)
(* disk is replaced only when no guest has it.                             *)
(***************************************************************************)
EXTENDS Naturals

CONSTANTS
    Runners,   \* who can run a guest
    None,      \* no saved memory
    Broken     \* memory that was not saved to its end

VARIABLES
    disk,      \* revision of the disk
    memory,    \* the saved memory: the revision of the disk it belongs to
    guests,    \* who runs a guest
    trusted    \* no saved memory was left that had been used or outlived

vars == <<disk, memory, guests, trusted>>

Init ==
    /\ disk = 0 /\ memory \in {None, 0}
    /\ guests = {} /\ trusted = TRUE

\* Once the trust is gone, nothing is promised about the saved memory.
Leaves(m) == memory' = IF trusted THEN m ELSE None

\* The next guest boots, ...
Boot(r) ==
    /\ guests' = {r} /\ memory = None
    /\ UNCHANGED <<disk, memory, trusted>>

\* ... or goes on where one was suspended, and the memory is used up.
Resume(r) ==
    /\ guests' = {r}
    /\ memory = disk /\ memory' = None
    /\ UNCHANGED <<disk, trusted>>

\* What a failed save left is removed.
Discard ==
    /\ memory = Broken /\ memory' = None
    /\ UNCHANGED <<disk, guests, trusted>>

\* Another disk, with the memory it was snapshotted with, if any.
Load ==
    /\ disk' = disk + 1
    /\ Leaves(None) \/ Leaves(disk') \/ Leaves(Broken)
    /\ UNCHANGED <<guests, trusted>>

\* The guest changes the disk; no memory is left that would not fit it any more.
Write ==
    /\ disk' = disk + 1
    /\ memory = None
    /\ UNCHANGED <<memory, guests, trusted>>

Suspend ==
    /\ guests' = {} /\ Leaves(disk)
    /\ UNCHANGED <<disk, trusted>>

\* Saving fails; the guest stays, or is lost with its runner.
Spoil ==
    /\ Leaves(Broken) /\ guests' \in {guests, {}}
    /\ UNCHANGED <<disk, trusted>>

\* The guest shuts down, fails or loses its power.
Stop ==
    /\ guests' = {}
    /\ UNCHANGED <<disk, memory, trusted>>

\* A runner does not remove, or dies before it removes, memory that was used or
\* outlived.
Lapse ==
    /\ trusted' = FALSE /\ memory' = None
    /\ guests' \in {guests, {}}
    /\ UNCHANGED disk

\* What happens without a guest, and with one.
Off ==
    /\ guests = {}
    /\ (\E r \in Runners : Boot(r) \/ Resume(r)) \/ Discard \/ Load

On ==
    /\ guests # {}
    /\ Write \/ Suspend \/ Spoil \/ Stop

Next == Off \/ On \/ Lapse

Spec == Init /\ [][Next]_vars
===============================================================================
