-------------------------------- MODULE Catalog --------------------------------
(***************************************************************************)
(* The snapshot catalog: `vmctl snapshot`, `commit`, `promote` and         *)
(* `remove` (commands.py, catalog.py), with the commands that change what  *)
(* they read: `load` and `reset`, atomic here (LoadTransaction shows they  *)
(* implement an atomic load), and `start`, after which the guest writes.   *)
(*                                                                         *)
(* One vmctl command at a time holds the lock.  It may be killed before    *)
(* each step, and each file-system operation may fail.                     *)
(***************************************************************************)
EXTENDS Naturals, FiniteSets

CONSTANTS
    Names,       \* valid snapshot names
    None,        \* nothing: no directory, no file, no pointer
    Root,        \* "parent": null in metadata.json
    Partial,     \* a bundle with artifacts missing
    Mixed,       \* a bundle copied while a guest was writing to it
    MaxWrites,   \* bound: guest sessions that change the disk
    MaxCrashes,  \* bound: times a vmctl process is killed
    MaxFaults    \* bound: file-system operations that fail

\* What live holds: the number of the guest session that last wrote to it.
Contents == 0..MaxWrites

\* A directory under snapshots/: the parent its metadata.json names, None
\* without that file, and what its VM.bundle holds.
Directory == [parent : Names \cup {Root, None},
              bundle : Contents \cup {Mixed, Partial, None}]

ASSUME MarksAssumption ==
    /\ None \notin Names /\ Root \notin Names /\ None # Root
    /\ {None, Partial, Mixed} \cap Contents = {}
    /\ None # Partial /\ None # Mixed /\ Partial # Mixed
    /\ None \notin Directory

\* A name has at most 80 characters of a fixed alphabet (SNAPSHOT_NAME_PATTERN).
ASSUME NamesAssumption == IsFiniteSet(Names)

ASSUME BoundsAssumption == MaxWrites \in Nat /\ MaxCrashes \in Nat /\ MaxFaults \in Nat

VARIABLES
    \* ------------------------------ the disk ------------------------------
    snapshots,   \* snapshots/<name>, by name
    temp,        \* the running command's snapshots/.tmp-<name>-<uuid>
    base,        \* base.json
    origin,      \* live.json: the attached source, or None when detached
    live,        \* what the live bundle holds
    failed,      \* names of snapshots with something under recovery/failed
    \* ---------------------------- the processes ---------------------------
    pc,          \* next step of the vmctl command, "idle" when none runs
    command,     \* which command it is
    name,        \* its argument
    oldBase,     \* commit: the base when it began
    oldOrigin,   \* remove --detach-live: the origin it detached from
    outcome,     \* how the last command ended
    runner,      \* "running" while a guest may write
    \* --------------------------- history, bounds --------------------------
    source,      \* what live held when the running clone began
    deleted,     \* names of which a snapshot was deleted
    reused,      \* names that stand for a second snapshot
    writes, crashes, faults

disk     == <<snapshots, temp, base, origin, live, failed>>
argument == <<command, name, oldBase, oldOrigin>>
history  == <<source, deleted, reused>>
bounds   == <<writes, crashes, faults>>
vars     == <<disk, pc, argument, outcome, runner, history, bounds>>

\* validate_bundle sees artifacts, not what is in them.
Valid(bundle) == bundle \in Contents \cup {Mixed}

\* Snapshot.from_directory accepts the directory: it has a metadata.json, and
\* the parent in it is another name.
Described(n) == snapshots[n].parent \notin {None, n}

\* Catalog.get: metadata.json and the bundle.
Readable(n) == snapshots[n] # None /\ Described(n) /\ Valid(snapshots[n].bundle)

SnapshotSteps == {"checkSnapshot", "clone", "copy", "describe", "publish",
                  "reread", "cleanup", "keep"}
CommitSteps   == {"setBase", "undoBase", "deleteNew", "keepNew"}
RemoveSteps   == {"checkRemove", "detach", "delete", "reattach"}
Steps == {"idle", "promote"} \cup SnapshotSteps \cup CommitSteps \cup RemoveSteps

Commands == {"none", "snapshot", "commit", "promote", "remove", "removeDetach"}

DiskTypes ==
    /\ snapshots \in [Names -> Directory \cup {None}]
    /\ temp \in Directory \cup {None}
    /\ base \in Names
    /\ origin \in Names \cup {None}
    /\ live \in Contents
    /\ failed \subseteq Names

ProcessTypes ==
    /\ pc \in Steps
    /\ command \in Commands
    /\ name \in Names \cup {None}
    /\ oldBase \in Names \cup {None}
    /\ oldOrigin \in Names \cup {None}
    /\ outcome \in {"none", "created", "committed", "promoted", "removed",
                    "refused", "failed", "killed"}
    /\ runner \in {"stopped", "running"}

HistoryTypes ==
    /\ source \in Contents \cup {None}
    /\ deleted \subseteq Names /\ reused \subseteq deleted

BoundTypes ==
    /\ writes \in 0..MaxWrites
    /\ crashes \in 0..MaxCrashes
    /\ faults \in 0..MaxFaults

TypeOK == DiskTypes /\ ProcessTypes /\ HistoryTypes /\ BoundTypes

\* After `vmctl init`: one snapshot, the base, and live a clone of it.
Init ==
    /\ base \in Names
    /\ snapshots = [n \in Names |-> IF n = base THEN [parent |-> Root, bundle |-> 0] ELSE None]
    /\ origin = base
    /\ live = 0
    /\ temp = None /\ failed = {}
    /\ pc = "idle" /\ command = "none" /\ name = None
    /\ oldBase = None /\ oldOrigin = None /\ outcome = "none"
    /\ runner = "stopped"
    /\ source = None /\ deleted = {} /\ reused = {}
    /\ writes = 0 /\ crashes = 0 /\ faults = 0

-------------------------------------------------------------------------------
(* Control: how a step continues, fails or ends the command. *)

Goto(step) == pc' = step /\ UNCHANGED <<argument, outcome>>

\* The command ends.  A temporary directory it leaves behind stays on the disk,
\* but its name is random and hidden, so no later command ever reads it.
End(how) ==
    /\ pc' = "idle" /\ outcome' = how
    /\ command' = "none" /\ name' = None
    /\ oldBase' = None /\ oldOrigin' = None
    /\ temp' = None /\ source' = None

\* One file-system operation fails; the bound is MaxFaults.
Fault == faults < MaxFaults /\ faults' = faults + 1
NoFault == UNCHANGED faults

Reached(step) == pc = step /\ UNCHANGED <<runner, live, writes, crashes>>

\* A step that succeeds, and one that fails with a handler to run.
Do(step) == NoFault /\ Goto(step) /\ UNCHANGED source
Fail(handler) == Fault /\ Goto(handler) /\ UNCHANGED source

\* What rmtree may leave of a directory when it is killed or fails half way:
\* its files go in no particular order.
Remains(d) ==
    {[parent |-> p, bundle |-> b] :
        p \in {d.parent, None},
        b \in {d.bundle, None} \cup (IF Valid(d.bundle) THEN {Partial} ELSE {})} \ {d}

\* A snapshot directory disappears.
Forget(n) ==
    /\ snapshots' = [snapshots EXCEPT ![n] = None]
    /\ deleted' = deleted \cup {n}

-------------------------------------------------------------------------------
(* The commands begin; the lock is free, since no command runs. *)

Begin(c, step) ==
    /\ Reached("idle")
    /\ pc' = step /\ command' = c /\ outcome' = "none"
    /\ name' \in Names
    /\ UNCHANGED <<disk, oldOrigin, history, faults>>

BeginSnapshot == Begin("snapshot", "checkSnapshot") /\ UNCHANGED oldBase

\* Mutant: commit does not read the base it would have to restore.
BeginCommitUnread == Begin("commit", "checkSnapshot") /\ UNCHANGED oldBase

BeginCommit == Begin("commit", "checkSnapshot") /\ oldBase' = base

BeginPromote == Begin("promote", "promote") /\ UNCHANGED oldBase

BeginRemove ==
    /\ Begin("remove", "checkRemove") \/ Begin("removeDetach", "checkRemove")
    /\ UNCHANGED oldBase

\* load and revert; reset loads the base.  The VM must be stopped and the bundle
\* valid; metadata.json is not read.  It also may change nothing and fail.
Load(n) ==
    /\ pc = "idle" /\ runner = "stopped"
    /\ snapshots[n] # None /\ Valid(snapshots[n].bundle)
    /\ live' = snapshots[n].bundle
    /\ origin' = n
    /\ UNCHANGED <<snapshots, temp, base, failed, pc, argument, outcome, runner,
                   history, bounds>>

\* start takes the lock until the runner has written its first record.
Start ==
    /\ pc = "idle" /\ runner = "stopped"
    /\ runner' = "running"
    /\ UNCHANGED <<disk, pc, argument, outcome, history, bounds>>

\* The guest changes its disk, whatever command runs meanwhile.
GuestWrite ==
    /\ runner = "running" /\ writes < MaxWrites
    /\ writes' = writes + 1 /\ live' = writes + 1
    /\ UNCHANGED <<snapshots, temp, base, origin, failed, pc, argument, outcome,
                   runner, history, crashes, faults>>

\* stop and shutdown take no lock, and the guest may shut down by itself.
GuestStops ==
    /\ runner = "running" /\ runner' = "stopped"
    /\ UNCHANGED <<disk, pc, argument, outcome, history, bounds>>

\* The vmctl process is killed; the kernel drops its lock.
Crash ==
    /\ pc # "idle" /\ crashes < MaxCrashes
    /\ crashes' = crashes + 1
    /\ End("killed")
    /\ UNCHANGED <<snapshots, base, origin, live, failed, runner, deleted, reused,
                   writes, faults>>

-------------------------------------------------------------------------------
(* _snapshot_transaction, for snapshot and commit *)

\* Mutant: the VM need not be stopped.
CheckSnapshotRunning ==
    /\ Reached("checkSnapshot")
    /\ IF snapshots[name] # None
       THEN NoFault /\ End("refused")
       ELSE Do("clone") /\ UNCHANGED temp
    /\ UNCHANGED <<snapshots, base, origin, failed, deleted, reused>>

\* _require_stopped, validate_bundle(live), and the name is free.
CheckSnapshot ==
    /\ Reached("checkSnapshot")
    /\ IF runner = "running" \/ ~Valid(live) \/ snapshots[name] # None
       THEN NoFault /\ End("refused")
       ELSE Do("clone") /\ UNCHANGED temp
    /\ UNCHANGED <<snapshots, base, origin, failed, deleted, reused>>

\* clone_bundle: the directory, and cp begins to fill the bundle, ...
CloneStarts ==
    /\ Reached("clone")
    /\ \/ /\ temp' = [parent |-> None, bundle |-> Partial]
          /\ source' = live
          /\ NoFault /\ Goto("copy")
       \/ /\ temp' \in {None, [parent |-> None, bundle |-> None]}
          /\ Fail("cleanup")
    /\ UNCHANGED <<snapshots, base, origin, failed, deleted, reused>>

\* ... cp is done and the clone has every artifact.
CloneEnds ==
    LET clone == [temp EXCEPT !.bundle = IF live = source THEN live ELSE Mixed]
    IN  /\ Reached("copy")
        /\ \/ temp' = clone /\ Do("describe")
           \/ temp' \in {temp, clone} /\ Fail("cleanup")
        /\ UNCHANGED <<snapshots, base, origin, failed, deleted, reused>>

\* write_snapshot_metadata: the parent is the source live is attached to.
Describe ==
    LET described == [temp EXCEPT !.parent = IF origin = None THEN Root ELSE origin]
    IN  /\ Reached("describe")
        /\ \/ temp' = described /\ Do("publish")
           \/ temp' \in {temp, described} /\ Fail("cleanup")
        /\ UNCHANGED <<snapshots, base, origin, failed, deleted, reused>>

\* os.replace(temporary_directory, final_directory)
Publish ==
    /\ Reached("publish")
    /\ \/ /\ snapshots' = [snapshots EXCEPT ![name] = temp]
          /\ temp' = None
          /\ reused' = reused \cup ({name} \cap deleted)
          /\ Do("reread")
       \/ UNCHANGED <<snapshots, temp, reused>> /\ Fail("cleanup")
    /\ UNCHANGED <<base, origin, failed, deleted>>

\* The new snapshot is printed and read back, outside the try block.
Reread ==
    /\ Reached("reread")
    /\ \/ /\ Readable(name) /\ NoFault
          /\ IF command = "commit"
             THEN Goto("setBase") /\ UNCHANGED <<temp, source>>
             ELSE End("created")
       \/ ~Readable(name) /\ NoFault /\ End("failed")
       \/ Fault /\ End("failed")
    /\ UNCHANGED <<snapshots, base, origin, failed, deleted, reused>>

\* except Exception: the temporary directory is deleted, ...
Cleanup ==
    /\ Reached("cleanup")
    /\ \/ temp = None /\ NoFault /\ End("failed")
       \/ temp # None /\ temp' \in Remains(temp) /\ Do("cleanup")
       \/ temp # None /\ NoFault /\ End("failed")
       \/ temp # None /\ temp' = temp /\ Fail("keep")
    /\ UNCHANGED <<snapshots, base, origin, failed, deleted, reused>>

\* ... or what is left of it is moved to recovery/failed.
Keep ==
    /\ Reached("keep")
    /\ \/ failed' = failed \cup {name} /\ NoFault
       \/ UNCHANGED failed /\ Fault
    /\ End("failed")
    /\ UNCHANGED <<snapshots, base, origin, deleted, reused>>

-------------------------------------------------------------------------------
(* The base pointer: promote, and the second half of commit. *)

\* Mutant: set_base does not read the snapshot first.
PromoteUnchecked ==
    /\ Reached("promote")
    /\ base' = name /\ NoFault /\ End("promoted")
    /\ UNCHANGED <<snapshots, origin, failed, deleted, reused>>

\* set_base for promote.  A failed atomic_write_json may have replaced the file
\* before it raised.
Promote ==
    /\ Reached("promote")
    /\ \/ Readable(name) /\ base' = name /\ NoFault /\ End("promoted")
       \/ ~Readable(name) /\ base' = base /\ NoFault /\ End("refused")
       \/ Readable(name) /\ base' \in {base, name} /\ Fault /\ End("failed")
    /\ UNCHANGED <<snapshots, origin, failed, deleted, reused>>

\* Mutant: an exception of set_base leaves commit without the handler.
SetBaseUnhandled ==
    /\ Reached("setBase")
    /\ \/ base' = name /\ NoFault /\ End("committed")
       \/ base' \in {base, name} /\ Fault /\ End("failed")
    /\ UNCHANGED <<snapshots, origin, failed, deleted, reused>>

\* set_base for commit.
SetBase ==
    /\ Reached("setBase")
    /\ \/ Readable(name) /\ base' = name /\ NoFault /\ End("committed")
       \/ ~Readable(name) /\ base' = base /\ Do("undoBase") /\ UNCHANGED temp
       \/ base' \in {base, name} /\ Fail("undoBase") /\ UNCHANGED temp
    /\ UNCHANGED <<snapshots, origin, failed, deleted, reused>>

\* Mutant: the write that failed is taken not to have happened.
UndoBaseSkipped ==
    /\ Reached("undoBase")
    /\ Do("deleteNew")
    /\ UNCHANGED <<disk, deleted, reused>>

\* except Exception: the old pointer is written back if it is not there; when
\* that fails too, the exception leaves the handler.
UndoBase ==
    /\ Reached("undoBase")
    /\ \/ base' = oldBase /\ Do("deleteNew") /\ UNCHANGED temp
       \/ base' \in {base, oldBase} /\ Fault /\ End("failed")
    /\ UNCHANGED <<snapshots, origin, failed, deleted, reused>>

\* rmtree of snapshots/<name>: part of it, all of it, or an error.
DeleteSnapshot(step, done, handler) ==
    /\ Reached(step)
    /\ \/ /\ \E rest \in Remains(snapshots[name]) :
                snapshots' = [snapshots EXCEPT ![name] = rest]
          /\ Do(step) /\ UNCHANGED <<temp, deleted>>
       \/ Forget(name) /\ NoFault /\ End(done)
       \/ Fail(handler) /\ UNCHANGED <<snapshots, temp, deleted>>
    /\ UNCHANGED <<base, origin, failed, reused>>

\* The snapshot that could not become the base is deleted, ...
DeleteNew == DeleteSnapshot("deleteNew", "failed", "keepNew")

\* ... or what is left of it is moved to recovery/failed.
KeepNew ==
    /\ Reached("keepNew")
    /\ \/ failed' = failed \cup {name} /\ Forget(name) /\ NoFault
       \/ UNCHANGED <<failed, snapshots, deleted>> /\ Fault
    /\ End("failed")
    /\ UNCHANGED <<base, origin, reused>>

-------------------------------------------------------------------------------
(* remove *)

\* Mutant: the live source is not protected.
CheckRemoveSource ==
    /\ Reached("checkRemove")
    /\ IF ~Readable(name) \/ base = name
       THEN NoFault /\ End("refused")
       ELSE Do("delete") /\ UNCHANGED temp
    /\ UNCHANGED <<snapshots, base, origin, failed, deleted, reused>>

\* The base is protected, and an attached live source needs --detach-live and a
\* stopped VM.  Any other snapshot can go while the VM runs.
CheckRemove ==
    /\ Reached("checkRemove")
    /\ IF \/ ~Readable(name) \/ base = name
          \/ origin = name /\ (command = "remove" \/ runner = "running")
       THEN NoFault /\ End("refused")
       ELSE Do(IF origin = name THEN "detach" ELSE "delete") /\ UNCHANGED temp
    /\ UNCHANGED <<snapshots, base, origin, failed, deleted, reused>>

\* Mutant: the live VM is detached when the snapshot is gone.
DetachLater ==
    /\ Reached("detach")
    /\ Do("delete")
    /\ UNCHANGED <<disk, deleted, reused>>

\* set_live_origin(None, detached=True), before the try block.
Detach ==
    /\ Reached("detach")
    /\ \/ /\ origin' = None /\ oldOrigin' = origin
          /\ pc' = "delete" /\ NoFault
          /\ UNCHANGED <<command, name, oldBase, outcome, temp, source>>
       \/ origin' \in {origin, None} /\ Fault /\ End("failed")
    /\ UNCHANGED <<snapshots, base, failed, deleted, reused>>

Delete == DeleteSnapshot("delete", "removed", "reattach")

\* except Exception: the previous origin is written back, then it raises.
Reattach ==
    /\ Reached("reattach")
    /\ \/ oldOrigin = None /\ origin' = origin /\ NoFault
       \/ oldOrigin # None /\ origin' = oldOrigin /\ NoFault
       \/ oldOrigin # None /\ origin' \in {origin, oldOrigin} /\ Fault
    /\ End("failed")
    /\ UNCHANGED <<snapshots, base, failed, deleted, reused>>

-------------------------------------------------------------------------------

BeginStep == BeginSnapshot \/ BeginCommit \/ BeginPromote \/ BeginRemove

SnapshotStep ==
    \/ CheckSnapshot \/ CloneStarts \/ CloneEnds \/ Describe \/ Publish
    \/ Reread \/ Cleanup \/ Keep

BaseStep == Promote \/ SetBase \/ UndoBase \/ DeleteNew \/ KeepNew

RemoveStep == CheckRemove \/ Detach \/ Delete \/ Reattach

Next ==
    \/ BeginStep \/ SnapshotStep \/ BaseStep \/ RemoveStep
    \/ \E n \in Names : Load(n)
    \/ Start \/ GuestWrite \/ GuestStops
    \/ Crash

Spec == Init /\ [][Next]_vars

-------------------------------------------------------------------------------
(* What `vmctl list` and `vmctl tree` print; they take no lock. *)

\* active_snapshots: every directory, ...
Active == {n \in Names : snapshots[n] # None}

\* ... and Snapshot.from_directory raises for one it does not accept.
Unreadable == {n \in Active : ~Described(n)}

\* Mutant: only a null parent makes a root.
TreeRootsNull == {n \in Active : snapshots[n].parent = Root}

\* tree_lines: snapshots without a parent, and parents that are deleted.
TreeRoots ==
    {n \in Active : snapshots[n].parent = Root} \cup
    {p \in Names \ Active : \E n \in Active : snapshots[n].parent = p}

\* visit: the names it reaches down to a depth.
Visited[depth \in 0..Cardinality(Names)] ==
    IF depth = 0 THEN TreeRoots
    ELSE Visited[depth - 1] \cup {n \in Active : snapshots[n].parent \in Visited[depth - 1]}

\* One directory that cannot be read, and the command fails before it prints.
Printed == IF Unreadable = {} THEN Visited[Cardinality(Names)] ELSE {}

-------------------------------------------------------------------------------
(* Properties *)

\* The base is a whole, readable snapshot at every step of every command, kills
\* and failures included: `vmctl reset` always has something to load.
BaseIsWhole == Readable(base)

\* The snapshot the live VM is attached to has a directory, so no new snapshot
\* takes its name and none is ever described as its own parent, which would
\* make every `list` and `tree` raise (Snapshot.from_directory).
AttachedSourceExists == origin # None => snapshots[origin] # None

\* No snapshot was copied while a guest was writing (requirement 2.1): start
\* waits for the lock and the capture refuses a running VM.
SnapshotsConsistent ==
    \A n \in Names : snapshots[n] # None => snapshots[n].bundle # Mixed

\* A directory that a deletion is emptying, or that an earlier one left: only a
\* kill or an error cuts a deletion short.
HalfDeleted(n) ==
    \/ name = n /\ pc \in {"deleteNew", "delete"}
    \/ crashes + faults > 0

\* `vmctl tree` leaves out a snapshot only for a cause: some name was used
\* twice, or a directory stopped the whole command, since a deletion under way
\* or cut short took its metadata.json.  That is never the base's directory.
TreeMissesForACause ==
    /\ Active \subseteq Printed \/ reused # {} \/ Unreadable # {}
    /\ \A n \in Unreadable : n # base /\ HalfDeleted(n)

\* The snapshot the live VM is attached to is not touched while it is attached:
\* remove detaches before it deletes (requirement 7.6).
AttachedSourceKept ==
    [][origin # None => snapshots'[origin] = snapshots[origin]]_vars

\* Requirement 7.13: a commit that fails leaves the base pointer as it was, also
\* when the failed write took effect; only the failure of a second operation,
\* the one that restores the pointer, can leave the new one.
FailedCommitKeepsBase ==
    [][command = "commit" /\ pc' = "idle" /\ outcome' \in {"failed", "refused"}
       /\ faults' < 2 => base' = oldBase]_vars

\* The refinement: a name stands for a snapshot while Catalog.get reads it.
Library == INSTANCE SnapshotLibrary WITH
    Records <- Directory, Absent <- None,
    library <- [n \in Names |-> IF Readable(n) THEN snapshots[n] ELSE None]

\* The catalog implements the library of immutable snapshots.
ImplementsLibrary == Library!Spec

\* Requirement 2.7: the tree displays the history of snapshots; helptext.py has
\* the user inspect the snapshots "with `vmctl list` or `vmctl tree`".  Asked
\* of a tree that is printed while no other command runs.
TreeShowsEverySnapshot == pc = "idle" => Active \subseteq Printed
===============================================================================
