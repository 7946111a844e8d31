----------------------------- MODULE CatalogProofs -----------------------------
(***************************************************************************)
(* The catalog's safety properties for every set of names and every bound, *)
(* and that it implements SnapshotLibrary.                                 *)
(***************************************************************************)
EXTENDS Catalog, TLAPS

\* Steps between the check that the name is free and the rename, ...
Capturing == {"clone", "copy", "describe", "publish", "cleanup", "keep"}

\* ... and steps after it.
Promoting == {"setBase", "undoBase", "deleteNew", "keepNew"}

\* A command knows its argument.
ArgumentKnown == pc # "idle" => name \in Names

\* While a snapshot is captured its name is free and the VM is stopped.
CaptureAlone ==
    /\ pc \in Capturing => snapshots[name] = None /\ runner = "stopped"
    /\ pc \in {"copy", "describe", "publish", "keep"} => temp # None
    /\ pc = "copy" => source = live
    /\ pc \in {"describe", "publish"} => Valid(temp.bundle)
    /\ pc = "publish" => temp.parent \notin {None, name}

\* commit remembers the base, and its new snapshot is not the old base.
CommitRemembers ==
    /\ command = "commit" /\ pc \in {"checkSnapshot", "reread", "setBase"} \cup Capturing
          => oldBase = base
    /\ command = "commit" => pc \in {"checkSnapshot", "reread"} \cup Capturing \cup Promoting
    /\ pc = "reread" => base # name
    /\ pc \in Promoting =>
          /\ command = "commit"
          /\ oldBase \in Names \ {name} /\ Readable(oldBase)
          /\ base \in {oldBase, name}
    /\ pc \in {"reread", "setBase", "undoBase"} => Readable(name)
    /\ pc = "undoBase" => faults > 0
    /\ pc \in {"deleteNew", "keepNew"} => base = oldBase /\ snapshots[name] # None

\* What a command deletes is neither the base nor attached to the live VM.
DeletionSafe ==
    /\ pc \in {"detach", "delete", "reattach"} => base # name /\ snapshots[name] # None
    /\ pc = "detach" => origin = name
    /\ pc \in {"delete", "reattach", "reread"} \cup Promoting => origin # name
    /\ oldOrigin \in {None, name}
    /\ pc \notin {"delete", "reattach"} => oldOrigin = None

\* Nothing was copied from a changing bundle.
TempConsistent == temp # None => temp.bundle # Mixed

IInv ==
    /\ DiskTypes /\ ProcessTypes /\ HistoryTypes /\ BoundTypes
    /\ BaseIsWhole
    /\ AttachedSourceExists
    /\ SnapshotsConsistent
    /\ ArgumentKnown
    /\ CaptureAlone
    /\ CommitRemembers
    /\ DeletionSafe
    /\ TempConsistent

\* The steps AttachedSourceKept and FailedCommitKeepsBase allow.
SourceKept == origin # None => snapshots'[origin] = snapshots[origin]
FailedCommitKept ==
    command = "commit" /\ pc' = "idle" /\ outcome' \in {"failed", "refused"}
    /\ faults' < 2 => base' = oldBase

\* The snapshots Catalog.get reads.
Readables == [n \in Names |-> IF Readable(n) THEN snapshots[n] ELSE None]

\* Wherever it matters that a directory can be read, its metadata.json does.
USE DEF Described

-------------------------------------------------------------------------------
(* The operators. *)

\* What rmtree leaves of a directory half way: a directory, and not one that
\* Catalog.get would read.
LEMMA RemainsType ==
    \A d \in Directory : \A r \in Remains(d) :
        /\ r \in Directory /\ r # None
        /\ r.bundle = Mixed => d.bundle = Mixed
        /\ r.parent = None \/ ~Valid(r.bundle)
  <1> TAKE d \in Directory
  <1> TAKE r \in Remains(d)
  <1>1. PICK p \in {d.parent, None},
             b \in {d.bundle, None} \cup (IF Valid(d.bundle) THEN {Partial} ELSE {}) :
             r = [parent |-> p, bundle |-> b]
    BY DEF Remains
  <1>2. r # d
    BY DEF Remains
  <1>3. d = [parent |-> d.parent, bundle |-> d.bundle]
    BY DEF Directory
  <1> QED
    BY <1>1, <1>2, <1>3, MarksAssumption DEF Directory, Valid

\* The invariant holds after vmctl init.
LEMMA InitIInv == Init => IInv
  BY MarksAssumption, BoundsAssumption DEF Init, IInv, DiskTypes, ProcessTypes,
     HistoryTypes, BoundTypes, Directory, Contents, Steps, SnapshotSteps,
     CommitSteps, RemoveSteps, Commands, BaseIsWhole, Readable, Valid,
     AttachedSourceExists, SnapshotsConsistent, ArgumentKnown, CaptureAlone,
     CommitRemembers, DeletionSafe, TempConsistent, Capturing, Promoting

-------------------------------------------------------------------------------
(* Every step preserves each part of the invariant. *)

\* The disk keeps its type: live only ever holds what one guest session wrote.
LEMMA DiskTypesStep == IInv /\ [Next]_vars => DiskTypes'
  <1> SUFFICES ASSUME IInv, [Next]_vars PROVE DiskTypes'
    OBVIOUS
  <1>a. DiskTypes /\ SnapshotsConsistent /\ BoundTypes /\ ArgumentKnown /\
     CaptureAlone /\ CommitRemembers /\ DeletionSafe
    BY DEF IInv
  <1>1. CASE BeginSnapshot \/ BeginCommit \/ BeginPromote \/ BeginRemove
    BY <1>1, <1>a, MarksAssumption DEF BeginSnapshot, BeginCommit, BeginPromote,
       BeginRemove, Begin, Reached, disk, history, DiskTypes, Directory,
       Contents, Valid, ArgumentKnown, CaptureAlone, CommitRemembers,
       DeletionSafe, Capturing, Promoting
  <1>2. CASE CheckSnapshot \/ CloneStarts \/ CloneEnds
    BY <1>2, <1>a, MarksAssumption DEF CheckSnapshot, CloneStarts, CloneEnds,
       Reached, NoFault, End, Do, Goto, Fail, argument, Fault, DiskTypes,
       Directory, Contents, Valid, ArgumentKnown, CaptureAlone, CommitRemembers,
       DeletionSafe, Capturing, Promoting
  <1>3. CASE Describe \/ Publish \/ Reread
    BY <1>3, <1>a, MarksAssumption DEF Describe, Publish, Reread, Reached, Do,
       Fail, NoFault, Goto, End, Fault, argument, DiskTypes, Directory,
       Contents, Valid, ArgumentKnown, CaptureAlone, CommitRemembers,
       DeletionSafe, Capturing, Promoting
  <1>4. CASE Cleanup \/ Keep
    BY <1>4, <1>a, MarksAssumption, RemainsType DEF Cleanup, Keep, Reached,
       NoFault, End, Do, Fail, Fault, Goto, argument, DiskTypes, Directory,
       Contents, Valid, ArgumentKnown, CaptureAlone, CommitRemembers,
       DeletionSafe, Capturing, Promoting
  <1>5. CASE Promote \/ SetBase \/ UndoBase
    BY <1>5, <1>a, MarksAssumption DEF Promote, SetBase, UndoBase, Reached,
       NoFault, End, Fault, Do, Fail, Goto, argument, DiskTypes, Directory,
       Contents, Valid, ArgumentKnown, CaptureAlone, CommitRemembers,
       DeletionSafe, Capturing, Promoting
  <1>6. CASE DeleteNew \/ KeepNew
    BY <1>6, <1>a, MarksAssumption, RemainsType DEF DeleteNew, KeepNew,
       DeleteSnapshot, Reached, Forget, NoFault, Fault, End, Do, Fail, Goto,
       argument, DiskTypes, Directory, Contents, Valid, ArgumentKnown,
       CaptureAlone, CommitRemembers, DeletionSafe, Capturing, Promoting
  <1>7. CASE Delete
    BY <1>7, <1>a, MarksAssumption, RemainsType DEF Delete, DeleteSnapshot,
       Reached, Do, Forget, NoFault, End, Fail, Goto, Fault, argument,
       DiskTypes, Directory, Contents, Valid, ArgumentKnown, CaptureAlone,
       CommitRemembers, DeletionSafe, Capturing, Promoting
  <1>8. CASE CheckRemove \/ Detach \/ Reattach
    BY <1>8, <1>a, MarksAssumption DEF CheckRemove, Detach, Reattach, Reached,
       NoFault, End, Do, Fault, Goto, argument, DiskTypes, Directory, Contents,
       Valid, ArgumentKnown, CaptureAlone, CommitRemembers, DeletionSafe,
       Capturing, Promoting
  <1>9. ASSUME NEW n \in Names, Load(n) PROVE DiskTypes'
    BY <1>9, <1>a, MarksAssumption DEF Load, argument, history, bounds,
       DiskTypes, Directory, Contents, Valid, ArgumentKnown, CaptureAlone,
       CommitRemembers, DeletionSafe, Capturing, Promoting, SnapshotsConsistent
  <1>10. CASE Start \/ GuestWrite \/ GuestStops
    BY <1>10, <1>a, MarksAssumption, BoundsAssumption DEF Start, GuestWrite,
       GuestStops, disk, argument, history, bounds, DiskTypes, Directory,
       Contents, Valid, ArgumentKnown, CaptureAlone, CommitRemembers,
       DeletionSafe, Capturing, Promoting, BoundTypes
  <1>11. CASE Crash
    BY <1>11, <1>a, MarksAssumption DEF Crash, End, DiskTypes, Directory,
       Contents, Valid, ArgumentKnown, CaptureAlone, CommitRemembers,
       DeletionSafe, Capturing, Promoting
  <1>12. CASE UNCHANGED vars
    BY <1>12, <1>a, MarksAssumption DEF vars, disk, argument, history, bounds,
       DiskTypes, Directory, Contents, Valid, ArgumentKnown, CaptureAlone,
       CommitRemembers, DeletionSafe, Capturing, Promoting
  <1> QED
    BY <1>1, <1>2, <1>3, <1>4, <1>5, <1>6, <1>7, <1>8, <1>9, <1>10, <1>11, <1>12
       DEF Next, BeginStep, SnapshotStep, BaseStep, RemoveStep

\* The locals of the command keep their types.
LEMMA ProcessTypesStep == IInv /\ [Next]_vars => ProcessTypes'
  <1> SUFFICES ASSUME IInv, [Next]_vars PROVE ProcessTypes'
    OBVIOUS
  <1>a. DiskTypes /\ ProcessTypes
    BY DEF IInv
  <1>1. CASE BeginSnapshot \/ BeginCommit \/ BeginPromote \/ BeginRemove
    BY <1>1, <1>a DEF BeginSnapshot, BeginCommit, BeginPromote, BeginRemove,
       Begin, Reached, disk, history, ProcessTypes, Steps, SnapshotSteps,
       CommitSteps, RemoveSteps, Commands, DiskTypes
  <1>2. CASE CheckSnapshot \/ CloneStarts \/ CloneEnds
    BY <1>2, <1>a DEF CheckSnapshot, CloneStarts, CloneEnds, Reached, NoFault,
       End, Do, Goto, Fail, argument, Fault, ProcessTypes, Steps, SnapshotSteps,
       CommitSteps, RemoveSteps, Commands, DiskTypes
  <1>3. CASE Describe \/ Publish \/ Reread
    BY <1>3, <1>a DEF Describe, Publish, Reread, Reached, Do, Fail, NoFault,
       Goto, End, Fault, argument, ProcessTypes, Steps, SnapshotSteps,
       CommitSteps, RemoveSteps, Commands, DiskTypes
  <1>4. CASE Cleanup \/ Keep
    BY <1>4, <1>a DEF Cleanup, Keep, Reached, NoFault, End, Do, Fail, Fault,
       Goto, argument, ProcessTypes, Steps, SnapshotSteps, CommitSteps,
       RemoveSteps, Commands, DiskTypes
  <1>5. CASE Promote \/ SetBase \/ UndoBase
    BY <1>5, <1>a DEF Promote, SetBase, UndoBase, Reached, NoFault, End, Fault,
       Do, Fail, Goto, argument, ProcessTypes, Steps, SnapshotSteps,
       CommitSteps, RemoveSteps, Commands, DiskTypes
  <1>6. CASE DeleteNew \/ KeepNew
    BY <1>6, <1>a DEF DeleteNew, KeepNew, DeleteSnapshot, Reached, Forget,
       NoFault, Fault, End, Do, Fail, Goto, argument, ProcessTypes, Steps,
       SnapshotSteps, CommitSteps, RemoveSteps, Commands, DiskTypes
  <1>7. CASE CheckRemove \/ Detach \/ Delete \/ Reattach
    BY <1>7, <1>a DEF CheckRemove, Detach, Delete, Reattach, Reached, NoFault,
       End, Do, Fault, DeleteSnapshot, Goto, Forget, Fail, argument,
       ProcessTypes, Steps, SnapshotSteps, CommitSteps, RemoveSteps, Commands,
       DiskTypes
  <1>8. ASSUME NEW n \in Names, Load(n) PROVE ProcessTypes'
    BY <1>8, <1>a DEF Load, argument, history, bounds, ProcessTypes, Steps,
       SnapshotSteps, CommitSteps, RemoveSteps, Commands, DiskTypes
  <1>9. CASE Start \/ GuestWrite \/ GuestStops
    BY <1>9, <1>a DEF Start, GuestWrite, GuestStops, disk, argument, history,
       bounds, ProcessTypes, Steps, SnapshotSteps, CommitSteps, RemoveSteps,
       Commands, DiskTypes
  <1>10. CASE Crash
    BY <1>10, <1>a DEF Crash, End, ProcessTypes, Steps, SnapshotSteps,
       CommitSteps, RemoveSteps, Commands, DiskTypes
  <1>11. CASE UNCHANGED vars
    BY <1>11, <1>a DEF vars, disk, argument, history, bounds, ProcessTypes,
       Steps, SnapshotSteps, CommitSteps, RemoveSteps, Commands, DiskTypes
  <1> QED
    BY <1>1, <1>2, <1>3, <1>4, <1>5, <1>6, <1>7, <1>8, <1>9, <1>10, <1>11 DEF
       Next, BeginStep, SnapshotStep, BaseStep, RemoveStep

\* So does the history.
LEMMA HistoryTypesStep == IInv /\ [Next]_vars => HistoryTypes'
  <1> SUFFICES ASSUME IInv, [Next]_vars PROVE HistoryTypes'
    OBVIOUS
  <1>a. DiskTypes /\ HistoryTypes /\ ArgumentKnown
    BY DEF IInv
  <1>1. CASE BeginSnapshot \/ BeginCommit \/ BeginPromote \/ BeginRemove
    BY <1>1, <1>a DEF BeginSnapshot, BeginCommit, BeginPromote, BeginRemove,
       Begin, Reached, disk, history, HistoryTypes, DiskTypes, ArgumentKnown
  <1>2. CASE CheckSnapshot \/ CloneStarts \/ CloneEnds
    BY <1>2, <1>a DEF CheckSnapshot, CloneStarts, CloneEnds, Reached, NoFault,
       End, Do, Goto, Fail, argument, Fault, HistoryTypes, DiskTypes,
       ArgumentKnown
  <1>3. CASE Describe \/ Publish \/ Reread
    BY <1>3, <1>a DEF Describe, Publish, Reread, Reached, Do, Fail, NoFault,
       Goto, End, Fault, argument, HistoryTypes, DiskTypes, ArgumentKnown
  <1>4. CASE Cleanup \/ Keep
    BY <1>4, <1>a DEF Cleanup, Keep, Reached, NoFault, End, Do, Fail, Fault,
       Goto, argument, HistoryTypes, DiskTypes, ArgumentKnown
  <1>5. CASE Promote \/ SetBase \/ UndoBase
    BY <1>5, <1>a DEF Promote, SetBase, UndoBase, Reached, NoFault, End, Fault,
       Do, Fail, Goto, argument, HistoryTypes, DiskTypes, ArgumentKnown
  <1>6. CASE DeleteNew \/ KeepNew
    BY <1>6, <1>a DEF DeleteNew, KeepNew, DeleteSnapshot, Reached, Forget,
       NoFault, Fault, End, Do, Fail, Goto, argument, HistoryTypes, DiskTypes,
       ArgumentKnown
  <1>7. CASE CheckRemove \/ Detach \/ Delete \/ Reattach
    BY <1>7, <1>a DEF CheckRemove, Detach, Delete, Reattach, Reached, NoFault,
       End, Do, Fault, DeleteSnapshot, Goto, Forget, Fail, argument,
       HistoryTypes, DiskTypes, ArgumentKnown
  <1>8. ASSUME NEW n \in Names, Load(n) PROVE HistoryTypes'
    BY <1>8, <1>a DEF Load, argument, history, bounds, HistoryTypes, DiskTypes,
       ArgumentKnown
  <1>9. CASE Start \/ GuestWrite \/ GuestStops
    BY <1>9, <1>a DEF Start, GuestWrite, GuestStops, disk, argument, history,
       bounds, HistoryTypes, DiskTypes, ArgumentKnown
  <1>10. CASE Crash
    BY <1>10, <1>a DEF Crash, End, HistoryTypes, DiskTypes, ArgumentKnown
  <1>11. CASE UNCHANGED vars
    BY <1>11, <1>a DEF vars, disk, argument, history, bounds, HistoryTypes,
       DiskTypes, ArgumentKnown
  <1> QED
    BY <1>1, <1>2, <1>3, <1>4, <1>5, <1>6, <1>7, <1>8, <1>9, <1>10, <1>11 DEF
       Next, BeginStep, SnapshotStep, BaseStep, RemoveStep

\* The bounds hold.
LEMMA BoundTypesStep == IInv /\ [Next]_vars => BoundTypes'
  <1> SUFFICES ASSUME IInv, [Next]_vars PROVE BoundTypes'
    OBVIOUS
  <1>a. BoundTypes
    BY DEF IInv
  <1>1. CASE BeginSnapshot \/ BeginCommit \/ BeginPromote \/ BeginRemove
    BY <1>1, <1>a, BoundsAssumption DEF BeginSnapshot, BeginCommit,
       BeginPromote, BeginRemove, Begin, Reached, disk, history, BoundTypes
  <1>2. CASE CheckSnapshot \/ CloneStarts \/ CloneEnds
    BY <1>2, <1>a, BoundsAssumption DEF CheckSnapshot, CloneStarts, CloneEnds,
       Reached, NoFault, End, Do, Goto, Fail, argument, Fault, BoundTypes
  <1>3. CASE Describe \/ Publish \/ Reread
    BY <1>3, <1>a, BoundsAssumption DEF Describe, Publish, Reread, Reached, Do,
       Fail, NoFault, Goto, End, Fault, argument, BoundTypes
  <1>4. CASE Cleanup \/ Keep
    BY <1>4, <1>a, BoundsAssumption DEF Cleanup, Keep, Reached, NoFault, End,
       Do, Fail, Fault, Goto, argument, BoundTypes
  <1>5. CASE Promote \/ SetBase \/ UndoBase
    BY <1>5, <1>a, BoundsAssumption DEF Promote, SetBase, UndoBase, Reached,
       NoFault, End, Fault, Do, Fail, Goto, argument, BoundTypes
  <1>6. CASE DeleteNew \/ KeepNew
    BY <1>6, <1>a, BoundsAssumption DEF DeleteNew, KeepNew, DeleteSnapshot,
       Reached, Forget, NoFault, Fault, End, Do, Fail, Goto, argument,
       BoundTypes
  <1>7. CASE CheckRemove \/ Detach \/ Delete \/ Reattach
    BY <1>7, <1>a, BoundsAssumption DEF CheckRemove, Detach, Delete, Reattach,
       Reached, NoFault, End, Do, Fault, DeleteSnapshot, Goto, Forget, Fail,
       argument, BoundTypes
  <1>8. ASSUME NEW n \in Names, Load(n) PROVE BoundTypes'
    BY <1>8, <1>a, BoundsAssumption DEF Load, argument, history, bounds,
       BoundTypes
  <1>9. CASE Start \/ GuestWrite \/ GuestStops
    BY <1>9, <1>a, BoundsAssumption DEF Start, GuestWrite, GuestStops, disk,
       argument, history, bounds, BoundTypes
  <1>10. CASE Crash
    BY <1>10, <1>a, BoundsAssumption DEF Crash, End, BoundTypes
  <1>11. CASE UNCHANGED vars
    BY <1>11, <1>a, BoundsAssumption DEF vars, disk, argument, history, bounds,
       BoundTypes
  <1> QED
    BY <1>1, <1>2, <1>3, <1>4, <1>5, <1>6, <1>7, <1>8, <1>9, <1>10, <1>11 DEF
       Next, BeginStep, SnapshotStep, BaseStep, RemoveStep

\* No step takes the base away or moves the pointer to what is not a snapshot.
LEMMA BaseIsWholeStep == IInv /\ [Next]_vars => BaseIsWhole'
  <1> SUFFICES ASSUME IInv, [Next]_vars PROVE BaseIsWhole'
    OBVIOUS
  <1>a. DiskTypes /\ BaseIsWhole /\ ArgumentKnown /\ CaptureAlone /\
     CommitRemembers /\ DeletionSafe
    BY DEF IInv
  <1>1. CASE BeginSnapshot \/ BeginCommit \/ BeginPromote \/ BeginRemove
    BY <1>1, <1>a, MarksAssumption DEF BeginSnapshot, BeginCommit, BeginPromote,
       BeginRemove, Begin, Reached, disk, history, DiskTypes, BaseIsWhole,
       Readable, ArgumentKnown, CaptureAlone, CommitRemembers, DeletionSafe,
       Capturing, Promoting
  <1>2. CASE CheckSnapshot \/ CloneStarts \/ CloneEnds
    BY <1>2, <1>a, MarksAssumption DEF CheckSnapshot, CloneStarts, CloneEnds,
       Reached, NoFault, End, Do, Goto, Fail, argument, Fault, DiskTypes,
       BaseIsWhole, Readable, ArgumentKnown, CaptureAlone, CommitRemembers,
       DeletionSafe, Capturing, Promoting
  <1>3. CASE Describe \/ Publish \/ Reread
    BY <1>3, <1>a, MarksAssumption DEF Describe, Publish, Reread, Reached, Do,
       Fail, NoFault, Goto, End, Fault, argument, DiskTypes, BaseIsWhole,
       Readable, ArgumentKnown, CaptureAlone, CommitRemembers, DeletionSafe,
       Capturing, Promoting
  <1>4. CASE Cleanup \/ Keep
    BY <1>4, <1>a, MarksAssumption DEF Cleanup, Keep, Reached, NoFault, End, Do,
       Fail, Fault, Goto, argument, DiskTypes, BaseIsWhole, Readable,
       ArgumentKnown, CaptureAlone, CommitRemembers, DeletionSafe, Capturing,
       Promoting
  <1>5. CASE Promote \/ SetBase \/ UndoBase
    BY <1>5, <1>a, MarksAssumption DEF Promote, SetBase, UndoBase, Reached,
       NoFault, End, Fault, Do, Fail, Goto, argument, DiskTypes, BaseIsWhole,
       Readable, ArgumentKnown, CaptureAlone, CommitRemembers, DeletionSafe,
       Capturing, Promoting
  <1>6. CASE DeleteNew \/ KeepNew
    BY <1>6, <1>a, MarksAssumption DEF DeleteNew, KeepNew, DeleteSnapshot,
       Reached, Forget, NoFault, Fault, End, Do, Fail, Goto, argument,
       DiskTypes, BaseIsWhole, Readable, ArgumentKnown, CaptureAlone,
       CommitRemembers, DeletionSafe, Capturing, Promoting
  <1>7. CASE CheckRemove \/ Detach \/ Delete \/ Reattach
    BY <1>7, <1>a, MarksAssumption DEF CheckRemove, Detach, Delete, Reattach,
       Reached, NoFault, End, Do, Fault, DeleteSnapshot, Goto, Forget, Fail,
       argument, DiskTypes, BaseIsWhole, Readable, ArgumentKnown, CaptureAlone,
       CommitRemembers, DeletionSafe, Capturing, Promoting
  <1>8. ASSUME NEW n \in Names, Load(n) PROVE BaseIsWhole'
    BY <1>8, <1>a, MarksAssumption DEF Load, argument, history, bounds,
       DiskTypes, BaseIsWhole, Readable, ArgumentKnown, CaptureAlone,
       CommitRemembers, DeletionSafe, Capturing, Promoting
  <1>9. CASE Start \/ GuestWrite \/ GuestStops
    BY <1>9, <1>a, MarksAssumption DEF Start, GuestWrite, GuestStops, disk,
       argument, history, bounds, DiskTypes, BaseIsWhole, Readable,
       ArgumentKnown, CaptureAlone, CommitRemembers, DeletionSafe, Capturing,
       Promoting
  <1>10. CASE Crash
    BY <1>10, <1>a, MarksAssumption DEF Crash, End, DiskTypes, BaseIsWhole,
       Readable, ArgumentKnown, CaptureAlone, CommitRemembers, DeletionSafe,
       Capturing, Promoting
  <1>11. CASE UNCHANGED vars
    BY <1>11, <1>a, MarksAssumption DEF vars, disk, argument, history, bounds,
       DiskTypes, BaseIsWhole, Readable, ArgumentKnown, CaptureAlone,
       CommitRemembers, DeletionSafe, Capturing, Promoting
  <1> QED
    BY <1>1, <1>2, <1>3, <1>4, <1>5, <1>6, <1>7, <1>8, <1>9, <1>10, <1>11 DEF
       Next, BeginStep, SnapshotStep, BaseStep, RemoveStep

\* Live is detached before its source is deleted.
LEMMA AttachedSourceExistsStep == IInv /\ [Next]_vars => AttachedSourceExists'
  <1> SUFFICES ASSUME IInv, [Next]_vars PROVE AttachedSourceExists'
    OBVIOUS
  <1>a. DiskTypes /\ AttachedSourceExists /\ ArgumentKnown /\ CaptureAlone /\
     CommitRemembers /\ DeletionSafe
    BY DEF IInv
  <1>1. CASE BeginSnapshot \/ BeginCommit \/ BeginPromote \/ BeginRemove
    BY <1>1, <1>a, MarksAssumption, RemainsType DEF BeginSnapshot, BeginCommit,
       BeginPromote, BeginRemove, Begin, Reached, disk, history, DiskTypes,
       AttachedSourceExists, Readable, ArgumentKnown, CaptureAlone,
       CommitRemembers, DeletionSafe, Capturing, Promoting
  <1>2. CASE CheckSnapshot \/ CloneStarts \/ CloneEnds
    BY <1>2, <1>a, MarksAssumption, RemainsType DEF CheckSnapshot, CloneStarts,
       CloneEnds, Reached, NoFault, End, Do, Goto, Fail, argument, Fault,
       DiskTypes, AttachedSourceExists, Readable, ArgumentKnown, CaptureAlone,
       CommitRemembers, DeletionSafe, Capturing, Promoting
  <1>3. CASE Describe \/ Publish \/ Reread
    BY <1>3, <1>a, MarksAssumption, RemainsType DEF Describe, Publish, Reread,
       Reached, Do, Fail, NoFault, Goto, End, Fault, argument, DiskTypes,
       AttachedSourceExists, Readable, ArgumentKnown, CaptureAlone,
       CommitRemembers, DeletionSafe, Capturing, Promoting
  <1>4. CASE Cleanup \/ Keep
    BY <1>4, <1>a, MarksAssumption, RemainsType DEF Cleanup, Keep, Reached,
       NoFault, End, Do, Fail, Fault, Goto, argument, DiskTypes,
       AttachedSourceExists, Readable, ArgumentKnown, CaptureAlone,
       CommitRemembers, DeletionSafe, Capturing, Promoting
  <1>5. CASE Promote \/ SetBase \/ UndoBase
    BY <1>5, <1>a, MarksAssumption, RemainsType DEF Promote, SetBase, UndoBase,
       Reached, NoFault, End, Fault, Do, Fail, Goto, argument, DiskTypes,
       AttachedSourceExists, Readable, ArgumentKnown, CaptureAlone,
       CommitRemembers, DeletionSafe, Capturing, Promoting
  <1>6. CASE DeleteNew \/ KeepNew
    BY <1>6, <1>a, MarksAssumption, RemainsType DEF DeleteNew, KeepNew,
       DeleteSnapshot, Reached, Forget, NoFault, Fault, End, Do, Fail, Goto,
       argument, DiskTypes, AttachedSourceExists, Readable, ArgumentKnown,
       CaptureAlone, CommitRemembers, DeletionSafe, Capturing, Promoting
  <1>7. CASE CheckRemove \/ Detach \/ Delete \/ Reattach
    BY <1>7, <1>a, MarksAssumption, RemainsType DEF CheckRemove, Detach, Delete,
       Reattach, Reached, NoFault, End, Do, Fault, DeleteSnapshot, Goto, Forget,
       Fail, argument, DiskTypes, AttachedSourceExists, Readable, ArgumentKnown,
       CaptureAlone, CommitRemembers, DeletionSafe, Capturing, Promoting
  <1>8. ASSUME NEW n \in Names, Load(n) PROVE AttachedSourceExists'
    BY <1>8, <1>a, MarksAssumption, RemainsType DEF Load, argument, history,
       bounds, DiskTypes, AttachedSourceExists, Readable, ArgumentKnown,
       CaptureAlone, CommitRemembers, DeletionSafe, Capturing, Promoting
  <1>9. CASE Start \/ GuestWrite \/ GuestStops
    BY <1>9, <1>a, MarksAssumption, RemainsType DEF Start, GuestWrite,
       GuestStops, disk, argument, history, bounds, DiskTypes,
       AttachedSourceExists, Readable, ArgumentKnown, CaptureAlone,
       CommitRemembers, DeletionSafe, Capturing, Promoting
  <1>10. CASE Crash
    BY <1>10, <1>a, MarksAssumption, RemainsType DEF Crash, End, DiskTypes,
       AttachedSourceExists, Readable, ArgumentKnown, CaptureAlone,
       CommitRemembers, DeletionSafe, Capturing, Promoting
  <1>11. CASE UNCHANGED vars
    BY <1>11, <1>a, MarksAssumption, RemainsType DEF vars, disk, argument,
       history, bounds, DiskTypes, AttachedSourceExists, Readable,
       ArgumentKnown, CaptureAlone, CommitRemembers, DeletionSafe, Capturing,
       Promoting
  <1> QED
    BY <1>1, <1>2, <1>3, <1>4, <1>5, <1>6, <1>7, <1>8, <1>9, <1>10, <1>11 DEF
       Next, BeginStep, SnapshotStep, BaseStep, RemoveStep

\* Only a consistent copy becomes a snapshot.
LEMMA SnapshotsConsistentStep == IInv /\ [Next]_vars => SnapshotsConsistent'
  <1> SUFFICES ASSUME IInv, [Next]_vars PROVE SnapshotsConsistent'
    OBVIOUS
  <1>a. DiskTypes /\ SnapshotsConsistent /\ TempConsistent /\ ArgumentKnown /\
     CaptureAlone /\ CommitRemembers /\ DeletionSafe
    BY DEF IInv
  <1>1. CASE BeginSnapshot \/ BeginCommit \/ BeginPromote \/ BeginRemove
    BY <1>1, <1>a, MarksAssumption, RemainsType DEF BeginSnapshot, BeginCommit,
       BeginPromote, BeginRemove, Begin, Reached, disk, history, DiskTypes,
       SnapshotsConsistent, TempConsistent, ArgumentKnown, CaptureAlone,
       CommitRemembers, DeletionSafe, Capturing, Promoting
  <1>2. CASE CheckSnapshot \/ CloneStarts \/ CloneEnds
    BY <1>2, <1>a, MarksAssumption, RemainsType DEF CheckSnapshot, CloneStarts,
       CloneEnds, Reached, NoFault, End, Do, Goto, Fail, argument, Fault,
       DiskTypes, SnapshotsConsistent, TempConsistent, ArgumentKnown,
       CaptureAlone, CommitRemembers, DeletionSafe, Capturing, Promoting
  <1>3. CASE Describe \/ Publish \/ Reread
    BY <1>3, <1>a, MarksAssumption, RemainsType DEF Describe, Publish, Reread,
       Reached, Do, Fail, NoFault, Goto, End, Fault, argument, DiskTypes,
       SnapshotsConsistent, TempConsistent, ArgumentKnown, CaptureAlone,
       CommitRemembers, DeletionSafe, Capturing, Promoting
  <1>4. CASE Cleanup \/ Keep
    BY <1>4, <1>a, MarksAssumption, RemainsType DEF Cleanup, Keep, Reached,
       NoFault, End, Do, Fail, Fault, Goto, argument, DiskTypes,
       SnapshotsConsistent, TempConsistent, ArgumentKnown, CaptureAlone,
       CommitRemembers, DeletionSafe, Capturing, Promoting
  <1>5. CASE Promote \/ SetBase \/ UndoBase
    BY <1>5, <1>a, MarksAssumption, RemainsType DEF Promote, SetBase, UndoBase,
       Reached, NoFault, End, Fault, Do, Fail, Goto, argument, DiskTypes,
       SnapshotsConsistent, TempConsistent, ArgumentKnown, CaptureAlone,
       CommitRemembers, DeletionSafe, Capturing, Promoting
  <1>6. CASE DeleteNew \/ KeepNew
    BY <1>6, <1>a, MarksAssumption, RemainsType DEF DeleteNew, KeepNew,
       DeleteSnapshot, Reached, Forget, NoFault, Fault, End, Do, Fail, Goto,
       argument, DiskTypes, SnapshotsConsistent, TempConsistent, ArgumentKnown,
       CaptureAlone, CommitRemembers, DeletionSafe, Capturing, Promoting
  <1>7. CASE CheckRemove \/ Detach \/ Delete \/ Reattach
    BY <1>7, <1>a, MarksAssumption, RemainsType DEF CheckRemove, Detach, Delete,
       Reattach, Reached, NoFault, End, Do, Fault, DeleteSnapshot, Goto, Forget,
       Fail, argument, DiskTypes, SnapshotsConsistent, TempConsistent,
       ArgumentKnown, CaptureAlone, CommitRemembers, DeletionSafe, Capturing,
       Promoting
  <1>8. ASSUME NEW n \in Names, Load(n) PROVE SnapshotsConsistent'
    BY <1>8, <1>a, MarksAssumption, RemainsType DEF Load, argument, history,
       bounds, DiskTypes, SnapshotsConsistent, TempConsistent, ArgumentKnown,
       CaptureAlone, CommitRemembers, DeletionSafe, Capturing, Promoting
  <1>9. CASE Start \/ GuestWrite \/ GuestStops
    BY <1>9, <1>a, MarksAssumption, RemainsType DEF Start, GuestWrite,
       GuestStops, disk, argument, history, bounds, DiskTypes,
       SnapshotsConsistent, TempConsistent, ArgumentKnown, CaptureAlone,
       CommitRemembers, DeletionSafe, Capturing, Promoting
  <1>10. CASE Crash
    BY <1>10, <1>a, MarksAssumption, RemainsType DEF Crash, End, DiskTypes,
       SnapshotsConsistent, TempConsistent, ArgumentKnown, CaptureAlone,
       CommitRemembers, DeletionSafe, Capturing, Promoting
  <1>11. CASE UNCHANGED vars
    BY <1>11, <1>a, MarksAssumption, RemainsType DEF vars, disk, argument,
       history, bounds, DiskTypes, SnapshotsConsistent, TempConsistent,
       ArgumentKnown, CaptureAlone, CommitRemembers, DeletionSafe, Capturing,
       Promoting
  <1> QED
    BY <1>1, <1>2, <1>3, <1>4, <1>5, <1>6, <1>7, <1>8, <1>9, <1>10, <1>11 DEF
       Next, BeginStep, SnapshotStep, BaseStep, RemoveStep

\* Nothing is copied while live changes.
LEMMA TempConsistentStep == IInv /\ [Next]_vars => TempConsistent'
  <1> SUFFICES ASSUME IInv, [Next]_vars PROVE TempConsistent'
    OBVIOUS
  <1>a. DiskTypes /\ TempConsistent /\ ArgumentKnown /\ CaptureAlone /\
     CommitRemembers /\ DeletionSafe
    BY DEF IInv
  <1>1. CASE BeginSnapshot \/ BeginCommit \/ BeginPromote \/ BeginRemove
    BY <1>1, <1>a, MarksAssumption, RemainsType DEF BeginSnapshot, BeginCommit,
       BeginPromote, BeginRemove, Begin, Reached, disk, history, DiskTypes,
       TempConsistent, Directory, ArgumentKnown, CaptureAlone, CommitRemembers,
       DeletionSafe, Capturing, Promoting
  <1>2. CASE CheckSnapshot \/ CloneStarts \/ CloneEnds
    BY <1>2, <1>a, MarksAssumption, RemainsType DEF CheckSnapshot, CloneStarts,
       CloneEnds, Reached, NoFault, End, Do, Goto, Fail, argument, Fault,
       DiskTypes, TempConsistent, Directory, ArgumentKnown, CaptureAlone,
       CommitRemembers, DeletionSafe, Capturing, Promoting
  <1>3. CASE Describe \/ Publish \/ Reread
    BY <1>3, <1>a, MarksAssumption, RemainsType DEF Describe, Publish, Reread,
       Reached, Do, Fail, NoFault, Goto, End, Fault, argument, DiskTypes,
       TempConsistent, Directory, ArgumentKnown, CaptureAlone, CommitRemembers,
       DeletionSafe, Capturing, Promoting
  <1>4. CASE Cleanup \/ Keep
    BY <1>4, <1>a, MarksAssumption, RemainsType DEF Cleanup, Keep, Reached,
       NoFault, End, Do, Fail, Fault, Goto, argument, DiskTypes, TempConsistent,
       Directory, ArgumentKnown, CaptureAlone, CommitRemembers, DeletionSafe,
       Capturing, Promoting
  <1>5. CASE Promote \/ SetBase \/ UndoBase
    BY <1>5, <1>a, MarksAssumption, RemainsType DEF Promote, SetBase, UndoBase,
       Reached, NoFault, End, Fault, Do, Fail, Goto, argument, DiskTypes,
       TempConsistent, Directory, ArgumentKnown, CaptureAlone, CommitRemembers,
       DeletionSafe, Capturing, Promoting
  <1>6. CASE DeleteNew \/ KeepNew
    BY <1>6, <1>a, MarksAssumption, RemainsType DEF DeleteNew, KeepNew,
       DeleteSnapshot, Reached, Forget, NoFault, Fault, End, Do, Fail, Goto,
       argument, DiskTypes, TempConsistent, Directory, ArgumentKnown,
       CaptureAlone, CommitRemembers, DeletionSafe, Capturing, Promoting
  <1>7. CASE CheckRemove \/ Detach \/ Delete \/ Reattach
    BY <1>7, <1>a, MarksAssumption, RemainsType DEF CheckRemove, Detach, Delete,
       Reattach, Reached, NoFault, End, Do, Fault, DeleteSnapshot, Goto, Forget,
       Fail, argument, DiskTypes, TempConsistent, Directory, ArgumentKnown,
       CaptureAlone, CommitRemembers, DeletionSafe, Capturing, Promoting
  <1>8. ASSUME NEW n \in Names, Load(n) PROVE TempConsistent'
    BY <1>8, <1>a, MarksAssumption, RemainsType DEF Load, argument, history,
       bounds, DiskTypes, TempConsistent, Directory, ArgumentKnown,
       CaptureAlone, CommitRemembers, DeletionSafe, Capturing, Promoting
  <1>9. CASE Start \/ GuestWrite \/ GuestStops
    BY <1>9, <1>a, MarksAssumption, RemainsType DEF Start, GuestWrite,
       GuestStops, disk, argument, history, bounds, DiskTypes, TempConsistent,
       Directory, ArgumentKnown, CaptureAlone, CommitRemembers, DeletionSafe,
       Capturing, Promoting
  <1>10. CASE Crash
    BY <1>10, <1>a, MarksAssumption, RemainsType DEF Crash, End, DiskTypes,
       TempConsistent, Directory, ArgumentKnown, CaptureAlone, CommitRemembers,
       DeletionSafe, Capturing, Promoting
  <1>11. CASE UNCHANGED vars
    BY <1>11, <1>a, MarksAssumption, RemainsType DEF vars, disk, argument,
       history, bounds, DiskTypes, TempConsistent, Directory, ArgumentKnown,
       CaptureAlone, CommitRemembers, DeletionSafe, Capturing, Promoting
  <1> QED
    BY <1>1, <1>2, <1>3, <1>4, <1>5, <1>6, <1>7, <1>8, <1>9, <1>10, <1>11 DEF
       Next, BeginStep, SnapshotStep, BaseStep, RemoveStep

\* A command keeps its argument until it ends.
LEMMA ArgumentKnownStep == IInv /\ [Next]_vars => ArgumentKnown'
  <1> SUFFICES ASSUME IInv, [Next]_vars PROVE ArgumentKnown'
    OBVIOUS
  <1>a. ArgumentKnown
    BY DEF IInv
  <1>1. CASE BeginSnapshot \/ BeginCommit \/ BeginPromote \/ BeginRemove
    BY <1>1, <1>a DEF BeginSnapshot, BeginCommit, BeginPromote, BeginRemove,
       Begin, Reached, disk, history, ArgumentKnown
  <1>2. CASE CheckSnapshot \/ CloneStarts \/ CloneEnds
    BY <1>2, <1>a DEF CheckSnapshot, CloneStarts, CloneEnds, Reached, NoFault,
       End, Do, Goto, Fail, argument, Fault, ArgumentKnown
  <1>3. CASE Describe \/ Publish \/ Reread
    BY <1>3, <1>a DEF Describe, Publish, Reread, Reached, Do, Fail, NoFault,
       Goto, End, Fault, argument, ArgumentKnown
  <1>4. CASE Cleanup \/ Keep
    BY <1>4, <1>a DEF Cleanup, Keep, Reached, NoFault, End, Do, Fail, Fault,
       Goto, argument, ArgumentKnown
  <1>5. CASE Promote \/ SetBase \/ UndoBase
    BY <1>5, <1>a DEF Promote, SetBase, UndoBase, Reached, NoFault, End, Fault,
       Do, Fail, Goto, argument, ArgumentKnown
  <1>6. CASE DeleteNew \/ KeepNew
    BY <1>6, <1>a DEF DeleteNew, KeepNew, DeleteSnapshot, Reached, Forget,
       NoFault, Fault, End, Do, Fail, Goto, argument, ArgumentKnown
  <1>7. CASE CheckRemove \/ Detach \/ Delete \/ Reattach
    BY <1>7, <1>a DEF CheckRemove, Detach, Delete, Reattach, Reached, NoFault,
       End, Do, Fault, DeleteSnapshot, Goto, Forget, Fail, argument,
       ArgumentKnown
  <1>8. ASSUME NEW n \in Names, Load(n) PROVE ArgumentKnown'
    BY <1>8, <1>a DEF Load, argument, history, bounds, ArgumentKnown
  <1>9. CASE Start \/ GuestWrite \/ GuestStops
    BY <1>9, <1>a DEF Start, GuestWrite, GuestStops, disk, argument, history,
       bounds, ArgumentKnown
  <1>10. CASE Crash
    BY <1>10, <1>a DEF Crash, End, ArgumentKnown
  <1>11. CASE UNCHANGED vars
    BY <1>11, <1>a DEF vars, disk, argument, history, bounds, ArgumentKnown
  <1> QED
    BY <1>1, <1>2, <1>3, <1>4, <1>5, <1>6, <1>7, <1>8, <1>9, <1>10, <1>11 DEF
       Next, BeginStep, SnapshotStep, BaseStep, RemoveStep

\* The name stays free and the VM stopped until the rename.
LEMMA CaptureAloneStep == IInv /\ [Next]_vars => CaptureAlone'
  <1> SUFFICES ASSUME IInv, [Next]_vars PROVE CaptureAlone'
    OBVIOUS
  <1>a. DiskTypes /\ ProcessTypes /\ AttachedSourceExists /\ TempConsistent /\
     ArgumentKnown /\ CaptureAlone /\ CommitRemembers /\ DeletionSafe
    BY DEF IInv
  <1>1. CASE BeginSnapshot \/ BeginCommit \/ BeginPromote \/ BeginRemove
    BY <1>1, <1>a, MarksAssumption DEF BeginSnapshot, BeginCommit, BeginPromote,
       BeginRemove, Begin, Reached, disk, history, DiskTypes, ProcessTypes,
       Directory, Valid, AttachedSourceExists, ArgumentKnown, CaptureAlone,
       CommitRemembers, DeletionSafe, Capturing, Promoting
  <1>2. CASE CheckSnapshot \/ CloneStarts \/ CloneEnds
    BY <1>2, <1>a, MarksAssumption DEF CheckSnapshot, CloneStarts, CloneEnds,
       Reached, NoFault, End, Do, Goto, Fail, argument, Fault, DiskTypes,
       ProcessTypes, Directory, Valid, AttachedSourceExists, ArgumentKnown,
       CaptureAlone, CommitRemembers, DeletionSafe, Capturing, Promoting
  <1>3. CASE Describe \/ Publish \/ Reread
    BY <1>3, <1>a, MarksAssumption DEF Describe, Publish, Reread, Reached, Do,
       Fail, NoFault, Goto, End, Fault, argument, DiskTypes, ProcessTypes,
       Directory, Valid, AttachedSourceExists, ArgumentKnown, CaptureAlone,
       CommitRemembers, DeletionSafe, Capturing, Promoting
  <1>4. CASE Cleanup \/ Keep
    BY <1>4, <1>a, MarksAssumption, RemainsType DEF Cleanup, Keep, Reached,
       NoFault, End, Do, Fail, Fault, Goto, argument, DiskTypes, ProcessTypes,
       Directory, Valid, AttachedSourceExists, ArgumentKnown, CaptureAlone,
       CommitRemembers, DeletionSafe, Capturing, Promoting
  <1>5. CASE Promote \/ SetBase \/ UndoBase
    BY <1>5, <1>a, MarksAssumption DEF Promote, SetBase, UndoBase, Reached,
       NoFault, End, Fault, Do, Fail, Goto, argument, DiskTypes, ProcessTypes,
       Directory, Valid, AttachedSourceExists, ArgumentKnown, CaptureAlone,
       CommitRemembers, DeletionSafe, Capturing, Promoting
  <1>6. CASE DeleteNew \/ KeepNew
    BY <1>6, <1>a, MarksAssumption DEF DeleteNew, KeepNew, DeleteSnapshot,
       Reached, Forget, NoFault, Fault, End, Do, Fail, Goto, argument,
       DiskTypes, ProcessTypes, Directory, Valid, AttachedSourceExists,
       ArgumentKnown, CaptureAlone, CommitRemembers, DeletionSafe, Capturing,
       Promoting
  <1>7. CASE CheckRemove \/ Detach \/ Delete \/ Reattach
    BY <1>7, <1>a, MarksAssumption DEF CheckRemove, Detach, Delete, Reattach,
       Reached, NoFault, End, Do, Fault, DeleteSnapshot, Goto, Forget, Fail,
       argument, DiskTypes, ProcessTypes, Directory, Valid,
       AttachedSourceExists, ArgumentKnown, CaptureAlone, CommitRemembers,
       DeletionSafe, Capturing, Promoting
  <1>8. ASSUME NEW n \in Names, Load(n) PROVE CaptureAlone'
    BY <1>8, <1>a, MarksAssumption DEF Load, argument, history, bounds,
       DiskTypes, ProcessTypes, Directory, Valid, AttachedSourceExists,
       ArgumentKnown, CaptureAlone, CommitRemembers, DeletionSafe, Capturing,
       Promoting
  <1>9. CASE Start \/ GuestWrite \/ GuestStops
    BY <1>9, <1>a, MarksAssumption DEF Start, GuestWrite, GuestStops, disk,
       argument, history, bounds, DiskTypes, ProcessTypes, Directory, Valid,
       AttachedSourceExists, ArgumentKnown, CaptureAlone, CommitRemembers,
       DeletionSafe, Capturing, Promoting
  <1>10. CASE Crash
    BY <1>10, <1>a, MarksAssumption DEF Crash, End, DiskTypes, ProcessTypes,
       Directory, Valid, AttachedSourceExists, ArgumentKnown, CaptureAlone,
       CommitRemembers, DeletionSafe, Capturing, Promoting
  <1>11. CASE UNCHANGED vars
    BY <1>11, <1>a, MarksAssumption DEF vars, disk, argument, history, bounds,
       DiskTypes, ProcessTypes, Directory, Valid, AttachedSourceExists,
       ArgumentKnown, CaptureAlone, CommitRemembers, DeletionSafe, Capturing,
       Promoting
  <1> QED
    BY <1>1, <1>2, <1>3, <1>4, <1>5, <1>6, <1>7, <1>8, <1>9, <1>10, <1>11 DEF
       Next, BeginStep, SnapshotStep, BaseStep, RemoveStep

\* commit can always return to the base it began with.
LEMMA CommitRemembersStep == IInv /\ [Next]_vars => CommitRemembers'
  <1> SUFFICES ASSUME IInv, [Next]_vars PROVE CommitRemembers'
    OBVIOUS
  <1>a. DiskTypes /\ BoundTypes /\ BaseIsWhole /\ ArgumentKnown /\ CaptureAlone
     /\ CommitRemembers /\ DeletionSafe
    BY DEF IInv
  <1>1. CASE BeginSnapshot \/ BeginCommit \/ BeginPromote \/ BeginRemove
    BY <1>1, <1>a, MarksAssumption, BoundsAssumption, RemainsType DEF
       BeginSnapshot, BeginCommit, BeginPromote, BeginRemove, Begin, Reached,
       disk, history, DiskTypes, BoundTypes, BaseIsWhole, Readable,
       ArgumentKnown, CaptureAlone, CommitRemembers, DeletionSafe, Capturing,
       Promoting
  <1>2. CASE CheckSnapshot \/ CloneStarts \/ CloneEnds
    BY <1>2, <1>a, MarksAssumption, BoundsAssumption, RemainsType DEF
       CheckSnapshot, CloneStarts, CloneEnds, Reached, NoFault, End, Do, Goto,
       Fail, argument, Fault, DiskTypes, BoundTypes, BaseIsWhole, Readable,
       ArgumentKnown, CaptureAlone, CommitRemembers, DeletionSafe, Capturing,
       Promoting
  <1>3. CASE Describe \/ Publish \/ Reread
    BY <1>3, <1>a, MarksAssumption, BoundsAssumption, RemainsType DEF Describe,
       Publish, Reread, Reached, Do, Fail, NoFault, Goto, End, Fault, argument,
       DiskTypes, BoundTypes, BaseIsWhole, Readable, ArgumentKnown,
       CaptureAlone, CommitRemembers, DeletionSafe, Capturing, Promoting
  <1>4. CASE Cleanup \/ Keep
    BY <1>4, <1>a, MarksAssumption, BoundsAssumption, RemainsType, RemainsType
       DEF Cleanup, Keep, Reached, NoFault, End, Do, Fail, Fault, Goto,
       argument, DiskTypes, BoundTypes, BaseIsWhole, Readable, ArgumentKnown,
       CaptureAlone, CommitRemembers, DeletionSafe, Capturing, Promoting
  <1>5. CASE Promote \/ SetBase \/ UndoBase
    BY <1>5, <1>a, MarksAssumption, BoundsAssumption, RemainsType DEF Promote,
       SetBase, UndoBase, Reached, NoFault, End, Fault, Do, Fail, Goto,
       argument, DiskTypes, BoundTypes, BaseIsWhole, Readable, ArgumentKnown,
       CaptureAlone, CommitRemembers, DeletionSafe, Capturing, Promoting
  <1>6. CASE DeleteNew \/ KeepNew
    BY <1>6, <1>a, MarksAssumption, BoundsAssumption, RemainsType DEF DeleteNew,
       KeepNew, DeleteSnapshot, Reached, Forget, NoFault, Fault, End, Do, Fail,
       Goto, argument, DiskTypes, BoundTypes, BaseIsWhole, Readable,
       ArgumentKnown, CaptureAlone, CommitRemembers, DeletionSafe, Capturing,
       Promoting
  <1>7. CASE CheckRemove \/ Detach \/ Delete \/ Reattach
    BY <1>7, <1>a, MarksAssumption, BoundsAssumption, RemainsType DEF
       CheckRemove, Detach, Delete, Reattach, Reached, NoFault, End, Do, Fault,
       DeleteSnapshot, Goto, Forget, Fail, argument, DiskTypes, BoundTypes,
       BaseIsWhole, Readable, ArgumentKnown, CaptureAlone, CommitRemembers,
       DeletionSafe, Capturing, Promoting
  <1>8. ASSUME NEW n \in Names, Load(n) PROVE CommitRemembers'
    BY <1>8, <1>a, MarksAssumption, BoundsAssumption, RemainsType DEF Load,
       argument, history, bounds, DiskTypes, BoundTypes, BaseIsWhole, Readable,
       ArgumentKnown, CaptureAlone, CommitRemembers, DeletionSafe, Capturing,
       Promoting
  <1>9. CASE Start \/ GuestWrite \/ GuestStops
    BY <1>9, <1>a, MarksAssumption, BoundsAssumption, RemainsType DEF Start,
       GuestWrite, GuestStops, disk, argument, history, bounds, DiskTypes,
       BoundTypes, BaseIsWhole, Readable, ArgumentKnown, CaptureAlone,
       CommitRemembers, DeletionSafe, Capturing, Promoting
  <1>10. CASE Crash
    BY <1>10, <1>a, MarksAssumption, BoundsAssumption, RemainsType DEF Crash,
       End, DiskTypes, BoundTypes, BaseIsWhole, Readable, ArgumentKnown,
       CaptureAlone, CommitRemembers, DeletionSafe, Capturing, Promoting
  <1>11. CASE UNCHANGED vars
    BY <1>11, <1>a, MarksAssumption, BoundsAssumption, RemainsType DEF vars,
       disk, argument, history, bounds, DiskTypes, BoundTypes, BaseIsWhole,
       Readable, ArgumentKnown, CaptureAlone, CommitRemembers, DeletionSafe,
       Capturing, Promoting
  <1> QED
    BY <1>1, <1>2, <1>3, <1>4, <1>5, <1>6, <1>7, <1>8, <1>9, <1>10, <1>11 DEF
       Next, BeginStep, SnapshotStep, BaseStep, RemoveStep

\* What is being deleted is neither the base nor the attached source.
LEMMA DeletionSafeStep == IInv /\ [Next]_vars => DeletionSafe'
  <1> SUFFICES ASSUME IInv, [Next]_vars PROVE DeletionSafe'
    OBVIOUS
  <1>a. DiskTypes /\ BaseIsWhole /\ AttachedSourceExists /\ ArgumentKnown /\
     CaptureAlone /\ CommitRemembers /\ DeletionSafe
    BY DEF IInv
  <1>1. CASE BeginSnapshot \/ BeginCommit \/ BeginPromote \/ BeginRemove
    BY <1>1, <1>a, MarksAssumption, RemainsType DEF BeginSnapshot, BeginCommit,
       BeginPromote, BeginRemove, Begin, Reached, disk, history, DiskTypes,
       BaseIsWhole, Readable, AttachedSourceExists, ArgumentKnown, CaptureAlone,
       CommitRemembers, DeletionSafe, Capturing, Promoting
  <1>2. CASE CheckSnapshot \/ CloneStarts \/ CloneEnds
    BY <1>2, <1>a, MarksAssumption, RemainsType DEF CheckSnapshot, CloneStarts,
       CloneEnds, Reached, NoFault, End, Do, Goto, Fail, argument, Fault,
       DiskTypes, BaseIsWhole, Readable, AttachedSourceExists, ArgumentKnown,
       CaptureAlone, CommitRemembers, DeletionSafe, Capturing, Promoting
  <1>3. CASE Describe \/ Publish \/ Reread
    BY <1>3, <1>a, MarksAssumption, RemainsType DEF Describe, Publish, Reread,
       Reached, Do, Fail, NoFault, Goto, End, Fault, argument, DiskTypes,
       BaseIsWhole, Readable, AttachedSourceExists, ArgumentKnown, CaptureAlone,
       CommitRemembers, DeletionSafe, Capturing, Promoting
  <1>4. CASE Cleanup \/ Keep
    BY <1>4, <1>a, MarksAssumption, RemainsType, RemainsType DEF Cleanup, Keep,
       Reached, NoFault, End, Do, Fail, Fault, Goto, argument, DiskTypes,
       BaseIsWhole, Readable, AttachedSourceExists, ArgumentKnown, CaptureAlone,
       CommitRemembers, DeletionSafe, Capturing, Promoting
  <1>5. CASE Promote \/ SetBase \/ UndoBase
    BY <1>5, <1>a, MarksAssumption, RemainsType DEF Promote, SetBase, UndoBase,
       Reached, NoFault, End, Fault, Do, Fail, Goto, argument, DiskTypes,
       BaseIsWhole, Readable, AttachedSourceExists, ArgumentKnown, CaptureAlone,
       CommitRemembers, DeletionSafe, Capturing, Promoting
  <1>6. CASE DeleteNew \/ KeepNew
    BY <1>6, <1>a, MarksAssumption, RemainsType DEF DeleteNew, KeepNew,
       DeleteSnapshot, Reached, Forget, NoFault, Fault, End, Do, Fail, Goto,
       argument, DiskTypes, BaseIsWhole, Readable, AttachedSourceExists,
       ArgumentKnown, CaptureAlone, CommitRemembers, DeletionSafe, Capturing,
       Promoting
  <1>7. CASE CheckRemove \/ Detach
    BY <1>7, <1>a, MarksAssumption, RemainsType DEF CheckRemove, Detach,
       Reached, NoFault, End, Do, Fault, Goto, argument, DiskTypes, BaseIsWhole,
       Readable, AttachedSourceExists, ArgumentKnown, CaptureAlone,
       CommitRemembers, DeletionSafe, Capturing, Promoting
  <1>8. CASE Delete
    BY <1>8, <1>a, MarksAssumption, RemainsType DEF Delete, DeleteSnapshot,
       Reached, Do, Forget, NoFault, End, Fail, Goto, Fault, argument,
       DiskTypes, BaseIsWhole, Readable, AttachedSourceExists, ArgumentKnown,
       CaptureAlone, CommitRemembers, DeletionSafe, Capturing, Promoting
  <1>9. CASE Reattach
    BY <1>9, <1>a, MarksAssumption, RemainsType DEF Reattach, Reached, NoFault,
       Fault, End, DiskTypes, BaseIsWhole, Readable, AttachedSourceExists,
       ArgumentKnown, CaptureAlone, CommitRemembers, DeletionSafe, Capturing,
       Promoting
  <1>10. ASSUME NEW n \in Names, Load(n) PROVE DeletionSafe'
    BY <1>10, <1>a, MarksAssumption, RemainsType DEF Load, argument, history,
       bounds, DiskTypes, BaseIsWhole, Readable, AttachedSourceExists,
       ArgumentKnown, CaptureAlone, CommitRemembers, DeletionSafe, Capturing,
       Promoting
  <1>11. CASE Start \/ GuestWrite \/ GuestStops
    BY <1>11, <1>a, MarksAssumption, RemainsType DEF Start, GuestWrite,
       GuestStops, disk, argument, history, bounds, DiskTypes, BaseIsWhole,
       Readable, AttachedSourceExists, ArgumentKnown, CaptureAlone,
       CommitRemembers, DeletionSafe, Capturing, Promoting
  <1>12. CASE Crash
    BY <1>12, <1>a, MarksAssumption, RemainsType DEF Crash, End, DiskTypes,
       BaseIsWhole, Readable, AttachedSourceExists, ArgumentKnown, CaptureAlone,
       CommitRemembers, DeletionSafe, Capturing, Promoting
  <1>13. CASE UNCHANGED vars
    BY <1>13, <1>a, MarksAssumption, RemainsType DEF vars, disk, argument,
       history, bounds, DiskTypes, BaseIsWhole, Readable, AttachedSourceExists,
       ArgumentKnown, CaptureAlone, CommitRemembers, DeletionSafe, Capturing,
       Promoting
  <1> QED
    BY <1>1, <1>2, <1>3, <1>4, <1>5, <1>6, <1>7, <1>8, <1>9, <1>10, <1>11,
       <1>12, <1>13 DEF Next, BeginStep, SnapshotStep, BaseStep, RemoveStep

-------------------------------------------------------------------------------
(* What a step may not do. *)

\* No step touches the snapshot that live is attached to.
LEMMA SourceKeptStep == IInv /\ [Next]_vars => SourceKept
  <1> SUFFICES ASSUME IInv, [Next]_vars PROVE SourceKept
    OBVIOUS
  <1>a. DiskTypes /\ AttachedSourceExists /\ ArgumentKnown /\ CaptureAlone /\
     CommitRemembers /\ DeletionSafe
    BY DEF IInv
  <1>1. CASE Describe \/ Publish \/ Reread
    BY <1>1, <1>a, MarksAssumption DEF Describe, Publish, Reread, Reached, Do,
       Fail, NoFault, Goto, End, Fault, argument, SourceKept, DiskTypes,
       AttachedSourceExists, ArgumentKnown, CaptureAlone, CommitRemembers,
       DeletionSafe, Capturing, Promoting
  <1>2. CASE DeleteNew \/ KeepNew \/ Delete
    BY <1>2, <1>a, MarksAssumption DEF DeleteNew, KeepNew, Delete,
       DeleteSnapshot, Reached, Forget, NoFault, Fault, End, Do, Fail, Goto,
       argument, SourceKept, DiskTypes, AttachedSourceExists, ArgumentKnown,
       CaptureAlone, CommitRemembers, DeletionSafe, Capturing, Promoting
  <1>3. CASE CheckSnapshot \/ CloneStarts \/ CloneEnds \/ Cleanup \/ Keep
    BY <1>3, <1>a, MarksAssumption DEF CheckSnapshot, CloneStarts, CloneEnds,
       Cleanup, Keep, Reached, NoFault, End, Do, Goto, Fail, Fault, argument,
       SourceKept, DiskTypes, AttachedSourceExists, ArgumentKnown, CaptureAlone,
       CommitRemembers, DeletionSafe, Capturing, Promoting
  <1>4. CASE Promote \/ SetBase \/ UndoBase \/ CheckRemove \/ Detach \/ Reattach
    BY <1>4, <1>a, MarksAssumption DEF Promote, SetBase, UndoBase, CheckRemove,
       Detach, Reattach, Reached, NoFault, End, Fault, Do, Fail, Goto, argument,
       SourceKept, DiskTypes, AttachedSourceExists, ArgumentKnown, CaptureAlone,
       CommitRemembers, DeletionSafe, Capturing, Promoting
  <1>5. CASE BeginSnapshot \/ BeginCommit \/ BeginPromote \/ BeginRemove
    BY <1>5, <1>a, MarksAssumption DEF BeginSnapshot, BeginCommit, BeginPromote,
       BeginRemove, Begin, Reached, disk, history, SourceKept, DiskTypes,
       AttachedSourceExists, ArgumentKnown, CaptureAlone, CommitRemembers,
       DeletionSafe, Capturing, Promoting
  <1>6. ASSUME NEW n \in Names, Load(n) PROVE SourceKept
    BY <1>6, <1>a, MarksAssumption DEF Load, argument, history, bounds,
       SourceKept, DiskTypes, AttachedSourceExists, ArgumentKnown, CaptureAlone,
       CommitRemembers, DeletionSafe, Capturing, Promoting
  <1>7. CASE Start \/ GuestWrite \/ GuestStops \/ Crash
    BY <1>7, <1>a, MarksAssumption DEF Start, GuestWrite, GuestStops, Crash,
       disk, argument, history, bounds, End, SourceKept, DiskTypes,
       AttachedSourceExists, ArgumentKnown, CaptureAlone, CommitRemembers,
       DeletionSafe, Capturing, Promoting
  <1>8. CASE UNCHANGED vars
    BY <1>8, <1>a, MarksAssumption DEF vars, disk, argument, history, bounds,
       SourceKept, DiskTypes, AttachedSourceExists, ArgumentKnown, CaptureAlone,
       CommitRemembers, DeletionSafe, Capturing, Promoting
  <1> QED
    BY <1>1, <1>2, <1>3, <1>4, <1>5, <1>6, <1>7, <1>8 DEF Next, BeginStep,
       SnapshotStep, BaseStep, RemoveStep

\* A failed commit gives the base back.
LEMMA FailedCommitStep == IInv /\ [Next]_vars => FailedCommitKept
  <1> SUFFICES ASSUME IInv, [Next]_vars PROVE FailedCommitKept
    OBVIOUS
  <1>a. BoundTypes /\ CommitRemembers
    BY DEF IInv
  <1>1. CASE BeginSnapshot \/ BeginCommit \/ BeginPromote \/ BeginRemove
    BY <1>1, <1>a, BoundsAssumption DEF BeginSnapshot, BeginCommit,
       BeginPromote, BeginRemove, Begin, Reached, disk, history,
       FailedCommitKept, BoundTypes, CommitRemembers, Capturing, Promoting
  <1>2. CASE CheckSnapshot \/ CloneStarts \/ CloneEnds
    BY <1>2, <1>a, BoundsAssumption DEF CheckSnapshot, CloneStarts, CloneEnds,
       Reached, NoFault, End, Do, Goto, Fail, argument, Fault, FailedCommitKept,
       BoundTypes, CommitRemembers, Capturing, Promoting
  <1>3. CASE Describe \/ Publish \/ Reread
    BY <1>3, <1>a, BoundsAssumption DEF Describe, Publish, Reread, Reached, Do,
       Fail, NoFault, Goto, End, Fault, argument, FailedCommitKept, BoundTypes,
       CommitRemembers, Capturing, Promoting
  <1>4. CASE Cleanup \/ Keep
    BY <1>4, <1>a, BoundsAssumption DEF Cleanup, Keep, Reached, NoFault, End,
       Do, Fail, Fault, Goto, argument, FailedCommitKept, BoundTypes,
       CommitRemembers, Capturing, Promoting
  <1>5. CASE Promote \/ SetBase \/ UndoBase
    BY <1>5, <1>a, BoundsAssumption DEF Promote, SetBase, UndoBase, Reached,
       NoFault, End, Fault, Do, Fail, Goto, argument, FailedCommitKept,
       BoundTypes, CommitRemembers, Capturing, Promoting
  <1>6. CASE DeleteNew \/ KeepNew
    BY <1>6, <1>a, BoundsAssumption DEF DeleteNew, KeepNew, DeleteSnapshot,
       Reached, Forget, NoFault, Fault, End, Do, Fail, Goto, argument,
       FailedCommitKept, BoundTypes, CommitRemembers, Capturing, Promoting
  <1>7. CASE CheckRemove \/ Detach \/ Delete \/ Reattach
    BY <1>7, <1>a, BoundsAssumption DEF CheckRemove, Detach, Delete, Reattach,
       Reached, NoFault, End, Do, Fault, DeleteSnapshot, Goto, Forget, Fail,
       argument, FailedCommitKept, BoundTypes, CommitRemembers, Capturing,
       Promoting
  <1>8. ASSUME NEW n \in Names, Load(n) PROVE FailedCommitKept
    BY <1>8, <1>a, BoundsAssumption DEF Load, argument, history, bounds,
       FailedCommitKept, BoundTypes, CommitRemembers, Capturing, Promoting
  <1>9. CASE Start \/ GuestWrite \/ GuestStops
    BY <1>9, <1>a, BoundsAssumption DEF Start, GuestWrite, GuestStops, disk,
       argument, history, bounds, FailedCommitKept, BoundTypes, CommitRemembers,
       Capturing, Promoting
  <1>10. CASE Crash
    BY <1>10, <1>a, BoundsAssumption DEF Crash, End, FailedCommitKept,
       BoundTypes, CommitRemembers, Capturing, Promoting
  <1>11. CASE UNCHANGED vars
    BY <1>11, <1>a, BoundsAssumption DEF vars, disk, argument, history, bounds,
       FailedCommitKept, BoundTypes, CommitRemembers, Capturing, Promoting
  <1> QED
    BY <1>1, <1>2, <1>3, <1>4, <1>5, <1>6, <1>7, <1>8, <1>9, <1>10, <1>11 DEF
       Next, BeginStep, SnapshotStep, BaseStep, RemoveStep

-------------------------------------------------------------------------------
(* The refinement. *)

\* The entry of one name changes in Readables as it does in snapshots.
LEMMA EntryStep ==
    ASSUME DiskTypes, NEW n \in Names, NEW d \in Directory \cup {None},
           snapshots' = [snapshots EXCEPT ![n] = d]
    PROVE  Readables' =
             [Readables EXCEPT ![n] =
                IF d # None /\ d.parent \notin {None, n} /\ Valid(d.bundle) THEN d ELSE None]
  BY DEF Readables, Readable, Valid, DiskTypes

\* A directory that appears under a free name and can be read is an Add, ...
LEMMA AddStep ==
    ASSUME DiskTypes, NEW n \in Names, NEW d \in Directory,
           snapshots[n] = None, snapshots' = [snapshots EXCEPT ![n] = d],
           d.parent \notin {None, n}, Valid(d.bundle), UNCHANGED base
    PROVE  Library!Next
  <1>1. d # None
    BY MarksAssumption
  <1>2. Readables' = [Readables EXCEPT ![n] = d]
    BY <1>1, EntryStep
  <1>3. Readables[n] = None
    BY DEF Readables, Readable
  <1> QED
    BY <1>2, <1>3 DEF Readables, Library!Next, Library!Add

\* ... one that can no longer be read is a Delete, if it could before, ...
LEMMA DeleteStep ==
    ASSUME DiskTypes, NEW n \in Names, n # base, NEW d \in Directory \cup {None},
           snapshots' = [snapshots EXCEPT ![n] = d],
           d = None \/ d.parent = None \/ ~Valid(d.bundle), UNCHANGED base
    PROVE  Library!Next \/ UNCHANGED Library!vars
  <1>1. Readables' = [Readables EXCEPT ![n] = None]
    BY EntryStep
  <1>2. CASE Readable(n)
    <2>1. Readables[n] # None
      BY <1>2 DEF Readables, Readable
    <2> QED
      BY <1>1, <2>1 DEF Readables, Library!Next, Library!Delete
  <1>3. CASE ~Readable(n)
    <2>1. Readables' = Readables
      BY <1>1, <1>3 DEF Readables
    <2> QED
      BY <2>1 DEF Readables, Library!vars
  <1> QED
    BY <1>2, <1>3

\* ... and a pointer that moves to a snapshot that can be read is a Promote.
LEMMA PromoteStep ==
    ASSUME NEW n \in Names, Readable(n), base' \in {base, n}, UNCHANGED snapshots
    PROVE  Library!Next \/ UNCHANGED Library!vars
  <1>1. Readables' = Readables /\ Readables[n] # None
    BY DEF Readables, Readable
  <1>2. CASE base' = n
    BY <1>1, <1>2 DEF Readables, Library!Next, Library!Promote
  <1>3. CASE base' = base
    BY <1>1, <1>3 DEF Readables, Library!vars
  <1> QED
    BY <1>2, <1>3

\* vmctl init starts the library.
LEMMA InitLibrary == Init => Library!Init
  <1> SUFFICES ASSUME Init PROVE Library!Init
    OBVIOUS
  <1> DEFINE record == [parent |-> Root, bundle |-> 0]
  <1>1. record \in Directory
    BY BoundsAssumption DEF Directory, Contents
  <1>2. Readables = [n \in Names |-> IF n = base THEN record ELSE None]
    BY MarksAssumption, BoundsAssumption DEF Init, Readables, Readable, Valid, Contents
  <1> QED
    BY <1>1, <1>2 DEF Init, Readables, Library!Init

\* Every step of the catalog is a step of the library or changes nothing in it.
LEMMA LibraryStep == IInv /\ [Next]_vars => Library!Next \/ UNCHANGED Library!vars
  <1> SUFFICES ASSUME IInv, [Next]_vars
               PROVE  Library!Next \/ UNCHANGED Library!vars
    OBVIOUS
  <1>a. DiskTypes /\ ArgumentKnown /\ CaptureAlone /\ CommitRemembers /\ DeletionSafe
    BY DEF IInv
  <1>b. ASSUME UNCHANGED <<snapshots, base>> PROVE UNCHANGED Library!vars
    BY <1>b DEF Library!vars, Readable
  <1>1. CASE Publish
    <2>1. CASE UNCHANGED snapshots
      BY <1>1, <2>1, <1>b DEF Publish
    <2>2. CASE snapshots' = [snapshots EXCEPT ![name] = temp]
      <3>1. name \in Names /\ snapshots[name] = None /\ UNCHANGED base
        BY <1>1, <1>a DEF Publish, Reached, ArgumentKnown, CaptureAlone, Capturing
      <3>2. temp \in Directory /\ temp.parent \notin {None, name} /\ Valid(temp.bundle)
        BY <1>1, <1>a DEF Publish, Reached, CaptureAlone, DiskTypes
      <3> QED
        BY <1>a, <2>2, <3>1, <3>2, AddStep
    <2> QED
      BY <1>1, <2>1, <2>2 DEF Publish
  <1>2. CASE DeleteNew \/ Delete \/ KeepNew
    <2>1. /\ name \in Names /\ name # base /\ snapshots[name] \in Directory
          /\ UNCHANGED base
      BY <1>2, <1>a DEF DeleteNew, Delete, KeepNew, DeleteSnapshot, Reached,
         ArgumentKnown, CommitRemembers, DeletionSafe, Promoting, DiskTypes
    <2>2. CASE UNCHANGED snapshots
      BY <2>1, <2>2, <1>b
    <2>3. ASSUME NEW d \in Remains(snapshots[name]) \cup {None},
                 snapshots' = [snapshots EXCEPT ![name] = d]
          PROVE  Library!Next \/ UNCHANGED Library!vars
      <3>1. /\ d \in Directory \cup {None}
            /\ d = None \/ d.parent = None \/ ~Valid(d.bundle)
        BY <2>1, <2>3, RemainsType
      <3> QED
        BY <1>a, <2>1, <2>3, <3>1, DeleteStep
    <2> QED
      BY <1>2, <2>2, <2>3 DEF DeleteNew, Delete, KeepNew, DeleteSnapshot, Forget
  <1>3. CASE Promote \/ SetBase \/ UndoBase
    <2>1. UNCHANGED snapshots /\ name \in Names
      BY <1>3, <1>a DEF Promote, SetBase, UndoBase, Reached, ArgumentKnown
    <2>2. CASE UNCHANGED base
      BY <2>1, <2>2, <1>b
    <2>3. CASE Readable(name) /\ base' = name
      BY <2>1, <2>3, PromoteStep
    <2>4. CASE base' = oldBase /\ oldBase \in Names /\ Readable(oldBase)
      BY <2>1, <2>4, PromoteStep
    <2> QED
      BY <1>3, <1>a, <2>2, <2>3, <2>4 DEF Promote, SetBase, UndoBase, Reached,
         CommitRemembers, Promoting
  <1>4. CASE \/ BeginStep \/ CheckSnapshot \/ CloneStarts \/ CloneEnds \/ Describe
             \/ Reread \/ Cleanup \/ Keep \/ CheckRemove \/ Detach \/ Reattach
    BY <1>4, <1>b DEF BeginStep, BeginSnapshot, BeginCommit, BeginPromote,
       BeginRemove, Begin, disk, CheckSnapshot, CloneStarts, CloneEnds, Describe,
       Reread, Cleanup, Keep, CheckRemove, Detach, Reattach
  <1>5. CASE \/ \E n \in Names : Load(n)
             \/ Start \/ GuestWrite \/ GuestStops \/ Crash \/ UNCHANGED vars
    BY <1>5, <1>b DEF Load, Start, GuestWrite, GuestStops, Crash, vars, disk
  <1> QED
    BY <1>1, <1>2, <1>3, <1>4, <1>5 DEF Next, SnapshotStep, BaseStep, RemoveStep

LEMMA NextIInv == IInv /\ [Next]_vars => IInv'
  BY DiskTypesStep, ProcessTypesStep, HistoryTypesStep, BoundTypesStep,
     BaseIsWholeStep, AttachedSourceExistsStep, SnapshotsConsistentStep,
     ArgumentKnownStep, CaptureAloneStep, CommitRemembersStep, DeletionSafeStep,
     TempConsistentStep
     DEF IInv

-------------------------------------------------------------------------------
(* The theorems. *)

\* IInv holds in every state of every behaviour.
THEOREM Invariance == Spec => []IInv
  BY InitIInv, NextIInv, PTL DEF Spec

\* The disk and the locals of the commands keep their types; in particular no
\* mixed copy ever becomes the live bundle.
THEOREM TypeCorrect == Spec => []TypeOK
  <1>1. IInv => TypeOK
    BY DEF IInv, TypeOK
  <1> QED
    BY <1>1, Invariance, PTL

\* Whatever is killed or fails, the base is a whole snapshot (requirements 7.5,
\* 7.7 and 7.13), so reset always has something to load.
THEOREM BaseSurvives == Spec => []BaseIsWhole
  <1>1. IInv => BaseIsWhole
    BY DEF IInv
  <1> QED
    BY <1>1, Invariance, PTL

\* The attached source of the live VM always has its directory (requirement
\* 7.6), so no snapshot is ever recorded as its own parent.
THEOREM SourceSurvives == Spec => []AttachedSourceExists
  <1>1. IInv => AttachedSourceExists
    BY DEF IInv
  <1> QED
    BY <1>1, Invariance, PTL

\* No snapshot is a copy of a bundle that changed under it (requirement 2.1).
THEOREM CopiesConsistent == Spec => []SnapshotsConsistent
  <1>1. IInv => SnapshotsConsistent
    BY DEF IInv
  <1> QED
    BY <1>1, Invariance, PTL

\* The snapshot live is attached to is not touched while it is (7.6).
THEOREM SourceKeptThroughout == Spec => AttachedSourceKept
  <1>1. IInv /\ [Next]_vars => SourceKept
    BY SourceKeptStep
  <1>2. IInv /\ [Next]_vars
          => [origin # None => snapshots'[origin] = snapshots[origin]]_vars
    BY <1>1 DEF SourceKept
  <1> QED
    BY <1>2, Invariance, PTL DEF Spec, AttachedSourceKept

\* A commit that fails gives the old base back, unless the restoring write
\* fails as well (7.13).
THEOREM FailedCommitUndone == Spec => FailedCommitKeepsBase
  <1>1. IInv /\ [Next]_vars
          => [command = "commit" /\ pc' = "idle" /\ outcome' \in {"failed", "refused"}
              /\ faults' < 2 => base' = oldBase]_vars
    BY FailedCommitStep DEF FailedCommitKept
  <1> QED
    BY <1>1, Invariance, PTL DEF Spec, FailedCommitKeepsBase

\* The catalog implements SnapshotLibrary: snapshots appear and vanish whole,
\* never change in between, and one of them is always the base.
THEOREM Refinement == Spec => ImplementsLibrary
  <1>1. Init => Library!Init
    BY InitLibrary
  <1>2. IInv /\ [Next]_vars => [Library!Next]_(Library!vars)
    BY LibraryStep
  <1> QED
    BY <1>1, <1>2, Invariance, PTL DEF Spec, ImplementsLibrary, Library!Spec
===============================================================================
