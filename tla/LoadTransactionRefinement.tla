----------------------- MODULE LoadTransactionRefinement -----------------------
(***************************************************************************)
(* What a load promises over several steps: its reports are true, it       *)
(* deletes nothing a guest wrote before it commits, a wrong origin leaves  *)
(* evidence, and it implements the atomic load of LiveVM.  All four follow *)
(* from RInv, which adds to IInv what the recovery knows of the origin, of *)
(* the source and of the clone.                                            *)
(***************************************************************************)
EXTENDS LoadTransactionProofs

Clones == {Clone(s) : s \in Snapshots}

\* A temporary path holds part of a clone, or one that no guest ran on.
TempsAreClones == \A id \in Ids : temp[id] \in {None, Partial} \cup Clones

StepsOK ==
    /\ pc = "clone" => temp[tid] = None
    /\ pc \in {"clone", "copy", "begin"} => origin = before.origin
    /\ pc = "checkPrepared" => journal.phase = "prepared"
    /\ pc = "restore" => live = None
    /\ pc \in {"phaseDisplaced"} \cup InDisplaced \cup InActivated
         => pending[tid] = before.live
    /\ pc \in {"deletePending", "clear"} => temp[tid] = None
    /\ pc = "retire" => failed # {}

\* No guest session that is on the disk is ahead of the count.
RevisionsOK ==
    /\ live # None => live.rev <= writes
    /\ \A id \in Ids : pending[id] \in Content => pending[id].rev <= writes

\* What is left to undo: the origin until it was set, the live path until it
\* was displaced, and nothing once the recovery deletes its traces.
UndoOK ==
    Uncommitted =>
        /\ journal.prev = before.origin
        /\ journal.phase \in {"prepared", "displaced"} => origin = before.origin
        /\ journal.phase = "prepared" => live \in {None, before.live}
        /\ pc \in {"checkRestored", "restoreOrigin"} => live = before.live
        /\ pc \in {"deleteTemp", "deletePending", "clear"} =>
             live = before.live /\ origin = before.origin

\* A committed load is complete, and its command still knows what it loads.
CommitOK ==
    /\ pc \in InPrepared \cup InDisplaced \cup InActivated => journal.source = source
    /\ pc = "phaseCommitted" => origin = Attached(source)
    /\ journal # None /\ journal.phase = "committed" =>
         live = Clone(journal.source) /\ origin = Attached(journal.source)
    /\ pc = "reconcile" /\ caller # "command" => journal # None
    /\ pc \in ReconcileSteps /\ caller = "load" /\ journal # None =>
         journal.phase = "committed" /\ journal.source = source

NamesClone(o, bundle) == o.detached \/ o.source = bundle.from

\* Before anything was quarantined, the origin of a resolved live bundle, and
\* the one a load would go back to, names the snapshot it was cloned from.
OriginsOK ==
    failed = {} =>
        /\ NamesClone(before.origin, before.live)
        /\ journal = None /\ live # None => NamesClone(origin, live)

RInv ==
    /\ IInv
    /\ TempsAreClones
    /\ StepsOK
    /\ RevisionsOK
    /\ UndoOK
    /\ CommitOK
    /\ OriginsOK

-------------------------------------------------------------------------------
(* Every step is one of those that change the disk, or leaves it alone. *)

DiskStep ==
    \/ GuestWrite \/ CloneStarts \/ CloneEnds \/ BeginTransaction
    \/ MakePending \/ Displace \/ PhaseDisplaced \/ Activate \/ PhaseActivated
    \/ SetLiveOrigin \/ PhaseCommitted \/ Discard \/ Keep
    \/ SetAsideLive \/ Restore \/ RestoreOrigin
    \/ DeleteTemp \/ DeletePending \/ Clear \/ Quarantine \/ Retire

\* The steps that only look or decide.
ControlStep ==
    \/ BeginLoad \/ BeginStart \/ Launch \/ GuestStops \/ Crash
    \/ CheckLoad \/ Verify \/ Handler
    \/ ReadJournal \/ CheckCommitted \/ CheckPrepared \/ CheckRollback \/ CheckRestored

USE DEF Do, Fail, FailReconcile, Fault, NoFault, Goto, End, Reached, disk, process, bounds

LEMMA StepSplit == [Next]_vars => DiskStep \/ ControlStep \/ UNCHANGED vars
  BY DEF Next, CommandStep, LoadStep, ReconcileStep, DiskStep, ControlStep

LEMMA ControlKeepsDisk ==
    ControlStep => UNCHANGED disk /\ UNCHANGED writes /\ (CheckLoad \/ UNCHANGED before)
  BY DEF ControlStep, BeginLoad, BeginStart, BeginCommand, Launch, GuestStops,
     Crash, CheckLoad, Verify, Handler, ReadJournal, CheckCommitted,
     CheckPrepared, CheckRollback, CheckRestored

LEMMA InitRInv == Init => RInv
  <1> SUFFICES ASSUME Init PROVE RInv
    OBVIOUS
  <1>1. IInv
    BY InitIInv
  <1>2. TempsAreClones /\ RevisionsOK
    BY BoundsAssumption, MarksDistinct DEF Init, TempsAreClones, RevisionsOK, Clone, Content
  <1>3. StepsOK /\ UndoOK /\ CommitOK
    BY DEF Init, StepsOK, UndoOK, CommitOK, Uncommitted, InPrepared, InDisplaced,
       InActivated, ReconcileSteps
  <1>4. OriginsOK
    BY DEF Init, OriginsOK, NamesClone, Clone, Attached, Detached
  <1> QED
    BY <1>1, <1>2, <1>3, <1>4 DEF RInv

\* A clone is made where nothing was, and only a clone goes back to its path.
LEMMA TempsAreClonesStep == RInv /\ [Next]_vars => TempsAreClones'
  <1> SUFFICES ASSUME RInv, [Next]_vars PROVE TempsAreClones'
    OBVIOUS
  <1>a. /\ BundleTypes /\ LocalsOK /\ JournalOK /\ PathsOK /\ RollbackOK
        /\ TempsAreClones
    BY DEF RInv, IInv
  <1>1. CASE CloneStarts \/ CloneEnds
    BY <1>1, <1>a DEF CloneStarts, CloneEnds, TempsAreClones, Clones, BundleTypes,
       LocalsOK, LoadSteps
  <1>2. CASE Activate \/ Discard \/ Keep \/ DeleteTemp
    BY <1>2, <1>a DEF Activate, Discard, Keep, DeleteTemp, TempsAreClones, BundleTypes
  <1>3. CASE SetAsideLive
    <2>1. live \in {None} \cup Clones
      BY <1>3, <1>a, MarksDistinct DEF SetAsideLive, JournalOK, InRollback, PathsOK,
         RollbackOK, RollbackExists, Uncommitted, Clones
    <2> QED
      BY <1>3, <1>a, <2>1 DEF SetAsideLive, TempsAreClones, BundleTypes
  <1>4. CASE temp' = temp
    BY <1>4, <1>a DEF TempsAreClones
  <1>5. DiskStep => \/ CloneStarts \/ CloneEnds \/ Activate \/ Discard \/ Keep
                    \/ DeleteTemp \/ SetAsideLive \/ temp' = temp
    BY DEF DiskStep, GuestWrite, BeginTransaction, MakePending, Displace,
       PhaseDisplaced, PhaseActivated, SetPhase, SetLiveOrigin, PhaseCommitted,
       Restore, RestoreOrigin, DeletePending, Clear, Quarantine, Retire
  <1> QED
    BY <1>1, <1>2, <1>3, <1>4, <1>5, StepSplit, ControlKeepsDisk DEF vars

\* What a step finds at its paths besides PathsOK.
LEMMA StepsOKStep == RInv /\ [Next]_vars => StepsOK'
  <1> SUFFICES ASSUME RInv, [Next]_vars PROVE StepsOK'
    OBVIOUS
  <1>a. /\ BundleTypes /\ LocalsOK /\ JournalOK /\ PathsOK /\ RollbackOK
        /\ PendingIsJournaled /\ StepsOK
    BY DEF RInv, IInv
  <1> USE DEF StepsOK, InPrepared, InDisplaced, InActivated
  <1>1. ASSUME NEW s \in Snapshots \cup {None}, BeginCommand(s) PROVE StepsOK'
    BY <1>1 DEF BeginCommand
  <1>2. CASE Launch \/ GuestStops \/ Crash
    BY <1>2, <1>a DEF Launch, GuestStops, Crash
  <1>3. CASE GuestWrite
    <2>1. journal = None
      BY <1>3 DEF GuestWrite, RInv, IInv, NoGuestDuringTransaction
    <2> QED
      BY <1>3, <1>a, <2>1 DEF GuestWrite, JournalOK, PathsOK, InRollback
  <1>4. CASE CheckLoad \/ CloneStarts \/ CloneEnds \/ BeginTransaction \/ MakePending
    BY <1>4, <1>a DEF CheckLoad, CloneStarts, CloneEnds, BeginTransaction,
       MakePending, Fresh
  <1>5. CASE Displace
    BY <1>5, <1>a DEF Displace, PathsOK, LocalsOK, Identified, Steps,
       LoadSteps, BundleTypes
  <1>6. CASE PhaseDisplaced \/ Activate \/ PhaseActivated \/ SetLiveOrigin
             \/ Verify \/ PhaseCommitted
    BY <1>6, <1>a DEF PhaseDisplaced, Activate, PhaseActivated, SetPhase,
       SetLiveOrigin, Verify, PhaseCommitted
  <1>7. CASE Handler \/ Discard \/ Keep
    BY <1>7, <1>a DEF Handler, Discard, Keep
  <1>8. CASE ReadJournal \/ CheckCommitted \/ CheckPrepared \/ CheckRollback
             \/ CheckRestored
    BY <1>8, <1>a DEF ReadJournal, Finished, CheckCommitted, CheckPrepared,
       CheckRollback, CheckRestored, Exists
  <1>9. CASE SetAsideLive \/ Restore \/ RestoreOrigin
    BY <1>9, <1>a DEF SetAsideLive, Restore, RestoreOrigin
  <1>10. CASE DeleteTemp \/ DeletePending \/ Clear
    BY <1>10, <1>a, MarksDistinct DEF DeleteTemp, DeletePending, Clear, Finished,
       LocalsOK, Identified, Steps, LoadSteps, ReconcileSteps, BundleTypes
  <1>11. CASE Quarantine \/ Retire
    BY <1>11, <1>a DEF Quarantine, Retire, Raised
  <1>12. CASE UNCHANGED vars
    BY <1>12, <1>a DEF vars
  <1> QED
    BY <1>1, <1>2, <1>3, <1>4, <1>5, <1>6, <1>7, <1>8, <1>9, <1>10, <1>11, <1>12
       DEF Next, CommandStep, LoadStep, ReconcileStep, BeginLoad, BeginStart

\* A rename keeps the guest session, a clone has none, a guest counts its own.
LEMMA RevisionsOKStep == RInv /\ [Next]_vars => RevisionsOK'
  <1> SUFFICES ASSUME RInv, [Next]_vars PROVE RevisionsOK'
    OBVIOUS
  <1>a. /\ BundleTypes /\ LocalsOK /\ JournalOK /\ PathsOK /\ BoundTypes
        /\ TempsAreClones /\ RevisionsOK
    BY DEF RInv, IInv
  <1>b. writes \in Nat /\ \A n \in Nat : n <= n + 1
    BY <1>a, BoundsAssumption DEF BoundTypes
  <1>c. \A c \in Content : c.rev \in Nat
    BY DEF Content
  <1> USE DEF RevisionsOK
  <1>1. CASE GuestWrite
    BY <1>1, <1>a, <1>b, <1>c DEF GuestWrite, Content
  <1>2. CASE Displace \/ Restore
    BY <1>2, <1>a, <1>c, MarksDistinct DEF Displace, Restore, BundleTypes,
       PathsOK, LocalsOK, Identified, Steps, LoadSteps, ReconcileSteps
  <1>3. CASE Activate
    <2>1. temp[tid] = Clone(source) /\ source \in Snapshots
      BY <1>3, <1>a DEF Activate, PathsOK, LocalsOK, LoadSteps
    <2> QED
      BY <1>3, <1>a, <1>b, <2>1 DEF Activate, Clone
  <1>4. CASE SetAsideLive
    BY <1>4, <1>a DEF SetAsideLive
  <1>5. CASE MakePending \/ DeletePending \/ Quarantine
    BY <1>5, <1>a, MarksDistinct DEF MakePending, DeletePending, Quarantine,
       BundleTypes
  <1>6. CASE UNCHANGED <<live, pending, writes>>
    BY <1>6, <1>a
  <1>7. DiskStep => \/ GuestWrite \/ Displace \/ Restore \/ Activate \/ SetAsideLive
                    \/ MakePending \/ DeletePending \/ Quarantine
                    \/ UNCHANGED <<live, pending, writes>>
    BY DEF DiskStep, CloneStarts, CloneEnds, BeginTransaction, PhaseDisplaced,
       PhaseActivated, SetPhase, SetLiveOrigin, PhaseCommitted, Discard, Keep,
       RestoreOrigin, DeleteTemp, Clear, Retire
  <1> QED
    BY <1>1, <1>2, <1>3, <1>4, <1>5, <1>6, <1>7, StepSplit, ControlKeepsDisk DEF vars

\* A recovery goes back to the origin and the content of `before`.
LEMMA UndoOKStep == RInv /\ [Next]_vars => UndoOK'
  <1> SUFFICES ASSUME RInv, [Next]_vars PROVE UndoOK'
    OBVIOUS
  <1>a. /\ BundleTypes /\ RecordTypes /\ LocalsOK /\ JournalOK /\ PathsOK
        /\ RollbackOK /\ UndoOK /\ StepsOK
    BY DEF RInv, IInv
  <1> USE DEF UndoOK, Uncommitted
  <1>1. CASE GuestWrite \/ Launch \/ GuestStops \/ Crash
    <2>1. GuestWrite => journal = None
      BY DEF GuestWrite, RInv, IInv, NoGuestDuringTransaction
    <2> QED
      BY <1>1, <1>a, <2>1 DEF GuestWrite, Launch, GuestStops, Crash
  <1>2. CASE CheckLoad \/ CloneStarts \/ CloneEnds \/ Discard \/ Keep
    BY <1>2, <1>a DEF CheckLoad, CloneStarts, CloneEnds, Discard, Keep, JournalOK
  <1>3. CASE BeginTransaction
    <2>1. before.origin = origin /\ live = before.live
      BY <1>3, <1>a DEF BeginTransaction, StepsOK, PathsOK
    <2> QED
      BY <1>3, <1>a, <2>1, MarksDistinct DEF BeginTransaction, RecordTypes, Origin
  <1>4. CASE MakePending \/ Displace
    BY <1>4, <1>a DEF MakePending, Displace
  <1>5. CASE PhaseDisplaced \/ PhaseActivated \/ PhaseCommitted
    BY <1>5, <1>a DEF PhaseDisplaced, PhaseActivated, PhaseCommitted, SetPhase,
       JournalOK, InPrepared, InDisplaced, InActivated, RecordTypes, Journal, Phases
  <1>6. CASE Activate \/ SetLiveOrigin
    BY <1>6, <1>a DEF Activate, SetLiveOrigin, JournalOK, InDisplaced, InActivated
  <1>7. CASE SetAsideLive
    BY <1>7, <1>a DEF SetAsideLive
  <1>8. CASE Restore
    BY <1>8, <1>a, MarksDistinct DEF Restore, JournalOK, InRollback, PathsOK,
       RollbackOK, RollbackExists
  <1>9. CASE RestoreOrigin
    BY <1>9, <1>a DEF RestoreOrigin
  <1>10. CASE CheckPrepared \/ CheckCommitted
    BY <1>10, <1>a, MarksDistinct DEF CheckPrepared, CheckCommitted, Valid,
       JournalOK, StepsOK
  <1>11. CASE BeginLoad \/ BeginStart \/ Verify \/ Handler \/ ReadJournal
              \/ CheckRollback \/ CheckRestored
    BY <1>11, <1>a DEF BeginLoad, BeginStart, BeginCommand, Verify, Handler,
       ReadJournal, Finished, CheckRollback, CheckRestored
  <1>12. CASE DeleteTemp \/ DeletePending \/ Clear \/ Quarantine \/ Retire
    BY <1>12, <1>a DEF DeleteTemp, DeletePending, Clear, Finished, Quarantine,
       Retire, Raised
  <1>13. CASE UNCHANGED vars
    BY <1>13, <1>a DEF vars
  <1> QED
    BY <1>1, <1>2, <1>3, <1>4, <1>5, <1>6, <1>7, <1>8, <1>9, <1>10, <1>11, <1>12,
       <1>13, StepSplit DEF DiskStep, ControlStep

\* The commit is written when all is in place, and nothing changes after it.
LEMMA CommitOKStep == RInv /\ [Next]_vars => CommitOK'
  <1> SUFFICES ASSUME RInv, [Next]_vars PROVE CommitOK'
    OBVIOUS
  <1>a. /\ RecordTypes /\ LocalsOK /\ JournalOK /\ PathsOK /\ CommitOK
    BY DEF RInv, IInv
  <1> USE DEF CommitOK, InPrepared, InDisplaced, InActivated, ReconcileSteps
  <1>1. ASSUME NEW s \in Snapshots \cup {None}, BeginCommand(s) PROVE CommitOK'
    BY <1>1, <1>a DEF BeginCommand, LocalsOK
  <1>2. CASE GuestWrite \/ Launch \/ GuestStops \/ Crash
    <2>1. GuestWrite => journal = None
      BY DEF GuestWrite, RInv, IInv, NoGuestDuringTransaction
    <2>2. GuestWrite => pc \notin InPrepared \cup InDisplaced \cup InActivated
      BY <1>a, <2>1 DEF JournalOK
    <2> QED
      BY <1>2, <1>a, <2>1, <2>2 DEF GuestWrite, Launch, GuestStops, Crash
  <1>3. CASE CheckLoad \/ CloneStarts \/ CloneEnds \/ Discard \/ Keep
    BY <1>3, <1>a DEF CheckLoad, CloneStarts, CloneEnds, Discard, Keep, JournalOK
  <1>4. CASE BeginTransaction
    BY <1>4, <1>a DEF BeginTransaction, JournalOK, Journal
  <1>5. CASE MakePending \/ Displace \/ Activate \/ SetLiveOrigin
    BY <1>5, <1>a DEF MakePending, Displace, Activate, SetLiveOrigin, JournalOK
  <1>6. CASE PhaseDisplaced \/ PhaseActivated
    BY <1>6, <1>a DEF PhaseDisplaced, PhaseActivated, SetPhase, JournalOK,
       RecordTypes, Journal
  <1>7. CASE Verify \/ Handler
    BY <1>7, <1>a DEF Verify, Handler
  <1>8. CASE PhaseCommitted
    <2>1. /\ journal \in Journal /\ journal # None /\ journal.source = source
          /\ live = Clone(source) /\ origin = Attached(source) /\ caller = "command"
      BY <1>8, <1>a DEF PhaseCommitted, JournalOK, PathsOK, RecordTypes, LocalsOK, LoadSteps
    <2> DEFINE entry == [journal EXCEPT !.phase = "committed"]
    <2>2. entry.source = source /\ entry.phase = "committed"
      BY <2>1 DEF Journal
    <2>3. entry # None
      BY <2>1, PhaseType DEF Phases
    <2>4. journal' \in {journal, entry} /\ UNCHANGED <<live, origin, source>>
          /\ \/ journal' = entry /\ caller' = "load"
             \/ pc' = "handler" /\ caller' = caller
      BY <1>8 DEF PhaseCommitted
    <2> HIDE DEF entry
    <2> QED
      BY <1>8, <1>a, <2>1, <2>2, <2>3, <2>4
  <1>9. CASE ReadJournal
    BY <1>9, <1>a DEF ReadJournal, Finished, JournalOK
  <1>10. CASE CheckCommitted \/ CheckPrepared \/ CheckRollback \/ CheckRestored
              \/ DeleteTemp \/ DeletePending
    BY <1>10, <1>a DEF CheckCommitted, CheckPrepared, CheckRollback, CheckRestored,
       DeleteTemp, DeletePending
  <1>11. CASE SetAsideLive \/ Restore \/ RestoreOrigin
    BY <1>11, <1>a DEF SetAsideLive, Restore, RestoreOrigin, JournalOK, InRollback
  <1>12. CASE Clear \/ Quarantine \/ Retire
    BY <1>12, <1>a DEF Clear, Finished, Quarantine, Retire, Raised
  <1>13. CASE UNCHANGED vars
    BY <1>13, <1>a DEF vars
  <1> QED
    BY <1>1, <1>2, <1>3, <1>4, <1>5, <1>6, <1>7, <1>8, <1>9, <1>10, <1>11, <1>12,
       <1>13, StepSplit DEF DiskStep, ControlStep, BeginLoad, BeginStart

\* A journal is cleared when its load is undone or complete; a retired one
\* leaves something in `failed`.
LEMMA OriginsOKStep == RInv /\ [Next]_vars => OriginsOK'
  <1> SUFFICES ASSUME RInv, [Next]_vars PROVE OriginsOK'
    OBVIOUS
  <1>a. JournalOK /\ RecordTypes /\ UndoOK /\ CommitOK /\ StepsOK /\ OriginsOK
    BY DEF RInv, IInv
  <1> USE DEF OriginsOK, NamesClone
  <1>1. CASE GuestWrite
    <2>1. live # None /\ live'.from = live.from
      BY <1>1, MarksDistinct DEF GuestWrite, Content
    <2> QED
      BY <1>1, <1>a, <2>1 DEF GuestWrite
  <1>2. CASE CheckLoad
    BY <1>2, <1>a, MarksDistinct DEF CheckLoad, Valid, JournalOK
  <1>3. CASE BeginTransaction
    BY <1>3, <1>a DEF BeginTransaction
  <1>4. CASE Displace \/ Activate \/ SetLiveOrigin \/ SetAsideLive \/ Restore
             \/ RestoreOrigin
    <2>1. journal # None
      BY <1>4, <1>a DEF Displace, Activate, SetLiveOrigin, SetAsideLive, Restore,
         RestoreOrigin, JournalOK, InPrepared, InDisplaced, InActivated, InRollback
    <2> QED
      BY <1>4, <1>a, <2>1 DEF Displace, Activate, SetLiveOrigin, SetAsideLive,
         Restore, RestoreOrigin
  <1>5. CASE PhaseDisplaced \/ PhaseActivated \/ PhaseCommitted
    <2>1. journal \in Journal /\ journal # None
      BY <1>5, <1>a DEF PhaseDisplaced, PhaseActivated, PhaseCommitted, SetPhase,
         RecordTypes, JournalOK, InPrepared, InDisplaced, InActivated
    <2>2. journal' # None
      <3>1. \A p \in Phases : [journal EXCEPT !.phase = p] # None
        BY <2>1, PhaseType
      <3> QED
        BY <1>5, <2>1, <3>1 DEF PhaseDisplaced, PhaseActivated, PhaseCommitted,
           SetPhase, Phases
    <2> QED
      BY <1>5, <1>a, <2>2 DEF PhaseDisplaced, PhaseActivated, PhaseCommitted, SetPhase
  <1>6. CASE Clear
    <2>1. journal # None
      BY <1>6, <1>a DEF Clear, JournalOK
    <2>2. Uncommitted => live = before.live /\ origin = before.origin
      BY <1>6, <1>a DEF Clear, UndoOK
    <2>3. ~Uncommitted => live = Clone(journal.source) /\ origin = Attached(journal.source)
      BY <1>6, <1>a, <2>1 DEF CommitOK, Uncommitted
    <2> QED
      BY <1>6, <1>a, <2>2, <2>3 DEF Clear, Clone, Attached
  <1>7. CASE Retire
    BY <1>7, <1>a DEF Retire, StepsOK
  <1>8. CASE Keep \/ Quarantine
    BY <1>8, <1>a DEF Keep, Quarantine
  <1>9. CASE UNCHANGED <<live, origin, journal, failed, before>>
    BY <1>9, <1>a
  <1>10. DiskStep => \/ GuestWrite \/ BeginTransaction \/ Displace \/ Activate
                     \/ SetLiveOrigin \/ SetAsideLive \/ Restore \/ RestoreOrigin
                     \/ PhaseDisplaced \/ PhaseActivated \/ PhaseCommitted
                     \/ Clear \/ Retire \/ Keep \/ Quarantine
                     \/ UNCHANGED <<live, origin, journal, failed, before>>
    BY DEF DiskStep, CloneStarts, CloneEnds, MakePending, Discard, DeleteTemp,
       DeletePending
  <1> QED
    BY <1>1, <1>2, <1>3, <1>4, <1>5, <1>6, <1>7, <1>8, <1>9, <1>10, StepSplit,
       ControlKeepsDisk DEF vars

LEMMA NextRInv == RInv /\ [Next]_vars => RInv'
  BY NextIInv, TempsAreClonesStep, StepsOKStep, RevisionsOKStep, UndoOKStep,
     CommitOKStep, OriginsOKStep DEF RInv

\* What the recovery knows of origin, source and clone holds at every step.
THEOREM RecoveryKnows == Spec => []RInv
  BY InitRInv, NextRInv, PTL DEF Spec

\* A load that neither came back nor completed, and left live.json naming
\* another snapshot than the live bundle's, is seen under recovery/failed.
THEOREM WrongOriginIsSeen == Spec => []WrongOriginLeavesEvidence
  <1>1. RInv => WrongOriginLeavesEvidence
    BY DEF RInv, OriginsOK, NamesClone, WrongOriginLeavesEvidence
  <1> QED
    BY <1>1, RecoveryKnows, PTL

-------------------------------------------------------------------------------
(* Reports: "loaded" and "restored" are said by the step that clears the    *)
(* journal, and by no other.                                                *)

LEMMA OnlyClearReports ==
    ASSUME RInv, [Next]_vars, pc # "idle", pc' = "idle",
           outcome' \in {"loaded", "restored"}
    PROVE  /\ Clear /\ journal' = None
           /\ outcome' = "loaded" => caller = "load"
           /\ outcome' = "restored" => Uncommitted
  <1>a. CommitOK /\ LocalsOK
    BY DEF RInv, IInv
  <1>1. CASE BeginLoad \/ BeginStart \/ GuestWrite \/ GuestStops \/ UNCHANGED vars
    BY <1>1 DEF BeginLoad, BeginStart, BeginCommand, GuestWrite, GuestStops, vars
  <1>2. CASE Launch \/ Crash \/ CheckLoad \/ CloneStarts \/ CloneEnds
             \/ BeginTransaction \/ MakePending \/ Displace \/ PhaseDisplaced
    BY <1>2 DEF Launch, Crash, CheckLoad, CloneStarts, CloneEnds, BeginTransaction,
       MakePending, Displace, PhaseDisplaced, SetPhase
  <1>3. CASE Activate \/ PhaseActivated \/ SetLiveOrigin \/ Verify \/ PhaseCommitted
             \/ Handler \/ Discard \/ Keep
    BY <1>3 DEF Activate, PhaseActivated, SetPhase, SetLiveOrigin, Verify,
       PhaseCommitted, Handler, Discard, Keep
  <1>4. CASE ReadJournal
    BY <1>4, <1>a DEF ReadJournal, Finished, CommitOK, Uncommitted
  <1>5. CASE CheckCommitted \/ CheckPrepared \/ CheckRollback \/ SetAsideLive
             \/ Restore \/ CheckRestored \/ RestoreOrigin
    BY <1>5 DEF CheckCommitted, CheckPrepared, CheckRollback, SetAsideLive,
       Restore, CheckRestored, RestoreOrigin
  <1>6. CASE DeleteTemp \/ DeletePending \/ Quarantine \/ Retire
    BY <1>6 DEF DeleteTemp, DeletePending, Quarantine, Retire, Raised
  <1>7. CASE Clear
    BY <1>7 DEF Clear, Finished
  <1> QED
    BY <1>1, <1>2, <1>3, <1>4, <1>5, <1>6, <1>7, StepSplit DEF DiskStep, ControlStep

LEMMA ReportStep ==
    ASSUME RInv, [Next]_vars, pc # "idle", pc' = "idle"
    PROVE  /\ outcome' = "loaded" =>
                /\ live' = Clone(source) /\ origin' = Attached(source)
                /\ journal' = None /\ temp'[tid] = None /\ pending'[tid] = None
           /\ outcome' = "restored" =>
                /\ live' = before.live /\ origin' = before.origin
                /\ journal' = None /\ temp'[tid] = None /\ pending'[tid] = None
  <1> SUFFICES ASSUME outcome' \in {"loaded", "restored"}
               PROVE  /\ journal' = None /\ temp'[tid] = None /\ pending'[tid] = None
                      /\ outcome' = "loaded" =>
                            live' = Clone(source) /\ origin' = Attached(source)
                      /\ outcome' = "restored" =>
                            live' = before.live /\ origin' = before.origin
    OBVIOUS
  <1>1. /\ pc = "clear" /\ journal' = None /\ UNCHANGED <<live, origin, temp, pending>>
        /\ outcome' = "loaded" => caller = "load"
        /\ outcome' = "restored" => Uncommitted
    BY OnlyClearReports DEF Clear
  <1>2. temp[tid] = None /\ pending[tid] = None
    BY <1>1 DEF RInv, IInv, StepsOK, PathsOK
  <1>3. caller = "load" => live = Clone(source) /\ origin = Attached(source)
    BY <1>1 DEF RInv, IInv, CommitOK, ReconcileSteps, JournalOK
  <1>4. Uncommitted => live = before.live /\ origin = before.origin
    BY <1>1 DEF RInv, UndoOK
  <1> QED
    BY <1>1, <1>2, <1>3, <1>4

\* A command that says "Loaded snapshot" has loaded it, and one that says
\* "Previous live VM restored" has restored content and origin.
THEOREM ReportsTellTruth == Spec => ReportsAreTrue
  <1>1. RInv /\ [Next]_vars =>
          [pc # "idle" /\ pc' = "idle" =>
            /\ outcome' = "loaded" =>
                  /\ live' = Clone(source) /\ origin' = Attached(source)
                  /\ journal' = None /\ temp'[tid] = None /\ pending'[tid] = None
            /\ outcome' = "restored" =>
                  /\ live' = before.live /\ origin' = before.origin
                  /\ journal' = None /\ temp'[tid] = None /\ pending'[tid] = None
          ]_vars
    BY ReportStep
  <1> QED
    BY <1>1, RecoveryKnows, PTL DEF Spec, ReportsAreTrue

-------------------------------------------------------------------------------
(* Deletion: a rename keeps a bundle, a deletion takes a clone, or the      *)
(* rollback bundle of a load that has committed.                            *)

\* A clone holds nothing a guest wrote.
LEMMA ClonesAreUnwritten == \A c \in Clones : c.rev = 0
  BY DEF Clones, Clone

\* Where a bundle can be, written for one bundle.
LEMMA OnDiskAt ==
    ASSUME NEW c
    PROVE  c \in OnDisk <=> \/ c = live \/ c \in failed
                            \/ \E id \in Ids : c = temp[id] \/ c = pending[id]
  BY DEF OnDisk

LEMMA DeletionStep ==
    ASSUME RInv, [Next]_vars, NEW c \in OnDisk \cap Content, c.rev > 0, c \notin OnDisk'
    PROVE  \/ runner = "running" /\ live = c
           \/ /\ journal # None /\ journal.phase = "committed"
              /\ pending[journal.id] = c
  <1>a. /\ BundleTypes /\ LocalsOK /\ JournalOK /\ PathsOK /\ TempsAreClones /\ StepsOK
        /\ PendingIsJournaled
    BY DEF RInv, IInv
  <1>b. /\ c \in Content /\ c \notin {None, Partial, Empty}
        /\ \A id \in Ids : temp[id] # c
        /\ c = live \/ c \in failed \/ \E id \in Ids : c = pending[id]
    <2>1. \A id \in Ids : temp[id] \in Content => temp[id].rev = 0
      BY <1>a, ClonesAreUnwritten, MarksDistinct DEF TempsAreClones
    <2> QED
      BY <2>1, OnDiskAt, MarksDistinct
  <1>c. /\ c # live' /\ c \notin failed'
        /\ \A id \in Ids : c # temp'[id] /\ c # pending'[id]
    BY DEF OnDisk
  <1>1. CASE GuestWrite
    BY <1>1, <1>b, <1>c DEF GuestWrite
  <1>2. CASE MakePending
    BY <1>2, <1>a, <1>b, <1>c DEF MakePending, PathsOK, BundleTypes
  <1>3. CASE Displace
    BY <1>3, <1>a, <1>b, <1>c DEF Displace, PathsOK, LocalsOK, Identified, Steps,
       LoadSteps, BundleTypes
  <1>4. CASE Activate
    BY <1>4, <1>a, <1>b, <1>c DEF Activate, PathsOK
  <1>5. CASE SetAsideLive
    BY <1>5, <1>a, <1>b, <1>c DEF SetAsideLive, BundleTypes, LocalsOK, Identified,
       Steps, ReconcileSteps
  <1>6. CASE Restore
    BY <1>6, <1>a, <1>b, <1>c DEF Restore, StepsOK, BundleTypes
  <1>7. CASE DeletePending
    <2>1. journal # None /\ journal.id = tid
      BY <1>7, <1>a DEF DeletePending, JournalOK
    <2>2. pending[tid] = c
      BY <1>7, <1>a, <1>b, <1>c DEF DeletePending, BundleTypes
    <2>3. ~Uncommitted
      BY <1>7, <1>a, <1>b, <2>2 DEF DeletePending, PathsOK
    <2> QED
      BY <2>1, <2>2, <2>3 DEF Uncommitted
  <1>8. CASE Quarantine
    BY <1>8, <1>a, <1>b, <1>c DEF Quarantine, BundleTypes
  <1>9. CASE UNCHANGED <<live, pending>> /\ failed \subseteq failed'
    BY <1>9, <1>b, <1>c
  <1>10. DiskStep => \/ GuestWrite \/ MakePending \/ Displace \/ Activate
                     \/ SetAsideLive \/ Restore \/ DeletePending \/ Quarantine
                     \/ UNCHANGED <<live, pending>> /\ failed \subseteq failed'
    BY DEF DiskStep, CloneStarts, CloneEnds, BeginTransaction, PhaseDisplaced,
       PhaseActivated, SetPhase, SetLiveOrigin, PhaseCommitted, Discard, Keep,
       RestoreOrigin, DeleteTemp, Clear, Retire
  <1> QED
    BY <1>1, <1>2, <1>3, <1>4, <1>5, <1>6, <1>7, <1>8, <1>9, <1>10, StepSplit,
       ControlKeepsDisk DEF vars

\* What a guest wrote disappears only when the guest overwrites it or after the
\* load that replaced it has committed.
THEOREM DeletionWaitsForCommit == Spec => DeletedOnlyAfterCommit
  <1>1. RInv /\ [Next]_vars =>
          [\A c \in OnDisk \cap Content :
              c.rev > 0 /\ c \notin OnDisk' =>
                  \/ runner = "running" /\ live = c
                  \/ /\ journal # None /\ journal.phase = "committed"
                     /\ pending[journal.id] = c
          ]_vars
    BY DeletionStep
  <1> QED
    BY <1>1, RecoveryKnows, PTL DEF Spec, DeletedOnlyAfterCommit

-------------------------------------------------------------------------------
(* Refinement: the load takes effect when the journal says "committed". *)

LEMMA InitAbstract == Init => Abstract!Init
  BY DEF Init, Abstract!Init, Abstract!Clone, Clone, LogicalLive, Uncommitted

\* A step of LiveVM that only archives something.
LEMMA PreserveStep ==
    ASSUME NEW c \in Content \cup {Partial, Empty}, failed' = failed \cup {c},
           LogicalLive' = LogicalLive
    PROVE  Abstract!Next
  BY DEF Abstract!Next, Abstract!Preserve, Abstract!Content, Content

LEMMA AbstractStep == RInv /\ [Next]_vars => Abstract!Next \/ UNCHANGED Abstract!vars
  <1> SUFFICES ASSUME RInv, [Next]_vars PROVE Abstract!Next \/ UNCHANGED Abstract!vars
    OBVIOUS
  <1>a. /\ BundleTypes /\ RecordTypes /\ BoundTypes /\ LocalsOK /\ JournalOK
        /\ PathsOK /\ RollbackOK /\ PendingIsJournaled
        /\ StepsOK /\ RevisionsOK /\ UndoOK /\ CommitOK
    BY DEF RInv, IInv
  <1>b. ASSUME UNCHANGED <<LogicalLive, failed>> PROVE UNCHANGED Abstract!vars
    BY <1>b DEF Abstract!vars
  <1>1. CASE GuestWrite
    <2>1. journal = None
      BY <1>1 DEF GuestWrite, RInv, IInv, NoGuestDuringTransaction
    <2>2. LogicalLive = live /\ LogicalLive' = live'
      BY <1>1, <2>1 DEF GuestWrite, LogicalLive, Uncommitted
    <2>3. /\ live \in Content /\ live' \in Content
          /\ live'.from = live.from /\ live'.rev = writes + 1
      BY <1>1, <1>a, BoundsAssumption DEF GuestWrite, BoundTypes, Content
    <2>4. live'.rev > live.rev
      BY <1>a, <2>3, MarksDistinct, BoundsAssumption DEF RevisionsOK, BoundTypes, Content
    <2>5. failed' = failed
      BY <1>1 DEF GuestWrite
    <2> QED
      BY <2>2, <2>3, <2>4, <2>5 DEF Abstract!Next, Abstract!Write, Abstract!Content, Content
  <1>2. CASE BeginTransaction
    <2>1. journal = None => pending[tid] = None
      BY <1>2, <1>a DEF BeginTransaction, PendingIsJournaled, LocalsOK, Identified,
         Steps, LoadSteps
    <2>2. journal' # None => journal' = journal \/ journal'.id = tid
      BY <1>2 DEF BeginTransaction
    <2> QED
      BY <1>2, <1>b, <2>1, <2>2 DEF BeginTransaction, LogicalLive, Uncommitted,
         RollbackExists
  <1>3. CASE MakePending
    <2>1. journal # None /\ journal.id = tid /\ tid \in Ids /\ pending[tid] = None
      BY <1>3, <1>a DEF MakePending, JournalOK, InPrepared, PathsOK, LocalsOK,
         Identified, Steps, LoadSteps
    <2>2. ~RollbackExists(tid) /\ ~RollbackExists(tid)'
      BY <1>3, <1>a, <2>1 DEF MakePending, RollbackExists, BundleTypes
    <2> QED
      BY <1>3, <1>b, <2>1, <2>2 DEF MakePending, LogicalLive, Uncommitted
  <1>4. CASE Displace
    <2>1. /\ journal # None /\ journal.id = tid /\ journal.phase = "prepared"
          /\ tid \in Ids /\ pending[tid] = Empty /\ live \in Content
      BY <1>4, <1>a DEF Displace, JournalOK, InPrepared, PathsOK, LocalsOK,
         Identified, Steps, LoadSteps, RecordTypes
    <2>2. LogicalLive = live
      BY <2>1 DEF LogicalLive, RollbackExists
    <2>3. LogicalLive' = live
      <3>1. UNCHANGED journal /\ Uncommitted
        BY <1>4, <2>1 DEF Displace, Uncommitted
      <3>2. CASE pending' = [pending EXCEPT ![tid] = live]
        BY <1>a, <2>1, <3>1, <3>2, MarksDistinct DEF LogicalLive, Uncommitted,
           RollbackExists, BundleTypes
      <3>3. CASE UNCHANGED <<pending, live>>
        BY <2>2, <3>1, <3>3 DEF LogicalLive, Uncommitted, RollbackExists
      <3> QED
        BY <1>4, <3>2, <3>3 DEF Displace
    <2> QED
      BY <1>4, <1>b, <2>2, <2>3 DEF Displace
  <1>5. CASE PhaseDisplaced \/ PhaseActivated
    <2>1. /\ journal \in Journal /\ journal # None /\ journal.phase # "committed"
          /\ UNCHANGED <<live, pending, failed>>
      BY <1>5, <1>a DEF PhaseDisplaced, PhaseActivated, SetPhase, RecordTypes,
         JournalOK, InPrepared, InDisplaced, InActivated
    <2>2. journal' # None /\ journal'.phase # "committed" /\ journal'.id = journal.id
      <3>1. \A p \in Phases : LET k == [journal EXCEPT !.phase = p]
                              IN  k # None /\ k.phase = p /\ k.id = journal.id
        BY <2>1, PhaseType
      <3> QED
        BY <1>5, <2>1, <3>1 DEF PhaseDisplaced, PhaseActivated, SetPhase, Phases
    <2> QED
      BY <1>b, <2>1, <2>2 DEF LogicalLive, Uncommitted, RollbackExists
  <1>6. CASE Activate \/ SetAsideLive
    <2>1. /\ journal # None /\ journal.id = tid /\ journal.phase # "committed"
          /\ pending[tid] \in Content /\ UNCHANGED <<pending, journal, failed>>
      BY <1>6, <1>a DEF Activate, SetAsideLive, JournalOK, InDisplaced, InRollback,
         StepsOK, PathsOK, RecordTypes
    <2> QED
      BY <1>b, <2>1, MarksDistinct DEF LogicalLive, Uncommitted, RollbackExists
  <1>7. CASE PhaseCommitted
    <2>1. /\ live = Clone(source) /\ source \in Snapshots /\ journal \in Journal
          /\ UNCHANGED <<live, pending, failed>>
      BY <1>7, <1>a DEF PhaseCommitted, PathsOK, InActivated, LocalsOK, LoadSteps,
         RecordTypes, JournalOK
    <2>2. CASE journal' = [journal EXCEPT !.phase = "committed"]
      <3>1. LogicalLive' = Clone(source)
        BY <2>1, <2>2 DEF LogicalLive, Uncommitted, Journal
      <3> QED
        BY <2>1, <3>1 DEF Abstract!Next, Abstract!Load, Abstract!Clone, Clone
    <2>3. CASE UNCHANGED journal
      BY <1>b, <2>1, <2>3 DEF LogicalLive, Uncommitted, RollbackExists
    <2> QED
      BY <1>7, <2>2, <2>3 DEF PhaseCommitted
  <1>8. CASE Restore
    <2>1. /\ journal # None /\ journal.id = tid /\ journal.phase # "committed"
          /\ tid \in Ids /\ pending[tid] \in Content /\ UNCHANGED <<journal, failed>>
      BY <1>8, <1>a DEF Restore, JournalOK, InRollback, PathsOK, LocalsOK,
         Identified, Steps, ReconcileSteps
    <2>2. LogicalLive = pending[tid]
      BY <2>1, MarksDistinct DEF LogicalLive, Uncommitted, RollbackExists
    <2>3. LogicalLive' = pending[tid]
      <3>1. CASE live' = pending[tid] /\ pending' = [pending EXCEPT ![tid] = Empty]
        BY <1>a, <2>1, <3>1 DEF LogicalLive, RollbackExists, BundleTypes
      <3>2. CASE UNCHANGED <<live, pending>>
        BY <2>1, <2>2, <3>2 DEF LogicalLive, Uncommitted, RollbackExists
      <3> QED
        BY <1>8, <3>1, <3>2 DEF Restore
    <2> QED
      BY <1>b, <2>1, <2>2, <2>3
  <1>9. CASE DeletePending
    <2>1. /\ journal # None /\ journal.id = tid /\ tid \in Ids
          /\ UNCHANGED <<live, journal, failed>>
      BY <1>9, <1>a DEF DeletePending, JournalOK, LocalsOK, Identified, Steps,
         ReconcileSteps
    <2>2. CASE Uncommitted
      <3>1. pending[tid] \in {None, Empty} /\ pending'[tid] \in {None, Empty}
        BY <1>9, <1>a, <2>1, <2>2, MarksDistinct DEF DeletePending, PathsOK, Valid,
           BundleTypes
      <3> QED
        BY <1>b, <2>1, <3>1 DEF LogicalLive, RollbackExists
    <2>3. CASE ~Uncommitted
      BY <1>b, <2>1, <2>3 DEF LogicalLive, Uncommitted
    <2> QED
      BY <2>2, <2>3
  <1>10. CASE Clear \/ Retire
    <2>1. /\ pending[tid] = None /\ journal # None => journal.id = tid
          /\ journal' \in {journal, None} /\ UNCHANGED <<live, pending, failed>>
      BY <1>10, <1>a DEF Clear, Retire, PathsOK, JournalOK
    <2> QED
      BY <1>b, <1>10, <1>a, <2>1 DEF LogicalLive, Uncommitted, RollbackExists,
         Clear, Retire, JournalOK, PathsOK
  <1>11. CASE Keep
    <2>1. UNCHANGED <<live, pending, journal>> /\ tid \in Ids
          /\ temp[tid] \in Content \cup {Partial}
      BY <1>11, <1>a DEF Keep, PathsOK, LocalsOK, Identified, Steps, LoadSteps,
         BundleTypes
    <2>2. UNCHANGED LogicalLive
      BY <2>1 DEF LogicalLive, Uncommitted, RollbackExists
    <2> QED
      BY <1>11, <1>b, <2>1, <2>2, PreserveStep DEF Keep
  <1>12. CASE Quarantine
    <2>1. CASE UNCHANGED <<failed, pending>>
      BY <1>12, <1>b, <2>1 DEF Quarantine, LogicalLive, Uncommitted, RollbackExists
    <2>2. CASE /\ failed' = failed \cup {IF pending[tid] # None THEN pending[tid] ELSE Empty}
               /\ pending' = [pending EXCEPT ![tid] = None]
      <3>1. /\ tid \in Ids /\ UNCHANGED <<live, journal>>
            /\ journal # None => journal.id = tid
        BY <1>12, <1>a DEF Quarantine, LocalsOK, Identified, Steps, ReconcileSteps,
           JournalOK
      <3>2. pending'[tid] = None /\ pending[tid] \in Content \cup Marks
        BY <1>a, <2>2, <3>1 DEF BundleTypes
      <3>3. LogicalLive' = live
        BY <3>1, <3>2 DEF LogicalLive, Uncommitted, RollbackExists
      <3>4. CASE Uncommitted /\ RollbackExists(journal.id)
        <4>1. /\ LogicalLive = pending[tid] /\ pending[tid] = before.live
              /\ live \in {None} \cup Clones
          BY <1>a, <3>1, <3>4 DEF LogicalLive, RollbackOK, Uncommitted, Clones
        <4>2. pending[tid] \in Content /\ pending[tid] # None
          BY <1>a, <4>1, MarksDistinct DEF RecordTypes
        <4>3. LogicalLive \in Content /\ failed' = failed \cup {LogicalLive}
          BY <2>2, <4>1, <4>2
        <4> QED
          BY <3>3, <4>1, <4>3 DEF Abstract!Next, Abstract!SetAside, Abstract!Content,
             Abstract!Clone, Content, Clones, Clone
      <3>5. CASE ~(Uncommitted /\ RollbackExists(journal.id))
        <4>1. UNCHANGED LogicalLive
          BY <3>3, <3>5 DEF LogicalLive
        <4> QED
          BY <2>2, <3>2, <4>1, PreserveStep DEF Marks
      <3> QED
        BY <3>4, <3>5
    <2> QED
      BY <1>12, <2>1, <2>2 DEF Quarantine
  <1>13. CASE UNCHANGED <<live, pending, journal, failed>>
    BY <1>13, <1>b DEF LogicalLive, Uncommitted, RollbackExists
  <1>14. DiskStep => \/ GuestWrite \/ BeginTransaction \/ MakePending \/ Displace
                     \/ PhaseDisplaced \/ PhaseActivated \/ Activate \/ SetAsideLive
                     \/ PhaseCommitted \/ Restore \/ DeletePending \/ Clear \/ Retire
                     \/ Keep \/ Quarantine
                     \/ UNCHANGED <<live, pending, journal, failed>>
    BY DEF DiskStep, CloneStarts, CloneEnds, SetLiveOrigin, Discard, RestoreOrigin,
       DeleteTemp
  <1> QED
    BY <1>1, <1>2, <1>3, <1>4, <1>5, <1>6, <1>7, <1>8, <1>9, <1>10, <1>11, <1>12,
       <1>13, <1>14, StepSplit, ControlKeepsDisk DEF vars

\* To whoever looks at the live VM, through the recovery if it must, a load is
\* one step, or leaves what it displaced in the archive.
THEOREM Refinement == Spec => ImplementsLiveVM
  <1>1. Init => Abstract!Init
    BY InitAbstract
  <1>2. RInv /\ [Next]_vars => [Abstract!Next]_(Abstract!vars)
    BY AbstractStep
  <1> QED
    BY <1>1, <1>2, RecoveryKnows, PTL DEF Spec, ImplementsLiveVM, Abstract!Spec
===============================================================================
