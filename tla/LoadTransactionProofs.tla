------------------------- MODULE LoadTransactionProofs -------------------------
(***************************************************************************)
(* Type correctness, NothingLost and the other invariants of               *)
(* LoadTransaction, for every set of snapshots and identifiers and every   *)
(* bound, by the inductive invariant IInv.                                 *)
(***************************************************************************)
EXTENDS LoadTransaction, TLAPS

\* The steps at which the command has an identifier of its own.
Identified == Steps \ {"idle", "launch", "check", "reconcile"}

\* The steps of a load between begin_transaction and the commit, by the phase
\* the journal is in.
InPrepared == {"makePending", "displace", "phaseDisplaced"}
InDisplaced == {"activate", "phaseActivated"}
InActivated == {"setOrigin", "verify", "phaseCommitted"}

\* Steps of the recovery of an uncommitted transaction.
InRollback == {"checkRollback", "setAsideLive", "restore", "checkRestored",
               "restoreOrigin", "checkPrepared"}

LocalsOK ==
    /\ pc \in Identified => tid \in Ids
    /\ pc \in LoadSteps => source \in Snapshots
    /\ pc = "idle" => caller = "command"
    /\ caller # "command" => source \in Snapshots
    /\ pc \in LoadSteps \ {"handler", "discard", "keep"} => caller = "command"

JournalOK ==
    /\ pc \in {"check", "clone", "copy", "begin", "discard", "keep", "launch"}
         => journal = None
    /\ pc \in InPrepared \cup InDisplaced \cup InActivated
         => journal # None /\ journal.id = tid
    /\ pc \in InPrepared => journal.phase = "prepared"
    /\ pc \in InDisplaced => journal.phase = "displaced"
    /\ pc \in InActivated => journal.phase = "activated"
    /\ pc \in InRollback \cup {"checkCommitted", "deleteTemp", "deletePending", "clear"}
         => journal # None /\ journal.id = tid
    /\ pc \in {"quarantine", "retire"} /\ journal # None => journal.id = tid
    /\ pc \in InRollback => journal.phase # "committed"
    /\ pc = "checkCommitted" => journal.phase = "committed"

PathsOK ==
    /\ pc \in {"clone", "copy", "begin", "makePending", "displace"} => live = before.live
    /\ pc \in {"clone", "copy", "begin"} => runner = "stopped"
    /\ pc \in {"begin", "makePending", "displace", "phaseDisplaced", "activate"}
         => temp[tid] = Clone(source)
    /\ pc \in {"discard", "keep"} => temp[tid] # None
    /\ pc = "makePending" => pending[tid] = None
    /\ pc = "displace" => pending[tid] = Empty
    /\ pc \in {"phaseDisplaced", "activate"} => live = None
    /\ pc \in InActivated \cup {"phaseActivated"} => live = Clone(source)
    /\ pc \in {"setAsideLive", "restore"} => pending[tid] \in Content
    /\ /\ pc \in {"checkRestored", "restoreOrigin", "checkPrepared",
                  "deleteTemp", "deletePending"}
       /\ Uncommitted
       => pending[tid] \in {None, Empty}
    /\ pc \in {"clear", "retire"} => pending[tid] = None

\* A rollback bundle of an uncommitted transaction is what was live before it,
\* and beside it the live path holds the new clone or nothing.
RollbackOK ==
    Uncommitted /\ RollbackExists(journal.id) =>
        /\ pending[journal.id] = before.live
        /\ live \in {None} \cup {Clone(s) : s \in Snapshots}

IInv ==
    /\ BundleTypes
    /\ RecordTypes
    /\ ProcessTypes
    /\ BoundTypes
    /\ LocalsOK
    /\ JournalOK
    /\ PathsOK
    /\ RollbackOK
    /\ PendingIsJournaled
    /\ NothingLost
    /\ NoGuestDuringTransaction

-------------------------------------------------------------------------------

\* The records the actions build have their types, and None is none of them.
LEMMA CloneType == \A s \in Snapshots : Clone(s) \in Content
  BY DEF Clone, Content

LEMMA AttachedType == \A s \in Snapshots : Attached(s) \in Origin
  BY DEF Attached, Origin

LEMMA RevisionType ==
    \A c \in Content, n \in Nat : [c EXCEPT !.rev = n] \in Content
  BY DEF Content

LEMMA MarksDistinct ==
    /\ None \notin Content /\ Partial \notin Content /\ Empty \notin Content
    /\ None \notin Journal /\ None \notin Ids /\ None \notin Snapshots
    /\ None # Partial /\ None # Empty /\ Partial # Empty
  BY MarksAssumption DEF Marks

LEMMA PhaseType ==
    \A j \in Journal, p \in Phases :
        LET k == [j EXCEPT !.phase = p]
        IN  /\ k \in Journal /\ k # None /\ k.phase = p
            /\ k.id = j.id /\ k.prev = j.prev
  BY MarksDistinct DEF Journal

LEMMA InitIInv == Init => IInv
  BY MarksDistinct, BoundsAssumption, CloneType DEF Init, IInv,
     BundleTypes, RecordTypes, ProcessTypes, BoundTypes, LocalsOK, JournalOK,
     PathsOK, RollbackOK, PendingIsJournaled, NothingLost, NoGuestDuringTransaction,
     Uncommitted, Identified, InPrepared, InDisplaced, InActivated, InRollback,
     Steps, LoadSteps, ReconcileSteps, Origin, Attached, Detached, Marks

\* The identifier and the source a step uses are set.
LEMMA LocalsOKStep == IInv /\ [Next]_vars => LocalsOK'
  <1> SUFFICES ASSUME IInv, [Next]_vars PROVE LocalsOK'
    OBVIOUS
  <1>a. LocalsOK /\ RecordTypes /\ ProcessTypes
    BY DEF IInv
  <1>1. ASSUME NEW s \in Snapshots \cup {None}, BeginCommand(s) PROVE
     LocalsOK'
    BY <1>1, <1>a DEF BeginCommand, Reached, disk, process, bounds, LocalsOK,
       Identified, Steps, LoadSteps, ReconcileSteps, ProcessTypes
  <1>2. CASE Launch \/ GuestWrite \/ GuestStops \/ Crash
    BY <1>2, <1>a DEF Launch, GuestWrite, GuestStops, Crash, End, Valid, disk,
       bounds, LocalsOK, Identified, Steps, LoadSteps, ReconcileSteps,
       ProcessTypes, process
  <1>3. CASE CheckLoad \/ CloneStarts \/ CloneEnds \/ BeginTransaction \/
     MakePending
    BY <1>3, <1>a DEF CheckLoad, CloneStarts, CloneEnds, BeginTransaction,
       MakePending, End, Reached, Valid, Fresh, disk, LocalsOK, Identified,
       Steps, LoadSteps, ReconcileSteps, ProcessTypes, Do, Fail, Goto,
       NoFault, Fault, Clone
  <1>4. CASE Displace \/ PhaseDisplaced \/ Activate \/ PhaseActivated \/
     SetLiveOrigin
    BY <1>4, <1>a DEF Displace, PhaseDisplaced, Activate, PhaseActivated,
       SetLiveOrigin, Do, Fail, Reached, Goto, NoFault, Fault, LocalsOK,
       Identified, Steps, LoadSteps, ReconcileSteps, ProcessTypes, SetPhase,
       Attached
  <1>5. CASE Verify \/ PhaseCommitted \/ Handler \/ Discard \/ Keep
    BY <1>5, <1>a DEF Verify, PhaseCommitted, Handler, Discard, Keep, Goto,
       NoFault, Do, Fail, Reached, Valid, disk, Attached, Fault, LocalsOK,
       Identified, Steps, LoadSteps, ReconcileSteps, ProcessTypes, End, Exists
  <1>6. CASE ReadJournal
    BY <1>6, <1>a DEF ReadJournal, End, Reached, Finished, Exists,
       RollbackExists, disk, Goto, Uncommitted, LocalsOK, Identified, Steps,
       LoadSteps, ReconcileSteps, ProcessTypes, RecordTypes, Journal
  <1>7. CASE CheckCommitted \/ CheckPrepared \/ CheckRollback \/ SetAsideLive
     \/ Restore
    BY <1>7, <1>a DEF CheckCommitted, CheckPrepared, CheckRollback,
       SetAsideLive, Restore, Goto, NoFault, Do, FailReconcile, Reached,
       Valid, disk, Attached, Fault, LocalsOK, Identified, Steps, LoadSteps,
       ReconcileSteps, ProcessTypes, Exists
  <1>8. CASE CheckRestored \/ RestoreOrigin \/ DeleteTemp \/ DeletePending \/
     Clear
    BY <1>8, <1>a DEF CheckRestored, RestoreOrigin, DeleteTemp, DeletePending,
       Clear, Goto, NoFault, Do, FailReconcile, Reached, Valid, disk, Fault,
       LocalsOK, Identified, Steps, LoadSteps, ReconcileSteps, ProcessTypes,
       Finished, End, Uncommitted
  <1>9. CASE Quarantine \/ Retire
    BY <1>9, <1>a DEF Quarantine, Retire, Fault, Do, Reached, Raised, Goto,
       NoFault, End, LocalsOK, Identified, Steps, LoadSteps, ReconcileSteps,
       ProcessTypes
  <1>10. CASE UNCHANGED vars
    BY <1>10, <1>a DEF vars, disk, process, bounds, LocalsOK, Identified,
       Steps, LoadSteps, ReconcileSteps, ProcessTypes
  <1> QED
    BY <1>1, <1>2, <1>3, <1>4, <1>5, <1>6, <1>7, <1>8, <1>9, <1>10 DEF Next,
       CommandStep, LoadStep, ReconcileStep, BeginLoad, BeginStart

\* The phase in the journal agrees with the step.
LEMMA JournalOKStep == IInv /\ [Next]_vars => JournalOK'
  <1> SUFFICES ASSUME IInv, [Next]_vars PROVE JournalOK'
    OBVIOUS
  <1>a. LocalsOK /\ JournalOK /\ PathsOK /\ RecordTypes /\ ProcessTypes /\
     PendingIsJournaled
    BY DEF IInv
  <1>1. ASSUME NEW s \in Snapshots \cup {None}, BeginCommand(s) PROVE
     JournalOK'
    BY <1>1, <1>a DEF BeginCommand, Reached, disk, process, bounds, JournalOK,
       InPrepared, InDisplaced, InActivated, InRollback
  <1>2. CASE Launch \/ GuestWrite \/ GuestStops \/ Crash
    BY <1>2, <1>a DEF Launch, GuestWrite, GuestStops, Crash, End, Valid, disk,
       bounds, JournalOK, InPrepared, InDisplaced, InActivated, InRollback,
       process
  <1>3. CASE CheckLoad \/ CloneStarts \/ CloneEnds \/ MakePending \/ Displace
    BY <1>3, <1>a DEF CheckLoad, CloneStarts, CloneEnds, MakePending,
       Displace, End, Reached, Valid, Fresh, disk, JournalOK, InPrepared,
       InDisplaced, InActivated, InRollback, Do, Fail, Goto, NoFault, Fault,
       Clone
  <1>4. CASE BeginTransaction \/ PhaseDisplaced \/ PhaseActivated
    BY <1>4, <1>a, MarksAssumption DEF BeginTransaction, PhaseDisplaced,
       PhaseActivated, Goto, Do, Fail, Reached, NoFault, Fault, JournalOK,
       InPrepared, InDisplaced, InActivated, InRollback, LocalsOK, Identified,
       Steps, LoadSteps, ReconcileSteps, RecordTypes, ProcessTypes, PathsOK,
       Uncommitted, RollbackExists, PendingIsJournaled, Journal, Origin,
       Phases, SetPhase
  <1>5. CASE Activate \/ SetLiveOrigin \/ Verify \/ PhaseCommitted \/ Handler
    BY <1>5, <1>a DEF Activate, SetLiveOrigin, Verify, PhaseCommitted,
       Handler, Do, Fail, Reached, Goto, NoFault, Fault, JournalOK,
       InPrepared, InDisplaced, InActivated, InRollback, Attached, Valid,
       disk, End, Exists
  <1>6. CASE Discard \/ Keep
    BY <1>6, <1>a DEF Discard, Keep, Goto, End, Fault, NoFault, Do, Reached,
       JournalOK, InPrepared, InDisplaced, InActivated, InRollback
  <1>7. CASE ReadJournal \/ CheckCommitted \/ CheckPrepared \/ CheckRollback
     \/ SetAsideLive
    BY <1>7, <1>a DEF ReadJournal, CheckCommitted, CheckPrepared,
       CheckRollback, SetAsideLive, End, Reached, Finished, Exists,
       RollbackExists, disk, Goto, Uncommitted, JournalOK, InPrepared,
       InDisplaced, InActivated, InRollback, NoFault, Do, FailReconcile,
       Valid, Attached, Fault
  <1>8. CASE Restore \/ CheckRestored \/ RestoreOrigin \/ DeleteTemp \/
     DeletePending
    BY <1>8, <1>a DEF Restore, CheckRestored, RestoreOrigin, DeleteTemp,
       DeletePending, Do, FailReconcile, Reached, Goto, NoFault, Fault,
       JournalOK, InPrepared, InDisplaced, InActivated, InRollback, Valid,
       disk
  <1>9. CASE Clear \/ Quarantine \/ Retire
    BY <1>9, <1>a DEF Clear, Quarantine, Retire, NoFault, FailReconcile,
       Reached, Finished, Goto, Fault, End, Uncommitted, JournalOK,
       InPrepared, InDisplaced, InActivated, InRollback, Do, Raised
  <1>10. CASE UNCHANGED vars
    BY <1>10, <1>a DEF vars, disk, process, bounds, JournalOK, InPrepared,
       InDisplaced, InActivated, InRollback
  <1> QED
    BY <1>1, <1>2, <1>3, <1>4, <1>5, <1>6, <1>7, <1>8, <1>9, <1>10 DEF Next,
       CommandStep, LoadStep, ReconcileStep, BeginLoad, BeginStart

\* What each step finds at the paths it works on.
LEMMA PathsOKStep == IInv /\ [Next]_vars => PathsOK'
  <1> SUFFICES ASSUME IInv, [Next]_vars PROVE PathsOK'
    OBVIOUS
  <1>a. LocalsOK /\ JournalOK /\ PathsOK /\ BundleTypes /\ RecordTypes /\
     ProcessTypes /\ RollbackOK /\ PendingIsJournaled /\
     NoGuestDuringTransaction
    BY DEF IInv
  <1>1. ASSUME NEW s \in Snapshots \cup {None}, BeginCommand(s) PROVE PathsOK'
    BY <1>1, <1>a, MarksDistinct DEF BeginCommand, Reached, disk, process,
       bounds, PathsOK, InActivated, Uncommitted, RollbackExists, JournalOK,
       InPrepared, InDisplaced, InRollback, LocalsOK, Identified, Steps,
       LoadSteps, ReconcileSteps
  <1>2. CASE Launch \/ GuestStops \/ Crash
    BY <1>2, <1>a, MarksDistinct DEF Launch, GuestStops, Crash, End, Valid,
       disk, bounds, PathsOK, InActivated, Uncommitted, RollbackExists,
       JournalOK, InPrepared, InDisplaced, InRollback, LocalsOK, Identified,
       Steps, LoadSteps, ReconcileSteps, process
  <1>3. CASE GuestWrite
    BY <1>3, <1>a, MarksDistinct DEF GuestWrite, process, PathsOK,
       InActivated, Uncommitted, RollbackExists, JournalOK, InPrepared,
       InDisplaced, InRollback, LocalsOK, Identified, Steps, LoadSteps,
       ReconcileSteps, BundleTypes, RecordTypes, PendingIsJournaled,
       RollbackOK, Clone, NoGuestDuringTransaction, Marks, Journal
  <1>4. CASE CheckLoad
    BY <1>4, <1>a, MarksDistinct DEF CheckLoad, End, Reached, Valid, Fresh,
       disk, PathsOK, InActivated, Uncommitted, RollbackExists, JournalOK,
       InPrepared, InDisplaced, InRollback, LocalsOK, Identified, Steps,
       LoadSteps, ReconcileSteps, BundleTypes, ProcessTypes, Marks
  <1>5. CASE CloneStarts \/ Displace \/ PhaseDisplaced \/ Activate \/
     PhaseActivated
    BY <1>5, <1>a, MarksDistinct DEF CloneStarts, Displace, PhaseDisplaced,
       Activate, PhaseActivated, Do, Fail, Reached, Goto, NoFault, Fault,
       PathsOK, InActivated, Uncommitted, RollbackExists, JournalOK,
       InPrepared, InDisplaced, InRollback, LocalsOK, Identified, Steps,
       LoadSteps, ReconcileSteps, SetPhase
  <1>6. CASE CloneEnds \/ MakePending \/ Discard
    BY <1>6, <1>a, MarksDistinct DEF CloneEnds, MakePending, Discard, Do,
       Fail, Reached, Clone, Goto, NoFault, Fault, PathsOK, InActivated,
       Uncommitted, RollbackExists, JournalOK, InPrepared, InDisplaced,
       InRollback, LocalsOK, Identified, Steps, LoadSteps, ReconcileSteps,
       BundleTypes, RollbackOK, Marks, End
  <1>7. CASE BeginTransaction
    BY <1>7, <1>a, MarksDistinct DEF BeginTransaction, Goto, Do, Fail,
       Reached, NoFault, Fault, PathsOK, InActivated, Uncommitted,
       RollbackExists, JournalOK, InPrepared, InDisplaced, InRollback,
       LocalsOK, Identified, Steps, LoadSteps, ReconcileSteps, BundleTypes,
       RecordTypes, PendingIsJournaled, RollbackOK, Clone,
       NoGuestDuringTransaction, Marks, Journal
  <1>8. CASE SetLiveOrigin \/ Verify \/ PhaseCommitted \/ Handler \/ Keep
    BY <1>8, <1>a, MarksDistinct DEF SetLiveOrigin, Verify, PhaseCommitted,
       Handler, Keep, Do, Fail, Reached, Attached, Goto, NoFault, Fault,
       PathsOK, InActivated, Uncommitted, RollbackExists, JournalOK,
       InPrepared, InDisplaced, InRollback, LocalsOK, Identified, Steps,
       LoadSteps, ReconcileSteps, Valid, disk, End, Exists
  <1>9. CASE ReadJournal \/ CheckCommitted \/ CheckPrepared \/ CheckRollback
     \/ SetAsideLive
    BY <1>9, <1>a, MarksDistinct DEF ReadJournal, CheckCommitted,
       CheckPrepared, CheckRollback, SetAsideLive, End, Reached, Finished,
       Exists, RollbackExists, disk, Goto, Uncommitted, PathsOK, InActivated,
       JournalOK, InPrepared, InDisplaced, InRollback, LocalsOK, Identified,
       Steps, LoadSteps, ReconcileSteps, NoFault, Do, FailReconcile, Valid,
       Attached, Fault
  <1>10. CASE Restore \/ DeletePending \/ Quarantine
    BY <1>10, <1>a, MarksDistinct DEF Restore, DeletePending, Quarantine, Do,
       FailReconcile, Reached, Goto, NoFault, Fault, PathsOK, InActivated,
       Uncommitted, RollbackExists, JournalOK, InPrepared, InDisplaced,
       InRollback, LocalsOK, Identified, Steps, LoadSteps, ReconcileSteps,
       BundleTypes, RollbackOK, Clone, Marks, Valid, Raised, End
  <1>11. CASE CheckRestored \/ RestoreOrigin \/ DeleteTemp \/ Clear \/ Retire
    BY <1>11, <1>a, MarksDistinct DEF CheckRestored, RestoreOrigin,
       DeleteTemp, Clear, Retire, Goto, NoFault, Do, FailReconcile, Reached,
       Valid, disk, Fault, PathsOK, InActivated, Uncommitted, RollbackExists,
       JournalOK, InPrepared, InDisplaced, InRollback, LocalsOK, Identified,
       Steps, LoadSteps, ReconcileSteps, Finished, End, Raised
  <1>12. CASE UNCHANGED vars
    BY <1>12, <1>a, MarksDistinct DEF vars, disk, process, bounds, PathsOK,
       InActivated, Uncommitted, RollbackExists, JournalOK, InPrepared,
       InDisplaced, InRollback, LocalsOK, Identified, Steps, LoadSteps,
       ReconcileSteps
  <1> QED
    BY <1>1, <1>2, <1>3, <1>4, <1>5, <1>6, <1>7, <1>8, <1>9, <1>10, <1>11,
       <1>12 DEF Next, CommandStep, LoadStep, ReconcileStep, BeginLoad,
       BeginStart

\* What the bundle paths can hold.
LEMMA BundleTypesStep == IInv /\ [Next]_vars => BundleTypes'
  <1> SUFFICES ASSUME IInv, [Next]_vars PROVE BundleTypes'
    OBVIOUS
  <1>a. LocalsOK /\ PathsOK /\ BundleTypes /\ BoundTypes
    BY DEF IInv
  <1>1. ASSUME NEW s \in Snapshots \cup {None}, BeginCommand(s) PROVE
     BundleTypes'
    BY <1>1, <1>a, CloneType, RevisionType, MarksDistinct DEF BeginCommand,
       Reached, disk, process, bounds, BundleTypes, LocalsOK, Identified,
       Steps, LoadSteps, ReconcileSteps, PathsOK, InActivated, Uncommitted,
       RollbackExists, BoundTypes, Marks
  <1>2. CASE GuestWrite
    BY <1>2, <1>a, CloneType, RevisionType, MarksDistinct DEF GuestWrite,
       process, BundleTypes, LocalsOK, Identified, Steps, LoadSteps,
       ReconcileSteps, PathsOK, InActivated, Uncommitted, RollbackExists,
       BoundTypes, Marks
  <1>3. CASE CloneStarts \/ CloneEnds \/ MakePending \/ Displace \/ Activate
    BY <1>3, <1>a, CloneType, RevisionType, MarksDistinct DEF CloneStarts,
       CloneEnds, MakePending, Displace, Activate, Do, Fail, Reached, Goto,
       NoFault, Fault, BundleTypes, LocalsOK, Identified, Steps, LoadSteps,
       ReconcileSteps, PathsOK, InActivated, Uncommitted, RollbackExists,
       BoundTypes, Marks, Clone
  <1>4. CASE Discard \/ Keep
    BY <1>4, <1>a, CloneType, RevisionType, MarksDistinct DEF Discard, Keep,
       Goto, End, Fault, NoFault, Do, Reached, BundleTypes, LocalsOK,
       Identified, Steps, LoadSteps, ReconcileSteps, PathsOK, InActivated,
       Uncommitted, RollbackExists, BoundTypes, Marks
  <1>5. CASE SetAsideLive \/ Restore \/ DeleteTemp \/ DeletePending \/
     Quarantine
    BY <1>5, <1>a, CloneType, RevisionType, MarksDistinct DEF SetAsideLive,
       Restore, DeleteTemp, DeletePending, Quarantine, Goto, NoFault, Do,
       FailReconcile, Reached, Exists, Fault, BundleTypes, LocalsOK,
       Identified, Steps, LoadSteps, ReconcileSteps, PathsOK, InActivated,
       Uncommitted, RollbackExists, BoundTypes, Marks, Valid, Raised, End
  <1>6. CASE Launch \/ GuestStops \/ Crash \/ CheckLoad \/ BeginTransaction \/
     PhaseDisplaced \/ PhaseActivated \/ SetLiveOrigin \/ Verify \/
     PhaseCommitted \/ Handler \/ ReadJournal \/ CheckCommitted \/
     CheckPrepared \/ CheckRollback \/ CheckRestored \/ RestoreOrigin \/ Clear
     \/ Retire
    BY <1>6, <1>a DEF Launch, End, Valid, disk, bounds, GuestStops, process,
       Crash, CheckLoad, Reached, Fresh, BeginTransaction, Goto, Do, Fail,
       NoFault, Fault, PhaseDisplaced, SetPhase, PhaseActivated,
       SetLiveOrigin, Attached, Verify, PhaseCommitted, Handler, Exists,
       ReadJournal, Finished, RollbackExists, Uncommitted, CheckCommitted,
       FailReconcile, CheckPrepared, CheckRollback, CheckRestored,
       RestoreOrigin, Clear, Retire, Raised, BundleTypes
  <1>7. CASE UNCHANGED vars
    BY <1>7, <1>a DEF vars, disk, bounds, BundleTypes
  <1> QED
    BY <1>1, <1>2, <1>3, <1>4, <1>5, <1>6, <1>7 DEF Next, CommandStep,
       LoadStep, ReconcileStep, BeginLoad, BeginStart

\* live.json and transaction.json.
LEMMA RecordTypesStep == IInv /\ [Next]_vars => RecordTypes'
  <1> SUFFICES ASSUME IInv, [Next]_vars PROVE RecordTypes'
    OBVIOUS
  <1>a. LocalsOK /\ JournalOK /\ RecordTypes
    BY DEF IInv
  <1>1. ASSUME NEW s \in Snapshots \cup {None}, BeginCommand(s) PROVE
     RecordTypes'
    BY <1>1, <1>a, AttachedType DEF BeginCommand, Reached, disk, process,
       bounds, RecordTypes, LocalsOK, Identified, Steps, LoadSteps,
       ReconcileSteps, JournalOK, InPrepared, InDisplaced, InActivated,
       InRollback, Phases
  <1>2. CASE CheckLoad \/ SetLiveOrigin
    BY <1>2, <1>a, AttachedType DEF CheckLoad, SetLiveOrigin, End, Reached,
       Valid, Fresh, disk, RecordTypes, LocalsOK, Identified, Steps,
       LoadSteps, ReconcileSteps, JournalOK, InPrepared, InDisplaced,
       InActivated, InRollback, Phases, Do, Fail, Attached, Goto, NoFault,
       Fault
  <1>3. CASE BeginTransaction
    BY <1>3, <1>a DEF BeginTransaction, Goto, Do, Fail, Reached, NoFault,
       Fault, RecordTypes, LocalsOK, Identified, Steps, LoadSteps,
       ReconcileSteps, Journal, Origin, Phases
  <1>4. CASE PhaseDisplaced \/ PhaseActivated \/ PhaseCommitted
    BY <1>4, <1>a DEF PhaseDisplaced, PhaseActivated, PhaseCommitted,
       SetPhase, Do, Fail, Reached, Goto, NoFault, Fault, RecordTypes,
       JournalOK, InPrepared, InDisplaced, InActivated, InRollback, Journal,
       Origin, Phases
  <1>5. CASE RestoreOrigin
    BY <1>5, <1>a DEF RestoreOrigin, Do, FailReconcile, Reached, Goto,
       NoFault, Fault, RecordTypes, JournalOK, InPrepared, InDisplaced,
       InActivated, InRollback, Journal, Origin, Phases
  <1>6. CASE Clear \/ Retire
    BY <1>6, <1>a, AttachedType DEF Clear, Retire, NoFault, FailReconcile,
       Reached, Finished, Goto, Fault, End, Uncommitted, RecordTypes,
       LocalsOK, Identified, Steps, LoadSteps, ReconcileSteps, JournalOK,
       InPrepared, InDisplaced, InActivated, InRollback, Phases, Raised
  <1>7. CASE Launch \/ GuestWrite \/ GuestStops \/ Crash \/ CloneStarts \/
     CloneEnds \/ MakePending \/ Displace \/ Activate \/ Verify \/ Handler \/
     Discard \/ Keep \/ ReadJournal \/ CheckCommitted \/ CheckPrepared \/
     CheckRollback \/ SetAsideLive \/ Restore \/ CheckRestored \/ DeleteTemp
     \/ DeletePending \/ Quarantine
    BY <1>7, <1>a DEF Launch, End, Valid, disk, bounds, GuestWrite, process,
       GuestStops, Crash, CloneStarts, Do, Fail, Reached, Goto, NoFault,
       Fault, CloneEnds, Clone, MakePending, Displace, Activate, Verify,
       Attached, Handler, Exists, Discard, Keep, ReadJournal, Finished,
       RollbackExists, Uncommitted, CheckCommitted, FailReconcile,
       CheckPrepared, CheckRollback, SetAsideLive, Restore, CheckRestored,
       DeleteTemp, DeletePending, Quarantine, Raised, RecordTypes
  <1>8. CASE UNCHANGED vars
    BY <1>8, <1>a DEF vars, disk, bounds, RecordTypes
  <1> QED
    BY <1>1, <1>2, <1>3, <1>4, <1>5, <1>6, <1>7, <1>8 DEF Next, CommandStep,
       LoadStep, ReconcileStep, BeginLoad, BeginStart

\* The local state of the command.
LEMMA ProcessTypesStep == IInv /\ [Next]_vars => ProcessTypes'
  <1> SUFFICES ASSUME IInv, [Next]_vars PROVE ProcessTypes'
    OBVIOUS
  <1>a. RecordTypes /\ ProcessTypes
    BY DEF IInv
  <1>1. ASSUME NEW s \in Snapshots \cup {None}, BeginCommand(s) PROVE
     ProcessTypes'
    BY <1>1, <1>a DEF BeginCommand, Reached, disk, process, bounds,
       ProcessTypes, Steps, LoadSteps, ReconcileSteps
  <1>2. CASE Launch \/ GuestWrite \/ GuestStops \/ Crash
    BY <1>2, <1>a DEF Launch, GuestWrite, GuestStops, Crash, End, Valid, disk,
       bounds, ProcessTypes, Steps, LoadSteps, ReconcileSteps, process
  <1>3. CASE CheckLoad \/ CloneStarts \/ CloneEnds \/ BeginTransaction \/
     MakePending
    BY <1>3, <1>a DEF CheckLoad, CloneStarts, CloneEnds, BeginTransaction,
       MakePending, End, Reached, Valid, Fresh, disk, ProcessTypes, Steps,
       LoadSteps, ReconcileSteps, Do, Fail, Goto, NoFault, Fault, Clone
  <1>4. CASE Displace \/ PhaseDisplaced \/ Activate \/ PhaseActivated \/
     SetLiveOrigin
    BY <1>4, <1>a DEF Displace, PhaseDisplaced, Activate, PhaseActivated,
       SetLiveOrigin, Do, Fail, Reached, Goto, NoFault, Fault, ProcessTypes,
       Steps, LoadSteps, ReconcileSteps, SetPhase, Attached
  <1>5. CASE Verify \/ PhaseCommitted \/ Handler \/ Discard \/ Keep
    BY <1>5, <1>a DEF Verify, PhaseCommitted, Handler, Discard, Keep, Goto,
       NoFault, Do, Fail, Reached, Valid, disk, Attached, Fault, ProcessTypes,
       Steps, LoadSteps, ReconcileSteps, End, Exists
  <1>6. CASE ReadJournal
    BY <1>6, <1>a DEF ReadJournal, End, Reached, Finished, Exists,
       RollbackExists, disk, Goto, Uncommitted, ProcessTypes, RecordTypes,
       Journal, Steps, LoadSteps, ReconcileSteps
  <1>7. CASE CheckCommitted \/ CheckPrepared \/ CheckRollback \/ SetAsideLive
     \/ Restore
    BY <1>7, <1>a DEF CheckCommitted, CheckPrepared, CheckRollback,
       SetAsideLive, Restore, Goto, NoFault, Do, FailReconcile, Reached,
       Valid, disk, Attached, Fault, ProcessTypes, Steps, LoadSteps,
       ReconcileSteps, Exists
  <1>8. CASE CheckRestored \/ RestoreOrigin \/ DeleteTemp \/ DeletePending \/
     Clear
    BY <1>8, <1>a DEF CheckRestored, RestoreOrigin, DeleteTemp, DeletePending,
       Clear, Goto, NoFault, Do, FailReconcile, Reached, Valid, disk, Fault,
       ProcessTypes, Steps, LoadSteps, ReconcileSteps, Finished, End,
       Uncommitted
  <1>9. CASE Quarantine \/ Retire
    BY <1>9, <1>a DEF Quarantine, Retire, Fault, Do, Reached, Raised, Goto,
       NoFault, End, ProcessTypes, Steps, LoadSteps, ReconcileSteps
  <1>10. CASE UNCHANGED vars
    BY <1>10, <1>a DEF vars, disk, process, bounds, ProcessTypes, Steps,
       LoadSteps, ReconcileSteps
  <1> QED
    BY <1>1, <1>2, <1>3, <1>4, <1>5, <1>6, <1>7, <1>8, <1>9, <1>10 DEF Next,
       CommandStep, LoadStep, ReconcileStep, BeginLoad, BeginStart

\* The counters stay within their bounds.
LEMMA BoundTypesStep == IInv /\ [Next]_vars => BoundTypes'
  <1> SUFFICES ASSUME IInv, [Next]_vars PROVE BoundTypes'
    OBVIOUS
  <1>a. BoundTypes
    BY DEF IInv
  <1>1. ASSUME NEW s \in Snapshots \cup {None}, BeginCommand(s) PROVE
     BoundTypes'
    BY <1>1, <1>a, BoundsAssumption DEF BeginCommand, Reached, disk, process,
       bounds, BoundTypes
  <1>2. CASE GuestWrite \/ Crash
    BY <1>2, <1>a, BoundsAssumption DEF GuestWrite, Crash, process,
       BoundTypes, End, disk
  <1>3. CASE Launch \/ GuestStops \/ CheckLoad \/ CloneStarts \/ CloneEnds \/
     BeginTransaction \/ MakePending \/ Displace \/ PhaseDisplaced \/ Activate
     \/ PhaseActivated \/ SetLiveOrigin \/ Verify \/ PhaseCommitted \/ Handler
     \/ Discard \/ Keep \/ ReadJournal \/ CheckCommitted \/ CheckPrepared \/
     CheckRollback \/ SetAsideLive \/ Restore \/ CheckRestored \/
     RestoreOrigin \/ DeleteTemp \/ DeletePending \/ Clear \/ Quarantine \/
     Retire
    BY <1>3, <1>a, BoundsAssumption DEF Launch, End, Valid, disk, bounds,
       GuestStops, process, CheckLoad, Reached, Fresh, CloneStarts, Do, Fail,
       Goto, NoFault, Fault, CloneEnds, Clone, BeginTransaction, MakePending,
       Displace, PhaseDisplaced, SetPhase, Activate, PhaseActivated,
       SetLiveOrigin, Attached, Verify, PhaseCommitted, Handler, Exists,
       Discard, Keep, ReadJournal, Finished, RollbackExists, Uncommitted,
       CheckCommitted, FailReconcile, CheckPrepared, CheckRollback,
       SetAsideLive, Restore, CheckRestored, RestoreOrigin, DeleteTemp,
       DeletePending, Clear, Quarantine, Raised, Retire, BoundTypes
  <1>4. CASE UNCHANGED vars
    BY <1>4, <1>a DEF vars, disk, bounds, BoundTypes
  <1> QED
    BY <1>1, <1>2, <1>3, <1>4 DEF Next, CommandStep, LoadStep, ReconcileStep,
       BeginLoad, BeginStart

\* A rollback bundle that can be restored is the old live bundle.
LEMMA RollbackOKStep == IInv /\ [Next]_vars => RollbackOK'
  <1> SUFFICES ASSUME IInv, [Next]_vars PROVE RollbackOK'
    OBVIOUS
  <1>a. LocalsOK /\ JournalOK /\ PathsOK /\ BundleTypes /\ RecordTypes /\
     RollbackOK /\ PendingIsJournaled /\ NoGuestDuringTransaction
    BY DEF IInv
  <1>1. ASSUME NEW s \in Snapshots \cup {None}, BeginCommand(s) PROVE
     RollbackOK'
    BY <1>1, <1>a DEF BeginCommand, Reached, disk, process, bounds,
       RollbackOK, Uncommitted, RollbackExists, Clone
  <1>2. CASE GuestWrite
    BY <1>2, <1>a DEF GuestWrite, process, RollbackOK, Uncommitted,
       RollbackExists, Clone, JournalOK, InPrepared, InDisplaced, InActivated,
       InRollback, NoGuestDuringTransaction
  <1>3. CASE CheckLoad
    BY <1>3, <1>a DEF CheckLoad, End, Reached, Valid, Fresh, disk, RollbackOK,
       Uncommitted, RollbackExists, Clone, JournalOK, InPrepared, InDisplaced,
       InActivated, InRollback, NoGuestDuringTransaction
  <1>4. CASE BeginTransaction \/ MakePending \/ Displace \/ PhaseDisplaced \/
     PhaseActivated
    BY <1>4, <1>a, MarksAssumption DEF BeginTransaction, MakePending,
       Displace, PhaseDisplaced, PhaseActivated, Goto, Do, Fail, Reached,
       NoFault, Fault, RollbackOK, Uncommitted, RollbackExists, Clone,
       JournalOK, InPrepared, InDisplaced, InActivated, InRollback, PathsOK,
       LocalsOK, Identified, Steps, LoadSteps, ReconcileSteps, BundleTypes,
       RecordTypes, PendingIsJournaled, Marks, Journal, SetPhase
  <1>5. CASE Activate
    BY <1>5, <1>a, MarksAssumption DEF Activate, Do, Fail, Reached, Goto,
       NoFault, Fault, RollbackOK, Uncommitted, RollbackExists, Clone,
       JournalOK, InPrepared, InDisplaced, InActivated, InRollback, PathsOK,
       LocalsOK, Identified, Steps, LoadSteps, ReconcileSteps, Marks
  <1>6. CASE PhaseCommitted
    BY <1>6, <1>a, MarksAssumption DEF PhaseCommitted, NoFault, Fail, Reached,
       Goto, Fault, RollbackOK, Uncommitted, RollbackExists, Clone, JournalOK,
       InPrepared, InDisplaced, InActivated, InRollback, PathsOK, LocalsOK,
       Identified, Steps, LoadSteps, ReconcileSteps, BundleTypes, RecordTypes,
       PendingIsJournaled, Marks, Journal
  <1>7. CASE SetAsideLive \/ Clear \/ Retire
    BY <1>7, <1>a DEF SetAsideLive, Clear, Retire, Goto, NoFault, Do,
       FailReconcile, Reached, Exists, Fault, RollbackOK, Uncommitted,
       RollbackExists, Clone, Finished, End, Raised
  <1>8. CASE Restore \/ DeletePending \/ Quarantine
    BY <1>8, <1>a, MarksAssumption DEF Restore, DeletePending, Quarantine, Do,
       FailReconcile, Reached, Goto, NoFault, Fault, RollbackOK, Uncommitted,
       RollbackExists, Clone, JournalOK, InPrepared, InDisplaced, InActivated,
       InRollback, PathsOK, LocalsOK, Identified, Steps, LoadSteps,
       ReconcileSteps, BundleTypes, RecordTypes, PendingIsJournaled, Marks,
       Journal, Valid, Raised, End
  <1>9. CASE Launch \/ GuestStops \/ Crash \/ CloneStarts \/ CloneEnds \/
     SetLiveOrigin \/ Verify \/ Handler \/ Discard \/ Keep \/ ReadJournal \/
     CheckCommitted \/ CheckPrepared \/ CheckRollback \/ CheckRestored \/
     RestoreOrigin \/ DeleteTemp
    BY <1>9, <1>a DEF Launch, End, Valid, disk, bounds, GuestStops, process,
       Crash, CloneStarts, Do, Fail, Reached, Goto, NoFault, Fault, CloneEnds,
       Clone, SetLiveOrigin, Attached, Verify, Handler, Exists, Discard, Keep,
       ReadJournal, Finished, RollbackExists, Uncommitted, CheckCommitted,
       FailReconcile, CheckPrepared, CheckRollback, CheckRestored,
       RestoreOrigin, DeleteTemp, RollbackOK
  <1>10. CASE UNCHANGED vars
    BY <1>10, <1>a DEF vars, disk, bounds, RollbackOK, Uncommitted,
       RollbackExists, Clone
  <1> QED
    BY <1>1, <1>2, <1>3, <1>4, <1>5, <1>6, <1>7, <1>8, <1>9, <1>10 DEF Next,
       CommandStep, LoadStep, ReconcileStep, BeginLoad, BeginStart

\* The journal names the pending directory.
LEMMA PendingIsJournaledStep == IInv /\ [Next]_vars => PendingIsJournaled'
  <1> SUFFICES ASSUME IInv, [Next]_vars PROVE PendingIsJournaled'
    OBVIOUS
  <1>a. LocalsOK /\ JournalOK /\ PathsOK /\ BundleTypes /\ RecordTypes /\
     ProcessTypes /\ PendingIsJournaled
    BY DEF IInv
  <1>1. ASSUME NEW s \in Snapshots \cup {None}, BeginCommand(s) PROVE
     PendingIsJournaled'
    BY <1>1, <1>a, MarksDistinct DEF BeginCommand, Reached, disk, process,
       bounds, PendingIsJournaled, JournalOK, InPrepared, InDisplaced,
       InActivated, InRollback, BundleTypes, LocalsOK, Identified, Steps,
       LoadSteps, ReconcileSteps, PathsOK, Uncommitted, RollbackExists
  <1>2. CASE BeginTransaction \/ MakePending \/ Displace
    BY <1>2, <1>a, MarksDistinct DEF BeginTransaction, MakePending, Displace,
       Goto, Do, Fail, Reached, NoFault, Fault, PendingIsJournaled, JournalOK,
       InPrepared, InDisplaced, InActivated, InRollback, BundleTypes,
       LocalsOK, Identified, Steps, LoadSteps, ReconcileSteps, PathsOK,
       Uncommitted, RollbackExists
  <1>3. CASE PhaseDisplaced \/ PhaseActivated \/ PhaseCommitted
    BY <1>3, <1>a, MarksDistinct DEF PhaseDisplaced, PhaseActivated,
       PhaseCommitted, SetPhase, Do, Fail, Reached, Goto, NoFault, Fault,
       PendingIsJournaled, JournalOK, InPrepared, InDisplaced, InActivated,
       InRollback, RecordTypes, LocalsOK, Identified, Steps, LoadSteps,
       ReconcileSteps, PathsOK, Uncommitted, RollbackExists, ProcessTypes,
       Journal, Origin, Phases
  <1>4. CASE Restore \/ DeletePending \/ Clear \/ Quarantine \/ Retire
    BY <1>4, <1>a, MarksDistinct DEF Restore, DeletePending, Clear,
       Quarantine, Retire, Do, FailReconcile, Reached, Goto, NoFault, Fault,
       PendingIsJournaled, JournalOK, InPrepared, InDisplaced, InActivated,
       InRollback, BundleTypes, LocalsOK, Identified, Steps, LoadSteps,
       ReconcileSteps, PathsOK, Uncommitted, RollbackExists, Valid, Finished,
       End, Raised
  <1>5. CASE Launch \/ GuestWrite \/ GuestStops \/ Crash \/ CheckLoad \/
     CloneStarts \/ CloneEnds \/ Activate \/ SetLiveOrigin \/ Verify \/
     Handler \/ Discard \/ Keep \/ ReadJournal \/ CheckCommitted \/
     CheckPrepared \/ CheckRollback \/ SetAsideLive \/ CheckRestored \/
     RestoreOrigin \/ DeleteTemp
    BY <1>5, <1>a DEF Launch, End, Valid, disk, bounds, GuestWrite, process,
       GuestStops, Crash, CheckLoad, Reached, Fresh, CloneStarts, Do, Fail,
       Goto, NoFault, Fault, CloneEnds, Clone, Activate, SetLiveOrigin,
       Attached, Verify, Handler, Exists, Discard, Keep, ReadJournal,
       Finished, RollbackExists, Uncommitted, CheckCommitted, FailReconcile,
       CheckPrepared, CheckRollback, SetAsideLive, CheckRestored,
       RestoreOrigin, DeleteTemp, PendingIsJournaled
  <1>6. CASE UNCHANGED vars
    BY <1>6, <1>a DEF vars, disk, bounds, PendingIsJournaled
  <1> QED
    BY <1>1, <1>2, <1>3, <1>4, <1>5, <1>6 DEF Next, CommandStep, LoadStep,
       ReconcileStep, BeginLoad, BeginStart

\* The content from before the load survives each step.
LEMMA NothingLostStep == IInv /\ [Next]_vars => NothingLost'
  <1> SUFFICES ASSUME IInv, [Next]_vars PROVE NothingLost'
    OBVIOUS
  <1>a. LocalsOK /\ JournalOK /\ PathsOK /\ BundleTypes /\ RecordTypes /\
     RollbackOK /\ PendingIsJournaled /\ NothingLost /\
     NoGuestDuringTransaction
    BY DEF IInv
  <1>1. ASSUME NEW s \in Snapshots \cup {None}, BeginCommand(s) PROVE
     NothingLost'
    BY <1>1, <1>a, MarksDistinct DEF BeginCommand, Reached, disk, process,
       bounds, NothingLost, Uncommitted, JournalOK, InPrepared, InDisplaced,
       InActivated, InRollback, PathsOK, RollbackExists, LocalsOK, Identified,
       Steps, LoadSteps, ReconcileSteps, BundleTypes, RollbackOK, Clone, Marks
  <1>2. CASE GuestWrite
    BY <1>2, <1>a, MarksDistinct DEF GuestWrite, process, NothingLost,
       Uncommitted, JournalOK, InPrepared, InDisplaced, InActivated,
       InRollback, PathsOK, RollbackExists, LocalsOK, Identified, Steps,
       LoadSteps, ReconcileSteps, BundleTypes, RecordTypes,
       PendingIsJournaled, RollbackOK, Clone, NoGuestDuringTransaction, Marks,
       Journal
  <1>3. CASE CheckLoad \/ BeginTransaction \/ MakePending \/ Displace \/ Keep
    BY <1>3, <1>a, MarksDistinct DEF CheckLoad, BeginTransaction, MakePending,
       Displace, Keep, End, Reached, Valid, Fresh, disk, NothingLost,
       Uncommitted, JournalOK, InPrepared, InDisplaced, InActivated,
       InRollback, PathsOK, RollbackExists, LocalsOK, Identified, Steps,
       LoadSteps, ReconcileSteps, BundleTypes, RollbackOK, Clone, Marks, Goto,
       Do, Fail, NoFault, Fault
  <1>4. CASE PhaseDisplaced \/ Activate \/ PhaseActivated \/ PhaseCommitted
    BY <1>4, <1>a, MarksDistinct DEF PhaseDisplaced, Activate, PhaseActivated,
       PhaseCommitted, SetPhase, Do, Fail, Reached, Goto, NoFault, Fault,
       NothingLost, Uncommitted, JournalOK, InPrepared, InDisplaced,
       InActivated, InRollback, PathsOK, RollbackExists, LocalsOK, Identified,
       Steps, LoadSteps, ReconcileSteps, BundleTypes, RecordTypes,
       PendingIsJournaled, RollbackOK, Clone, NoGuestDuringTransaction, Marks,
       Journal
  <1>5. CASE SetAsideLive \/ Restore \/ Clear \/ Quarantine \/ Retire
    BY <1>5, <1>a, MarksDistinct DEF SetAsideLive, Restore, Clear, Quarantine,
       Retire, Goto, NoFault, Do, FailReconcile, Reached, Exists, Fault,
       NothingLost, Uncommitted, JournalOK, InPrepared, InDisplaced,
       InActivated, InRollback, PathsOK, RollbackExists, LocalsOK, Identified,
       Steps, LoadSteps, ReconcileSteps, BundleTypes, RollbackOK, Clone,
       Marks, Finished, End, Raised
  <1>6. CASE DeletePending
    BY <1>6, <1>a, MarksDistinct DEF DeletePending, Do, FailReconcile,
       Reached, Valid, Goto, NoFault, Fault, NothingLost, Uncommitted,
       JournalOK, InPrepared, InDisplaced, InActivated, InRollback, PathsOK,
       RollbackExists, LocalsOK, Identified, Steps, LoadSteps, ReconcileSteps,
       BundleTypes, RecordTypes, PendingIsJournaled, RollbackOK, Clone,
       NoGuestDuringTransaction, Marks, Journal
  <1>7. CASE Launch \/ GuestStops \/ Crash \/ CloneStarts \/ CloneEnds \/
     SetLiveOrigin \/ Verify \/ Handler \/ Discard \/ ReadJournal \/
     CheckCommitted \/ CheckPrepared \/ CheckRollback \/ CheckRestored \/
     RestoreOrigin \/ DeleteTemp
    BY <1>7, <1>a DEF Launch, End, Valid, disk, bounds, GuestStops, process,
       Crash, CloneStarts, Do, Fail, Reached, Goto, NoFault, Fault, CloneEnds,
       Clone, SetLiveOrigin, Attached, Verify, Handler, Exists, Discard,
       ReadJournal, Finished, RollbackExists, Uncommitted, CheckCommitted,
       FailReconcile, CheckPrepared, CheckRollback, CheckRestored,
       RestoreOrigin, DeleteTemp, NothingLost
  <1>8. CASE UNCHANGED vars
    BY <1>8, <1>a DEF vars, disk, bounds, NothingLost, Uncommitted
  <1> QED
    BY <1>1, <1>2, <1>3, <1>4, <1>5, <1>6, <1>7, <1>8 DEF Next, CommandStep,
       LoadStep, ReconcileStep, BeginLoad, BeginStart

\* No guest starts before the journal is resolved.
LEMMA NoGuestDuringTransactionStep == IInv /\ [Next]_vars => NoGuestDuringTransaction'
  <1> SUFFICES ASSUME IInv, [Next]_vars PROVE NoGuestDuringTransaction'
    OBVIOUS
  <1>a. JournalOK /\ PathsOK /\ BundleTypes /\ BoundTypes /\
     NoGuestDuringTransaction
    BY DEF IInv
  <1>1. ASSUME NEW s \in Snapshots \cup {None}, BeginCommand(s) PROVE
     NoGuestDuringTransaction'
    BY <1>1, <1>a, MarksDistinct, RevisionType DEF BeginCommand, Reached,
       disk, process, bounds, NoGuestDuringTransaction, JournalOK, InPrepared,
       InDisplaced, InActivated, InRollback, PathsOK, Uncommitted,
       RollbackExists, BundleTypes, BoundTypes
  <1>2. CASE Launch
    BY <1>2, <1>a, MarksDistinct, RevisionType DEF Launch, End, Valid, disk,
       bounds, NoGuestDuringTransaction, JournalOK, InPrepared, InDisplaced,
       InActivated, InRollback, PathsOK, Uncommitted, RollbackExists,
       BundleTypes, BoundTypes
  <1>3. CASE GuestWrite
    BY <1>3, <1>a, MarksDistinct, RevisionType DEF GuestWrite, process,
       NoGuestDuringTransaction, JournalOK, InPrepared, InDisplaced,
       InActivated, InRollback, PathsOK, Uncommitted, RollbackExists,
       BundleTypes, BoundTypes
  <1>4. CASE GuestStops
    BY <1>4, <1>a, MarksDistinct, RevisionType DEF GuestStops, disk, process,
       bounds, NoGuestDuringTransaction, JournalOK, InPrepared, InDisplaced,
       InActivated, InRollback, PathsOK, Uncommitted, RollbackExists,
       BundleTypes, BoundTypes
  <1>5. CASE BeginTransaction
    BY <1>5, <1>a, MarksDistinct, RevisionType DEF BeginTransaction, Goto, Do,
       Fail, Reached, NoFault, Fault, NoGuestDuringTransaction, JournalOK,
       InPrepared, InDisplaced, InActivated, InRollback, PathsOK, Uncommitted,
       RollbackExists, BundleTypes, BoundTypes
  <1>6. CASE Displace
    BY <1>6, <1>a, MarksDistinct, RevisionType DEF Displace, Do, Fail,
       Reached, Goto, NoFault, Fault, NoGuestDuringTransaction, JournalOK,
       InPrepared, InDisplaced, InActivated, InRollback, PathsOK, Uncommitted,
       RollbackExists, BundleTypes, BoundTypes
  <1>7. CASE PhaseDisplaced
    BY <1>7, <1>a, MarksDistinct, RevisionType DEF PhaseDisplaced, SetPhase,
       Do, Fail, Reached, Goto, NoFault, Fault, NoGuestDuringTransaction,
       JournalOK, InPrepared, InDisplaced, InActivated, InRollback, PathsOK,
       Uncommitted, RollbackExists, BundleTypes, BoundTypes
  <1>8. CASE Activate
    BY <1>8, <1>a, MarksDistinct, RevisionType DEF Activate, Do, Fail,
       Reached, Goto, NoFault, Fault, NoGuestDuringTransaction, JournalOK,
       InPrepared, InDisplaced, InActivated, InRollback, PathsOK, Uncommitted,
       RollbackExists, BundleTypes, BoundTypes
  <1>9. CASE PhaseActivated
    BY <1>9, <1>a, MarksDistinct, RevisionType DEF PhaseActivated, SetPhase,
       Do, Fail, Reached, Goto, NoFault, Fault, NoGuestDuringTransaction,
       JournalOK, InPrepared, InDisplaced, InActivated, InRollback, PathsOK,
       Uncommitted, RollbackExists, BundleTypes, BoundTypes
  <1>10. CASE PhaseCommitted
    BY <1>10, <1>a, MarksDistinct, RevisionType DEF PhaseCommitted, NoFault,
       Fail, Reached, Goto, Fault, NoGuestDuringTransaction, JournalOK,
       InPrepared, InDisplaced, InActivated, InRollback, PathsOK, Uncommitted,
       RollbackExists, BundleTypes, BoundTypes
  <1>11. CASE SetAsideLive
    BY <1>11, <1>a, MarksDistinct, RevisionType DEF SetAsideLive, Goto,
       NoFault, Do, FailReconcile, Reached, Exists, Fault,
       NoGuestDuringTransaction, JournalOK, InPrepared, InDisplaced,
       InActivated, InRollback, PathsOK, Uncommitted, RollbackExists,
       BundleTypes, BoundTypes
  <1>12. CASE Restore
    BY <1>12, <1>a, MarksDistinct, RevisionType DEF Restore, Do,
       FailReconcile, Reached, Goto, NoFault, Fault, NoGuestDuringTransaction,
       JournalOK, InPrepared, InDisplaced, InActivated, InRollback, PathsOK,
       Uncommitted, RollbackExists, BundleTypes, BoundTypes
  <1>13. CASE Clear
    BY <1>13, <1>a, MarksDistinct, RevisionType DEF Clear, NoFault,
       FailReconcile, Reached, Finished, Goto, Fault, End, Uncommitted,
       NoGuestDuringTransaction, JournalOK, InPrepared, InDisplaced,
       InActivated, InRollback, PathsOK, RollbackExists, BundleTypes,
       BoundTypes
  <1>14. CASE Retire
    BY <1>14, <1>a, MarksDistinct, RevisionType DEF Retire, Fault, NoFault,
       Reached, Raised, End, NoGuestDuringTransaction, JournalOK, InPrepared,
       InDisplaced, InActivated, InRollback, PathsOK, Uncommitted,
       RollbackExists, BundleTypes, BoundTypes
  <1>15. CASE Crash \/ CheckLoad \/ CloneStarts \/ CloneEnds \/ MakePending \/
     SetLiveOrigin \/ Verify \/ Handler \/ Discard \/ Keep \/ ReadJournal \/
     CheckCommitted \/ CheckPrepared \/ CheckRollback \/ CheckRestored \/
     RestoreOrigin \/ DeleteTemp \/ DeletePending \/ Quarantine
    BY <1>15, <1>a DEF Crash, End, disk, CheckLoad, Reached, Valid, Fresh,
       CloneStarts, Do, Fail, Goto, NoFault, Fault, CloneEnds, Clone,
       MakePending, SetLiveOrigin, Attached, Verify, Handler, Exists, Discard,
       Keep, ReadJournal, Finished, RollbackExists, Uncommitted,
       CheckCommitted, FailReconcile, CheckPrepared, CheckRollback,
       CheckRestored, RestoreOrigin, DeleteTemp, DeletePending, Quarantine,
       Raised, NoGuestDuringTransaction
  <1>16. CASE UNCHANGED vars
    BY <1>16, <1>a DEF vars, disk, bounds, NoGuestDuringTransaction
  <1> QED
    BY <1>1, <1>2, <1>3, <1>4, <1>5, <1>6, <1>7, <1>8, <1>9, <1>10, <1>11,
       <1>12, <1>13, <1>14, <1>15, <1>16 DEF Next, CommandStep, LoadStep,
       ReconcileStep, BeginLoad, BeginStart

LEMMA NextIInv == IInv /\ [Next]_vars => IInv'
  BY BundleTypesStep, RecordTypesStep, ProcessTypesStep, BoundTypesStep,
     LocalsOKStep, JournalOKStep, PathsOKStep, RollbackOKStep,
     PendingIsJournaledStep, NothingLostStep, NoGuestDuringTransactionStep
     DEF IInv

\* IInv holds in every state of every behaviour.
THEOREM Invariance == Spec => []IInv
  BY InitIInv, NextIInv, PTL DEF Spec

\* Every path of the disk, the journal and the locals of the command keep
\* their types: no half copied bundle is ever at the live path.
THEOREM TypeCorrect == Spec => []TypeOK
  <1>1. IInv => TypeOK
    BY DEF IInv, TypeOK
  <1> QED
    BY <1>1, Invariance, PTL

\* Requirement 3.5: whatever is killed or fails, the content that was live
\* before an uncommitted load is at the live path, pending or under failed.
THEOREM NothingIsLost == Spec => []NothingLost
  <1>1. IInv => NothingLost
    BY DEF IInv
  <1> QED
    BY <1>1, Invariance, PTL

\* No guest runs on the live bundle while a transaction is unresolved.
THEOREM GuestsWait == Spec => []NoGuestDuringTransaction
  <1>1. IInv => NoGuestDuringTransaction
    BY DEF IInv
  <1> QED
    BY <1>1, Invariance, PTL

\* Reconciliation can find every displaced bundle through the journal.
THEOREM PendingIsFound == Spec => []PendingIsJournaled
  <1>1. IInv => PendingIsJournaled
    BY DEF IInv
  <1> QED
    BY <1>1, Invariance, PTL
===============================================================================
