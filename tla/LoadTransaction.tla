---------------------------- MODULE LoadTransaction ----------------------------
(***************************************************************************)
(* `vmctl load NAME` and `vmctl reset`: the journaled replacement of the   *)
(* live VM bundle by a clone of a snapshot (commands.py _load_transaction, *)
(* transactions.py), the reconciliation every mutating command runs first, *)
(* and `vmctl start`, after which the guest changes the live bundle.       *)
(*                                                                         *)
(* The disk survives everything; the process is one vmctl command that     *)
(* holds the advisory lock (store.py FileLock), so there is one at a time. *)
(* It may be killed before each step, and each file-system step may fail.  *)
(***************************************************************************)
EXTENDS Naturals

CONSTANTS
    Snapshots,   \* names of finished, valid, immutable snapshots
    Ids,         \* transaction identifiers (uuid4)
    None,        \* nothing at a path, or a null field
    Partial,     \* a bundle directory half copied or half deleted
    Empty,       \* a directory without VM.bundle in it
    MaxWrites,   \* bound: guest sessions that change the disk
    MaxCrashes,  \* bound: times a vmctl process is killed
    MaxFaults    \* bound: file-system operations that fail

Content == [from : Snapshots, rev : Nat]
Clone(s) == [from |-> s, rev |-> 0]

\* live.json
Origin == [source : Snapshots \cup {None}, detached : BOOLEAN]
Attached(s) == [source |-> s, detached |-> FALSE]
Detached == [source |-> None, detached |-> TRUE]

\* transaction.json
Phases == {"prepared", "displaced", "activated", "committed"}
Journal == [id : Ids, source : Snapshots, prev : Origin, phase : Phases]

\* Anything a bundle path can hold that is no valid VM content.
Marks == {None, Partial, Empty}

ASSUME MarksAssumption ==
    /\ None # Partial /\ None # Empty /\ Partial # Empty
    /\ Marks \cap Content = {}
    /\ None \notin Snapshots \cup Ids \cup Journal

ASSUME BoundsAssumption == MaxWrites \in Nat /\ MaxCrashes \in Nat /\ MaxFaults \in Nat

VARIABLES
    \* ------------------------------ the disk ------------------------------
    live,        \* config.live_bundle
    origin,      \* state/live.json: sourceSnapshot and detached
    temp,        \* .VM.bundle.vmctl-<id>, beside the live bundle
    pending,     \* recovery/pending/<id>: None, Empty or its VM.bundle
    journal,     \* state/transaction.json
    failed,      \* contents kept under recovery/failed
    \* ---------------------------- the processes ---------------------------
    pc,          \* next step of the vmctl command, "idle" when none runs
    source,      \* the snapshot to load, None for `vmctl start`
    tid,         \* the identifier the command works with
    caller,      \* who called reconcile_transaction
    outcome,     \* how the last command ended
    runner,      \* "running" while its process has the live bundle open
    \* --------------------------- history, bounds --------------------------
    before,      \* live content and origin when the last load began
    writes, crashes, faults

disk    == <<live, origin, temp, pending, journal, failed>>
process == <<pc, source, tid, caller, outcome>>
bounds  == <<writes, crashes, faults>>
vars    == <<disk, process, runner, before, bounds>>

\* validate_bundle: the required artifacts are all there.
Valid(bundle) == bundle \in Content
Exists(bundle) == bundle # None

\* pending/<id>/VM.bundle, as rollback.exists() sees it.
RollbackExists(id) == pending[id] \notin {None, Empty}

Uncommitted == journal # None /\ journal.phase # "committed"

\* An identifier nothing on the disk bears.
Fresh == {id \in Ids : temp[id] = None /\ pending[id] = None}

LoadSteps == {
    "check", "clone", "copy", "begin", "makePending", "displace",
    "phaseDisplaced", "activate", "phaseActivated", "setOrigin", "verify",
    "phaseCommitted", "handler", "discard", "keep"}
ReconcileSteps == {
    "reconcile", "checkRollback", "setAsideLive", "restore",
    "checkRestored", "restoreOrigin", "checkPrepared", "checkCommitted",
    "deleteTemp", "deletePending", "clear", "quarantine", "retire"}
Steps == {"idle", "launch"} \cup LoadSteps \cup ReconcileSteps

BundleTypes ==
    /\ live \in Content \cup {None}
    /\ temp \in [Ids -> Content \cup {None, Partial}]
    /\ pending \in [Ids -> Content \cup Marks]
    /\ failed \subseteq Content \cup {Partial, Empty}

RecordTypes ==
    /\ origin \in Origin
    /\ journal \in Journal \cup {None}
    /\ before \in [live : Content, origin : Origin]

ProcessTypes ==
    /\ pc \in Steps
    /\ source \in Snapshots \cup {None}
    /\ tid \in Ids \cup {None}
    /\ caller \in {"command", "load", "handler"}
    /\ outcome \in {"none", "loaded", "restored", "failed", "refused", "started", "killed"}
    /\ runner \in {"stopped", "running"}

BoundTypes ==
    /\ writes \in 0..MaxWrites
    /\ crashes \in 0..MaxCrashes
    /\ faults \in 0..MaxFaults

TypeOK == BundleTypes /\ RecordTypes /\ ProcessTypes /\ BoundTypes

\* After `vmctl init`, or after `vmctl remove --detach-live`.
Init ==
    /\ \E s \in Snapshots, o \in Origin :
          /\ o \in {Attached(s), Detached}
          /\ live = Clone(s)
          /\ origin = o
          /\ before = [live |-> Clone(s), origin |-> o]
    /\ temp = [id \in Ids |-> None]
    /\ pending = [id \in Ids |-> None]
    /\ journal = None
    /\ failed = {}
    /\ pc = "idle"
    /\ source = None
    /\ tid = None
    /\ caller = "command"
    /\ outcome = "none"
    /\ runner = "stopped"
    /\ writes = 0 /\ crashes = 0 /\ faults = 0

-------------------------------------------------------------------------------
(* Control: how a step continues, fails or ends the command. *)

Goto(step) == pc' = step /\ UNCHANGED <<source, tid, caller, outcome>>

End(how) ==
    /\ pc' = "idle" /\ outcome' = how
    /\ source' = None /\ tid' = None /\ caller' = "command"

\* One file-system operation fails; the bound is MaxFaults.
Fault == faults < MaxFaults /\ faults' = faults + 1
NoFault == UNCHANGED faults

\* A step of _load_transaction: done, then `next`; or failed, then the handler.
Do(next) == NoFault /\ Goto(next)
Fail == Fault /\ Goto("handler")

\* The same in reconcile_transaction, whose except clause quarantines.
FailReconcile == Fault /\ Goto("quarantine")

Reached(step) == pc = step /\ UNCHANGED <<runner, writes, crashes>>

-------------------------------------------------------------------------------
(* The commands.  The lock is free, since no command runs. *)

BeginCommand(s) ==
    /\ Reached("idle")
    /\ pc' = "reconcile" /\ source' = s /\ outcome' = "none"
    /\ UNCHANGED <<tid, caller, disk, before, faults>>

\* load, revert and reset; Fresh # {} bounds the identifiers in use.
BeginLoad == Fresh # {} /\ \E s \in Snapshots : BeginCommand(s)

\* Mutant: start forgets _reconcile_if_needed.
BeginStartUnreconciled ==
    /\ Reached("idle")
    /\ pc' = "launch" /\ source' = None /\ outcome' = "none"
    /\ UNCHANGED <<tid, caller, disk, before, faults>>

\* start; any other mutating command starts with the same reconciliation.
BeginStart == BeginCommand(None)

\* lifecycle.start validates the live bundle, refuses a second runner and
\* launches one.  The launch is one step here: until the runner has written its
\* first runtime record no other command runs.
Launch ==
    /\ pc = "launch"
    /\ IF Valid(live) /\ runner = "stopped"
       THEN runner' = "running" /\ End("started")
       ELSE End("refused") /\ UNCHANGED runner
    /\ UNCHANGED <<disk, before, bounds>>

\* The guest writes to its disk; the live bundle stays where it is.
GuestWrite ==
    /\ runner = "running" /\ live \in Content /\ writes < MaxWrites
    /\ live' = [live EXCEPT !.rev = writes + 1]
    /\ writes' = writes + 1
    /\ UNCHANGED <<origin, temp, pending, journal, failed, process, runner,
                   before, crashes, faults>>

\* `vmctl stop`, `vmctl shutdown` or the guest itself: they take no lock.
GuestStops ==
    /\ runner = "running" /\ runner' = "stopped"
    /\ UNCHANGED <<disk, process, before, bounds>>

\* The vmctl process dies; the kernel drops its flock.
Crash ==
    /\ pc # "idle" /\ crashes < MaxCrashes
    /\ crashes' = crashes + 1
    /\ End("killed")
    /\ UNCHANGED <<disk, runner, before, writes, faults>>

-------------------------------------------------------------------------------
(* _load_transaction, one action per step that touches the disk. *)

\* _require_stopped, validate_bundle(live), a new identifier, live_origin().
CheckLoad ==
    /\ Reached("check")
    /\ IF runner = "running" \/ ~Valid(live)
       THEN End("refused") /\ UNCHANGED before
       ELSE /\ \E id \in Fresh : tid' = id
            /\ before' = [live |-> live, origin |-> origin]
            /\ pc' = "clone" /\ UNCHANGED <<source, caller, outcome>>
    /\ UNCHANGED <<disk, faults>>

\* clone_bundle: cp creates the destination, ...
CloneStarts ==
    /\ Reached("clone")
    /\ \/ temp' = [temp EXCEPT ![tid] = Partial] /\ Do("copy")
       \/ temp' = temp /\ Fail
    /\ UNCHANGED <<live, origin, pending, journal, failed, before>>

\* Mutant: the exit status of cp and the destination are not checked.
CloneEndsUnchecked ==
    /\ Reached("copy")
    /\ temp' \in {temp, [temp EXCEPT ![tid] = Clone(source)]} /\ Do("begin")
    /\ UNCHANGED <<live, origin, pending, journal, failed, before>>

\* ... fills it, and the result is validated.
CloneEnds ==
    /\ Reached("copy")
    /\ \/ temp' = [temp EXCEPT ![tid] = Clone(source)] /\ Do("begin")
       \/ temp' \in {temp, [temp EXCEPT ![tid] = Clone(source)]} /\ Fail
    /\ UNCHANGED <<live, origin, pending, journal, failed, before>>

\* begin_transaction: refuses a second journal.  A failed atomic_write_json
\* may have replaced the file before it raised (fsync of the directory).
BeginTransaction ==
    LET entry == [id |-> tid, source |-> source, prev |-> before.origin,
                  phase |-> "prepared"]
    IN  /\ Reached("begin")
        /\ IF journal # None
           THEN UNCHANGED <<journal, faults>> /\ Goto("handler")
           ELSE \/ journal' = entry /\ Do("makePending")
                \/ journal' \in {None, entry} /\ Fail
        /\ UNCHANGED <<live, origin, temp, pending, failed, before>>

\* move_path(live, rollback): the parent directory, then the rename.
MakePending ==
    /\ Reached("makePending")
    /\ \/ pending' = [pending EXCEPT ![tid] = Empty] /\ Do("displace")
       \/ pending' = pending /\ Fail
    /\ UNCHANGED <<live, origin, temp, journal, failed, before>>

Displace ==
    /\ Reached("displace")
    /\ \/ /\ pending' = [pending EXCEPT ![tid] = live]
          /\ live' = None
          /\ Do("phaseDisplaced")
       \/ UNCHANGED <<pending, live>> /\ Fail
    /\ UNCHANGED <<origin, temp, journal, failed, before>>

\* set_transaction_phase(phase), atomic_write_json as above.
SetPhase(phase, step, next) ==
    LET entry == [journal EXCEPT !.phase = phase]
    IN  /\ Reached(step)
        /\ \/ journal' = entry /\ Do(next)
           \/ journal' \in {journal, entry} /\ Fail
        /\ UNCHANGED <<live, origin, temp, pending, failed, before>>

PhaseDisplaced == SetPhase("displaced", "phaseDisplaced", "activate")

\* os.replace(temporary_live, live_bundle)
Activate ==
    /\ Reached("activate")
    /\ \/ /\ live' = temp[tid]
          /\ temp' = [temp EXCEPT ![tid] = None]
          /\ Do("phaseActivated")
       \/ UNCHANGED <<live, temp>> /\ Fail
    /\ UNCHANGED <<origin, pending, journal, failed, before>>

PhaseActivated == SetPhase("activated", "phaseActivated", "setOrigin")

\* catalog.set_live_origin(name)
SetLiveOrigin ==
    /\ Reached("setOrigin")
    /\ \/ origin' = Attached(source) /\ Do("verify")
       \/ origin' \in {origin, Attached(source)} /\ Fail
    /\ UNCHANGED <<live, temp, pending, journal, failed, before>>

\* validate_bundle(live) and the origin that was read back.
Verify ==
    /\ Reached("verify")
    /\ IF Valid(live) /\ origin = Attached(source)
       THEN Do("phaseCommitted") \/ Fail
       ELSE NoFault /\ Goto("handler")
    /\ UNCHANGED <<disk, before>>

\* The commit point; reconcile_transaction then cleans up.
PhaseCommitted ==
    LET entry == [journal EXCEPT !.phase = "committed"]
    IN  /\ Reached("phaseCommitted")
        /\ \/ /\ journal' = entry /\ NoFault
              /\ pc' = "reconcile" /\ caller' = "load"
              /\ UNCHANGED <<source, tid, outcome>>
           \/ journal' \in {journal, entry} /\ Fail
        /\ UNCHANGED <<live, origin, temp, pending, failed, before>>

\* except Exception: reconcile a surviving journal, else drop the clone.
Handler ==
    /\ Reached("handler")
    /\ IF journal # None
       THEN pc' = "reconcile" /\ caller' = "handler" /\ UNCHANGED <<source, tid, outcome>>
       ELSE IF Exists(temp[tid]) THEN Goto("discard") ELSE End("failed")
    /\ UNCHANGED <<disk, before, faults>>

\* permanent_delete_tree: rmtree is not atomic and may stop half way.
Discard ==
    /\ Reached("discard")
    /\ \/ temp[tid] # Partial /\ temp' = [temp EXCEPT ![tid] = Partial] /\ Do("discard")
       \/ temp[tid] = Partial /\ temp' = [temp EXCEPT ![tid] = None] /\ NoFault /\ End("failed")
       \/ temp' = temp /\ Fault /\ Goto("keep")
    /\ UNCHANGED <<live, origin, pending, journal, failed, before>>

\* "Failed live clone preserved at": move_path to recovery/failed.
Keep ==
    /\ Reached("keep")
    /\ \/ /\ failed' = failed \cup {temp[tid]}
          /\ temp' = [temp EXCEPT ![tid] = None]
          /\ NoFault
       \/ UNCHANGED <<failed, temp>> /\ Fault
    /\ End("failed")
    /\ UNCHANGED <<live, origin, pending, journal, before>>

-------------------------------------------------------------------------------
(* reconcile_transaction *)

\* Mutant: every action of the handler's reconciliation is called a rollback.
FinishedRestored ==
    \/ /\ caller = "command"
       /\ IF source = None THEN Goto("launch") ELSE Goto("check")
    \/ caller = "load" /\ End("loaded")
    \/ caller = "handler" /\ End("restored")

\* What the caller does after a normal return.
Finished ==
    \/ /\ caller = "command"
       /\ IF source = None THEN Goto("launch") ELSE Goto("check")
    \/ caller = "load" /\ End("loaded")
    \/ /\ caller = "handler"
       /\ IF Uncommitted THEN End("restored") ELSE End("failed")

\* What the caller does when it raises: only _load_transaction's own call on
\* its success path is inside its try block.
Raised ==
    IF caller = "load"
    THEN pc' = "handler" /\ UNCHANGED <<source, tid, caller, outcome>>
    ELSE End("failed")

\* Mutants: an activated transaction counts as committed; a live bundle that
\* exists is kept although the rollback bundle exists too.
ReadJournalEarly ==
    /\ Reached("reconcile")
    /\ IF journal = None THEN Finished
       ELSE /\ tid' = journal.id
            /\ pc' = IF journal.phase \in {"activated", "committed"}
                     THEN "checkCommitted"
                     ELSE IF RollbackExists(journal.id) THEN "checkRollback"
                     ELSE "quarantine"
            /\ UNCHANGED <<source, caller, outcome>>
    /\ UNCHANGED <<disk, before, faults>>

ReadJournalKeepsLive ==
    /\ Reached("reconcile")
    /\ IF journal = None THEN Finished
       ELSE /\ tid' = journal.id
            /\ pc' = IF Exists(live) THEN "checkPrepared" ELSE "checkRollback"
            /\ UNCHANGED <<source, caller, outcome>>
    /\ UNCHANGED <<disk, before, faults>>

\* The choice of a recovery; the identifier comes from the journal.
ReadJournal ==
    /\ Reached("reconcile")
    /\ IF journal = None THEN Finished
       ELSE IF caller = "command" /\ runner = "running" THEN End("refused")
       ELSE /\ tid' = journal.id
            /\ pc' = IF journal.phase = "committed" THEN "checkCommitted"
                     ELSE IF RollbackExists(journal.id) THEN "checkRollback"
                     ELSE IF journal.phase = "prepared" /\ Exists(live)
                          THEN "checkPrepared" ELSE "quarantine"
            /\ UNCHANGED <<source, caller, outcome>>
    /\ UNCHANGED <<disk, before, faults>>

CheckCommitted ==
    /\ Reached("checkCommitted")
    /\ IF Valid(live) /\ origin = Attached(journal.source)
       THEN Do("deleteTemp") \/ FailReconcile
       ELSE NoFault /\ Goto("quarantine")
    /\ UNCHANGED <<disk, before>>

CheckPrepared ==
    /\ Reached("checkPrepared")
    /\ IF Valid(live)
       THEN Do("deleteTemp") \/ FailReconcile
       ELSE NoFault /\ Goto("quarantine")
    /\ UNCHANGED <<disk, before>>

\* _rollback_uncommitted: the rollback must be a valid bundle, ...
CheckRollback ==
    /\ Reached("checkRollback")
    /\ IF Valid(pending[tid])
       THEN \/ Do(IF Exists(live) THEN "setAsideLive" ELSE "restore")
            \/ FailReconcile
       ELSE NoFault /\ Goto("quarantine")
    /\ UNCHANGED <<disk, before>>

\* ... an activated clone goes back to the temporary path, ...
SetAsideLive ==
    /\ Reached("setAsideLive")
    /\ IF Exists(temp[tid])
       THEN UNCHANGED <<live, temp>> /\ NoFault /\ Goto("quarantine")
       ELSE \/ /\ temp' = [temp EXCEPT ![tid] = live]
               /\ live' = None
               /\ Do("restore")
            \/ UNCHANGED <<live, temp>> /\ FailReconcile
    /\ UNCHANGED <<origin, pending, journal, failed, before>>

\* ... and the old live bundle comes back.
Restore ==
    /\ Reached("restore")
    /\ \/ /\ live' = pending[tid]
          /\ pending' = [pending EXCEPT ![tid] = Empty]
          /\ Do("checkRestored")
       \/ UNCHANGED <<live, pending>> /\ FailReconcile
    /\ UNCHANGED <<origin, temp, journal, failed, before>>

CheckRestored ==
    /\ Reached("checkRestored")
    /\ IF Valid(live)
       THEN Do("restoreOrigin") \/ FailReconcile
       ELSE NoFault /\ Goto("quarantine")
    /\ UNCHANGED <<disk, before>>

\* Mutant: previousLiveOrigin is not written back.
RestoreOriginSkipped ==
    /\ Reached("restoreOrigin")
    /\ Do("deleteTemp")
    /\ UNCHANGED <<disk, before>>

RestoreOrigin ==
    /\ Reached("restoreOrigin")
    /\ \/ origin' = journal.prev /\ Do("deleteTemp")
       \/ origin' \in {origin, journal.prev} /\ FailReconcile
    /\ UNCHANGED <<live, temp, pending, journal, failed, before>>

\* _delete_temporary and _delete_pending: skipped when there is nothing, in two
\* steps otherwise, since a kill or an error may leave part of the tree.
DeleteTemp ==
    /\ Reached("deleteTemp")
    /\ CASE temp[tid] = None    -> temp' = temp /\ Do("deletePending")
         [] temp[tid] = Partial -> \/ temp' = [temp EXCEPT ![tid] = None] /\ Do("deletePending")
                                   \/ temp' = temp /\ FailReconcile
         [] OTHER               -> \/ temp' = [temp EXCEPT ![tid] = Partial] /\ Do("deleteTemp")
                                   \/ temp' = temp /\ FailReconcile
    /\ UNCHANGED <<live, origin, pending, journal, failed, before>>

\* Mutant: the journal is cleared with the rollback directory still there.
DeletePendingLater ==
    /\ Reached("deletePending")
    /\ Do("clear")
    /\ UNCHANGED <<disk, before>>

DeletePending ==
    /\ Reached("deletePending")
    /\ CASE pending[tid] = None -> pending' = pending /\ Do("clear")
         [] Valid(pending[tid]) -> \/ pending' = [pending EXCEPT ![tid] = Partial] /\ Do("deletePending")
                                   \/ pending' = pending /\ FailReconcile
         [] OTHER               -> \/ pending' = [pending EXCEPT ![tid] = None] /\ Do("clear")
                                   \/ pending' = pending /\ FailReconcile
    /\ UNCHANGED <<live, origin, temp, journal, failed, before>>

\* _clear_journal: unlink, then an fsync of the directory that may still fail.
Clear ==
    /\ Reached("clear")
    /\ \/ journal' = None /\ NoFault /\ Finished
       \/ journal' \in {journal, None} /\ FailReconcile
    /\ UNCHANGED <<live, origin, temp, pending, failed, before>>

\* Mutant: the pending directory is removed, not moved.
QuarantineDeletes ==
    /\ Reached("quarantine")
    /\ failed' = failed \cup {Empty}
    /\ pending' = [pending EXCEPT ![tid] = None]
    /\ Do("retire")
    /\ UNCHANGED <<live, origin, temp, journal, before>>

\* _quarantine_failure: pending/<id>, or an empty directory, becomes an entry
\* of recovery/failed.
Quarantine ==
    /\ Reached("quarantine")
    /\ \/ /\ failed' = failed \cup {IF pending[tid] # None THEN pending[tid] ELSE Empty}
          /\ pending' = [pending EXCEPT ![tid] = None]
          /\ Do("retire")
       \/ UNCHANGED <<failed, pending>> /\ Fault /\ Raised
    /\ UNCHANGED <<live, origin, temp, journal, before>>

\* Mutant: the journal stays where it is.
RetireKeepsJournal ==
    /\ Reached("retire")
    /\ NoFault /\ Raised
    /\ UNCHANGED <<disk, before>>

\* failure.json is written and the journal moves beside it; then it raises.
Retire ==
    /\ Reached("retire")
    /\ \/ journal' = None /\ NoFault
       \/ UNCHANGED journal /\ Fault
    /\ Raised
    /\ UNCHANGED <<live, origin, temp, pending, failed, before>>

-------------------------------------------------------------------------------

LoadStep ==
    \/ CheckLoad \/ CloneStarts \/ CloneEnds \/ BeginTransaction
    \/ MakePending \/ Displace \/ PhaseDisplaced \/ Activate \/ PhaseActivated
    \/ SetLiveOrigin \/ Verify \/ PhaseCommitted \/ Handler \/ Discard \/ Keep

ReconcileStep ==
    \/ ReadJournal \/ CheckCommitted \/ CheckPrepared \/ CheckRollback
    \/ SetAsideLive \/ Restore \/ CheckRestored \/ RestoreOrigin
    \/ DeleteTemp \/ DeletePending \/ Clear \/ Quarantine \/ Retire

CommandStep == Launch \/ LoadStep \/ ReconcileStep

Next ==
    \/ BeginLoad \/ BeginStart
    \/ CommandStep
    \/ GuestWrite \/ GuestStops
    \/ Crash

Spec == Init /\ [][Next]_vars

\* A running command proceeds, and a user whose command was interrupted runs
\* another mutating command (here: vmctl start) some day.
FairSpec ==
    /\ Spec
    /\ WF_vars(CommandStep)
    /\ WF_vars(BeginStart /\ journal # None)

-------------------------------------------------------------------------------
(* Properties *)

\* Requirement 3.5: until the journal says "committed", the content that was
\* live when the load began is still at the live path, under recovery/pending
\* or under recovery/failed, at every step, kill and failure in between.
NothingLost ==
    Uncommitted => before.live \in {live, pending[journal.id]} \cup failed

\* A guest never runs while a transaction is unresolved: start reconciles first
\* and load refuses a running VM, so no rollback is stale when it is restored.
NoGuestDuringTransaction == runner = "running" => journal = None /\ live # None

\* recovery/pending never holds anything the journal does not know of, so
\* reconciliation finds every displaced bundle (reconcile_transaction).
PendingIsJournaled ==
    \A id \in Ids : pending[id] # None => journal # None /\ journal.id = id

\* live.json may name another snapshot than the one the live bundle was cloned
\* from only when recovery/failed tells that a transaction was quarantined.
WrongOriginLeavesEvidence ==
    /\ pc = "idle" /\ journal = None /\ live # None
    /\ ~origin.detached /\ origin.source # live.from
    => failed # {}

\* What a command says is true when it says it: "Loaded snapshot" means a fresh
\* clone, its origin and no trace of the transaction; "Previous live VM
\* restored" means the content and the origin from before, and no journal.
ReportsAreTrue ==
    [][pc # "idle" /\ pc' = "idle" =>
        /\ outcome' = "loaded" =>
              /\ live' = Clone(source) /\ origin' = Attached(source)
              /\ journal' = None /\ temp'[tid] = None /\ pending'[tid] = None
        /\ outcome' = "restored" =>
              /\ live' = before.live /\ origin' = before.origin
              /\ journal' = None /\ temp'[tid] = None /\ pending'[tid] = None
      ]_vars

OnDisk == {live} \cup {temp[id] : id \in Ids} \cup {pending[id] : id \in Ids} \cup failed

\* What a guest wrote leaves the disk only when the guest overwrites it or when
\* the cleanup of a committed load deletes the rollback bundle.
DeletedOnlyAfterCommit ==
    [][\A c \in OnDisk \cap Content :
          c.rev > 0 /\ c \notin OnDisk' =>
              \/ runner = "running" /\ live = c
              \/ /\ journal # None /\ journal.phase = "committed"
                 /\ pending[journal.id] = c
      ]_vars

\* The refinement: the content of the live VM is the rollback bundle until the
\* journal commits, and the live path otherwise.
LogicalLive ==
    IF Uncommitted /\ RollbackExists(journal.id) THEN pending[journal.id] ELSE live

Abstract == INSTANCE LiveVM WITH
    Absent <- None, Leftovers <- {Partial, Empty},
    live <- LogicalLive, archive <- failed

\* The transaction implements the atomic load of LiveVM.
ImplementsLiveVM == Abstract!Spec

\* Requirement 3.9: once an interrupted load is followed by other mutating
\* commands, its journal is resolved, whatever else is killed or fails.
RecoveryEnds == journal # None ~> journal = None

\* Requirement 3.6: live-VM metadata names the snapshot the live bundle was
\* cloned from, so that the next snapshot becomes its logical child.
OriginNamesClone ==
    pc = "idle" /\ journal = None /\ live # None /\ ~origin.detached
        => origin.source = live.from
===============================================================================
