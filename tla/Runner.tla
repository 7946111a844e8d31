-------------------------------- MODULE Runner --------------------------------
(***************************************************************************)
(* `vmctl start`, `stop` and `shutdown` (lifecycle.py) and the VMRunner     *)
(* application that owns the virtual machine (AppDelegate.swift).  They     *)
(* meet in two signals, the records runtime.json and control-response.json *)
(* and the saved state in the live bundle.  start and load hold the        *)
(* advisory lock; stop and shutdown do not, and run beside anything.       *)
(*                                                                         *)
(* The application handles one event at a time (its main queue); between   *)
(* two events the guest runs, the user quits, vmctl looks and signals come *)
(* in.  Virtualization.framework is external: each of its requests ends    *)
(* with success or failure.                                                *)
(***************************************************************************)
EXTENDS Naturals

CONSTANTS
    Clients,     \* vmctl processes
    Runners,     \* process ids of VMRunner; one is used once
    None,        \* no process, no saved state
    Broken,      \* a saved state that a runner did not write to its end
    Torn,        \* such a saved state that came with a snapshot
    MaxChanges,  \* bound: guest writes and loads
    MaxFailures, \* bound: runners that die, and handlers in which a write or
                 \* a removal fails
    MaxGaps      \* bound: starts that end before the runner has a record

ASSUME MarksAssumption ==
    /\ None \notin Nat \cup Runners \cup Clients
    /\ {Broken, Torn} \cap (Nat \cup {None}) = {} /\ Broken # Torn

ASSUME BoundsAssumption ==
    /\ MaxChanges \in Nat
    /\ MaxFailures \in Nat /\ MaxGaps \in Nat

VARIABLES
    \* ----------------------------- the disk -------------------------------
    disk,      \* revision of the live disk image
    save,      \* SaveFile.vzvmsave: the revision it was saved with, or None
    record,    \* runtime.json: pid and state
    response,  \* control-response.json
    \* ---------------------------- the runners -----------------------------
    step,      \* where the application is: "idle" between two events
    vm,        \* state of its virtual machine, and how it ended
    mode,      \* terminationMode
    signals,   \* signals that were sent and not handled
    \* ----------------------------- the clients ----------------------------
    lock,      \* who holds the advisory lock
    pc,        \* next step of the command, "idle" when none runs
    target,    \* the process id the command works with
    \* --------------------------- history, bounds --------------------------
    accepted,  \* runners whose guest was asked to shut down, and has not yet, and
               \* was not asked to suspend since
    lapsed,    \* runners that left a saved state they had used or outlived
    crashes, faults, gaps

files   == <<disk, save, record, response>>
apps    == <<step, vm, mode, signals>>
cli     == <<lock, pc, target>>
history == <<accepted, lapsed>>
bounds  == <<crashes, faults, gaps>>
vars    == <<files, apps, cli, history, bounds>>

RuntimeStates == {"none", "starting", "restoring", "running", "suspending",
    "suspended", "shutdown-requested", "shutdown", "error"}
RuntimeRecord == [pid : Runners \cup {None}, state : RuntimeStates]
Record(pid, state) == [pid |-> pid, state |-> state]
NoRecord == Record(None, "none")

AppSteps == {"absent", "launching", "idle", "resumed", "exiting", "gone"}
Active == {"running", "pausing", "paused", "saving"}
Busy == {"starting", "restoring", "resuming"}
Ended == {"none", "saved", "off", "failed", "lost"}

LockedSteps == {"launch", "poll", "replace"}
FreeSteps == {"waitStop", "checkSave", "await", "waitShutdown"}

\* The process exists, and `ps` shows the runner's executable.
Alive(r) == step[r] \notin {"absent", "gone"}

\* running_pid: the recorded process exists.
Running(r) == record.pid = r /\ Alive(r)
IsRunning == \E r \in Runners : Running(r)

HasGuest(r) == vm[r] \in Active \cup Busy

FileTypes ==
    /\ disk \in Nat
    /\ save \in Nat \cup {None, Broken, Torn}
    /\ record \in RuntimeRecord
    /\ response \in {"none", "accepted", "rejected"}

AppTypes ==
    /\ step \in [Runners -> AppSteps]
    /\ vm \in [Runners -> Active \cup Busy \cup Ended]
    /\ mode \in [Runners -> {"suspend", "shutdown"}]
    /\ signals \in [Runners -> SUBSET {"suspend", "shutdown"}]

ClientTypes ==
    /\ lock \in Clients \cup {None}
    /\ pc \in [Clients -> {"idle"} \cup LockedSteps \cup FreeSteps]
    /\ target \in [Clients -> Runners \cup {None}]

BoundTypes ==
    /\ accepted \subseteq Runners /\ lapsed \subseteq Runners
    /\ crashes \in Nat /\ faults \in Nat /\ crashes + faults <= MaxFailures
    /\ gaps \in 0..MaxGaps

TypeOK == FileTypes /\ AppTypes /\ ClientTypes /\ BoundTypes

\* An initialized installation, its VM shut down or suspended.
Init ==
    /\ disk = 0 /\ save \in {None, 0}
    /\ record = NoRecord /\ response = "none"
    /\ step = [r \in Runners |-> "absent"]
    /\ vm = [r \in Runners |-> "none"]
    /\ mode = [r \in Runners |-> "suspend"]
    /\ signals = [r \in Runners |-> {}]
    /\ lock = None
    /\ pc = [c \in Clients |-> "idle"]
    /\ target = [c \in Clients |-> None]
    /\ accepted = {} /\ lapsed = {}
    /\ crashes = 0 /\ faults = 0 /\ gaps = 0

-------------------------------------------------------------------------------
(* The application: control *)

\* The main queue of r is free, and the next event is handled.
Event(r) == step[r] = "idle" /\ UNCHANGED <<disk, cli, crashes, gaps>>

GoTo(r, at) == step' = [step EXCEPT ![r] = at]
Becomes(r, state) == vm' = [vm EXCEPT ![r] = state]
Mode(r, m) == mode' = [mode EXCEPT ![r] = m]

\* The operations of one handler that fail; the application only logs it.
Failing(operations) ==
    \/ operations = {} /\ UNCHANGED faults
    \/ operations # {} /\ crashes + faults < MaxFailures /\ faults' = faults + 1

\* Mutant: a write that fails leaves half a record.
WriteRuntimeTorn(pid, state) ==
    \E failing \in SUBSET {"record"} :
        /\ Failing(failing)
        /\ record' = IF failing = {} THEN Record(pid, state) ELSE Record(pid, "torn")

\* writeRuntime, when nothing or only the record may fail in the handler.
WriteRuntime(pid, state) ==
    \E failing \in SUBSET {"record"} :
        /\ Failing(failing)
        /\ record' = IF failing = {} THEN Record(pid, state) ELSE record

\* try? removeItem(saveFile), then writeRuntime.
RemoveSaveAndWrite(r, pid, state) ==
    \E failing \in SUBSET {"save", "record"} :
        /\ Failing(failing)
        /\ record' = IF "record" \in failing THEN record ELSE Record(pid, state)
        /\ \/ "save" \notin failing /\ save' = None /\ UNCHANGED lapsed
           \/ "save" \in failing /\ save # None /\ save' = save /\ lapsed' = lapsed \cup {r}

\* The error record, then terminateAfterFailure; the VM is no more.
FailsToStart(r) ==
    /\ WriteRuntime(r, "error") /\ Mode(r, "shutdown")
    /\ GoTo(r, "exiting") /\ Becomes(r, "none")

-------------------------------------------------------------------------------
(* The application: launch, start and restore *)

Gap == gaps < MaxGaps /\ gaps' = gaps + 1

\* The first record.  Without it the runner is invisible to vmctl: a gap.
FirstRecord(r, state) ==
    \/ record' = Record(r, state) /\ UNCHANGED gaps
    \/ record' = record /\ Gap

\* applicationDidFinishLaunching: the VM is created, and started or restored;
\* or createVirtualMachine throws.
FinishLaunching(r) ==
    /\ step[r] = "launching"
    /\ \/ /\ save = None /\ Becomes(r, "starting") /\ FirstRecord(r, "starting")
          /\ GoTo(r, "idle") /\ UNCHANGED mode
       \/ /\ save # None /\ Becomes(r, "restoring") /\ FirstRecord(r, "restoring")
          /\ GoTo(r, "idle") /\ UNCHANGED mode
       \/ /\ UNCHANGED vm /\ FirstRecord(r, "error")
          /\ GoTo(r, "exiting") /\ Mode(r, "shutdown")
    /\ UNCHANGED <<disk, save, response, signals, cli, history, crashes, faults>>

\* start ends: handleStartResult.
StartEnds(r) ==
    /\ Event(r) /\ vm[r] = "starting"
    /\ \/ Becomes(r, "running") /\ WriteRuntime(r, "running") /\ UNCHANGED <<step, mode>>
       \/ FailsToStart(r)
    /\ UNCHANGED <<save, response, signals, history>>

\* restoreMachineStateFrom ends: resume, or fail and keep the save file.  A
\* saved state that was not written to its end cannot be restored.
RestoreEnds(r) ==
    /\ Event(r) /\ vm[r] = "restoring"
    /\ \/ save \notin {Broken, Torn} /\ Becomes(r, "resuming") /\ UNCHANGED <<step, mode, record, faults>>
       \/ FailsToStart(r)
    /\ UNCHANGED <<save, response, signals, history>>

\* resume ends: from here on the guest runs, ...
ResumeEnds(r) ==
    /\ Event(r) /\ vm[r] = "resuming"
    /\ \/ /\ Becomes(r, "running") /\ GoTo(r, "resumed")
          /\ UNCHANGED <<mode, record, faults>>
       \/ FailsToStart(r)
    /\ UNCHANGED <<save, response, signals, history>>

\* Mutant: the save file is left where it is.
ConsumeForgotten(r) ==
    /\ step[r] = "resumed" /\ GoTo(r, "idle")
    /\ WriteRuntime(r, "running")
    /\ UNCHANGED <<disk, save, response, vm, mode, signals, cli, history, crashes, gaps>>

\* ... and handleStartResult removes the saved state it was resumed from.
Consume(r) ==
    /\ step[r] = "resumed" /\ GoTo(r, "idle")
    /\ RemoveSaveAndWrite(r, r, "running")
    /\ UNCHANGED <<disk, response, vm, mode, signals, cli, accepted, crashes, gaps>>

-------------------------------------------------------------------------------
(* The application: suspend *)

\* suspendInProgress: from beginSuspend until a failure or the exit.
SuspendInProgress(r) == vm[r] \in {"pausing", "saving"}

\* beginSuspend
BeginSuspend(r) ==
    \/ SuspendInProgress(r) /\ UNCHANGED <<vm, record, faults>>
    \/ vm[r] = "running" /\ Becomes(r, "pausing") /\ WriteRuntime(r, "suspending")
    \/ vm[r] = "paused" /\ Becomes(r, "saving") /\ UNCHANGED <<record, faults>>
    \/ vm[r] \notin Active /\ UNCHANGED vm /\ WriteRuntime(r, "error")

Handled(r, signal) ==
    /\ signal \in signals[r]
    /\ signals' = [signals EXCEPT ![r] = @ \ {signal}]

\* The SIGUSR2 source.
SuspendSignal(r) ==
    /\ Event(r) /\ Handled(r, "suspend")
    /\ Mode(r, "suspend") /\ accepted' = accepted \ {r} /\ BeginSuspend(r)
    /\ UNCHANGED <<save, response, step, lapsed>>

\* pause ends.
PauseEnds(r) ==
    /\ Event(r) /\ vm[r] = "pausing"
    /\ \/ Becomes(r, "saving") /\ UNCHANGED <<record, faults>>
       \/ Becomes(r, "running") /\ WriteRuntime(r, "error")
    /\ UNCHANGED <<save, response, step, mode, signals, history>>

\* Mutant: the record of a VM that could not be saved has no pid.
SaveEndsForgetsPid(r) ==
    /\ Event(r) /\ vm[r] = "saving"
    /\ Becomes(r, "paused") /\ WriteRuntime(None, "error")
    /\ UNCHANGED <<save, response, mode, step, signals, history>>

\* saveMachineStateTo ends: the record without a pid, then the exit; or the VM
\* stays paused, and part of the file may be there.
SaveEnds(r) ==
    /\ Event(r) /\ vm[r] = "saving"
    /\ \/ /\ save' = disk /\ Becomes(r, "saved") /\ WriteRuntime(None, "suspended")
          /\ Mode(r, "shutdown") /\ GoTo(r, "exiting")
       \/ /\ save' \in {save, Broken} /\ Becomes(r, "paused") /\ WriteRuntime(r, "error")
          /\ UNCHANGED <<mode, step>>
    /\ UNCHANGED <<response, signals, history>>

-------------------------------------------------------------------------------
(* The application: guest shutdown, quit and exit *)

\* The SIGUSR1 source, requestGuestShutdown: canRequestStop and requestStop
\* succeed, and the record and the response are written; ...
Accept(r) ==
    /\ vm[r] = "running" /\ Mode(r, "shutdown") /\ accepted' = accepted \cup {r}
    /\ \E failing \in SUBSET {"record", "response"} :
          /\ Failing(failing)
          /\ record' = IF "record" \in failing THEN record ELSE Record(r, "shutdown-requested")
          /\ response' = IF "response" \in failing THEN response ELSE "accepted"

\* ... or the VM cannot be asked, or requestStop throws.
Reject(r) ==
    /\ \/ vm[r] # "running" /\ UNCHANGED <<mode, accepted>>
       \/ vm[r] = "running" /\ Mode(r, "suspend") /\ accepted' = accepted \ {r}
    /\ \E failing \in SUBSET {"response"} :
          Failing(failing) /\ response' = IF failing = {} THEN "rejected" ELSE response
    /\ UNCHANGED record

ShutdownSignal(r) ==
    /\ Event(r) /\ Handled(r, "shutdown")
    /\ Accept(r) \/ Reject(r)
    /\ UNCHANGED <<save, vm, step, lapsed>>

\* The guest changes its disk.
GuestWrites(r) ==
    /\ vm[r] = "running" /\ disk < MaxChanges
    /\ disk' = disk + 1
    /\ UNCHANGED <<save, record, response, apps, cli, history, bounds>>

\* The guest shuts down, or its VM stops with an error; guestDidStop is queued.
GuestStops(r) ==
    /\ vm[r] \in Active /\ step[r] # "exiting"
    /\ \/ vm[r] \in {"running", "pausing"} /\ Becomes(r, "off")
       \/ Becomes(r, "failed")
    /\ UNCHANGED <<files, step, mode, signals, cli, history, bounds>>

\* guestDidStop: the saved state is removed, the record loses its pid.
DidStop(r) ==
    /\ Event(r) /\ vm[r] \in {"off", "failed"}
    /\ Mode(r, "shutdown") /\ GoTo(r, "exiting")
    /\ RemoveSaveAndWrite(r, None, IF vm[r] = "off" THEN "shutdown" ELSE "error")
    /\ accepted' = accepted \ {r}
    /\ UNCHANGED <<response, vm, signals>>

\* Mutant: quitting never suspends.
QuitAtOnce(r) ==
    /\ Event(r) /\ GoTo(r, "exiting")
    /\ UNCHANGED <<save, record, response, vm, mode, signals, history, faults>>

\* The user quits or closes the window: applicationShouldTerminate.
Quit(r) ==
    /\ Event(r)
    /\ \/ mode[r] = "suspend" /\ BeginSuspend(r) /\ UNCHANGED step
       \/ mode[r] = "shutdown" /\ GoTo(r, "exiting") /\ UNCHANGED <<vm, record, faults>>
    /\ UNCHANGED <<save, response, mode, signals, history>>

\* The process is gone; a guest that still ran has lost its power.
Gone(r) ==
    /\ GoTo(r, "gone") /\ Becomes(r, IF HasGuest(r) THEN "lost" ELSE vm[r])
    /\ Mode(r, "suspend") /\ accepted' = accepted \ {r}
    /\ signals' = [signals EXCEPT ![r] = {}]

Exit(r) ==
    /\ step[r] = "exiting" /\ Gone(r)
    /\ UNCHANGED <<files, cli, lapsed, bounds>>

\* The process dies, at any step.  It may have written its saved state, or
\* part of it; it may have resumed from one, or stopped, and not removed it.
Crash(r) ==
    /\ Alive(r) /\ Gone(r)
    /\ crashes + faults < MaxFailures /\ crashes' = crashes + 1
    /\ save' \in IF vm[r] = "saving" THEN {save, Broken, disk} ELSE {save}
    /\ lapsed' = IF step[r] = "resumed" \/ vm[r] \in {"off", "failed"}
                 THEN lapsed \cup {r} ELSE lapsed
    /\ UNCHANGED <<disk, record, response, cli, faults, gaps>>

-------------------------------------------------------------------------------
(* vmctl: control.  Steps between which nothing that another process does    *)
(* makes a difference are one.                                               *)

\* A step of the command c; nothing else changes what vmctl never changes.
At(c, here, next) ==
    /\ pc[c] = here /\ pc' = [pc EXCEPT ![c] = next]
    /\ UNCHANGED <<vm, mode, history, crashes, faults>>

\* The command ends, and its lock is released.
Finish(c, here) ==
    /\ At(c, here, "idle")
    /\ lock' = IF lock = c THEN None ELSE lock
    /\ target' = [target EXCEPT ![c] = None]

Quiet == UNCHANGED <<files, step, signals>>

\* The launched runner of c has not written its first record yet.
Unrecorded(c) == \E r \in Runners : target[c] = r /\ step[r] = "launching"

\* A start that ends while its runner is unrecorded leaves a gap.
MayLeave(c) ==
    \/ Unrecorded(c) /\ Gap
    \/ ~Unrecorded(c) /\ UNCHANGED gaps

\* The process is killed or interrupted at any step, or its deadline passes.
GiveUp(c) ==
    /\ pc[c] # "idle" /\ Finish(c, pc[c])
    /\ MayLeave(c) /\ Quiet

-------------------------------------------------------------------------------
(* vmctl start and vmctl load *)

\* Mutants: load does not take the lock; start does not look at the record.
TakeLockForStart(c, next) ==
    /\ ~IsRunning
    /\ IF next = "launch" THEN lock = None /\ lock' = c ELSE lock' = lock
    /\ At(c, "idle", next)
    /\ UNCHANGED <<target, gaps>> /\ Quiet

TakeLockUnchecked(c, next) ==
    /\ lock = None /\ lock' = c
    /\ At(c, "idle", next)
    /\ UNCHANGED <<target, gaps>> /\ Quiet

\* FileLock, then is_running; a command that finds the lock taken or the VM
\* running ends at once.
TakeLock(c, next) ==
    /\ lock = None /\ ~IsRunning /\ lock' = c
    /\ At(c, "idle", next)
    /\ UNCHANGED <<target, gaps>> /\ Quiet

\* start and load, bounded by the process ids and MaxChanges.
BeginStart(c) == (\E r \in Runners : step[r] = "absent") /\ TakeLock(c, "launch")
BeginLoad(c) == disk < MaxChanges /\ TakeLock(c, "replace")

\* The old records go, and `open -n` launches the application.
Launch(c) ==
    /\ At(c, "launch", "poll")
    /\ record' = NoRecord /\ response' = "none"
    /\ \E r \in Runners :
          /\ step[r] = "absent" /\ GoTo(r, "launching")
          /\ target' = [target EXCEPT ![c] = r]
    /\ UNCHANGED <<disk, save, lock, signals, gaps>>

\* `open` fails, or the command ends before it; the old records are gone.
LaunchFails(c) ==
    /\ Finish(c, "launch")
    /\ record' = NoRecord /\ response' = "none"
    /\ UNCHANGED <<disk, save, step, signals, gaps>>

\* Mutant: a record of any state but "error" means that the VM has started.
StartSucceedsEarly(c) ==
    /\ record.state \notin {"none", "error"} /\ Finish(c, "poll")
    /\ UNCHANGED gaps /\ Quiet

\* "VM runner started": start believes the record.
StartSucceeds(c) ==
    /\ record.state = "running" /\ Finish(c, "poll")
    /\ UNCHANGED gaps /\ Quiet

StartFails(c) ==
    /\ record.state = "error" /\ Finish(c, "poll")
    /\ UNCHANGED gaps /\ Quiet

\* The live bundle is replaced by a clone of a snapshot (LoadTransaction has the
\* steps): another disk, and whatever saved state the bundle had when snapshot or
\* commit cloned it.  validate_bundle looks at none: it may be a part of one, and,
\* once a runner left one it should not have, one of another disk.
Replace(c) ==
    /\ Finish(c, "replace")
    /\ disk' = disk + 1
    /\ save' \in {None, disk', Torn} \cup (IF lapsed = {} THEN {} ELSE {disk})
    /\ UNCHANGED <<record, response, step, signals, gaps>>

-------------------------------------------------------------------------------
(* vmctl stop and vmctl shutdown: no lock, and a deadline for every wait *)

\* running_pid and _signal_verified; "The VM is not running." has no effect.
SignalRunner(c, signal, next) ==
    /\ At(c, "idle", next)
    /\ \E r \in Runners :
          /\ Running(r)
          /\ target' = [target EXCEPT ![c] = r]
          /\ signals' = [signals EXCEPT ![r] = @ \cup {signal}]
    /\ UNCHANGED <<disk, save, record, step, lock, gaps>>

BeginStop(c) == SignalRunner(c, "suspend", "waitStop") /\ UNCHANGED response

\* shutdown drops the last response first.
BeginShutdown(c) == SignalRunner(c, "shutdown", "await") /\ response' = "none"

NotRunning(c) == pc[c] = "idle" /\ ~IsRunning /\ UNCHANGED vars

\* _wait_for_exit
TargetGone(c) == \E r \in Runners : target[c] = r /\ ~Alive(r)

WaitStop(c) ==
    /\ TargetGone(c) /\ At(c, "waitStop", "checkSave")
    /\ UNCHANGED <<lock, target, gaps>> /\ Quiet

\* Mutant: stop does not look for the saved state.
StopSucceedsUnchecked(c) ==
    /\ Finish(c, "checkSave")
    /\ UNCHANGED gaps /\ Quiet

\* "VM suspended and stopped": there is a save file that is not empty.
StopSucceeds(c) ==
    /\ save # None /\ Finish(c, "checkSave")
    /\ UNCHANGED gaps /\ Quiet

\* The response decides, whoever asked for it.
Await(c) ==
    /\ response = "accepted" /\ At(c, "await", "waitShutdown")
    /\ UNCHANGED <<lock, target, gaps>> /\ Quiet

\* "Guest macOS shut down and the runner exited."
ShutdownSucceeds(c) ==
    /\ TargetGone(c) /\ Finish(c, "waitShutdown")
    /\ UNCHANGED gaps /\ Quiet

-------------------------------------------------------------------------------

RunnerStep(r) ==
    \/ FinishLaunching(r) \/ StartEnds(r) \/ RestoreEnds(r) \/ ResumeEnds(r) \/ Consume(r)
    \/ SuspendSignal(r) \/ PauseEnds(r) \/ SaveEnds(r)
    \/ ShutdownSignal(r) \/ DidStop(r) \/ Exit(r)

Environment(r) == GuestWrites(r) \/ GuestStops(r) \/ Quit(r) \/ Crash(r)

LockedStep(c) ==
    \/ BeginStart(c) \/ Launch(c) \/ LaunchFails(c) \/ StartSucceeds(c) \/ StartFails(c)
    \/ BeginLoad(c) \/ Replace(c)

FreeStep(c) ==
    \/ BeginStop(c) \/ WaitStop(c) \/ StopSucceeds(c)
    \/ BeginShutdown(c) \/ Await(c) \/ ShutdownSucceeds(c)
    \/ NotRunning(c)

Next ==
    \/ \E r \in Runners : RunnerStep(r) \/ Environment(r)
    \/ \E c \in Clients : LockedStep(c) \/ FreeStep(c) \/ GiveUp(c)

Spec == Init /\ [][Next]_vars

-------------------------------------------------------------------------------
(* Properties *)

\* Requirement 1.2, "without launching a duplicate instance": two runners never
\* have the live bundle open at the same time, if no start ends before its
\* runner has a record (MaxGaps = 0).
OneGuest ==
    \A r, s \in Runners : HasGuest(r) /\ HasGuest(s) => r = s

\* A guest can be seen by every command: the record names its runner, so load,
\* snapshot and start refuse and stop and shutdown reach it (running_pid).
GuestIsRecorded == \A r \in Runners : HasGuest(r) => record.pid = r

\* The bundle is not replaced under a guest: load looks before it starts, and
\* start waits for the lock.
ReplacedOnlyWhenOff ==
    [][\A c \in Clients : Replace(c) => \A r \in Runners : ~HasGuest(r)]_vars

\* A saved state is restored on the disk it was saved with, or is a part of one,
\* which nothing resumes from, unless a runner could not remove, or died before it
\* removed, one that was used or outlived.
SavedStateFits ==
    lapsed = {} =>
        /\ \A r \in Runners :
              /\ vm[r] = "restoring" => save \in {disk, Broken, Torn}
              /\ vm[r] = "resuming" => save = disk
        /\ (\A r \in Runners : step[r] \in {"absent", "launching", "gone"})
              => save \in {disk, None, Broken, Torn}

\* helptext.py "stop": graceful termination.  Quitting, or the failure of a
\* start, takes the power from a guest only after a shutdown was accepted that
\* neither a stop nor a rejected request has taken back since.
PowerCutOnlyAfterRequest ==
    \A r \in Runners : step[r] = "exiting" /\ HasGuest(r) => r \in accepted

\* "VM suspended and stopped": when no runner is left, the saved state is whole
\* and belongs to the live disk, unless a runner died or left an old one, or a
\* load has brought a part of one since.
StopReportsAreTrue ==
    [][\A c \in Clients :
          StopSucceeds(c) /\ crashes = 0 /\ lapsed = {}
          /\ (\A r \in Runners : ~Alive(r)) => save \in {disk, Torn}]_vars

\* "VM runner started (state: running)": the guest of the launched runner runs,
\* or stopped a moment ago.
StartReportsAreTrue ==
    [][\A c \in Clients :
          StartSucceeds(c) /\ crashes = 0 /\ faults = 0
              => vm[target[c]] \in Active \cup {"off", "failed"}]_vars

\* The refinement: a guest is there from the end of start or resume until the
\* machine ends, and the memory is used up when the guest goes on, though the
\* file is removed later (Consume).  For the machine it is the same who broke it.
Session == INSTANCE MachineSession WITH
    guests <- {r \in Runners : vm[r] \in Active},
    memory <- IF lapsed # {} \/ (\E r \in Runners : step[r] = "resumed") THEN None
              ELSE IF save = Torn THEN Broken ELSE save,
    trusted <- lapsed = {}

\* The runner and the commands implement one machine that is suspended and
\* resumed in single steps (MaxGaps = 0).
ImplementsSession == Session!Spec

\* helptext.py "shutdown": "Shuts down guest macOS and exits without a suspended
\* state", "without force-stopping the VM".
ShutdownReportsAreTrue ==
    [][\A c \in Clients :
          ShutdownSucceeds(c) => vm[target[c]] = "off"]_vars
===============================================================================
