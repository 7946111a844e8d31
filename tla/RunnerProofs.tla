----------------------------- MODULE RunnerProofs -----------------------------
(***************************************************************************)
(* The safety properties of vmctl and its runner, for every number of      *)
(* commands, runners and failures.                                         *)
(***************************************************************************)
EXTENDS Runner, TLAPS

-------------------------------------------------------------------------------
(* The inductive invariants *)

\* No guest, and none to come: the runner touches neither the bundle nor the
\* record any more, or not yet.
Out(r) == step[r] \in {"absent", "gone", "exiting"} /\ ~HasGuest(r)

\* A command in one of the steps start and load make under the lock holds it.
LockHeld == \A c \in Clients : pc[c] \in LockedSteps <=> lock = c

\* There is no guest before the first event and after the process, and the one
\* that was resumed has run.
GuestInside ==
    \A r \in Runners :
        /\ step[r] \in {"absent", "launching", "gone"} => ~HasGuest(r)
        /\ step[r] = "resumed" => vm[r] \in {"running", "off", "failed"}

\* One runner at a time, ...
Single == \A r, s \in Runners : Out(r) \/ Out(s) \/ r = s

\* ... which the record names once it was launched; ...
Recorded == \A r \in Runners : Out(r) \/ step[r] = "launching" \/ record.pid = r

\* ... until then there is no record, and its start still holds the lock.
LaunchWatched ==
    \A r \in Runners : step[r] = "launching" =>
        record = NoRecord /\ \E c \in Clients : pc[c] = "poll" /\ target[c] = r

\* Between the look at the record and the launch or the replacement of the
\* bundle nothing runs.
Undisturbed ==
    \A c \in Clients : pc[c] \in {"launch", "replace"} => \A r \in Runners : Out(r)

Control == LockHeld /\ GuestInside /\ Single /\ Recorded /\ LaunchWatched /\ Undisturbed

\* The mode in which quitting takes the power follows an accepted shutdown.
ModeAsked ==
    \A r \in Runners :
        /\ step[r] = "absent" => mode[r] = "suspend"
        /\ step[r] \in {"launching", "idle", "resumed"} /\ mode[r] = "shutdown" => r \in accepted
        /\ step[r] = "exiting" /\ HasGuest(r) => r \in accepted

\* Until the runner removes it, or a guest runs, a saved state fits the disk.
SavedFits ==
    lapsed = {} =>
        /\ save \in {disk, None, Broken, Torn} \/ \E r \in Runners : step[r] = "resumed"
        /\ \A r \in Runners :
              /\ vm[r] = "restoring" => save \in {disk, Broken, Torn}
              /\ vm[r] = "resuming" => save = disk
              /\ step[r] # "resumed" /\ vm[r] \in {"starting", "running", "pausing"} => save = None
              /\ step[r] # "resumed" /\ vm[r] \in {"paused", "saving"} => save \in {None, Broken}
              /\ step[r] = "idle" /\ vm[r] \in {"off", "failed"} => save \in {None, Broken}

\* start polls for its own runner: every other one is out of the way, and no
\* record of another one says "running".
PollsOwn ==
    \A c \in Clients : pc[c] = "poll" =>
        \E r \in Runners :
            /\ target[c] = r
            /\ record.state = "running" => record.pid = r
            /\ \A s \in Runners \ {r} : Out(s)

\* Quitting ends the process only in the mode .shutdown, which no runner is in
\* before its guest runs or while it is paused.
ModeFits ==
    \A r \in Runners :
        /\ step[r] = "exiting" => mode[r] = "shutdown"
        /\ step[r] \in {"absent", "launching", "resumed"} => mode[r] = "suspend"
        /\ step[r] = "idle" /\ mode[r] = "shutdown" => vm[r] \in {"running", "off", "failed"}

\* As long as nothing failed a record "running" is true, or was a moment ago.
RunningIsTrue ==
    crashes = 0 /\ faults = 0 /\ record.state = "running" =>
        \E r \in Runners :
            /\ record.pid = r /\ mode[r] = "suspend"
            /\ vm[r] \in Active \cup {"off", "failed"}

\* Half a saved state lies beside the machine that could not write it.
BrokenIsOwned ==
    save = Broken /\ crashes = 0 /\ lapsed = {} =>
        \E r \in Runners :
            step[r] = "idle" /\ mode[r] = "suspend" /\ vm[r] \in {"paused", "saving", "failed"}

-------------------------------------------------------------------------------
(* Type correctness *)

\* The types of the files are kept.
LEMMA FileTypesKept ==
    ASSUME TypeOK, [Next]_vars
    PROVE  FileTypes'
  <1> USE DEF TypeOK, FileTypes, RuntimeRecord, RuntimeStates, Record, vars, files
  <1>1. ASSUME NEW r \in Runners, RunnerStep(r)
        PROVE  FileTypes'
    <2>1. CASE FinishLaunching(r) \/ StartEnds(r) \/ RestoreEnds(r) \/ ResumeEnds(r)
      BY <2>1 DEF FinishLaunching, StartEnds, RestoreEnds, ResumeEnds, FirstRecord,
                  FailsToStart, WriteRuntime, Event
    <2>2. CASE Consume(r) \/ DidStop(r)
      BY <2>2 DEF Consume, DidStop, RemoveSaveAndWrite, Event
    <2>3. CASE SuspendSignal(r) \/ PauseEnds(r)
      BY <2>3 DEF SuspendSignal, BeginSuspend, PauseEnds, WriteRuntime, Event
    <2>4. CASE SaveEnds(r)
      BY <2>4 DEF SaveEnds, WriteRuntime, Event
    <2>5. CASE ShutdownSignal(r)
      BY <2>5 DEF ShutdownSignal, Accept, Reject, Event
    <2>6. CASE Exit(r)
      BY <2>6 DEF Exit
    <2> QED BY <1>1, <2>1, <2>2, <2>3, <2>4, <2>5, <2>6 DEF RunnerStep
  <1>2. ASSUME NEW r \in Runners, Environment(r)
        PROVE  FileTypes'
    <2>1. CASE Quit(r)
      BY <2>1 DEF Quit, BeginSuspend, WriteRuntime, Event
    <2>2. CASE GuestWrites(r) \/ GuestStops(r) \/ Crash(r)
      BY <2>2 DEF GuestWrites, GuestStops, Crash
    <2> QED BY <1>2, <2>1, <2>2 DEF Environment
  <1>3. ASSUME NEW c \in Clients, LockedStep(c)
        PROVE  FileTypes'
    BY <1>3 DEF LockedStep, BeginStart, BeginLoad, TakeLock, Launch, LaunchFails,
                StartSucceeds, StartFails, Replace, Quiet, NoRecord
  <1>4. ASSUME NEW c \in Clients, FreeStep(c)
        PROVE  FileTypes'
    BY <1>4 DEF FreeStep, BeginStop, BeginShutdown, SignalRunner, WaitStop, StopSucceeds,
                Await, ShutdownSucceeds, NotRunning, Quiet
  <1>5. ASSUME NEW c \in Clients, GiveUp(c)
        PROVE  FileTypes'
    BY <1>5 DEF GiveUp, Quiet
  <1>6. CASE UNCHANGED vars
    BY <1>6
  <1> QED BY <1>1, <1>2, <1>3, <1>4, <1>5, <1>6 DEF Next

\* The types of the runners are kept.
LEMMA AppTypesKept ==
    ASSUME TypeOK, [Next]_vars
    PROVE  AppTypes'
  <1> USE DEF TypeOK, AppTypes, AppSteps, Active, Busy, Ended, vars, apps, GoTo, Becomes, Mode
  <1>1. ASSUME NEW r \in Runners, RunnerStep(r)
        PROVE  AppTypes'
    <2>1. CASE FinishLaunching(r) \/ StartEnds(r) \/ RestoreEnds(r) \/ ResumeEnds(r)
      BY <2>1 DEF FinishLaunching, StartEnds, RestoreEnds, ResumeEnds, FailsToStart, Event
    <2>2. CASE Consume(r) \/ DidStop(r)
      BY <2>2 DEF Consume, DidStop, Event
    <2>3. CASE SuspendSignal(r) \/ PauseEnds(r)
      BY <2>3 DEF SuspendSignal, BeginSuspend, PauseEnds, Handled, Event
    <2>4. CASE SaveEnds(r)
      BY <2>4 DEF SaveEnds, Event
    <2>5. CASE ShutdownSignal(r)
      BY <2>5 DEF ShutdownSignal, Accept, Reject, Handled, Event
    <2>6. CASE Exit(r)
      BY <2>6 DEF Exit, Gone
    <2> QED BY <1>1, <2>1, <2>2, <2>3, <2>4, <2>5, <2>6 DEF RunnerStep
  <1>2. ASSUME NEW r \in Runners, Environment(r)
        PROVE  AppTypes'
    <2>1. CASE Quit(r)
      BY <2>1 DEF Quit, BeginSuspend, Event
    <2>2. CASE GuestWrites(r) \/ GuestStops(r)
      BY <2>2 DEF GuestWrites, GuestStops
    <2>3. CASE Crash(r)
      BY <2>3 DEF Crash, Gone
    <2> QED BY <1>2, <2>1, <2>2, <2>3 DEF Environment
  <1>3. ASSUME NEW c \in Clients, LockedStep(c)
        PROVE  AppTypes'
    BY <1>3 DEF LockedStep, BeginStart, BeginLoad, TakeLock, Launch, LaunchFails,
                StartSucceeds, StartFails, Replace, Quiet, Finish, At
  <1>4. ASSUME NEW c \in Clients, FreeStep(c)
        PROVE  AppTypes'
    BY <1>4 DEF FreeStep, BeginStop, BeginShutdown, SignalRunner, WaitStop, StopSucceeds,
                Await, ShutdownSucceeds, NotRunning, Quiet, Finish, At
  <1>5. ASSUME NEW c \in Clients, GiveUp(c)
        PROVE  AppTypes'
    BY <1>5 DEF GiveUp, Quiet, Finish, At
  <1>6. CASE UNCHANGED vars
    BY <1>6
  <1> QED BY <1>1, <1>2, <1>3, <1>4, <1>5, <1>6 DEF Next
\* The types of the commands are kept.
LEMMA ClientTypesKept ==
    ASSUME TypeOK, [Next]_vars
    PROVE  ClientTypes'
  <1> USE DEF TypeOK, ClientTypes, LockedSteps, FreeSteps, vars, cli
  <1>1. ASSUME NEW r \in Runners, RunnerStep(r)
        PROVE  ClientTypes'
    BY <1>1 DEF RunnerStep, FinishLaunching, StartEnds, RestoreEnds, ResumeEnds, Consume,
                SuspendSignal, PauseEnds, SaveEnds, ShutdownSignal, DidStop, Exit, Event
  <1>2. ASSUME NEW r \in Runners, Environment(r)
        PROVE  ClientTypes'
    BY <1>2 DEF Environment, GuestWrites, GuestStops, Quit, Crash, Event
  <1>3. ASSUME NEW c \in Clients, LockedStep(c)
        PROVE  ClientTypes'
    BY <1>3 DEF LockedStep, BeginStart, BeginLoad, TakeLock, Launch, LaunchFails,
                StartSucceeds, StartFails, Replace, Finish, At
  <1>4. ASSUME NEW c \in Clients, FreeStep(c)
        PROVE  ClientTypes'
    BY <1>4 DEF FreeStep, BeginStop, BeginShutdown, SignalRunner, WaitStop, StopSucceeds,
                Await, ShutdownSucceeds, NotRunning, Finish, At
  <1>5. ASSUME NEW c \in Clients, GiveUp(c)
        PROVE  ClientTypes'
    BY <1>5 DEF GiveUp, Finish, At
  <1>6. CASE UNCHANGED vars
    BY <1>6
  <1> QED BY <1>1, <1>2, <1>3, <1>4, <1>5, <1>6 DEF Next

\* The bounds are kept.
LEMMA BoundTypesKept ==
    ASSUME TypeOK, [Next]_vars
    PROVE  BoundTypes'
  <1> USE BoundsAssumption DEF TypeOK, BoundTypes, vars, history, bounds
  <1>1. ASSUME NEW r \in Runners, RunnerStep(r)
        PROVE  BoundTypes'
    <2>1. CASE FinishLaunching(r)
      BY <2>1 DEF FinishLaunching, FirstRecord, Gap
    <2>2. CASE StartEnds(r) \/ RestoreEnds(r) \/ ResumeEnds(r)
      BY <2>2 DEF StartEnds, RestoreEnds, ResumeEnds, FailsToStart, WriteRuntime, Failing, Event
    <2>3. CASE Consume(r) \/ DidStop(r)
      BY <2>3 DEF Consume, DidStop, RemoveSaveAndWrite, Failing, Event
    <2>4. CASE SuspendSignal(r) \/ PauseEnds(r) \/ SaveEnds(r)
      BY <2>4 DEF SuspendSignal, BeginSuspend, PauseEnds, SaveEnds, WriteRuntime, Failing, Event
    <2>5. CASE ShutdownSignal(r) \/ Exit(r)
      BY <2>5 DEF ShutdownSignal, Accept, Reject, Exit, Gone, Failing, Event
    <2> QED BY <1>1, <2>1, <2>2, <2>3, <2>4, <2>5 DEF RunnerStep
  <1>2. ASSUME NEW r \in Runners, Environment(r)
        PROVE  BoundTypes'
    BY <1>2 DEF Environment, GuestWrites, GuestStops, Quit, BeginSuspend, WriteRuntime,
                Failing, Crash, Gone, Event
  <1>3. ASSUME NEW c \in Clients, LockedStep(c)
        PROVE  BoundTypes'
    BY <1>3 DEF LockedStep, BeginStart, BeginLoad, TakeLock, Launch, LaunchFails,
                StartSucceeds, StartFails, Replace, Finish, At
  <1>4. ASSUME NEW c \in Clients, FreeStep(c)
        PROVE  BoundTypes'
    BY <1>4 DEF FreeStep, BeginStop, BeginShutdown, SignalRunner, WaitStop, StopSucceeds,
                Await, ShutdownSucceeds, NotRunning, Finish, At
  <1>5. ASSUME NEW c \in Clients, GiveUp(c)
        PROVE  BoundTypes'
    BY <1>5 DEF GiveUp, MayLeave, Gap, Finish, At
  <1>6. CASE UNCHANGED vars
    BY <1>6
  <1> QED BY <1>1, <1>2, <1>3, <1>4, <1>5, <1>6 DEF Next

\* The records are those the runner writes, the machine states those of
\* Virtualization.framework, and failures stay within their bound.
THEOREM TypeCorrect == Spec => []TypeOK
  <1>1. Init => TypeOK
    BY BoundsAssumption
       DEF Init, TypeOK, FileTypes, AppTypes, ClientTypes, BoundTypes, RuntimeRecord,
           RuntimeStates, NoRecord, Record, AppSteps, Ended
  <1>2. TypeOK /\ [Next]_vars => TypeOK'
    BY FileTypesKept, AppTypesKept, ClientTypesKept, BoundTypesKept DEF TypeOK
  <1> QED BY <1>1, <1>2, PTL DEF Spec

-------------------------------------------------------------------------------
(* Who takes the power from a guest; starts may leave gaps *)

\* A guest lives between the first event and the end of the process.
LEMMA GuestInsideKept ==
    ASSUME TypeOK, GuestInside, [Next]_vars
    PROVE  GuestInside'
  <1> USE DEF TypeOK, AppTypes, GuestInside, HasGuest, Active, Busy, GoTo, Becomes, vars, apps
  <1>1. ASSUME NEW r \in Runners, RunnerStep(r)
        PROVE  GuestInside'
    <2>1. CASE FinishLaunching(r) \/ StartEnds(r) \/ RestoreEnds(r) \/ ResumeEnds(r)
      BY <2>1 DEF FinishLaunching, StartEnds, RestoreEnds, ResumeEnds, FailsToStart, Event
    <2>2. CASE Consume(r) \/ SuspendSignal(r) \/ PauseEnds(r) \/ SaveEnds(r)
      BY <2>2 DEF Consume, SuspendSignal, BeginSuspend, PauseEnds, SaveEnds, Event
    <2>3. CASE ShutdownSignal(r) \/ DidStop(r) \/ Exit(r)
      BY <2>3 DEF ShutdownSignal, DidStop, Exit, Gone, Event
    <2> QED BY <1>1, <2>1, <2>2, <2>3 DEF RunnerStep
  <1>2. ASSUME NEW r \in Runners, Environment(r)
        PROVE  GuestInside'
    BY <1>2 DEF Environment, GuestWrites, GuestStops, Quit, BeginSuspend, Crash, Gone, Event
  <1>3. ASSUME NEW c \in Clients, LockedStep(c) \/ FreeStep(c) \/ GiveUp(c)
        PROVE  GuestInside'
    <2>1. UNCHANGED vm /\ (UNCHANGED step \/ Launch(c))
      BY <1>3 DEF LockedStep, BeginStart, BeginLoad, TakeLock, Launch, LaunchFails, StartSucceeds,
                  StartFails, Replace, FreeStep, BeginStop, BeginShutdown, SignalRunner, WaitStop,
                  StopSucceeds, Await, ShutdownSucceeds, NotRunning, GiveUp, Quiet, Finish, At
    <2> QED BY <2>1 DEF Launch
  <1>4. CASE UNCHANGED vars
    BY <1>4
  <1> QED BY <1>1, <1>2, <1>3, <1>4 DEF Next

\* Only an accepted shutdown leaves the mode in which quitting ends a guest.
LEMMA ModeAskedKept ==
    ASSUME TypeOK, GuestInside, ModeAsked, [Next]_vars
    PROVE  ModeAsked'
  <1> USE DEF TypeOK, AppTypes, GuestInside, ModeAsked, GoTo, Becomes, Mode
  <1>1. ASSUME NEW r \in Runners, RunnerStep(r)
        PROVE  ModeAsked'
    <2> USE DEF HasGuest, Active, Busy
    <2>1. CASE FinishLaunching(r) \/ StartEnds(r) \/ RestoreEnds(r) \/ ResumeEnds(r)
      BY <2>1 DEF FinishLaunching, StartEnds, RestoreEnds, ResumeEnds, FailsToStart, history, Event
    <2>2. CASE Consume(r) \/ SuspendSignal(r) \/ PauseEnds(r) \/ SaveEnds(r)
      BY <2>2 DEF Consume, SuspendSignal, BeginSuspend, PauseEnds, SaveEnds, history, Event
    <2>3. CASE ShutdownSignal(r)
      BY <2>3 DEF ShutdownSignal, Accept, Reject, Event
    <2>4. CASE DidStop(r) \/ Exit(r)
      BY <2>4 DEF DidStop, Exit, Gone, Event
    <2> QED BY <1>1, <2>1, <2>2, <2>3, <2>4 DEF RunnerStep
  <1>2. ASSUME NEW r \in Runners, Environment(r)
        PROVE  ModeAsked'
    <2> USE DEF HasGuest, Active, Busy
    <2>1. CASE GuestWrites(r) \/ GuestStops(r)
      BY <2>1 DEF GuestWrites, GuestStops, apps, history
    <2>2. CASE Quit(r)
      BY <2>2 DEF Quit, BeginSuspend, history, Event
    <2>3. CASE Crash(r)
      BY <2>3 DEF Crash, Gone
    <2> QED BY <1>2, <2>1, <2>2, <2>3 DEF Environment
  <1>3. ASSUME NEW c \in Clients, LockedStep(c) \/ FreeStep(c) \/ GiveUp(c)
        PROVE  ModeAsked'
    <2>1. UNCHANGED <<vm, mode, accepted>> /\ (UNCHANGED step \/ Launch(c))
      BY <1>3 DEF LockedStep, BeginStart, BeginLoad, TakeLock, Launch, LaunchFails, StartSucceeds,
                  StartFails, Replace, FreeStep, BeginStop, BeginShutdown, SignalRunner, WaitStop,
                  StopSucceeds, Await, ShutdownSucceeds, NotRunning, GiveUp, Quiet, Finish, At,
                  vars, apps, history
    <2> QED BY <2>1 DEF Launch, HasGuest
  <1>4. CASE UNCHANGED vars
    BY <1>4 DEF vars, apps, history, HasGuest
  <1> QED BY <1>1, <1>2, <1>3, <1>4 DEF Next

\* Whatever the user, the guest and vmctl do, and whatever fails: the runner
\* does not end under a running guest unless a shutdown was accepted.
THEOREM PowerCut == Spec => []PowerCutOnlyAfterRequest
  <1>1. Init => TypeOK /\ GuestInside /\ ModeAsked
    BY BoundsAssumption
       DEF Init, TypeOK, FileTypes, AppTypes, ClientTypes, BoundTypes, RuntimeRecord,
           RuntimeStates, NoRecord, Record, AppSteps, Ended, GuestInside, ModeAsked, HasGuest,
           Active, Busy
  <1>2. TypeOK /\ GuestInside /\ ModeAsked /\ [Next]_vars => (TypeOK /\ GuestInside /\ ModeAsked)'
    BY FileTypesKept, AppTypesKept, ClientTypesKept, BoundTypesKept, GuestInsideKept,
       ModeAskedKept DEF TypeOK
  <1>3. ModeAsked => PowerCutOnlyAfterRequest
    BY DEF ModeAsked, PowerCutOnlyAfterRequest
  <1> QED BY <1>1, <1>2, <1>3, PTL DEF Spec

-------------------------------------------------------------------------------
(* One runner at a time; no start leaves a gap *)

\* What a step of the runner r means to the others: out of the way it stays
\* so and leaves the record alone; else it is out, or recorded, afterwards.
Moves(r) ==
    /\ Out(r) => Out(r)' /\ record' = record
    /\ Out(r)' \/ record'.pid = r
    /\ step'[r] # "launching"
    /\ \A s \in Runners \ {r} : step'[s] = step[s] /\ vm'[s] = vm[s]
    /\ UNCHANGED cli

\* A step of the virtual machine, of the user or of a signal.
LEMMA EventsMove ==
    ASSUME TypeOK, GuestInside, Recorded, NEW r \in Runners,
           RunnerStep(r) \/ Environment(r), gaps = MaxGaps
    PROVE  Moves(r)
  <1> USE DEF Moves, Out, HasGuest, Active, Busy, GoTo, Becomes, TypeOK, AppTypes, GuestInside,
              Recorded
  <1>1. CASE FinishLaunching(r)
    BY <1>1, BoundsAssumption
       DEF FinishLaunching, FirstRecord, Gap, Record
  <1>2. CASE StartEnds(r) \/ RestoreEnds(r) \/ ResumeEnds(r)
    BY <1>2 DEF StartEnds, RestoreEnds, ResumeEnds, FailsToStart, WriteRuntime, Record, Event
  <1>3. CASE Consume(r) \/ DidStop(r)
    BY <1>3 DEF Consume, DidStop, RemoveSaveAndWrite, Record, Event
  <1>4. CASE SuspendSignal(r) \/ PauseEnds(r) \/ Quit(r)
    BY <1>4 DEF SuspendSignal, PauseEnds, Quit, BeginSuspend, WriteRuntime, Record, Event
  <1>5. CASE SaveEnds(r)
    BY <1>5 DEF SaveEnds, WriteRuntime, Record, Event
  <1>6. CASE ShutdownSignal(r)
    BY <1>6 DEF ShutdownSignal, Accept, Reject, Record, Event
  <1>7. CASE Exit(r) \/ Crash(r)
    BY <1>7 DEF Exit, Crash, Gone, Alive, files
  <1>8. CASE GuestWrites(r) \/ GuestStops(r)
    BY <1>8 DEF GuestWrites, GuestStops, apps, files
  <1> QED BY <1>1, <1>2, <1>3, <1>4, <1>5, <1>6, <1>7, <1>8 DEF RunnerStep, Environment

\* Such steps leave at most one runner, recorded and watched.
LEMMA MovesKeepControl ==
    ASSUME TypeOK, Control, NEW r \in Runners, Moves(r)
    PROVE  LockHeld' /\ Single' /\ Recorded' /\ LaunchWatched' /\ Undisturbed'
  <1> USE DEF Control, Moves
  <1>1. \A s \in Runners : Out(s) => Out(s)'
    BY DEF Out, HasGuest
  <1>2. \A s \in Runners \ {r} : Out(s)' => Out(s)
    BY DEF Out, HasGuest
  <1>3. LockHeld' /\ Undisturbed'
    BY <1>1 DEF LockHeld, Undisturbed, cli
  <1>4. Single'
    BY <1>1, <1>2 DEF Single
  <1>5. Recorded'
    BY <1>1, <1>2 DEF Single, Recorded, Out
  <1>6. LaunchWatched'
    BY DEF Single, LaunchWatched, Out, cli
  <1> QED BY <1>3, <1>4, <1>5, <1>6

\* A command that looks at the record under the lock has the bundle for itself.
LEMMA LookSeesGuest ==
    ASSUME Control, lock \notin Clients, ~IsRunning
    PROVE  \A r \in Runners : Out(r)
  <1> SUFFICES ASSUME NEW r \in Runners, ~Out(r)
               PROVE  FALSE
    OBVIOUS
  <1>1. step[r] # "launching"
    BY DEF Control, LaunchWatched, LockHeld, LockedSteps
  <1>2. record.pid = r
    BY <1>1 DEF Control, Recorded
  <1>3. step[r] \notin {"absent", "gone"}
    BY DEF Control, GuestInside, Out
  <1> QED BY <1>2, <1>3 DEF IsRunning, Running, Alive

\* Steps of commands that leave the processes, the machines and the record.
LEMMA QuietStepsKeepControl ==
    ASSUME TypeOK, Control, NEW c \in Clients, UNCHANGED <<step, vm, record>>,
           pc' = [pc EXCEPT ![c] = pc'[c]], pc'[c] \notin {"launch", "replace"},
           \A d \in Clients \ {c} : target'[d] = target[d],
           \/ pc[c] \notin LockedSteps /\ pc'[c] \notin LockedSteps /\ lock' = lock
           \/ /\ pc[c] \in LockedSteps /\ ~Unrecorded(c)
              /\ pc'[c] = "idle" /\ lock' = None
    PROVE  Control'
  <1> USE MarksAssumption DEF TypeOK, ClientTypes, Control
  <1>1. GuestInside' /\ Single' /\ Recorded'
    BY DEF GuestInside, Single, Recorded, Out, HasGuest
  <1>2. LockHeld'
    BY DEF LockHeld, LockedSteps
  <1>3. LaunchWatched'
    BY DEF LaunchWatched, Unrecorded, LockHeld, LockedSteps
  <1>4. Undisturbed'
    BY DEF Undisturbed, Out, HasGuest
  <1> QED BY <1>1, <1>2, <1>3, <1>4

\* Taking the lock.
LEMMA TakeLockKeepsControl ==
    ASSUME TypeOK, Control, NEW c \in Clients, NEW next \in {"launch", "replace"},
           TakeLock(c, next)
    PROVE  Control'
  <1> USE MarksAssumption DEF TypeOK, ClientTypes, Control
  <1>1. /\ lock = None /\ lock' = c /\ pc[c] = "idle" /\ pc' = [pc EXCEPT ![c] = next]
        /\ UNCHANGED <<step, vm, record, target>>
    BY DEF TakeLock, At, Quiet, files
  <1>2. \A r \in Runners : Out(r)
    BY LookSeesGuest DEF TakeLock
  <1>3. GuestInside' /\ Single' /\ Recorded' /\ LaunchWatched' /\ Undisturbed'
    BY <1>1, <1>2 DEF GuestInside, Single, Recorded, LaunchWatched, Undisturbed, Out, HasGuest
  <1>4. LockHeld'
    BY <1>1 DEF LockHeld, LockedSteps
  <1> QED BY <1>3, <1>4

\* The launch, and the end of a command that has not launched yet or has
\* replaced the bundle.
LEMMA AloneStepsKeepControl ==
    ASSUME TypeOK, Control, NEW c \in Clients, Launch(c) \/ LaunchFails(c) \/ Replace(c)
    PROVE  Control'
  <1> USE MarksAssumption DEF TypeOK, ClientTypes, AppTypes, Control
  <1>1. \A r \in Runners : Out(r)
    BY DEF Launch, LaunchFails, Replace, Finish, At, Undisturbed
  <1>2. lock = c
    BY DEF Launch, LaunchFails, Replace, Finish, At, LockHeld, LockedSteps
  <1>3. CASE Launch(c)
    <2>1. PICK s \in Runners : /\ step[s] = "absent" /\ step' = [step EXCEPT ![s] = "launching"]
                               /\ target' = [target EXCEPT ![c] = s]
      BY <1>3 DEF Launch, GoTo
    <2>2. /\ pc[c] = "launch" /\ pc' = [pc EXCEPT ![c] = "poll"] /\ UNCHANGED <<vm, lock>>
          /\ record' = NoRecord
      BY <1>3 DEF Launch, At
    <2>3. \A r \in Runners : Out(r)' \/ r = s
      BY <1>1, <2>1, <2>2 DEF Out, HasGuest
    <2>4. GuestInside' /\ Single' /\ Recorded'
      BY <1>1, <2>1, <2>2, <2>3 DEF GuestInside, Single, Recorded, Out, HasGuest
    <2>5. LaunchWatched'
      BY <1>1, <2>1, <2>2 DEF LaunchWatched, Out, NoRecord, Record
    <2>6. LockHeld' /\ Undisturbed'
      BY <1>2, <2>2 DEF LockHeld, Undisturbed, LockedSteps
    <2> QED BY <2>4, <2>5, <2>6
  <1>4. CASE LaunchFails(c) \/ Replace(c)
    <2>1. /\ pc[c] \in LockedSteps /\ pc' = [pc EXCEPT ![c] = "idle"] /\ lock' = None
          /\ UNCHANGED <<step, vm>>
      BY <1>2, <1>4 DEF LaunchFails, Replace, Finish, At, LockedSteps
    <2>2. \A r \in Runners : Out(r)'
      BY <1>1, <2>1 DEF Out, HasGuest
    <2>3. GuestInside' /\ Single' /\ Recorded' /\ LaunchWatched' /\ Undisturbed'
      BY <2>2 DEF GuestInside, Single, Recorded, LaunchWatched, Undisturbed, Out
    <2>4. LockHeld'
      BY <1>2, <2>1 DEF LockHeld, LockedSteps
    <2> QED BY <2>3, <2>4
  <1> QED BY <1>3, <1>4

\* Control is kept by every step if no start may leave a gap.
LEMMA ControlKept ==
    ASSUME MaxGaps = 0, TypeOK, Control, [Next]_vars
    PROVE  Control'
  <1>1. gaps = MaxGaps
    BY DEF TypeOK, BoundTypes
  <1>2. ASSUME NEW r \in Runners, RunnerStep(r) \/ Environment(r)
        PROVE  Control'
    <2>1. Moves(r)
      BY <1>1, <1>2, EventsMove DEF Control
    <2>2. GuestInside'
      BY <1>2, GuestInsideKept DEF Next, Control
    <2> QED BY <2>1, <2>2, MovesKeepControl DEF Control
  <1>3. ASSUME NEW c \in Clients, LockedStep(c) \/ FreeStep(c) \/ GiveUp(c)
        PROVE  Control'
    <2> USE DEF TypeOK, ClientTypes
    <2>1. CASE BeginStart(c) \/ BeginLoad(c)
      BY <2>1, TakeLockKeepsControl DEF BeginStart, BeginLoad
    <2>2. CASE Launch(c) \/ LaunchFails(c) \/ Replace(c)
      BY <2>2, AloneStepsKeepControl
    <2>3. CASE StartSucceeds(c) \/ StartFails(c)
      <3>1. ~Unrecorded(c)
        BY <2>3 DEF StartSucceeds, StartFails, Unrecorded, Control, LaunchWatched, NoRecord, Record
      <3> QED BY <2>3, <3>1, QuietStepsKeepControl
              DEF StartSucceeds, StartFails, Finish, At, Quiet, files, LockedSteps, Control, LockHeld
    <2>4. CASE BeginStop(c) \/ BeginShutdown(c)
      BY <2>4, QuietStepsKeepControl DEF BeginStop, BeginShutdown, SignalRunner, At, LockedSteps
    <2>5. CASE WaitStop(c) \/ Await(c)
      BY <2>5, QuietStepsKeepControl DEF WaitStop, Await, At, Quiet, files, LockedSteps
    <2>6. CASE StopSucceeds(c) \/ ShutdownSucceeds(c)
      BY <2>6, QuietStepsKeepControl
         DEF StopSucceeds, ShutdownSucceeds, Finish, At, Quiet, files, LockedSteps, Control, LockHeld
    <2>7. CASE GiveUp(c)
      <3>1. ~Unrecorded(c)
        BY <1>1, <2>7, BoundsAssumption DEF GiveUp, MayLeave, Gap
      <3>2. /\ pc' = [pc EXCEPT ![c] = "idle"] /\ target' = [target EXCEPT ![c] = None]
            /\ lock' = (IF lock = c THEN None ELSE lock) /\ UNCHANGED <<step, vm, record>>
        BY <2>7 DEF GiveUp, Finish, At, Quiet, files
      <3> QED BY <3>1, <3>2, QuietStepsKeepControl DEF Control, LockHeld, LockedSteps
    <2>8. CASE NotRunning(c)
      BY <2>8 DEF NotRunning, vars, files, apps, cli, Control, LockHeld, GuestInside, Single, Recorded,
                  LaunchWatched, Undisturbed, Out, HasGuest
    <2> QED BY <1>3, <2>1, <2>2, <2>3, <2>4, <2>5, <2>6, <2>7, <2>8 DEF LockedStep, FreeStep
  <1>4. CASE UNCHANGED vars
    BY <1>4 DEF vars, files, apps, cli, Control, LockHeld, GuestInside, Single, Recorded,
                LaunchWatched, Undisturbed, Out, HasGuest
  <1> QED BY <1>2, <1>3, <1>4 DEF Next

\* The guests and the records at every step, if no start leaves a gap.
LEMMA Controlled ==
    ASSUME MaxGaps = 0
    PROVE  Spec => [](TypeOK /\ Control)
  <1>1. Init => TypeOK /\ Control
    <2>1. Init => TypeOK
      BY BoundsAssumption
         DEF Init, TypeOK, FileTypes, AppTypes, ClientTypes, BoundTypes, RuntimeRecord,
             RuntimeStates, NoRecord, Record, AppSteps, Ended
    <2>2. Init => Control
      BY MarksAssumption
         DEF Init, Control, LockHeld, GuestInside, Single, Recorded, LaunchWatched, Undisturbed,
             Out, HasGuest, Active, Busy, LockedSteps
    <2> QED BY <2>1, <2>2
  <1>2. TypeOK /\ Control /\ [Next]_vars => (TypeOK /\ Control)'
    BY FileTypesKept, AppTypesKept, ClientTypesKept, BoundTypesKept, ControlKept DEF TypeOK
  <1> QED BY <1>1, <1>2, PTL DEF Spec

\* Any number of commands start, load, stop and shut down: two runners never
\* have the bundle open, as long as no start ends before its runner has a record.
THEOREM NoDuplicate ==
    ASSUME MaxGaps = 0
    PROVE  Spec => []OneGuest
  <1>1. Control => OneGuest
    BY DEF Control, Single, Out, OneGuest
  <1> QED BY <1>1, Controlled, PTL

\* Under the same condition every guest can be found by every command.
THEOREM GuestIsSeen ==
    ASSUME MaxGaps = 0
    PROVE  Spec => []GuestIsRecorded
  <1>1. Control => GuestIsRecorded
    BY DEF Control, GuestInside, Recorded, Out, GuestIsRecorded
  <1> QED BY <1>1, Controlled, PTL

\* Under the same condition load never replaces the bundle of a guest.
THEOREM BundleIsFree ==
    ASSUME MaxGaps = 0
    PROVE  Spec => ReplacedOnlyWhenOff
  <1>1. Control => (\A c \in Clients : Replace(c) => \A r \in Runners : ~HasGuest(r))
    BY DEF Control, Undisturbed, Out, Replace, Finish, At
  <1> QED BY <1>1, Controlled, PTL DEF ReplacedOnlyWhenOff, Spec

-------------------------------------------------------------------------------
(* The saved state and the disk *)

\* The guest's work, the steps that save and those that remove what was saved.
LEMMA GuestKeepsSavedFits ==
    ASSUME TypeOK, Control, SavedFits, NEW r \in Runners,
           GuestWrites(r) \/ GuestStops(r) \/ Crash(r) \/ Exit(r)
    PROVE  SavedFits'
  <1> USE DEF TypeOK, AppTypes, FileTypes, SavedFits, HasGuest, Active, Busy, GoTo, Becomes, apps,
              files, history
  <1>1. ~Out(r) => \A s \in Runners \ {r} : Out(s)
    BY DEF Control, Single
  <1>2. CASE GuestWrites(r)
    BY <1>1, <1>2 DEF GuestWrites, Out
  <1>3. CASE GuestStops(r)
    BY <1>3 DEF GuestStops, Control, GuestInside
  <1>4. CASE Crash(r)
    BY <1>1, <1>4 DEF Crash, Gone, Alive, Out
  <1>5. CASE Exit(r)
    BY <1>5 DEF Exit, Gone
  <1> QED BY <1>2, <1>3, <1>4, <1>5

\* The runner's own events.
LEMMA EventsKeepSavedFits ==
    ASSUME TypeOK, Control, SavedFits, NEW r \in Runners, RunnerStep(r) \/ Quit(r)
    PROVE  SavedFits'
  <1> USE DEF TypeOK, AppTypes, FileTypes, SavedFits, HasGuest, Active, Busy, GoTo, Becomes, history
  <1>1. ~Out(r) => \A s \in Runners \ {r} : Out(s)
    BY DEF Control, Single
  <1>2. CASE FinishLaunching(r)
    BY <1>1, <1>2 DEF FinishLaunching, Out, Control, GuestInside
  <1>3. CASE StartEnds(r) \/ RestoreEnds(r)
    BY <1>1, <1>3 DEF StartEnds, RestoreEnds, FailsToStart, Out, Event
  <1>4. CASE ResumeEnds(r)
    BY <1>1, <1>4 DEF ResumeEnds, FailsToStart, Out, Event
  <1>5. CASE Consume(r) \/ DidStop(r)
    <2>1. save' = None \/ r \in lapsed'
      BY <1>5 DEF Consume, DidStop, RemoveSaveAndWrite
    <2>2. /\ step[r] \in {"idle", "resumed"} /\ UNCHANGED <<disk, vm>>
          /\ \/ step' = [step EXCEPT ![r] = "idle"]
             \/ step' = [step EXCEPT ![r] = "exiting"]
      BY <1>5 DEF Consume, DidStop, Event
    <2>3. \A s \in Runners \ {r} : vm[s] \notin Active \cup Busy /\ step[s] \notin {"idle", "resumed"}
      BY <1>1, <2>2 DEF Out
    <2>4. vm[r] \in {"running", "off", "failed"}
      BY <1>5 DEF Consume, DidStop, Control, GuestInside
    <2>5. lapsed' = {} => lapsed = {}
      BY <1>5 DEF Consume, DidStop, RemoveSaveAndWrite
    <2> QED BY <2>1, <2>2, <2>3, <2>4, <2>5
  <1>6. CASE SuspendSignal(r) \/ Quit(r) \/ PauseEnds(r)
    BY <1>1, <1>6 DEF SuspendSignal, Quit, BeginSuspend, SuspendInProgress, PauseEnds, Out, Event
  <1>7. CASE SaveEnds(r)
    BY <1>1, <1>7 DEF SaveEnds, Out, Event
  <1>8. CASE ShutdownSignal(r)
    BY <1>8 DEF ShutdownSignal, Event
  <1>9. CASE Exit(r)
    BY <1>9, GuestKeepsSavedFits
  <1> QED BY <1>2, <1>3, <1>4, <1>5, <1>6, <1>7, <1>8, <1>9 DEF RunnerStep

\* Commands: only load changes the disk, and nothing has it open then.
LEMMA CommandsKeepSavedFits ==
    ASSUME TypeOK, Control, SavedFits, NEW c \in Clients,
           LockedStep(c) \/ FreeStep(c) \/ GiveUp(c)
    PROVE  SavedFits'
  <1> USE DEF SavedFits
  <1>1. CASE Replace(c)
    <2>1. \A r \in Runners : Out(r)
      BY <1>1 DEF Control, Undisturbed, Replace, Finish, At
    <2> QED BY <1>1, <2>1
            DEF Replace, Finish, At, history, Out, HasGuest, Active, Busy
  <1>2. CASE Launch(c)
    <2>1. \A r \in Runners : Out(r)
      BY <1>2 DEF Control, Undisturbed, Launch, At
    <2> QED BY <1>2, <2>1
            DEF Launch, At, GoTo, history, Out, HasGuest, Active, Busy, TypeOK, AppTypes
  <1>3. CASE ~Replace(c) /\ ~Launch(c)
    <2>1. UNCHANGED <<disk, save, step, vm, lapsed>>
      BY <1>3 DEF LockedStep, BeginStart, BeginLoad, TakeLock, LaunchFails, StartSucceeds, StartFails,
                  FreeStep, BeginStop, BeginShutdown, SignalRunner, WaitStop, StopSucceeds, Await,
                  ShutdownSucceeds, NotRunning, GiveUp, Quiet, Finish, At, files, apps, history, vars
    <2> QED BY <2>1
  <1> QED BY <1>1, <1>2, <1>3

\* The saved state fits the disk until it is used.
LEMMA SavedFitsKept ==
    ASSUME TypeOK, Control, SavedFits, [Next]_vars
    PROVE  SavedFits'
  <1>1. CASE UNCHANGED vars
    BY <1>1 DEF SavedFits, vars, files, apps, history
  <1>2. CASE Next
    BY <1>2, GuestKeepsSavedFits, EventsKeepSavedFits, CommandsKeepSavedFits
       DEF Next, RunnerStep, Environment
  <1> QED BY <1>1, <1>2

\* A saved state is restored only on the disk it was saved with, unless some
\* runner failed to remove one that was used or outlived, or died before it.
THEOREM SavedStateRestorable ==
    ASSUME MaxGaps = 0
    PROVE  Spec => []SavedStateFits
  <1>1. Init => SavedFits
    BY DEF Init, SavedFits
  <1>2. SavedFits => SavedStateFits
    BY DEF SavedFits, SavedStateFits
  <1> QED BY <1>1, <1>2, SavedFitsKept, Controlled, PTL DEF Spec

-------------------------------------------------------------------------------
(* What start and stop report *)

\* The termination mode is kept in step with the machine.
LEMMA ModeFitsKept ==
    ASSUME TypeOK, ModeFits, [Next]_vars
    PROVE  ModeFits'
  <1> USE DEF TypeOK, AppTypes, ModeFits, GoTo, Becomes, Mode, Active
  <1>1. ASSUME NEW r \in Runners, RunnerStep(r)
        PROVE  ModeFits'
    <2>1. CASE FinishLaunching(r) \/ StartEnds(r) \/ RestoreEnds(r) \/ ResumeEnds(r)
      BY <2>1 DEF FinishLaunching, StartEnds, RestoreEnds, ResumeEnds, FailsToStart, Event
    <2>2. CASE Consume(r) \/ SuspendSignal(r) \/ PauseEnds(r) \/ SaveEnds(r)
      BY <2>2 DEF Consume, SuspendSignal, BeginSuspend, PauseEnds, SaveEnds, Event
    <2>3. CASE ShutdownSignal(r)
      BY <2>3 DEF ShutdownSignal, Accept, Reject, Event
    <2>4. CASE DidStop(r) \/ Exit(r)
      BY <2>4 DEF DidStop, Exit, Gone, Event
    <2> QED BY <1>1, <2>1, <2>2, <2>3, <2>4 DEF RunnerStep
  <1>2. ASSUME NEW r \in Runners, Environment(r)
        PROVE  ModeFits'
    <2>1. CASE GuestWrites(r) \/ GuestStops(r)
      BY <2>1 DEF GuestWrites, GuestStops, apps
    <2>2. CASE Quit(r)
      BY <2>2 DEF Quit, BeginSuspend, Event
    <2>3. CASE Crash(r)
      BY <2>3 DEF Crash, Gone
    <2> QED BY <1>2, <2>1, <2>2, <2>3 DEF Environment
  <1>3. ASSUME NEW c \in Clients, LockedStep(c) \/ FreeStep(c) \/ GiveUp(c)
        PROVE  ModeFits'
    <2>1. UNCHANGED <<vm, mode>> /\ (UNCHANGED step \/ Launch(c))
      BY <1>3 DEF LockedStep, BeginStart, BeginLoad, TakeLock, Launch, LaunchFails, StartSucceeds,
                  StartFails, Replace, FreeStep, BeginStop, BeginShutdown, SignalRunner, WaitStop,
                  StopSucceeds, Await, ShutdownSucceeds, NotRunning, GiveUp, Quiet, Finish, At,
                  vars, apps
    <2> QED BY <2>1 DEF Launch
  <1>4. CASE UNCHANGED vars
    BY <1>4 DEF vars, apps
  <1> QED BY <1>1, <1>2, <1>3, <1>4 DEF Next

\* A runner that writes a record without its pid does not write "running".
LEMMA WritesOwn ==
    ASSUME NEW r \in Runners, RunnerStep(r) \/ Environment(r)
    PROVE  record' = record \/ record'.pid = r \/ record'.state # "running"
  <1> USE DEF Record
  <1>1. CASE FinishLaunching(r) \/ StartEnds(r) \/ RestoreEnds(r) \/ ResumeEnds(r)
    BY <1>1 DEF FinishLaunching, FirstRecord, StartEnds, RestoreEnds, ResumeEnds, FailsToStart,
                WriteRuntime
  <1>2. CASE Consume(r) \/ DidStop(r)
    BY <1>2 DEF Consume, DidStop, RemoveSaveAndWrite
  <1>3. CASE SuspendSignal(r) \/ PauseEnds(r) \/ SaveEnds(r) \/ Quit(r)
    BY <1>3 DEF SuspendSignal, BeginSuspend, PauseEnds, SaveEnds, Quit, WriteRuntime
  <1>4. CASE ShutdownSignal(r) \/ Exit(r) \/ GuestWrites(r) \/ GuestStops(r) \/ Crash(r)
    BY <1>4 DEF ShutdownSignal, Accept, Reject, Exit, GuestWrites, GuestStops, Crash, files
  <1> QED BY <1>1, <1>2, <1>3, <1>4 DEF RunnerStep, Environment

\* start goes on to poll for its own runner.
LEMMA PollsOwnKept ==
    ASSUME MaxGaps = 0, TypeOK, Control, PollsOwn, [Next]_vars
    PROVE  PollsOwn'
  <1>1. ASSUME NEW r \in Runners, RunnerStep(r) \/ Environment(r)
        PROVE  PollsOwn'
    <2>1. Moves(r)
      BY <1>1, EventsMove DEF TypeOK, BoundTypes, Control
    <2>2. record' = record \/ record'.pid = r \/ record'.state # "running"
      BY <1>1, WritesOwn
    <2>3. \A s \in Runners : Out(s) => Out(s)'
      BY <2>1 DEF Moves, Out, HasGuest
    <2> QED BY <2>1, <2>2, <2>3 DEF Moves, PollsOwn, cli
  <1>2. ASSUME NEW c \in Clients, LockedStep(c) \/ FreeStep(c) \/ GiveUp(c)
        PROVE  PollsOwn'
    <2> USE DEF TypeOK, ClientTypes
    <2>1. CASE Launch(c)
      <3>1. \A r \in Runners : Out(r)
        BY <2>1 DEF Launch, At, Control, Undisturbed
      <3>2. \A d \in Clients \ {c} : pc[d] # "poll"
        BY <2>1 DEF Launch, At, Control, LockHeld, LockedSteps
      <3> QED BY <2>1, <3>1, <3>2
              DEF Launch, At, GoTo, PollsOwn, Out, HasGuest, NoRecord, Record, AppTypes
    <2>2. CASE LaunchFails(c)
      BY <2>2 DEF LaunchFails, Finish, At, PollsOwn, Out, HasGuest, NoRecord, Record
    <2>3. CASE ~Launch(c) /\ ~LaunchFails(c)
      <3>1. /\ UNCHANGED <<step, vm, record>>
            /\ \A d \in Clients : pc'[d] = "poll" => pc[d] = "poll" /\ target'[d] = target[d]
        BY <1>2, <2>3
           DEF LockedStep, BeginStart, BeginLoad, TakeLock, StartSucceeds, StartFails, Replace,
               FreeStep, BeginStop, BeginShutdown, SignalRunner, WaitStop, StopSucceeds, Await,
               ShutdownSucceeds, NotRunning, GiveUp, Quiet, Finish, At, files, apps, cli, vars
      <3> QED BY <3>1 DEF PollsOwn, Out, HasGuest
    <2> QED BY <2>1, <2>2, <2>3
  <1>3. CASE UNCHANGED vars
    BY <1>3 DEF PollsOwn, Out, HasGuest, vars, files, apps, cli
  <1> QED BY <1>1, <1>2, <1>3 DEF Next

\* A record "running" that nothing failed to update is true.
LEMMA RunningIsTrueKept ==
    ASSUME MaxGaps = 0, TypeOK, Control, ModeFits, RunningIsTrue, [Next]_vars
    PROVE  RunningIsTrue'
  <1> USE DEF TypeOK, AppTypes, BoundTypes, RunningIsTrue, GoTo, Becomes, Mode, Active
  <1>1. ASSUME NEW r \in Runners, RunnerStep(r)
        PROVE  RunningIsTrue'
    <2> USE DEF Event, Record
    <2>1. CASE FinishLaunching(r)
      <3>1. record'.state # "running"
        BY <2>1, BoundsAssumption DEF FinishLaunching, FirstRecord, Gap
      <3> QED BY <3>1
    <2>2. CASE StartEnds(r)
      BY <2>2 DEF StartEnds, FailsToStart, WriteRuntime, Failing, ModeFits
    <2>3. CASE RestoreEnds(r) \/ ResumeEnds(r)
      BY <2>3 DEF RestoreEnds, ResumeEnds, FailsToStart, WriteRuntime, Failing
    <2>4. CASE Consume(r)
      BY <2>4 DEF Consume, RemoveSaveAndWrite, Failing, ModeFits, Control, GuestInside
    <2>5. CASE SuspendSignal(r) \/ PauseEnds(r)
      BY <2>5 DEF SuspendSignal, BeginSuspend, PauseEnds, WriteRuntime, Failing
    <2>6. CASE SaveEnds(r)
      BY <2>6 DEF SaveEnds, WriteRuntime, Failing
    <2>7. CASE ShutdownSignal(r)
      BY <2>7 DEF ShutdownSignal, Accept, Reject, Failing
    <2>8. CASE DidStop(r)
      BY <2>8 DEF DidStop, RemoveSaveAndWrite, Failing
    <2>9. CASE Exit(r)
      BY <2>9 DEF Exit, Gone, ModeFits, files, bounds
    <2> QED BY <1>1, <2>1, <2>2, <2>3, <2>4, <2>5, <2>6, <2>7, <2>8, <2>9 DEF RunnerStep
  <1>2. ASSUME NEW r \in Runners, Environment(r)
        PROVE  RunningIsTrue'
    <2>1. CASE GuestWrites(r) \/ GuestStops(r)
      BY <2>1 DEF GuestWrites, GuestStops, files, apps, bounds
    <2>2. CASE Quit(r)
      BY <2>2 DEF Quit, BeginSuspend, WriteRuntime, Failing, Event, Record
    <2>3. CASE Crash(r)
      BY <2>3 DEF Crash
    <2> QED BY <1>2, <2>1, <2>2, <2>3 DEF Environment
  <1>3. ASSUME NEW c \in Clients, LockedStep(c) \/ FreeStep(c) \/ GiveUp(c)
        PROVE  RunningIsTrue'
    <2>1. /\ UNCHANGED <<vm, mode, crashes, faults>>
          /\ record' = record \/ record'.state # "running"
      BY <1>3 DEF LockedStep, BeginStart, BeginLoad, TakeLock, Launch, LaunchFails, StartSucceeds,
                  StartFails, Replace, FreeStep, BeginStop, BeginShutdown, SignalRunner, WaitStop,
                  StopSucceeds, Await, ShutdownSucceeds, NotRunning, GiveUp, Quiet, Finish, At,
                  NoRecord, Record, files, apps, bounds, vars
    <2> QED BY <2>1
  <1>4. CASE UNCHANGED vars
    BY <1>4 DEF vars, files, apps, bounds
  <1> QED BY <1>1, <1>2, <1>3, <1>4 DEF Next

\* Half a saved state goes with its machine.
LEMMA BrokenIsOwnedKept ==
    ASSUME TypeOK, ModeFits, BrokenIsOwned, [Next]_vars
    PROVE  BrokenIsOwned'
  <1> USE MarksAssumption
      DEF TypeOK, FileTypes, AppTypes, BoundTypes, BrokenIsOwned, GoTo, Becomes, Mode, Active, history
  <1>1. ASSUME NEW r \in Runners, RunnerStep(r)
        PROVE  BrokenIsOwned'
    <2> USE DEF Event
    <2>1. CASE FinishLaunching(r) \/ StartEnds(r) \/ RestoreEnds(r) \/ ResumeEnds(r)
      BY <2>1 DEF FinishLaunching, StartEnds, RestoreEnds, ResumeEnds, FailsToStart
    <2>2. CASE Consume(r) \/ DidStop(r)
      <3>1. save' = None \/ r \in lapsed'
        BY <2>2 DEF Consume, DidStop, RemoveSaveAndWrite
      <3> QED BY <3>1
    <2>3. CASE SuspendSignal(r) \/ PauseEnds(r) \/ ShutdownSignal(r)
      BY <2>3 DEF SuspendSignal, BeginSuspend, PauseEnds, ShutdownSignal, Accept, Reject
    <2>4. CASE SaveEnds(r)
      BY <2>4 DEF SaveEnds, ModeFits
    <2>5. CASE Exit(r)
      BY <2>5 DEF Exit, Gone, files, bounds
    <2> QED BY <1>1, <2>1, <2>2, <2>3, <2>4, <2>5 DEF RunnerStep
  <1>2. ASSUME NEW r \in Runners, Environment(r)
        PROVE  BrokenIsOwned'
    <2>1. CASE GuestWrites(r) \/ GuestStops(r)
      BY <2>1 DEF GuestWrites, GuestStops, files, apps, bounds
    <2>2. CASE Quit(r)
      BY <2>2 DEF Quit, BeginSuspend, Event
    <2>3. CASE Crash(r)
      BY <2>3 DEF Crash
    <2> QED BY <1>2, <2>1, <2>2, <2>3 DEF Environment
  <1>3. ASSUME NEW c \in Clients, LockedStep(c) \/ FreeStep(c) \/ GiveUp(c)
        PROVE  BrokenIsOwned'
    <2>1. /\ UNCHANGED <<vm, mode, lapsed, crashes>>
          /\ UNCHANGED save \/ save' # Broken
          /\ UNCHANGED step \/ Launch(c)
      BY <1>3 DEF LockedStep, BeginStart, BeginLoad, TakeLock, Launch, LaunchFails, StartSucceeds,
                  StartFails, Replace, FreeStep, BeginStop, BeginShutdown, SignalRunner, WaitStop,
                  StopSucceeds, Await, ShutdownSucceeds, NotRunning, GiveUp, Quiet, Finish, At,
                  files, apps, bounds, vars
    <2> QED BY <2>1 DEF Launch
  <1>4. CASE UNCHANGED vars
    BY <1>4 DEF vars, files, apps, bounds
  <1> QED BY <1>1, <1>2, <1>3, <1>4 DEF Next

\* The additional invariants at every step.
LEMMA Truthful ==
    ASSUME MaxGaps = 0
    PROVE  Spec => [](PollsOwn /\ RunningIsTrue /\ BrokenIsOwned /\ SavedFits)
  <1>1. Init => ModeFits /\ PollsOwn /\ RunningIsTrue /\ BrokenIsOwned /\ SavedFits
    BY MarksAssumption
       DEF Init, ModeFits, PollsOwn, RunningIsTrue, BrokenIsOwned, SavedFits, NoRecord, Record
  <1> QED BY <1>1, Controlled, ModeFitsKept, PollsOwnKept, RunningIsTrueKept, BrokenIsOwnedKept,
             SavedFitsKept, PTL DEF Spec

\* "VM runner started": if nothing failed, the guest of the launched runner runs
\* or has just stopped.
THEOREM StartTellsTruth ==
    ASSUME MaxGaps = 0
    PROVE  Spec => StartReportsAreTrue
  <1>1. PollsOwn /\ RunningIsTrue =>
          \A c \in Clients :
              StartSucceeds(c) /\ crashes = 0 /\ faults = 0
                  => vm[target[c]] \in Active \cup {"off", "failed"}
    BY DEF PollsOwn, RunningIsTrue, StartSucceeds, Finish, At
  <1> QED BY <1>1, Truthful, PTL DEF StartReportsAreTrue, Spec

\* "VM suspended and stopped": with no runner left the saved state is whole and
\* fits the disk, if no runner died or left an old one.
THEOREM StopTellsTruth ==
    ASSUME MaxGaps = 0
    PROVE  Spec => StopReportsAreTrue
  <1>1. SavedFits /\ BrokenIsOwned =>
          \A c \in Clients :
              StopSucceeds(c) /\ crashes = 0 /\ lapsed = {}
              /\ (\A r \in Runners : ~Alive(r)) => save \in {disk, Torn}
    BY DEF SavedFits, BrokenIsOwned, StopSucceeds, Alive
  <1> QED BY <1>1, Truthful, PTL DEF StopReportsAreTrue, Spec

-------------------------------------------------------------------------------
(* The refinement *)

\* What Session takes for the guests and for the saved memory.
Guests == {r \in Runners : vm[r] \in Active}
Resumed == \E r \in Runners : step[r] = "resumed"
Memory ==
    IF lapsed # {} \/ Resumed THEN None ELSE IF save = Torn THEN Broken ELSE save

\* The steps of the session, in terms of the runner.
LEMMA BootStep ==
    ASSUME NEW r \in Runners, Guests = {}, Guests' = {r}, Memory = None, Memory' = None,
           UNCHANGED <<disk, lapsed>>
    PROVE  Session!Next
  BY DEF Guests, Memory, Resumed, Session!Next, Session!Off, Session!Boot

LEMMA ResumeStep ==
    ASSUME NEW r \in Runners, Guests = {}, Guests' = {r}, Memory = disk, Memory' = None,
           UNCHANGED <<disk, lapsed>>
    PROVE  Session!Next
  BY DEF Guests, Memory, Resumed, Session!Next, Session!Off, Session!Resume

LEMMA WriteStep ==
    ASSUME Guests # {}, Memory = None, disk' = disk + 1, Memory' = Memory, Guests' = Guests,
           UNCHANGED lapsed
    PROVE  Session!Next
  BY DEF Guests, Memory, Resumed, Session!Next, Session!On, Session!Write

\* Saving, with each of its results.
LEMMA SaveStep ==
    ASSUME lapsed = {}, Guests # {}, UNCHANGED <<disk, lapsed>>,
           \/ Guests' = {} /\ Memory' = disk
           \/ Guests' \in {Guests, {}} /\ Memory' = Broken
    PROVE  Session!Next
  BY DEF Guests, Memory, Resumed, Session!Next, Session!On, Session!Suspend, Session!Spoil, Session!Leaves

LEMMA StopStep ==
    ASSUME Guests # {}, Guests' = {}, Memory' = Memory, UNCHANGED <<disk, lapsed>>
    PROVE  Session!Next
  BY DEF Guests, Memory, Resumed, Session!Next, Session!On, Session!Stop

LEMMA DiscardStep ==
    ASSUME Guests = {}, Memory = Broken, Guests' = Guests, Memory' = None,
           UNCHANGED <<disk, lapsed>>
    PROVE  Session!Next
  BY DEF Guests, Memory, Resumed, Session!Next, Session!Off, Session!Discard

LEMMA LoadStep ==
    ASSUME Guests = {}, Guests' = {}, disk' = disk + 1, UNCHANGED lapsed,
           lapsed # {} => Memory' = None,
           lapsed = {} => Memory' \in {None, disk', Broken}
    PROVE  Session!Next
  BY DEF Guests, Memory, Resumed, Session!Next, Session!Off, Session!Load, Session!Leaves

LEMMA LapseStep ==
    ASSUME lapsed' # {}, Guests' \in {Guests, {}}, UNCHANGED disk
    PROVE  Session!Next
  BY DEF Guests, Memory, Resumed, Session!Next, Session!Lapse

LEMMA SessionStutters ==
    ASSUME Guests' = Guests, Memory' = Memory, UNCHANGED <<disk, lapsed>>
    PROVE  UNCHANGED Session!vars
  BY DEF Guests, Memory, Resumed, Session!vars

\* Whoever is not out of the way has the only guest, before and after a step of
\* its own.
LEMMA OwnMachine ==
    ASSUME TypeOK, Control, NEW r \in Runners, ~Out(r),
           \A s \in Runners \ {r} : step'[s] = step[s] /\ vm'[s] = vm[s]
    PROVE  /\ Guests = IF vm[r] \in Active THEN {r} ELSE {}
           /\ Guests' = IF vm'[r] \in Active THEN {r} ELSE {}
           /\ Resumed <=> step[r] = "resumed"
           /\ Resumed' <=> step'[r] = "resumed"
  <1>1. \A s \in Runners \ {r} : vm[s] \notin Active /\ step[s] # "resumed"
    BY DEF Control, Single, Out, HasGuest
  <1> QED BY <1>1 DEF Guests, Resumed

\* A step of the runner r leaves the others alone.
LEMMA StepIsOwn ==
    ASSUME NEW r \in Runners, RunnerStep(r) \/ Environment(r), TypeOK
    PROVE  \A s \in Runners \ {r} : step'[s] = step[s] /\ vm'[s] = vm[s]
  <1> USE DEF TypeOK, AppTypes, GoTo, Becomes
  <1>1. CASE FinishLaunching(r) \/ StartEnds(r) \/ RestoreEnds(r) \/ ResumeEnds(r)
    BY <1>1 DEF FinishLaunching, StartEnds, RestoreEnds, ResumeEnds, FailsToStart, Event
  <1>2. CASE Consume(r) \/ DidStop(r) \/ SaveEnds(r) \/ Exit(r) \/ Crash(r)
    BY <1>2 DEF Consume, DidStop, SaveEnds, Exit, Crash, Gone, Event
  <1>3. CASE SuspendSignal(r) \/ PauseEnds(r) \/ Quit(r) \/ ShutdownSignal(r)
    BY <1>3 DEF SuspendSignal, PauseEnds, Quit, BeginSuspend, ShutdownSignal, Accept, Reject, Event
  <1>4. CASE GuestWrites(r) \/ GuestStops(r)
    BY <1>4 DEF GuestWrites, GuestStops, apps
  <1> QED BY <1>1, <1>2, <1>3, <1>4 DEF RunnerStep, Environment

\* A machine that was started or restored begins to run, or fails.
LEMMA StartsImplement ==
    ASSUME TypeOK, Control, SavedFits, NEW r \in Runners,
           StartEnds(r) \/ ResumeEnds(r)
    PROVE  Session!Next \/ UNCHANGED Session!vars
  <1> USE DEF TypeOK, AppTypes, GoTo, Becomes, Event, history
  <1>1. ~Out(r) /\ vm[r] \in Busy /\ step[r] = "idle" /\ UNCHANGED <<disk, save, lapsed>>
    BY DEF StartEnds, ResumeEnds, Out, Busy
  <1>2. /\ Guests = {} /\ Guests' = IF vm'[r] \in Active THEN {r} ELSE {}
        /\ ~Resumed /\ (Resumed' <=> step'[r] = "resumed")
    <2>1. \A s \in Runners \ {r} : step'[s] = step[s] /\ vm'[s] = vm[s]
      BY StepIsOwn DEF RunnerStep
    <2> QED BY <1>1, <2>1, OwnMachine DEF Active, Busy
  <1>3. CASE StartEnds(r) /\ vm'[r] = "running"
    <2>1. step'[r] # "resumed" /\ Memory = None
      BY <1>1, <1>2, <1>3, MarksAssumption DEF StartEnds, FailsToStart, SavedFits, Memory
    <2> QED BY <1>1, <1>2, <1>3, <2>1, BootStep DEF Memory, Active
  <1>4. CASE ResumeEnds(r) /\ vm'[r] = "running"
    <2>1. step'[r] = "resumed"
      BY <1>1, <1>4 DEF ResumeEnds, FailsToStart
    <2>2. Memory' = None /\ Memory \in {None, disk}
      BY <1>1, <1>2, <1>4, <2>1, MarksAssumption DEF ResumeEnds, SavedFits, Memory, FileTypes
    <2> QED BY <1>1, <1>2, <1>4, <2>2, BootStep, ResumeStep DEF Active
  <1>5. CASE vm'[r] # "running"
    <2>1. vm'[r] = "none" /\ step'[r] = "exiting"
      BY <1>5 DEF StartEnds, ResumeEnds, FailsToStart
    <2> QED BY <1>1, <1>2, <2>1, SessionStutters DEF Memory, Active
  <1> QED BY <1>3, <1>4, <1>5

\* Saved memory that was used, or of a guest that has stopped, is removed.
LEMMA RemovalsImplement ==
    ASSUME TypeOK, Control, SavedFits, NEW r \in Runners, Consume(r) \/ DidStop(r)
    PROVE  Session!Next \/ UNCHANGED Session!vars
  <1> USE DEF TypeOK, AppTypes, GoTo, Event
  <1>1. /\ ~Out(r) /\ step[r] \in {"idle", "resumed"} /\ step'[r] # "resumed"
        /\ UNCHANGED <<disk, vm>>
    BY DEF Consume, DidStop, Out
  <1>2. /\ Guests = IF vm[r] \in Active THEN {r} ELSE {}
        /\ Guests' = Guests
        /\ (Resumed <=> step[r] = "resumed") /\ ~Resumed'
    <2>1. \A s \in Runners \ {r} : step'[s] = step[s] /\ vm'[s] = vm[s]
      BY StepIsOwn DEF RunnerStep
    <2> QED BY <1>1, <2>1, OwnMachine
  <1>3. CASE lapsed' # {}
    BY <1>1, <1>2, <1>3, LapseStep
  <1>4. CASE lapsed' = {}
    <2>1. UNCHANGED lapsed /\ lapsed = {} /\ save' = None /\ Memory' = None
      BY <1>2, <1>4, MarksAssumption DEF Consume, DidStop, RemoveSaveAndWrite, Memory
    <2>2. CASE Memory = None
      BY <1>1, <1>2, <2>1, <2>2, SessionStutters
    <2>3. CASE Memory # None
      <3>1. DidStop(r) /\ step[r] = "idle" /\ vm[r] \in {"off", "failed"}
        BY <1>2, <2>3 DEF Consume, DidStop, Memory
      <3>2. Guests = {} /\ Memory = Broken
        BY <1>2, <2>1, <2>3, <3>1 DEF Active, SavedFits, Memory
      <3> QED BY <1>1, <1>2, <2>1, <3>2, DiscardStep
    <2> QED BY <2>2, <2>3
  <1> QED BY <1>3, <1>4

\* Memory is saved, whole or in part, or a runner dies.
LEMMA SavesImplement ==
    ASSUME TypeOK, Control, NEW r \in Runners, ~Out(r), SaveEnds(r) \/ Crash(r)
    PROVE  Session!Next \/ UNCHANGED Session!vars
  <1> USE DEF TypeOK, AppTypes, GoTo, Becomes, Event, Active, history
  <1>1. UNCHANGED disk
    BY DEF SaveEnds, Crash
  <1>2. /\ Guests = IF vm[r] \in Active THEN {r} ELSE {}
        /\ Guests' = IF vm'[r] \in Active THEN {r} ELSE {}
        /\ (Resumed <=> step[r] = "resumed") /\ (Resumed' <=> step'[r] = "resumed")
    <2>1. \A s \in Runners \ {r} : step'[s] = step[s] /\ vm'[s] = vm[s]
      BY StepIsOwn DEF RunnerStep, Environment
    <2> QED BY <2>1, OwnMachine
  <1>3. vm'[r] \in Active => vm[r] \in Active
    BY DEF SaveEnds, Crash, Gone, HasGuest
  <1>4. CASE lapsed' # {}
    BY <1>1, <1>2, <1>3, <1>4, LapseStep
  <1>5. CASE lapsed' = {}
    <2>1. lapsed = {} /\ step[r] # "resumed" /\ step'[r] # "resumed"
      BY <1>5 DEF SaveEnds, Crash, Gone
    <2>2. /\ Memory = IF save = Torn THEN Broken ELSE save
          /\ Memory' = IF save' = Torn THEN Broken ELSE save'
      BY <1>2, <1>5, <2>1 DEF Memory
    <2>3. CASE save' = save /\ Guests' = Guests
      BY <1>1, <1>5, <2>1, <2>2, <2>3, SessionStutters
    <2>4. CASE save' = save /\ Guests' # Guests
      <3>1. Guests # {} /\ Guests' = {}
        BY <1>2, <1>3, <2>4
      <3> QED BY <1>1, <1>5, <2>1, <2>2, <2>4, <3>1, StopStep
    <2>5. CASE save' # save
      <3>1. /\ vm[r] = "saving" /\ save' \in {disk, Broken}
            /\ vm'[r] \in Active => save' = Broken
        BY <2>5 DEF SaveEnds, Crash, Gone, HasGuest
      <3>2. Memory' = save'
        BY <2>2, <3>1, MarksAssumption DEF FileTypes
      <3> QED BY <1>1, <1>2, <1>5, <2>1, <3>1, <3>2, SaveStep
    <2> QED BY <2>3, <2>4, <2>5
  <1> QED BY <1>4, <1>5

\* The machine of r begins to run, runs, is saved and stops.
LEMMA RunnersImplement ==
    ASSUME TypeOK, Control, SavedFits, NEW r \in Runners,
           RunnerStep(r) \/ Environment(r)
    PROVE  Session!Next \/ UNCHANGED Session!vars
  <1> USE DEF TypeOK, AppTypes, GoTo, Becomes
  <1>a. \A s \in Runners \ {r} : step'[s] = step[s] /\ vm'[s] = vm[s]
    BY StepIsOwn
  <1>b. lapsed' = {} => lapsed = {}
    BY DEF RunnerStep, Environment, FinishLaunching, StartEnds, RestoreEnds, ResumeEnds, Consume,
           SuspendSignal, PauseEnds, SaveEnds, ShutdownSignal, DidStop, Exit, GuestWrites,
           GuestStops, Quit, Crash, RemoveSaveAndWrite, history
  <1>1. CASE Out(r)
    <2>1. CASE Exit(r) \/ Crash(r)
      <3>1. Guests' = Guests /\ Resumed' = Resumed /\ UNCHANGED <<disk, save>>
        BY <1>1, <1>a, <2>1 DEF Exit, Crash, Gone, Out, HasGuest, Active, Guests, Resumed, files
      <3>2. lapsed' # {} \/ UNCHANGED lapsed
        BY <2>1 DEF Exit, Crash
      <3> QED BY <3>1, <3>2, LapseStep, SessionStutters DEF Memory
    <2>2. ~Exit(r) /\ ~Crash(r) => FALSE
      BY <1>1
         DEF Out, HasGuest, Active, RunnerStep, Environment, FinishLaunching, StartEnds, RestoreEnds,
             ResumeEnds, Consume, SuspendSignal, PauseEnds, SaveEnds, ShutdownSignal, DidStop,
             GuestWrites, GuestStops, Quit, Event
    <2> QED BY <2>1, <2>2
  <1>2. CASE ~Out(r)
    <2>a. /\ Guests = IF vm[r] \in Active THEN {r} ELSE {}
          /\ Guests' = IF vm'[r] \in Active THEN {r} ELSE {}
          /\ Resumed <=> step[r] = "resumed"
          /\ Resumed' <=> step'[r] = "resumed"
      BY <1>2, <1>a, OwnMachine
    <2>b. ASSUME vm'[r] \in Active <=> vm[r] \in Active, step'[r] = "resumed" <=> step[r] = "resumed",
                 UNCHANGED <<disk, save, lapsed>>
          PROVE  UNCHANGED Session!vars
      BY <2>a, <2>b, SessionStutters DEF Memory
    <2>1. CASE FinishLaunching(r) \/ RestoreEnds(r)
      BY <2>1, <2>b
         DEF FinishLaunching, RestoreEnds, FailsToStart, Event, Control, GuestInside, HasGuest, Active,
             Busy, history
    <2>2. CASE StartEnds(r) \/ ResumeEnds(r)
      BY <2>2, StartsImplement
    <2>3. CASE SuspendSignal(r) \/ PauseEnds(r) \/ ShutdownSignal(r) \/ Quit(r)
      BY <2>3, <2>b
         DEF SuspendSignal, PauseEnds, ShutdownSignal, Accept, Reject, Quit, BeginSuspend, Event,
             Active, history
    <2>4. CASE Consume(r) \/ DidStop(r)
      BY <2>4, RemovalsImplement
    <2>5. CASE SaveEnds(r) \/ Crash(r)
      BY <1>2, <2>5, SavesImplement
    <2>6. CASE Exit(r) \/ GuestStops(r)
      <3>1. /\ vm'[r] \notin Active /\ (step'[r] = "resumed" <=> step[r] = "resumed")
            /\ UNCHANGED <<disk, save, lapsed>>
        BY <2>6 DEF Exit, Gone, GuestStops, HasGuest, Active, Busy, apps, files, history
      <3>2. CASE vm[r] \in Active
        BY <2>a, <3>1, <3>2, StopStep DEF Memory
      <3>3. CASE vm[r] \notin Active
        BY <2>b, <3>1, <3>3
      <3> QED BY <3>2, <3>3
    <2>7. CASE GuestWrites(r)
      <3>1. /\ vm[r] \in Active /\ disk' = disk + 1
            /\ UNCHANGED <<vm, step, save, lapsed>>
        BY <2>7 DEF GuestWrites, Active, apps, history
      <3>2. Memory = None
        BY <2>a, <2>7, MarksAssumption DEF GuestWrites, SavedFits, Memory
      <3> QED BY <2>a, <3>1, <3>2, WriteStep DEF Memory
    <2> QED BY <2>1, <2>2, <2>3, <2>4, <2>5, <2>6, <2>7 DEF RunnerStep, Environment
  <1> QED BY <1>1, <1>2

\* Commands: a load finds no guest; whatever else they do is no step of the
\* session.
LEMMA CommandsImplement ==
    ASSUME TypeOK, Control, NEW c \in Clients, LockedStep(c) \/ FreeStep(c) \/ GiveUp(c)
    PROVE  Session!Next \/ UNCHANGED Session!vars
  <1>1. CASE Replace(c)
    <2>1. \A r \in Runners : Out(r)
      BY <1>1 DEF Control, Undisturbed, Replace, Finish, At
    <2>2. /\ UNCHANGED <<vm, step, lapsed>> /\ disk' = disk + 1
          /\ lapsed = {} => save' \in {None, disk', Torn}
      BY <1>1 DEF Replace, Finish, At, history
    <2>3. Guests = {} /\ Guests' = {} /\ Resumed' = FALSE
      BY <2>1, <2>2 DEF Guests, Resumed, Out, HasGuest
    <2> QED BY <2>2, <2>3, LoadStep DEF Memory
  <1>2. CASE ~Replace(c)
    <2>1. UNCHANGED <<disk, save, vm, lapsed>> /\ (UNCHANGED step \/ Launch(c))
      BY <1>2
         DEF LockedStep, BeginStart, BeginLoad, TakeLock, Launch, LaunchFails, StartSucceeds,
             StartFails, FreeStep, BeginStop, BeginShutdown, SignalRunner, WaitStop, StopSucceeds,
             Await, ShutdownSucceeds, NotRunning, GiveUp, Quiet, Finish, At, files, apps, history,
             vars
    <2>2. Guests' = Guests /\ Resumed' = Resumed
      BY <2>1 DEF Guests, Resumed, Launch, GoTo, TypeOK, AppTypes
    <2> QED BY <2>1, <2>2, SessionStutters DEF Memory
  <1> QED BY <1>1, <1>2

\* For every number of commands, runners and failures the program is one machine
\* that is booted, suspended, resumed, stopped and replaced in single steps, as
\* long as no start ends before its runner has a record.
THEOREM Refinement ==
    ASSUME MaxGaps = 0
    PROVE  Spec => ImplementsSession
  <1>1. Init => Session!Init
    <2> SUFFICES ASSUME Init PROVE Session!Init
      OBVIOUS
    <2>1. Guests = {} /\ Memory = save
      BY MarksAssumption DEF Init, Guests, Resumed, Memory, Active
    <2> QED BY <2>1 DEF Init, Guests, Resumed, Memory, Session!Init
  <1>2. Init => SavedFits
    BY DEF Init, SavedFits
  <1>3. TypeOK /\ Control /\ SavedFits /\ [Next]_vars
          => [Session!Next]_(Session!vars)
    <2> SUFFICES ASSUME TypeOK, Control, SavedFits, [Next]_vars
                 PROVE  Session!Next \/ UNCHANGED Session!vars
      OBVIOUS
    <2>1. CASE UNCHANGED vars
      <3>1. Guests' = Guests /\ Memory' = Memory /\ UNCHANGED <<disk, lapsed>>
        BY <2>1 DEF vars, files, apps, history, Guests, Memory, Resumed
      <3> QED BY <3>1, SessionStutters
    <2>2. CASE Next
      BY <2>2, RunnersImplement, CommandsImplement DEF Next
    <2> QED BY <2>1, <2>2
  <1> QED BY <1>1, <1>2, <1>3, Controlled, SavedFitsKept, PTL
          DEF Spec, ImplementsSession, Session!Spec
===============================================================================
