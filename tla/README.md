# Verification of vmctl

Formal models of `vmctl`, the command-line manager of a macOS development VM,
written in TLA+, model-checked with TLC and proved about with TLAPS. Paths are
relative to the root of the repository: `src/vmctl/` is the Python package,
`runner/` the Swift package, `spec/` the design documents.

Contents: [the system](#the-system), [the modules](#the-modules),
[the runs](#the-runs), [where the code and its documents
disagree](#where-the-code-and-its-documents-disagree), [the
proofs](#the-proofs), [limits](#limits), [plan](#plan).

## The system

| Component | State it keeps | Operations | Status |
| --- | --- | --- | --- |
| Load transaction (`transactions.py`, `commands.py`) | the live bundle, `.VM.bundle.vmctl-<id>` beside it, `recovery/pending/<id>`, `recovery/failed`, `state/transaction.json`, `state/live.json` | load, revert, reset, and the reconciliation every mutating command starts with | modelled, proved |
| Catalog (`catalog.py`, `commands.py`) | `snapshots/<name>/{metadata.json,VM.bundle}`, `state/base.json`, `state/live.json` | snapshot, commit, promote, remove, list, tree, base | modelled, proved |
| Store (`store.py`) | the lock file | the advisory lock; atomic JSON writes, clone, move, guarded deletion | modelled: the lock in `SharedData`, the rest by its effects |
| Lifecycle (`lifecycle.py`) | nothing of its own; reads `state/runtime.json`, `state/control-response.json` | start, stop, shutdown, status | modelled, proved |
| VMRunner (`runner/Sources/VMRunner`) | the virtual machine, its termination mode, `SaveFile.vzvmsave`, the two records above | resume or boot, suspend, guest shutdown, quit | modelled, proved |
| VM configuration and MAC address (`VMConfigurationBuilder.swift`, `NetworkIdentity.swift`, `network.py`) | the identity file in the bundle | give a bundle its identity; build devices, derive an address | the identity in `Initialization`; the rest not modelled |
| Initialization (`initialization.py`, VMInstaller) | staged bundles, the live bundle, the first snapshot, base, origin, `config.json`, the cached restore image | import (clone, adopt), install, rollback | modelled, proved |
| Migration (`migration.py`) | a plan and its digest, `config.json` | plan, apply | modelled, proved; the recovery cleanup of older versions is not |
| Uninstall (`uninstall.py`) | the launcher, `current`, `releases/`, the data root | uninstall, purge | modelled, proved |
| Source installer (`script/install-from-source.sh`) | `releases/<version>`, a staging directory, `current`, the launcher, `install-manifest.json` | install, upgrade, reinstall | modelled, proved |
| Configuration (`config.py`) | none; reads `config.json` | which data and which runner a command works with | the choice, in `SharedData` |
| Command line, help, redaction, doctor, preflight, build and release scripts | none at run time | dispatch, diagnosis, packaging | not modelled |

**How they interact.** Commands meet in three places. Mutating commands take
one advisory lock (`FileLock`, `store.py:187`) and give up at once when it is
taken; `stop`, `shutdown`, `status`, `migrate plan`, `uninstall` and the
installer take none. Which lock it is depends on the state directory a command
found in `config.json` when it started. Everything else is files
under the state directory. And `stop` and `shutdown` send the runner a signal;
it answers through `runtime.json` and `control-response.json`, through the saved
state in the bundle and by exiting. The runner handles one event at a time on
its main queue and calls Virtualization.framework, which answers with a later
event.

**What is hard, and what makes each part correct.**

- *Load transaction.* The live bundle is replaced by two renames with a journal
  around them. A command may be killed before each step, each file operation may
  fail, some after they took effect, and the rollback can be interrupted and run
  again by another command. Correct means: what was live is never lost before the
  journal commits, a load is atomic to whoever looks later, reports are true, no
  guest runs in between, and every interrupted transaction is resolved.
- *Catalog.* Snapshots appear by a rename and disappear by a tree deletion that is
  not atomic; `commit` is a snapshot and a base change that must be undone
  together; `remove --detach-live` changes two files. Correct means: a library of
  immutable snapshots, a base that can always be loaded, an attached source that
  exists, no copy of a disk that was being written, and a tree that shows every
  snapshot.
- *Lifecycle and runner.* Two programs that share no lock, a user who quits and
  closes windows, a guest that shuts down by itself, signals, deadlines, a record
  that may be stale or could not be written, a saved state that must be used once.
  Correct means: one guest per bundle, a guest that every command can see, a saved
  state that is restored only on the disk it belongs to, no power cut that nobody
  asked for, and true reports.
- *Initialization.* A bundle, a snapshot, two pointers and a configuration are
  placed in sequence without a journal and rolled back by deletion; checks come
  before the lock; the program that owns the source knows nothing of it. Correct
  means: the source is kept, a base pointer is never without a base and a VM, a
  failed init is undone and harms no other init, and what is imported starts cold.
- *Program files.* Releases, a link to one of them and a launcher, changed by
  scripts and commands that share no lock, under VMs that keep running. Correct
  means: a launcher that works whatever an upgrade does, true success reports, and
  a running VM that the installed program recognizes.
- *Migration, purge, configuration.* The rules of who shares a lock with whom
  change while commands run. Correct means: one command per state directory, one
  guest or one load per bundle, and an adoption of what was reviewed.

## The modules

| Module | What it is |
| --- | --- |
| `LiveVM` | what load and reset promise: the live content is replaced in one step, or kept in an archive |
| `LoadTransaction` | the journaled replacement and its reconciliation; implements `LiveVM` |
| `SnapshotLibrary` | what the catalog promises: immutable snapshots and a base among them |
| `Catalog` | snapshot, commit, promote, remove and the tree; implements `SnapshotLibrary` |
| `MachineSession` | what start, stop, shutdown and load promise: one guest at a time, whose saved memory is used once and on its own disk |
| `Runner` | start, stop, shutdown and load against the VMRunner application; implements `MachineSession` |
| `Initialization` | `init import` and `init install`, their rollback, and the VMInstaller helper |
| `Installation` | the source installer, `vmctl uninstall` and the VMs that run from what they change |
| `SharedData` | the lock and the configuration under migration and purge: commands of two installations |
| `MCLoadTransaction`, `MCCatalog`, `MCRunner`, `MCInitialization`, `MCInstallation`, `MCSharedData` | the instances TLC checks, with their symmetry |
| `LoadTransactionProofs`, `CatalogProofs`, `RunnerProofs`, `InitializationProofs`, `InstallationProofs`, `SharedDataProofs` | invariants, lemmas and theorems |
| `LoadTransactionRefinement`, `CatalogTreeProofs` | more of them: reports, deletions and the refinement of the load; the tree |

The six detailed models split the program so that each one keeps the steps of
its part and takes the other parts as single steps, which the other models
justify. `Catalog` loads atomically because `LoadTransaction` implements
`LiveVM`; `LoadTransaction` assumes snapshots that are valid and never change,
which `Catalog` implements; both start a guest in one step and take "running" as
the truth, which holds for `Runner` as long as no start leaves a gap (below). All
three assume that there is one lock and one runner application; `SharedData` and
`Installation` show when that is so. `Initialization` is what comes before them:
a successful init leaves the state in which they begin (`SuccessIsWhole`, proved).

### LoadTransaction

State: one variable for each path or file (`live`, `temp`, `pending`, `failed`,
`journal`, `origin`), and for the one command that holds the lock its program
counter `pc` and locals. A bundle is `[from, rev]`: the snapshot it was cloned
from and how often a guest has written to it; `Partial` and `Empty` are bundles
that `validate_bundle` refuses. `before` remembers what the load found.

| Actions | Code |
| --- | --- |
| `CheckLoad`, `CloneStarts`, `CloneEnds`, `BeginTransaction` | `_load_transaction` up to the journal, `clone_bundle`, `begin_transaction` |
| `MakePending`, `Displace`, `PhaseDisplaced`, `Activate`, `PhaseActivated`, `SetLiveOrigin`, `Verify`, `PhaseCommitted` | the steps between the journal and the commit |
| `Handler`, `Discard`, `Keep` | the `except` clause of `_load_transaction` |
| `ReadJournal`, `CheckRollback`, `SetAsideLive`, `Restore`, `CheckRestored`, `RestoreOrigin`, `CheckPrepared`, `CheckCommitted` | `reconcile_transaction`, `_rollback_uncommitted` |
| `DeleteTemp`, `DeletePending`, `Clear` | `_delete_temporary`, `_delete_pending`, `_clear_journal` |
| `Quarantine`, `Retire` | `_quarantine_failure` |
| `BeginStart`, `Launch`, `GuestWrite`, `GuestStops` | `vmctl start` and the guest |
| `Crash` | the process is killed, or interrupted (`KeyboardInterrupt` is no `Exception`) |

A step that raises takes the path of the exception: into the handler of the
load, or out of the command. Where an operation may raise after it took effect
(`atomic_write_json` after its `os.replace`, the `fsync` after an `unlink`) both
outcomes are in the action. Deleting a tree passes through a `Partial` state.
`vmctl reset` is a load of the base and has no action of its own; the other
mutating commands begin with the same reconciliation, and `BeginStart` stands for
them.

### Catalog

State: the directories (`snapshots`, the running command's `temp`), the pointers
`base` and `origin`, the number of the guest session `live` holds, and the
command. A directory is `[parent, bundle]`; `Mixed` is a bundle that was copied
while a guest wrote, which nothing in the code can tell from a good one.

| Actions | Code |
| --- | --- |
| `CheckSnapshot`, `CloneStarts`, `CloneEnds`, `Describe`, `Publish`, `Reread` | `_snapshot_transaction` |
| `Cleanup`, `Keep` | its `except` clause |
| `Promote` | `promote`, `Catalog.set_base` |
| `SetBase`, `UndoBase`, `DeleteNew`, `KeepNew` | the second half of `commit` and what undoes it |
| `CheckRemove`, `Detach`, `Delete`, `Reattach` | `remove` |
| `Load`, `Start`, `GuestWrite`, `GuestStops`, `Crash` | the rest of the system, in single steps |
| `Active`, `Unreadable`, `TreeRoots`, `Visited`, `Printed` | `active_snapshots`, `Snapshot.from_directory`, `tree_lines` |

Abandoned `.tmp-*` directories stay on the disk, and no command ever reads them
again; `temp` is the one of the running command. A directory whose deletion was cut
short after its `metadata.json` stops `list` and `tree` before they print anything
(`Unreadable`), and its name stays taken. The captured state (suspended or
shut down) and all wording are left out.

### Runner

State: the disk's revision, the saved state (`save`: the revision it was saved
with, `None`, `Broken` for one that was not written to its end, or `Torn` for such a
one that a load has brought), the two records; for each process id where its application is (`step`), its virtual
machine (`vm`), `mode` (`terminationMode`) and the `signals` it has not handled;
for each vmctl process its `pc` and the process id it works with. `vm` also tells
how a machine ended: `off` (the guest shut down), `failed`, `saved`, `lost` (the
process ended under it).

| Actions | Code |
| --- | --- |
| `FinishLaunching` | `applicationDidFinishLaunching`, `startOrRestoreVirtualMachine` |
| `StartEnds`, `RestoreEnds`, `ResumeEnds`, `Consume` | the completion handlers, `handleStartResult`, `terminateAfterFailure` |
| `SuspendSignal`, `PauseEnds`, `SaveEnds` | the SIGUSR2 source, `beginSuspend`, `saveAndTerminate` |
| `ShutdownSignal` (`Accept`, `Reject`), `DidStop` | the SIGUSR1 source, `requestGuestShutdown`, `guestDidStop` |
| `Quit`, `Exit` | `applicationShouldTerminate`, the end of the process |
| `GuestWrites`, `GuestStops`, `Crash` | the guest, the framework, the host |
| `BeginStart`, `Launch`, `LaunchFails`, `StartSucceeds`, `StartFails` | `vmctl start`, `LifecycleManager.start` |
| `BeginLoad`, `Replace` | `vmctl load` as lock, look, replacement |
| `BeginStop`, `WaitStop`, `StopSucceeds` | `LifecycleManager.stop` |
| `BeginShutdown`, `Await`, `ShutdownSucceeds` | `LifecycleManager.shutdown` |
| `GiveUp` | a deadline, Ctrl-C or a kill, at any step |

A handler is one action, since it runs to its end on the main queue; its file
operations may each fail, which the code only logs (`try?`, `NSLog`). The one
place where a handler is cut in two is the resume: the guest runs from the moment
the framework resumes it (`ResumeEnds`), and the saved state is removed in the
completion handler (`Consume`). The steps of a command between which nothing
another process does makes a difference are one action.

A *gap* is a runner that has been launched and that no record names: its start
ended (interrupt, deadline) before the first record, or the first record could
not be written, or is not readable yet (a new record file is created with the
default mode and made private afterwards, and `runtime()` takes a record that is
not private for invalid). `MaxGaps` bounds the gaps. With `MaxGaps = 0` the
properties hold; with one gap the run `duplicate_runner` shows what happens.

As a `MachineSession`, a guest is there from the moment the framework has started
or resumed it until its machine is saved, shuts down, fails or is lost. The saved
memory is what `save` holds, except that it counts as used up as soon as the guest
goes on (`ResumeEnds`), although the file is removed one step later (`Consume`).
A load brings whatever saved state the snapshot has: none, that of its disk, or a
part of one, since `validate_bundle` looks at no saved state when `snapshot` clones a
bundle beside which a save failed; nothing resumes from it (`RestoreEnds`), and in
the terms of `MachineSession` it is broken memory, whoever broke it.
Once a runner has left a saved state behind that was used or outlived (`lapsed`: it
could not remove it, or died before it did), nothing is promised about the memory
any more, but still about the guest and the disk.

### Initialization

State: the source bundle, the managed one (`live`), the staging and temporary
directories of the running init, the snapshots and the two pointers, what
`config.json` names, the cached restore image; the inits that passed their first
check (`asked`) and the step of the one that holds the lock. A bundle is what it
holds (`off`, `suspended`, `mixed` when it was copied while its guest wrote,
`partial`) and where its network address comes from. `events` counts the starts
and stops of the source by its own program: it runs between an odd event and the
next, and a copy that an event overtakes is mixed.

| Actions | Code |
| --- | --- |
| `Ask`, `Download` | `import_bundle`, `install_bundle` up to the lock |
| `Refuse`, `TakeLock` | the lock and the second `_assert_uninitialized` |
| `CopyStarts`, `CopyEnds`, `Prepare`, `Adopt` | `_apply_import` up to the live bundle, `ensure_network_identity` |
| `InstallStarts`, `InstallEnds` | VMInstaller, started by `_activate_install` |
| `Activate` | `os.replace(staged, config.live_bundle)` |
| `CheckBase`, `CopyBaseStarts`, `CopyBaseEnds`, `Publish`, `SetBase`, `SetOrigin` | `_create_initial_base` |
| `Configure`, `DropImage` | `_write_installed_config`, the end of `install_bundle` |
| `DropTemp`, `DropStaged`, `DropOrigin`, `DropBase`, `DropSnapshot`, `DropLive` | the `except` clauses, `_rollback_initial_catalog` |
| `SourceStarts`, `SourceStops`, `UserClears`, `Crash` | the source's program, the user, a kill |

Deleting a tree passes through `partial`; an error in a handler leaves it, so that
the rest is not rolled back. After the lock is released no handler is left: a restore
image that cannot be removed ends the command with an error and everything in place
(`DropImage`). `slipped` remembers that a write of `config.json` failed after its
`os.replace`; the rollback leaves that file alone. A directory under a random name that a kill leaves
behind is read by nobody, and is dropped from the state.

### Installation

State: what is under `releases/` by version (the digest its `release.json` names,
and how much of the program is there: `whole`, `loads`, all that `--version` and
`doctor` look at, or `part`), the staging directory of each installer, the
version `current` names, the launcher, the manifest; the step of each installer
and of `vmctl uninstall`; the releases from which VM runners were started, and the
one `runtime.json` stands for.

| Actions | Code |
| --- | --- |
| `BeginBuild`, `BeginReuse` | the script up to the decision to reuse a release |
| `Build`, `Stage`, `Place` | the build and copies, `release.json`, `mv STAGED FINAL` |
| `Link`, `Launch`, `Record`, `Finish` | `current`, the launcher, the manifest, the two commands at the end |
| `Refuses`, `Fails` | an end before the last step, and the EXIT trap (`Stops`); SIGKILL, which runs no trap |
| `BeginUninstall`, `Unlink`, `DeleteSome`, `Uninstalled`, `UninstallBreaks` | `uninstall` without `--purge-data` |
| `Start`, `GuestEnds` | `vmctl start` and the end of a VM; `Recognized` is `running_pid` |

`mv` is modelled by what it does with an operand that is, or resolves to, a
directory: it moves into it. `mishaps` remembers what nothing in the code guards
against: two of these processes at once, an uninstall that broke, an uninstall
under a running VM. The properties exclude just these. The script ends with
`--version` and `doctor`, which check the signed application and load most of the
package, but not all of it: an install that reuses what a broken uninstall left may
report success over a release that lacks, say, `redaction.py`. `LauncherWorks` says
of it what doctor has seen and no more. `Start` asks for less of the program than
doctor; `breaks` counts kills and failures alike.

### SharedData

State: which of two installations, an old checkout or the new one, has the data;
what `config.json` names; for each state directory its journal, base pointer and
runtime record; the reviewed manifest; for each process its command, the state
directory and the runner application it found, its step, and which lock file it
opened (a purge deletes the file, and the next command makes another); the VMs.

| Actions | Code |
| --- | --- |
| `Begin` | `Config.from_environment`, called once when a command starts |
| `Open`, `Lock`, `Ends`, `Kill` | `FileLock` |
| `Reconcile`, `Displace`, `Activate`, `Start`, `Promote` | load, start and promote as far as they meet others |
| `Plan`, `Check`, `Write` | `create_migration_plan`, `apply_migration_plan` |
| `BeginPurge`, `Purge` | `uninstall --purge-data` |

`mishaps` holds `adopted` when the old data was in use, by a command or a VM,
while a migration checked and wrote, and `purged` when data was in use while it was
deleted. The code detects neither; the properties say what holds without them.

## The runs

| Run | Instance | States | Question |
| --- | --- | --- | --- |
| `load_transaction` | 2 snapshots, 2 identifiers, 1 guest session, 2 kills, 2 faults | 1.44 million | Is a load, interrupted and failing at any two of its steps and followed by other commands, atomic, honest and always resolved? |
| `catalog` | 2 names, 1 guest session, 2 kills, 2 faults | 0.38 million | Do the catalog's commands, killed or failing, implement the library, and what can the tree leave out, when does it fail? |
| `runner` | 2 commands, 2 process ids, 1 change of the disk, 1 failure | 1.26 million | Is the guest seen by all, and reported truly, and is it all one machine that is suspended and resumed? |
| `initialization` | 2 names, 2 events of the source, an init that waits, 1 kill, 2 faults | 5.51 million | Does an init do all or nothing, is its source kept, and another init unharmed? |
| `installation` | 2 installers, 2 versions, 2 sources, 2 VMs, 1 kill or fault | 2.98 million | Does the launcher work, is a success true, is a running VM recognized? |
| `shared_data` | 2 processes, 1 purge, 1 kill | 0.98 million | Do two installations exclude each other on the data they share? |
| `origin_after_rollback` | 2 kills, no fault | stops at the violation | see below |
| `tree_hides_snapshots` | 3 names, nothing fails | stops at the violation | see below |
| `duplicate_runner` | 1 command, 2 process ids, 1 gap | stops at the violation | see below |
| `shutdown_report` | 1 command, 1 process id, nothing fails | stops at the violation | see below |
| `upgrade_switches` | 1 installer, 2 versions, nothing fails | stops at the violation | see below |
| `migration_running_vm` | 1 process, nothing is killed | stops at the violation | see below |

The first three passing runs and `shared_data` check deadlock: a new command can
always begin or the guest can always act, up to the bounds, and `NotRunning` (stop
or shutdown of a VM that does not run) is a step of its own. `initialization` and
`installation` do not: a Mac that was initialized accepts no other init, and an
install root with a broken release accepts no install of that version, which is
where these systems stop.

What the properties say:

- `LoadTransaction`: `NothingLost` (the old live content is at one of three known
  places until the commit), `NoGuestDuringTransaction`, `PendingIsJournaled`
  (reconciliation finds every displaced bundle), `WrongOriginLeavesEvidence`,
  `ReportsAreTrue`, `DeletedOnlyAfterCommit` (what a guest wrote disappears only
  by a committed load), `ImplementsLiveVM`, `RecoveryEnds` (liveness).
- `Catalog`: `BaseIsWhole`, `AttachedSourceExists`, `SnapshotsConsistent`,
  `AttachedSourceKept`, `FailedCommitKeepsBase`, `ImplementsLibrary`,
  `TreeMissesForACause` (a tree leaves a snapshot out only after a name was used
  twice, and prints nothing only because of a directory that a deletion is emptying,
  or that a kill or an error left).
- `Initialization`: `BaseIsWhole` (also in the middle of a rollback), `SourceKept`,
  `AllOrNothing` (an init that fails by one operation is undone, or complete but for
  the removal of the restore image), `OthersKept` (a rollback deletes the snapshot by
  its name, whoever made it), `FailsForACause`, `ImportIsClean`.
- `Installation`: `LauncherWorks`, `OneRunner`, `ReportsAreTrue`.
- `SharedData`: `OneCommandPerRoot`, `BundleInOneHand`, `AppliedAsReviewed`.
- `Runner`: `GuestIsRecorded` (which implies `OneGuest`, since the record names one
  runner), `ReplacedOnlyWhenOff`, `SavedStateFits`, `PowerCutOnlyAfterRequest`,
  `StopReportsAreTrue`, `StartReportsAreTrue`, `ImplementsSession`.

Bounds. Two kills and two faults are what the recovery needs to be interrupted
in its own recovery, and a fault to hit both an operation and the one that
undoes it. Two identifiers let an abandoned clone of one load meet the next load;
two snapshots let the origin name the wrong one; three names are needed for a
cycle of parents. One init that waits is what races with the one that runs; two
events are a start and a stop of the source, so that a copy can be taken before,
while and after its guest writes; a second fault interrupts the rollback of the
first. Two installers race, one kill or fault tears an uninstall, whose release the
next install may reuse, two sources of one version make a wrong reuse visible. Two
processes are an apply or a purge and the command it meets; the VMs that earlier
commands left running are the third party. In `Runner` the races are between two
runners or two commands, and a change of the disk tells a saved state
that fits from one that does not; a third command or runner only repeats what the
two do, and the theorems cover every number of them. Symmetry is declared where no
liveness property is checked and every definition treats the elements alike.

Fairness. Only `RecoveryEnds` needs it: `WF_vars(CommandStep)`, a running command
is scheduled by the operating system and waits for nothing (the lock is
non-blocking), and `WF_vars(BeginStart /\ journal # None)`, a user whose load was
interrupted runs another mutating command some day. Kills and faults are not fair
and bounded, so a command that is run often enough gets through once.
The other models state none: every wait of the code has a deadline, and whether
a guest shuts down is the guest's choice.

## Where the code and its documents disagree

1. **The wrong origin after a rollback** (`transactions.py:206`). Rollback moves the
   old bundle back before it writes the origin back. Killed between the two, the next
   command finds no rollback bundle and quarantines a transaction that had been undone
   (the help reserves `recovery/failed` for "rollback or cleanup failures"), and
   `live.json` still names the snapshot whose load was undone; it stays so, and the
   next snapshot gets the wrong parent.
2. **A tree that hides snapshots** (`catalog.py:182`). Parents are names, and a name
   can be removed and used again: two snapshots can become each other's parent, and
   `vmctl tree` prints "No snapshots found." for both.
3. **Two runners** (`lifecycle.py:190`). A start that is interrupted or times out
   after `open` and before the runner's first record leaves a runner nothing names;
   the next start launches another one on the same bundle, against requirement 1.2.
4. **A clean shutdown that was none** (`AppDelegate.swift:234`). After an accepted
   shutdown request the runner stays in the termination mode `.shutdown`; a user who
   closes the window, say at macOS's confirmation, cuts the guest's power at once,
   and `vmctl shutdown`, which waits for the exit only, reports "Guest macOS shut
   down and the runner exited."
5. **An upgrade that switches nothing** (`install-from-source.sh:195`). `mv -f` of the
   new link onto `current` follows `current` into the old release and leaves the link
   there. The script reports the new version, records it in the manifest, and the
   launcher goes on to run the old one. The design says that an upgrade "atomically
   switches `current`". `OneRunner` holds only because of it: with a link that
   switches (the mutant `LinkSwitches`), a VM that runs from the old release is not
   recognized any more by the new one, since it is known by the path of its program.
6. **A migration beside a running VM** (`migration.py:261`). `apply` asks whether the
   runner of the *new* installation runs, and takes the *new* lock; the VM and the
   commands of the old installation are not seen. The design says that `apply` refuses
   "a running VM". Afterwards the new program takes the running VM for stopped.

Two more, of `init`, which no run of its own shows; `AllOrNothing` excuses exactly
these. When the write of `config.json` fails after its `os.replace`
(`initialization.py:174`), the rollback removes the VM, the snapshot and the pointers
and leaves the file, which names a VM that is gone, or, after an adoption, the source,
so that every later init is refused. And when only the restore image cannot be removed
(`initialization.py:402`), the install ends with an error although the VM is installed
and configured. The design says "Commit configuration and catalog metadata atomically"
and "Failed installations never appear as a configured live VM"
(`spec/public-release/design.md:387`, `:651`).

## The proofs

All theorems hold for every value of the constants that satisfies the named
assumptions: `MarksAssumption` (the marks for "nothing", "partial" and so on are
different from each other and from the data), `BoundsAssumption` (the bounds
are natural numbers) and, for the catalog, `NamesAssumption` (there are finitely many
snapshot names: `SNAPSHOT_NAME_PATTERN`, `store.py`, allows at most 80 characters of
a fixed alphabet). TLC evaluates them in every run.

| Theorem | Says | Argument |
| --- | --- | --- |
| `LoadTransactionProofs!TypeCorrect` | `TypeOK` | part of `IInv` |
| `LoadTransactionProofs!NothingIsLost` | `NothingLost` | part of `IInv` |
| `LoadTransactionProofs!GuestsWait` | `NoGuestDuringTransaction` | part of `IInv` |
| `LoadTransactionProofs!PendingIsFound` | `PendingIsJournaled` | part of `IInv` |
| `LoadTransactionRefinement!DeletionWaitsForCommit` | `DeletedOnlyAfterCommit` | `IInv` and `RInv` |
| `LoadTransactionRefinement!ReportsTellTruth` | `ReportsAreTrue` | `RInv` |
| `LoadTransactionRefinement!WrongOriginIsSeen` | `WrongOriginLeavesEvidence` | `RInv` |
| `LoadTransactionRefinement!RecoveryKnows` | `RInv`: what the command and the journal know of the old and the new content | inductive with `IInv` |
| `LoadTransactionRefinement!Refinement` | `ImplementsLiveVM` | every step is a step of `LiveVM` or leaves it alone, with `IInv` and `RInv` |
| `CatalogProofs!TypeCorrect`, `BaseSurvives`, `SourceSurvives`, `CopiesConsistent` | the four invariants | parts of `IInv` |
| `CatalogProofs!SourceKeptThroughout`, `FailedCommitUndone` | the two action properties | from `IInv`, step by step |
| `CatalogProofs!Refinement` | `ImplementsLibrary` | every step is a step of `SnapshotLibrary` or leaves it alone |
| `CatalogTreeProofs!ParentsPrecede` | `TInv`: parents are known and older, unless their name was used again, and a directory without metadata is what a deletion left | inductive with `IInv` |
| `CatalogTreeProofs!TreeIsComplete` | `TreeMissesForACause` | `TInv`, `BaseIsWhole` and `TreeIsWhole` |
| `RunnerProofs!TypeCorrect` | `TypeOK` | inductive by itself |
| `RunnerProofs!PowerCut` | `PowerCutOnlyAfterRequest` | `GuestInside` and `ModeAsked` |
| `RunnerProofs!NoDuplicate`, `GuestIsSeen`, `BundleIsFree` | `OneGuest`, `GuestIsRecorded`, `ReplacedOnlyWhenOff`, if `MaxGaps = 0` | `Control` |
| `RunnerProofs!SavedStateRestorable` | `SavedStateFits`, if `MaxGaps = 0` | `Control` and `SavedFits` |
| `RunnerProofs!StartTellsTruth`, `StopTellsTruth` | `StartReportsAreTrue`, `StopReportsAreTrue`, if `MaxGaps = 0` | `Control`, `PollsOwn`, `RunningIsTrue`, `ModeFits`, `SavedFits`, `BrokenIsOwned` |
| `RunnerProofs!Refinement` | `ImplementsSession`, if `MaxGaps = 0` | `Control`, `SavedFits` |
| `InitializationProofs!TypeCorrect`, `SourceSurvives` | `TypeOK`, `SourceKept` | `ModesFit` |
| `InitializationProofs!BaseSurvives`, `ImportStartsCold` | `BaseIsWhole`, `ImportIsClean` | `BaseOwned`; `AllSeen` and `Fresh` |
| `InitializationProofs!FailureIsUndone`, `FailureHasACause`, `OthersSurvive` | `AllOrNothing`, `FailsForACause`, `OthersKept` | `Tidy`; for the first also `Progress`, `ConfigLast` and `FirstIsCopy` |
| `InitializationProofs!SuccessTellsTruth` | `SuccessIsWhole`: what a successful init leaves | `Progress`, `FirstIsCopy` and `BaseOwned` |
| `InstallationProofs!TypeCorrect`, `LauncherAlwaysWorks`, `RunsOnce`, `InstallTellsTruth` | `TypeOK`, `LauncherWorks`, `OneRunner`, `ReportsAreTrue` | `Serving` and `MissingForACause`; `FinitelyMany` and `Seen`; `StagedWhole` and `Undisturbed` |
| `SharedDataProofs!TypeCorrect`, `LockExcludes`, `OneHandAtATime`, `AdoptsTheReviewed` | `TypeOK`, `OneCommandPerRoot`, `BundleInOneHand`, `AppliedAsReviewed` | `OpenFileCurrent` and `Locked`; `OneApplication`, `OneHand` and `Shared`; `OldIsQuiet` |

*LoadTransaction.* `NothingLost` speaks of the disk alone and is not inductive:
whether a step loses something depends on what the command believes. `IInv` adds
what each program counter knows: `LocalsOK` (the command's own variables),
`JournalOK` (the phase in the journal at each step), `PathsOK` (what is at which
path) and `RollbackOK` (a rollback bundle is what was live before).

*Reports, deletions and refinement of the load.* `IInv` knows where the old live
bundle is; what a load promises over several steps also needs the origin, the source
and the clone. `RInv` adds that a temporary path holds at most an untouched clone
(`TempsAreClones`), what each step still has to do (`StepsOK`), that no bundle is
ahead of the guest's sessions (`RevisionsOK`), what of the origin and the live path
is left to undo while the journal is not committed (`UndoOK`), that a committed load
is complete and its command still knows what it loads (`CommitOK`), and that the
origin names the right snapshot until something was quarantined (`OriginsOK`). The
content of `LiveVM` changes in three steps only: the commit (`PhaseCommitted`), a
guest's write, and a quarantine, which archives what was live; every other action is
shown to leave the mapped state alone, with the journal saying whether the old
bundle counts as live still.

*Catalog.* `BaseIsWhole` needs to know that what a command deletes is neither the
base nor attached (`DeletionSafe`), that `commit` remembers the base it replaced
(`CommitRemembers`), that a captured name stays free and the VM stopped
(`CaptureAlone`), and that what waits to be published is no mixed copy
(`TempConsistent`).

*The tree.* `Visited` is a function over the depth, so what it computes goes by
induction over data. `SetInduction` derives induction for sets of numbers from the
library's theorem that finite sets are well founded under inclusion, and with it
`CatalogTreeProofs` shows that the function exists (`VisitExists`), that each depth
adds a snapshot or is the last one to add any, and hence that the tree is closed
under children (`PrintedIsClosed`): `Cardinality(Names)` depths are enough. The rest
is `TInv`: parents are names that are or were in use (`ParentsKnown`), and while no
name was used twice there is an age in which every snapshot is younger than its
parent (`Aged`, an existential over functions, since nothing in the state dates a
snapshot). Of the snapshots a tree misses, the eldest would have its parent in the
tree, or be a root. The command fails on a directory without metadata; such a one is
what a deletion is emptying or has left (`CutShort`, one lemma per way to come there),
and never the base's, by `BaseIsWhole`.

*Runner.* `OneGuest` is not inductive, because a runner that has been launched has
no guest and no record yet. `Control` says that at most one runner is not out of
the way (`Single`), that the record names it (`Recorded`) or its start still polls
under the lock while there is no record (`LaunchWatched`), and that nothing runs
while a command that has looked at the record goes on to launch or replace
(`Undisturbed`). The steps of the runner are summed up in one formula, `Moves`:
whoever is out of the way stays so and leaves the record alone; `MovesKeepControl`
uses no more of them. The power cut needs no `Control`: the termination mode is
`.shutdown` before the exit only after an acceptance that nothing took back (`ModeAsked`). `SavedFits`
follows the saved state from the handler that writes it to the one that removes it.
A start reports what it reads in the record of its own runner (`PollsOwn`), and a
record "running" is true, or was a moment ago, as long as nothing failed
(`RunningIsTrue`, which needs the mode, `ModeFits`). A stop that reports success
finds no half-written save file, since such a file lies beside the machine that
could not write it (`BrokenIsOwned`).

The refinement takes one lemma per action of `MachineSession` (a boot, a resume, a
suspension and so on), which says under which conditions a change of the runner's
variables is that action, and one per group of handlers, which picks the action.
`Control` gives the one guest that an action speaks of; `SavedFits` gives a boot no
saved state, a suspension the right one and a machine that is about to go on the
state of the live disk. Steps that touch only the
records, the signals and the commands are stutters.

*Initialization.* `BaseIsWhole` needs to know which steps come before the pointer
and which after it is gone (`BaseOwned`), and that an init which may delete the
managed bundle made it (`ModesFit`). `Tidy` says what the init in progress has
made and not yet undone, as long as at most one operation failed: what a handler
cannot delete was then never made (`TidyKept`, one case per action). An init that
failed at the removal of its image had configured a VM that has its base
(`ConfigLast`), and all of it is in place (`Progress`, `FirstIsCopy`). `Fresh` follows
the source through the copies: with no event since the import looked at it, every
copy is faithful. A success is true whatever failed or was killed before it:
a failed operation leads into the handlers and never back (`Progress`), and what is
published is the bundle that was placed (`FirstIsCopy`).

*Installation.* `LauncherWorks` is strengthened by "who serves is not being
uninstalled" (`Serving`) and by what takes files from a release, an uninstall that
runs or one that broke (`MissingForACause`, and `StagedWhole` for a release to come);
the sentence "one runner" to "whoever runs is who `current` names, and the record
knows it" (`Seen`); the report to "what this installer placed or chose to reuse is
still there" (`Undisturbed`).

*SharedData.* As long as nothing was purged in use, all who hold a lock of one
directory opened its present file (`OpenFileCurrent`, `Locked`). As long as nothing
was adopted in use, all who work on one bundle agree on the runner application
(`OneApplication`), so that the record tells a start and a load the truth (`OneHand`,
`Shared`). Between check and write a migration sees old data that nobody touches
(`OldIsQuiet`).

Only model-checked: `RecoveryEnds`, which is liveness under fairness. The findings
above are counterexamples and stay with TLC.

## Limits

Assumed of the environment: a file system that keeps the order of renames (a loss
of power that undoes a rename that was not yet on the disk is left out); the
advisory lock; process ids that are not used again while a record names them;
fresh uuids; clock readings that differ where they name a directory under
`recovery/failed`; for records that exist, an atomic write that keeps their mode.
A journal that cannot be read ends the command as a kill would.

Left out on purpose: the content of records beyond the fields that decide
something, wording, exit statuses, redaction, modes and ownership of files,
symbolic links (guards against misuse, no state of their own) and disk space.

In `Initialization` the download of the restore image is one step with two results,
whole or cut short; two installs that download at the same time into the same
`.partial` file are another way to a cut image. `Installation` takes the build as one
step and tells of a release only what doctor can tell; environment overrides of the paths are fixed.
`SharedData` assumes that one of the two installations has the VM: a plan with a
live bundle at both places is left out, as is a `config.json` that names data
elsewhere. A `migrate plan` reads the data in one step.

Not modelled: the virtual devices, the derivation of the MAC address (a pure
function), `doctor`, `preflight`, redaction and help (they only read), the
inventory and cleanup of recovery directories of older versions (a script deletes
directories that nothing writes any more), and the build and release scripts, which
touch no state of the running system.

In `Runner` `save # None` stands for a save file that is not empty. A response
carries no request, so a shutdown may take the answer to another one; the model
has it, no document promises otherwise. A suspend signal that arrives while the
VM starts writes an error record although the start goes on; the model has it too.

## Plan

Modelled, checked and proved: the load transaction and its refinement, the catalog,
its refinement and its tree, the runner and its refinement, initialization, the
program files, and the data two installations share. What is left, in this order:

1. An abstract initialization (as a whole or not at all) that `Initialization`
   implements while at most one operation fails and nothing is killed.
2. What holds of a runner nobody recorded (`MaxGaps > 0`): which properties survive
   a gap, and when the gap closes.
3. The derivation of the MAC address over bounded inputs.
4. The build script: when an application fails its verification after it was put in
   place, the cleanup (`build_runner.sh:113`) keeps it and deletes the previous one.
