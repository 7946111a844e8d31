-------------------------------- MODULE SharedData --------------------------------
(***************************************************************************)
(* Commands that find the VM's data through the configuration, and what    *)
(* changes under them: `vmctl migrate`, which has config.json point at the *)
(* data of an older installation (config.py, migration.py), and `vmctl     *)
(* uninstall --purge-data`, which deletes the data (uninstall.py).         *)
(*                                                                         *)
(* A command reads the configuration when it starts and opens the lock     *)
(* file of the state directory it then knows; a purge takes no lock and    *)
(* deletes that file.  load, start and promote stand for the commands that *)
(* LoadTransaction, Runner and Catalog model step by step.                 *)
(***************************************************************************)
EXTENDS Naturals, FiniteSets

CONSTANTS
    Procs,      \* vmctl processes
    None,       \* nothing
    MaxPurges,  \* bound: purges that delete the data
    MaxCrashes  \* bound: processes killed

\* "old" is a source checkout with its own state/, snapshots/ and runner; "new"
\* the installation under Application Support.
Places == {"old", "new"}

\* A command, the state directory and the runner application it works with.
Jobs == [command : {"load", "start", "promote", "apply", "purge"},
         root : Places, app : Places]

\* What a migration manifest was made from: the base pointer.
Bases == {"first", "second"}

Guests == [root : Places, app : Places]

ASSUME MarksAssumption == None \notin Jobs \cup Bases \cup Places
ASSUME BoundsAssumption == MaxPurges \in Nat /\ MaxCrashes \in Nat

VARIABLES
    \* ------------------------------ the disk ------------------------------
    where,      \* the installation that has the VM, None after a purge
    config,     \* config.json: None, or the application it names for the old data
    journal,    \* transaction.json, by root: "none" or "pending"
    base,       \* base.json, by root
    record,     \* runtime.json, by root: the application of the last runner
    manifest,   \* the reviewed migration plan: the base it names, or None
    \* ---------------------------- the processes ---------------------------
    pc,         \* next step of each process
    job,        \* its command
    file,       \* the lock file it opened: the purges that preceded it
    guests,     \* running VMs
    \* --------------------------- history, bounds --------------------------
    mishaps,    \* what happened that the code does not guard against
    purges, crashes

disk    == <<where, config, journal, base, record, manifest>>
process == <<pc, job, file>>
vars    == <<disk, process, guests, mishaps, purges, crashes>>

Mishaps == {"adopted",  \* the old data was in use while a migration was applied
            "purged"}   \* the data was in use while it was purged

Steps == {"idle", "open", "lock", "reconcile", "run", "activate", "check", "write", "purge"}

\* The steps of a process that holds the lock of its root.
Holding(p) == pc[p] \in {"reconcile", "run", "activate", "check", "write"}

DiskTypes ==
    /\ where \in Places \cup {None} /\ config \in Places \cup {None}
    /\ journal \in [Places -> {"none", "pending"}]
    /\ base \in [Places -> Bases] /\ record \in [Places -> Places \cup {None}]
    /\ manifest \in Bases \cup {None}

ProcessTypes ==
    /\ pc \in [Procs -> Steps] /\ job \in [Procs -> Jobs \cup {None}]
    /\ file \in [Procs -> 0..MaxPurges]

HistoryTypes ==
    /\ guests \subseteq Guests /\ mishaps \subseteq Mishaps
    /\ purges \in 0..MaxPurges /\ crashes \in 0..MaxCrashes

Types == DiskTypes /\ ProcessTypes /\ HistoryTypes

\* A process is at a step its command has: only an apply checks and writes, and
\* it reconciles nothing.
StepsFit(p) ==
    /\ pc[p] = "idle" <=> job[p] = None
    /\ pc[p] = "activate" => job[p].command = "load"
    /\ pc[p] \in {"reconcile", "run"} => job[p].command \in {"load", "start", "promote"}
    /\ pc[p] \in {"check", "write"} => job[p].command = "apply"
    /\ pc[p] # "idle" => (pc[p] = "purge" <=> job[p].command = "purge")

TypeOK == Types /\ \A p \in Procs : StepsFit(p)

Init ==
    /\ where \in Places /\ config = None
    /\ journal = [r \in Places |-> "none"]
    /\ base = [r \in Places |-> "first"]
    /\ record = [r \in Places |-> None]
    /\ manifest = None
    /\ pc = [p \in Procs |-> "idle"] /\ job = [p \in Procs |-> None]
    /\ file = [p \in Procs |-> 0]
    /\ guests = {} /\ mishaps = {} /\ purges = 0 /\ crashes = 0

-------------------------------------------------------------------------------
(* Config.from_environment: what the command of a program finds. *)

\* Config.json wins; without it a checkout that has data uses its own.
Root(program) ==
    IF config # None \/ (program = "old" /\ where = "old") THEN "old" ELSE "new"

App(program) ==
    IF config # None THEN config
    ELSE IF program = "old" /\ where = "old" THEN "old" ELSE "new"

\* running_pid: the recorded process runs the application this command knows.
Running(root, app) == record[root] = app /\ [root |-> root, app |-> app] \in guests

\* Is the data of a root in use, by a command or a guest?
InUse(root) ==
    \/ \E g \in guests : g.root = root
    \/ \E p \in Procs : job[p] # None /\ job[p].root = root /\ job[p].command # "purge"

-------------------------------------------------------------------------------
(* A process starts, and takes the lock. *)

Starts(p, j, step) ==
    /\ pc[p] = "idle"
    /\ pc' = [pc EXCEPT ![p] = step]
    /\ job' = [job EXCEPT ![p] = j]
    /\ file' = [file EXCEPT ![p] = 0]
    /\ UNCHANGED <<disk, guests, purges, crashes>>

\* Has a migration checked the old data, and not written config.json yet?
Applying == \E q \in Procs : pc[q] = "write"

Begin(p, program, command) ==
    /\ Starts(p, [command |-> command, root |-> Root(program), app |-> App(program)], "open")
    /\ mishaps' = IF Applying /\ Root(program) = "old" THEN mishaps \cup {"adopted"} ELSE mishaps

\* FileLock opens the file that is there now, ...
Open(p) ==
    /\ pc[p] = "open"
    /\ pc' = [pc EXCEPT ![p] = "lock"]
    /\ file' = [file EXCEPT ![p] = IF job[p].root = "new" THEN purges ELSE 0]
    /\ UNCHANGED <<disk, job, guests, mishaps, purges, crashes>>

Ends(p) ==
    /\ pc' = [pc EXCEPT ![p] = "idle"]
    /\ job' = [job EXCEPT ![p] = None]
    /\ file' = [file EXCEPT ![p] = 0]

SameFile(p, q) == job[q].root = job[p].root /\ file[q] = file[p]

\* Mutant: an apply begins like the other commands.
AfterLockAlike(command) == "reconcile"

AfterLock(command) == IF command = "apply" THEN "check" ELSE "reconcile"

\* Mutant: the lock is shared.
LockShared(p) ==
    /\ pc[p] = "lock"
    /\ pc' = [pc EXCEPT ![p] = AfterLock(job[p].command)]
    /\ UNCHANGED <<disk, job, file, guests, mishaps, purges, crashes>>

\* ... and flock takes that file, or the command ends.
Lock(p) ==
    /\ pc[p] = "lock"
    /\ IF \E q \in Procs : Holding(q) /\ SameFile(p, q)
       THEN Ends(p)
       ELSE /\ pc' = [pc EXCEPT ![p] = AfterLock(job[p].command)]
            /\ UNCHANGED <<job, file>>
    /\ UNCHANGED <<disk, guests, mishaps, purges, crashes>>

\* SIGKILL, Ctrl-C, or an error: the lock is free, and what was written stays.
Kill(p) ==
    /\ pc[p] # "idle" /\ crashes < MaxCrashes
    /\ crashes' = crashes + 1
    /\ Ends(p)
    /\ UNCHANGED <<disk, guests, mishaps, purges>>

-------------------------------------------------------------------------------
(* load, start and promote *)

\* _reconcile_if_needed: a pending transaction is resolved while the VM is off.
Reconcile(p) ==
    LET j == job[p]
    IN  /\ pc[p] = "reconcile"
        /\ IF journal[j.root] = "pending" /\ Running(j.root, j.app)
           THEN Ends(p) /\ UNCHANGED journal
           ELSE /\ journal' = [journal EXCEPT ![j.root] = "none"]
                /\ pc' = [pc EXCEPT ![p] = "run"]
                /\ UNCHANGED <<job, file>>
        /\ UNCHANGED <<where, config, base, record, manifest, guests, mishaps, purges, crashes>>

Runs(p, command) ==
    /\ pc[p] = "run" /\ job[p].command = command
    /\ UNCHANGED <<where, config, manifest, mishaps, purges, crashes>>

\* The VM is stopped and its bundle there, or the command ends.
Allowed(j) == where = j.root /\ ~Running(j.root, j.app)

\* Mutant: the VM need not be stopped.
DisplaceRunning(p) ==
    LET j == job[p]
    IN  /\ Runs(p, "load")
        /\ journal' = [journal EXCEPT ![j.root] = "pending"]
        /\ pc' = [pc EXCEPT ![p] = "activate"]
        /\ UNCHANGED <<job, file, base, record, guests>>

\* The journal is written, the live bundle displaced ...
Displace(p) ==
    LET j == job[p]
    IN  /\ Runs(p, "load")
        /\ IF Allowed(j)
           THEN /\ journal' = [journal EXCEPT ![j.root] = "pending"]
                /\ pc' = [pc EXCEPT ![p] = "activate"]
                /\ UNCHANGED <<job, file>>
           ELSE Ends(p) /\ UNCHANGED journal
        /\ UNCHANGED <<base, record, guests>>

\* ... and replaced, the journal cleared.
Activate(p) ==
    /\ pc[p] = "activate"
    /\ journal' = [journal EXCEPT ![job[p].root] = "none"]
    /\ Ends(p)
    /\ UNCHANGED <<where, config, base, record, manifest, guests, mishaps, purges, crashes>>

Start(p) ==
    LET j == job[p]
    IN  /\ Runs(p, "start")
        /\ IF Allowed(j)
           THEN /\ guests' = guests \cup {[root |-> j.root, app |-> j.app]}
                /\ record' = [record EXCEPT ![j.root] = j.app]
           ELSE UNCHANGED <<guests, record>>
        /\ Ends(p)
        /\ UNCHANGED <<journal, base>>

\* promote needs no stopped VM; commit writes the pointer too.
Promote(p) ==
    /\ Runs(p, "promote")
    /\ \E b \in Bases : base' = [base EXCEPT ![job[p].root] = b]
    /\ Ends(p)
    /\ UNCHANGED <<journal, record, guests>>

GuestEnds(g) ==
    /\ g \in guests /\ guests' = guests \ {g}
    /\ UNCHANGED <<disk, process, mishaps, purges, crashes>>

-------------------------------------------------------------------------------
(* vmctl migrate *)

\* migrate plan --legacy-root: reads the old data and takes no lock.  The manifest
\* of a pending transaction is never applied.
Plan ==
    /\ where = "old" /\ journal["old"] = "none"
    /\ manifest' = base["old"]
    /\ UNCHANGED <<where, config, journal, base, record, process, guests, mishaps,
                   purges, crashes>>

\* Is the old data in use by others than p?
OthersUseOld(p) ==
    \/ \E g \in guests : g.root = "old"
    \/ \E q \in Procs \ {p} : job[q] # None /\ job[q].root = "old"

\* Mutant: the plan is not compared with the data again.
CheckManifestOnly(p) ==
    /\ pc[p] = "check"
    /\ IF manifest # None /\ ~Running(job[p].root, job[p].app)
       THEN /\ pc' = [pc EXCEPT ![p] = "write"]
            /\ mishaps' = IF OthersUseOld(p) THEN mishaps \cup {"adopted"} ELSE mishaps
            /\ UNCHANGED <<job, file>>
       ELSE Ends(p) /\ UNCHANGED mishaps
    /\ UNCHANGED <<disk, guests, purges, crashes>>

\* apply_migration_plan: the runner of this installation is stopped, and a new
\* plan of the old data says what the reviewed one says.
Check(p) ==
    /\ pc[p] = "check"
    /\ IF /\ manifest # None /\ ~Running(job[p].root, job[p].app)
          /\ where = "old" /\ manifest = base["old"] /\ journal["old"] = "none"
       THEN /\ pc' = [pc EXCEPT ![p] = "write"]
            /\ mishaps' = IF OthersUseOld(p) THEN mishaps \cup {"adopted"} ELSE mishaps
            /\ UNCHANGED <<job, file>>
       ELSE Ends(p) /\ UNCHANGED mishaps
    /\ UNCHANGED <<disk, guests, purges, crashes>>

\* config.json is written: commands that start from now on use the old data, with
\* the application of the program that applies.
Write(p) ==
    /\ pc[p] = "write"
    /\ config' = job[p].app
    /\ mishaps' = IF OthersUseOld(p) THEN mishaps \cup {"adopted"} ELSE mishaps
    /\ Ends(p)
    /\ UNCHANGED <<where, journal, base, record, manifest, guests, purges, crashes>>

-------------------------------------------------------------------------------
(* vmctl uninstall --purge-data *)

\* The check of the runner comes first; a configuration that names data elsewhere
\* makes the purge unavailable.
BeginPurge(p) ==
    /\ config = None /\ purges < MaxPurges
    /\ ~Running("new", "new")
    /\ Starts(p, [command |-> "purge", root |-> "new", app |-> "new"], "purge")
    /\ UNCHANGED mishaps

\* The data directory goes, with state/ and the lock file in it.
Purge(p) ==
    /\ pc[p] = "purge" /\ purges < MaxPurges
    /\ purges' = purges + 1
    /\ where' = IF where = "new" THEN None ELSE where
    /\ journal' = [journal EXCEPT !["new"] = "none"]
    /\ record' = [record EXCEPT !["new"] = None]
    /\ mishaps' = IF InUse("new") THEN mishaps \cup {"purged"} ELSE mishaps
    /\ Ends(p)
    /\ UNCHANGED <<config, base, manifest, guests, crashes>>

-------------------------------------------------------------------------------

Commands == {"load", "start", "promote", "apply"}

ProcStep(p) ==
    \/ \E program \in Places, command \in Commands : Begin(p, program, command)
    \/ Open(p) \/ Lock(p)
    \/ Reconcile(p) \/ Displace(p) \/ Activate(p) \/ Start(p) \/ Promote(p)
    \/ Check(p) \/ Write(p)
    \/ BeginPurge(p) \/ Purge(p)
    \/ Kill(p)

Next ==
    \/ \E p \in Procs : ProcStep(p)
    \/ \E g \in guests : GuestEnds(g)
    \/ Plan

Spec == Init /\ [][Next]_vars

-------------------------------------------------------------------------------
(* Properties *)

\* Requirement 5.2, "a lock to prevent overlapping mutating commands", across the
\* switch of the configuration: two commands never hold the lock of one state
\* directory, unless a purge deleted its lock file under a command.
OneCommandPerRoot ==
    "purged" \notin mishaps =>
        \A p, q \in Procs : Holding(p) /\ Holding(q) /\ job[p].root = job[q].root => p = q

\* A bundle is used by one guest or replaced by one load: the two programs that
\* can reach it, with their own applications and what they read of config.json,
\* exclude each other, unless a migration or a purge came while it was in use.
BundleInOneHand ==
    mishaps = {} => \A r \in Places :
        /\ \A g, h \in guests : g.root = r /\ h.root = r => g = h
        /\ \A p \in Procs : pc[p] = "activate" /\ job[p].root = r
              => ~\E g \in guests : g.root = r

\* A migration adopts what was reviewed: at the write the base is the one of the
\* manifest and no transaction is pending, unless the old data was in use.
AppliedAsReviewed ==
    [][config' # config /\ "adopted" \notin mishaps'
          => base["old"] = manifest /\ journal["old"] = "none"]_vars

\* "`apply` refuses changed manifests, a running VM, pending transactions, ..."
\* (design.md).
ApplyRefusesRunning ==
    [][config' # config => ~\E g \in guests : g.root = "old"]_vars
================================================================================
