------------------------------- MODULE Installation -------------------------------
(***************************************************************************)
(* The program files: install-from-source.sh, which builds a release, puts *)
(* it under releases/ and points `current` and the launcher at it, and     *)
(* `vmctl uninstall` (uninstall.py), which takes them away.  No lock keeps *)
(* two of them apart.  A running VM keeps running whatever becomes of its  *)
(* program, and `vmctl start` knows it by the path of its executable.      *)
(***************************************************************************)
EXTENDS Naturals, FiniteSets

CONSTANTS
    Installers,  \* runs of install-from-source.sh
    Versions,    \* what VERSION says
    Sources,     \* what a source tree digests to
    None,        \* nothing: no directory, no link
    MaxRunners,  \* bound: runners at a time
    MaxBreaks    \* bound: processes killed, and commands or operations that fail

\* What is there of the program: every file, all that `--version` and `doctor`
\* look at (they verify the signed application and load most of the package,
\* but not redaction.py or bootstrap.py), or less.
Programs == {"whole", "loads", "part"}

\* releases/<version>: the digest its release.json names, None without that
\* file, and the program.
Release == [digest : Sources \cup {None}, program : Programs]

Jobs == [version : Versions, digest : Sources]

ASSUME MarksAssumption ==
    None \notin Versions \cup Sources \cup Release \cup Jobs
                \cup Programs \cup {"filling", "linked", "written"}
ASSUME BoundsAssumption == MaxRunners \in Nat /\ MaxBreaks \in Nat

VARIABLES
    \* ------------------------------ the disk ------------------------------
    releases,    \* releases/<version>, by version
    staged,      \* .staging-<version>-<pid>, by installer: None, a program, or
                 \* "filling" while files are copied into it
    current,     \* the version the link names, or None
    launcher,    \* "linked" when ~/.local/bin/vmctl points at current/bin/vmctl
    manifest,    \* "written" once install-manifest.json exists
    \* ---------------------------- the processes ---------------------------
    pc,          \* next step of each installer
    job,         \* what it installs
    uninstaller, \* next step of `vmctl uninstall`, "idle" when none runs
    runners,     \* the releases VM runners were started from
    record,      \* runtime.json: the release of the last one
    \* --------------------------- history, bounds --------------------------
    served,      \* "yes" since an install succeeded and no uninstall began
    mishaps,     \* what happened that the code does not guard against
    breaks       \* how many times something was killed or failed

tree     == <<releases, staged, current, launcher, manifest>>
guests   == <<runners, record>>
vars     == <<tree, pc, job, uninstaller, guests, served, mishaps, breaks>>

Mishaps == {"raced",     \* two of these processes ran at the same time
            "torn",      \* an uninstall ended half way
            "orphaned"}  \* an uninstall took the program of a running VM

Steps == {"idle", "build", "stage", "place", "link", "launch", "record",
          "finish", "installed"}

Ended == {"idle", "installed"}

DiskTypes ==
    /\ releases \in [Versions -> Release \cup {None}]
    /\ staged \in [Installers -> Programs \cup {"filling", None}]
    /\ current \in Versions \cup {None}
    /\ launcher \in {None, "linked"} /\ manifest \in {None, "written"}

ProcessTypes ==
    /\ pc \in [Installers -> Steps] /\ job \in [Installers -> Jobs \cup {None}]
    /\ uninstaller \in {"idle", "unlink", "delete"}
    /\ \A i \in Installers :
          /\ pc[i] \in Ended <=> job[i] = None
          /\ staged[i] # None => pc[i] \in {"stage", "place"}
          /\ staged[i] = "filling" => pc[i] = "stage"

GuestTypes ==
    /\ runners \subseteq Versions /\ Cardinality(runners) <= MaxRunners
    /\ record \in Versions \cup {None}

HistoryTypes ==
    /\ served \in {"no", "yes"} /\ mishaps \subseteq Mishaps
    /\ breaks \in 0..MaxBreaks

TypeOK == DiskTypes /\ ProcessTypes /\ GuestTypes /\ HistoryTypes

\* A Mac that never had the program.
Init ==
    /\ releases = [v \in Versions |-> None]
    /\ staged = [i \in Installers |-> None]
    /\ current = None /\ launcher = None /\ manifest = None
    /\ pc = [i \in Installers |-> "idle"] /\ job = [i \in Installers |-> None]
    /\ uninstaller = "idle"
    /\ runners = {} /\ record = None
    /\ served = "no" /\ mishaps = {} /\ breaks = 0

-------------------------------------------------------------------------------

Whole(v) == releases[v] # None /\ releases[v].program = "whole"
Loads(v) == releases[v] # None /\ releases[v].program \in {"whole", "loads"}

\* `current` resolves to a directory, and the launcher to a program.
Resolves == current # None /\ releases[current] # None
Works == launcher = "linked" /\ Resolves /\ Loads(current)

\* A process begins: does it race with another?
Racing(others) == mishaps \cup (IF others THEN {"raced"} ELSE {})

Break == breaks < MaxBreaks /\ breaks' = breaks + 1

-------------------------------------------------------------------------------
(* install-from-source.sh; `set -e` ends it at the first failure, and the EXIT *)
(* trap removes its staging directory.                                         *)

At(i, step) ==
    /\ pc[i] = step
    /\ UNCHANGED <<uninstaller, guests, mishaps>>

Goto(i, step) == pc' = [pc EXCEPT ![i] = step] /\ UNCHANGED <<job, served, breaks>>

Ends(i, how) ==
    /\ pc' = [pc EXCEPT ![i] = how]
    /\ job' = [job EXCEPT ![i] = None]

\* Mutant: no trap removes the staging directory.
StopsUncleaned(i) ==
    /\ Ends(i, "idle")
    /\ UNCHANGED <<releases, staged, current, launcher, manifest, served>>

Stops(i) ==
    /\ Ends(i, "idle")
    /\ staged' = [staged EXCEPT ![i] = None]
    /\ UNCHANGED <<releases, current, launcher, manifest, served>>

Refuses(i) == Stops(i) /\ UNCHANGED breaks

Begin(i, j, step) ==
    /\ pc[i] \in Ended
    /\ pc' = [pc EXCEPT ![i] = step]
    /\ job' = [job EXCEPT ![i] = j]
    /\ mishaps' = Racing(uninstaller # "idle" \/ \E o \in Installers : pc[o] \notin Ended)
    /\ UNCHANGED <<tree, uninstaller, guests, served, breaks>>

\* The preflight lets pass a launcher that is a link into the install root, and a
\* release of this version stops an install of another source.
BeginBuild(i, j) == releases[j.version] = None /\ Begin(i, j, "build")

\* Mutant: a release of the same version is reused whatever it was built from.
BeginReuseVersion(i, j) == releases[j.version] # None /\ Begin(i, j, "link")

\* A release of this version is reused when its release.json names this source;
\* no other file of it is looked at.
BeginReuse(i, j) ==
    /\ releases[j.version] # None /\ releases[j.version].digest = j.digest
    /\ Begin(i, j, "link")

\* build_runner.sh and the copies into the staging directory ...
Build(i) ==
    /\ At(i, "build")
    /\ staged' = [staged EXCEPT ![i] = "filling"]
    /\ Goto(i, "stage")
    /\ UNCHANGED <<releases, current, launcher, manifest>>

\* ... up to release.json and verify_app.py, which looks at the application only.
Stage(i) ==
    /\ At(i, "stage")
    /\ \/ /\ staged[i] # None
          /\ staged' = [staged EXCEPT ![i] = IF @ = "filling" THEN "whole" ELSE @]
          /\ Goto(i, "place")
          /\ UNCHANGED <<releases, current, launcher, manifest>>
       \/ staged[i] = None /\ Refuses(i)

\* mv STAGED FINAL is a rename, unless another installer made FINAL meanwhile:
\* then mv puts the staged release inside it, and nothing notices.
Place(i) ==
    /\ At(i, "place")
    /\ \/ /\ staged[i] # None
          /\ IF releases[job[i].version] = None
             THEN releases' = [releases EXCEPT ![job[i].version] =
                                  [digest |-> job[i].digest, program |-> staged[i]]]
             ELSE UNCHANGED releases
          /\ staged' = [staged EXCEPT ![i] = None]
          /\ Goto(i, "link")
          /\ UNCHANGED <<current, launcher, manifest>>
       \/ staged[i] = None /\ Refuses(i)

\* Mutant: mv replaces the link itself, as an upgrade wants.
LinkSwitches(i) ==
    /\ At(i, "link")
    /\ current' = job[i].version /\ Goto(i, "launch")
    /\ UNCHANGED <<releases, staged, launcher, manifest>>

\* Mutant: the old link is removed, then the new one made.
LinkRemoved(i) ==
    /\ At(i, "link")
    /\ \/ /\ current' = job[i].version
          /\ Goto(i, "launch")
          /\ UNCHANGED <<releases, staged, launcher, manifest>>
       \/ /\ current' = None /\ Ends(i, "idle") /\ Break
          /\ UNCHANGED <<releases, staged, launcher, manifest, served>>

\* mv -f TEMP_CURRENT CURRENT_LINK: when CURRENT_LINK resolves to a directory, mv
\* puts the new link into that directory, and `current` stays what it was.
Link(i) ==
    /\ At(i, "link")
    /\ current' = IF Resolves THEN current ELSE job[i].version
    /\ Goto(i, "launch")
    /\ UNCHANGED <<releases, staged, launcher, manifest>>

\* The launcher is a link to a file, which mv -f does replace.
Launch(i) ==
    /\ At(i, "launch")
    /\ launcher' = "linked" /\ Goto(i, "record")
    /\ UNCHANGED <<releases, staged, current, manifest>>

Record(i) ==
    /\ At(i, "record")
    /\ manifest' = "written" /\ Goto(i, "finish")
    /\ UNCHANGED <<releases, staged, current, launcher>>

\* "$LAUNCHER" --version and doctor, which miss no file that they do not load;
\* the script ends with their status.
Finish(i) ==
    /\ At(i, "finish")
    /\ \/ /\ Works
          /\ Ends(i, "installed")
          /\ served' = IF uninstaller = "idle" THEN "yes" ELSE served
          /\ UNCHANGED <<tree, breaks>>
       \/ ~Works /\ Refuses(i)

\* The command at any of its steps fails, or SIGKILL ends the script: then no trap
\* runs, and the staging directory stays under a name that no later installer uses.
Fails(i) ==
    /\ pc[i] \notin Ended
    /\ Break /\ Stops(i)
    /\ UNCHANGED <<uninstaller, guests, mishaps>>

-------------------------------------------------------------------------------
(* vmctl uninstall *)

\* A running VM whose program goes.
Orphaning == IF runners = {} THEN {} ELSE {"orphaned"}

\* Any release may hold the command, which needs less of the program than doctor
\* looks at.  The manifest is checked, then the launcher is unlinked; without
\* --purge-data the VM may run.
BeginUninstall ==
    /\ uninstaller = "idle" /\ manifest = "written"
    /\ \E v \in Versions : releases[v] # None
    /\ uninstaller' = "unlink"
    /\ launcher' = None /\ served' = "no"
    /\ mishaps' = Racing(\E o \in Installers : pc[o] \notin Ended) \cup Orphaning
    /\ UNCHANGED <<releases, staged, current, manifest, pc, job, guests, breaks>>

Unlink ==
    /\ uninstaller = "unlink"
    /\ uninstaller' = "delete" /\ current' = None
    /\ mishaps' = mishaps \cup Orphaning
    /\ UNCHANGED <<releases, staged, launcher, manifest, pc, job, guests, served,
                   breaks>>

\* What a program can be with some files less.
Less(program) == IF program \in {"loads", "part"} THEN {"part"} ELSE {"loads", "part"}

\* What is left of a release, whose files go in no particular order; release.json is
\* one that doctor does not look at, and the directory goes when it is empty.
Rest(release) ==
    {[release EXCEPT !.program = p] : p \in Less(release.program)} \cup
    (IF release.program = "whole" THEN {[digest |-> None, program |-> "loads"]}
     ELSE {[release EXCEPT !.digest = None]}) \cup
    (IF release = [digest |-> None, program |-> "part"] THEN {None} ELSE {})

\* rmtree of releases/: of a release, or of what an installer is staging there.
DeleteSome ==
    /\ uninstaller = "delete"
    /\ \/ /\ \E v \in Versions :
                /\ releases[v] # None
                /\ \E rest \in Rest(releases[v]) \ {releases[v]} :
                      releases' = [releases EXCEPT ![v] = rest]
          /\ UNCHANGED staged
       \/ /\ \E i \in Installers :
                /\ staged[i] # None
                /\ \E p \in IF staged[i] = "part" THEN {None} ELSE Less(staged[i]) :
                      staged' = [staged EXCEPT ![i] = p]
          /\ UNCHANGED releases
    /\ mishaps' = mishaps \cup Orphaning
    /\ UNCHANGED <<current, launcher, manifest, uninstaller, pc, job, guests, served,
                   breaks>>

Uninstalled ==
    /\ uninstaller = "delete"
    /\ \A v \in Versions : releases[v] = None
    /\ \A i \in Installers : staged[i] = None
    /\ uninstaller' = "idle"
    /\ UNCHANGED <<tree, pc, job, guests, served, mishaps, breaks>>

\* An operation of it fails, or it is killed: what is left stays.
UninstallBreaks ==
    /\ uninstaller # "idle" /\ uninstaller' = "idle"
    /\ Break
    /\ mishaps' = mishaps \cup {"torn"}
    /\ UNCHANGED <<tree, pc, job, guests, served>>

-------------------------------------------------------------------------------
(* vmctl start, and the guest *)

\* is_running compares the executable of the recorded process with the one that
\* `current` resolves to.
Recognized == record = current /\ record \in runners

\* It needs less of the program than doctor looks at.
Start ==
    /\ launcher = "linked" /\ Resolves /\ ~Recognized
    /\ Cardinality(runners \cup {current}) <= MaxRunners
    /\ runners' = runners \cup {current} /\ record' = current
    /\ UNCHANGED <<tree, pc, job, uninstaller, served, mishaps, breaks>>

\* The guest shuts down or is suspended; vmctl stop can only do so for a runner
\* it recognizes, the user of the VM's window for any.
GuestEnds(v) ==
    /\ v \in runners /\ runners' = runners \ {v}
    /\ record' = IF record = v THEN None ELSE record
    /\ UNCHANGED <<tree, pc, job, uninstaller, served, mishaps, breaks>>

-------------------------------------------------------------------------------

InstallStep(i) ==
    \/ \E j \in Jobs : BeginBuild(i, j) \/ BeginReuse(i, j)
    \/ Build(i) \/ Stage(i) \/ Place(i)
    \/ Link(i) \/ Launch(i) \/ Record(i) \/ Finish(i)
    \/ Fails(i)

UninstallStep == BeginUninstall \/ Unlink \/ DeleteSome \/ Uninstalled \/ UninstallBreaks

Next ==
    \/ \E i \in Installers : InstallStep(i)
    \/ UninstallStep
    \/ Start \/ \E v \in Versions : GuestEnds(v)

Spec == Init /\ [][Next]_vars

-------------------------------------------------------------------------------
(* Properties *)

\* Once an install succeeded the launcher runs a release that doctor accepts,
\* whatever another install does, fails to do or is killed in, until an uninstall
\* begins (design: "Failed upgrade leaves `current` unchanged").  Files that
\* doctor does not load are missing only if an uninstall ended half way.
LauncherWorks ==
    served = "yes" => Works /\ (Whole(current) \/ "torn" \in mishaps)

\* One runner at a time uses the VM, unless an uninstall took the program of a
\* running VM: what is installed afterwards does not recognize that VM.
OneRunner == "orphaned" \notin mishaps => Cardinality(runners) <= 1

\* An install that reports success installed what it was given: its version is a
\* whole release of its source, unless it raced with another process or found
\* what a broken uninstall left.
ReportsAreTrue ==
    [][\A i \in Installers :
          pc[i] = "finish" /\ pc'[i] = "installed" /\ {"raced", "torn"} \cap mishaps = {}
              => releases[job[i].version] = [digest |-> job[i].digest, program |-> "whole"]]_vars

\* "Upgrade installs a new immutable program release and atomically switches
\* `current`" (design.md): after a successful install the launcher runs it.
UpgradeSwitches ==
    [][\A i \in Installers :
          pc[i] = "finish" /\ pc'[i] = "installed" => current = job[i].version]_vars
================================================================================
