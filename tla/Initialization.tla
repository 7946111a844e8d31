----------------------------- MODULE Initialization -----------------------------
(***************************************************************************)
(* `vmctl init import` and `vmctl init install` (initialization.py), with  *)
(* the VMInstaller helper the latter runs: how a Mac without a managed VM  *)
(* gets one, its first snapshot, the base pointer and config.json.         *)
(*                                                                         *)
(* An init checks its source and the destination, and only then takes the  *)
(* lock and checks the destination again; it may be killed at every step,  *)
(* every file-system operation may fail, and the program that owns the     *)
(* imported bundle may run it at any time.                                 *)
(***************************************************************************)
EXTENDS Naturals, FiniteSets

CONSTANTS
    Names,       \* valid snapshot names, for --base
    None,        \* nothing: no directory, no file
    MaxEvents,   \* bound: starts and stops of the source VM by its own program
    MaxAsked,    \* bound: inits that wait for the lock
    MaxCrashes,  \* bound: times an init is killed
    MaxFaults    \* bound: file-system operations that fail

\* A bundle directory.  "partial" lacks artifacts, "mixed" was copied while a
\* guest wrote to it; mac is what NetworkMACAddress names: nothing, the address
\* the source has or derives, or one generated for a new VM.
Bundle == [contents : {"off", "suspended", "mixed", "partial"},
           mac : {"none", "old", "new"}]

Partial == [contents |-> "partial", mac |-> "none"]

\* An init that passed the checks before the lock; seen dates its look at the
\* source.  "discard" is a clone import with --discard-saved-state.
Requests == [mode : {"clone", "discard", "adopt", "install"}, name : Names,
             seen : 0..MaxEvents]

ASSUME MarksAssumption == None \notin Bundle \cup Names \cup Requests \cup {"managed", "source", "whole", "cut"}
ASSUME BoundsAssumption ==
    MaxEvents \in Nat /\ MaxAsked \in Nat /\ MaxCrashes \in Nat /\ MaxFaults \in Nat

VARIABLES
    \* ------------------------------ the disk ------------------------------
    source,      \* the bundle that import is given
    live,        \* the managed bundle
    staged,      \* .vmctl-init-<uuid> or .vmctl-install-<uuid> of the last init
    temp,        \* snapshots/.init-<uuid> of the last init
    snapshots,   \* snapshots/<name>, by name; "partial" also without metadata
    base,        \* base.json
    origin,      \* live.json
    configured,  \* the live bundle config.json names
    image,       \* the cached restore image; "cut" when its download was
    \* ---------------------------- the processes ---------------------------
    asked,       \* inits that will take the lock
    pc,          \* next step of the init that holds it, "idle" when none does
    request,     \* that init, or the last one
    outcome,     \* how the last one ended
    \* --------------------------- history, bounds --------------------------
    begun,       \* the events when the running clone began, 0 when none runs
    published,   \* "yes" when the last init put its snapshot in place
    slipped,     \* "yes" once a write of config.json failed and replaced it
    events, crashes, faults

catalog == <<snapshots, base, origin>>
config  == <<configured, slipped>>
disk    == <<source, live, staged, temp, catalog, config, image>>
process == <<asked, request, outcome>>
history == <<begun, published>>
bounds  == <<events, crashes, faults>>
vars    == <<disk, process, pc, history, bounds>>

\* The source's own program runs it between an odd event and the next.
Running == events % 2 = 1

Whole(b) == b # None /\ b.contents # "partial"

\* The bundle the running init makes the managed one.
Destination == IF request.mode = "adopt" THEN source ELSE live

\* _assert_uninitialized, with the default configuration.
Uninitialized == base = None /\ origin = None /\ live = None

Steps == {"idle", "copy", "copied", "prepare", "adopt", "install", "installed",
          "activate", "checkBase", "copyBase", "copiedBase", "publish", "setBase",
          "setOrigin", "configure", "dropImage", "dropTemp", "dropStaged",
          "dropOrigin", "dropBase", "dropSnapshot", "dropLive"}

DiskTypes ==
    /\ source \in Bundle
    /\ live \in Bundle \cup {None} /\ staged \in Bundle \cup {None}
    /\ temp \in Bundle \cup {None}
    /\ snapshots \in [Names -> Bundle \cup {None}]
    /\ base \in Names \cup {None} /\ origin \in Names \cup {None}
    /\ configured \in {None, "managed", "source"} /\ slipped \in {"no", "yes"}
    /\ image \in {None, "whole", "cut"}

ProcessTypes ==
    /\ asked \subseteq Requests
    /\ pc \in Steps
    /\ request \in Requests \cup {None}
    /\ outcome \in {"none", "complete", "failed", "killed"}
    /\ pc # "idle" => request # None
    /\ pc \in {"prepare", "activate"} => Whole(staged)

HistoryTypes ==
    /\ begun \in 0..MaxEvents /\ published \in {"no", "yes"}
    /\ events \in 0..MaxEvents
    /\ crashes \in 0..MaxCrashes
    /\ faults \in 0..MaxFaults

TypeOK == DiskTypes /\ ProcessTypes /\ HistoryTypes

\* A fresh installation, and a VM of another program to import.
Init ==
    /\ source \in [contents : {"off", "suspended"}, mac : {"none", "old"}]
    /\ live = None /\ staged = None /\ temp = None
    /\ snapshots = [n \in Names |-> None]
    /\ base = None /\ origin = None /\ configured = None /\ image = None
    /\ asked = {} /\ pc = "idle" /\ request = None /\ outcome = "none"
    /\ begun = 0 /\ published = "no" /\ slipped = "no"
    /\ events = 0 /\ crashes = 0 /\ faults = 0

-------------------------------------------------------------------------------
(* Control: how a step continues, fails or ends the init. *)

Goto(step) == pc' = step /\ UNCHANGED outcome
End(how) == pc' = "idle" /\ outcome' = how

\* One file-system operation fails; the bound is MaxFaults.
Fault == faults < MaxFaults /\ faults' = faults + 1

Do(step) == Goto(step) /\ UNCHANGED faults
Fail(handler) == Goto(handler) /\ Fault

Reached(step) ==
    /\ pc = step
    /\ UNCHANGED <<asked, request, events, crashes>>

\* What a clone of b holds when it was begun at the event `begun`.
CloneOf(b) ==
    [b EXCEPT !.contents = IF Running \/ events # begun THEN "mixed" ELSE @]

-------------------------------------------------------------------------------
(* The source VM's own program, and the user. *)

SourceStarts ==
    /\ ~Running /\ events < MaxEvents /\ events' = events + 1
    /\ source' = [source EXCEPT !.contents = "off"]
    /\ UNCHANGED <<live, staged, temp, catalog, config, image, process, pc,
                   history, crashes, faults>>

SourceStops ==
    /\ Running /\ events < MaxEvents /\ events' = events + 1
    /\ \E c \in {"off", "suspended"} : source' = [source EXCEPT !.contents = c]
    /\ UNCHANGED <<live, staged, temp, catalog, config, image, process, pc,
                   history, crashes, faults>>

\* "Initialization destination already exists: ...": the user removes a bundle
\* that an init left at the managed path.
UserClears ==
    /\ pc = "idle" /\ base = None /\ live # None
    /\ live' = None
    /\ UNCHANGED <<source, staged, temp, catalog, config, image, process, pc,
                   history, bounds>>

-------------------------------------------------------------------------------
(* Before the lock *)

\* What install_bundle adds: Apple's image, unless it is cached.  A download that
\* ends early raises nothing, and the part counts as the image.
Download ==
    IF image = None THEN image' \in {"whole", "cut"} ELSE UNCHANGED image

\* import_bundle and install_bundle up to the lock.  When config.json names the
\* source, which exists, every init is refused.
Ask(m, n) ==
    /\ Cardinality(asked) < MaxAsked
    /\ Uninitialized /\ configured # "source"
    /\ source.contents = "suspended" => m \in {"discard", "install"}
    /\ asked' = asked \cup {[mode |-> m, name |-> n, seen |-> events]}
    /\ IF m = "install" THEN Download ELSE UNCHANGED image
    /\ UNCHANGED <<source, live, staged, temp, catalog, config, pc, request,
                   outcome, history, bounds>>

\* Another init holds the lock, or has finished since: the second check refuses.
Refuse(r) ==
    /\ pc # "idle" \/ ~Uninitialized
    /\ r \in asked /\ asked' = asked \ {r}
    /\ UNCHANGED <<disk, request, outcome, pc, history, bounds>>

FirstStep(mode) ==
    IF mode = "install" THEN "install" ELSE IF mode = "adopt" THEN "adopt" ELSE "copy"

\* Mutant: the destination is not checked again under the lock.
TakeLockUnchecked(r) ==
    /\ pc = "idle" /\ r \in asked
    /\ asked' = asked \ {r} /\ request' = r
    /\ staged' = None /\ temp' = None /\ published' = "no"
    /\ pc' = FirstStep(r.mode) /\ outcome' = "none"
    /\ UNCHANGED <<source, live, catalog, config, image, begun, bounds>>

\* The lock is taken and the destination checked again; staged and temp get new
\* random names.
TakeLock(r) ==
    /\ pc = "idle" /\ Uninitialized
    /\ r \in asked
    /\ asked' = asked \ {r} /\ request' = r
    /\ staged' = None /\ temp' = None /\ published' = "no"
    /\ pc' = FirstStep(r.mode) /\ outcome' = "none"
    /\ UNCHANGED <<source, live, catalog, config, image, begun, bounds>>

\* The init is killed; the kernel drops its lock.  What it leaves under a random
\* name stays on the disk, but no later init ever reads it.
Crash ==
    /\ pc # "idle" /\ crashes < MaxCrashes
    /\ crashes' = crashes + 1
    /\ End("killed")
    /\ staged' = None /\ temp' = None /\ begun' = 0
    /\ UNCHANGED <<source, live, catalog, config, image, asked, request,
                   published, events, faults>>

-------------------------------------------------------------------------------
(* _apply_import and _activate_install up to the managed bundle *)

\* clone_bundle(source, staged): cp begins ...
CopyStarts ==
    /\ Reached("copy")
    /\ \/ staged' = Partial /\ begun' = events /\ Do("copied")
       \/ UNCHANGED <<staged, begun>> /\ Fail("dropStaged")
    /\ UNCHANGED <<source, live, temp, catalog, config, image, published>>

\* Mutant: what cp left is not validated.
CopyEndsUnchecked ==
    /\ Reached("copied")
    /\ \/ staged' \in {CloneOf(source), Partial} /\ Do("prepare")
       \/ UNCHANGED staged /\ Fail("dropStaged")
    /\ begun' = 0
    /\ UNCHANGED <<source, live, temp, catalog, config, image, published>>

\* ... and ends; the clone is validated.
CopyEnds ==
    /\ Reached("copied")
    /\ \/ staged' = CloneOf(source) /\ Do("prepare")
       \/ UNCHANGED staged /\ Fail("dropStaged")
    /\ begun' = 0
    /\ UNCHANGED <<source, live, temp, catalog, config, image, published>>

\* Mutant: an address that is there is kept, replace or not.
IdentityKept(mac, replace) ==
    IF mac = "none" THEN (IF replace THEN "new" ELSE "old") ELSE mac

\* ensure_network_identity: the address is generated anew, or kept, or derived
\* from the machine identifier.
Identity(mac, replace) ==
    IF replace THEN "new" ELSE IF mac = "none" THEN "old" ELSE mac

\* The clone loses its saved state, gets its own network identity and is made
\* private.  What a mixed clone lost or kept does not make it less mixed.
Prepare ==
    /\ Reached("prepare")
    /\ \/ /\ staged' = [contents |-> IF request.mode = "discard" /\ staged.contents = "suspended"
                                     THEN "off" ELSE staged.contents,
                        mac |-> Identity(staged.mac, TRUE)]
          /\ Do("activate")
       \/ UNCHANGED staged /\ Fail("dropStaged")
    /\ UNCHANGED <<source, live, temp, catalog, config, image, history>>

\* Adoption changes the source itself: an identity, if it had none, and modes.
Adopt ==
    /\ Reached("adopt")
    /\ \E mac \in {source.mac, Identity(source.mac, FALSE)} :
          source' = [source EXCEPT !.mac = mac]
    /\ \/ source'.mac # "none" /\ Do("checkBase")
       \/ Fail("dropStaged")
    /\ UNCHANGED <<live, staged, temp, catalog, config, image, history>>

\* VMInstaller creates the bundle directory ...
InstallStarts ==
    /\ Reached("install")
    /\ \/ staged' = Partial /\ Do("installed")
       \/ UNCHANGED staged /\ Fail("dropStaged")
    /\ UNCHANGED <<source, live, temp, catalog, config, image, history>>

\* ... and installs macOS into it.  When that fails it removes the bundle, which
\* may fail too; a cut image always fails.
InstallEnds ==
    /\ Reached("installed")
    /\ \/ /\ image # "cut"
          /\ staged' = [contents |-> "off", mac |-> "new"] /\ Do("activate")
       \/ staged' \in {None, staged} /\ Fail("dropStaged")
       \/ image = "cut" /\ staged' = None /\ Do("dropStaged")
    /\ UNCHANGED <<source, live, temp, catalog, config, image, history>>

\* os.replace(staged, config.live_bundle): nothing has been at that path since the
\* lock was taken.
Activate ==
    /\ Reached("activate")
    /\ \/ live' = staged /\ staged' = None /\ Do("checkBase")
       \/ UNCHANGED <<live, staged>> /\ Fail("dropStaged")
    /\ UNCHANGED <<source, temp, catalog, config, image, history>>

-------------------------------------------------------------------------------
(* _create_initial_base and _write_installed_config *)

CheckBase ==
    /\ Reached("checkBase")
    /\ Do(IF Whole(Destination) /\ snapshots[request.name] = None
          THEN "copyBase" ELSE "dropStaged")
    /\ UNCHANGED <<disk, history>>

\* clone_bundle(live, temporary): cp begins ...
CopyBaseStarts ==
    /\ Reached("copyBase")
    /\ \/ temp' = Partial /\ begun' = events /\ Do("copiedBase")
       \/ UNCHANGED <<temp, begun>> /\ Fail("dropTemp")
    /\ UNCHANGED <<source, live, staged, catalog, config, image, published>>

\* ... and ends.  Only the program of an adopted source may write meanwhile.
CopyBaseEnds ==
    /\ Reached("copiedBase")
    /\ \/ /\ temp' = IF request.mode = "adopt" THEN CloneOf(source) ELSE live
          /\ Do("publish")
       \/ UNCHANGED temp /\ Fail("dropTemp")
    /\ begun' = 0
    /\ UNCHANGED <<source, live, staged, catalog, config, image, published>>

\* metadata.json is written and the snapshot renamed into place.
Publish ==
    /\ Reached("publish")
    /\ \/ /\ snapshots' = [snapshots EXCEPT ![request.name] = temp]
          /\ temp' = None /\ published' = "yes" /\ Do("setBase")
       \/ UNCHANGED <<snapshots, temp, published>> /\ Fail("dropTemp")
    /\ UNCHANGED <<source, live, staged, base, origin, config, image, begun>>

\* A failed atomic_write_json may have replaced the file before it raised.
SetBase ==
    /\ Reached("setBase")
    /\ \/ base' = request.name /\ Do("setOrigin")
       \/ base' \in {base, request.name} /\ Fail("dropTemp")
    /\ UNCHANGED <<source, live, staged, temp, snapshots, origin, config, image,
                   history>>

SetOrigin ==
    /\ Reached("setOrigin")
    /\ \/ origin' = request.name /\ Do("configure")
       \/ origin' \in {origin, request.name} /\ Fail("dropTemp")
    /\ UNCHANGED <<source, live, staged, temp, snapshots, base, config, image,
                   history>>

\* _write_installed_config, the last step of an import.
Configure ==
    LET named == IF request.mode = "adopt" THEN "source" ELSE "managed"
    IN  /\ Reached("configure")
        /\ \/ /\ configured' = named /\ UNCHANGED <<slipped, faults>>
              /\ IF request.mode = "install" THEN Goto("dropImage") ELSE End("complete")
           \/ /\ configured' \in {configured, named}
              /\ slipped' = IF configured' = configured THEN slipped ELSE "yes"
              /\ Fail("dropStaged")
        /\ UNCHANGED <<source, live, staged, temp, catalog, image, history>>

\* Unless --keep-restore-image.  The lock is free again and no handler is left:
\* an error here ends the command, and everything stays.
DropImage ==
    /\ Reached("dropImage")
    /\ \/ image' \in {None, image} /\ UNCHANGED faults /\ End("complete")
       \/ UNCHANGED image /\ Fault /\ End("failed")
    /\ UNCHANGED <<source, live, staged, temp, catalog, config, history>>

-------------------------------------------------------------------------------
(* The handlers: except Exception, innermost first. *)

\* rmtree of one tree: part of it, all of it, or an error.
Dropped(tree, rest, step, next, failing) ==
    \/ tree = None /\ rest = None /\ Do(next)
    \/ tree # None /\ rest = None /\ Do(next)
    \/ tree # None /\ rest = Partial /\ Do(step)
    \/ tree # None /\ rest = tree /\ failing

DropTemp ==
    /\ Reached("dropTemp")
    /\ temp' \in {temp, Partial, None}
    /\ Dropped(temp, temp', "dropTemp", "dropStaged", Fail("dropStaged"))
    /\ UNCHANGED <<source, live, staged, catalog, config, image, history>>

\* An error here leaves the outer handler: nothing else is rolled back.
DropStaged ==
    /\ Reached("dropStaged")
    /\ staged' \in {staged, Partial, None}
    /\ Dropped(staged, staged', "dropStaged", "dropOrigin", Fault /\ End("failed"))
    /\ UNCHANGED <<source, live, temp, catalog, config, image, history>>

\* _rollback_initial_catalog unlinks live.json, ...
DropOrigin ==
    /\ Reached("dropOrigin")
    /\ \/ origin' = None /\ Do("dropBase")
       \/ UNCHANGED origin /\ Fault /\ End("failed")
    /\ UNCHANGED <<source, live, staged, temp, snapshots, base, config, image, history>>

\* Mutant: base.json is unlinked after the snapshot is deleted.
DropBaseLater ==
    /\ Reached("dropBase")
    /\ Do("dropSnapshot")
    /\ UNCHANGED <<disk, history>>

\* ... and base.json, ...
DropBase ==
    /\ Reached("dropBase")
    /\ \/ base' = None /\ Do("dropSnapshot")
       \/ UNCHANGED base /\ Fault /\ End("failed")
    /\ UNCHANGED <<source, live, staged, temp, snapshots, origin, config, image, history>>

\* ... then the snapshot of that name is deleted, whoever made it, ...
DropSnapshot ==
    LET n == request.name
    IN  /\ Reached("dropSnapshot")
        /\ \E rest \in {snapshots[n], Partial, None} :
              /\ snapshots' = [snapshots EXCEPT ![n] = rest]
              /\ Dropped(snapshots[n], rest, "dropSnapshot", "dropLive", Fault /\ End("failed"))
        /\ UNCHANGED <<source, live, staged, temp, base, origin, config, image, history>>

\* Mutant: the managed bundle stays.
DropLiveNever ==
    /\ Reached("dropLive")
    /\ End("failed") /\ UNCHANGED <<faults, disk, history>>

\* Mutant: the destination goes, whether or not this init made it.
DropDestination ==
    /\ Reached("dropLive")
    /\ End("failed") /\ UNCHANGED faults
    /\ IF request.mode = "adopt"
       THEN source' = Partial /\ UNCHANGED live
       ELSE live' = None /\ UNCHANGED source
    /\ UNCHANGED <<staged, temp, catalog, config, image, history>>

\* ... and the managed bundle, when this init activated it; when it did not, there
\* is none at the managed path.
DropLive ==
    /\ Reached("dropLive")
    /\ live' \in {live, Partial, None}
    /\ \/ live' = None /\ End("failed") /\ UNCHANGED faults
       \/ live # None /\ live' = Partial /\ Do("dropLive")
       \/ live # None /\ live' = live /\ Fault /\ End("failed")
    /\ UNCHANGED <<source, staged, temp, catalog, config, image, history>>

-------------------------------------------------------------------------------

BundleStep ==
    \/ CopyStarts \/ CopyEnds \/ Prepare \/ Adopt
    \/ InstallStarts \/ InstallEnds \/ Activate

CatalogStep ==
    \/ CheckBase \/ CopyBaseStarts \/ CopyBaseEnds \/ Publish
    \/ SetBase \/ SetOrigin \/ Configure \/ DropImage

UndoStep ==
    \/ DropTemp \/ DropStaged \/ DropOrigin \/ DropBase \/ DropSnapshot \/ DropLive

Next ==
    \/ \E m \in {"clone", "discard", "adopt", "install"}, n \in Names : Ask(m, n)
    \/ \E r \in asked : Refuse(r) \/ TakeLock(r)
    \/ BundleStep \/ CatalogStep \/ UndoStep
    \/ SourceStarts \/ SourceStops \/ UserClears
    \/ Crash

Spec == Init /\ [][Next]_vars

-------------------------------------------------------------------------------
(* Properties *)

\* At every step of an init and of its rollback, kills and failures included:
\* when base.json exists it names a whole snapshot, and there is a VM to reset.
BaseIsWhole ==
    base # None =>
        /\ Whole(snapshots[base])
        /\ Whole(live) \/ (request.mode = "adopt" /\ Whole(source))

\* No step of an init, and no rollback, changes what the imported bundle holds;
\* only an adoption gives it a network identity, and only when it had none.
SourceKept ==
    [][events' = events =>
          /\ source'.contents = source.contents
          /\ source' # source => request.mode = "adopt" /\ source.mac = "none"]_vars

\* What an init that is undone leaves: nothing, so that another can follow, but a
\* config.json whose own write failed and replaced it.
Undone ==
    /\ Uninitialized /\ staged = None /\ temp = None
    /\ \A n \in Names : snapshots[n] = None
    /\ configured # None => slipped = "yes"

\* An install that only failed to remove the restore image.
InPlace ==
    /\ request.mode = "install"
    /\ base # None /\ origin = base /\ configured = "managed"
    /\ Whole(live) /\ snapshots[base] = live

\* An init that fails by one failing operation did all of it or nothing ("Failed
\* installations never appear as a configured live VM", design.md): the
\* configuration, the pointers, the first snapshot and the VM are all there or
\* none is.
AllOrNothing ==
    pc = "idle" /\ outcome = "failed" /\ crashes = 0 /\ faults < 2 => Undone \/ InPlace

\* A rollback deletes a snapshot its own init did not make only where an earlier
\* init was killed or could not clean up; two inits at once never do this to
\* each other.
OthersKept ==
    [][\A n \in Names :
          snapshots[n] # None /\ snapshots'[n] # snapshots[n]
              => published = "yes" \/ crashes > 0 \/ faults > 1]_vars

\* Without kills and failing operations the only init that fails after it was
\* accepted is an install from a restore image whose download was cut short.
FailsForACause ==
    outcome = "failed" /\ crashes = 0 /\ faults = 0
        => request.mode = "install" /\ image = "cut"

\* When the source's program left it alone since the import looked at it, the
\* managed VM and its first snapshot start cold, and a clone has a network
\* identity of its own.
ImportIsClean ==
    base # None /\ events = request.seen /\ ~Running
        => /\ Destination.contents = "off" /\ snapshots[base].contents = "off"
           /\ request.mode # "adopt" => Destination.mac = "new"
================================================================================
