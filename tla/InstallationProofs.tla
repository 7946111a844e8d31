-------------------------- MODULE InstallationProofs --------------------------
(***************************************************************************)
(* The safety properties of the program's installation, for every number   *)
(* of installers, versions, sources, kills and failures.                   *)
(***************************************************************************)
EXTENDS Installation, FiniteSetTheorems, TLAPS

-------------------------------------------------------------------------------
(* The inductive invariants *)

\* Files of a release are missing only while an uninstall runs or since one
\* broke.
MissingForACause ==
    \A v \in Versions :
        releases[v] # None => Whole(v) \/ uninstaller = "delete" \/ "torn" \in mishaps

\* A launcher that serves works, and nobody is taking it away.
Serving ==
    /\ LauncherWorks
    /\ uninstaller # "idle" => served = "no"

FinitelyMany == IsFiniteSet(runners)

\* The VM that runs is of the release that `current` names, and recorded.
Seen ==
    "orphaned" \notin mishaps =>
        runners = {} \/ (runners = {record} /\ current = record /\ Resolves)

\* What an installer has at each of its steps, as long as nothing raced and no
\* uninstall ended half way.
Alone(i) == \A o \in Installers \ {i} : pc[o] \in Ended

OwnRelease(i) ==
    /\ pc[i] \in {"build", "stage", "place"} => releases[job[i].version] = None
    /\ pc[i] \in {"link", "launch", "record", "finish"} =>
          /\ releases[job[i].version] # None
          /\ releases[job[i].version].digest = job[i].digest

Undisturbed ==
    {"raced", "torn"} \cap mishaps = {} =>
        /\ \A i \in Installers :
              pc[i] \notin Ended => Alone(i) /\ uninstaller = "idle" /\ OwnRelease(i)
        /\ uninstaller # "delete" => \A v \in Versions : releases[v] # None => Whole(v)

\* So are files of a staged release.
StagedWhole ==
    \A i \in Installers :
        staged[i] \in {"loads", "part"} => uninstaller = "delete" \/ "torn" \in mishaps

-------------------------------------------------------------------------------
(* Type correctness *)

\* The types of the files are kept.
LEMMA DiskTypesKept ==
    ASSUME TypeOK, [Next]_vars
    PROVE  DiskTypes'
  <1> USE DEF TypeOK, DiskTypes, ProcessTypes, Release, Programs, Jobs, Steps
  <1>1. ASSUME NEW i \in Installers, NEW j \in Jobs, BeginBuild(i, j) \/ BeginReuse(i, j)
        PROVE  DiskTypes'
    BY <1>1 DEF BeginBuild, BeginReuse, Begin, tree
  <1>2. ASSUME NEW i \in Installers, Build(i) \/ Stage(i)
        PROVE  DiskTypes'
    BY <1>2 DEF Build, Stage, Refuses, Stops
  <1>3. ASSUME NEW i \in Installers, Place(i)
        PROVE  DiskTypes'
    <2>1. CASE Refuses(i)
      BY <2>1 DEF Refuses, Stops
    <2>2. CASE staged[i] # None /\ ~Refuses(i)
      <3>1. job[i] \in Jobs
        BY <1>3 DEF Place, At, Ended
      <3>2. staged[i] \in Programs
        BY <1>3, <2>2 DEF Place, At
      <3>3. [digest |-> job[i].digest, program |-> staged[i]] \in Release
        BY <3>1, <3>2
      <3> QED BY <1>3, <2>2, <3>3 DEF Place
    <2> QED BY <1>3, <2>1, <2>2 DEF Place
  <1>4. ASSUME NEW i \in Installers, Link(i)
        PROVE  DiskTypes'
    <2>1. job[i] \in Jobs
      BY <1>4 DEF Link, At, Ended
    <2> QED BY <1>4, <2>1 DEF Link, Stops
  <1>5. ASSUME NEW i \in Installers, Launch(i) \/ Record(i)
        PROVE  DiskTypes'
    BY <1>5 DEF Launch, Record, Stops
  <1>6. ASSUME NEW i \in Installers, Finish(i) \/ Fails(i)
        PROVE  DiskTypes'
    BY <1>6 DEF Finish, Fails, Refuses, Stops, tree
  <1>7. CASE BeginUninstall \/ Unlink \/ Uninstalled \/ UninstallBreaks
    BY <1>7 DEF BeginUninstall, Unlink, Uninstalled, UninstallBreaks, tree
  <1>8. CASE DeleteSome
    BY <1>8 DEF DeleteSome, Less, Rest
  <1>9. ASSUME Start \/ \E v \in Versions : GuestEnds(v)
        PROVE  DiskTypes'
    BY <1>9 DEF Start, GuestEnds, tree
  <1>10. CASE UNCHANGED vars
    BY <1>10 DEF vars, tree
  <1> QED BY <1>1, <1>2, <1>3, <1>4, <1>5, <1>6, <1>7, <1>8, <1>9, <1>10
          DEF Next, InstallStep, UninstallStep

\* The types of the processes are kept.
LEMMA ProcessTypesKept ==
    ASSUME TypeOK, [Next]_vars
    PROVE  ProcessTypes'
  <1> USE MarksAssumption DEF TypeOK, DiskTypes, ProcessTypes, Steps, Ended
  <1>1. ASSUME NEW i \in Installers, NEW j \in Jobs, BeginBuild(i, j) \/ BeginReuse(i, j)
        PROVE  ProcessTypes'
    BY <1>1 DEF BeginBuild, BeginReuse, Begin, tree
  <1>2. ASSUME NEW i \in Installers, Build(i) \/ Stage(i) \/ Place(i)
        PROVE  ProcessTypes'
    BY <1>2 DEF Build, Stage, Place, At, Goto, Refuses, Stops, Ends
  <1>3. ASSUME NEW i \in Installers, Link(i) \/ Launch(i) \/ Record(i)
        PROVE  ProcessTypes'
    BY <1>3 DEF Link, Launch, Record, At, Goto, Stops, Ends
  <1>4. ASSUME NEW i \in Installers, Finish(i) \/ Fails(i)
        PROVE  ProcessTypes'
    BY <1>4 DEF Finish, Fails, At, Refuses, Stops, Ends, tree
  <1>5. CASE BeginUninstall \/ Unlink \/ DeleteSome \/ Uninstalled \/ UninstallBreaks
    BY <1>5 DEF BeginUninstall, Unlink, DeleteSome, Less, Uninstalled, UninstallBreaks, tree
  <1>6. ASSUME Start \/ \E v \in Versions : GuestEnds(v)
        PROVE  ProcessTypes'
    BY <1>6 DEF Start, GuestEnds, tree
  <1>7. CASE UNCHANGED vars
    BY <1>7 DEF vars, tree
  <1> QED BY <1>1, <1>2, <1>3, <1>4, <1>5, <1>6, <1>7 DEF Next, InstallStep, UninstallStep

\* The steps of the two scripts leave the VMs alone.
LEMMA GuestsUntouched ==
    ASSUME \/ \E i \in Installers : InstallStep(i)
           \/ UninstallStep
           \/ UNCHANGED vars
    PROVE  UNCHANGED guests
  <1>1. ASSUME NEW i \in Installers, InstallStep(i)
        PROVE  UNCHANGED guests
    BY <1>1 DEF InstallStep, BeginBuild, BeginReuse, Begin, Build, Stage, Place, Link, Launch,
                Record, Finish, Fails, At, guests
  <1>2. CASE UninstallStep
    BY <1>2 DEF UninstallStep, BeginUninstall, Unlink, DeleteSome, Uninstalled,
                UninstallBreaks, guests
  <1> QED BY <1>1, <1>2 DEF vars, guests

\* The types of the VMs are kept.
LEMMA GuestTypesKept ==
    ASSUME TypeOK, FinitelyMany, [Next]_vars
    PROVE  GuestTypes' /\ FinitelyMany'
  <1> USE DEF TypeOK, GuestTypes, FinitelyMany
  <1>1. CASE UNCHANGED guests
    BY <1>1 DEF guests
  <1>2. CASE Start
    <2>1. current \in Versions
      BY <1>2 DEF Start, Works, Resolves, DiskTypes
    <2>2. IsFiniteSet(runners \cup {current})
      BY FS_AddElement
    <2> QED BY <1>2, <2>1, <2>2 DEF Start
  <1>3. ASSUME NEW v \in Versions, GuestEnds(v)
        PROVE  GuestTypes' /\ FinitelyMany'
    <2>1. IsFiniteSet(runners \ {v}) /\ Cardinality(runners \ {v}) = Cardinality(runners) - 1
      BY <1>3, FS_RemoveElement DEF GuestEnds
    <2>2. Cardinality(runners) \in Nat
      BY FS_CardinalityType
    <2> QED BY <1>3, <2>1, <2>2, BoundsAssumption DEF GuestEnds
  <1> QED BY <1>1, <1>2, <1>3, GuestsUntouched DEF Next

\* The types of history and bounds are kept.
LEMMA HistoryTypesKept ==
    ASSUME TypeOK, [Next]_vars
    PROVE  HistoryTypes'
  <1>f. ASSUME Break
        PROVE  breaks' \in 0..MaxBreaks
    BY <1>f, BoundsAssumption DEF Break, TypeOK, HistoryTypes
  <1>h. /\ served \in {"no", "yes"} /\ mishaps \subseteq Mishaps
        /\ breaks \in 0..MaxBreaks
    BY DEF TypeOK, HistoryTypes
  <1>1. ASSUME NEW i \in Installers, NEW j \in Jobs, BeginBuild(i, j) \/ BeginReuse(i, j)
        PROVE  HistoryTypes'
    BY <1>1, <1>h DEF BeginBuild, BeginReuse, Begin, Racing, HistoryTypes, Mishaps
  <1>2. ASSUME NEW i \in Installers,
               Build(i) \/ Stage(i) \/ Place(i) \/ Link(i) \/ Launch(i) \/ Record(i)
        PROVE  HistoryTypes'
    <2>1. UNCHANGED <<served, mishaps>> /\ (UNCHANGED breaks \/ Break)
      BY <1>2 DEF Build, Stage, Place, Link, Launch, Record, At, Goto, Refuses, Stops
    <2> QED BY <2>1, <1>f, <1>h DEF HistoryTypes
  <1>3. ASSUME NEW i \in Installers, Finish(i)
        PROVE  HistoryTypes'
    <2>1. /\ UNCHANGED mishaps /\ (UNCHANGED breaks \/ Break)
          /\ served' \in {served, "yes"}
      BY <1>3 DEF Finish, At, Refuses, Stops
    <2> QED BY <2>1, <1>f, <1>h DEF HistoryTypes
  <1>4. ASSUME NEW i \in Installers, Fails(i)
        PROVE  HistoryTypes'
    BY <1>4, <1>f, <1>h DEF Fails, Stops, HistoryTypes
  <1>5. CASE BeginUninstall \/ Unlink \/ DeleteSome \/ Uninstalled
    <2>1. UNCHANGED breaks /\ served' \in {served, "no"} /\ mishaps' \subseteq Mishaps
      BY <1>5, <1>h DEF BeginUninstall, Unlink, DeleteSome, Uninstalled, Racing, Orphaning, Mishaps
    <2> QED BY <2>1, <1>h DEF HistoryTypes
  <1>6. CASE UninstallBreaks
    <2>1. /\ UNCHANGED served /\ mishaps' \subseteq Mishaps
          /\ Break
      BY <1>6, <1>h DEF UninstallBreaks, Mishaps
    <2> QED BY <2>1, <1>f, <1>h DEF HistoryTypes
  <1>7. ASSUME Start \/ \E v \in Versions : GuestEnds(v)
        PROVE  HistoryTypes'
    BY <1>7, <1>h DEF Start, GuestEnds, HistoryTypes
  <1>8. CASE UNCHANGED vars
    BY <1>8, <1>h DEF vars, HistoryTypes
  <1> QED BY <1>1, <1>2, <1>3, <1>4, <1>5, <1>6, <1>7, <1>8 DEF Next, InstallStep, UninstallStep

\* Whatever is on the disk and whoever runs keeps its type.
THEOREM TypeCorrect == Spec => []TypeOK
  <1>1. Init => TypeOK /\ FinitelyMany
    BY FS_EmptySet, MarksAssumption, BoundsAssumption
       DEF Init, TypeOK, DiskTypes, ProcessTypes, GuestTypes, HistoryTypes, Steps, Ended, FinitelyMany
  <1>2. TypeOK /\ FinitelyMany /\ [Next]_vars => TypeOK' /\ FinitelyMany'
    BY DiskTypesKept, ProcessTypesKept, GuestTypesKept, HistoryTypesKept DEF TypeOK
  <1> QED BY <1>1, <1>2, PTL DEF Spec

-------------------------------------------------------------------------------
(* Missing files *)

Deleting == uninstaller = "delete" \/ "torn" \in mishaps

\* An uninstall that deletes goes on, breaks, or leaves nothing.
LEMMA DeletingKept ==
    ASSUME Deleting, [Next]_vars, ~Uninstalled
    PROVE  Deleting'
  <1>1. ASSUME NEW i \in Installers, InstallStep(i)
        PROVE  Deleting'
    BY <1>1 DEF Deleting, InstallStep, BeginBuild, BeginReuse, Begin, Racing, Build, Stage, Place,
                Link, Launch, Record, Finish, Fails, At
  <1>2. CASE UninstallStep
    BY <1>2 DEF Deleting, UninstallStep, BeginUninstall, Racing, Unlink, DeleteSome,
                UninstallBreaks
  <1>3. CASE Start \/ (\E v \in Versions : GuestEnds(v)) \/ UNCHANGED vars
    BY <1>3 DEF Deleting, Start, GuestEnds, vars
  <1> QED BY <1>1, <1>2, <1>3 DEF Next

\* A staged release stays whole until it is in its place, but for that.
LEMMA StagedWholeKept ==
    ASSUME TypeOK, StagedWhole, [Next]_vars
    PROVE  StagedWhole'
  <1> USE DEF TypeOK, DiskTypes
  <1> DEFINE Lacks(i) == staged[i] \in {"loads", "part"}
  <1>1. CASE Uninstalled
    BY <1>1, MarksAssumption DEF Uninstalled, tree, StagedWhole, Programs
  <1>2. CASE DeleteSome
    BY <1>2 DEF DeleteSome, StagedWhole
  <1>3. CASE ~Uninstalled /\ \A i \in Installers : Lacks(i)' => Lacks(i)
    BY <1>3, DeletingKept DEF StagedWhole, Deleting
  <1>4. ASSUME NEW i \in Installers, InstallStep(i), NEW o \in Installers, Lacks(o)'
        PROVE  Lacks(o)
    <2>1. staged' = staged \/ \E s \in {None, "filling", "whole"} : staged' = [staged EXCEPT ![i] = s]
                           \/ staged' = [staged EXCEPT ![i] = staged[i]]
      BY <1>4 DEF InstallStep, BeginBuild, BeginReuse, Begin, Build, Stage, Place, Link, Launch,
                  Record, Finish, Fails, Refuses, Stops, tree
    <2>2. None \notin Programs
      BY MarksAssumption
    <2> QED BY <1>4, <2>1, <2>2 DEF Programs
  <1>5. CASE \/ BeginUninstall \/ Unlink \/ UninstallBreaks
             \/ Start \/ (\E v \in Versions : GuestEnds(v)) \/ UNCHANGED vars
    <2>1. UNCHANGED staged
      BY <1>5 DEF BeginUninstall, Unlink, UninstallBreaks, Start, GuestEnds, vars, tree
    <2> QED BY <1>1, <1>3, <2>1
  <1> QED BY <1>1, <1>2, <1>3, <1>4, <1>5 DEF Next, UninstallStep

\* A release lacks files only if an uninstall deletes or broke: it comes whole,
\* or from a staging directory that lost files so.
LEMMA MissingKept ==
    ASSUME TypeOK, StagedWhole, MissingForACause, [Next]_vars
    PROVE  MissingForACause'
  <1> USE DEF TypeOK, DiskTypes
  <1>1. CASE Uninstalled
    BY <1>1 DEF Uninstalled, tree, MissingForACause
  <1>2. CASE DeleteSome
    BY <1>2 DEF DeleteSome, MissingForACause
  <1>3. CASE ~Uninstalled /\ UNCHANGED releases
    BY <1>3, DeletingKept DEF MissingForACause, Deleting, Whole
  <1>4. ASSUME NEW i \in Installers, Place(i), ~UNCHANGED releases
        PROVE  MissingForACause'
    <2> DEFINE v == job[i].version
               new == [digest |-> job[i].digest, program |-> staged[i]]
    <2>1. /\ staged[i] # None /\ releases' = [releases EXCEPT ![v] = new]
          /\ UNCHANGED <<uninstaller, mishaps>> /\ pc[i] = "place"
      BY <1>4 DEF Place, At, Refuses, Stops
    <2>2. staged[i] \in Programs
      BY <2>1 DEF ProcessTypes
    <2>3. staged[i] = "whole" \/ Deleting
      BY <2>2 DEF StagedWhole, Programs, Deleting
    <2>4. job[i] \in Jobs
      BY <2>1 DEF ProcessTypes, Ended
    <2>5. new \in Release
      BY <2>2, <2>4 DEF Release, Jobs
    <2>6. new # None /\ new.program = staged[i]
      BY <2>5, MarksAssumption
    <2>7. ASSUME NEW w \in Versions
          PROVE  releases'[w] = IF w = v THEN new ELSE releases[w]
      BY <2>1
    <2>8. ASSUME NEW w \in Versions, releases'[w] # None
          PROVE  Whole(w)' \/ Deleting'
      <3>1. CASE w = v
        BY <3>1, <2>1, <2>3, <2>6, <2>7 DEF Whole, Deleting
      <3>2. CASE w # v
        BY <3>2, <2>1, <2>7, <2>8 DEF Whole, Deleting, MissingForACause
      <3> QED BY <3>1, <3>2
    <2> QED BY <2>8 DEF MissingForACause, Deleting
  <1>5. ASSUME NEW i \in Installers, InstallStep(i), ~Place(i)
        PROVE  UNCHANGED releases
    BY <1>5 DEF InstallStep, BeginBuild, BeginReuse, Begin, Build, Stage, Link, Launch, Record,
                Finish, Fails, Refuses, Stops, tree
  <1>6. CASE \/ BeginUninstall \/ Unlink \/ UninstallBreaks
             \/ Start \/ (\E v \in Versions : GuestEnds(v)) \/ UNCHANGED vars
    <2>1. UNCHANGED releases
      BY <1>6 DEF BeginUninstall, Unlink, UninstallBreaks, Start, GuestEnds, vars, tree
    <2> QED BY <1>1, <1>3, <2>1
  <1> QED BY <1>1, <1>2, <1>3, <1>4, <1>5, <1>6 DEF Next, UninstallStep

-------------------------------------------------------------------------------
(* The launcher *)

\* What `current` names and what is known of it stays.
LEMMA ServedStays ==
    ASSUME Serving, UNCHANGED <<served, launcher, uninstaller>>, mishaps \subseteq mishaps',
           Works => current' = current /\ releases'[current] = releases[current]
    PROVE  Serving'
  BY DEF Serving, LauncherWorks, Works, Resolves, Loads, Whole

\* No step of an install, of an uninstall or of a VM breaks a launcher that serves.
LEMMA ServingKept ==
    ASSUME TypeOK, MissingForACause, Serving, [Next]_vars
    PROVE  Serving'
  <1>1. ASSUME NEW i \in Installers, NEW j \in Jobs, BeginBuild(i, j) \/ BeginReuse(i, j)
        PROVE  Serving'
    BY <1>1, ServedStays DEF BeginBuild, BeginReuse, Begin, Racing, tree
  <1>2. ASSUME NEW i \in Installers,
               Build(i) \/ Stage(i) \/ Link(i) \/ Record(i) \/ Fails(i)
        PROVE  Serving'
    BY <1>2, ServedStays DEF Build, Stage, Link, Record, Fails, At, Goto, Refuses,
                             Stops, Works
  <1>3. ASSUME NEW i \in Installers, Place(i)
        PROVE  Serving'
    <2>1. UNCHANGED <<served, uninstaller, launcher, current, mishaps>>
      BY <1>3 DEF Place, At, Goto, Refuses, Stops
    <2>2. ASSUME Works
          PROVE  releases'[current] = releases[current]
      <3>1. current \in Versions /\ releases[current] # None
        BY <2>2 DEF Works, Resolves, TypeOK, DiskTypes
      <3> QED BY <1>3, <3>1 DEF Place, Refuses, Stops, TypeOK, DiskTypes
    <2> QED BY <2>1, <2>2, ServedStays
  <1>4. ASSUME NEW i \in Installers, Launch(i)
        PROVE  Serving'
    BY <1>4 DEF Launch, At, Goto, Stops, Serving, LauncherWorks, Works, Resolves, Loads,
                Whole
  <1>5. ASSUME NEW i \in Installers, Finish(i)
        PROVE  Serving'
    <2>1. UNCHANGED <<releases, current, launcher, uninstaller, mishaps>>
      BY <1>5 DEF Finish, At, Refuses, Stops, tree
    <2>2. CASE UNCHANGED served
      BY <2>1, <2>2 DEF Serving, LauncherWorks, Works, Resolves, Loads, Whole
    <2>3. CASE Works /\ uninstaller = "idle"
      <3>1. current \in Versions /\ releases[current] # None
        BY <2>3 DEF Works, Resolves, TypeOK, DiskTypes
      <3>2. Whole(current) \/ "torn" \in mishaps
        BY <2>3, <3>1 DEF MissingForACause
      <3> QED BY <2>1, <2>3, <3>2 DEF Serving, LauncherWorks, Works, Resolves, Loads, Whole
    <2> QED BY <1>5, <2>2, <2>3 DEF Finish, Refuses, Stops
  <1>6. CASE BeginUninstall \/ Unlink \/ DeleteSome
    BY <1>6 DEF BeginUninstall, Unlink, DeleteSome, Serving, LauncherWorks
  <1>7. CASE Uninstalled \/ UninstallBreaks
    BY <1>7 DEF Uninstalled, UninstallBreaks, Serving, LauncherWorks
  <1>8. CASE Start \/ (\E v \in Versions : GuestEnds(v)) \/ UNCHANGED vars
    BY <1>8, ServedStays DEF Start, GuestEnds, vars, tree
  <1> QED BY <1>1, <1>2, <1>3, <1>4, <1>5, <1>6, <1>7, <1>8 DEF Next, InstallStep, UninstallStep

\* "Failed upgrade leaves `current` unchanged": after one successful install the
\* launcher always runs a release that doctor accepts, until an uninstall begins,
\* and a whole one if no uninstall ever ended half way.
THEOREM LauncherAlwaysWorks == Spec => []LauncherWorks
  <1> DEFINE I == StagedWhole /\ MissingForACause /\ Serving
  <1>1. Init => I
    BY MarksAssumption DEF Init, Programs, StagedWhole, MissingForACause, Serving, LauncherWorks
  <1>2. TypeOK /\ I /\ [Next]_vars => I'
    BY StagedWholeKept, MissingKept, ServingKept
  <1>3. I => LauncherWorks
    BY DEF Serving
  <1> QED BY <1>1, <1>2, <1>3, TypeCorrect, PTL DEF Spec

-------------------------------------------------------------------------------
(* One VM *)

\* Nothing but an uninstall under a running VM separates it from its release.
LEMMA SeenKept ==
    ASSUME TypeOK, Seen, [Next]_vars
    PROVE  Seen'
  <1>1. ASSUME NEW i \in Installers, NEW j \in Jobs, BeginBuild(i, j) \/ BeginReuse(i, j)
        PROVE  Seen'
    <2>1. UNCHANGED <<runners, record, current, releases>> /\ mishaps \subseteq mishaps'
      BY <1>1 DEF BeginBuild, BeginReuse, Begin, Racing, tree, guests
    <2> QED BY <2>1 DEF Seen, Resolves
  <1>2. ASSUME NEW i \in Installers,
               Build(i) \/ Stage(i) \/ Launch(i) \/ Record(i) \/ Finish(i) \/ Fails(i)
        PROVE  Seen'
    <2>1. UNCHANGED <<runners, record, current, releases, mishaps>>
      BY <1>2 DEF Build, Stage, Launch, Record, Finish, Fails, At, Refuses, Stops,
                  tree, guests
    <2> QED BY <2>1 DEF Seen, Resolves
  <1>3. ASSUME NEW i \in Installers, Place(i)
        PROVE  Seen'
    <2>1. UNCHANGED <<runners, record, current, mishaps>>
      BY <1>3 DEF Place, At, Refuses, Stops, guests
    <2>2. ASSUME Resolves
          PROVE  releases'[current] = releases[current]
      <3>1. current \in Versions /\ releases[current] # None
        BY <2>2 DEF Resolves, TypeOK, DiskTypes
      <3> QED BY <1>3, <3>1 DEF Place, Refuses, Stops, TypeOK, DiskTypes
    <2> QED BY <2>1, <2>2 DEF Seen, Resolves
  <1>4. ASSUME NEW i \in Installers, Link(i)
        PROVE  Seen'
    <2>1. UNCHANGED <<runners, record, releases, mishaps>> /\ (Resolves => current' = current)
      BY <1>4 DEF Link, At, Stops, guests
    <2> QED BY <2>1 DEF Seen, Resolves
  <1>5. CASE BeginUninstall \/ Unlink \/ DeleteSome
    <2>1. UNCHANGED runners /\ mishaps' = mishaps' \cup Orphaning /\ mishaps \subseteq mishaps'
      BY <1>5 DEF BeginUninstall, Unlink, DeleteSome, Racing, guests
    <2>2. CASE runners = {}
      BY <2>1, <2>2 DEF Seen
    <2>3. CASE runners # {}
      BY <2>1, <2>3 DEF Seen, Orphaning
    <2> QED BY <2>2, <2>3
  <1>6. CASE Uninstalled \/ UninstallBreaks
    <2>1. UNCHANGED <<runners, record, current, releases>> /\ mishaps \subseteq mishaps'
      BY <1>6 DEF Uninstalled, UninstallBreaks, tree, guests
    <2> QED BY <2>1 DEF Seen, Resolves
  <1>7. CASE Start
    <2>1. ASSUME "orphaned" \notin mishaps
          PROVE  runners' = {current}
      <3>1. CASE runners = {}
        BY <1>7, <3>1 DEF Start
      <3>2. CASE runners # {}
        BY <1>7, <2>1, <3>2 DEF Start, Seen, Recognized
      <3> QED BY <3>1, <3>2
    <2>2. UNCHANGED <<current, releases, mishaps>> /\ record' = current /\ Resolves
      BY <1>7 DEF Start, tree, Works
    <2> QED BY <2>1, <2>2 DEF Seen, Resolves
  <1>8. ASSUME NEW v \in Versions, GuestEnds(v)
        PROVE  Seen'
    <2>1. UNCHANGED <<current, releases, mishaps>> /\ runners' = runners \ {v} /\ v \in runners
      BY <1>8 DEF GuestEnds, tree
    <2>2. runners = {record} => runners' = {}
      BY <2>1
    <2>3. runners # {}
      BY <2>1
    <2> QED BY <2>1, <2>2, <2>3 DEF Seen
  <1>9. CASE UNCHANGED vars
    BY <1>9 DEF vars, tree, guests, Seen, Resolves
  <1> QED BY <1>1, <1>2, <1>3, <1>4, <1>5, <1>6, <1>7, <1>8, <1>9
          DEF Next, InstallStep, UninstallStep

\* The VM is not started twice, as long as no uninstall took the program of a
\* running VM.
THEOREM RunsOnce == Spec => []OneRunner
  <1>1. Init => Seen
    BY DEF Init, Seen
  <1>2. Seen => OneRunner
    <2>1. Cardinality({}) = 0 /\ Cardinality({record}) = 1
      BY FS_EmptySet, FS_Singleton
    <2> QED BY <2>1 DEF Seen, OneRunner
  <1> QED BY <1>1, <1>2, SeenKept, TypeCorrect, PTL DEF Spec

-------------------------------------------------------------------------------
(* Reports of an install *)

\* Without races and torn uninstalls every installer works on its own release.
LEMMA UndisturbedKept ==
    ASSUME TypeOK, StagedWhole, Undisturbed, [Next]_vars
    PROVE  Undisturbed'
  <1> DEFINE Calm == {"raced", "torn"} \cap mishaps = {}
  <1>1. ASSUME NEW i \in Installers, NEW j \in Jobs, BeginBuild(i, j) \/ BeginReuse(i, j)
        PROVE  Undisturbed'
    <2>1. /\ UNCHANGED <<releases, uninstaller>>
          /\ pc[i] \in Ended
          /\ pc' = [pc EXCEPT ![i] = IF BeginBuild(i, j) THEN "build" ELSE "link"]
          /\ job' = [job EXCEPT ![i] = j]
          /\ mishaps' = Racing(uninstaller # "idle" \/ \E o \in Installers : pc[o] \notin Ended)
      <3>1. CASE BeginBuild(i, j)
        BY <3>1 DEF BeginBuild, Begin, tree
      <3>2. CASE BeginReuse(i, j) /\ ~BeginBuild(i, j)
        BY <3>2 DEF BeginReuse, Begin, tree
      <3> QED BY <1>1, <3>1, <3>2
    <2>2. BeginBuild(i, j) => releases[j.version] = None
      BY DEF BeginBuild
    <2>3. ~BeginBuild(i, j) => releases[j.version] # None /\ releases[j.version].digest = j.digest
      BY <1>1 DEF BeginReuse
    <2>4. pc \in [Installers -> Steps] /\ job \in [Installers -> Jobs \cup {None}]
      BY DEF TypeOK, ProcessTypes
    <2> SUFFICES ASSUME Calm'
                 PROVE  /\ \A o \in Installers :
                              pc'[o] \notin Ended =>
                                  Alone(o)' /\ uninstaller' = "idle" /\ OwnRelease(o)'
                        /\ uninstaller' # "delete" =>
                              \A v \in Versions : releases'[v] # None => Whole(v)'
      BY DEF Undisturbed, Ended
    <2>5. Calm /\ uninstaller = "idle" /\ \A o \in Installers : pc[o] \in Ended
      BY <2>1 DEF Racing
    <2>6. Alone(i)' /\ OwnRelease(i)'
      BY <2>1, <2>2, <2>3, <2>4, <2>5 DEF Alone, OwnRelease, Ended
    <2>7. \A o \in Installers \ {i} : pc'[o] \in Ended
      BY <2>1, <2>4, <2>5
    <2> QED BY <2>1, <2>5, <2>6, <2>7 DEF Undisturbed, Whole
  <1>2. ASSUME NEW i \in Installers,
               \/ Build(i) \/ Stage(i) \/ Link(i) \/ Launch(i) \/ Record(i)
               \/ Finish(i) \/ Fails(i)
        PROVE  Undisturbed'
    <2> DEFINE Before == {"build", "stage", "place"}
               After == {"link", "launch", "record", "finish"}
    <2>1. UNCHANGED <<releases, uninstaller, mishaps>> /\ pc[i] \notin Ended
      BY <1>2 DEF Build, Stage, Link, Launch, Record, Finish, Fails, At, Refuses,
                  Stops, tree, Ended
    <2>2. pc \in [Installers -> Steps] /\ job \in [Installers -> Jobs \cup {None}]
      BY DEF TypeOK, ProcessTypes
    <2>3. \A o \in Installers \ {i} : pc'[o] = pc[o] /\ job'[o] = job[o]
      BY <1>2, <2>2 DEF Build, Stage, Link, Launch, Record, Finish, Fails, Goto, Refuses,
                        Stops, Ends
    <2>4. \/ pc'[i] \in Ended
          \/ job'[i] = job[i] /\ pc[i] \in Before /\ pc'[i] \in Before
          \/ job'[i] = job[i] /\ pc[i] \in After /\ pc'[i] \in After
      BY <1>2, <2>2 DEF Build, Stage, Link, Launch, Record, Finish, Fails, At, Goto,
                        Refuses, Stops, Ends, Ended
    <2> SUFFICES ASSUME Calm
                 PROVE  /\ \A o \in Installers :
                              pc'[o] \notin Ended =>
                                  Alone(o)' /\ uninstaller = "idle" /\ OwnRelease(o)'
                        /\ uninstaller # "delete" =>
                              \A v \in Versions : releases[v] # None => Whole(v)
      BY <2>1 DEF Undisturbed, Whole, Ended
    <2>5. Alone(i) /\ uninstaller = "idle" /\ OwnRelease(i)
      BY <2>1 DEF Undisturbed
    <2>6. \A o \in Installers \ {i} : pc'[o] \in Ended
      BY <2>3, <2>5 DEF Alone
    <2>7. pc'[i] \notin Ended => OwnRelease(i)'
      BY <2>1, <2>4, <2>5 DEF OwnRelease
    <2> QED BY <2>5, <2>6, <2>7 DEF Undisturbed, Alone
  <1>3. ASSUME NEW i \in Installers, Place(i)
        PROVE  Undisturbed'
    <2>1. UNCHANGED <<uninstaller, mishaps>> /\ pc[i] = "place"
      BY <1>3 DEF Place, At
    <2>2. pc \in [Installers -> Steps] /\ releases \in [Versions -> Release \cup {None}]
      BY DEF TypeOK, ProcessTypes, DiskTypes
    <2>3. \A o \in Installers \ {i} : pc'[o] = pc[o]
      BY <1>3, <2>2 DEF Place, Goto, Refuses, Stops, Ends
    <2> SUFFICES ASSUME Calm
                 PROVE  /\ \A o \in Installers :
                              pc'[o] \notin Ended =>
                                  Alone(o)' /\ uninstaller = "idle" /\ OwnRelease(o)'
                        /\ uninstaller # "delete" =>
                              \A v \in Versions : releases'[v] # None => Whole(v)'
      BY <2>1 DEF Undisturbed, Ended
    <2>4. /\ Alone(i) /\ uninstaller = "idle" /\ releases[job[i].version] = None
          /\ \A v \in Versions : releases[v] # None => Whole(v)
      BY <2>1 DEF Undisturbed, OwnRelease, Ended
    <2>5. \A o \in Installers \ {i} : pc'[o] \in Ended
      BY <2>3, <2>4 DEF Alone
    <2>6. CASE Refuses(i)
      <3>1. pc'[i] \in Ended /\ UNCHANGED releases
        BY <2>2, <2>6 DEF Refuses, Stops, Ends, Ended
      <3> QED BY <2>4, <2>5, <3>1 DEF Whole
    <2>7. CASE ~Refuses(i)
      <3> DEFINE new == [digest |-> job[i].digest, program |-> "whole"]
      <3>1. /\ pc'[i] = "link" /\ job' = job /\ staged[i] # None
            /\ releases' = [releases EXCEPT ![job[i].version] =
                               [digest |-> job[i].digest, program |-> staged[i]]]
        BY <1>3, <2>2, <2>4, <2>7 DEF Place, Goto
      <3>2. staged[i] = "whole"
        <4>1. staged[i] \in Programs
          BY <2>1, <3>1 DEF TypeOK, DiskTypes, ProcessTypes
        <4> QED BY <2>4, <4>1 DEF StagedWhole, Programs
      <3>3. job[i] \in Jobs
        BY <2>1 DEF TypeOK, ProcessTypes, Ended
      <3>4. job[i].version \in Versions /\ new \in Release
        BY <3>3 DEF Jobs, Release, Programs
      <3>5. /\ releases'[job[i].version] = new
            /\ \A v \in Versions : v # job[i].version => releases'[v] = releases[v]
        BY <2>2, <3>1, <3>2, <3>4
      <3>6. new # None /\ new.digest = job[i].digest /\ new.program = "whole"
        BY <3>4, MarksAssumption
      <3>7. OwnRelease(i)'
        BY <3>1, <3>5, <3>6 DEF OwnRelease
      <3>8. \A v \in Versions : releases'[v] # None => Whole(v)'
        BY <2>4, <3>5, <3>6 DEF Whole
      <3> QED BY <2>4, <2>5, <3>7, <3>8 DEF Alone
    <2> QED BY <2>6, <2>7
  <1>4. CASE BeginUninstall
    <2>1. /\ uninstaller = "idle" /\ uninstaller' = "unlink"
          /\ UNCHANGED <<releases, pc, job>>
          /\ mishaps' = Racing(\E o \in Installers : pc[o] \notin Ended) \cup Orphaning
      BY <1>4 DEF BeginUninstall
    <2>2. Calm' => Calm /\ \A o \in Installers : pc[o] \in Ended
      BY <2>1 DEF Racing
    <2> QED BY <2>1, <2>2 DEF Undisturbed, Whole, Ended
  <1>5. CASE Unlink \/ DeleteSome
    <2>1. /\ uninstaller # "idle" /\ uninstaller' = "delete"
          /\ UNCHANGED <<pc, job>> /\ mishaps \subseteq mishaps'
      BY <1>5 DEF Unlink, DeleteSome
    <2>2. Calm => \A o \in Installers : pc[o] \in Ended
      BY <2>1 DEF Undisturbed
    <2> QED BY <2>1, <2>2 DEF Undisturbed, Ended
  <1>6. CASE Uninstalled
    <2>1. /\ uninstaller = "delete" /\ \A v \in Versions : releases[v] = None
          /\ UNCHANGED <<releases, pc, job, mishaps>>
      BY <1>6 DEF Uninstalled, tree
    <2>2. Calm => \A o \in Installers : pc[o] \in Ended
      BY <2>1 DEF Undisturbed
    <2> QED BY <2>1, <2>2 DEF Undisturbed, Ended
  <1>7. CASE UninstallBreaks
    BY <1>7 DEF UninstallBreaks, Undisturbed
  <1>8. CASE Start \/ (\E v \in Versions : GuestEnds(v)) \/ UNCHANGED vars
    <2>1. UNCHANGED <<releases, pc, job, uninstaller, mishaps>>
      BY <1>8 DEF Start, GuestEnds, vars, tree
    <2> QED BY <2>1 DEF Undisturbed, Alone, OwnRelease, Whole, Ended
  <1> QED BY <1>1, <1>2, <1>3, <1>4, <1>5, <1>6, <1>7, <1>8 DEF Next, InstallStep, UninstallStep

\* An install that reports success installed its source, whole, unless it raced
\* with another process or found what a broken uninstall left.
THEOREM InstallTellsTruth == Spec => ReportsAreTrue
  <1>1. Init => StagedWhole /\ Undisturbed
    BY MarksAssumption DEF Init, Programs, StagedWhole, Undisturbed, Ended
  <1>2. ASSUME TypeOK, Undisturbed, NEW i \in Installers,
               pc[i] = "finish", {"raced", "torn"} \cap mishaps = {}
        PROVE  releases[job[i].version] = [digest |-> job[i].digest, program |-> "whole"]
    <2>1. /\ uninstaller = "idle" /\ releases[job[i].version] # None
          /\ releases[job[i].version].digest = job[i].digest
      BY <1>2 DEF Undisturbed, OwnRelease, Ended
    <2>2. job[i].version \in Versions
      BY <1>2 DEF TypeOK, ProcessTypes, Ended, Jobs
    <2>3. releases[job[i].version].program = "whole"
      BY <1>2, <2>1, <2>2 DEF Undisturbed, Whole
    <2>4. releases[job[i].version] \in Release
      BY <1>2, <2>1, <2>2 DEF TypeOK, DiskTypes
    <2> QED BY <2>1, <2>3, <2>4 DEF Release
  <1>3. TypeOK /\ Undisturbed =>
          \A i \in Installers :
              pc[i] = "finish" /\ pc'[i] = "installed" /\ {"raced", "torn"} \cap mishaps = {}
                  => releases[job[i].version] = [digest |-> job[i].digest, program |-> "whole"]
    BY <1>2
  <1> QED BY <1>1, <1>3, StagedWholeKept, UndisturbedKept, TypeCorrect, PTL
          DEF Spec, ReportsAreTrue
===============================================================================
