------------------------- MODULE InitializationProofs -------------------------
(***************************************************************************)
(* The safety properties of an initialization, for every set of snapshot   *)
(* names and every number of inits, kills and failing operations.          *)
(***************************************************************************)
EXTENDS Initialization, TLAPS

-------------------------------------------------------------------------------
(* The inductive invariants *)

Handlers == {"dropTemp", "dropStaged", "dropOrigin", "dropBase", "dropSnapshot", "dropLive"}

\* Before the managed bundle is there, while its first snapshot is captured, and
\* before the base pointer is.
BeforeLive == {"copy", "copied", "prepare", "adopt", "install", "installed", "activate"}
Capture    == {"checkBase", "copyBase", "copiedBase", "publish"}
BeforeBase == BeforeLive \cup Capture \cup {"setBase"}

\* Every step belongs to its kind of init; the source is always whole.
ModesFit ==
    /\ source.contents \in {"off", "suspended"}
    /\ pc \in {"copy", "copied", "prepare"} => request.mode \in {"clone", "discard"}
    /\ pc = "adopt" => request.mode = "adopt"
    /\ pc \in {"install", "installed"} => request.mode = "install"
    /\ pc = "activate" => request.mode # "adopt"
    /\ pc = "dropImage" => request.mode = "install"

\* Who has a base pointer has what it names and the VM; it goes before they go.
BaseOwned ==
    /\ pc \in BeforeLive => live = None
    /\ pc \in BeforeBase \cup {"dropSnapshot", "dropLive"} => base = None
    /\ pc \in Capture \cup {"setBase"} => Whole(Destination)
    /\ pc = "publish" => Whole(temp)
    /\ pc = "setBase" => Whole(snapshots[request.name])
    /\ base # None =>
          /\ request # None /\ base = request.name
          /\ Whole(snapshots[base]) /\ Whole(Destination)

NoSnapshots == \A n \in Names : snapshots[n] = None

\* The init that runs, or failed, has made nothing that is still there.
Untouched == live = None /\ base = None /\ origin = None /\ NoSnapshots

CutShort == request.mode = "install" /\ image = "cut"

\* What an init has made and not yet undone, as long as at most one operation
\* failed: a second one can interrupt the rollback of the first.
TidyTrees ==
    /\ pc \notin {"copiedBase", "publish", "dropTemp"} => temp = None
    /\ pc \notin {"copied", "prepare", "installed", "activate", "dropStaged"} => staged = None
    /\ request # None => \A n \in Names \ {request.name} : snapshots[n] = None
    /\ published = "no" \/ pc = "dropLive" => NoSnapshots
    /\ pc \in BeforeLive \cup Capture => published = "no"

TidyPointers ==
    /\ pc # "idle" => outcome = "none"
    /\ pc # "idle" /\ request.mode = "adopt" => live = None
    /\ pc \in BeforeBase \cup {"setOrigin", "dropBase", "dropSnapshot", "dropLive"} => origin = None
    /\ pc \in {"setOrigin", "configure", "dropImage"} \/ outcome = "complete" => base # None
    /\ pc = "idle" /\ outcome # "complete" => Untouched \/ InPlace

\* Without any failing operation only a cut restore image makes an init fail.
TidyCause ==
    /\ pc \in Handlers /\ faults = 0 => CutShort /\ Untouched /\ staged = None /\ temp = None
    /\ outcome = "failed" /\ faults = 0 => CutShort

Tidy == crashes = 0 /\ faults < 2 => TidyTrees /\ TidyPointers /\ TidyCause

\* An init that has not been overtaken by an event looked at the source as it is.
SeenFits(r) ==
    /\ r.seen <= events
    /\ r.seen = events /\ source.contents = "suspended" => r.mode \in {"discard", "install"}

AllSeen == (\A r \in asked : SeenFits(r)) /\ (request # None => SeenFits(request))

\* The managed VM starts cold, and a copy has an address of its own.
Cold == Destination.contents = "off" /\ (request.mode # "adopt" => Destination.mac = "new")

\* ... and then every copy it makes of the source is faithful.
Fresh ==
    request # None /\ events = request.seen /\ ~Running =>
        /\ pc \in {"copied", "copiedBase"} => begun = events
        /\ pc = "prepare" => staged.contents = source.contents
        /\ pc = "activate" => staged.contents = "off" /\ staged.mac = "new"
        /\ pc \in Capture \cup {"setBase"} \/ base # None => Cold
        /\ pc = "publish" => temp.contents = "off"
        /\ pc = "setBase" \/ base # None => snapshots[request.name].contents = "off"

-------------------------------------------------------------------------------
(* Type correctness *)

\* A copy of a whole bundle is a whole bundle.
LEMMA CloneTyped ==
    ASSUME NEW b \in Bundle
    PROVE  CloneOf(b) \in Bundle /\ (b.contents # "partial" => CloneOf(b).contents # "partial")
  BY DEF CloneOf, Bundle

\* The types of the files are kept.
LEMMA DiskTypesKept ==
    ASSUME TypeOK, [Next]_vars
    PROVE  DiskTypes'
  <1> USE DEF TypeOK, DiskTypes, catalog, config
  <1>p. Partial \in Bundle
    BY DEF Partial, Bundle
  <1>r. pc # "idle" => request \in Requests /\ request.name \in Names
    BY DEF ProcessTypes, Requests
  <1>1. ASSUME NEW m \in {"clone", "discard", "adopt", "install"}, NEW n \in Names, Ask(m, n)
        PROVE  DiskTypes'
    BY <1>1 DEF Ask, Download
  <1>2. ASSUME NEW r \in asked, Refuse(r) \/ TakeLock(r)
        PROVE  DiskTypes'
    BY <1>2 DEF Refuse, TakeLock, disk
  <1>3. CASE CopyStarts \/ CopyEnds
    BY <1>3, <1>p, CloneTyped DEF CopyStarts, CopyEnds
  <1>4. CASE Prepare
    <2>1. staged \in Bundle
      BY <1>4 DEF Prepare, Reached, ProcessTypes, Whole
    <2>2. staged' \in Bundle
      BY <1>4, <2>1 DEF Prepare, Identity, Bundle
    <2> QED BY <1>4, <2>2 DEF Prepare
  <1>5. CASE Adopt
    <2>1. source' \in Bundle
      BY <1>5 DEF Adopt, Identity, Bundle
    <2> QED BY <1>5, <2>1 DEF Adopt
  <1>6. CASE InstallStarts \/ InstallEnds \/ Activate
    <2>1. [contents |-> "off", mac |-> "new"] \in Bundle
      BY DEF Bundle
    <2> QED BY <1>6, <1>p, <2>1 DEF InstallStarts, InstallEnds, Activate
  <1>7. CASE CheckBase \/ CopyBaseStarts \/ CopyBaseEnds
    BY <1>7, <1>p, CloneTyped DEF CheckBase, CopyBaseStarts, CopyBaseEnds, disk
  <1>8. CASE Publish
    BY <1>8, <1>r DEF Publish, Reached
  <1>9. CASE SetBase \/ SetOrigin
    BY <1>9, <1>r DEF SetBase, SetOrigin, Reached
  <1>10. CASE Configure \/ DropImage
    BY <1>10 DEF Configure, DropImage
  <1>11. CASE DropTemp \/ DropStaged
    BY <1>11, <1>p DEF DropTemp, DropStaged
  <1>12. CASE DropOrigin \/ DropBase \/ DropLive
    BY <1>12, <1>p DEF DropOrigin, DropBase, DropLive
  <1>13. CASE DropSnapshot
    BY <1>13, <1>p, <1>r DEF DropSnapshot, Reached
  <1>14. CASE SourceStarts \/ SourceStops
    BY <1>14 DEF SourceStarts, SourceStops, Bundle
  <1>15. CASE UserClears \/ Crash
    BY <1>15 DEF UserClears, Crash
  <1>16. CASE UNCHANGED vars
    BY <1>16 DEF vars, disk
  <1> QED BY <1>1, <1>2, <1>3, <1>4, <1>5, <1>6, <1>7, <1>8, <1>9, <1>10, <1>11, <1>12, <1>13,
             <1>14, <1>15, <1>16 DEF Next, BundleStep, CatalogStep, UndoStep

\* Every step goes to one of the known steps, or ends the init.
LEMMA StepsKept ==
    ASSUME TypeOK, [Next]_vars
    PROVE  /\ pc' \in Steps
           /\ outcome' \in {"none", "complete", "failed", "killed"}
  <1>t. pc \in Steps /\ outcome \in {"none", "complete", "failed", "killed"}
    BY DEF TypeOK, ProcessTypes
  <1> USE <1>t DEF Steps, Do, Fail, Goto, End, process
  <1>1. ASSUME NEW m \in {"clone", "discard", "adopt", "install"}, NEW n \in Names, Ask(m, n)
        PROVE  /\ pc' \in Steps
               /\ outcome' \in {"none", "complete", "failed", "killed"}
    BY <1>1 DEF Ask
  <1>2. ASSUME NEW r \in asked, Refuse(r) \/ TakeLock(r)
        PROVE  /\ pc' \in Steps
               /\ outcome' \in {"none", "complete", "failed", "killed"}
    BY <1>2 DEF Refuse, TakeLock, FirstStep
  <1>3. CASE CopyStarts \/ CopyEnds \/ Prepare \/ Adopt
    BY <1>3 DEF CopyStarts, CopyEnds, Prepare, Adopt
  <1>4. CASE InstallStarts \/ InstallEnds \/ Activate
    BY <1>4 DEF InstallStarts, InstallEnds, Activate
  <1>5. CASE CheckBase \/ CopyBaseStarts \/ CopyBaseEnds \/ Publish
    BY <1>5 DEF CheckBase, CopyBaseStarts, CopyBaseEnds, Publish
  <1>6. CASE SetBase \/ SetOrigin \/ Configure \/ DropImage
    BY <1>6 DEF SetBase, SetOrigin, Configure, DropImage
  <1>7. CASE DropTemp \/ DropStaged
    BY <1>7 DEF DropTemp, DropStaged, Dropped
  <1>8. CASE DropOrigin \/ DropBase \/ DropLive
    BY <1>8 DEF DropOrigin, DropBase, DropLive
  <1>9. CASE DropSnapshot
    BY <1>9 DEF DropSnapshot, Dropped
  <1>10. CASE SourceStarts \/ SourceStops \/ UserClears \/ Crash \/ UNCHANGED vars
    BY <1>10 DEF SourceStarts, SourceStops, UserClears, Crash, vars
  <1> QED BY <1>1, <1>2, <1>3, <1>4, <1>5, <1>6, <1>7, <1>8, <1>9, <1>10
          DEF Next, BundleStep, CatalogStep, UndoStep

\* An init that was accepted stays what it is until the next takes the lock.
LEMMA RequestsKept ==
    ASSUME TypeOK, [Next]_vars
    PROVE  /\ asked' \subseteq Requests
           /\ request' \in Requests \cup {None}
           /\ pc' # "idle" => request' # None
           /\ UNCHANGED request \/ \E r \in asked : TakeLock(r)
           /\ pc = "idle" => pc' = "idle" \/ \E r \in asked : TakeLock(r)
  <1>t. /\ asked \subseteq Requests /\ request \in Requests \cup {None}
        /\ pc # "idle" => request # None
        /\ events \in 0..MaxEvents
    BY DEF TypeOK, ProcessTypes, HistoryTypes
  <1>1. ASSUME NEW m \in {"clone", "discard", "adopt", "install"}, NEW n \in Names, Ask(m, n)
        PROVE  asked' \subseteq Requests /\ UNCHANGED <<request, pc>>
    <2>1. [mode |-> m, name |-> n, seen |-> events] \in Requests
      BY <1>t DEF Requests
    <2> QED BY <1>1, <1>t, <2>1 DEF Ask
  <1>2. ASSUME NEW r \in asked, Refuse(r)
        PROVE  asked' \subseteq asked /\ UNCHANGED <<request, pc>>
    BY <1>2 DEF Refuse
  <1>3. ASSUME NEW r \in asked, TakeLock(r)
        PROVE  asked' \subseteq asked /\ request' = r
    BY <1>3 DEF TakeLock
  <1>4. CASE BundleStep
    BY <1>4, <1>t DEF BundleStep, CopyStarts, CopyEnds, Prepare, Adopt, InstallStarts, InstallEnds,
                      Activate, Reached
  <1>5. CASE CatalogStep
    BY <1>5, <1>t DEF CatalogStep, CheckBase, CopyBaseStarts, CopyBaseEnds, Publish, SetBase,
                      SetOrigin, Configure, DropImage, Reached
  <1>6. CASE UndoStep
    BY <1>6, <1>t DEF UndoStep, DropTemp, DropStaged, DropOrigin, DropBase, DropSnapshot, DropLive,
                      Reached
  <1>7. CASE SourceStarts \/ SourceStops \/ UserClears \/ Crash \/ UNCHANGED vars
    BY <1>7, <1>t DEF SourceStarts, SourceStops, UserClears, Crash, vars, process, End
  <1>8. \A r \in asked : r # None
    BY <1>t, MarksAssumption
  <1> QED BY <1>t, <1>1, <1>2, <1>3, <1>4, <1>5, <1>6, <1>7, <1>8 DEF Next

\* What is about to be activated is whole.
LEMMA StagedKept ==
    ASSUME TypeOK, ModesFit, [Next]_vars
    PROVE  pc' \in {"prepare", "activate"} => Whole(staged')
  <1>t. /\ pc \in {"prepare", "activate"} => Whole(staged)
        /\ source \in Bundle /\ source.contents # "partial"
        /\ staged \in Bundle \cup {None}
    BY DEF TypeOK, ProcessTypes, DiskTypes, ModesFit
  <1>b. \A b \in Bundle : b # None
    BY MarksAssumption
  <1> USE DEF Do, Fail, Goto, End
  <1>1. CASE CopyEnds
    BY <1>1, <1>b, <1>t, CloneTyped DEF CopyEnds, Whole
  <1>2. CASE Prepare
    <2>1. [contents |-> IF request.mode = "discard" /\ staged.contents = "suspended"
                        THEN "off" ELSE staged.contents,
           mac |-> "new"] \in Bundle
      BY <1>2, <1>t DEF Prepare, Reached, Whole, Bundle
    <2> QED BY <1>2, <1>b, <1>t, <2>1 DEF Prepare, Identity, Reached, Whole
  <1>3. CASE InstallEnds
    <2>1. [contents |-> "off", mac |-> "new"] \in Bundle
      BY DEF Bundle
    <2> QED BY <1>3, <1>b, <2>1 DEF InstallEnds, Whole
  <1>4. ASSUME NEW r \in asked, TakeLock(r)
        PROVE  pc' \notin {"prepare", "activate"}
    BY <1>4 DEF TakeLock, FirstStep
  <1>5. CASE CopyStarts \/ Adopt \/ InstallStarts \/ Activate
    BY <1>5 DEF CopyStarts, Adopt, InstallStarts, Activate
  <1>6. CASE CatalogStep
    BY <1>6 DEF CatalogStep, CheckBase, CopyBaseStarts, CopyBaseEnds, Publish, SetBase, SetOrigin,
                Configure, DropImage
  <1>7. CASE UndoStep
    BY <1>7 DEF UndoStep, DropTemp, DropStaged, DropOrigin, DropBase, DropSnapshot, DropLive, Dropped
  <1>8. CASE Crash
    BY <1>8 DEF Crash
  <1>9. ASSUME NEW m \in {"clone", "discard", "adopt", "install"}, NEW n \in Names, Ask(m, n)
        PROVE  UNCHANGED <<pc, staged>>
    BY <1>9 DEF Ask
  <1>10. ASSUME NEW r \in asked, Refuse(r)
         PROVE  UNCHANGED <<pc, staged>>
    BY <1>10 DEF Refuse, disk
  <1>11. CASE SourceStarts \/ SourceStops \/ UserClears \/ UNCHANGED vars
    BY <1>11, <1>t DEF SourceStarts, SourceStops, UserClears, vars, disk, process, Whole
  <1> QED BY <1>t, <1>1, <1>2, <1>3, <1>4, <1>5, <1>6, <1>7, <1>8, <1>9, <1>10, <1>11
          DEF Next, BundleStep, Whole

\* The types of history and bounds are kept.
LEMMA HistoryTypesKept ==
    ASSUME TypeOK, [Next]_vars
    PROVE  HistoryTypes'
  <1>h. /\ begun \in 0..MaxEvents /\ published \in {"no", "yes"} /\ events \in 0..MaxEvents
        /\ crashes \in 0..MaxCrashes /\ faults \in 0..MaxFaults
    BY DEF TypeOK, HistoryTypes
  <1>f. ASSUME UNCHANGED faults \/ Fault
        PROVE  faults' \in 0..MaxFaults
    BY <1>f, <1>h, BoundsAssumption DEF Fault
  <1>0. 0 \in 0..MaxEvents
    BY BoundsAssumption
  \* The steps of an init change no more than this.
  <1>1. ASSUME UNCHANGED <<events, crashes>>, UNCHANGED faults \/ Fault,
               begun' \in {begun, events, 0}, published' \in {published, "no", "yes"}
        PROVE  HistoryTypes'
    BY <1>0, <1>1, <1>f, <1>h DEF HistoryTypes
  <1>2. ASSUME NEW m \in {"clone", "discard", "adopt", "install"}, NEW n \in Names, Ask(m, n)
        PROVE  HistoryTypes'
    BY <1>1, <1>2 DEF Ask, history, bounds
  <1>3. ASSUME NEW r \in asked, Refuse(r) \/ TakeLock(r)
        PROVE  HistoryTypes'
    BY <1>1, <1>3 DEF Refuse, TakeLock, history, bounds
  <1>4. CASE BundleStep
    BY <1>1, <1>4 DEF BundleStep, CopyStarts, CopyEnds, Prepare, Adopt, InstallStarts, InstallEnds,
                      Activate, Reached, Do, Fail, history
  <1>5. CASE CatalogStep
    BY <1>1, <1>5 DEF CatalogStep, CheckBase, CopyBaseStarts, CopyBaseEnds, Publish, SetBase,
                      SetOrigin, Configure, DropImage, Reached, Do, Fail, history
  <1>6. CASE UndoStep
    <2>1. UNCHANGED <<events, crashes, begun, published>>
      BY <1>6 DEF UndoStep, DropTemp, DropStaged, DropOrigin, DropBase, DropSnapshot, DropLive,
                  Reached, history
    <2>2. UNCHANGED faults \/ Fault
      BY <1>6 DEF UndoStep, DropTemp, DropStaged, DropOrigin, DropBase, DropSnapshot, DropLive,
                  Dropped, Do, Fail
    <2> QED BY <1>1, <2>1, <2>2
  <1>7. CASE SourceStarts \/ SourceStops
    <2>1. events' \in 0..MaxEvents
      BY <1>7, <1>h, BoundsAssumption DEF SourceStarts, SourceStops
    <2> QED BY <1>7, <1>h, <2>1 DEF SourceStarts, SourceStops, history, HistoryTypes
  <1>8. CASE Crash
    <2>1. crashes' \in 0..MaxCrashes
      BY <1>8, <1>h, BoundsAssumption DEF Crash
    <2> QED BY <1>8, <1>0, <1>h, <2>1 DEF Crash, HistoryTypes
  <1>9. CASE UserClears \/ UNCHANGED vars
    BY <1>1, <1>9 DEF UserClears, vars, history, bounds
  <1> QED BY <1>2, <1>3, <1>4, <1>5, <1>6, <1>7, <1>8, <1>9 DEF Next

\* Every step is one of its kind of init, and none leaves the source without a part.
LEMMA ModesFitKept ==
    ASSUME TypeOK, ModesFit, [Next]_vars
    PROVE  ModesFit'
  <1> USE DEF ModesFit, Do, Fail, Goto, End
  <1>1. ASSUME NEW m \in {"clone", "discard", "adopt", "install"}, NEW n \in Names, Ask(m, n)
        PROVE  ModesFit'
    BY <1>1 DEF Ask
  <1>2. ASSUME NEW r \in asked, Refuse(r)
        PROVE  ModesFit'
    BY <1>2 DEF Refuse, disk
  <1>3. ASSUME NEW r \in asked, TakeLock(r)
        PROVE  ModesFit'
    <2>1. r.mode \in {"clone", "discard", "adopt", "install"}
      BY DEF TypeOK, ProcessTypes, Requests
    <2> QED BY <1>3, <2>1 DEF TakeLock, FirstStep
  <1>4. CASE CopyStarts \/ CopyEnds \/ Prepare
    BY <1>4 DEF CopyStarts, CopyEnds, Prepare, Reached
  <1>5. CASE Adopt
    <2>1. source'.contents = source.contents
      BY <1>5 DEF Adopt, TypeOK, DiskTypes, Bundle
    <2> QED BY <1>5, <2>1 DEF Adopt, Reached
  <1>6. CASE InstallStarts \/ InstallEnds \/ Activate
    BY <1>6 DEF InstallStarts, InstallEnds, Activate, Reached
  <1>7. CASE CatalogStep
    BY <1>7 DEF CatalogStep, CheckBase, CopyBaseStarts, CopyBaseEnds, Publish, SetBase, SetOrigin,
                Configure, DropImage, disk, Reached
  <1>8. CASE UndoStep
    BY <1>8 DEF UndoStep, DropTemp, DropStaged, DropOrigin, DropBase, DropSnapshot, DropLive, Dropped
  <1>9. CASE SourceStarts \/ SourceStops
    <2>1. source'.contents \in {"off", "suspended"} /\ UNCHANGED <<pc, request>>
      BY <1>9 DEF SourceStarts, SourceStops, TypeOK, DiskTypes, Bundle, process
    <2> QED BY <2>1
  <1>10. CASE UserClears \/ Crash \/ UNCHANGED vars
    BY <1>10 DEF UserClears, Crash, vars, disk, process
  <1> QED BY <1>1, <1>2, <1>3, <1>4, <1>5, <1>6, <1>7, <1>8, <1>9, <1>10 DEF Next, BundleStep

\* The two together are inductive.
LEMMA TypesInv == Spec => [](TypeOK /\ ModesFit)
  <1>1. Init => TypeOK /\ ModesFit
    <2>1. ASSUME Init
          PROVE  source \in Bundle /\ source.contents \in {"off", "suspended"}
      BY <2>1 DEF Init, Bundle
    <2> QED BY <2>1, BoundsAssumption
            DEF Init, TypeOK, DiskTypes, ProcessTypes, HistoryTypes, ModesFit, Steps
  <1>2. TypeOK /\ ModesFit /\ [Next]_vars => TypeOK' /\ ModesFit'
    BY DiskTypesKept, StepsKept, RequestsKept, StagedKept, HistoryTypesKept, ModesFitKept
       DEF TypeOK, ProcessTypes, Whole
  <1> QED BY <1>1, <1>2, PTL DEF Spec

\* Everything keeps its type, and what is activated is whole.
THEOREM TypeCorrect == Spec => []TypeOK
  BY TypesInv, PTL

-------------------------------------------------------------------------------
(* The imported bundle *)

\* No step and no rollback changes what the source holds; only an adoption names
\* its network address, where it had none.
THEOREM SourceSurvives == Spec => SourceKept
  <1>1. ASSUME TypeOK, ModesFit, [Next]_vars, events' = events
        PROVE  /\ source'.contents = source.contents
               /\ source' # source => request.mode = "adopt" /\ source.mac = "none"
    <2>1. CASE Adopt
      <3>1. request.mode = "adopt"
        BY <2>1, <1>1 DEF Adopt, Reached, ModesFit
      <3>2. source'.contents = source.contents /\ (source.mac # "none" => source' = source)
        BY <2>1, <1>1 DEF Adopt, Identity, TypeOK, DiskTypes, Bundle
      <3> QED BY <3>1, <3>2
    <2>2. CASE SourceStarts \/ SourceStops
      BY <1>1, <2>2 DEF SourceStarts, SourceStops, TypeOK, HistoryTypes
    <2>3. CASE ~Adopt /\ ~(SourceStarts \/ SourceStops)
      <3>1. UNCHANGED source
        <4>1. ASSUME NEW m \in {"clone", "discard", "adopt", "install"}, NEW n \in Names, Ask(m, n)
              PROVE  UNCHANGED source
          BY <4>1 DEF Ask
        <4>2. ASSUME NEW r \in asked, Refuse(r) \/ TakeLock(r)
              PROVE  UNCHANGED source
          BY <4>2 DEF Refuse, TakeLock, disk
        <4>3. CASE BundleStep
          BY <2>3, <4>3 DEF BundleStep, CopyStarts, CopyEnds, Prepare, InstallStarts, InstallEnds,
                            Activate
        <4>4. CASE CatalogStep
          BY <4>4 DEF CatalogStep, CheckBase, CopyBaseStarts, CopyBaseEnds, Publish, SetBase,
                      SetOrigin, Configure, DropImage, disk
        <4>5. CASE UndoStep
          BY <4>5 DEF UndoStep, DropTemp, DropStaged, DropOrigin, DropBase, DropSnapshot, DropLive
        <4>6. CASE UserClears \/ Crash \/ UNCHANGED vars
          BY <4>6 DEF UserClears, Crash, vars, disk
        <4> QED BY <1>1, <2>3, <4>1, <4>2, <4>3, <4>4, <4>5, <4>6 DEF Next
      <3> QED BY <3>1
    <2> QED BY <2>1, <2>2, <2>3
  <1>2. TypeOK /\ ModesFit /\ [Next]_vars =>
          (events' = events =>
               /\ source'.contents = source.contents
               /\ source' # source => request.mode = "adopt" /\ source.mac = "none")
    BY <1>1
  <1> QED BY <1>2, TypesInv, PTL DEF Spec, SourceKept

-------------------------------------------------------------------------------
(* The base pointer *)

\* The base pointer is set after what it names is there, and goes first.
LEMMA BaseOwnedKept ==
    ASSUME TypeOK, ModesFit, BaseOwned, [Next]_vars
    PROVE  BaseOwned'
  <1> USE DEF Do, Fail, Goto, End
  <1> DEFINE Kept == UNCHANGED <<source, live, base, snapshots, request>>
  <1>t. /\ source \in Bundle /\ source.contents # "partial"
        /\ pc # "idle" => request \in Requests /\ request.name \in Names
        /\ snapshots \in [Names -> Bundle \cup {None}]
        /\ pc \in {"prepare", "activate"} => Whole(staged)
    BY DEF TypeOK, DiskTypes, ProcessTypes, ModesFit, Requests
  <1>s. Whole(source)
    BY <1>t, MarksAssumption DEF Whole
  \* A step that changes at most temp.
  <1>1. ASSUME Kept, pc' = pc, UNCHANGED temp
        PROVE  BaseOwned'
    BY <1>1 DEF BaseOwned, Whole, Destination
  <1>2. ASSUME Kept, pc \in BeforeBase, pc' \in BeforeLive \cup {"dropTemp", "dropStaged"},
               pc' \in BeforeLive => pc \in BeforeLive
        PROVE  BaseOwned'
    BY <1>2 DEF BaseOwned, Whole, Destination, BeforeLive, BeforeBase, Capture
  <1>3. ASSUME NEW m \in {"clone", "discard", "adopt", "install"}, NEW n \in Names, Ask(m, n)
        PROVE  BaseOwned'
    BY <1>1, <1>3 DEF Ask, catalog
  <1>4. ASSUME NEW r \in asked, Refuse(r)
        PROVE  BaseOwned'
    BY <1>1, <1>4 DEF Refuse, disk, catalog
  <1>5. ASSUME NEW r \in asked, TakeLock(r)
        PROVE  BaseOwned'
    <2>1. base' = None /\ live' = None /\ pc' \in {"copy", "adopt", "install"}
      BY <1>5 DEF TakeLock, Uninitialized, catalog, FirstStep
    <2> QED BY <2>1 DEF BaseOwned, Capture
  <1>6. CASE CopyStarts \/ CopyEnds \/ Prepare \/ InstallStarts \/ InstallEnds
    BY <1>2, <1>6 DEF CopyStarts, CopyEnds, Prepare, InstallStarts, InstallEnds, Reached, catalog,
                      BeforeLive, BeforeBase
  <1>7. CASE Adopt
    <2>1. /\ UNCHANGED <<live, base, snapshots, request>> /\ request.mode = "adopt" /\ base = None
          /\ pc' \in {"checkBase", "dropStaged"}
      BY <1>7 DEF Adopt, Reached, catalog, ModesFit, BaseOwned, BeforeBase, BeforeLive
    <2>2. Whole(source')
      <3>1. source' \in Bundle /\ source'.contents = source.contents
        BY <1>7, <1>t DEF Adopt, Identity, Bundle
      <3> QED BY <1>t, <3>1, MarksAssumption DEF Whole
    <2> QED BY <2>1, <2>2 DEF BaseOwned, Destination, Whole, BeforeLive, Capture, BeforeBase
  <1>8. CASE Activate
    <2>1. /\ UNCHANGED <<source, base, snapshots, request>> /\ request.mode # "adopt"
          /\ base = None /\ live = None /\ Whole(staged)
          /\ pc' \in {"checkBase", "dropStaged"}
          /\ pc' = "checkBase" => live' = staged
      BY <1>8, <1>t DEF Activate, Reached, catalog, ModesFit, BaseOwned, BeforeBase, BeforeLive
    <2> QED BY <2>1 DEF BaseOwned, Destination, Whole, BeforeLive, Capture, BeforeBase
  <1>9. CASE CheckBase \/ CopyBaseStarts \/ CopyBaseEnds
    <2>1. /\ Kept /\ base = None /\ Whole(Destination)
          /\ pc' \in {"copyBase", "copiedBase", "publish", "dropTemp", "dropStaged"}
      BY <1>9 DEF CheckBase, CopyBaseStarts, CopyBaseEnds, Reached, disk, catalog, BaseOwned,
                  BeforeBase, Capture
    <2>2. pc' = "publish" => Whole(temp')
      <3>1. CASE CheckBase \/ CopyBaseStarts
        BY <3>1 DEF CheckBase, CopyBaseStarts
      <3>2. CASE CopyBaseEnds
        <4>1. pc' = "publish" => temp' = IF request.mode = "adopt" THEN CloneOf(source) ELSE live
          BY <3>2 DEF CopyBaseEnds
        <4>2. Whole(CloneOf(source))
          BY <1>t, CloneTyped, MarksAssumption DEF Whole
        <4> QED BY <2>1, <4>1, <4>2 DEF Destination, Whole
      <3> QED BY <1>9, <3>1, <3>2
    <2> QED BY <2>1, <2>2 DEF BaseOwned, Destination, Whole, BeforeLive
  <1>10. CASE Publish
    <2>1. /\ UNCHANGED <<source, live, base, request>>
          /\ base = None /\ Whole(Destination) /\ Whole(temp)
          /\ pc' \in {"setBase", "dropTemp"}
          /\ pc' = "setBase" => snapshots' = [snapshots EXCEPT ![request.name] = temp]
          /\ request.name \in Names
      BY <1>10, <1>t DEF Publish, Reached, BaseOwned, BeforeBase, Capture
    <2>2. pc' = "setBase" => snapshots'[request.name] = temp
      BY <1>t, <2>1
    <2> QED BY <2>1, <2>2 DEF BaseOwned, Destination, Whole, BeforeLive, Capture, BeforeBase
  <1>11. CASE SetBase
    <2>1. /\ UNCHANGED <<source, live, snapshots, request>> /\ request # None
          /\ base = None /\ Whole(Destination) /\ Whole(snapshots[request.name])
          /\ pc' \in {"setOrigin", "dropTemp"} /\ base' \in {base, request.name}
      BY <1>11, <1>t DEF SetBase, Reached, BaseOwned, BeforeBase, Capture, TypeOK, ProcessTypes
    <2> QED BY <2>1 DEF BaseOwned, Destination, Whole, BeforeLive, Capture, BeforeBase
  <1>12. CASE SetOrigin \/ Configure \/ DropImage \/ DropTemp \/ DropStaged \/ DropOrigin
    <2>1. Kept
      BY <1>12 DEF SetOrigin, Configure, DropImage, DropTemp, DropStaged, DropOrigin, Reached, catalog
    <2>2. pc' \in {"idle", "configure", "dropImage", "dropTemp", "dropStaged", "dropOrigin", "dropBase"}
      BY <1>12 DEF SetOrigin, Configure, DropImage, DropTemp, DropStaged, DropOrigin, Dropped, Reached
    <2> QED BY <2>1, <2>2 DEF BaseOwned, Destination, Whole, BeforeLive, Capture, BeforeBase
  <1>13. CASE DropBase
    <2>1. UNCHANGED <<source, live, snapshots, request>>
      BY <1>13 DEF DropBase, Reached
    <2>2. \/ base' = None /\ pc' = "dropSnapshot"
          \/ base' = base /\ pc' = "idle"
      BY <1>13 DEF DropBase
    <2> QED BY <2>1, <2>2 DEF BaseOwned, Destination, Whole, BeforeLive, Capture, BeforeBase
  <1>14. CASE DropSnapshot \/ DropLive
    <2>1. base' = None /\ pc' \in {"dropSnapshot", "dropLive", "idle"}
      BY <1>14 DEF DropSnapshot, DropLive, Dropped, Reached, catalog, BaseOwned
    <2> QED BY <2>1 DEF BaseOwned, BeforeLive, Capture, BeforeBase
  <1>15. CASE SourceStarts \/ SourceStops
    <2>1. UNCHANGED <<live, temp, base, snapshots, pc, request>>
      BY <1>15 DEF SourceStarts, SourceStops, catalog, process
    <2>2. Whole(source')
      <3>1. source' \in Bundle /\ source'.contents # "partial"
        BY <1>15, <1>t DEF SourceStarts, SourceStops, Bundle
      <3> QED BY <3>1, MarksAssumption DEF Whole
    <2> QED BY <1>s, <2>1, <2>2 DEF BaseOwned, Destination, Whole
  <1>16. CASE UserClears
    <2>1. base' = None /\ pc' = "idle"
      BY <1>16 DEF UserClears, catalog
    <2> QED BY <2>1 DEF BaseOwned, BeforeLive, Capture, BeforeBase
  <1>17. CASE Crash
    <2>1. Kept /\ pc' = "idle"
      BY <1>17 DEF Crash, catalog
    <2> QED BY <2>1 DEF BaseOwned, Destination, Whole, BeforeLive, Capture, BeforeBase
  <1>18. CASE UNCHANGED vars
    BY <1>1, <1>18 DEF vars, disk, catalog, process
  <1> QED BY <1>3, <1>4, <1>5, <1>6, <1>7, <1>8, <1>9, <1>10, <1>11, <1>12, <1>13, <1>14, <1>15,
             <1>16, <1>17, <1>18 DEF Next, BundleStep, CatalogStep, UndoStep

\* The pointer and what it names, at every step.
LEMMA BaseInv == Spec => []BaseOwned
  <1>1. Init => BaseOwned
    BY DEF Init, BaseOwned, BeforeLive, Capture, BeforeBase
  <1> QED BY <1>1, BaseOwnedKept, TypesInv, PTL DEF Spec

\* Whenever base.json exists it names a whole snapshot, and there is a VM to reset.
THEOREM BaseSurvives == Spec => []BaseIsWhole
  <1>1. BaseOwned => BaseIsWhole
    BY DEF BaseOwned, BaseIsWhole, Destination
  <1> QED BY <1>1, BaseInv, PTL

-------------------------------------------------------------------------------
(* A clean import *)

\* Only the program of the source makes an event, and the contents change with it.
LEMMA EventsMove ==
    ASSUME TypeOK, [Next]_vars
    PROVE  /\ events' \in Nat /\ events' >= events /\ events \in Nat
           /\ events' = events => source'.contents = source.contents
           /\ events' # events => UNCHANGED <<asked, request, pc>>
  <1>e. events \in Nat
    BY BoundsAssumption DEF TypeOK, HistoryTypes
  <1>1. CASE SourceStarts \/ SourceStops
    BY <1>1, <1>e DEF SourceStarts, SourceStops, process
  <1>2. CASE Adopt
    BY <1>2, <1>e DEF Adopt, Reached, TypeOK, DiskTypes, Bundle
  <1>3. ASSUME NEW m \in {"clone", "discard", "adopt", "install"}, NEW n \in Names, Ask(m, n)
        PROVE  UNCHANGED <<events, source>>
    BY <1>3 DEF Ask, bounds
  <1>4. ASSUME NEW r \in asked, Refuse(r) \/ TakeLock(r)
        PROVE  UNCHANGED <<events, source>>
    BY <1>4 DEF Refuse, TakeLock, disk, bounds
  <1>5. CASE CopyStarts \/ CopyEnds \/ Prepare \/ InstallStarts \/ InstallEnds \/ Activate
    <2>1. UNCHANGED <<events, source>>
      BY <1>5 DEF CopyStarts, CopyEnds, Prepare, InstallStarts, InstallEnds, Activate, Reached
    <2> QED BY <1>e, <2>1
  <1>6. CASE CatalogStep
    BY <1>6, <1>e DEF CatalogStep, CheckBase, CopyBaseStarts, CopyBaseEnds, Publish, SetBase,
                      SetOrigin, Configure, DropImage, disk, Reached
  <1>7. CASE UndoStep
    BY <1>7, <1>e DEF UndoStep, DropTemp, DropStaged, DropOrigin, DropBase, DropSnapshot, DropLive,
                      Reached
  <1>8. CASE UserClears \/ Crash \/ UNCHANGED vars
    BY <1>8, <1>e DEF UserClears, Crash, vars, disk, bounds
  <1> QED BY <1>e, <1>1, <1>2, <1>3, <1>4, <1>5, <1>6, <1>7, <1>8 DEF Next, BundleStep

\* Only Ask adds to the inits that wait.
LEMMA AskedMoves ==
    ASSUME TypeOK, [Next]_vars
    PROVE  \/ asked' \subseteq asked
           \/ \E m \in {"clone", "discard", "adopt", "install"}, n \in Names : Ask(m, n)
  <1>1. CASE BundleStep
    BY <1>1 DEF BundleStep, CopyStarts, CopyEnds, Prepare, Adopt, InstallStarts, InstallEnds,
                Activate, Reached
  <1>2. CASE CatalogStep
    BY <1>2 DEF CatalogStep, CheckBase, CopyBaseStarts, CopyBaseEnds, Publish, SetBase, SetOrigin,
                Configure, DropImage, Reached
  <1>3. CASE UndoStep
    BY <1>3 DEF UndoStep, DropTemp, DropStaged, DropOrigin, DropBase, DropSnapshot, DropLive, Reached
  <1>4. ASSUME NEW r \in asked, Refuse(r) \/ TakeLock(r)
        PROVE  asked' \subseteq asked
    BY <1>4 DEF Refuse, TakeLock
  <1>5. CASE SourceStarts \/ SourceStops \/ UserClears \/ Crash \/ UNCHANGED vars
    BY <1>5 DEF SourceStarts, SourceStops, UserClears, Crash, vars, process
  <1> QED BY <1>1, <1>2, <1>3, <1>4, <1>5 DEF Next

\* What an init saw of the source stays true until the next event.
LEMMA AllSeenKept ==
    ASSUME TypeOK, AllSeen, [Next]_vars
    PROVE  AllSeen'
  <1>1. ASSUME NEW r \in Requests, SeenFits(r)
        PROVE  SeenFits(r)'
    <2>1. r.seen \in Nat
      BY BoundsAssumption DEF Requests
    <2> QED BY <1>1, <2>1, EventsMove DEF SeenFits
  <1>2. asked \subseteq Requests /\ request \in Requests \cup {None}
    BY DEF TypeOK, ProcessTypes
  <1>3. ASSUME NEW r \in asked'
        PROVE  SeenFits(r)'
    <2>1. CASE r \in asked
      BY <1>1, <1>2, <2>1 DEF AllSeen
    <2>2. ASSUME NEW m \in {"clone", "discard", "adopt", "install"}, NEW n \in Names, Ask(m, n),
                 r \notin asked
          PROVE  SeenFits(r)'
      <3>1. /\ r = [mode |-> m, name |-> n, seen |-> events]
            /\ UNCHANGED <<source, events>>
            /\ source.contents = "suspended" => m \in {"discard", "install"}
        BY <1>3, <2>2 DEF Ask, bounds
      <3>2. events \in Nat
        BY EventsMove
      <3> QED BY <3>1, <3>2 DEF SeenFits
    <2> QED BY <1>3, <2>1, <2>2, AskedMoves
  <1>4. ASSUME request' # None
        PROVE  SeenFits(request)'
    <2>1. CASE UNCHANGED request
      BY <1>1, <1>2, <1>4, <2>1 DEF AllSeen, SeenFits
    <2>2. ASSUME NEW r \in asked, TakeLock(r)
          PROVE  SeenFits(request)'
      <3>1. request' = r /\ SeenFits(r)'
        BY <1>1, <1>2, <2>2 DEF AllSeen, TakeLock
      <3> QED BY <3>1 DEF SeenFits
    <2> QED BY <2>1, <2>2, RequestsKept
  <1> QED BY <1>3, <1>4 DEF AllSeen

\* As long as no event overtook it, an init copies a source that is off and idle.
LEMMA FreshKept ==
    ASSUME TypeOK, ModesFit, BaseOwned, AllSeen, Fresh, [Next]_vars
    PROVE  Fresh'
  <1> USE DEF Do, Fail, Goto, End
  <1> DEFINE Quiet == request # None /\ events = request.seen /\ ~Running
             Made == <<staged, temp, begun>>
             Kept == UNCHANGED <<source, live, base, snapshots, request>>
  <1>t. /\ source \in Bundle /\ source.contents \in {"off", "suspended"}
        /\ pc # "idle" => request \in Requests /\ request.name \in Names /\ request # None
        /\ snapshots \in [Names -> Bundle \cup {None}]
        /\ staged \in Bundle \cup {None}
        /\ pc \in {"prepare", "activate"} => staged \in Bundle
    BY DEF TypeOK, DiskTypes, ProcessTypes, ModesFit, Requests, Whole
  <1>o. Quiet /\ source.contents = "suspended" => request.mode \in {"discard", "install"}
    BY DEF AllSeen, SeenFits
  <1>1. CASE events' # events
    <2>1. UNCHANGED request /\ events' > events
      BY <1>1, EventsMove
    <2>2. request # None => request.seen \in Nat /\ request.seen <= events
      BY BoundsAssumption DEF AllSeen, SeenFits, TypeOK, ProcessTypes, Requests
    <2> QED BY <2>1, <2>2, EventsMove DEF Fresh
  <1> SUFFICES ASSUME events' = events
               PROVE  Fresh'
    BY <1>1
  <1>q. Running' <=> Running
    BY DEF Running
  <1>2. ASSUME Kept, pc' = pc, UNCHANGED Made
        PROVE  Fresh'
    BY <1>2, <1>q DEF Fresh, Cold, Destination
  <1>3. ASSUME Kept,
               pc' \in {"idle", "copy", "install", "installed", "setOrigin", "configure", "dropImage",
                        "dropTemp", "dropStaged", "dropOrigin", "dropBase", "dropSnapshot", "dropLive"}
        PROVE  Fresh'
    BY <1>3, <1>q DEF Fresh, Cold, Destination, Capture
  <1>4. ASSUME NEW m \in {"clone", "discard", "adopt", "install"}, NEW n \in Names, Ask(m, n)
        PROVE  Fresh'
    BY <1>2, <1>4 DEF Ask, catalog, history
  <1>5. ASSUME NEW r \in asked, Refuse(r)
        PROVE  Fresh'
    BY <1>2, <1>5 DEF Refuse, disk, catalog, history
  <1>6. ASSUME NEW r \in asked, TakeLock(r)
        PROVE  Fresh'
    <2>1. base' = None /\ pc' \in {"copy", "adopt", "install"}
      BY <1>6 DEF TakeLock, Uninitialized, catalog, FirstStep
    <2> QED BY <2>1 DEF Fresh, Capture
  <1>7. CASE CopyStarts
    <2>1. Kept /\ base = None
      BY <1>7 DEF CopyStarts, Reached, catalog, BaseOwned, BeforeBase, BeforeLive
    <2>2. \/ pc' = "copied" /\ begun' = events
          \/ pc' = "dropStaged"
      BY <1>7 DEF CopyStarts
    <2> QED BY <2>1, <2>2 DEF Fresh, Capture
  <1>8. CASE CopyEnds
    <2>1. Kept /\ base = None /\ pc = "copied"
      BY <1>8 DEF CopyEnds, Reached, catalog, BaseOwned, BeforeBase, BeforeLive
    <2>2. \/ pc' = "prepare" /\ staged' = CloneOf(source)
          \/ pc' = "dropStaged"
      BY <1>8 DEF CopyEnds
    <2>3. Quiet => CloneOf(source).contents = source.contents
      BY <1>t, <2>1 DEF Fresh, CloneOf, Bundle
    <2> QED BY <1>q, <2>1, <2>2, <2>3 DEF Fresh, Capture
  <1>9. CASE Prepare
    <2>1. Kept /\ base = None /\ pc = "prepare" /\ request.mode \in {"clone", "discard"}
      BY <1>9 DEF Prepare, Reached, catalog, BaseOwned, BeforeBase, BeforeLive, ModesFit
    <2>2. \/ /\ pc' = "activate"
             /\ staged' = [contents |-> IF request.mode = "discard" /\ staged.contents = "suspended"
                                        THEN "off" ELSE staged.contents,
                           mac |-> "new"]
          \/ pc' = "dropStaged"
      BY <1>9 DEF Prepare, Identity
    <2>3. Quiet => staged.contents = source.contents
      BY <2>1 DEF Fresh
    <2> QED BY <1>q, <1>t, <1>o, <2>1, <2>2, <2>3 DEF Fresh, Capture
  <1>10. CASE Adopt
    <2>1. /\ UNCHANGED <<live, base, snapshots, request>> /\ base = None
          /\ request.mode = "adopt" /\ request # None
          /\ pc' \in {"checkBase", "dropStaged"}
      BY <1>10, <1>t DEF Adopt, Reached, catalog, BaseOwned, BeforeBase, BeforeLive, ModesFit
    <2>2. source'.contents = source.contents
      BY EventsMove
    <2>3. Quiet => source.contents = "off"
      BY <1>t, <1>o, <2>1
    <2> QED BY <1>q, <2>1, <2>2, <2>3 DEF Fresh, Cold, Destination, Capture
  <1>11. CASE InstallStarts
    BY <1>3, <1>11 DEF InstallStarts, Reached, catalog
  <1>12. CASE InstallEnds
    <2>1. Kept /\ base = None
      BY <1>12 DEF InstallEnds, Reached, catalog, BaseOwned, BeforeBase, BeforeLive
    <2>2. \/ pc' = "activate" /\ staged' = [contents |-> "off", mac |-> "new"]
          \/ pc' = "dropStaged"
      BY <1>12 DEF InstallEnds
    <2> QED BY <2>1, <2>2 DEF Fresh, Capture
  <1>13. CASE Activate
    <2>1. /\ UNCHANGED <<source, base, snapshots, request>> /\ base = None /\ live = None
          /\ pc = "activate" /\ request.mode # "adopt"
      BY <1>13 DEF Activate, Reached, catalog, BaseOwned, BeforeBase, BeforeLive, ModesFit
    <2>2. \/ pc' = "checkBase" /\ live' = staged
          \/ pc' = "dropStaged"
      BY <1>13 DEF Activate
    <2>3. Quiet => staged.contents = "off" /\ staged.mac = "new"
      BY <2>1 DEF Fresh
    <2> QED BY <1>q, <2>1, <2>2, <2>3 DEF Fresh, Cold, Destination, Capture
  <1>14. CASE CheckBase \/ CopyBaseStarts
    <2>1. Kept /\ base = None /\ pc \in Capture
      BY <1>14 DEF CheckBase, CopyBaseStarts, Reached, disk, catalog, BaseOwned, BeforeBase, Capture
    <2>2. \/ pc' \in {"copyBase", "dropTemp", "dropStaged"}
          \/ pc' = "copiedBase" /\ begun' = events
      BY <1>14 DEF CheckBase, CopyBaseStarts
    <2>3. Quiet => Cold
      BY <2>1 DEF Fresh
    <2> QED BY <1>q, <2>1, <2>2, <2>3 DEF Fresh, Cold, Destination, Capture
  <1>15. CASE CopyBaseEnds
    <2>1. Kept /\ base = None /\ pc = "copiedBase"
      BY <1>15 DEF CopyBaseEnds, Reached, catalog, BaseOwned, BeforeBase, Capture
    <2>2. \/ /\ pc' = "publish"
             /\ temp' = IF request.mode = "adopt" THEN CloneOf(source) ELSE live
          \/ pc' = "dropTemp"
      BY <1>15 DEF CopyBaseEnds
    <2>3. Quiet => Cold /\ CloneOf(source).contents = source.contents
      BY <1>t, <2>1 DEF Fresh, CloneOf, Bundle, Capture
    <2> QED BY <1>q, <2>1, <2>2, <2>3 DEF Fresh, Cold, Destination, Capture
  <1>16. CASE Publish
    <2>1. /\ UNCHANGED <<source, live, base, request>> /\ base = None /\ pc = "publish"
          /\ request.name \in Names
      BY <1>16, <1>t DEF Publish, Reached, BaseOwned, BeforeBase, Capture
    <2>2. \/ pc' = "setBase" /\ snapshots'[request.name] = temp
          \/ pc' = "dropTemp"
      BY <1>16, <1>t, <2>1 DEF Publish
    <2>3. Quiet => Cold /\ temp.contents = "off"
      BY <2>1 DEF Fresh, Capture
    <2> QED BY <1>q, <2>1, <2>2, <2>3 DEF Fresh, Cold, Destination, Capture
  <1>17. CASE SetBase
    <2>1. /\ UNCHANGED <<source, live, snapshots, request>> /\ pc = "setBase"
          /\ pc' \in {"setOrigin", "dropTemp"}
      BY <1>17 DEF SetBase, Reached
    <2>2. Quiet => Cold /\ snapshots[request.name].contents = "off"
      BY <2>1 DEF Fresh
    <2> QED BY <1>q, <2>1, <2>2 DEF Fresh, Cold, Destination, Capture
  <1>18. CASE SetOrigin \/ Configure \/ DropImage \/ DropTemp \/ DropStaged \/ DropOrigin
    BY <1>3, <1>18 DEF SetOrigin, Configure, DropImage, DropTemp, DropStaged, DropOrigin, Dropped,
                       Reached, catalog
  <1>19. CASE DropBase
    <2>1. /\ UNCHANGED <<source, live, snapshots, request>> /\ base' \in {base, None}
          /\ pc' \in {"dropSnapshot", "idle"}
      BY <1>19 DEF DropBase, Reached
    <2> QED BY <1>q, <2>1 DEF Fresh, Cold, Destination, Capture
  <1>20. CASE DropSnapshot \/ DropLive
    <2>1. base' = None /\ pc' \in {"dropSnapshot", "dropLive", "idle"}
      BY <1>20 DEF DropSnapshot, DropLive, Dropped, Reached, catalog, BaseOwned
    <2> QED BY <2>1 DEF Fresh, Capture
  <1>21. CASE SourceStarts \/ SourceStops
    BY <1>21, EventsMove DEF SourceStarts, SourceStops
  <1>22. CASE UserClears
    <2>1. base' = None /\ pc' = "idle"
      BY <1>22 DEF UserClears, catalog
    <2> QED BY <2>1 DEF Fresh, Capture
  <1>23. CASE Crash
    BY <1>3, <1>23 DEF Crash, catalog
  <1>24. CASE UNCHANGED vars
    BY <1>2, <1>24 DEF vars, disk, catalog, process, history
  <1> QED BY <1>4, <1>5, <1>6, <1>7, <1>8, <1>9, <1>10, <1>11, <1>12, <1>13, <1>14, <1>15, <1>16,
             <1>17, <1>18, <1>19, <1>20, <1>21, <1>22, <1>23, <1>24
          DEF Next, BundleStep, CatalogStep, UndoStep

\* If the source's program left it alone since the import looked at it, the VM and
\* its first snapshot start cold, and a clone has an address of its own.
THEOREM ImportStartsCold == Spec => []ImportIsClean
  <1>1. Init => AllSeen /\ Fresh
    BY DEF Init, AllSeen, Fresh
  <1>2. BaseOwned /\ Fresh => ImportIsClean
    BY DEF BaseOwned, Fresh, Cold, ImportIsClean
  <1> QED BY <1>1, <1>2, AllSeenKept, FreshKept, BaseInv, TypesInv, PTL DEF Spec

-------------------------------------------------------------------------------
(* The report of success *)

Named == IF request.mode = "adopt" THEN "source" ELSE "managed"

\* What each step after the base pointer has reached, however often an operation
\* failed: a failed one leads to the handlers and never back.
Progress ==
    /\ pc # "idle" => outcome = "none"
    /\ pc \in {"setOrigin", "configure", "dropImage"} \/ outcome = "complete" => base # None
    /\ pc \in {"configure", "dropImage"} \/ outcome = "complete" => origin = request.name
    /\ pc = "dropImage" \/ outcome = "complete" => configured = Named

\* config.json speaks of a VM that has its base, but for a write of it that failed.
ConfigLast ==
    configured # None => slipped = "yes" \/ (base # None /\ pc \in {"dropImage", "idle"})

\* The first snapshot is the managed bundle as it was placed.
FirstIsCopy ==
    request # None /\ request.mode # "adopt" =>
        /\ pc = "publish" => temp = live
        /\ pc = "setBase" \/ base # None => snapshots[request.name] = live

\* "Initialized ...", the exit status 0 of init: after whatever failures and kills
\* of other inits, base.json and live.json name the first snapshot, config.json the
\* bundle, both are whole, and the snapshot of an installed or cloned VM is that
\* VM: the state in which Catalog and LoadTransaction begin.
SuccessIsWhole ==
    outcome = "complete" =>
        /\ base = request.name /\ origin = base /\ configured = Named
        /\ Whole(snapshots[base]) /\ Whole(Destination)
        /\ request.mode # "adopt" => snapshots[base] = live

LEMMA ProgressKept ==
    ASSUME TypeOK, BaseOwned, Progress, [Next]_vars
    PROVE  Progress'
  <1> USE DEF Do, Fail, Goto, End, config
  <1> DEFINE Pointers == <<request, base, origin, configured>>
  <1>1. ASSUME UNCHANGED <<Pointers, pc, outcome>>
        PROVE  Progress'
    BY <1>1 DEF Progress, Named
  \* A step of an init that has no pointer yet, or takes none away.
  <1>2. ASSUME pc # "idle", outcome' = outcome, pc' \in BeforeBase \cup Handlers
        PROVE  Progress'
    BY <1>2 DEF Progress, BeforeBase, BeforeLive, Capture, Handlers
  \* The end of an init that failed or was killed.
  <1>3. ASSUME pc' = "idle", outcome' # "complete"
        PROVE  Progress'
    BY <1>3 DEF Progress
  <1>4. ASSUME NEW m \in {"clone", "discard", "adopt", "install"}, NEW n \in Names, Ask(m, n)
        PROVE  Progress'
    BY <1>1, <1>4 DEF Ask, catalog
  <1>5. ASSUME NEW r \in asked, Refuse(r)
        PROVE  Progress'
    BY <1>1, <1>5 DEF Refuse, disk, catalog
  <1>6. ASSUME NEW r \in asked, TakeLock(r)
        PROVE  Progress'
    BY <1>6 DEF TakeLock, FirstStep, Progress
  <1>7. CASE BundleStep
    <2>1. pc # "idle" /\ outcome' = outcome /\ pc' \in BeforeBase \cup Handlers
      BY <1>7 DEF BundleStep, CopyStarts, CopyEnds, Prepare, Adopt, InstallStarts, InstallEnds,
                  Activate, Reached, BeforeBase, BeforeLive, Capture, Handlers
    <2> QED BY <1>2, <2>1
  <1>8. CASE CheckBase \/ CopyBaseStarts \/ CopyBaseEnds \/ Publish
    <2>1. pc # "idle" /\ outcome' = outcome /\ pc' \in BeforeBase \cup Handlers
      BY <1>8 DEF CheckBase, CopyBaseStarts, CopyBaseEnds, Publish, Reached, BeforeBase,
                  BeforeLive, Capture, Handlers
    <2> QED BY <1>2, <2>1
  <1>9. CASE SetBase
    <2>1. CASE pc' = "dropTemp"
      BY <1>2, <1>9, <2>1 DEF SetBase, Reached, Handlers
    <2>2. CASE pc' # "dropTemp"
      <3>1. pc = "setBase" /\ pc' = "setOrigin" /\ base' = request.name /\ outcome' = outcome
        BY <1>9, <2>2 DEF SetBase, Reached
      <3>2. base' # None /\ outcome' = "none"
        BY <3>1, MarksAssumption DEF Progress, TypeOK, ProcessTypes, Requests
      <3> QED BY <3>1, <3>2 DEF Progress
    <2> QED BY <2>1, <2>2
  <1>10. CASE SetOrigin
    <2>1. CASE pc' = "dropTemp"
      BY <1>2, <1>10, <2>1 DEF SetOrigin, Reached, Handlers
    <2>2. CASE pc' # "dropTemp"
      BY <1>10, <2>2 DEF SetOrigin, Reached, Progress
    <2> QED BY <2>1, <2>2
  <1>11. CASE Configure
    <2>1. CASE pc' = "dropStaged"
      BY <1>2, <1>11, <2>1 DEF Configure, Reached, Handlers
    <2>2. CASE pc' # "dropStaged"
      BY <1>11, <2>2 DEF Configure, Reached, Progress, Named, catalog
    <2> QED BY <2>1, <2>2
  <1>12. CASE DropImage
    <2>1. /\ UNCHANGED <<request, base, origin, configured>> /\ pc = "dropImage" /\ pc' = "idle"
          /\ outcome' \in {"complete", "failed"}
      BY <1>12 DEF DropImage, Reached, catalog
    <2> QED BY <2>1 DEF Progress, Named
  <1>13. CASE UndoStep
    <2>1. /\ pc # "idle"
          /\ \/ outcome' = outcome /\ pc' \in Handlers
             \/ pc' = "idle" /\ outcome' = "failed"
      BY <1>13 DEF UndoStep, DropTemp, DropStaged, DropOrigin, DropBase, DropSnapshot, DropLive,
                   Dropped, Reached, Handlers
    <2> QED BY <1>2, <1>3, <2>1
  <1>14. CASE SourceStarts \/ SourceStops \/ UserClears
    BY <1>1, <1>14 DEF SourceStarts, SourceStops, UserClears, process, catalog
  <1>15. CASE Crash
    BY <1>3, <1>15 DEF Crash
  <1>16. CASE UNCHANGED vars
    BY <1>1, <1>16 DEF vars, disk, process, catalog
  <1> QED BY <1>4, <1>5, <1>6, <1>7, <1>8, <1>9, <1>10, <1>11, <1>12, <1>13, <1>14, <1>15, <1>16
          DEF Next, CatalogStep

LEMMA ConfigLastKept ==
    ASSUME TypeOK, Progress, ConfigLast, [Next]_vars
    PROVE  ConfigLast'
  <1> USE DEF Do, Fail, Goto, End, ConfigLast, config
  <1> DEFINE Rests == {"dropImage", "idle"}
  <1>1. ASSUME UNCHANGED config, pc \in Rests => base' = base /\ pc' \in Rests
        PROVE  ConfigLast'
    BY <1>1
  <1>2. ASSUME NEW m \in {"clone", "discard", "adopt", "install"}, NEW n \in Names, Ask(m, n)
        PROVE  ConfigLast'
    BY <1>1, <1>2 DEF Ask, catalog
  <1>3. ASSUME NEW r \in asked, Refuse(r)
        PROVE  ConfigLast'
    BY <1>1, <1>3 DEF Refuse, disk, catalog
  <1>4. ASSUME NEW r \in asked, TakeLock(r)
        PROVE  ConfigLast'
    BY <1>4 DEF TakeLock, Uninitialized
  <1>5. CASE BundleStep
    BY <1>1, <1>5 DEF BundleStep, CopyStarts, CopyEnds, Prepare, Adopt, InstallStarts, InstallEnds,
                      Activate, Reached
  <1>6. CASE CheckBase \/ CopyBaseStarts \/ CopyBaseEnds \/ Publish \/ SetBase \/ SetOrigin
    BY <1>1, <1>6 DEF CheckBase, CopyBaseStarts, CopyBaseEnds, Publish, SetBase, SetOrigin, Reached,
                      disk
  <1>7. CASE Configure
    <2>1. base # None /\ UNCHANGED base /\ pc = "configure"
      BY <1>7 DEF Configure, Reached, Progress, catalog
    <2>2. \/ pc' \in Rests
          \/ slipped' = IF configured' = configured THEN slipped ELSE "yes"
      BY <1>7 DEF Configure
    <2> QED BY <2>1, <2>2
  <1>8. CASE DropImage
    BY <1>1, <1>8 DEF DropImage, Reached, catalog
  <1>9. CASE UndoStep
    BY <1>1, <1>9 DEF UndoStep, DropTemp, DropStaged, DropOrigin, DropBase, DropSnapshot, DropLive,
                      Reached
  <1>10. CASE SourceStarts \/ SourceStops \/ UserClears \/ Crash \/ UNCHANGED vars
    BY <1>1, <1>10 DEF SourceStarts, SourceStops, UserClears, Crash, vars, disk, catalog
  <1> QED BY <1>2, <1>3, <1>4, <1>5, <1>6, <1>7, <1>8, <1>9, <1>10 DEF Next, CatalogStep

LEMMA FirstIsCopyKept ==
    ASSUME TypeOK, BaseOwned, FirstIsCopy, [Next]_vars
    PROVE  FirstIsCopy'
  <1> USE DEF Do, Fail, Goto, End
  <1> DEFINE Copies == <<request, live, snapshots>>
  <1>1. ASSUME UNCHANGED <<Copies, base, pc, temp>>
        PROVE  FirstIsCopy'
    BY <1>1 DEF FirstIsCopy
  \* A step that neither copies nor sets the base pointer.
  <1>2. ASSUME UNCHANGED <<Copies, base>>, pc' \notin {"publish", "setBase"}
        PROVE  FirstIsCopy'
    BY <1>2 DEF FirstIsCopy
  \* A step that leaves no base pointer.
  <1>3. ASSUME base' = None, pc' \notin {"publish", "setBase"}
        PROVE  FirstIsCopy'
    BY <1>3 DEF FirstIsCopy
  <1>4. ASSUME NEW m \in {"clone", "discard", "adopt", "install"}, NEW n \in Names, Ask(m, n)
        PROVE  FirstIsCopy'
    BY <1>1, <1>4 DEF Ask, catalog
  <1>5. ASSUME NEW r \in asked, Refuse(r)
        PROVE  FirstIsCopy'
    BY <1>1, <1>5 DEF Refuse, disk, catalog
  <1>6. ASSUME NEW r \in asked, TakeLock(r)
        PROVE  FirstIsCopy'
    BY <1>3, <1>6 DEF TakeLock, FirstStep, Uninitialized, catalog
  <1>7. CASE BundleStep
    <2>1. /\ UNCHANGED base /\ pc \in BeforeLive
          /\ pc' \notin {"publish", "setBase"}
      BY <1>7 DEF BundleStep, CopyStarts, CopyEnds, Prepare, Adopt, InstallStarts, InstallEnds,
                  Activate, Reached, BeforeLive, catalog
    <2> QED BY <1>3, <2>1 DEF BaseOwned, BeforeBase
  <1>8. CASE CheckBase \/ CopyBaseStarts
    BY <1>2, <1>8 DEF CheckBase, CopyBaseStarts, Reached, disk, catalog
  <1>9. CASE CopyBaseEnds
    <2>1. UNCHANGED <<Copies, base>> /\ base = None
      BY <1>9 DEF CopyBaseEnds, Reached, catalog, BaseOwned, BeforeBase, Capture
    <2>2. pc' = "publish" => temp' = (IF request.mode = "adopt" THEN CloneOf(source) ELSE live)
      BY <1>9 DEF CopyBaseEnds
    <2> QED BY <1>9, <2>1, <2>2 DEF FirstIsCopy, CopyBaseEnds
  <1>10. CASE Publish
    <2>1. UNCHANGED <<live, base, request>> /\ pc = "publish" /\ base = None
      BY <1>10 DEF Publish, Reached, BaseOwned, BeforeBase, Capture
    <2>2. request.name \in Names /\ snapshots \in [Names -> Bundle \cup {None}]
      BY <2>1 DEF TypeOK, ProcessTypes, DiskTypes, Requests
    <2>3. \/ pc' = "setBase" /\ snapshots'[request.name] = temp
          \/ pc' = "dropTemp"
      BY <1>10, <2>2 DEF Publish
    <2> QED BY <2>1, <2>3 DEF FirstIsCopy
  <1>11. CASE SetBase
    <2>1. UNCHANGED Copies /\ pc = "setBase" /\ pc' \in {"setOrigin", "dropTemp"}
      BY <1>11 DEF SetBase, Reached
    <2> QED BY <2>1 DEF FirstIsCopy
  <1>12. CASE SetOrigin \/ Configure \/ DropImage
    BY <1>2, <1>12 DEF SetOrigin, Configure, DropImage, Reached, catalog
  <1>13. CASE DropTemp \/ DropStaged \/ DropOrigin
    BY <1>2, <1>13 DEF DropTemp, DropStaged, DropOrigin, Dropped, Reached, catalog
  <1>14. CASE DropBase
    <2>1. pc' \notin {"publish", "setBase"}
      BY <1>14 DEF DropBase, Reached
    <2>2. base' = None \/ UNCHANGED <<Copies, base>>
      BY <1>14 DEF DropBase, Reached
    <2> QED BY <1>2, <1>3, <2>1, <2>2
  <1>15. CASE DropSnapshot \/ DropLive
    <2>1. base' = None
      BY <1>15 DEF DropSnapshot, DropLive, Reached, catalog, BaseOwned
    <2>2. pc' \notin {"publish", "setBase"}
      BY <1>15 DEF DropSnapshot, DropLive, Dropped, Reached
    <2> QED BY <1>3, <2>1, <2>2
  <1>16. CASE SourceStarts \/ SourceStops
    BY <1>1, <1>16 DEF SourceStarts, SourceStops, process, catalog
  <1>17. CASE UserClears \/ Crash
    BY <1>2, <1>3, <1>17 DEF UserClears, Crash, process, catalog
  <1>18. CASE UNCHANGED vars
    BY <1>1, <1>18 DEF vars, disk, process, catalog
  <1> QED BY <1>4, <1>5, <1>6, <1>7, <1>8, <1>9, <1>10, <1>11, <1>12, <1>13, <1>14, <1>15, <1>16,
             <1>17, <1>18
          DEF Next, CatalogStep, UndoStep

\* What a successful init has reached is known in every reachable state.
LEMMA ReportInv == Spec => [](Progress /\ ConfigLast /\ FirstIsCopy)
  <1>1. Init => Progress /\ ConfigLast /\ FirstIsCopy
    BY DEF Init, Progress, ConfigLast, FirstIsCopy
  <1> QED BY <1>1, ProgressKept, ConfigLastKept, FirstIsCopyKept, BaseInv, TypesInv, PTL DEF Spec

\* When an init reports success, its pointers, the configuration, the VM and the
\* first snapshot are all in place and agree.
THEOREM SuccessTellsTruth == Spec => []SuccessIsWhole
  <1>1. TypeOK /\ BaseOwned /\ Progress /\ FirstIsCopy => SuccessIsWhole
    BY DEF BaseOwned, Progress, FirstIsCopy, SuccessIsWhole
  <1> QED BY <1>1, ReportInv, BaseInv, TypesInv, PTL

-------------------------------------------------------------------------------
(* What a failed init leaves *)

\* Kills and failures only add up.
LEMMA CountersGrow ==
    ASSUME TypeOK, [Next]_vars
    PROVE  /\ crashes \in Nat /\ crashes' \in Nat /\ crashes' >= crashes
           /\ faults \in Nat /\ faults' \in Nat /\ faults' >= faults
           /\ Crash => crashes' > crashes
  <1>t. crashes \in Nat /\ faults \in Nat
    BY BoundsAssumption DEF TypeOK, HistoryTypes
  <1>1. ASSUME UNCHANGED crashes, UNCHANGED faults \/ Fault
        PROVE  crashes' >= crashes /\ faults' >= faults /\ crashes' \in Nat /\ faults' \in Nat
    BY <1>t, <1>1 DEF Fault
  <1>2. ASSUME NEW m \in {"clone", "discard", "adopt", "install"}, NEW n \in Names, Ask(m, n)
        PROVE  UNCHANGED <<crashes, faults>>
    BY <1>2 DEF Ask, bounds
  <1>3. ASSUME NEW r \in asked, Refuse(r) \/ TakeLock(r)
        PROVE  UNCHANGED <<crashes, faults>>
    BY <1>3 DEF Refuse, TakeLock, bounds
  <1>4. ASSUME BundleStep
        PROVE  UNCHANGED crashes /\ (UNCHANGED faults \/ Fault)
    BY <1>4 DEF BundleStep, CopyStarts, CopyEnds, Prepare, Adopt, InstallStarts, InstallEnds,
                Activate, Reached, Do, Fail
  <1>5. ASSUME CatalogStep
        PROVE  UNCHANGED crashes /\ (UNCHANGED faults \/ Fault)
    BY <1>5 DEF CatalogStep, CheckBase, CopyBaseStarts, CopyBaseEnds, Publish, SetBase, SetOrigin,
                Configure, DropImage, Reached, Do, Fail
  <1>6. ASSUME UndoStep
        PROVE  UNCHANGED crashes /\ (UNCHANGED faults \/ Fault)
    <2>1. UNCHANGED crashes
      BY <1>6 DEF UndoStep, DropTemp, DropStaged, DropOrigin, DropBase, DropSnapshot, DropLive,
                  Reached
    <2>2. UNCHANGED faults \/ Fault
      BY <1>6 DEF UndoStep, DropTemp, DropStaged, DropOrigin, DropBase, DropSnapshot, DropLive,
                  Dropped, Do, Fail
    <2> QED BY <2>1, <2>2
  <1>7. ASSUME SourceStarts \/ SourceStops \/ UserClears \/ UNCHANGED vars
        PROVE  UNCHANGED <<crashes, faults>>
    BY <1>7 DEF SourceStarts, SourceStops, UserClears, vars, bounds
  <1>8. ASSUME Crash
        PROVE  crashes' = crashes + 1 /\ UNCHANGED faults
    BY <1>8 DEF Crash
  <1>9. \/ UNCHANGED crashes /\ (UNCHANGED faults \/ Fault)
        \/ crashes' = crashes + 1 /\ UNCHANGED faults
    BY <1>2, <1>3, <1>4, <1>5, <1>6, <1>7, <1>8 DEF Next
  <1> QED BY <1>t, <1>1, <1>8, <1>9

\* Deleting a tree: with at most one failure in all it fails only where there is
\* nothing to delete yet.
LEMMA DroppedTidily ==
    ASSUME NEW tree, NEW rest, NEW step, NEW next, NEW failing,
           Dropped(tree, rest, step, next, failing)
    PROVE  \/ rest = None /\ Do(next)
           \/ tree # None /\ rest = Partial /\ Do(step)
           \/ tree # None /\ rest = tree /\ failing
  BY DEF Dropped

\* The trees an init made are known at each of its steps.
LEMMA TidyKept ==
    ASSUME TypeOK, ModesFit, BaseOwned, Progress, FirstIsCopy, Tidy, [Next]_vars
    PROVE  Tidy'
  <1> SUFFICES ASSUME crashes' = 0, faults' < 2
               PROVE  TidyTrees' /\ TidyPointers' /\ TidyCause'
    BY DEF Tidy
  <1> DEFINE Tidied == TidyTrees' /\ TidyPointers' /\ TidyCause'
  <1>m. crashes = 0 /\ faults \in {0, 1} /\ faults' \in {0, 1} /\ (Fault => faults = 0 /\ faults' = 1)
    BY CountersGrow DEF Fault
  <1>i. TidyTrees /\ TidyPointers /\ TidyCause
    BY <1>m DEF Tidy
  <1>t. /\ pc # "idle" => request \in Requests /\ request.name \in Names /\ request # None
        /\ snapshots \in [Names -> Bundle \cup {None}]
        /\ Partial # None
    <2>1. Partial \in Bundle
      BY DEF Partial, Bundle
    <2> QED BY <2>1, MarksAssumption DEF TypeOK, DiskTypes, ProcessTypes, Requests
  <1> USE DEF Do, Fail, Goto, End
  \* A step between two inits.
  <1>1. ASSUME UNCHANGED <<live, staged, temp, snapshots, base, origin, configured, pc, request,
                           outcome, published, faults>>,
               image = "cut" => image' = "cut"
        PROVE  Tidied
    BY <1>i, <1>1 DEF TidyTrees, TidyPointers, TidyCause, Untouched, NoSnapshots, InPlace, Whole,
                      CutShort
  <1>2. ASSUME NEW m \in {"clone", "discard", "adopt", "install"}, NEW n \in Names, Ask(m, n)
        PROVE  Tidied
    BY <1>1, <1>2, MarksAssumption DEF Ask, Download, catalog, config, history, bounds
  <1>3. ASSUME NEW r \in asked, Refuse(r)
        PROVE  Tidied
    BY <1>1, <1>3 DEF Refuse, disk, catalog, config, history, bounds
  <1>4. CASE SourceStarts \/ SourceStops
    BY <1>1, <1>4 DEF SourceStarts, SourceStops, catalog, config, process, history
  <1>5. CASE UserClears
    <2>1. /\ UNCHANGED <<staged, temp, snapshots, base, origin, pc, request, outcome, published, faults,
                         image>>
          /\ live' = None /\ pc = "idle"
      BY <1>5 DEF UserClears, catalog, process, history, bounds
    <2>2. base = None
      BY <1>5 DEF UserClears
    <2> QED BY <1>i, <2>1, <2>2
            DEF TidyTrees, TidyPointers, TidyCause, Untouched, NoSnapshots, InPlace, CutShort
  <1>6. CASE UNCHANGED vars
    BY <1>1, <1>6 DEF vars, disk, catalog, config, process, history, bounds
  <1>7. CASE Crash
    BY <1>7, <1>m, CountersGrow
  <1>8. ASSUME NEW r \in asked, TakeLock(r)
        PROVE  Tidied
    <2>1. Untouched
      BY <1>8, <1>i, MarksAssumption
         DEF TakeLock, Uninitialized, TidyPointers, TidyTrees, InPlace, BeforeBase
    <2>2. /\ UNCHANGED <<live, base, origin, snapshots>>
          /\ staged' = None /\ temp' = None /\ published' = "no" /\ outcome' = "none"
          /\ pc' \in {"copy", "adopt", "install"}
      BY <1>8 DEF TakeLock, catalog, FirstStep
    <2> QED BY <2>1, <2>2 DEF TidyTrees, TidyPointers, TidyCause, Untouched, NoSnapshots, Handlers,
                              BeforeLive, Capture, BeforeBase
  \* A step up to the managed bundle.
  <1>9. ASSUME pc \in BeforeLive, UNCHANGED <<snapshots, base, origin, request, outcome, published, image>>,
               temp' = temp, live' = None \/ request.mode # "adopt",
               pc' \in BeforeLive \cup {"checkBase", "dropStaged"},
               pc' = "dropStaged" => /\ faults' = 1 \/ (CutShort /\ live' = None /\ staged' = None),
               pc' \notin {"copied", "prepare", "installed", "activate", "dropStaged"} => staged' = None
        PROVE  Tidied
    <2>1. /\ Untouched /\ temp = None /\ published = "no" /\ outcome = "none"
          /\ request # None
      BY <1>9, <1>i, <1>t DEF TidyTrees, TidyPointers, BaseOwned, BeforeBase, BeforeLive, Untouched,
                              NoSnapshots
    <2>2. TidyTrees'
      BY <1>9, <2>1 DEF TidyTrees, Untouched, NoSnapshots, BeforeLive, Capture
    <2>3. TidyPointers'
      BY <1>9, <2>1 DEF TidyPointers, Untouched, NoSnapshots, BeforeLive
    <2>4. TidyCause'
      BY <1>9, <2>1 DEF TidyCause, Untouched, NoSnapshots, CutShort, BeforeLive, Handlers
    <2> QED BY <2>2, <2>3, <2>4
  <1>10. CASE CopyStarts \/ CopyEnds \/ Prepare \/ Adopt
    <2>1. /\ pc \in BeforeLive /\ UNCHANGED <<snapshots, base, origin, request, outcome, published, image>>
          /\ UNCHANGED <<temp, live>>
      BY <1>10 DEF CopyStarts, CopyEnds, Prepare, Adopt, Reached, catalog, history, BeforeLive
    <2>2. live = None
      BY <2>1 DEF BaseOwned
    <2>3. /\ pc' \in BeforeLive \cup {"checkBase", "dropStaged"}
          /\ pc' = "dropStaged" => Fault
      BY <1>10 DEF CopyStarts, CopyEnds, Prepare, Adopt, BeforeLive
    <2>4. pc' \notin {"copied", "prepare", "installed", "activate", "dropStaged"} => staged' = None
      BY <1>10, <1>i DEF CopyStarts, CopyEnds, Prepare, Adopt, TidyTrees, Reached
    <2> QED BY <1>9, <1>m, <2>1, <2>2, <2>3, <2>4
  <1>11. CASE InstallStarts \/ InstallEnds
    <2>1. /\ pc \in BeforeLive /\ UNCHANGED <<snapshots, base, origin, request, outcome, published, image>>
          /\ UNCHANGED <<temp, live>> /\ request.mode = "install"
      BY <1>11 DEF InstallStarts, InstallEnds, Reached, catalog, history, BeforeLive, ModesFit
    <2>2. live = None
      BY <2>1 DEF BaseOwned
    <2>3. /\ pc' \in {"installed", "activate", "dropStaged"}
          /\ pc' = "dropStaged" => Fault \/ (image = "cut" /\ staged' = None)
      BY <1>11 DEF InstallStarts, InstallEnds
    <2> QED BY <1>9, <1>m, <2>1, <2>2, <2>3 DEF CutShort, BeforeLive
  <1>12. CASE Activate
    <2>1. /\ pc \in BeforeLive /\ UNCHANGED <<snapshots, base, origin, request, outcome, published, image>>
          /\ UNCHANGED temp /\ request.mode # "adopt"
      BY <1>12 DEF Activate, Reached, catalog, history, BeforeLive, ModesFit
    <2>2. live = None
      BY <2>1 DEF BaseOwned
    <2>3. \/ pc' = "checkBase" /\ staged' = None
          \/ pc' = "dropStaged" /\ Fault
      BY <1>12, <2>2 DEF Activate
    <2> QED BY <1>9, <1>m, <2>1, <2>3 DEF BeforeLive
  \* The first snapshot is captured, and put in place.
  <1>13. ASSUME pc \in Capture,
                UNCHANGED <<live, staged, snapshots, base, origin, request, outcome, published, image>>,
                pc' \in Capture \cup {"dropTemp"}, pc' = "dropTemp" => faults' = 1,
                pc' \notin {"copiedBase", "publish", "dropTemp"} => temp' = None
         PROVE  Tidied
    <2>1. /\ NoSnapshots /\ base = None /\ origin = None /\ staged = None
          /\ published = "no" /\ outcome = "none" /\ (request.mode = "adopt" => live = None)
          /\ request # None
      BY <1>13, <1>i, <1>t DEF TidyTrees, TidyPointers, BaseOwned, BeforeBase, Capture
    <2>2. TidyTrees'
      BY <1>13, <2>1 DEF TidyTrees, NoSnapshots, Capture, BeforeLive
    <2>3. TidyPointers'
      BY <1>13, <2>1 DEF TidyPointers, Capture
    <2>4. TidyCause'
      BY <1>13, <2>1 DEF TidyCause, Capture, Handlers
    <2> QED BY <2>2, <2>3, <2>4
  <1>14. CASE CheckBase
    <2>1. /\ pc = "checkBase" /\ UNCHANGED <<disk, history, request>>
          /\ Whole(Destination) /\ NoSnapshots /\ temp = None
      BY <1>14, <1>i DEF CheckBase, Reached, BaseOwned, TidyTrees, Capture
    <2>2. snapshots[request.name] = None
      BY <1>t, <2>1 DEF NoSnapshots
    <2>3. pc' = "copyBase" /\ UNCHANGED outcome
      BY <1>14, <2>1, <2>2 DEF CheckBase
    <2> QED BY <1>13, <2>1, <2>3 DEF Capture, disk, catalog, history
  <1>15. CASE CopyBaseStarts \/ CopyBaseEnds
    <2>1. /\ pc \in Capture
          /\ UNCHANGED <<live, staged, snapshots, base, origin, request, outcome, published, image>>
      BY <1>15 DEF CopyBaseStarts, CopyBaseEnds, Reached, Capture, catalog
    <2>2. /\ pc' \in {"copiedBase", "publish", "dropTemp"}
          /\ pc' = "dropTemp" => Fault
      BY <1>15 DEF CopyBaseStarts, CopyBaseEnds
    <2> QED BY <1>13, <1>m, <2>1, <2>2 DEF Capture
  <1>16. CASE Publish
    <2>1. /\ pc = "publish" /\ UNCHANGED <<live, staged, base, origin, request, outcome, image>>
          /\ request.name \in Names /\ request # None
      BY <1>16, <1>t DEF Publish, Reached
    <2>2. CASE pc' = "dropTemp"
      <3>1. UNCHANGED <<snapshots, temp, published>> /\ Fault
        BY <1>16, <2>2 DEF Publish
      <3> QED BY <1>13, <1>m, <2>1, <2>2, <3>1 DEF Capture
    <2>3. CASE pc' # "dropTemp"
      <3>1. /\ snapshots' = [snapshots EXCEPT ![request.name] = temp]
            /\ temp' = None /\ published' = "yes" /\ pc' = "setBase"
        BY <1>16, <2>3 DEF Publish
      <3>2. /\ NoSnapshots /\ base = None /\ origin = None /\ staged = None
            /\ outcome = "none" /\ (request.mode = "adopt" => live = None)
        BY <2>1, <1>i DEF TidyTrees, TidyPointers, BaseOwned, BeforeBase, Capture
      <3>3. \A n \in Names \ {request.name} : snapshots'[n] = None
        BY <1>t, <3>1, <3>2 DEF NoSnapshots
      <3>4. TidyTrees'
        BY <2>1, <3>1, <3>2, <3>3 DEF TidyTrees, BeforeLive, Capture
      <3>5. TidyPointers' /\ TidyCause'
        BY <2>1, <3>1, <3>2 DEF TidyPointers, TidyCause, Handlers
      <3> QED BY <3>4, <3>5
    <2> QED BY <2>2, <2>3
  \* The pointers and config.json are written.
  <1>17. ASSUME pc \in {"setBase", "setOrigin", "configure", "dropImage"},
                UNCHANGED <<live, staged, temp, snapshots, request, published>>,
                \/ pc' \in {"dropTemp", "dropStaged"} /\ UNCHANGED outcome /\ faults' = 1
                \/ pc = "setBase" /\ pc' = "setOrigin" /\ UNCHANGED <<outcome, origin>> /\ base' # None
                \/ pc' \in {"configure", "dropImage"} /\ UNCHANGED outcome /\ base' # None
                \/ pc' = "idle" /\ outcome' = "complete" /\ base' # None
         PROVE  Tidied
    <2>1. /\ temp = None /\ staged = None /\ request # None /\ outcome = "none"
          /\ (request.mode = "adopt" => live = None)
          /\ \A n \in Names \ {request.name} : snapshots[n] = None
          /\ published = "no" => NoSnapshots
          /\ pc = "setBase" => origin = None
      BY <1>17, <1>i, <1>t DEF TidyTrees, TidyPointers, BeforeBase
    <2>2. pc' = "setOrigin" => origin' = None
      BY <1>17, <2>1
    <2>3. TidyTrees'
      BY <1>17, <2>1 DEF TidyTrees, NoSnapshots, BeforeLive, Capture
    <2>4. TidyPointers'
      BY <1>17, <2>1, <2>2 DEF TidyPointers, BeforeBase, BeforeLive, Capture
    <2>5. TidyCause'
      BY <1>17, <2>1 DEF TidyCause, Handlers
    <2> QED BY <2>3, <2>4, <2>5
  <1>18. CASE SetBase
    <2>1. pc = "setBase" /\ UNCHANGED <<live, staged, temp, snapshots, request, published, origin, outcome>>
      BY <1>18 DEF SetBase, Reached, history
    <2>2. \/ pc' = "setOrigin" /\ base' = request.name
          \/ pc' = "dropTemp" /\ Fault
      BY <1>18 DEF SetBase
    <2> QED BY <1>17, <1>m, <1>t, <2>1, <2>2, MarksAssumption
  <1>19. CASE SetOrigin
    <2>1. /\ pc = "setOrigin" /\ UNCHANGED <<live, staged, temp, snapshots, request, published, base, outcome>>
          /\ base # None
      BY <1>19, <1>i DEF SetOrigin, Reached, history, TidyPointers
    <2>2. \/ pc' = "configure"
          \/ pc' = "dropTemp" /\ Fault
      BY <1>19 DEF SetOrigin
    <2> QED BY <1>17, <1>m, <2>1, <2>2
  <1>20. CASE Configure
    <2>1. /\ pc = "configure" /\ UNCHANGED <<live, staged, temp, snapshots, request, published, base>>
          /\ base # None
      BY <1>20, <1>i DEF Configure, Reached, history, catalog, TidyPointers
    <2>2. \/ pc' = "dropImage" /\ UNCHANGED outcome
          \/ pc' = "idle" /\ outcome' = "complete"
          \/ pc' = "dropStaged" /\ UNCHANGED outcome /\ Fault
      BY <1>20 DEF Configure
    <2> QED BY <1>17, <1>m, <2>1, <2>2
  <1>21. CASE DropImage
    <2>1. /\ pc = "dropImage" /\ UNCHANGED <<live, staged, temp, snapshots, request, published, base>>
          /\ base # None /\ pc' = "idle"
      BY <1>21, <1>i DEF DropImage, Reached, history, catalog, TidyPointers
    <2>2. CASE outcome' = "complete"
      BY <1>17, <2>1, <2>2
    <2>3. CASE outcome' # "complete"
      <3>1. faults' = 1 /\ outcome' = "failed" /\ UNCHANGED <<origin, configured>>
        BY <1>21, <1>m, <2>3 DEF DropImage, catalog, config
      <3>2. /\ base = request.name /\ origin = base /\ configured = "managed"
            /\ request # None /\ request.mode = "install"
            /\ Whole(live) /\ snapshots[base] = live
        BY <2>1, <1>t DEF ModesFit, BaseOwned, Destination, Progress, Named, FirstIsCopy
      <3>3. InPlace'
        BY <2>1, <3>1, <3>2 DEF InPlace, Whole
      <3>4. /\ temp = None /\ staged = None
            /\ \A n \in Names \ {request.name} : snapshots[n] = None
            /\ published = "no" => NoSnapshots
        BY <1>i, <2>1, <3>2 DEF TidyTrees
      <3>5. TidyTrees'
        BY <2>1, <3>4 DEF TidyTrees, NoSnapshots, BeforeLive, Capture
      <3>6. TidyPointers' /\ TidyCause'
        BY <2>1, <3>1, <3>3 DEF TidyPointers, TidyCause, BeforeBase, BeforeLive, Capture, Handlers
      <3> QED BY <3>5, <3>6
    <2> QED BY <2>2, <2>3
  \* The handlers: what they cannot delete was never made.
  <1>22. CASE DropTemp
    <2>1. /\ pc = "dropTemp" /\ UNCHANGED <<live, staged, snapshots, base, origin, request, published, image>>
          /\ request # None
      BY <1>22, <1>t DEF DropTemp, Reached, history, catalog
    <2>2. UNCHANGED outcome /\ (temp = None => temp' = None)
      BY <1>22 DEF DropTemp, Dropped
    <2>3. \/ temp' = None /\ pc' = "dropStaged" /\ UNCHANGED faults
          \/ temp # None /\ pc' = "dropTemp" /\ UNCHANGED faults
          \/ temp # None /\ Fault
      BY <1>22 DEF DropTemp, Dropped
    <2>4. faults = 0 => CutShort /\ Untouched /\ staged = None /\ temp = None
      BY <1>i, <2>1 DEF TidyCause, Handlers
    <2>5. \/ temp' = None /\ pc' = "dropStaged" /\ UNCHANGED faults
          \/ temp # None /\ pc' = "dropTemp" /\ UNCHANGED faults
      BY <1>m, <2>3, <2>4
    <2>6. TidyTrees'
      BY <1>i, <2>1, <2>5 DEF TidyTrees, NoSnapshots, BeforeLive, Capture
    <2>7. TidyPointers'
      BY <1>i, <2>1, <2>2, <2>5 DEF TidyPointers, BeforeBase, BeforeLive, Capture
    <2>8. TidyCause'
      BY <1>i, <2>1, <2>2, <2>4, <2>5 DEF TidyCause, Untouched, NoSnapshots, CutShort, TidyPointers
    <2> QED BY <2>6, <2>7, <2>8
  <1>23. CASE DropStaged
    <2>1. /\ pc = "dropStaged" /\ UNCHANGED <<live, temp, snapshots, base, origin, request, published, image>>
          /\ request # None
      BY <1>23, <1>t DEF DropStaged, Reached, history, catalog
    <2>2. staged = None => staged' = None
      BY <1>23 DEF DropStaged, Dropped
    <2>3. \/ staged' = None /\ pc' = "dropOrigin" /\ UNCHANGED <<faults, outcome>>
          \/ staged # None /\ pc' = "dropStaged" /\ UNCHANGED <<faults, outcome>>
          \/ staged # None /\ Fault
      BY <1>23 DEF DropStaged, Dropped
    <2>4. faults = 0 => CutShort /\ Untouched /\ staged = None /\ temp = None
      BY <1>i, <2>1 DEF TidyCause, Handlers
    <2>5. \/ staged' = None /\ pc' = "dropOrigin" /\ UNCHANGED <<faults, outcome>>
          \/ staged # None /\ pc' = "dropStaged" /\ UNCHANGED <<faults, outcome>>
      BY <1>m, <2>3, <2>4
    <2>6. TidyTrees'
      BY <1>i, <2>1, <2>5 DEF TidyTrees, NoSnapshots, BeforeLive, Capture
    <2>7. TidyPointers'
      BY <1>i, <2>1, <2>5 DEF TidyPointers, BeforeBase, BeforeLive, Capture
    <2>8. TidyCause'
      BY <1>i, <2>1, <2>2, <2>4, <2>5 DEF TidyCause, Untouched, NoSnapshots, CutShort, TidyPointers
    <2> QED BY <2>6, <2>7, <2>8
  <1>24. CASE DropOrigin \/ DropBase
    <2>1. /\ pc \in {"dropOrigin", "dropBase"} /\ UNCHANGED <<live, staged, temp, snapshots, request, published, image>>
          /\ request # None /\ origin' \in {origin, None} /\ base' \in {base, None}
      BY <1>24, <1>t DEF DropOrigin, DropBase, Reached, history
    <2>2. faults = 0 => CutShort /\ Untouched
      BY <1>i, <2>1 DEF TidyCause, Handlers
    <2>3. \/ pc' = "dropBase" /\ origin' = None /\ UNCHANGED <<faults, outcome>>
          \/ pc' = "dropSnapshot" /\ origin' = origin /\ pc = "dropBase" /\ UNCHANGED <<faults, outcome>>
          \/ pc' = "idle" /\ outcome' = "failed" /\ Fault
      BY <1>24 DEF DropOrigin, DropBase, Reached
    <2>4. staged = None /\ temp = None /\ outcome = "none" /\ (pc = "dropBase" => origin = None)
      BY <1>i, <2>1 DEF TidyTrees, TidyPointers
    <2>5. TidyTrees'
      BY <1>i, <2>1, <2>3, <2>4 DEF TidyTrees, NoSnapshots, BeforeLive, Capture
    <2>6. TidyPointers'
      BY <1>i, <1>m, <2>1, <2>2, <2>3, <2>4 DEF TidyPointers, Untouched, NoSnapshots, BeforeBase, BeforeLive, Capture
    <2>7. TidyCause'
      BY <1>m, <2>1, <2>2, <2>3, <2>4 DEF TidyCause, Untouched, NoSnapshots, CutShort, Handlers
    <2> QED BY <2>5, <2>6, <2>7
  <1>25. CASE DropSnapshot
    <2>1. /\ pc = "dropSnapshot" /\ UNCHANGED <<live, staged, temp, base, origin, request, published, image>>
          /\ request.name \in Names /\ request # None
      BY <1>25, <1>t DEF DropSnapshot, Reached, history
    <2>2. PICK rest \in {snapshots[request.name], Partial, None} :
             /\ snapshots' = [snapshots EXCEPT ![request.name] = rest]
             /\ Dropped(snapshots[request.name], rest, "dropSnapshot", "dropLive", Fault /\ End("failed"))
      BY <1>25 DEF DropSnapshot
    <2>3. \/ rest = None /\ pc' = "dropLive" /\ UNCHANGED <<faults, outcome>>
          \/ snapshots[request.name] # None /\ pc' = "dropSnapshot" /\ UNCHANGED <<faults, outcome>>
          \/ snapshots[request.name] # None /\ Fault
      BY <2>2 DEF Dropped
    <2>4. faults = 0 => CutShort /\ Untouched
      BY <1>i, <2>1 DEF TidyCause, Handlers
    <2>5. \/ rest = None /\ pc' = "dropLive" /\ UNCHANGED <<faults, outcome>>
          \/ snapshots[request.name] # None /\ pc' = "dropSnapshot" /\ UNCHANGED <<faults, outcome>>
      BY <1>m, <2>1, <2>3, <2>4 DEF Untouched, NoSnapshots
    <2>6. /\ snapshots' = [snapshots EXCEPT ![request.name] = rest]
          /\ snapshots[request.name] = None => rest = None
      BY <2>2 DEF Dropped
    <2>7. \A n \in Names \ {request.name} : snapshots'[n] = None
      BY <1>i, <1>t, <2>1, <2>6 DEF TidyTrees
    <2>8. rest = None => NoSnapshots'
      BY <1>t, <2>1, <2>6, <2>7 DEF NoSnapshots
    <2>9. staged = None /\ temp = None /\ outcome = "none"
      BY <1>i, <2>1 DEF TidyTrees, TidyPointers
    <2>10. NoSnapshots => NoSnapshots'
      BY <2>1, <2>6, <2>8 DEF NoSnapshots
    <2>11. TidyTrees'
      <3>1. published' = "no" => NoSnapshots'
        BY <1>i, <2>1, <2>10 DEF TidyTrees
      <3>2. pc' = "dropLive" => NoSnapshots'
        BY <2>5, <2>8
      <3>3. pc' \in {"dropSnapshot", "dropLive"}
        BY <2>5
      <3> QED BY <2>1, <2>7, <2>9, <3>1, <3>2, <3>3 DEF TidyTrees, BeforeLive, Capture
    <2>12. TidyPointers'
      BY <1>i, <2>1, <2>5, <2>9 DEF TidyPointers, BeforeBase, BeforeLive, Capture
    <2>13. TidyCause'
      BY <2>1, <2>4, <2>5, <2>9, <2>10 DEF TidyCause, Untouched, CutShort
    <2> QED BY <2>11, <2>12, <2>13
  <1>26. CASE DropLive
    <2>1. /\ pc = "dropLive" /\ UNCHANGED <<staged, temp, snapshots, base, origin, request, published, image>>
          /\ request # None
      BY <1>26, <1>t DEF DropLive, Reached, history, catalog
    <2>2. /\ staged = None /\ temp = None /\ NoSnapshots /\ origin = None /\ base = None
          /\ outcome = "none" /\ (request.mode = "adopt" => live = None)
          /\ \A n \in Names \ {request.name} : snapshots[n] = None
      BY <1>i, <2>1 DEF TidyTrees, TidyPointers, BaseOwned
    <2>3. \/ live' = None /\ pc' = "idle" /\ outcome' = "failed" /\ UNCHANGED faults
          \/ live # None /\ pc' = "dropLive" /\ UNCHANGED <<faults, outcome>>
          \/ live # None /\ Fault
      BY <1>26 DEF DropLive
    <2>4. faults = 0 => CutShort /\ live = None
      BY <1>i, <2>1 DEF TidyCause, Handlers, Untouched
    <2>5. \/ live' = None /\ pc' = "idle" /\ outcome' = "failed" /\ UNCHANGED faults
          \/ live # None /\ pc' = "dropLive" /\ UNCHANGED <<faults, outcome>>
      BY <1>m, <2>3, <2>4
    <2>6. TidyTrees'
      BY <2>1, <2>2, <2>5 DEF TidyTrees, NoSnapshots, BeforeLive, Capture
    <2>7. TidyPointers'
      BY <2>1, <2>2, <2>5 DEF TidyPointers, Untouched, NoSnapshots, BeforeBase, BeforeLive, Capture
    <2>8. TidyCause'
      BY <2>1, <2>2, <2>4, <2>5 DEF TidyCause, CutShort, Handlers
    <2> QED BY <2>6, <2>7, <2>8
  <1> QED BY <1>2, <1>3, <1>4, <1>5, <1>6, <1>7, <1>8, <1>10, <1>11, <1>12, <1>14, <1>15, <1>16,
             <1>18, <1>19, <1>20, <1>21, <1>22, <1>23, <1>24, <1>25, <1>26
          DEF Next, BundleStep, CatalogStep, UndoStep

\* What the init in progress has made is known in every reachable state.
LEMMA TidyInv == Spec => [](TypeOK /\ ModesFit /\ BaseOwned /\ Tidy)
  <1>1. Init => Tidy
    BY DEF Init, Tidy, TidyTrees, TidyPointers, TidyCause, Untouched, NoSnapshots, Handlers,
           BeforeLive, Capture, BeforeBase
  <1> QED BY <1>1, TidyKept, ReportInv, BaseInv, TypesInv, PTL DEF Spec

\* An init that fails by one failing operation leaves nothing behind, or, when the
\* restore image was all it could not remove, everything: the configuration, the
\* pointers, the first snapshot and the VM.
THEOREM FailureIsUndone == Spec => []AllOrNothing
  <1>1. TypeOK /\ ConfigLast /\ Tidy => AllOrNothing
    <2> SUFFICES ASSUME TypeOK, ConfigLast, Tidy,
                        pc = "idle", outcome = "failed", crashes = 0, faults < 2, ~InPlace
                 PROVE  Undone
      BY DEF AllOrNothing
    <2>1. staged = None /\ temp = None /\ Untouched
      BY DEF Tidy, TidyTrees, TidyPointers
    <2> QED BY <2>1 DEF Untouched, NoSnapshots, ConfigLast, Uninitialized, Undone
  <1> QED BY <1>1, TidyInv, ReportInv, PTL

\* Without kills and failing operations only a cut restore image makes one fail.
THEOREM FailureHasACause == Spec => []FailsForACause
  <1>1. Tidy => FailsForACause
    BY DEF Tidy, TidyCause, CutShort, FailsForACause
  <1> QED BY <1>1, TidyInv, PTL

\* A rollback deletes only what its own init made, as long as no init was killed
\* and at most one operation failed: two inits at once never harm each other.
THEOREM OthersSurvive == Spec => OthersKept
  <1>1. TypeOK /\ Tidy =>
           \A n \in Names :
              snapshots[n] # None /\ snapshots'[n] # snapshots[n]
                  => published = "yes" \/ crashes > 0 \/ faults > 1
    <2> SUFFICES ASSUME TypeOK, Tidy, NEW n \in Names, snapshots[n] # None, published = "no",
                        ~(crashes > 0), ~(faults > 1)
                 PROVE  FALSE
      BY DEF TypeOK, HistoryTypes
    <2>1. crashes = 0 /\ faults < 2
      BY BoundsAssumption DEF TypeOK, HistoryTypes
    <2> QED BY <2>1 DEF Tidy, TidyTrees, NoSnapshots
  <1> QED BY <1>1, TidyInv, PTL DEF OthersKept
===============================================================================
