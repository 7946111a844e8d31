--------------------------- MODULE SharedDataProofs ---------------------------
(***************************************************************************)
(* The safety properties of commands under a migration and a purge, for    *)
(* every number of processes, purges and kills.                            *)
(***************************************************************************)
EXTENDS SharedData, TLAPS

-------------------------------------------------------------------------------
(* The inductive invariants *)

\* The lock file a command opened is the one that is there, as long as nothing
\* was purged under a command.
OpenFileCurrent ==
    \A p \in Procs :
        /\ job[p] # None /\ job[p].root = "old" => file[p] = 0
        /\ "purged" \notin mishaps /\ pc[p] \notin {"idle", "open", "purge"}
           /\ job[p].root = "new" => file[p] = purges

Locked == OpenFileCurrent /\ OneCommandPerRoot

\* The application that commands which start now have for a root.
AppOf(root) == IF root = "new" THEN "new" ELSE IF config = None THEN "old" ELSE config

\* Whoever uses a root knows the application of its guest, which is recorded.
OneApplication ==
    /\ \A p \in Procs : job[p] # None => job[p].app = AppOf(job[p].root)
    /\ \A g \in guests : g.app = AppOf(g.root) /\ record[g.root] = g.app

OneHand ==
    \A r \in Places :
        /\ \A g, h \in guests : g.root = r /\ h.root = r => g = h
        /\ \A p \in Procs : pc[p] = "activate" /\ job[p].root = r
              => ~\E g \in guests : g.root = r

Shared == mishaps = {} => OneApplication /\ OneHand

\* After its check an apply has the old data for itself, or the mishap is noted.
OldIsQuiet ==
    \A p \in Procs :
        pc[p] = "write" /\ "adopted" \notin mishaps =>
            /\ ~OthersUseOld(p)
            /\ base["old"] = manifest /\ journal["old"] = "none"

-------------------------------------------------------------------------------
(* Type correctness *)

\* A step of one process leaves the others where they are.
LEMMA OthersStay ==
    ASSUME TypeOK, NEW p \in Procs, ProcStep(p)
    PROVE  \A q \in Procs \ {p} : pc'[q] = pc[q] /\ job'[q] = job[q] /\ file'[q] = file[q]
  <1> USE DEF TypeOK, Types, ProcessTypes, Ends, process
  <1>1. ASSUME NEW program \in Places, NEW command \in Commands, Begin(p, program, command)
        PROVE  \A q \in Procs \ {p} : pc'[q] = pc[q] /\ job'[q] = job[q] /\ file'[q] = file[q]
    BY <1>1 DEF Begin, Starts
  <1>2. CASE Open(p) \/ Lock(p) \/ Kill(p) \/ Reconcile(p) \/ Displace(p) \/ Activate(p)
    BY <1>2 DEF Open, Lock, Kill, Reconcile, Displace, Activate, Runs
  <1>3. CASE Start(p) \/ Promote(p) \/ Check(p) \/ Write(p) \/ BeginPurge(p) \/ Purge(p)
    BY <1>3 DEF Start, Promote, Check, Write, BeginPurge, Purge, Starts
  <1> QED BY <1>1, <1>2, <1>3 DEF ProcStep

\* A command is found in the configuration.
LEMMA JobTyped ==
    ASSUME TypeOK, NEW program \in Places, NEW command \in Commands
    PROVE  [command |-> command, root |-> Root(program), app |-> App(program)] \in Jobs
  <1>1. Root(program) \in Places /\ App(program) \in Places
    BY DEF Root, App, Places, TypeOK, Types, DiskTypes
  <1> QED BY <1>1 DEF Jobs, Commands

\* The types of the files are kept.
LEMMA DiskTypesKept ==
    ASSUME TypeOK, [Next]_vars
    PROVE  DiskTypes'
  <1> USE DEF TypeOK, Types, DiskTypes, disk
  <1>1. ASSUME NEW p \in Procs, NEW program \in Places, NEW command \in Commands,
               Begin(p, program, command)
        PROVE  DiskTypes'
    BY <1>1 DEF Begin, Starts
  <1>2. ASSUME NEW p \in Procs, Open(p) \/ Lock(p) \/ Kill(p) \/ Check(p) \/ BeginPurge(p)
        PROVE  DiskTypes'
    BY <1>2 DEF Open, Lock, Kill, Check, BeginPurge, Starts
  <1>3. ASSUME NEW p \in Procs, Reconcile(p) \/ Displace(p) \/ Activate(p)
        PROVE  DiskTypes'
    BY <1>3 DEF Reconcile, Displace, Activate, Runs
  <1>4. ASSUME NEW p \in Procs, Start(p) \/ Write(p)
        PROVE  DiskTypes'
    <2>1. job[p] \in Jobs
      BY <1>4, MarksAssumption DEF Start, Runs, Write, StepsFit, ProcessTypes
    <2>2. job[p].app \in Places
      BY <2>1 DEF Jobs
    <2>3. config' \in Places \cup {None} /\ record' \in [Places -> Places \cup {None}]
      BY <1>4, <2>2 DEF Start, Write, Runs
    <2> QED BY <1>4, <2>3 DEF Start, Write, Runs
  <1>5. ASSUME NEW p \in Procs, Promote(p) \/ Purge(p)
        PROVE  DiskTypes'
    BY <1>5 DEF Promote, Purge, Runs
  <1>6. CASE Plan
    BY <1>6 DEF Plan, Places
  <1>7. ASSUME NEW g \in guests, GuestEnds(g)
        PROVE  DiskTypes'
    BY <1>7 DEF GuestEnds
  <1>8. CASE UNCHANGED vars
    BY <1>8 DEF vars
  <1> QED BY <1>1, <1>2, <1>3, <1>4, <1>5, <1>6, <1>7, <1>8 DEF Next, ProcStep

\* The types of the processes are kept.
LEMMA ProcessTypesKept ==
    ASSUME TypeOK, [Next]_vars
    PROVE  ProcessTypes'
  <1> USE DEF TypeOK, Types, ProcessTypes, Steps
  <1>e. ASSUME NEW p \in Procs, Ends(p)
        PROVE  ProcessTypes'
    BY <1>e, BoundsAssumption DEF Ends
  <1>g. ASSUME NEW p \in Procs, UNCHANGED <<job, file>>, NEW step \in Steps,
               pc' = [pc EXCEPT ![p] = step]
        PROVE  ProcessTypes'
    BY <1>g
  <1>s. ASSUME NEW p \in Procs, NEW j \in Jobs, NEW step \in Steps, Starts(p, j, step)
        PROVE  ProcessTypes'
    BY <1>s, BoundsAssumption DEF Starts
  <1>1. ASSUME NEW p \in Procs, NEW program \in Places, NEW command \in Commands,
               Begin(p, program, command)
        PROVE  ProcessTypes'
    BY <1>1, <1>s, JobTyped DEF Begin
  <1>2. ASSUME NEW p \in Procs, Open(p)
        PROVE  ProcessTypes'
    BY <1>2, BoundsAssumption DEF Open, HistoryTypes
  <1>3. ASSUME NEW p \in Procs, Lock(p)
        PROVE  ProcessTypes'
    BY <1>3, <1>e, <1>g DEF Lock, AfterLock
  <1>4. ASSUME NEW p \in Procs, Reconcile(p) \/ Displace(p) \/ Check(p)
        PROVE  ProcessTypes'
    BY <1>4, <1>e, <1>g DEF Reconcile, Displace, Check
  <1>5. ASSUME NEW p \in Procs,
               Kill(p) \/ Activate(p) \/ Start(p) \/ Promote(p) \/ Write(p) \/ Purge(p)
        PROVE  ProcessTypes'
    BY <1>5, <1>e DEF Kill, Activate, Start, Promote, Write, Purge
  <1>6. ASSUME NEW p \in Procs, BeginPurge(p)
        PROVE  ProcessTypes'
    <2>1. [command |-> "purge", root |-> "new", app |-> "new"] \in Jobs
      BY DEF Jobs, Places
    <2> QED BY <1>6, <1>s, <2>1 DEF BeginPurge
  <1>7. ASSUME Plan \/ (\E g \in guests : GuestEnds(g)) \/ UNCHANGED vars
        PROVE  ProcessTypes'
    BY <1>7 DEF Plan, GuestEnds, process, vars
  <1> QED BY <1>1, <1>2, <1>3, <1>4, <1>5, <1>6, <1>7 DEF Next, ProcStep

\* The types of the VMs, the history and the bounds are kept.
LEMMA HistoryTypesKept ==
    ASSUME TypeOK, [Next]_vars
    PROVE  HistoryTypes'
  <1> USE DEF TypeOK, Types, HistoryTypes, Mishaps
  <1>1. ASSUME NEW p \in Procs, NEW program \in Places, NEW command \in Commands,
               Begin(p, program, command)
        PROVE  HistoryTypes'
    BY <1>1 DEF Begin, Starts
  <1>2. ASSUME NEW p \in Procs,
               Open(p) \/ Lock(p) \/ Reconcile(p) \/ Displace(p) \/ Activate(p) \/ BeginPurge(p)
        PROVE  HistoryTypes'
    BY <1>2 DEF Open, Lock, Reconcile, Displace, Activate, Runs, BeginPurge, Starts
  <1>3. ASSUME NEW p \in Procs, Promote(p) \/ Check(p) \/ Write(p)
        PROVE  HistoryTypes'
    BY <1>3 DEF Promote, Check, Write, Runs
  <1>4. ASSUME NEW p \in Procs, Start(p)
        PROVE  HistoryTypes'
    <2>1. job[p] \in Jobs
      BY <1>4, MarksAssumption DEF Start, Runs, StepsFit, ProcessTypes
    <2>2. [root |-> job[p].root, app |-> job[p].app] \in Guests
      BY <2>1 DEF Jobs, Guests
    <2>3. guests' \subseteq Guests
      BY <1>4, <2>2 DEF Start
    <2> QED BY <1>4, <2>3 DEF Start, Runs
  <1>5. ASSUME NEW p \in Procs, Purge(p) \/ Kill(p)
        PROVE  HistoryTypes'
    <2>1. purges' \in 0..MaxPurges /\ crashes' \in 0..MaxCrashes
      BY <1>5, BoundsAssumption DEF Purge, Kill
    <2> QED BY <1>5, <2>1 DEF Purge, Kill
  <1>6. ASSUME Plan \/ (\E g \in guests : GuestEnds(g)) \/ UNCHANGED vars
        PROVE  HistoryTypes'
    BY <1>6 DEF Plan, GuestEnds, vars
  <1> QED BY <1>1, <1>2, <1>3, <1>4, <1>5, <1>6 DEF Next, ProcStep

\* Every process stays at a step its command has.
LEMMA StepsFitKept ==
    ASSUME TypeOK, [Next]_vars
    PROVE  \A q \in Procs : StepsFit(q)'
  <1> USE MarksAssumption DEF TypeOK, Types, ProcessTypes, StepsFit
  <1>1. ASSUME NEW p \in Procs, ProcStep(p), StepsFit(p)'
        PROVE  \A q \in Procs : StepsFit(q)'
    BY <1>1, OthersStay
  <1>2. ASSUME NEW p \in Procs, NEW program \in Places, NEW command \in Commands,
               Begin(p, program, command)
        PROVE  StepsFit(p)'
    BY <1>2, JobTyped DEF Begin, Starts, Commands
  <1>3. ASSUME NEW p \in Procs, Open(p) \/ Lock(p) \/ Kill(p)
        PROVE  StepsFit(p)'
    BY <1>3 DEF Open, Lock, Kill, Ends, AfterLock, Jobs
  <1>4. ASSUME NEW p \in Procs, Reconcile(p) \/ Displace(p) \/ Activate(p)
        PROVE  StepsFit(p)'
    BY <1>4 DEF Reconcile, Displace, Activate, Runs, Ends
  <1>5. ASSUME NEW p \in Procs, Start(p) \/ Promote(p) \/ Check(p) \/ Write(p) \/ Purge(p)
        PROVE  StepsFit(p)'
    BY <1>5 DEF Start, Promote, Check, Write, Purge, Runs, Ends
  <1>6. ASSUME NEW p \in Procs, BeginPurge(p)
        PROVE  StepsFit(p)'
    <2>1. [command |-> "purge", root |-> "new", app |-> "new"] \in Jobs
      BY DEF Jobs, Places
    <2> QED BY <1>6, <2>1 DEF BeginPurge, Starts
  <1>7. ASSUME Plan \/ \E g \in guests : GuestEnds(g)
        PROVE  \A q \in Procs : StepsFit(q)'
    BY <1>7 DEF Plan, GuestEnds, process
  <1>8. CASE UNCHANGED vars
    BY <1>8 DEF vars, process
  <1> QED BY <1>1, <1>2, <1>3, <1>4, <1>5, <1>6, <1>7, <1>8 DEF Next, ProcStep

\* Everything keeps its type, and every process is at a step its command has.
THEOREM TypeCorrect == Spec => []TypeOK
  <1>1. Init => TypeOK
    BY MarksAssumption, BoundsAssumption
       DEF Init, TypeOK, Types, DiskTypes, ProcessTypes, HistoryTypes, StepsFit, Places, Bases, Steps
  <1>2. TypeOK /\ [Next]_vars => TypeOK'
    BY DiskTypesKept, ProcessTypesKept, HistoryTypesKept, StepsFitKept DEF TypeOK, Types
  <1> QED BY <1>1, <1>2, PTL DEF Spec

-------------------------------------------------------------------------------
(* The lock *)

\* A purge finds no command of its root, or the mishap is noted.
LEMMA OpenFileKept ==
    ASSUME TypeOK, OpenFileCurrent, [Next]_vars
    PROVE  OpenFileCurrent'
  <1> USE DEF OpenFileCurrent
  <1>t. /\ pc \in [Procs -> Steps] /\ job \in [Procs -> Jobs \cup {None}]
        /\ file \in [Procs -> 0..MaxPurges]
    BY DEF TypeOK, Types, ProcessTypes
  <1>1. ASSUME NEW p \in Procs, ProcStep(p), UNCHANGED purges, mishaps \subseteq mishaps',
               pc'[p] \in {"idle", "open", "purge"}, file'[p] = 0
        PROVE  OpenFileCurrent'
    BY <1>1, OthersStay
  <1>2. ASSUME NEW p \in Procs, ProcStep(p), UNCHANGED purges, mishaps \subseteq mishaps',
               UNCHANGED <<job, file>>, pc[p] \notin {"idle", "open", "purge"}
        PROVE  OpenFileCurrent'
    BY <1>2, OthersStay
  <1>3. ASSUME NEW p \in Procs, NEW program \in Places, NEW command \in Commands,
               Begin(p, program, command)
        PROVE  OpenFileCurrent'
    <2>1. pc'[p] = "open" /\ file'[p] = 0 /\ UNCHANGED purges /\ mishaps \subseteq mishaps'
      BY <1>3, <1>t DEF Begin, Starts
    <2> QED BY <1>1, <1>3, <2>1 DEF ProcStep
  <1>4. ASSUME NEW p \in Procs, BeginPurge(p)
        PROVE  OpenFileCurrent'
    <2>1. pc'[p] = "purge" /\ file'[p] = 0 /\ UNCHANGED <<purges, mishaps>>
      BY <1>4, <1>t DEF BeginPurge, Starts
    <2> QED BY <1>1, <1>4, <2>1 DEF ProcStep
  <1>5. ASSUME NEW p \in Procs, Open(p)
        PROVE  OpenFileCurrent'
    <2>1. /\ UNCHANGED <<job, purges, mishaps>>
          /\ file'[p] = IF job[p].root = "new" THEN purges ELSE 0
      BY <1>5, <1>t DEF Open
    <2> QED BY <1>5, <2>1, OthersStay DEF ProcStep
  <1>6. ASSUME NEW p \in Procs, ProcStep(p), Ends(p), UNCHANGED purges, mishaps \subseteq mishaps'
        PROVE  OpenFileCurrent'
    <2>1. pc'[p] = "idle" /\ file'[p] = 0
      BY <1>6, <1>t DEF Ends
    <2> QED BY <1>1, <1>6, <2>1
  <1>7. ASSUME NEW p \in Procs, Lock(p) \/ Reconcile(p) \/ Displace(p)
        PROVE  OpenFileCurrent'
    BY <1>7, <1>2, <1>6 DEF Lock, Reconcile, Displace, Runs, ProcStep
  <1>8. ASSUME NEW p \in Procs, Check(p) \/ Write(p)
        PROVE  OpenFileCurrent'
    BY <1>8, <1>2, <1>6 DEF Check, Write, ProcStep
  <1>9. ASSUME NEW p \in Procs, Kill(p) \/ Activate(p) \/ Start(p) \/ Promote(p)
        PROVE  OpenFileCurrent'
    BY <1>9, <1>6 DEF Kill, Activate, Start, Promote, Runs, ProcStep
  <1>10. ASSUME NEW p \in Procs, Purge(p)
         PROVE  OpenFileCurrent'
    <2>1. pc'[p] = "idle" /\ file'[p] = 0
      BY <1>10, <1>t DEF Purge, Ends
    <2>2. "purged" \notin mishaps' => ~InUse("new") /\ "purged" \notin mishaps
      BY <1>10 DEF Purge
    <2>3. \A q \in Procs : pc[q] \notin {"idle", "open", "purge"} =>
              job[q] # None /\ job[q].command # "purge"
      BY DEF TypeOK, StepsFit
    <2>4. \A q \in Procs :
              "purged" \notin mishaps' /\ pc[q] \notin {"idle", "open", "purge"}
                  => job[q].root # "new"
      BY <2>2, <2>3 DEF InUse
    <2>5. \A q \in Procs \ {p} : pc'[q] = pc[q] /\ job'[q] = job[q] /\ file'[q] = file[q]
      BY <1>10, OthersStay DEF ProcStep
    <2> QED BY <2>1, <2>4, <2>5
  <1>11. ASSUME Plan \/ (\E g \in guests : GuestEnds(g)) \/ UNCHANGED vars
         PROVE  OpenFileCurrent'
    BY <1>11 DEF Plan, GuestEnds, process, vars
  <1> QED BY <1>3, <1>4, <1>5, <1>7, <1>8, <1>9, <1>10, <1>11 DEF Next, ProcStep

\* Whoever takes a lock takes the file that the other commands of its root have.
LEMMA OneCommandKept ==
    ASSUME TypeOK, OpenFileCurrent, OneCommandPerRoot, [Next]_vars
    PROVE  OneCommandPerRoot'
  <1> USE DEF OneCommandPerRoot
  <1>t. /\ pc \in [Procs -> Steps] /\ job \in [Procs -> Jobs \cup {None}]
        /\ mishaps \subseteq mishaps'
    <2>1. mishaps \subseteq mishaps'
      BY DEF Next, ProcStep, Begin, Starts, Open, Lock, Kill, Reconcile, Displace, Activate, Start,
             Promote, Check, Write, BeginPurge, Purge, Runs, GuestEnds, Plan, vars
    <2> QED BY <2>1 DEF TypeOK, Types, ProcessTypes
  <1>1. ASSUME NEW p \in Procs, ProcStep(p), ~Holding(p)'
        PROVE  OneCommandPerRoot'
    BY <1>1, <1>t, OthersStay DEF Holding
  <1>2. ASSUME NEW p \in Procs, ProcStep(p), Holding(p), job' = job
        PROVE  OneCommandPerRoot'
    BY <1>2, <1>t, OthersStay DEF Holding
  <1>e. ASSUME NEW p \in Procs, Ends(p)
        PROVE  ~Holding(p)'
    BY <1>e, <1>t DEF Ends, Holding
  <1>3. ASSUME NEW p \in Procs, NEW program \in Places, NEW command \in Commands,
               Begin(p, program, command)
        PROVE  ~Holding(p)'
    BY <1>3, <1>t DEF Begin, Starts, Holding
  <1>4. ASSUME NEW p \in Procs, BeginPurge(p) \/ Open(p)
        PROVE  ~Holding(p)'
    BY <1>4, <1>t DEF BeginPurge, Starts, Open, Holding
  <1>5. ASSUME NEW p \in Procs, Lock(p)
        PROVE  OneCommandPerRoot'
    <2>1. CASE \E q \in Procs : Holding(q) /\ SameFile(p, q)
      BY <1>5, <1>1, <1>e, <2>1 DEF Lock, ProcStep
    <2>2. CASE ~\E q \in Procs : Holding(q) /\ SameFile(p, q)
      <3>1. UNCHANGED <<job, file, mishaps>> /\ pc[p] = "lock"
        BY <1>5, <2>2 DEF Lock
      <3>2. \A q \in Procs : Holding(q) => job[q] # None /\ job[q] \in Jobs
        BY <1>t DEF TypeOK, StepsFit, Holding
      <3>3. job[p] # None /\ job[p] \in Jobs
        BY <1>t, <3>1 DEF TypeOK, StepsFit
      <3>4. ASSUME NEW q \in Procs, Holding(q), "purged" \notin mishaps, job[q].root = job[p].root
            PROVE  FALSE
        <4>1. job[p].root \in {"old", "new"}
          BY <3>3 DEF Jobs, Places
        <4>2. file[q] = file[p]
          BY <3>1, <3>2, <3>3, <3>4, <4>1 DEF OpenFileCurrent, Holding
        <4> QED BY <2>2, <3>4, <4>2 DEF SameFile
      <3>5. \A q \in Procs \ {p} : Holding(q)' => Holding(q)
        BY <1>5, OthersStay DEF Holding, ProcStep
      <3> QED BY <3>1, <3>4, <3>5
    <2> QED BY <2>1, <2>2
  <1>6. ASSUME NEW p \in Procs, Reconcile(p) \/ Displace(p) \/ Check(p)
        PROVE  OneCommandPerRoot'
    BY <1>6, <1>1, <1>2, <1>e DEF Reconcile, Displace, Check, Runs, Holding, ProcStep
  <1>7. ASSUME NEW p \in Procs,
               Kill(p) \/ Activate(p) \/ Start(p) \/ Promote(p) \/ Write(p) \/ Purge(p)
        PROVE  ~Holding(p)'
    BY <1>7, <1>e DEF Kill, Activate, Start, Promote, Write, Purge
  <1>8. ASSUME Plan \/ (\E g \in guests : GuestEnds(g)) \/ UNCHANGED vars
        PROVE  OneCommandPerRoot'
    BY <1>8 DEF Plan, GuestEnds, process, vars, Holding
  <1> QED BY <1>1, <1>3, <1>4, <1>5, <1>6, <1>7, <1>8 DEF Next, ProcStep

\* The two parts at every step.
LEMMA LockedInv == Spec => []Locked
  <1>1. Init => Locked
    BY DEF Init, Locked, OpenFileCurrent, OneCommandPerRoot, Holding
  <1>2. TypeOK /\ Locked /\ [Next]_vars => Locked'
    BY OpenFileKept, OneCommandKept DEF Locked
  <1> QED BY <1>1, <1>2, TypeCorrect, PTL DEF Spec

\* Requirement 5.2: no two commands hold the lock of one state directory, unless
\* a purge deleted the lock file under a command.
THEOREM LockExcludes == Spec => []OneCommandPerRoot
  <1>1. Locked => OneCommandPerRoot
    BY DEF Locked
  <1> QED BY <1>1, LockedInv, PTL

-------------------------------------------------------------------------------
(* One guest or one load for a bundle *)

\* What went wrong is remembered.
LEMMA MishapsStay ==
    ASSUME [Next]_vars
    PROVE  mishaps \subseteq mishaps'
  BY DEF Next, ProcStep, Begin, Starts, Open, Lock, Kill, Reconcile, Displace, Activate, Start,
         Promote, Check, Write, BeginPurge, Purge, Runs, GuestEnds, Plan, vars

\* Where everybody knows the application of the guest, a command that is allowed
\* to go on finds no guest.
LEMMA AllowedAlone ==
    ASSUME TypeOK, OneApplication, NEW p \in Procs, job[p] # None, Allowed(job[p])
    PROVE  \A g \in guests : g.root # job[p].root
  <1> SUFFICES ASSUME NEW g \in guests, g.root = job[p].root
               PROVE  FALSE
    OBVIOUS
  <1>1. g \in Guests
    BY DEF TypeOK, Types, HistoryTypes
  <1>2. g.app = job[p].app /\ record[g.root] = g.app
    BY DEF OneApplication
  <1>3. g = [root |-> job[p].root, app |-> job[p].app]
    BY <1>1, <1>2 DEF Guests
  <1> QED BY <1>2, <1>3 DEF Allowed, Running

\* The programs that can reach a bundle exclude each other.
LEMMA SharedKept ==
    ASSUME TypeOK, OneCommandPerRoot, Shared, [Next]_vars
    PROVE  Shared'
  <1> SUFFICES ASSUME mishaps' = {}
               PROVE  OneApplication' /\ OneHand'
    BY DEF Shared
  <1>m. mishaps = {} /\ OneApplication /\ OneHand
    BY MishapsStay DEF Shared
  <1>t. /\ pc \in [Procs -> Steps] /\ job \in [Procs -> Jobs \cup {None}]
        /\ record \in [Places -> Places \cup {None}] /\ guests \subseteq Guests
    BY DEF TypeOK, Types, ProcessTypes, DiskTypes, HistoryTypes
  <1>1. ASSUME NEW p \in Procs, ProcStep(p), UNCHANGED <<config, record, guests>>,
               pc'[p] # "activate",
               job'[p] # None => job'[p].app = AppOf(job'[p].root)
        PROVE  OneApplication' /\ OneHand'
    <2>1. \A q \in Procs \ {p} : pc'[q] = pc[q] /\ job'[q] = job[q]
      BY <1>1, OthersStay
    <2>2. \A r : AppOf(r)' = AppOf(r)
      BY <1>1 DEF AppOf
    <2>3. OneApplication'
      BY <1>1, <1>m, <2>1, <2>2 DEF OneApplication
    <2>4. OneHand'
      BY <1>1, <1>m, <2>1 DEF OneHand
    <2> QED BY <2>3, <2>4
  <1>e. ASSUME NEW p \in Procs, ProcStep(p), Ends(p), UNCHANGED <<config, record, guests>>
        PROVE  OneApplication' /\ OneHand'
    <2>1. pc'[p] = "idle" /\ job'[p] = None
      BY <1>e, <1>t DEF Ends
    <2> QED BY <1>1, <1>e, <2>1
  <1>2. ASSUME NEW p \in Procs, NEW program \in Places, NEW command \in Commands,
               Begin(p, program, command)
        PROVE  OneApplication' /\ OneHand'
    <2>1. /\ pc'[p] = "open" /\ UNCHANGED <<config, record, guests>>
          /\ job'[p] = [command |-> command, root |-> Root(program), app |-> App(program)]
      BY <1>2, <1>t DEF Begin, Starts, disk
    <2>2. App(program) = AppOf(Root(program))
      BY DEF App, AppOf, Root
    <2> QED BY <1>1, <1>2, <2>1, <2>2 DEF ProcStep
  <1>3. ASSUME NEW p \in Procs, BeginPurge(p)
        PROVE  OneApplication' /\ OneHand'
    <2>1. /\ pc'[p] = "purge" /\ UNCHANGED <<config, record, guests>>
          /\ job'[p] = [command |-> "purge", root |-> "new", app |-> "new"]
      BY <1>3, <1>t DEF BeginPurge, Starts, disk
    <2> QED BY <1>1, <1>3, <2>1 DEF ProcStep, AppOf
  <1>4. ASSUME NEW p \in Procs, Open(p) \/ Lock(p) \/ Reconcile(p) \/ Check(p)
        PROVE  OneApplication' /\ OneHand'
    <2>1. UNCHANGED <<config, record, guests>>
      BY <1>4 DEF Open, Lock, Reconcile, Check, disk
    <2>2. \/ Ends(p)
          \/ job' = job /\ pc'[p] # "activate"
      BY <1>4, <1>t DEF Open, Lock, Reconcile, Check, AfterLock
    <2>3. job[p] # None => job[p].app = AppOf(job[p].root)
      BY <1>m DEF OneApplication
    <2>4. ProcStep(p)
      BY <1>4 DEF ProcStep
    <2>5. CASE Ends(p)
      BY <1>e, <2>1, <2>4, <2>5
    <2>6. CASE job' = job /\ pc'[p] # "activate"
      <3>1. job'[p] # None => job'[p].app = AppOf(job'[p].root)
        BY <2>3, <2>6
      <3> QED BY <1>1, <2>1, <2>4, <2>6, <3>1
    <2> QED BY <2>2, <2>5, <2>6
  <1>5. ASSUME NEW p \in Procs, Kill(p) \/ Activate(p) \/ Promote(p)
        PROVE  OneApplication' /\ OneHand'
    BY <1>5, <1>e DEF Kill, Activate, Promote, Runs, disk, ProcStep
  <1>6. ASSUME NEW p \in Procs, Displace(p)
        PROVE  OneApplication' /\ OneHand'
    <2>1. UNCHANGED <<config, record, guests>> /\ job[p] # None
      BY <1>6 DEF Displace, Runs, TypeOK, StepsFit
    <2>2. CASE ~Allowed(job[p])
      BY <1>6, <1>e, <2>1, <2>2 DEF Displace, ProcStep
    <2>3. CASE Allowed(job[p])
      <3>1. \A g \in guests : g.root # job[p].root
        BY <1>m, <2>1, <2>3, AllowedAlone
      <3>2. job' = job /\ \A q \in Procs \ {p} : pc'[q] = pc[q]
        BY <1>6, <2>3, OthersStay DEF Displace, ProcStep
      <3>3. OneApplication'
        BY <1>m, <2>1, <3>2 DEF OneApplication, AppOf
      <3>4. OneHand'
        BY <1>m, <2>1, <3>1, <3>2 DEF OneHand
      <3> QED BY <3>3, <3>4
    <2> QED BY <2>2, <2>3
  <1>7. ASSUME NEW p \in Procs, Start(p)
        PROVE  OneApplication' /\ OneHand'
    <2>1. UNCHANGED config /\ Ends(p) /\ pc[p] = "run" /\ job[p] \in Jobs /\ job[p] # None
      BY <1>7, <1>t DEF Start, Runs, TypeOK, StepsFit
    <2>2. CASE ~Allowed(job[p])
      BY <1>7, <1>e, <2>1, <2>2 DEF Start, ProcStep
    <2>3. CASE Allowed(job[p])
      <3> DEFINE new == [root |-> job[p].root, app |-> job[p].app]
      <3>1. \A g \in guests : g.root # job[p].root
        BY <1>m, <2>1, <2>3, AllowedAlone
      <3>2. guests' = guests \cup {new} /\ record' = [record EXCEPT ![job[p].root] = job[p].app]
        BY <1>7, <2>3 DEF Start
      <3>3. pc'[p] = "idle" /\ job'[p] = None
        BY <1>t, <2>1 DEF Ends
      <3>4. \A q \in Procs \ {p} : pc'[q] = pc[q] /\ job'[q] = job[q]
        BY <1>7, OthersStay DEF ProcStep
      <3>5. \A r : AppOf(r)' = AppOf(r)
        BY <2>1 DEF AppOf
      <3>6. job[p].root \in Places /\ job[p].app = AppOf(job[p].root)
        BY <1>m, <2>1 DEF Jobs, OneApplication
      <3>7. /\ record'[job[p].root] = job[p].app
            /\ \A r \in Places : r # job[p].root => record'[r] = record[r]
        BY <1>t, <3>2, <3>6
      <3>8. \A g \in guests : g.root \in Places
        BY <1>t DEF Guests
      <3>9. OneApplication'
        BY <1>m, <3>1, <3>2, <3>3, <3>4, <3>5, <3>6, <3>7, <3>8 DEF OneApplication
      <3>10. \A q \in Procs : pc[q] = "activate" => job[q].root # job[p].root
        BY <1>m, <2>1 DEF OneCommandPerRoot, Holding
      <3>11. OneHand'
        BY <1>m, <3>1, <3>2, <3>3, <3>4, <3>10 DEF OneHand
      <3> QED BY <3>9, <3>11
    <2> QED BY <2>2, <2>3
  <1>8. ASSUME NEW p \in Procs, Write(p)
        PROVE  OneApplication' /\ OneHand'
    <2>1. UNCHANGED <<record, guests>> /\ ~OthersUseOld(p) /\ Ends(p)
      BY <1>8 DEF Write
    <2>2. pc'[p] = "idle" /\ job'[p] = None
      BY <1>t, <2>1 DEF Ends
    <2>3. \A q \in Procs \ {p} : pc'[q] = pc[q] /\ job'[q] = job[q]
      BY <1>8, OthersStay DEF ProcStep
    <2>4. AppOf("new")' = AppOf("new")
      BY DEF AppOf
    <2>5. /\ \A q \in Procs \ {p} : job[q] # None => job[q].root = "new"
          /\ \A g \in guests : g.root = "new"
      BY <1>t, <2>1 DEF OthersUseOld, Jobs, Guests, Places
    <2>6. OneApplication'
      BY <1>m, <2>1, <2>2, <2>3, <2>4, <2>5 DEF OneApplication
    <2>7. OneHand'
      BY <1>m, <2>1, <2>2, <2>3 DEF OneHand
    <2> QED BY <2>6, <2>7
  <1>9. ASSUME NEW p \in Procs, Purge(p)
        PROVE  OneApplication' /\ OneHand'
    <2>1. /\ UNCHANGED <<config, guests>> /\ ~InUse("new") /\ Ends(p)
          /\ record' = [record EXCEPT !["new"] = None]
      BY <1>9 DEF Purge
    <2>2. pc'[p] = "idle" /\ job'[p] = None
      BY <1>t, <2>1 DEF Ends
    <2>3. \A q \in Procs \ {p} : pc'[q] = pc[q] /\ job'[q] = job[q]
      BY <1>9, OthersStay DEF ProcStep
    <2>4. \A r : AppOf(r)' = AppOf(r)
      BY <2>1 DEF AppOf
    <2>5. \A g \in guests : g.root # "new" /\ record'[g.root] = record[g.root]
      BY <1>t, <2>1 DEF InUse, Guests
    <2>6. OneApplication'
      BY <1>m, <2>1, <2>2, <2>3, <2>4, <2>5 DEF OneApplication
    <2>7. OneHand'
      BY <1>m, <2>1, <2>2, <2>3 DEF OneHand
    <2> QED BY <2>6, <2>7
  <1>10. ASSUME Plan \/ (\E g \in guests : GuestEnds(g)) \/ UNCHANGED vars
         PROVE  OneApplication' /\ OneHand'
    <2>1. UNCHANGED <<pc, job, config, record>> /\ guests' \subseteq guests
      BY <1>10 DEF Plan, GuestEnds, process, disk, vars
    <2>2. OneApplication'
      BY <1>m, <2>1 DEF OneApplication, AppOf
    <2>3. OneHand'
      BY <1>m, <2>1 DEF OneHand
    <2> QED BY <2>2, <2>3
  <1> QED BY <1>2, <1>3, <1>4, <1>5, <1>6, <1>7, <1>8, <1>9, <1>10 DEF Next, ProcStep

\* A bundle has one guest or is replaced by one load, unless a migration or a purge
\* came while it was in use.
THEOREM OneHandAtATime == Spec => []BundleInOneHand
  <1>1. Init => Shared
    BY DEF Init, Shared, OneApplication, OneHand
  <1>2. Shared => BundleInOneHand
    BY DEF Shared, OneHand, BundleInOneHand
  <1>3. Locked => OneCommandPerRoot
    BY DEF Locked
  <1> QED BY <1>1, <1>2, <1>3, SharedKept, LockedInv, TypeCorrect, PTL DEF Spec

-------------------------------------------------------------------------------
(* The reviewed migration *)

\* From its check to its write an apply has the old data for itself, or the mishap
\* is noted.
LEMMA OldIsQuietKept ==
    ASSUME TypeOK, OldIsQuiet, [Next]_vars
    PROVE  OldIsQuiet'
  <1> DEFINE Agreed == base["old"] = manifest /\ journal["old"] = "none"
  <1>m. mishaps \subseteq mishaps'
    BY MishapsStay
  <1>t. /\ pc \in [Procs -> Steps] /\ job \in [Procs -> Jobs \cup {None}]
        /\ journal \in [Places -> {"none", "pending"}] /\ base \in [Places -> Bases]
    BY DEF TypeOK, Types, ProcessTypes, DiskTypes
  <1>j. \A p \in Procs : pc[p] # "idle" => job[p] # None /\ job[p] \in Jobs
    BY <1>t DEF TypeOK, StepsFit
  \* A step that gives the old data to nobody, and keeps what was agreed.
  <1>1. ASSUME NEW p \in Procs, ProcStep(p), guests' \subseteq guests,
               pc'[p] # "write",
               job'[p] \in {job[p], None} \/ job'[p].root # "old",
               UNCHANGED manifest,
               \/ UNCHANGED <<base, journal>>
               \/ job[p].root = "old" /\ pc[p] # "idle" /\ pc[p] # "write"
               \/ base'["old"] = base["old"] /\ journal'["old"] = journal["old"]
        PROVE  OldIsQuiet'
    <2> SUFFICES ASSUME NEW q \in Procs, pc'[q] = "write", "adopted" \notin mishaps'
                 PROVE  ~OthersUseOld(q)' /\ Agreed'
      BY DEF OldIsQuiet
    <2>1. \A o \in Procs \ {p} : pc'[o] = pc[o] /\ job'[o] = job[o]
      BY <1>1, OthersStay
    <2>2. q # p /\ ~OthersUseOld(q) /\ Agreed
      BY <1>1, <1>m, <2>1 DEF OldIsQuiet
    <2>3. ~OthersUseOld(q)'
      BY <1>1, <2>1, <2>2 DEF OthersUseOld
    <2>4. ~(job[p].root = "old" /\ pc[p] # "idle")
      BY <1>j, <2>2 DEF OthersUseOld
    <2>5. Agreed'
      BY <1>1, <2>2, <2>4
    <2> QED BY <2>3, <2>5
  <1>e. ASSUME NEW p \in Procs, Ends(p)
        PROVE  pc'[p] = "idle" /\ job'[p] = None
    BY <1>e, <1>t DEF Ends
  <1>2. ASSUME NEW p \in Procs, NEW program \in Places, NEW command \in Commands,
               Begin(p, program, command)
        PROVE  OldIsQuiet'
    <2>1. /\ pc'[p] = "open" /\ UNCHANGED <<manifest, base, journal, guests>>
          /\ job'[p] = [command |-> command, root |-> Root(program), app |-> App(program)]
          /\ mishaps' = IF Applying /\ Root(program) = "old" THEN mishaps \cup {"adopted"} ELSE mishaps
      BY <1>2, <1>t DEF Begin, Starts, disk
    <2>2. CASE Root(program) = "new"
      BY <1>1, <1>2, <2>1, <2>2 DEF ProcStep
    <2>3. CASE Root(program) = "old"
      <3>1. \A q \in Procs : pc'[q] = "write" => pc[q] = "write"
        BY <1>2, <2>1, OthersStay DEF ProcStep
      <3>2. ("adopted" \notin mishaps') => \A q \in Procs : pc'[q] # "write"
        BY <2>1, <2>3, <3>1 DEF Applying
      <3> QED BY <3>2 DEF OldIsQuiet
    <2> QED BY <2>2, <2>3 DEF Root
  <1>3. ASSUME NEW p \in Procs, BeginPurge(p)
        PROVE  OldIsQuiet'
    <2>1. /\ pc'[p] = "purge" /\ UNCHANGED <<manifest, base, journal, guests>>
          /\ job'[p] = [command |-> "purge", root |-> "new", app |-> "new"]
      BY <1>3, <1>t DEF BeginPurge, Starts, disk
    <2> QED BY <1>1, <1>3, <2>1 DEF ProcStep
  <1>4. ASSUME NEW p \in Procs, Open(p) \/ Lock(p) \/ Kill(p)
        PROVE  OldIsQuiet'
    <2>1. /\ UNCHANGED <<manifest, base, journal, guests>>
          /\ pc'[p] # "write" /\ job'[p] \in {job[p], None}
      BY <1>4, <1>e, <1>t DEF Open, Lock, Kill, AfterLock, disk
    <2> QED BY <1>1, <1>4, <2>1 DEF ProcStep
  <1>5. ASSUME NEW p \in Procs, Reconcile(p) \/ Displace(p) \/ Activate(p)
        PROVE  OldIsQuiet'
    <2>1. UNCHANGED <<manifest, base, guests>> /\ pc[p] \in {"reconcile", "run", "activate"}
      BY <1>5 DEF Reconcile, Displace, Activate, Runs
    <2>2. pc'[p] # "write" /\ job'[p] \in {job[p], None}
      BY <1>5, <1>e, <1>t DEF Reconcile, Displace, Activate
    <2>3. job[p].root # "old" => journal'["old"] = journal["old"]
      <3>1. \/ UNCHANGED journal
            \/ \E state \in {"none", "pending"} :
                  journal' = [journal EXCEPT ![job[p].root] = state]
        BY <1>5 DEF Reconcile, Displace, Activate
      <3> QED BY <1>t, <3>1 DEF Places
    <2> QED BY <1>1, <1>5, <2>1, <2>2, <2>3 DEF ProcStep
  <1>6. ASSUME NEW p \in Procs, Promote(p)
        PROVE  OldIsQuiet'
    <2>1. UNCHANGED <<manifest, journal, guests>> /\ pc[p] = "run"
      BY <1>6 DEF Promote, Runs
    <2>2. pc'[p] # "write" /\ job'[p] \in {job[p], None}
      BY <1>6, <1>e DEF Promote
    <2>3. job[p].root # "old" => base'["old"] = base["old"]
      BY <1>6, <1>t DEF Promote
    <2> QED BY <1>1, <1>6, <2>1, <2>2, <2>3 DEF ProcStep
  <1>7. ASSUME NEW p \in Procs, Start(p)
        PROVE  OldIsQuiet'
    <2>1. /\ UNCHANGED <<manifest, journal, base, mishaps>> /\ pc[p] = "run"
          /\ pc'[p] = "idle" /\ job'[p] = None
      BY <1>7, <1>e DEF Start, Runs
    <2>2. CASE guests' \subseteq guests
      BY <1>1, <1>7, <2>1, <2>2 DEF ProcStep
    <2>3. CASE guests' = guests \cup {[root |-> job[p].root, app |-> job[p].app]}
      <3> SUFFICES ASSUME NEW q \in Procs, pc'[q] = "write", "adopted" \notin mishaps'
                   PROVE  ~OthersUseOld(q)' /\ Agreed'
        BY DEF OldIsQuiet
      <3>1. \A o \in Procs \ {p} : pc'[o] = pc[o] /\ job'[o] = job[o]
        BY <1>7, OthersStay DEF ProcStep
      <3>2. q # p /\ ~OthersUseOld(q) /\ Agreed
        BY <2>1, <3>1 DEF OldIsQuiet
      <3>3. job[p].root # "old"
        BY <1>j, <2>1, <3>2 DEF OthersUseOld
      <3>4. ~OthersUseOld(q)'
        BY <2>1, <2>3, <3>1, <3>2, <3>3 DEF OthersUseOld
      <3> QED BY <2>1, <3>2, <3>4
    <2> QED BY <1>7, <2>2, <2>3 DEF Start
  <1>8. ASSUME NEW p \in Procs, Check(p)
        PROVE  OldIsQuiet'
    <2>1. UNCHANGED <<manifest, journal, base, guests>>
      BY <1>8 DEF Check, disk
    <2>2. CASE Ends(p)
      BY <1>1, <1>8, <1>e, <2>1, <2>2 DEF ProcStep
    <2>3. CASE ~Ends(p)
      <3>1. /\ Agreed /\ job' = job
            /\ mishaps' = IF OthersUseOld(p) THEN mishaps \cup {"adopted"} ELSE mishaps
        BY <1>8, <2>3 DEF Check
      <3>2. \A q \in Procs \ {p} : pc'[q] = pc[q]
        BY <1>8, OthersStay DEF ProcStep
      <3>3. \A q \in Procs : OthersUseOld(q)' <=> OthersUseOld(q)
        BY <2>1, <3>1 DEF OthersUseOld
      <3> QED BY <1>m, <2>1, <3>1, <3>2, <3>3 DEF OldIsQuiet
    <2> QED BY <2>2, <2>3
  <1>9. ASSUME NEW p \in Procs, Write(p)
        PROVE  OldIsQuiet'
    <2>1. UNCHANGED <<manifest, journal, base, guests>> /\ pc'[p] = "idle" /\ job'[p] = None
      BY <1>9, <1>e DEF Write
    <2> QED BY <1>1, <1>9, <2>1 DEF ProcStep
  <1>10. ASSUME NEW p \in Procs, Purge(p)
         PROVE  OldIsQuiet'
    <2>1. UNCHANGED <<manifest, base, guests>> /\ pc'[p] = "idle" /\ job'[p] = None
      BY <1>10, <1>e DEF Purge
    <2>2. journal'["old"] = journal["old"]
      BY <1>10, <1>t DEF Purge
    <2> QED BY <1>1, <1>10, <2>1, <2>2 DEF ProcStep
  <1>11. CASE Plan
    <2>1. UNCHANGED <<pc, job, guests, mishaps, base, journal>> /\ Agreed'
      BY <1>11 DEF Plan, process
    <2> QED BY <2>1 DEF OldIsQuiet, OthersUseOld
  <1>12. ASSUME (\E g \in guests : GuestEnds(g)) \/ UNCHANGED vars
         PROVE  OldIsQuiet'
    <2>1. UNCHANGED <<pc, job, mishaps, base, journal, manifest>> /\ guests' \subseteq guests
      BY <1>12 DEF GuestEnds, process, disk, vars
    <2> QED BY <2>1 DEF OldIsQuiet, OthersUseOld
  <1> QED BY <1>2, <1>3, <1>4, <1>5, <1>6, <1>7, <1>8, <1>9, <1>10, <1>11, <1>12
          DEF Next, ProcStep

\* A migration adopts the data that was reviewed, unless it was in use.
THEOREM AdoptsTheReviewed == Spec => AppliedAsReviewed
  <1>1. Init => OldIsQuiet
    BY DEF Init, OldIsQuiet
  <1>2. ASSUME OldIsQuiet, [Next]_vars, config' # config, "adopted" \notin mishaps'
        PROVE  base["old"] = manifest /\ journal["old"] = "none"
    <2>1. PICK p \in Procs : Write(p)
      BY <1>2 DEF Next, ProcStep, Begin, Starts, Open, Lock, Kill, Reconcile, Displace, Activate,
                  Start, Promote, Check, BeginPurge, Purge, Runs, GuestEnds, Plan, vars, disk
    <2>2. pc[p] = "write" /\ "adopted" \notin mishaps
      BY <1>2, <2>1, MishapsStay DEF Write
    <2> QED BY <1>2, <2>2 DEF OldIsQuiet
  <1>3. OldIsQuiet /\ [Next]_vars =>
          (config' # config /\ "adopted" \notin mishaps'
               => base["old"] = manifest /\ journal["old"] = "none")
    BY <1>2
  <1> QED BY <1>1, <1>3, OldIsQuietKept, TypeCorrect, PTL DEF Spec, AppliedAsReviewed
===============================================================================
