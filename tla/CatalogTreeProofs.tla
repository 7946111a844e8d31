--------------------------- MODULE CatalogTreeProofs ---------------------------
(***************************************************************************)
(* The tree that `vmctl tree` prints: the recursion of `visit` is well     *)
(* defined, it ends with every snapshot whose ancestors lead to a root,    *)
(* and as long as no name was used twice they all do.  It is printed       *)
(* unless a deletion that is under way or was cut short stops the command. *)
(*                                                                         *)
(* What visit reaches is a function over the depth, so its properties go   *)
(* by induction over data.  Induction is derived here for sets (a set of   *)
(* numbers with 0 and every successor), from the theorem that the finite   *)
(* sets are well founded under inclusion.                                  *)
(***************************************************************************)
EXTENDS CatalogProofs, WellFoundedInduction, FiniteSetTheorems

\* A name that a snapshot has or had.
Known(n) == snapshots[n] # None \/ n \in deleted

ParentsKnown ==
    /\ \A n \in Names : snapshots[n] # None /\ snapshots[n].parent \in Names
                        => Known(snapshots[n].parent)
    /\ temp # None /\ temp.parent \in Names => Known(temp.parent)

\* Every snapshot is younger than the one its parent's name stands for.
Younger(age) ==
    \A n \in Names : snapshots[n] # None /\ snapshots[n].parent \in Names
                     => age[snapshots[n].parent] < age[n]

Aged == reused = {} => \E age \in [Names -> Nat] : Younger(age)

\* A directory that stops `list` and `tree` is one that a deletion left.
CutShort == \A n \in Unreadable : HalfDeleted(n)

TInv == IInv /\ ParentsKnown /\ Aged /\ CutShort

-------------------------------------------------------------------------------
(* Induction *)

\* A set of natural numbers has a least element.
LEMMA LeastNumber ==
    ASSUME NEW T \in SUBSET Nat, T # {}
    PROVE  \E x \in T : \A y \in T : x <= y
  <1> DEFINE Down == {0..n : n \in T}
             R == StrictSubsetOrdering(Nat)
             F == FiniteSubsetsOf(Nat)
  <1>1. IsWellFoundedOn(R, F)
    BY FS_StrictSubsetOrderingWellFounded
  <1>2. Down \subseteq F /\ Down # {}
    <2>1. ASSUME NEW n \in T PROVE 0..n \in F
      BY FS_Interval, n \in Nat DEF FiniteSubsetsOf
    <2> QED
      BY <2>1
  <1>3. \E x \in Down : \A y \in Down : ~ (<<y, x>> \in R)
    <2> HIDE DEF Down, R, F
    <2> QED
      BY <1>1, <1>2, WFMin
  <1>4. PICK n \in T : \A y \in Down : ~ (<<y, 0..n>> \in R)
    BY <1>3
  <1>5. ASSUME NEW m \in T, m < n PROVE FALSE
    <2>1. 0..m \in SUBSET Nat /\ 0..n \in SUBSET Nat /\ 0..m \subseteq 0..n /\ 0..m # 0..n
      BY <1>5, m \in Nat, n \in Nat
    <2>2. <<0..m, 0..n>> \in R
      BY <2>1 DEF StrictSubsetOrdering
    <2> QED
      BY <1>4, <2>2
  <1> QED
    BY <1>5

\* A set with 0 and every successor holds all numbers.
LEMMA SetInduction ==
    ASSUME NEW S \in SUBSET Nat, 0 \in S, \A n \in S : n + 1 \in S
    PROVE  S = Nat
  <1> SUFFICES ASSUME Nat \ S # {} PROVE FALSE
    OBVIOUS
  <1>1. PICK n \in Nat \ S : \A m \in Nat \ S : n <= m
    BY LeastNumber
  <1>2. n - 1 \in Nat /\ n - 1 \in S
    BY <1>1
  <1> QED
    BY <1>1, <1>2

-------------------------------------------------------------------------------
(* No name used twice: the parents have an order. *)

USE DEF Described, Do, Fail, Goto, End, Reached, NoFault, Fault, disk, argument, history, bounds

\* What a deletion makes of a snapshot: nothing, or a rest of it.
Shrunk(n) ==
    \E d \in Directory \cup {None} :
        /\ snapshots' = [snapshots EXCEPT ![n] = d]
        /\ d = None => deleted' = deleted \cup {n}
        /\ d # None => deleted' = deleted /\ d.parent \in {snapshots[n].parent, None}

LEMMA RemainsParent ==
    \A d \in Directory : \A r \in Remains(d) : r.parent \in {d.parent, None}
  BY DEF Remains, Directory

\* How a step changes the snapshots: it publishes one, deletes one, or neither.
LEMMA SnapshotChanges ==
    ASSUME IInv, [Next]_vars
    PROVE  \/ /\ pc = "publish" /\ name \in Names /\ snapshots[name] = None
              /\ temp \in Directory /\ temp.parent \notin {None, name}
              /\ snapshots' = [snapshots EXCEPT ![name] = temp]
              /\ reused' = reused \cup ({name} \cap deleted) /\ deleted' = deleted
           \/ /\ name \in Names /\ snapshots[name] # None
              /\ Shrunk(name) /\ reused' = reused
           \/ UNCHANGED <<snapshots, deleted, reused>>
  <1>a. DiskTypes /\ ArgumentKnown /\ CaptureAlone /\ CommitRemembers /\ DeletionSafe
    BY DEF IInv
  <1>1. CASE Publish
    BY <1>1, <1>a DEF Publish, ArgumentKnown, CaptureAlone, Capturing, DiskTypes
  <1>2. CASE DeleteNew \/ Delete \/ KeepNew
    <2>1. name \in Names /\ snapshots[name] \in Directory /\ snapshots[name] # None
      BY <1>2, <1>a DEF DeleteNew, Delete, KeepNew, DeleteSnapshot, ArgumentKnown,
         CommitRemembers, DeletionSafe, DiskTypes
    <2>2. reused' = reused
      BY <1>2 DEF DeleteNew, Delete, KeepNew, DeleteSnapshot
    <2>3. CASE UNCHANGED <<snapshots, deleted>>
      BY <2>2, <2>3
    <2>4. CASE Forget(name)
      BY <2>1, <2>2, <2>4 DEF Forget, Shrunk
    <2>5. ASSUME NEW rest \in Remains(snapshots[name]),
                 snapshots' = [snapshots EXCEPT ![name] = rest], deleted' = deleted
          PROVE  Shrunk(name)
      <3>1. rest \in Directory /\ rest # None /\ rest.parent \in {snapshots[name].parent, None}
        BY <2>1, RemainsType, RemainsParent
      <3> QED
        BY <2>5, <3>1 DEF Shrunk
    <2> QED
      BY <1>2, <2>1, <2>2, <2>3, <2>4, <2>5 DEF DeleteNew, Delete, KeepNew, DeleteSnapshot
  <1>3. CASE \/ BeginStep \/ CheckSnapshot \/ CloneStarts \/ CloneEnds \/ Describe
             \/ Reread \/ Cleanup \/ Keep \/ Promote \/ SetBase \/ UndoBase
             \/ CheckRemove \/ Detach \/ Reattach
    BY <1>3 DEF BeginStep, BeginSnapshot, BeginCommit, BeginPromote, BeginRemove,
       Begin, CheckSnapshot, CloneStarts, CloneEnds, Describe, Reread, Cleanup, Keep,
       Promote, SetBase, UndoBase, CheckRemove, Detach, Reattach
  <1>4. CASE \/ \E n \in Names : Load(n)
             \/ Start \/ GuestWrite \/ GuestStops \/ Crash \/ UNCHANGED vars
    BY <1>4 DEF Load, Start, GuestWrite, GuestStops, Crash, vars
  <1> QED
    BY <1>1, <1>2, <1>3, <1>4 DEF Next, SnapshotStep, BaseStep, RemoveStep

\* How a step changes the parent that the new snapshot will have.
LEMMA TempChanges ==
    ASSUME IInv, [Next]_vars
    PROVE  \/ temp' = None
           \/ temp' \in Directory /\ temp'.parent \in {None, Root}
           \/ temp' # None /\ temp # None /\ temp'.parent = temp.parent
           \/ origin # None /\ temp' # None /\ temp'.parent = origin
  <1>a. DiskTypes /\ CaptureAlone
    BY DEF IInv
  <1>1. CASE CloneStarts
    BY <1>1, <1>a DEF CloneStarts, Directory
  <1>2. CASE CloneEnds \/ Describe
    <2>1. temp \in Directory /\ temp # None
      BY <1>2, <1>a DEF CloneEnds, Describe, CaptureAlone, DiskTypes
    <2> QED
      BY <1>2, <1>a, <2>1, MarksAssumption DEF CloneEnds, Describe, Directory,
         DiskTypes, Contents
  <1>3. CASE Cleanup
    <2>1. CASE temp # None /\ temp' \in Remains(temp)
      <3>1. temp \in Directory
        BY <1>a, <2>1 DEF DiskTypes
      <3> QED
        BY <2>1, <3>1, RemainsType, RemainsParent
    <2> QED
      BY <1>3, <2>1 DEF Cleanup
  <1>4. CASE \/ BeginStep \/ CheckSnapshot \/ Publish \/ Reread \/ Keep
             \/ BaseStep \/ RemoveStep
    BY <1>4 DEF BeginStep, BeginSnapshot, BeginCommit, BeginPromote, BeginRemove,
       Begin, CheckSnapshot, Publish, Reread, Keep, BaseStep, Promote, SetBase,
       UndoBase, DeleteNew, KeepNew, DeleteSnapshot, RemoveStep, CheckRemove, Detach,
       Delete, Reattach
  <1>5. CASE \/ \E n \in Names : Load(n)
             \/ Start \/ GuestWrite \/ GuestStops \/ Crash \/ UNCHANGED vars
    BY <1>5 DEF Load, Start, GuestWrite, GuestStops, Crash, vars
  <1> QED
    BY <1>1, <1>2, <1>3, <1>4, <1>5 DEF Next, SnapshotStep

LEMMA InitTInv == Init => TInv
  <1> SUFFICES ASSUME Init PROVE TInv
    OBVIOUS
  <1>1. IInv
    BY InitIInv
  <1>2. \A n \in Names : snapshots[n] = None \/ snapshots[n].parent = Root
    BY DEF Init
  <1>3. [n \in Names |-> 0] \in [Names -> Nat]
    OBVIOUS
  <1> QED
    BY <1>1, <1>2, <1>3, MarksAssumption DEF Init, TInv, ParentsKnown, Aged, Younger,
       CutShort, Unreadable, Active

\* A name stays known.
LEMMA KnownStays ==
    ASSUME IInv, [Next]_vars, NEW n \in Names, Known(n)
    PROVE  Known(n)'
  <1>1. DiskTypes
    BY DEF IInv
  <1>2. CASE /\ snapshots' = [snapshots EXCEPT ![name] = temp] /\ temp \in Directory
             /\ deleted' = deleted
    BY <1>1, <1>2, MarksAssumption DEF Known, DiskTypes
  <1>3. CASE Shrunk(name)
    BY <1>1, <1>3 DEF Known, Shrunk, DiskTypes
  <1> QED
    BY <1>2, <1>3, SnapshotChanges DEF Known

LEMMA ParentsKnownStep ==
    ASSUME TInv, [Next]_vars
    PROVE  ParentsKnown'
  <1>a. IInv /\ DiskTypes /\ AttachedSourceExists /\ ParentsKnown
    BY DEF TInv, IInv
  <1>b. \A n \in Names : Known(n) => Known(n)'
    BY <1>a, KnownStays
  <1>1. ASSUME NEW n \in Names, snapshots'[n] # None, snapshots'[n].parent \in Names
        PROVE  Known(snapshots'[n].parent)
    <2>1. CASE /\ snapshots' = [snapshots EXCEPT ![name] = temp] /\ temp \in Directory
      BY <1>a, <1>1, <2>1, MarksAssumption DEF ParentsKnown, DiskTypes
    <2>2. CASE Shrunk(name) /\ name \in Names /\ snapshots[name] # None
      BY <1>a, <1>1, <2>2, MarksAssumption DEF Shrunk, ParentsKnown, DiskTypes
    <2>3. CASE UNCHANGED snapshots
      BY <1>a, <1>1, <2>3 DEF ParentsKnown
    <2> QED
      BY <1>a, <2>1, <2>2, <2>3, SnapshotChanges
  <1>2. ASSUME temp' # None, temp'.parent \in Names
        PROVE  Known(temp'.parent)
    BY <1>a, <1>2, TempChanges, MarksAssumption
       DEF ParentsKnown, Known, AttachedSourceExists
  <1> QED
    BY <1>1, <1>2, <1>b DEF ParentsKnown, Known

LEMMA AgedStep ==
    ASSUME TInv, [Next]_vars
    PROVE  Aged'
  <1>a. IInv /\ DiskTypes /\ HistoryTypes /\ ParentsKnown /\ Aged
    BY DEF TInv, IInv
  <1> SUFFICES ASSUME reused' = {} PROVE \E age \in [Names -> Nat] : Younger(age)'
    BY DEF Aged
  <1>1. reused = {}
    BY <1>a, SnapshotChanges
  <1>2. PICK age \in [Names -> Nat] : Younger(age)
    BY <1>a, <1>1 DEF Aged
  <1>3. CASE /\ name \in Names /\ snapshots[name] = None
             /\ temp \in Directory /\ temp.parent \notin {None, name}
             /\ snapshots' = [snapshots EXCEPT ![name] = temp]
             /\ reused' = reused \cup ({name} \cap deleted)
    <2> DEFINE first == IF temp.parent \in Names THEN age[temp.parent] + 1 ELSE 0
    <2>1. PICK new \in [Names -> Nat] : new = [age EXCEPT ![name] = first]
      <3>1. first \in Nat
        OBVIOUS
      <3> HIDE DEF first
      <3>2. [age EXCEPT ![name] = first] \in [Names -> Nat]
        BY <3>1
      <3> QED
        BY <3>2
    <2>2. ~Known(name)
      BY <1>3 DEF Known
    <2>3. \A n \in Names : snapshots[n] # None => snapshots[n].parent # name
      BY <1>a, <1>3, <2>2 DEF ParentsKnown
    <2>4. Younger(new)'
      <3>1. SUFFICES ASSUME NEW n \in Names, snapshots'[n] # None,
                            snapshots'[n].parent \in Names
                     PROVE  new[snapshots'[n].parent] < new[n]
        BY DEF Younger
      <3>2. CASE n = name
        BY <1>a, <1>3, <2>1, <3>1, <3>2 DEF DiskTypes
      <3>3. CASE n # name
        <4>1. snapshots'[n] = snapshots[n]
          BY <1>a, <1>3, <3>3 DEF DiskTypes
        <4> QED
          BY <1>2, <2>1, <2>3, <3>1, <3>3, <4>1 DEF Younger
      <3> QED
        BY <3>2, <3>3
    <2> QED
      BY <2>4
  <1>4. CASE Shrunk(name) /\ name \in Names /\ snapshots[name] # None
    <2>1. ASSUME NEW n \in Names, snapshots'[n] # None, snapshots'[n].parent \in Names
          PROVE  snapshots[n] # None /\ snapshots[n].parent = snapshots'[n].parent
      BY <1>a, <1>4, <2>1, MarksAssumption DEF Shrunk, DiskTypes
    <2> QED
      BY <1>2, <2>1 DEF Younger
  <1>5. CASE UNCHANGED snapshots
    BY <1>2, <1>5 DEF Younger
  <1> QED
    BY <1>a, <1>3, <1>4, <1>5, SnapshotChanges

\* A rest is left by a step of the deletion that goes on, and a deletion ends
\* with the directory gone, a kill or an error.
LEMMA DeletionStep ==
    ASSUME IInv, [Next]_vars, NEW n \in Names, n = name, snapshots[n] # None,
           Shrunk(n), snapshots'[n] # None
    PROVE  HalfDeleted(n)' \/ UNCHANGED snapshots
  <1>a. DiskTypes /\ BoundTypes /\ CaptureAlone
    BY DEF IInv
  <1>1. CASE Publish
    BY <1>1, <1>a, MarksAssumption
       DEF Publish, CaptureAlone, Capturing, DiskTypes, Shrunk
  <1>2. CASE DeleteNew \/ Delete \/ KeepNew
    BY <1>2, <1>a DEF DeleteNew, Delete, KeepNew, DeleteSnapshot, HalfDeleted, Forget,
       DiskTypes
  <1>3. CASE \/ BeginStep \/ CheckSnapshot \/ CloneStarts \/ CloneEnds \/ Describe
             \/ Reread \/ Cleanup \/ Keep \/ Promote \/ SetBase \/ UndoBase
             \/ CheckRemove \/ Detach \/ Reattach
    BY <1>3 DEF BeginStep, BeginSnapshot, BeginCommit, BeginPromote, BeginRemove,
       Begin, CheckSnapshot, CloneStarts, CloneEnds, Describe, Reread, Cleanup, Keep,
       Promote, SetBase, UndoBase, CheckRemove, Detach, Reattach
  <1>4. CASE \/ \E m \in Names : Load(m)
             \/ Start \/ GuestWrite \/ GuestStops \/ Crash \/ UNCHANGED vars
    BY <1>4 DEF Load, Start, GuestWrite, GuestStops, Crash, vars
  <1> QED
    BY <1>1, <1>2, <1>3, <1>4 DEF Next, SnapshotStep, BaseStep, RemoveStep

\* What is under deletion stays so until it is gone or something went wrong.
LEMMA HalfDeletedStays ==
    ASSUME IInv, [Next]_vars, NEW n \in Names, HalfDeleted(n)
    PROVE  HalfDeleted(n)' \/ snapshots'[n] = None
  <1>a. DiskTypes /\ BoundTypes
    BY DEF IInv
  <1>1. CASE crashes + faults > 0
    <2>1. crashes' + faults' >= crashes + faults
      <3>1. CASE Crash \/ GuestWrite \/ GuestStops \/ Start \/ UNCHANGED vars
        BY <1>a, <3>1 DEF Crash, GuestWrite, GuestStops, Start, vars, BoundTypes
      <3>2. CASE \E m \in Names : Load(m)
        BY <1>a, <3>2 DEF Load, BoundTypes
      <3>3. CASE BeginStep
        BY <1>a, <3>3 DEF BeginStep, BeginSnapshot, BeginCommit, BeginPromote,
           BeginRemove, Begin, BoundTypes
      <3>4. CASE SnapshotStep
        BY <1>a, <3>4 DEF SnapshotStep, CheckSnapshot, CloneStarts, CloneEnds,
           Describe, Publish, Reread, Cleanup, Keep, BoundTypes
      <3>5. CASE BaseStep
        BY <1>a, <3>5 DEF BaseStep, Promote, SetBase, UndoBase, DeleteNew,
           DeleteSnapshot, KeepNew, BoundTypes
      <3>6. CASE RemoveStep
        BY <1>a, <3>6 DEF RemoveStep, CheckRemove, Detach, Delete, DeleteSnapshot,
           Reattach, BoundTypes
      <3> QED
        BY <3>1, <3>2, <3>3, <3>4, <3>5, <3>6 DEF Next
    <2> QED
      BY <1>1, <1>a, <2>1, NextIInv DEF HalfDeleted, BoundTypes, IInv
  <1>2. CASE name = n /\ pc \in {"deleteNew", "delete"}
    <2>1. CASE DeleteNew \/ Delete
      BY <1>2, <1>a, <2>1 DEF DeleteNew, Delete, DeleteSnapshot, Forget, HalfDeleted,
         DiskTypes, BoundTypes
    <2>2. CASE Crash
      BY <1>a, <2>2 DEF Crash, HalfDeleted, BoundTypes
    <2>3. CASE GuestWrite \/ GuestStops \/ UNCHANGED vars
      BY <1>2, <2>3 DEF GuestWrite, GuestStops, vars, HalfDeleted
    <2> QED
      BY <1>2, <2>1, <2>2, <2>3 DEF Next, BeginStep, BeginSnapshot, BeginCommit,
         BeginPromote, BeginRemove, Begin, SnapshotStep, CheckSnapshot, CloneStarts,
         CloneEnds, Describe, Publish, Reread, Cleanup, Keep, BaseStep, Promote,
         SetBase, UndoBase, KeepNew, RemoveStep, CheckRemove, Detach, Reattach, Load,
         Start
  <1> QED
    BY <1>1, <1>2 DEF HalfDeleted

LEMMA CutShortStep ==
    ASSUME TInv, [Next]_vars
    PROVE  CutShort'
  <1>a. IInv /\ DiskTypes /\ CutShort
    BY DEF TInv, IInv
  <1>1. SUFFICES ASSUME NEW n \in Names, snapshots'[n] # None, ~Described(n)'
                 PROVE  HalfDeleted(n)'
    BY DEF CutShort, Unreadable, Active
  <1>2. CASE snapshots'[n] = snapshots[n]
    <2>1. HalfDeleted(n)
      BY <1>a, <1>1, <1>2 DEF CutShort, Unreadable, Active
    <2> QED
      BY <1>a, <1>1, <2>1, HalfDeletedStays
  <1>3. CASE snapshots'[n] # snapshots[n]
    <2>1. CASE /\ name \in Names /\ temp.parent \notin {None, name}
               /\ snapshots' = [snapshots EXCEPT ![name] = temp]
      BY <1>a, <1>1, <1>3, <2>1 DEF DiskTypes
    <2>2. CASE name \in Names /\ snapshots[name] # None /\ Shrunk(name)
      <3>1. n = name
        BY <1>a, <1>3, <2>2 DEF Shrunk, DiskTypes
      <3> QED
        BY <1>a, <1>1, <1>3, <2>2, <3>1, DeletionStep
    <2> QED
      BY <1>a, <1>3, <2>1, <2>2, SnapshotChanges
  <1> QED
    BY <1>2, <1>3

LEMMA NextTInv == TInv /\ [Next]_vars => TInv'
  BY NextIInv, ParentsKnownStep, AgedStep, CutShortStep DEF TInv

-------------------------------------------------------------------------------
(* The depths of the tree. *)

Deepest == Cardinality(Names)

\* One level more of visit.
Reach(V) == V \cup {n \in Active : snapshots[n].parent \in V}

\* visit, down to depth k.
IsVisit(g, k) == g = [d \in 0..k |-> IF d = 0 THEN TreeRoots ELSE Reach(g[d - 1])]

LEMMA DeepestIsNat == Deepest \in Nat
  BY NamesAssumption, FS_CardinalityType DEF Deepest

LEMMA VisitExists == \A k \in Nat : \E g : IsVisit(g, k)
  <1> DEFINE S == {k \in Nat : \E g : IsVisit(g, k)}
  <1>1. 0 \in S
    <2> DEFINE g == [d \in 0..0 |-> TreeRoots]
    <2>1. g = [d \in 0..0 |-> IF d = 0 THEN TreeRoots ELSE Reach(g[d - 1])]
      OBVIOUS
    <2> QED
      BY <2>1 DEF IsVisit
  <1>2. ASSUME NEW k \in S PROVE k + 1 \in S
    <2>1. PICK g : IsVisit(g, k)
      OBVIOUS
    <2> DEFINE h == [d \in 0..(k + 1) |-> IF d = k + 1 THEN Reach(g[k]) ELSE g[d]]
    <2>2. ASSUME NEW d \in 0..(k + 1)
          PROVE  h[d] = IF d = 0 THEN TreeRoots ELSE Reach(h[d - 1])
      <3> HIDE DEF S
      <3>1. k \in Nat
        BY DEF S
      <3>2. CASE d = k + 1
        <4>1. h[d] = Reach(g[k]) /\ h[d - 1] = g[k] /\ d # 0
          BY <3>1, <3>2
        <4> QED
          BY <4>1
      <3>3. CASE d = 0
        BY <2>1, <3>1, <3>3 DEF IsVisit
      <3>4. CASE d \in 1..k
        <4>1. h[d] = g[d] /\ h[d - 1] = g[d - 1]
          BY <3>1, <3>4
        <4>2. g[d] = Reach(g[d - 1])
          BY <2>1, <3>1, <3>4 DEF IsVisit
        <4> QED
          BY <3>4, <4>1, <4>2
      <3> QED
        BY <3>1, <3>2, <3>3, <3>4
    <2>3. IsVisit(h, k + 1)
      BY <2>2 DEF IsVisit
    <2> QED
      BY <2>3
  <1>3. S = Nat
    <2> HIDE DEF S
    <2> QED
      BY <1>1, <1>2, SetInduction DEF S
  <1> QED
    BY <1>3

\* What Visited is defined to be.
LEMMA VisitedSteps ==
    /\ Visited[0] = TreeRoots
    /\ \A d \in 1..Deepest : Visited[d] = Reach(Visited[d - 1])
  <1>1. IsVisit(Visited, Deepest)
    BY VisitExists, DeepestIsNat DEF IsVisit, Visited, Reach, Deepest
  <1>2. Visited = [d \in 0..Deepest |->
                     IF d = 0 THEN TreeRoots ELSE Reach(Visited[d - 1])]
    BY <1>1 DEF IsVisit
  <1> HIDE DEF Visited
  <1>3. ASSUME NEW d \in 0..Deepest
        PROVE  Visited[d] = IF d = 0 THEN TreeRoots ELSE Reach(Visited[d - 1])
    BY <1>2
  <1> QED
    BY <1>3, DeepestIsNat

\* A depth either adds nothing, and then no deeper one does, or adds a name.
LEMMA DepthStep ==
    ASSUME NEW V \in SUBSET Names, NEW k \in Nat,
           Reach(V) = V \/ k <= Cardinality(V)
    PROVE  /\ Reach(V) \in SUBSET Names
           /\ Reach(Reach(V)) = Reach(V) \/ k + 1 <= Cardinality(Reach(V))
  <1>1. Reach(V) \in SUBSET Names /\ V \in SUBSET Reach(V)
    BY DEF Reach, Active
  <1>2. CASE Reach(V) # V
    <2>1. IsFiniteSet(Reach(V)) /\ IsFiniteSet(V)
      BY <1>1, NamesAssumption, FS_Subset
    <2>2. Cardinality(V) <= Cardinality(Reach(V)) /\ Cardinality(V) # Cardinality(Reach(V))
      BY <1>1, <1>2, <2>1, FS_Subset
    <2>3. Cardinality(V) \in Nat /\ Cardinality(Reach(V)) \in Nat
      BY <2>1, FS_CardinalityType
    <2> QED
      BY <1>1, <1>2, <2>2, <2>3
  <1> QED
    BY <1>1, <1>2

LEMMA DepthsGrow ==
    \A k \in 0..Deepest :
        /\ Visited[k] \in SUBSET Names /\ TreeRoots \subseteq Visited[k]
        /\ Reach(Visited[k]) = Visited[k] \/ k <= Cardinality(Visited[k])
  <1> DEFINE Grown(k) ==
               /\ Visited[k] \in SUBSET Names /\ TreeRoots \subseteq Visited[k]
               /\ Reach(Visited[k]) = Visited[k] \/ k <= Cardinality(Visited[k])
             S == {k \in Nat : k <= Deepest => Grown(k)}
  <1>1. 0 \in S
    <2>1. TreeRoots \in SUBSET Names
      BY DEF TreeRoots, Active
    <2>2. IsFiniteSet(TreeRoots)
      BY <2>1, NamesAssumption, FS_Subset
    <2>3. 0 <= Cardinality(TreeRoots)
      BY <2>2, FS_CardinalityType
    <2> QED
      BY <2>1, <2>3, VisitedSteps
  <1>2. ASSUME NEW k \in S PROVE k + 1 \in S
    <2>1. SUFFICES ASSUME k + 1 <= Deepest PROVE Grown(k + 1)
      OBVIOUS
    <2>2. k \in Nat /\ Grown(k) /\ k + 1 \in 1..Deepest
      BY <2>1, DeepestIsNat
    <2>3. Visited[k + 1] = Reach(Visited[k])
      BY <2>2, VisitedSteps
    <2>4. TreeRoots \subseteq Reach(Visited[k])
      BY <2>2 DEF Reach
    <2> QED
      BY <2>2, <2>3, <2>4, DepthStep
  <1>3. S = Nat
    <2> HIDE DEF S
    <2> QED
      BY <1>1, <1>2, SetInduction DEF S
  <1> QED
    BY <1>3, DeepestIsNat

\* Below the deepest depth there is nothing.
LEMMA PrintedIsClosed ==
    ASSUME Unreadable = {}
    PROVE  TreeRoots \subseteq Printed /\ Reach(Printed) = Printed
  <1>1. Deepest \in 0..Deepest /\ Printed = Visited[Deepest]
    BY DeepestIsNat DEF Printed, Deepest
  <1>2. /\ Printed \in SUBSET Names /\ TreeRoots \subseteq Printed
        /\ Reach(Printed) = Printed \/ Deepest <= Cardinality(Printed)
    BY <1>1, DepthsGrow
  <1>3. CASE Deepest <= Cardinality(Printed)
    <2>1. Cardinality(Printed) = Cardinality(Names)
      BY <1>2, <1>3, NamesAssumption, FS_Subset, FS_CardinalityType DEF Deepest
    <2>2. Printed = Names
      BY <1>2, <2>1, NamesAssumption, FS_Subset
    <2> QED
      BY <1>2, <2>2 DEF Reach, Active
  <1> QED
    BY <1>2, <1>3

\* The eldest snapshot that visit missed would have its parent in the tree.
LEMMA TreeIsWhole ==
    ASSUME TInv, reused = {}, Unreadable = {}
    PROVE  Active \subseteq Printed
  <1> DEFINE Missing == Active \ Printed
  <1> SUFFICES ASSUME Missing # {} PROVE FALSE
    OBVIOUS
  <1>1. PICK age \in [Names -> Nat] : Younger(age)
    BY DEF TInv, Aged
  <1>2. PICK n \in Missing : \A m \in Missing : age[n] <= age[m]
    <2> DEFINE Ages == {age[m] : m \in Missing}
    <2>1. Ages \in SUBSET Nat /\ Ages # {}
      BY DEF Active
    <2>2. PICK least \in Ages : \A a \in Ages : least <= a
      <3> HIDE DEF Ages
      <3> QED
        BY <2>1, LeastNumber
    <2> QED
      BY <2>2
  <1> DEFINE parent == snapshots[n].parent
  <1>3. /\ n \in Names /\ n \in Active /\ n \notin Printed
        /\ snapshots[n] # None /\ parent \in Names \cup {Root}
    BY DEF Active, Unreadable, TInv, IInv, DiskTypes, Directory
  <1>4. parent # Root
    BY <1>3, PrintedIsClosed DEF TreeRoots
  <1>5. CASE parent \notin Active
    BY <1>3, <1>4, <1>5, PrintedIsClosed DEF TreeRoots, Reach
  <1>6. CASE parent \in Active
    <2>1. age[parent] < age[n] /\ parent \in Names
      BY <1>1, <1>3, <1>4 DEF Younger
    <2>2. parent \in Printed
      BY <1>2, <1>3, <1>6, <2>1
    <2> QED
      BY <1>3, <2>2, PrintedIsClosed DEF Reach
  <1> QED
    BY <1>5, <1>6

-------------------------------------------------------------------------------
(* The theorems. *)

\* Whatever is created, deleted half way, killed or refused: a parent's name
\* stands for a snapshot that is or was, and as long as no name was used twice
\* every snapshot is younger than its parent.
THEOREM ParentsPrecede == Spec => []TInv
  BY InitTInv, NextTInv, PTL DEF Spec

\* `vmctl tree` prints every snapshot, for any number of names and any history,
\* unless a name was used for a second snapshot or the command fails; and it
\* fails only where a deletion is under way, was killed or met an error, never
\* on the base.
THEOREM TreeIsComplete == Spec => []TreeMissesForACause
  <1>1. TInv => TreeMissesForACause
    BY TreeIsWhole DEF TInv, IInv, CutShort, Unreadable, BaseIsWhole, Readable,
       TreeMissesForACause
  <1> QED
    BY <1>1, ParentsPrecede, PTL
===============================================================================
