\* Kills and failing operations, up to the bounds.
SPECIFICATION Spec
CONSTANTS
    Names = {n1, n2}
    None = None
    Root = Root
    Partial = Partial
    Mixed = Mixed
    MaxWrites = 1
    MaxCrashes = 2
    MaxFaults = 2
INVARIANTS
    TypeOK
    BaseIsWhole
    AttachedSourceExists
    SnapshotsConsistent
    TreeMissesForACause
PROPERTIES
    AttachedSourceKept
    FailedCommitKeepsBase
    ImplementsLibrary
SYMMETRY Symmetry
