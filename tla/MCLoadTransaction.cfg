\* Every kill and every failed file-system operation, up to the bounds.
SPECIFICATION FairSpec
CONSTANTS
    Snapshots = {s1, s2}
    Ids = {t1, t2}
    None = None
    Partial = Partial
    Empty = Empty
    MaxWrites = 1
    MaxCrashes = 2
    MaxFaults = 2
INVARIANTS
    TypeOK
    NothingLost
    NoGuestDuringTransaction
    PendingIsJournaled
    WrongOriginLeavesEvidence
PROPERTIES
    ReportsAreTrue
    DeletedOnlyAfterCommit
    ImplementsLiveVM
    RecoveryEnds
CHECK_DEADLOCK TRUE
