\* One init waits while another holds the lock, with kills, failing operations and a source in use.
SPECIFICATION Spec
CONSTANTS
    Names = {n1, n2}
    None = None
    MaxEvents = 2
    MaxAsked = 1
    MaxCrashes = 1
    MaxFaults = 2
INVARIANTS
    TypeOK
    BaseIsWhole
    AllOrNothing
    FailsForACause
    ImportIsClean
PROPERTIES
    SourceKept
    OthersKept
SYMMETRY Symmetry
CHECK_DEADLOCK FALSE
