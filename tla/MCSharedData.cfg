\* Two commands at a time, of both programs, with a purge and kills.
SPECIFICATION Spec
CONSTANTS
    Procs = {p1, p2}
    None = None
    MaxPurges = 1
    MaxCrashes = 1
INVARIANTS
    TypeOK
    OneCommandPerRoot
    BundleInOneHand
PROPERTIES
    AppliedAsReviewed
SYMMETRY Symmetry
