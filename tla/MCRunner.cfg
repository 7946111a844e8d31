\* Two commands at a time, two runners; a runner dies or a write fails.
SPECIFICATION Spec
CONSTANTS
    Clients = {c1, c2}
    Runners = {r1, r2}
    None = None
    Broken = Broken
    Torn = Torn
    MaxChanges = 1
    MaxFailures = 1
    MaxGaps = 0
INVARIANTS
    TypeOK
    GuestIsRecorded
    SavedStateFits
    PowerCutOnlyAfterRequest
PROPERTIES
    ReplacedOnlyWhenOff
    StopReportsAreTrue
    StartReportsAreTrue
    ImplementsSession
SYMMETRY Symmetry
