\* A start that is interrupted before its runner has a record, and another.
SPECIFICATION Spec
CONSTANTS
    Clients = {c1}
    Runners = {r1, r2}
    None = None
    Broken = Broken
    Torn = Torn
    MaxChanges = 1
    MaxFailures = 0
    MaxGaps = 1
INVARIANT
    OneGuest
