\* Kills only, no failing operation: does live.json name the cloned snapshot?
SPECIFICATION Spec
CONSTANTS
    Snapshots = {s1, s2}
    Ids = {t1, t2}
    None = None
    Partial = Partial
    Empty = Empty
    MaxWrites = 1
    MaxCrashes = 2
    MaxFaults = 0
INVARIANT
    OriginNamesClone
