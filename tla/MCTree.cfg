\* No kill and no failure: does the tree show every snapshot?
SPECIFICATION Spec
CONSTANTS
    Names = {n1, n2, n3}
    None = None
    Root = Root
    Partial = Partial
    Mixed = Mixed
    MaxWrites = 1
    MaxCrashes = 0
    MaxFaults = 0
INVARIANT
    TreeShowsEverySnapshot
