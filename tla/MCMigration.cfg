\* One process: is a migration refused while the old VM runs?
SPECIFICATION Spec
CONSTANTS
    Procs = {p1}
    None = None
    MaxPurges = 0
    MaxCrashes = 0
PROPERTIES
    ApplyRefusesRunning
