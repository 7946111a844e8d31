\* One command at a time, and nothing fails.
SPECIFICATION Spec
CONSTANTS
    Clients = {c1}
    Runners = {r1}
    None = None
    Broken = Broken
    Torn = Torn
    MaxChanges = 1
    MaxFailures = 0
    MaxGaps = 0
PROPERTY
    ShutdownReportsAreTrue
