\* Two installers and an uninstall at a time, with kills and failures.  An
\* uninstall that breaks may leave a release that no later install accepts.
SPECIFICATION Spec
CONSTANTS
    Installers = {i1, i2}
    Versions = {v1, v2}
    Sources = {s1, s2}
    None = None
    MaxRunners = 2
    MaxBreaks = 1
INVARIANTS
    TypeOK
    LauncherWorks
    OneRunner
PROPERTIES
    ReportsAreTrue
SYMMETRY Symmetry
CHECK_DEADLOCK FALSE
