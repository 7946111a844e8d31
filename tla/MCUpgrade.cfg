\* One install after another: does the second take effect?
SPECIFICATION Spec
CONSTANTS
    Installers = {i1}
    Versions = {v1, v2}
    Sources = {s1, s2}
    None = None
    MaxRunners = 2
    MaxBreaks = 0
PROPERTIES
    UpgradeSwitches
SYMMETRY Symmetry
