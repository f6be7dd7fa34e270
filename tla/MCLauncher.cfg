CONSTANTS
    MaxChildren = 6
    MaxFaults = 2
    MaxAsks = 3
SPECIFICATION LauncherSpec
INVARIANTS LauncherTypeOK OneBackend NoOrphan CleanRelaunch
PROPERTIES ComesBack
CHECK_DEADLOCK FALSE
