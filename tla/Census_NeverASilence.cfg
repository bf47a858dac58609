SPECIFICATION Spec
CONSTANTS
    None = None
    Hosts <- MCSilentHosts
    KindOf <- MCKindOf
    Directories <- MCDirectories
    Named <- MCNamed
    Degrading <- MCDegrading
    Skips <- MCSkips
    MaxFiles = 2
    MaxBytes = 5
    MaxEntries = 3
    MaxChanges = 1
INVARIANT NeverASilence
CHECK_DEADLOCK FALSE
