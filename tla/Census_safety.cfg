SPECIFICATION Spec
CONSTANTS
    None = None
    Hosts <- MCHosts
    KindOf <- MCKindOf
    Directories <- MCDirectories
    Named <- MCNamed
    Degrading <- MCDegrading
    Skips <- MCSkips
    MaxFiles = 2
    MaxBytes = 5
    MaxEntries = 3
    MaxChanges = 1
INVARIANTS
    TypeOK
    AbsentMeansLooked
    KnownIsTotal
    DegradedIsUnknown
    CustodyAddsUp
    DischargedByItsObservation
CHECK_DEADLOCK FALSE
