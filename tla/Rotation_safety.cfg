SPECIFICATION FairSpec
CONSTANTS
    None = None
    Inodes = {i1, i2, i3, i4}
    Bundles <- MCBundles
    Renderers <- MCRenderers
    Machines <- MCMachines
    Traffic <- MCTraffic
    Messages <- MCMessages
INVARIANTS
    RotationTypeOK
    ProvedMeansSound
    SoundIsRefusedOnlyHindered
    EveryWrittenMessageIsKept
PROPERTIES
    DiscardsOnlyWithoutFile
    MainEnds
CHECK_DEADLOCK FALSE
