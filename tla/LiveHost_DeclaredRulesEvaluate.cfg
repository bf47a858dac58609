SPECIFICATION Spec
CONSTANTS
    None = None
    Subject = "observer"
    Tree <- MCTree
    Expected <- MCExpected
    Declared <- MCExpected
    Alerts = {"Ingest"}
    dropped_total = dropped_total
    late_total = late_total
    Counters = {dropped_total, late_total}
    Window = 1
    Routes <- MCRoutes
    Receivers = {"oncall"}
    Surfaces <- MCSurfaces
    Worlds <- MCWorlds
    AsRendered <- MCAsRendered
    Mishaps <- MCMishaps
    Filings <- MCFilings
    Handed <- MCHanded
    MaxNow = 2
    MaxRejected = 2
INVARIANT DeclaredRulesEvaluate
CHECK_DEADLOCK FALSE
