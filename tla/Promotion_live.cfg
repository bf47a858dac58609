SPECIFICATION FairSpec
CONSTANTS
    r1 = r1
    r2 = r2
    r3 = r3
    Runs = {r1, r2}
    Initial = Initial
    None = None
    Digests <- MCDigests
    HandEdited = "edited"
    Rendered <- MCRendered
    MaxRev = 1
    MaxHands = 0
    Defects = {"PROMOTION-TARGET-MISMATCH"}
INVARIANTS
    TypeOK
    RevisionsNeverGoBack
    FailureAfterStagingIsNamed
PROPERTIES
    ImplementsRecord
    DispatchedRunEnds
CHECK_DEADLOCK FALSE
