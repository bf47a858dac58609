SPECIFICATION DriftSpec
CONSTANTS
    r1 = r1
    Runs = {r1}
    Initial = Initial
    None = None
    Digests = {"d0", "d1", "edited"}
    HandEdited = "edited"
    Rendered <- MCRendered
    Names <- MCNames
    MaxRev = 1
    MaxHands = 1
    Defects = {"PROMOTION-TARGET-MISMATCH"}
INVARIANTS
    DriftTypeOK
    CleanMeansDeployed
    NoFalseAlarm
CHECK_DEADLOCK FALSE
