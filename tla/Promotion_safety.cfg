SPECIFICATION Spec
CONSTANTS
    r1 = r1
    r2 = r2
    r3 = r3
    Runs = {r1, r2}
    Initial = Initial
    None = None
    Digests <- MCDigests
    HandEdited = "edited"
    Rendered <- MCRendered
    MaxRev = 1
    MaxHands = 2
    Defects = {"PROMOTION-TARGET-MISMATCH"}
SYMMETRY RunSymmetry
VIEW OngoingView
INVARIANT ChainUnbroken
PROPERTIES
    AcceptedIsDeployed
    ProvedRollbackRestores
CHECK_DEADLOCK FALSE
