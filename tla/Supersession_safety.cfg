SPECIFICATION Spec
CONSTANTS
    r1 = r1
    r2 = r2
    r3 = r3
    Runs = {r1, r2}
    Operator = Operator
    None = None
    Ids <- MCIds
    Names = {"inv", "other"}
    Shapes = {"data-object", "field"}
    Shape = "field"
    Inventories <- MCInventories
    Declarations <- MCDeclarations
    Changes <- MCChanges
    MaxCommits = 3
    MaxByHand = 1
SYMMETRY RunSymmetry
INVARIANTS
    TypeOK
    SingleUse
    OnlyReviewedEntriesLeave
PROPERTIES
    SuccessIsStored
    ImplementsRegister
CHECK_DEADLOCK FALSE
