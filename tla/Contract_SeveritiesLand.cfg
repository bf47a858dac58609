SPECIFICATION Spec
CONSTANTS
    None = None
    Contract0 <- MCContract0
    Inventory0 <- MCInventory0
    Documents <- MCDocuments
    Tables <- MCTables
    Records <- MCRecords
    Alerts <- MCAlerts
    Packets <- MCPackets
    Public = {"routes", "default"}
    Private = {}
    MaxChanges = 2
INVARIANT SeveritiesLand
