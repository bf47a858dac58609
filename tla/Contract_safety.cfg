SPECIFICATION Spec
CONSTANTS
    None = None
    Contract0 <- MCContract0
    Inventory0 <- MCInventory0
    Documents <- MCDocuments
    Tables <- MCTables
    Records <- MCRecords
    Alerts <- MCAlerts
    Packets <- MCPackets
    Public = {"jobs", "federations", "datasources", "receivers", "smtp", "default", "routes", "source_sets", "surfaces", "policy"}
    Private = {"targets", "federations", "receivers", "source_sets", "environment"}
    MaxChanges = 2
INVARIANTS
    ContractTypeOK
    EveryLookupSucceeds
    ScrapesAsDeclared
    EveryBindingIsRead
    ClaimedSeverityIsSent
    OnlyDeclaredSourcesReach
PROPERTIES
    RefusedByItsRule
