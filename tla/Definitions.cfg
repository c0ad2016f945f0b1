SPECIFICATION Spec
CONSTANTS
    c1 = c1
    c2 = c2
    Client = {c1, c2}
    Process = {p1, p2}
    None = None
    Shipped = Shipped
    Upload <- MCUpload
    Supported = {"PipelineDef", "StoreDef", "AccessorDef", "OpDef"}
    BuiltIn <- MCBuiltIn
    PageSize = 1
    Settings <- MCSettings
CHECK_DEADLOCK FALSE
INVARIANTS DefinitionsAreSound ListingIsComplete
