SPECIFICATION MCSpec
CONSTANTS
    Questions <- MCQuestions
    InheritedNames = {"constructor"}
    UnsafeIdentifiers = {"in", "delete", "in-", "g-o", "g.o"}
    ReservedNames = {"xript", "XriptSlot", "XriptGlobals"}
    Capability <- MCCapability
    CommandIds = {"go", "run"}
    RoleNames = {"palette", "player"}
    NameOrder <- MCNameOrder
    KnownFormats = {"html"}
    BrokenSources = {"<bad"}
    MarkupSources = {"<b>", "<bad"}
    SpeaksVersions <- MCVersions
    VersionLines <- MCVersionLines
    SchemaUrls <- MCSchemaUrls
    Pascal <- MCPascal
INVARIANTS
    ChainsFlatten  LoadOrderInvisible  ReportsHold
CHECK_DEADLOCK FALSE
