SPECIFICATION ToolsSpec
CONSTANTS
    UserTables = {"a", "b"}
    Aliases = {"x"}
    MaxRows = 1
    MaxCalls = 3
INVARIANT FailedLoadLeavesNoRows
