SPECIFICATION FairMcpSpec
CONSTANTS
    MaxMessages = 2
    Calls <- MCCalls
    MaxEmits = 2
    LimitValues = {0}
    HandlerStyles = {"return", "ignore"}
    GlobalLimit = 0
    Asked <- MCUnasked
    Unasked = Unasked
    BadRecords = {2}
    HasStore = TRUE
INVARIANTS McpInv AnsweredUnlessUnencodable DrainedBeforeExit
PROPERTIES EofEndsServer
CHECK_DEADLOCK FALSE
