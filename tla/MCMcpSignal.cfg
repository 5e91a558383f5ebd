SPECIFICATION FairMcpSpec
CONSTANTS
    MaxMessages = 1
    Calls <- MCCalls
    MaxEmits = 1
    LimitValues = {0, 1}
    HandlerStyles = {"return"}
    GlobalLimit = 1
    Asked <- MCUnasked
    Unasked = Unasked
    BadRecords = {2}
    HasStore = TRUE
PROPERTIES SignalEndsServer
CHECK_DEADLOCK FALSE
