SPECIFICATION HangingServeSpec
CONSTANTS
    Calls = {r1, r2}
    MaxEmits = 1
    LimitValues = {0}
    HandlerStyles = {"return"}
    GlobalLimit = 0
    Asked <- MCUnasked
    Unasked = Unasked
    BadRecords = {}
    HasStore = TRUE
PROPERTIES ShutdownCompletes RequestIsAnswered
CHECK_DEADLOCK FALSE
