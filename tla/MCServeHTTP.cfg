SPECIFICATION ServeSpec
CONSTANTS
    Calls = {r1, r2}
    MaxEmits = 2
    LimitValues = {1, 2}
    HandlerStyles = {"return", "ignore"}
    GlobalLimit = 2
    Asked <- MCAskedOne
    Unasked = Unasked
    BadRecords = {}
    HasStore = FALSE
SYMMETRY RequestSymmetry
INVARIANTS ServeInv BodyIsRowsOrError AskedLimitHolds
PROPERTIES RunsInvoke
CHECK_DEADLOCK FALSE
