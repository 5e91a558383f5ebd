SPECIFICATION FairCliSpec
CONSTANTS
    cmd = cmd
    Calls = {cmd}
    MaxEmits = 3
    LimitValues <- MCLimits
    HandlerStyles = {"return", "wrap"}
INVARIANTS InvokeInv DeliveryIsAccounted VerdictIsRight CliInv ExitCodeTells
PROPERTIES IsRecordStream LimitEndsRun
CHECK_DEADLOCK FALSE
