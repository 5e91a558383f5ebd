SPECIFICATION FairStoreSpec
CONSTANTS
    c1 = c1
    c2 = c2
    c3 = c3
    Calls = {c1, c2, c3}
    Records <- MCRecords
    StreamOf <- MCStreamOf
    Schemes = {"sqlite", "duckdb"}
    Dsns <- MCDsns
    Upper <- MCUpper
    Plain <- MCPlain
    MaxRuns = 2
INVARIANTS StoreInv RowsAreFiled
PROPERTIES NothingVanishes UpsertsEnd
CHECK_DEADLOCK FALSE
