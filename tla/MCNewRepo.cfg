SPECIFICATION FairRepoSpec
CONSTANTS
    Templates <- MCTemplates
    SiteNames = {"reddit", "domain"}
    Binaries = {"", "rd"}
    MaxRuns = 2
    MaxForeign = 1
INVARIANTS RepoInv ExitTellsDisk
PROPERTIES ForeignIsKept RunsEnd
CHECK_DEADLOCK FALSE
