SPECIFICATION FairRepoSpec
CONSTANTS
    Templates <- MCTemplates
    SiteNames = {"reddit"}
    Binaries = {""}
    MaxRuns = 1
    MaxForeign = 1
PROPERTIES RenderNeverOverwrites
CHECK_DEADLOCK FALSE
