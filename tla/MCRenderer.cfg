SPECIFICATION MCSpec
CONSTANTS
    Keys = {"id", "url", "name", "key", "base", "other"}
    IdKey = "id"
    UrlKey = "url"
    Shapes <- MCShapes
    MaxRecords = 3
    Projections <- MCProjections
    Explicit <- MCExplicit
INVARIANTS RendererInv AcceptedIsWritten JsonIsOneArray ColumnsAgree
CHECK_DEADLOCK FALSE
