SPECIFICATION SurfacesSpec
CONSTANTS
    Metas <- MCMetas
    Commands <- MCCommands
    MaxOps = 3
    MaxCommands = 2
    Words <- MCWords
    Segments <- MCSegments
    Commas <- MCCommas
    Numerals <- MCNumerals
    FlagInt <- MCFlagInt
    Numbers <- MCNumbers
    Sprinted <- MCSprinted
    Converted <- MCConverted
    Bracketed = "[x y]"
    FieldsOf <- MCFieldsOf
    DeclOf <- MCDeclOf
    Givens <- MCGivens
    Contexts <- MCContexts
INVARIANTS SurfacesInv RoutesAreGated BindsAsMeant LossesAreKnown
CHECK_DEADLOCK FALSE
