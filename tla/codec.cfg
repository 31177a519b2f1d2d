SPECIFICATION Spec
CONSTANTS
    ForeignBytes = {0, 49, 97}
    MaxForeign = 1
    Tables <- MCTables
    Picks <- MCPicks
    Presets <- MCPresets
    Serials <- MCSerials
    Customs <- MCCustoms
    MaxRounds = 1
INVARIANTS
    TypeOK
    WrittenIsRead
    OwnPayloadsLast
    ShownIsPicked
PROPERTIES
    NearestIsNearest
