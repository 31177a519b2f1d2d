SPECIFICATION Spec
CONSTANTS
    Version = 5
    BrandCount = 3
    ModeCount = 4
    PaletteCount = 2
    WeightCount = 1
    Lengths = {33, 330}
    DefaultLength = 330
    MaxCounter = 10
INVARIANTS
    TypeOK
    SavedSurvives
PROPERTIES
    LoadedIsWhole
    KeepsStore
