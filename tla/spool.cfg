SPECIFICATION Spec
CONSTANTS
    Settings <- MCSettings
    Default <- MCDefault
    SerialModes = {"keep", "random", "prompt", "sequential"}
    Rests = {"zeros", "other"}
    SerialSpace = 3
    MaxCounter = 3
INVARIANTS
    TypeOK
    SerialComesFromMode
    BothTagsAlike
    CounterAhead
PROPERTIES
    SavedNamesTheSpool
CONSTRAINT NotLost
