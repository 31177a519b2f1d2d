SPECIFICATION Spec
CONSTANTS
    Settings <- MCSettings
    Default <- MCDefault
    SerialModes = {"keep", "sequential"}
    Rests = {"zeros", "other"}
    SerialSpace = 3
    MaxCounter = 2
INVARIANT
    SerialFollowsMode
