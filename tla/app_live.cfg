CONSTANTS
    Records = {r1}
    Names = {n1}
    SerialModes = {"sequential"}
    Hasty = FALSE
    MaxWaiting = 2
SPECIFICATION FairSpec
PROPERTIES ProgressEnds
