CONSTANTS
    Records = {r1}
    Names = {n1}
    SerialModes = {"prompt", "sequential"}
    Hasty = FALSE
    MaxWaiting = 2
SPECIFICATION Spec
PROPERTIES NoStaleWorkerEvent
