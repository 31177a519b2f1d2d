CONSTANTS
    Records = {}
    Names = {n1}
    SerialModes = {"prompt"}
    Hasty = TRUE
    MaxWaiting = 2
SPECIFICATION Spec
INVARIANTS NfcOnlyOnItsScreen
PROPERTIES MenuIsSafe
