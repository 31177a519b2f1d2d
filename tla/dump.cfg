SPECIFICATION Spec
CONSTANTS
    Names = {"a"}
    Payloads <- MCPayloads
    Held <- MCHeld
    Uids <- MCUids
INVARIANTS
    TypeOK
    LoadsAsMeant
    SavedLoadsBack
