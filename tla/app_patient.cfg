CONSTANTS
    Records = {r1, r2}
    Names = {n1}
    SerialModes = {"prompt", "sequential"}
    Hasty = FALSE
    MaxWaiting = 2
SPECIFICATION Spec
INVARIANTS TypeOK CloneWritesWhatIsShown ResultKnowsItsOrigin SaveKnowsItsInvoker
PROPERTIES EventsReachTheirScene NoSilentClobber OneBumpPerSpool StartsAfterTheRun
SYMMETRY RecordSymmetry
