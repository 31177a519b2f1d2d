CONSTANTS
    Tags = {t1}
    OtherTags = {o1}
    NoTag = NoTag
    Records = {r1, r2}
    Zero = Zero
    Junk = Junk
    FF = FF
    Foreign = Foreign
    MaxAttempts = 3
    MaxPolls = 1
    SwapDuringRun = FALSE
SYMMETRY RecordSymmetry
SPECIFICATION PairedSpec
INVARIANTS TypeOK ReadTellsTruth NeverLockedOut SuccessIsStored
PROPERTIES StopIsABarrier
