CONSTANTS
    Tags = {t1}
    OtherTags = {}
    NoTag = NoTag
    Records = {r1}
    Zero = Zero
    Junk = Junk
    FF = FF
    Foreign = Foreign
    MaxAttempts = 1
    MaxPolls = 1
    SwapDuringRun = FALSE
SPECIFICATION Spec
INVARIANTS SuccessHasNoGarbage
