CONSTANTS
    Tags = {t1}
    OtherTags = {}
    NoTag = NoTag
    Records = {r1}
    Zero = Zero
    Junk = Junk
    FF = FF
    Foreign = Foreign
    MaxAttempts = 2
    MaxPolls = 1
    SwapDuringRun = TRUE
SPECIFICATION FairSpec
PROPERTIES EveryRunReports KeepsContract ContractIsLive
