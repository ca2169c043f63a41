SPECIFICATION MmcSpec
CONSTANTS
    Kinds = {"sd", "sdhc", "mmc", "mmc31"}
    Blocks = 3
    BlockSize = 2
    Stale = {2, 5}
    Limit41 = 2
    MaxFaults = 2
INVARIANTS MmcTypeOK CardKnownAndFree SuccessIsRight
PROPERTIES LostCardIsNoticed CallsReturn
CHECK_DEADLOCK FALSE
