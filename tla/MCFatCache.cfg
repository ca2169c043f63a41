SPECIFICATION CacheSpec
CONSTANTS
    NumPages = 2
    NumSectors = 3
    Free = Free
    Parts = {whole}
    Vals = {0, 1}
    Zero = 0
    MaxCount = 2
    MaxRun = 2
INVARIANTS CacheTypeOK OnePagePerSector CleanPageIsOnDisc
PROPERTY StoreSpec
CHECK_DEADLOCK FALSE
