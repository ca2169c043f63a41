SPECIFICATION HeapSpec
CONSTANTS
    Word = 64
    Header = 2
    Unit = 2
    Start = 3
    End = 21
    Requests <- MCRequests
INVARIANTS HeapTypeOK ChainSound FreeIsMerged HeldIsReserved RefusedOnlyWhenFull ReallocKeepsContents
CHECK_DEADLOCK FALSE
