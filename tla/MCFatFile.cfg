SPECIFICATION FileSpec
CONSTANTS
    LastCluster = 4
    EOF = EOF
    Closed = Closed
    SectorSize = 2
    Sectors = 2
    Lens <- MCLens
    Seeks <- MCSeeks
    MaxSize = 8
    MaxTraps = 0
INVARIANTS FileTypeOK PositionsMeet ChainFitsSize TransfersMeetFile ShortOnlyWhenFull
CHECK_DEADLOCK FALSE
