SPECIFICATION FairSpec
CONSTANTS
    video0 = video0
    audio0 = audio0
    c0set = c0set
    Buffers <- MCBuffers
    C0 = c0set
    None = None
    RingSize = 3
    MaxW = 4
INVARIANTS
    TypeOK
    OneRequestPerUsedBuffer
    PendingBound
    PendingIsSignalled
PROPERTY QueuedIsServed
CHECK_DEADLOCK FALSE
