SPECIFICATION ScreenFairSpec
CONSTANTS
    Up0 = Up0
    Up1 = Up1
    Down0 = Down0
    Down1 = Down1
    C0 = C0
    None = None
    Buffers <- MCBuffers
    RingSize = 5
    MaxW = 3
INVARIANTS
    ScreenTypeOK
    DrawTargetIdle
PROPERTY FlipReturns
CHECK_DEADLOCK FALSE
