SPECIFICATION DirSpec
CONSTANTS
    s = s
    t = t
    l = l
    Names = {s, t, l}
    SlotsOf <- MCSlotsOf
    LastCluster = 4
    EOF = EOF
    Absent = Absent
    NoName = NoName
    Slots = 2
    MaxCuts = 1
SYMMETRY MCSymmetry
INVARIANTS DirTypeOK ListingIsRight ClustersAreOwned UntouchedIsSafe
CHECK_DEADLOCK FALSE
