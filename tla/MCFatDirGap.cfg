SPECIFICATION DirSpec
CONSTANTS
    s = s
    t = t
    l = l
    Names = {s, t, l}
    SlotsOf <- MCSlotsOf
    LastCluster = 5
    EOF = EOF
    Absent = Absent
    NoName = NoName
    Slots = 2
    MaxCuts = 0
INVARIANTS EndIsAlias
CHECK_DEADLOCK FALSE
