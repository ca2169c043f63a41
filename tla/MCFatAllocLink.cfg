SPECIFICATION AllocSpec
CONSTANTS
    f1 = f1
    f2 = f2
    Files = {f1, f2}
    LastCluster = 5
    BytesPerRead = 4
    EOF = EOF
    Absent = Absent
    MaxTraps = 1
SYMMETRY FilePerms
INVARIANT LinkFreeAsCommented
CHECK_DEADLOCK FALSE
