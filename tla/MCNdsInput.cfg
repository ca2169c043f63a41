SPECIFICATION InputSpec
CONSTANTS
    a = a
    b = b
    Pads <- MCPads
    Esc = Esc
    Ring = 2
    Word = 6
INVARIANTS InputTypeOK ReadIsFresh ViewFollows
PROPERTIES CopyIsWhole
SYMMETRY Symmetry
CHECK_DEADLOCK FALSE
