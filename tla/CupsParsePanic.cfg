SPECIFICATION Spec
INVARIANTS NeverPanics
CONSTANTS
    MaxSize = 16
    Lengths = {0, 1, 15}
    Word = 1000
CHECK_DEADLOCK FALSE
