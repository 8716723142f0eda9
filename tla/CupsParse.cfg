SPECIFICATION Spec
INVARIANTS SegmentsInOrder RefusedOnlyIfCut PanicsOnlyThere
CONSTANTS
    MaxSize = 26
    Lengths = {0, 1, 3, 4, 5, 13, 14, 30}
    Word = 31
CHECK_DEADLOCK FALSE
