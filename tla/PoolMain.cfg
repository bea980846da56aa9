SPECIFICATION Spec
CONSTANTS
    Count = 3
    Junk = {0, 100, 101, 102}
INVARIANT PrintsItsNumber
CHECK_DEADLOCK FALSE
