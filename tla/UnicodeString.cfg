SPECIFICATION Spec
CONSTANTS
    Objects = {s1, s2, s3}
    Limit = 8
    MaxUnits = 5
    MaxInt = {3, 6}
    VecSize = 4
    MaxAlloc = 3
INVARIANTS
    OwnedOnce
    LengthsFit
CHECK_DEADLOCK FALSE
