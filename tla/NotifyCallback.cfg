SPECIFICATION Spec
CONSTANTS
    o1 = o1
    o2 = o2
    o3 = o3
    r1 = r1
    r2 = r2
    h1 = h1
    h2 = h2
    Objects = {o1, o2, o3}
    Routines = {r1, r2}
    None = none
    RefuseDuplicate = FALSE
    Slots = 4
    Handles = {h1, h2}
INVARIANTS
    EveryHolderBacked
    UnregisterNeverFails
    ProperUseIsSafe
CHECK_DEADLOCK FALSE
