SPECIFICATION Spec
CONSTANTS
    t1 = t1
    t2 = t2
    Threads = {t1, t2}
    Kinds = {"fast", "guarded", "push", "spin", "dpcspin"}
    MaxCalls = 2
INVARIANTS
    GuardExcludes
CHECK_DEADLOCK FALSE
