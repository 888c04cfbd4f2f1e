SPECIFICATION Spec
CONSTANTS
    Cpus = {c1, c2}
    NoHandle = NoHandle
INVARIANT HandlePresentAtRelease
CHECK_DEADLOCK FALSE
