SPECIFICATION FairSpec
CONSTANTS
    c1 = c1
    c2 = c2
    p1 = p1
    p2 = p2
    o1 = o1
    n1 = n1
    n2 = n2
    Clients = {c1, c2}
    Procs = {p1, p2}
    Openers = {o1}
    Names = {n1, n2}
    Asked = {n1}
    Unloader = unloader
    None = none
    MaxRegister = 2
    MaxCreate = 2
    MaxOverlap = 1
INVARIANTS
    TypeOK
    InstalledAgrees
    TargetPairAgrees
    CallContextOnce
    NothingCalledAfterUnload
PROPERTIES
    UnloadEnds
    RequestEnds
CHECK_DEADLOCK FALSE
