SPECIFICATION Spec
CONSTANTS
    r1 = r1  r2 = r2  r3 = r3  f1 = f1  f2 = f2  e1 = e1
    Requests = {r1, r2, r3}
    Files = {f1}
    Events = {e1}
    FileOf <- OneFile
    Notify <- AllIrps
    Cancels = {r1}
    Expires = {r1}
    Closes = {}
    Cpus = 1
INVARIANT CompletedAtMostOnce
CHECK_DEADLOCK FALSE
