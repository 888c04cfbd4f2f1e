SPECIFICATION FairSpec
CONSTANTS
    r1 = r1  r2 = r2  r3 = r3  f1 = f1  f2 = f2  e1 = e1
    Requests = {r1, r2}
    Files = {f1, f2}
    Events = {e1}
    FileOf <- TwoFiles
    Notify <- OneIrp
    Cancels = {r1}
    Expires = {r1, r2}
    Closes = {f1, f2}
    Cpus = 2
INVARIANTS
    OneCompleterBesideTimer
    EventOutlivesWaiters
PROPERTIES
    EveryRequestAnswered
CHECK_DEADLOCK FALSE
