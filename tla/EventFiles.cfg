SPECIFICATION Spec
CONSTANTS
    r1 = r1  r2 = r2  r3 = r3  f1 = f1  f2 = f2  e1 = e1
    Requests = {r1, r2, r3}
    Files = {f1, f2}
    Events = {e1}
    FileOf <- TwoFiles
    Notify <- OneIrp
    Cancels = {r1}
    Expires = {r2, r3}
    Closes = {f1, f2}
    Cpus = 2
INVARIANTS
    FileOutlivesRundown
    CompletedAtMostOnce
    EventRefsBalanced
    OneSignalPerRegistration
    UnloadQueueEmpty
PROPERTIES
    NoRegistrationAfterCleanup
CHECK_DEADLOCK FALSE
