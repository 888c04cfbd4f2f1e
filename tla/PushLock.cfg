SPECIFICATION FairSpec
CONSTANT Threads = {t1, t2, t3}
INVARIANTS
    TypeOK
    ReleaseMatchesMode
    Exclusion
PROPERTIES
    ImplementsRwLock
    NotWedged
