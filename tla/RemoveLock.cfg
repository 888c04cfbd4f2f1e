SPECIFICATION FairSpec
CONSTANTS
    Workers = {w1, w2, w3}
    Remover = r
    NoTag = NoTag
INVARIANTS
    TypeOK
    CountExact
    NobodyInsideAfterWait
PROPERTIES
    ImplementsRundown
    WaitEnds
CHECK_DEADLOCK FALSE
