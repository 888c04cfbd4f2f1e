SPECIFICATION FairSpec
CONSTANT Cpus = {c1, c2}
INVARIANTS
    TypeOK
    WordTracksOwner
    ReleaseRestoresIrql
    NoDpcOverOwner
PROPERTY LockReleased
