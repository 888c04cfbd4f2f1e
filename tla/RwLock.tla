------------------------------- MODULE RwLock -------------------------------
(* What a reader/writer lock promises its callers: any number of readers, or *)
(* one writer, hold it at a time.  The detailed locks of this project are    *)
(* shown to implement this specification.                                    *)
CONSTANT Threads

VARIABLES readers, writers

rwVars == <<readers, writers>>

Init == readers = {} /\ writers = {}

AcquireShared(t) ==
    /\ t \notin readers
    /\ writers = {}
    /\ readers' = readers \cup {t}
    /\ UNCHANGED writers

AcquireExclusive(t) ==
    /\ readers = {} /\ writers = {}
    /\ writers' = {t}
    /\ UNCHANGED readers

ReleaseShared(t) ==
    /\ t \in readers
    /\ readers' = readers \ {t}
    /\ UNCHANGED writers

ReleaseExclusive(t) ==
    /\ t \in writers
    /\ writers' = writers \ {t}
    /\ UNCHANGED readers

Next == \E t \in Threads :
            \/ AcquireShared(t) \/ AcquireExclusive(t)
            \/ ReleaseShared(t) \/ ReleaseExclusive(t)

Spec == Init /\ [][Next]_rwVars
=============================================================================
