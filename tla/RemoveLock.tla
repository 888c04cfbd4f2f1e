----------------------------- MODULE RemoveLock -----------------------------
(* WduRemoveLock (src/src/sync/remove_lock.rs) in the role the event sample  *)
(* gives it: a lock in the FsContext of a file object, taken by every        *)
(* request on the file (the workers) and run down by the file's cleanup (the *)
(* remover), after which close frees it.  The wrapper adds the field         *)
(* lock_tag, written before the kernel's acquire and cleared after its       *)
(* release.  The kernel counts its users in IoCount, which starts at one.    *)
EXTENDS Integers, FiniteSets

CONSTANTS Workers,   \* the requests on the file (IRPs, the tags of their acquires)
          Remover,   \* the cleanup request
          NoTag      \* lock_tag is None

ASSUME RemoveLockAssumption == IsFiniteSet(Workers) /\ Remover \notin Workers

Users == Workers \cup {Remover}

VARIABLES
    lock_tag,   \* WduRemoveLock.lock_tag
    ioCount,    \* IO_REMOVE_LOCK.IoCount
    removed,    \* IO_REMOVE_LOCK.Removed
    event,      \* IO_REMOVE_LOCK.RemoveEvent is signalled
    freed,      \* close has freed the FileContext that holds the lock
    pc

vars == <<lock_tag, ioCount, removed, event, freed, pc>>

TypeOK ==
    /\ lock_tag \in Users \cup {NoTag}
    /\ ioCount \in Nat
    /\ removed \in BOOLEAN /\ event \in BOOLEAN /\ freed \in BOOLEAN
    /\ pc \in [Users -> {"idle", "increment", "check", "held", "clear", "refused",
                         "drop_own", "drop_initial", "waiting", "through", "done"}]

(* new and init.                                                             *)
Init ==
    /\ lock_tag = NoTag
    /\ ioCount = 1
    /\ removed = FALSE /\ event = FALSE /\ freed = FALSE
    /\ pc = [u \in Users |-> "idle"]

Goto(u, where) == pc' = [pc EXCEPT ![u] = where]

(* The kernel's interlocked decrement; the last one sets the event.          *)
Decrement ==
    /\ ioCount' = ioCount - 1
    /\ event' = (event \/ ioCount = 1)

-----------------------------------------------------------------------------
(* Plausible mistakes: the wait for the event left out; the remover's own    *)
(* count kept; a refused caller let in; a caller not counted.                *)
IncrementForgotten(u) ==
    /\ pc[u] = "increment"
    /\ Goto(u, "check")
    /\ UNCHANGED <<lock_tag, ioCount, removed, event, freed>>

DropInitialNoWait ==
    /\ pc[Remover] = "drop_initial"
    /\ ioCount' = ioCount - 1
    /\ Goto(Remover, "through")
    /\ UNCHANGED <<lock_tag, removed, event, freed>>

DropOwnForgotten ==
    /\ pc[Remover] = "drop_own"
    /\ Goto(Remover, "drop_initial")
    /\ UNCHANGED <<lock_tag, ioCount, removed, event, freed>>

CheckIgnoresRemoved(u) ==
    /\ pc[u] = "check"
    /\ Goto(u, "held")
    /\ UNCHANGED <<lock_tag, ioCount, removed, event, freed>>

-----------------------------------------------------------------------------
(* acquire: `self.lock_tag = tag', then IoAcquireRemoveLockEx, which counts  *)
(* the caller and takes it back when the lock is being removed.              *)
StoreTag(u) ==
    /\ pc[u] = "idle" /\ ~freed
    /\ lock_tag' = u
    /\ Goto(u, "increment")
    /\ UNCHANGED <<ioCount, removed, event, freed>>

Increment(u) ==
    /\ pc[u] = "increment"
    /\ ioCount' = ioCount + 1
    /\ Goto(u, "check")
    /\ UNCHANGED <<lock_tag, removed, event, freed>>

Check(u) ==
    /\ pc[u] = "check"
    /\ \/ ~removed /\ Goto(u, "held") /\ UNCHANGED <<ioCount, event>>
       \/ removed /\ Goto(u, "refused") /\ Decrement
    /\ UNCHANGED <<lock_tag, removed, freed>>

(* release: the kernel call, then `self.lock_tag = None'.                    *)
KernelRelease(w) ==
    /\ pc[w] = "held"
    /\ Decrement
    /\ Goto(w, "clear")
    /\ UNCHANGED <<lock_tag, removed, freed>>

ClearTag(w) ==
    /\ pc[w] = "clear"
    /\ lock_tag' = NoTag
    /\ Goto(w, "done")
    /\ UNCHANGED <<ioCount, removed, event, freed>>

(* release_and_wait: IoReleaseRemoveLockAndWaitEx marks the lock removed,    *)
(* drops the caller's count and the initial one, and waits unless that was   *)
(* the last; then `self.lock_tag = None'.                                    *)
SetRemoved ==
    /\ pc[Remover] = "held"
    /\ removed' = TRUE
    /\ Goto(Remover, "drop_own")
    /\ UNCHANGED <<lock_tag, ioCount, event, freed>>

DropOwn ==
    /\ pc[Remover] = "drop_own"
    /\ ioCount' = ioCount - 1
    /\ Goto(Remover, "drop_initial")
    /\ UNCHANGED <<lock_tag, removed, event, freed>>

DropInitial ==
    /\ pc[Remover] = "drop_initial"
    /\ ioCount' = ioCount - 1
    /\ Goto(Remover, IF ioCount' > 0 THEN "waiting" ELSE "through")
    /\ UNCHANGED <<lock_tag, removed, event, freed>>

Wake ==
    /\ pc[Remover] = "waiting" /\ event
    /\ Goto(Remover, "through")
    /\ UNCHANGED <<lock_tag, ioCount, removed, event, freed>>

ClearTagAfterWait ==
    /\ pc[Remover] = "through"
    /\ lock_tag' = NoTag
    /\ Goto(Remover, "done")
    /\ UNCHANGED <<ioCount, removed, event, freed>>

(* The file is closed once cleanup is over and no request is on its way in:  *)
(* a request that has been completed no longer keeps the file object, though *)
(* its handler may still be returning through release.                       *)
Close ==
    /\ pc[Remover] = "done" /\ ~freed
    /\ \A w \in Workers : pc[w] \in {"idle", "clear", "refused", "done"}
    /\ freed' = TRUE
    /\ UNCHANGED <<lock_tag, ioCount, removed, event, pc>>

Acquire(u) == StoreTag(u) \/ Increment(u) \/ Check(u)
ReleaseStep(w) == KernelRelease(w) \/ ClearTag(w)
ReleaseAndWait ==
    SetRemoved \/ DropOwn \/ DropInitial \/ Wake \/ ClearTagAfterWait

Next ==
    \/ \E u \in Users : Acquire(u)
    \/ \E w \in Workers : ReleaseStep(w)
    \/ ReleaseAndWait
    \/ Close

Spec == Init /\ [][Next]_vars

(* Handlers run to their end; requests need not come, and the remover is     *)
(* scheduled once it has started.                                            *)
FairSpec ==
    /\ Spec
    /\ \A u \in Users : WF_vars(Increment(u) \/ Check(u))
    /\ \A w \in Workers : WF_vars(ReleaseStep(w))
    /\ WF_vars(ReleaseAndWait)

-----------------------------------------------------------------------------
(* The users the kernel's count stands for, besides the initial one.         *)
Counted == {u \in Users : pc[u] \in {"check", "held", "drop_own"}}
InitialCounted == pc[Remover] \notin {"waiting", "through", "done"}

(* The count is the number of users plus the initial one until the remover   *)
(* gives that up: no acquire, refusal or release is counted twice or lost.   *)
CountExact == ioCount = Cardinality(Counted) + (IF InitialCounted THEN 1 ELSE 0)

(* When release_and_wait has come through, no request on the file is inside, *)
(* and none gets in afterwards.                                              *)
NobodyInsideAfterWait ==
    pc[Remover] \in {"through", "done"} => \A w \in Workers : pc[w] # "held"

(* The remover never waits forever: an event it could miss has either been   *)
(* set or has somebody left to set it.                                       *)
WaitEnds == (pc[Remover] = "waiting") ~> (pc[Remover] = "done")

RD == INSTANCE Rundown WITH
        Users  <- Workers,
        inside <- {w \in Workers : pc[w] = "held"},
        phase  <- IF ~removed THEN "open"
                  ELSE IF pc[Remover] \in {"through", "done"} THEN "closed" ELSE "closing"

(* The remove lock implements run-down protection for its workers.           *)
ImplementsRundown == RD!Spec

(* Inductive invariant: the lock is marked removed exactly while its remover *)
(* is past that step, only the remover runs the remover's steps, and a set   *)
(* event, like a remover that came through, means that nobody is inside.     *)
RemovedAgrees ==
    removed <=> pc[Remover] \in {"drop_own", "drop_initial", "waiting", "through", "done"}
OwnSteps ==
    /\ pc[Remover] \notin {"clear", "refused"}
    /\ \A w \in Workers : pc[w] \notin {"drop_own", "drop_initial", "waiting", "through"}
EventMeansEmpty ==
    event => ~InitialCounted /\ \A w \in Workers : pc[w] # "held"
IInv ==
    TypeOK /\ CountExact /\ NobodyInsideAfterWait
           /\ RemovedAgrees /\ OwnSteps /\ EventMeansEmpty

(* The reference device_control holds to the lock is safe to use until it    *)
(* returns: the lock is not freed under a release.                           *)
LockOutlivesRelease == \A w \in Workers : pc[w] \in {"held", "clear"} => ~freed
=============================================================================
