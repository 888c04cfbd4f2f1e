------------------------------ MODULE PushLock ------------------------------
(* WduPushLock (src/src/sync/pushlock.rs): a reader/writer lock whose kernel *)
(* word is released by one method, release, which decides between the shared *)
(* and the exclusive kernel call from the field `access'.  That field is     *)
(* shared by every thread that uses the lock and is written after the kernel *)
(* acquire has returned, so the acquire, the store, the read of the field    *)
(* and the kernel release are steps of their own here.                       *)
EXTENDS Integers, FiniteSets

CONSTANT Threads

ASSUME ThreadsAssumption == IsFiniteSet(Threads)

VARIABLES
    access,     \* WduPushLock.access, shared by all threads
    pushlock,   \* WduPushLock.pushlock, the word the kernel works on
    pc,         \* where each thread is in acquired_shared/.../release
    mode,       \* the mode the thread asked for (its caller's intent)
    arm         \* the arm of release's match the thread has taken

vars == <<access, pushlock, pc, mode, arm>>

PushLockAccess == {"None", "Exclusive", "Shared"}
AcquireMode == PushLockAccess \ {"None"}

new == [exclusive |-> FALSE, shares |-> 0]

TypeOK ==
    /\ access \in PushLockAccess
    /\ pushlock \in [exclusive : BOOLEAN, shares : Nat]
    /\ pc \in [Threads -> {"idle", "acquire", "store", "hold", "release"}]
    /\ mode \in [Threads -> AcquireMode]
    /\ arm \in [Threads -> PushLockAccess]

Init ==
    /\ access = "None"
    /\ pushlock = new
    /\ pc = [t \in Threads |-> "idle"]
    /\ mode = [t \in Threads |-> "Shared"]
    /\ arm = [t \in Threads |-> "None"]

-----------------------------------------------------------------------------
(* The kernel's operations on the word.                                      *)

ExAcquirePushLock(m) ==
    \/ /\ m = "Shared" /\ ~pushlock.exclusive
       /\ pushlock' = [pushlock EXCEPT !.shares = @ + 1]
    \/ /\ m = "Exclusive" /\ ~pushlock.exclusive /\ pushlock.shares = 0
       /\ pushlock' = [pushlock EXCEPT !.exclusive = TRUE]

ExReleasePushLock(m) ==
    pushlock' = IF m = "Shared" THEN [pushlock EXCEPT !.shares = @ - 1]
                                ELSE [pushlock EXCEPT !.exclusive = FALSE]

-----------------------------------------------------------------------------
(* Plausible mistakes, used to see that the properties notice them: the mode *)
(* noted before the kernel acquire; acquire_exclusive calling the shared     *)
(* routine; release's Shared arm left out.                                   *)
CallAcquireNotesModeEarly(t) ==
    /\ pc[t] = "idle"
    /\ \E m \in AcquireMode : mode' = [mode EXCEPT ![t] = m] /\ access' = m
    /\ pc' = [pc EXCEPT ![t] = "acquire"]
    /\ UNCHANGED <<pushlock, arm>>

KernelAcquireAlwaysShared(t) ==
    /\ pc[t] = "acquire"
    /\ ExAcquirePushLock("Shared")
    /\ pc' = [pc EXCEPT ![t] = "store"]
    /\ UNCHANGED <<access, mode, arm>>

KernelReleaseForgetsShared(t) ==
    /\ pc[t] = "release"
    /\ IF arm[t] # "Exclusive" THEN UNCHANGED pushlock ELSE ExReleasePushLock(arm[t])
    /\ pc' = [pc EXCEPT ![t] = "idle"]
    /\ UNCHANGED <<access, mode, arm>>

-----------------------------------------------------------------------------
(* A thread calls acquired_shared or acquire_exclusive.                      *)
CallAcquire(t) ==
    /\ pc[t] = "idle"
    /\ \E m \in AcquireMode : mode' = [mode EXCEPT ![t] = m]
    /\ pc' = [pc EXCEPT ![t] = "acquire"]
    /\ UNCHANGED <<access, pushlock, arm>>

KernelAcquire(t) ==
    /\ pc[t] = "acquire"
    /\ ExAcquirePushLock(mode[t])
    /\ pc' = [pc EXCEPT ![t] = "store"]
    /\ UNCHANGED <<access, mode, arm>>

StoreAccess(t) ==
    /\ pc[t] = "store"
    /\ access' = mode[t]
    /\ pc' = [pc EXCEPT ![t] = "hold"]
    /\ UNCHANGED <<pushlock, mode, arm>>

(* release: `match self.access'.                                             *)
MatchAccess(t) ==
    /\ pc[t] = "hold"
    /\ arm' = [arm EXCEPT ![t] = access]
    /\ pc' = [pc EXCEPT ![t] = "release"]
    /\ UNCHANGED <<access, pushlock, mode>>

(* release: the kernel call of the arm taken; the arm None calls nothing,    *)
(* and access keeps its value in every case.                                 *)
KernelRelease(t) ==
    /\ pc[t] = "release"
    /\ IF arm[t] = "None" THEN UNCHANGED pushlock ELSE ExReleasePushLock(arm[t])
    /\ pc' = [pc EXCEPT ![t] = "idle"]
    /\ UNCHANGED <<access, mode, arm>>

Step(t) ==
    \/ CallAcquire(t) \/ KernelAcquire(t) \/ StoreAccess(t)
    \/ MatchAccess(t) \/ KernelRelease(t)

Next == \E t \in Threads : Step(t)

(* Once it has called acquire, a thread runs to the end of its release; a    *)
(* caller is free never to call.                                             *)
Run(t) == KernelAcquire(t) \/ StoreAccess(t) \/ MatchAccess(t) \/ KernelRelease(t)

Spec == Init /\ [][Next]_vars

FairSpec == Spec /\ \A t \in Threads : WF_vars(Run(t))

-----------------------------------------------------------------------------
Owns(t) == pc[t] \in {"store", "hold", "release"}
Holders(m) == {t \in Threads : Owns(t) /\ mode[t] = m}

(* The arm of release's match a thread takes is the mode it acquired the     *)
(* lock in, although access was last written by whichever thread happened to *)
(* store it: the kernel word is never released in the wrong mode.            *)
ReleaseMatchesMode == \A t \in Threads : pc[t] = "release" => arm[t] = mode[t]

(* Past its own store, an owner of the lock finds its own mode in access.    *)
AccessAgrees == \A t \in Threads : pc[t] \in {"hold", "release"} => access = mode[t]

(* The kernel word counts exactly the threads that own the lock.             *)
WordCountsOwners ==
    /\ pushlock.shares = Cardinality(Holders("Shared"))
    /\ pushlock.exclusive <=> Holders("Exclusive") # {}

(* Readers and a writer never own the lock together, and neither do two      *)
(* writers.                                                                  *)
Exclusion ==
    \A t, u \in Threads :
        t # u /\ Owns(t) /\ Owns(u) => mode[t] = "Shared" /\ mode[u] = "Shared"

(* The inductive invariant.                                                  *)
IInv ==
    /\ TypeOK
    /\ AccessAgrees
    /\ ReleaseMatchesMode
    /\ WordCountsOwners
    /\ Exclusion

(* The lock is never wedged: whenever a thread waits in a kernel acquire,    *)
(* some thread's acquire eventually succeeds, which needs every release to   *)
(* have given the word back in the right mode.                               *)
NotWedged == (\E t \in Threads : pc[t] = "acquire") ~> (\E t \in Threads : pc[t] = "store")

RW == INSTANCE RwLock WITH readers <- Holders("Shared"),
                           writers <- Holders("Exclusive")

(* The push lock implements the reader/writer lock of module RwLock.         *)
ImplementsRwLock == RW!Spec
=============================================================================
