------------------------------ MODULE LockApi ------------------------------
(* The lock_api adapters of src/src/sync: WduFastMtx and WduGuardedMtx       *)
(* (mutex.rs), WduPushLockRw (pushlock.rs), WduEResourceRw (eresource.rs),   *)
(* WduSpinLockMtx and WduDpcSpinLockMtx (spinlock.rs).  lock_api hands a     *)
(* guard to a thread whose lock or try_lock has returned and lets it at the  *)
(* data until it drops the guard; that no other thread is at the data is     *)
(* what the adapter has to see to.                                           *)
(*                                                                           *)
(* An adapter is given `&self' and needs a `*mut Self'.  Those of            *)
(* spinlock.rs take the address of self.0; the others write `&self as *const *)
(* _ as *mut Self', which is the address of the argument, in the frame of    *)
(* the call: the kernel is asked to lock what happens to lie on the stack.   *)
EXTENDS Integers, FiniteSets

CONSTANTS
    Threads,
    Kinds,      \* the adapters to be looked at
    MaxCalls    \* bound: calls of each thread

Mutexes == {"fast", "guarded", "spin", "dpcspin"}
RwLocks == {"push", "eresource"}

VARIABLES
    kind,     \* which adapter
    owners,   \* who owns the kernel lock inside the object, by mode
    at,       \* where each thread is
    mode,     \* the mode of its call or guard
    region,   \* how often it has entered the critical region
    calls

vars == <<kind, owners, at, mode, region, calls>>

Modes(k) == IF k \in RwLocks THEN {"shared", "exclusive"} ELSE {"exclusive"}

TypeOK ==
    /\ kind \in Kinds
    /\ owners \in [shared : SUBSET Threads, exclusive : SUBSET Threads]
    /\ at \in [Threads -> {"out", "waiting", "guard"}]
    /\ mode \in [Threads -> {"shared", "exclusive"}]
    /\ region \in [Threads -> Int] /\ calls \in [Threads -> 0..MaxCalls]

(* INIT and init_lock leave nobody in the lock.                              *)
Init ==
    /\ kind \in Kinds
    /\ owners = [shared |-> {}, exclusive |-> {}]
    /\ at = [t \in Threads |-> "out"]
    /\ mode = [t \in Threads |-> "exclusive"]
    /\ region = [t \in Threads |-> 0]
    /\ calls = [t \in Threads |-> 0]

-----------------------------------------------------------------------------
(* The lock the kernel is given: the one in the object or whatever is in the *)
(* frame.                                                                    *)
Addressed == IF kind \in {"spin", "dpcspin"} THEN "object" ELSE "frame"

(* The kernel's locks (external): an acquire is granted when nobody is in    *)
(* its way.  On a frame the lock in the object is not touched, and the first *)
(* word there is the argument, an aligned address.  Its bit 0 is 0, which    *)
(* says free to a push lock and held to a fast or guarded mutex              *)
(* (FM_LOCK_BIT); an ERESOURCE looks at bytes further on, so it may be       *)
(* granted and try_lock may be refused.                                      *)
Free(m) ==
    IF Addressed = "frame" THEN kind \in RwLocks
    ELSE owners.exclusive = {} /\ (m = "exclusive" => owners.shared = {})

Own(t, m) == owners' = IF Addressed = "frame" THEN owners ELSE [owners EXCEPT ![m] = @ \cup {t}]
Disown(t) == owners' = [m \in DOMAIN owners |-> owners[m] \ {t}]

(* enter_critical_region and leave_critical_region, in the adapters of the   *)
(* two reader/writer locks.                                                  *)
enter_critical_region(t) ==
    region' = IF kind \in RwLocks THEN [region EXCEPT ![t] = @ + 1] ELSE region
leave_critical_region(t) ==
    region' = IF kind \in RwLocks THEN [region EXCEPT ![t] = @ - 1] ELSE region

Call(t, m) ==
    /\ at[t] = "out" /\ calls[t] < MaxCalls /\ m \in Modes(kind)
    /\ mode' = [mode EXCEPT ![t] = m]
    /\ calls' = [calls EXCEPT ![t] = @ + 1]
    /\ enter_critical_region(t)

-----------------------------------------------------------------------------
(* lock, lock_shared and lock_exclusive: the region, then the acquire, which *)
(* waits.                                                                    *)
lock(t, m) ==
    /\ Call(t, m)
    /\ at' = [at EXCEPT ![t] = "waiting"]
    /\ UNCHANGED <<kind, owners>>

Acquired(t) ==
    /\ at[t] = "waiting" /\ Free(mode[t])
    /\ Own(t, mode[t])
    /\ at' = [at EXCEPT ![t] = "guard"]
    /\ UNCHANGED <<kind, mode, region, calls>>

(* try_lock: the region, then the acquire with no wait, whose answer is      *)
(* passed on; push and spin locks have it unimplemented.                     *)
try_lock(t, m) ==
    /\ kind \in {"fast", "guarded", "eresource"}
    /\ Call(t, m)
    /\ \/ Free(m) /\ Own(t, m) /\ at' = [at EXCEPT ![t] = "guard"]
       \/ (Addressed = "frame" \/ ~Free(m)) /\ UNCHANGED <<owners, at>>
    /\ UNCHANGED kind

(* unlock, unlock_shared and unlock_exclusive: the release, then the region. *)
unlock(t) ==
    /\ at[t] = "guard"
    /\ Disown(t)
    /\ leave_critical_region(t)
    /\ at' = [at EXCEPT ![t] = "out"]
    /\ UNCHANGED <<kind, mode, calls>>

Next ==
    \E t \in Threads :
        \/ \E m \in {"shared", "exclusive"} : lock(t, m) \/ try_lock(t, m)
        \/ Acquired(t) \/ unlock(t)

Spec == Init /\ [][Next]_vars

-----------------------------------------------------------------------------
(* lock_api's contract, which the feature `Adds implementation of ... Mutex  *)
(* and RwLock types' (README.md) takes on: the thread with an exclusive      *)
(* guard is the only one with a guard.                                       *)
GuardExcludes ==
    \A t, u \in Threads :
        t # u /\ at[t] = "guard" /\ at[u] = "guard" => mode[t] = "shared" /\ mode[u] = "shared"

(* A thread that has no guard and waits for none is outside the critical     *)
(* region, and one that has a guard of a reader/writer lock is inside.       *)
RegionBalanced ==
    \A t \in Threads :
        region[t] = IF kind \in RwLocks /\ at[t] # "out" THEN 1 ELSE 0
=============================================================================
