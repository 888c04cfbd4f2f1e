--------------------------- MODULE PushLockProofs ---------------------------
(* For any finite set of threads, the push lock is released in the mode it   *)
(* was acquired in and implements the reader/writer lock.                    *)
EXTENDS PushLock, FiniteSetTheorems, TLAPS

(* The sets of shared and exclusive owners are finite sets of threads, so    *)
(* the cardinality the kernel word is compared with is a natural number.     *)
LEMMA HoldersFinite ==
    ASSUME NEW m PROVE IsFiniteSet(Holders(m)) /\ Cardinality(Holders(m)) \in Nat
<1>1. Holders(m) \subseteq Threads BY DEF Holders
<1>2. IsFiniteSet(Holders(m)) BY <1>1, ThreadsAssumption, FS_Subset
<1> QED BY <1>2, FS_CardinalityType

(* A thread that gets the lock in the kernel joins the owners of its mode,   *)
(* and the other owners stay.                                                *)
LEMMA AcquireAddsHolder ==
    ASSUME IInv, NEW t \in Threads, KernelAcquire(t)
    PROVE  /\ t \notin Holders(mode[t])
           /\ \A m \in AcquireMode :
                 Holders(m)' = IF m = mode[t] THEN Holders(m) \cup {t} ELSE Holders(m)
BY DEF IInv, TypeOK, KernelAcquire, Holders, Owns, AcquireMode

(* A thread that calls the kernel release leaves the owners of its mode.     *)
LEMMA ReleaseRemovesHolder ==
    ASSUME IInv, NEW t \in Threads, KernelRelease(t)
    PROVE  /\ t \in Holders(mode[t])
           /\ \A m \in AcquireMode :
                 Holders(m)' = IF m = mode[t] THEN Holders(m) \ {t} ELSE Holders(m)
BY DEF IInv, TypeOK, KernelRelease, Holders, Owns, AcquireMode

(* Calls, stores and reads of access change nobody's ownership.              *)
LEMMA OthersKeepHolders ==
    ASSUME IInv, NEW t \in Threads,
           CallAcquire(t) \/ StoreAccess(t) \/ MatchAccess(t)
    PROVE  \A m \in AcquireMode : Holders(m)' = Holders(m)
<1>1. CASE CallAcquire(t)
    BY <1>1 DEF IInv, TypeOK, CallAcquire, Holders, Owns, AcquireMode
<1>2. CASE StoreAccess(t)
    BY <1>2 DEF IInv, TypeOK, StoreAccess, Holders, Owns, AcquireMode
<1>3. CASE MatchAccess(t)
    BY <1>3 DEF IInv, TypeOK, MatchAccess, Holders, Owns, AcquireMode
<1> QED BY <1>1, <1>2, <1>3

(* A new lock is free, and no thread is inside it.                           *)
LEMMA InitIInv == Init => IInv
<1> SUFFICES ASSUME Init PROVE IInv OBVIOUS
<1>1. \A m \in AcquireMode : Holders(m) = {} BY DEF Init, Holders, Owns
<1>2. TypeOK BY DEF Init, TypeOK, new, PushLockAccess, AcquireMode
<1>3. WordCountsOwners
    BY <1>1, FS_EmptySet DEF Init, WordCountsOwners, new, AcquireMode, PushLockAccess
<1> QED BY <1>2, <1>3 DEF Init, IInv, AccessAgrees, ReleaseMatchesMode, Exclusion, Owns

(* Every step of a thread keeps the inductive invariant.                     *)
LEMMA NextIInv == IInv /\ [Next]_vars => IInv'
<1> SUFFICES ASSUME IInv, [Next]_vars PROVE IInv' OBVIOUS
<1> USE DEF IInv
<1>1. ASSUME NEW t \in Threads, CallAcquire(t) PROVE IInv'
    <2>1. TypeOK' BY <1>1 DEF TypeOK, CallAcquire, AcquireMode, PushLockAccess
    <2>2. WordCountsOwners'
        BY <1>1, OthersKeepHolders DEF CallAcquire, WordCountsOwners, AcquireMode, PushLockAccess
    <2>3. AccessAgrees' /\ ReleaseMatchesMode'
        BY <1>1 DEF CallAcquire, AccessAgrees, ReleaseMatchesMode, TypeOK
    <2>4. Exclusion' BY <1>1 DEF CallAcquire, Exclusion, Owns, TypeOK
    <2> QED BY <2>1, <2>2, <2>3, <2>4
<1>2. ASSUME NEW t \in Threads, KernelAcquire(t) PROVE IInv'
    <2>1. /\ IsFiniteSet(Holders("Shared")) /\ IsFiniteSet(Holders("Exclusive"))
          /\ Cardinality(Holders("Shared")) \in Nat
        BY HoldersFinite
    <2>2. mode[t] \in AcquireMode BY DEF TypeOK
    <2>3. CASE mode[t] = "Shared"
        <3>1. Holders("Exclusive") = {} /\ pushlock' = [pushlock EXCEPT !.shares = @ + 1]
            BY <1>2, <2>3 DEF KernelAcquire, ExAcquirePushLock, WordCountsOwners
        <3>2. /\ Cardinality(Holders("Shared")') = Cardinality(Holders("Shared")) + 1
              /\ Holders("Exclusive")' = Holders("Exclusive")
            BY <1>2, <2>1, <2>3, AcquireAddsHolder, FS_AddElement DEF AcquireMode, PushLockAccess
        <3>3. TypeOK' BY <1>2, <3>1 DEF TypeOK, KernelAcquire
        <3>4. WordCountsOwners' BY <2>1, <3>1, <3>2 DEF WordCountsOwners, TypeOK
        <3>5. AccessAgrees' /\ ReleaseMatchesMode'
            BY <1>2 DEF KernelAcquire, AccessAgrees, ReleaseMatchesMode, TypeOK
        <3>6. \A u \in Threads : Owns(u) => mode[u] = "Shared"
            BY <3>1 DEF Holders, TypeOK, AcquireMode, PushLockAccess
        <3>7. Exclusion' BY <1>2, <2>3, <3>6 DEF KernelAcquire, Exclusion, Owns, TypeOK
        <3> QED BY <3>3, <3>4, <3>5, <3>7
    <2>4. CASE mode[t] = "Exclusive"
        <3>1. /\ Holders("Exclusive") = {} /\ Cardinality(Holders("Shared")) = 0
              /\ pushlock' = [pushlock EXCEPT !.exclusive = TRUE]
            BY <1>2, <2>4 DEF KernelAcquire, ExAcquirePushLock, WordCountsOwners
        <3>2. Holders("Shared") = {} BY <2>1, <3>1, FS_EmptySet
        <3>3. Holders("Shared")' = Holders("Shared") /\ t \in Holders("Exclusive")'
            BY <1>2, <2>4, AcquireAddsHolder DEF AcquireMode, PushLockAccess
        <3>4. TypeOK' BY <1>2, <3>1 DEF TypeOK, KernelAcquire
        <3>5. WordCountsOwners' BY <3>1, <3>3 DEF WordCountsOwners, TypeOK
        <3>6. AccessAgrees' /\ ReleaseMatchesMode'
            BY <1>2 DEF KernelAcquire, AccessAgrees, ReleaseMatchesMode, TypeOK
        <3>7. \A u \in Threads : ~Owns(u)
            BY <3>1, <3>2 DEF Holders, TypeOK, AcquireMode, PushLockAccess
        <3>8. Exclusion' BY <1>2, <3>7 DEF KernelAcquire, Exclusion, Owns, TypeOK
        <3> QED BY <3>4, <3>5, <3>6, <3>8
    <2> QED BY <2>2, <2>3, <2>4 DEF AcquireMode, PushLockAccess
<1>3. ASSUME NEW t \in Threads, StoreAccess(t) PROVE IInv'
    <2>1. TypeOK' BY <1>3 DEF TypeOK, StoreAccess, AcquireMode
    <2>2. WordCountsOwners'
        BY <1>3, OthersKeepHolders DEF StoreAccess, WordCountsOwners, AcquireMode, PushLockAccess
    <2>3. AccessAgrees'
        \* the other owners share t's mode, so overwriting access is harmless
        <3>1. ASSUME NEW u \in Threads, u # t, pc[u] \in {"hold", "release"}
              PROVE  mode[u] = mode[t]
            BY <1>3, <3>1 DEF StoreAccess, Exclusion, Owns
        <3> QED BY <1>3, <3>1 DEF StoreAccess, AccessAgrees, TypeOK
    <2>4. ReleaseMatchesMode' BY <1>3 DEF StoreAccess, ReleaseMatchesMode, TypeOK
    <2>5. Exclusion' BY <1>3 DEF StoreAccess, Exclusion, Owns, TypeOK
    <2> QED BY <2>1, <2>2, <2>3, <2>4, <2>5
<1>4. ASSUME NEW t \in Threads, MatchAccess(t) PROVE IInv'
    <2>1. TypeOK' BY <1>4 DEF TypeOK, MatchAccess
    <2>2. WordCountsOwners'
        BY <1>4, OthersKeepHolders DEF MatchAccess, WordCountsOwners, AcquireMode, PushLockAccess
    <2>3. AccessAgrees' /\ ReleaseMatchesMode'
        BY <1>4 DEF MatchAccess, AccessAgrees, ReleaseMatchesMode, TypeOK
    <2>4. Exclusion' BY <1>4 DEF MatchAccess, Exclusion, Owns, TypeOK
    <2> QED BY <2>1, <2>2, <2>3, <2>4
<1>5. ASSUME NEW t \in Threads, KernelRelease(t) PROVE IInv'
    <2>1. /\ IsFiniteSet(Holders("Shared")) /\ IsFiniteSet(Holders("Exclusive"))
          /\ Cardinality(Holders("Shared")) \in Nat
        BY HoldersFinite
    <2>2. arm[t] = mode[t] /\ mode[t] \in AcquireMode
        BY <1>5 DEF KernelRelease, ReleaseMatchesMode, TypeOK
    <2>3. AccessAgrees' /\ ReleaseMatchesMode' /\ Exclusion'
        BY <1>5 DEF KernelRelease, AccessAgrees, ReleaseMatchesMode, Exclusion, Owns, TypeOK
    <2>4. CASE mode[t] = "Shared"
        <3>1. pushlock' = [pushlock EXCEPT !.shares = @ - 1]
            BY <1>5, <2>2, <2>4 DEF KernelRelease, ExReleasePushLock
        <3>2. /\ t \in Holders("Shared") /\ Holders("Exclusive")' = Holders("Exclusive")
              /\ Holders("Shared")' = Holders("Shared") \ {t}
            BY <1>5, <2>4, ReleaseRemovesHolder DEF AcquireMode, PushLockAccess
        <3>3. /\ Cardinality(Holders("Shared")') = Cardinality(Holders("Shared")) - 1
              /\ Cardinality(Holders("Shared")') \in Nat
            BY <2>1, <3>2, FS_RemoveElement, FS_CardinalityType
        <3>4. WordCountsOwners' BY <2>1, <3>1, <3>2, <3>3 DEF WordCountsOwners, TypeOK
        <3>5. TypeOK' BY <1>5, <2>1, <3>1, <3>3 DEF TypeOK, KernelRelease, WordCountsOwners
        <3> QED BY <2>3, <3>4, <3>5
    <2>5. CASE mode[t] = "Exclusive"
        <3>1. pushlock' = [pushlock EXCEPT !.exclusive = FALSE]
            BY <1>5, <2>2, <2>5 DEF KernelRelease, ExReleasePushLock
        <3>2. /\ Holders("Shared")' = Holders("Shared")
              /\ Holders("Exclusive")' = Holders("Exclusive") \ {t}
            BY <1>5, <2>5, ReleaseRemovesHolder DEF AcquireMode, PushLockAccess
        <3>3. Holders("Exclusive") \subseteq {t}
            BY <1>5, <2>5 DEF Exclusion, Holders, Owns, KernelRelease
        <3>4. WordCountsOwners' BY <3>1, <3>2, <3>3 DEF WordCountsOwners, TypeOK
        <3>5. TypeOK' BY <1>5, <3>1 DEF TypeOK, KernelRelease
        <3> QED BY <2>3, <3>4, <3>5
    <2> QED BY <2>2, <2>4, <2>5 DEF AcquireMode, PushLockAccess
<1>6. CASE UNCHANGED vars
    BY <1>6 DEF vars, TypeOK, AccessAgrees, ReleaseMatchesMode, WordCountsOwners,
                Exclusion, Holders, Owns
<1> QED BY <1>1, <1>2, <1>3, <1>4, <1>5, <1>6 DEF Next, Step

(* The inductive invariant holds in every reachable state.                   *)
THEOREM Invariance == Spec => []IInv
<1>1. Init => IInv BY InitIInv
<1>2. IInv /\ [Next]_vars => IInv' BY NextIInv
<1> QED BY <1>1, <1>2, PTL DEF Spec

(* The state of a push lock always has its type: in particular the count of  *)
(* shared owners in the kernel word never goes below zero.                   *)
THEOREM TypeCorrect == Spec => []TypeOK
<1>1. IInv => TypeOK BY DEF IInv
<1> QED BY <1>1, Invariance, PTL

(* release always takes the arm of the mode the thread acquired.             *)
THEOREM ReleaseModeCorrect == Spec => []ReleaseMatchesMode
<1>1. IInv => ReleaseMatchesMode BY DEF IInv
<1> QED BY <1>1, Invariance, PTL

(* Readers and writers exclude each other, and so do writers.                *)
THEOREM MutualExclusion == Spec => []Exclusion
<1>1. IInv => Exclusion BY DEF IInv
<1> QED BY <1>1, Invariance, PTL

(* Each step of the push lock is a step of the abstract lock, or invisible.  *)
THEOREM Refinement == Spec => ImplementsRwLock
<1>1. Init => RW!Init BY DEF Init, RW!Init, Holders, Owns
<1>2. IInv /\ [Next]_vars => [RW!Next]_(RW!rwVars)
    <2> SUFFICES ASSUME IInv, [Next]_vars PROVE [RW!Next]_(RW!rwVars) OBVIOUS
    <2> USE DEF RW!rwVars
    <2>1. ASSUME NEW t \in Threads,
                 CallAcquire(t) \/ StoreAccess(t) \/ MatchAccess(t)
          PROVE  UNCHANGED RW!rwVars
        BY <2>1, OthersKeepHolders DEF AcquireMode, PushLockAccess
    <2>2. ASSUME NEW t \in Threads, KernelAcquire(t) PROVE RW!Next
        <3>1. mode[t] \in AcquireMode BY DEF IInv, TypeOK
        <3>2. CASE mode[t] = "Shared"
            <4>1. Holders("Exclusive") = {}
                BY <2>2, <3>2 DEF KernelAcquire, ExAcquirePushLock, IInv, WordCountsOwners
            <4>2. RW!AcquireShared(t)
                BY <2>2, <3>2, <4>1, AcquireAddsHolder
                DEF RW!AcquireShared, AcquireMode, PushLockAccess
            <4> QED BY <4>2 DEF RW!Next
        <3>3. CASE mode[t] = "Exclusive"
            <4>1. Holders("Exclusive") = {} /\ Cardinality(Holders("Shared")) = 0
                BY <2>2, <3>3 DEF KernelAcquire, ExAcquirePushLock, IInv, WordCountsOwners
            <4>2. Holders("Shared") = {} BY <4>1, HoldersFinite, FS_EmptySet
            <4>3. RW!AcquireExclusive(t)
                BY <2>2, <3>3, <4>1, <4>2, AcquireAddsHolder
                DEF RW!AcquireExclusive, AcquireMode, PushLockAccess
            <4> QED BY <4>3 DEF RW!Next
        <3> QED BY <3>1, <3>2, <3>3 DEF AcquireMode, PushLockAccess
    <2>3. ASSUME NEW t \in Threads, KernelRelease(t) PROVE RW!Next
        <3>1. mode[t] \in AcquireMode BY DEF IInv, TypeOK
        <3>2. CASE mode[t] = "Shared"
            BY <2>3, <3>2, ReleaseRemovesHolder
            DEF RW!Next, RW!ReleaseShared, AcquireMode, PushLockAccess
        <3>3. CASE mode[t] = "Exclusive"
            BY <2>3, <3>3, ReleaseRemovesHolder
            DEF RW!Next, RW!ReleaseExclusive, AcquireMode, PushLockAccess
        <3> QED BY <3>1, <3>2, <3>3 DEF AcquireMode, PushLockAccess
    <2>4. CASE UNCHANGED vars BY <2>4 DEF vars, Holders, Owns
    <2> QED BY <2>1, <2>2, <2>3, <2>4 DEF Next, Step
<1> QED BY <1>1, <1>2, Invariance, PTL DEF Spec, ImplementsRwLock, RW!Spec
=============================================================================
