--------------------------- MODULE SpinLockProofs ---------------------------
(* For any set of processors: an acquire/release pair restores the caller's  *)
(* own IRQL, and no DPC ever runs over a thread that is inside the lock.     *)
EXTENDS SpinLock, TLAPS

(* A context is a processor and one of its two levels of execution, and is   *)
(* determined by them.                                                       *)
LEMMA ContextFacts ==
    /\ \A x \in Contexts : CpuOf(x) \in Cpus /\ x[2] \in {"thread", "dpc"}
    /\ \A x \in Contexts : x = <<CpuOf(x), x[2]>>
    /\ \A c \in Cpus : <<c, "thread">> \in Contexts /\ <<c, "dpc">> \in Contexts
    /\ \A c \in Cpus : CpuOf(<<c, "thread">>) = c /\ CpuOf(<<c, "dpc">>) = c
BY DEF Contexts, CpuOf

(* While a context runs, the other context of its processor is outside the   *)
(* lock.                                                                     *)
LEMMA OtherContextIdle ==
    ASSUME IInv, NEW x \in Contexts, Running(x), NEW y \in Contexts,
           y # x, CpuOf(y) = CpuOf(x)
    PROVE  pc[y] = "idle"
<1>1. x = <<CpuOf(x), x[2]>> /\ y = <<CpuOf(x), y[2]>> /\ CpuOf(x) \in Cpus
    BY ContextFacts
<1>2. x[2] \in {"thread", "dpc"} /\ y[2] \in {"thread", "dpc"} BY ContextFacts
<1>3. CASE x[2] = "dpc"
    <2>1. y = <<CpuOf(x), "thread">> BY <1>1, <1>2, <1>3
    <2>2. dpc[CpuOf(x)] # NoDpc BY <1>3 DEF Running
    <2> QED BY <1>1, <2>1, <2>2 DEF IInv, NoDpcOverOwner
<1>4. CASE x[2] = "thread"
    <2>1. y = <<CpuOf(x), "dpc">> BY <1>1, <1>2, <1>4
    <2>2. dpc[CpuOf(x)] = NoDpc BY <1>4 DEF Running
    <2> QED BY <1>1, <2>1, <2>2 DEF IInv, IdleDpcOutside
<1> QED BY <1>2, <1>3, <1>4

(* A new lock satisfies the invariant at whatever IRQL the processors are.   *)
LEMMA InitIInv == Init => IInv
<1> SUFFICES ASSUME Init PROVE IInv OBVIOUS
<1> USE ContextFacts DEF Init, Irql, NoDpc, PASSIVE_LEVEL, DISPATCH_LEVEL
<1>1. TypeOK BY DEF TypeOK
<1>2. WordTracksOwner BY DEF WordTracksOwner, Owns
<1>3. OldIrqlIsOwners /\ ReleaseRestoresIrql /\ OwnerAtDispatch
    BY DEF OldIrqlIsOwners, ReleaseRestoresIrql, OwnerAtDispatch, Owns
<1>4. NoDpcOverOwner /\ IdleDpcOutside BY DEF NoDpcOverOwner, IdleDpcOutside
<1> QED BY <1>1, <1>2, <1>3, <1>4 DEF IInv

(* Every step of a context, and every DPC started or ended by the kernel,    *)
(* keeps the inductive invariant.                                            *)
LEMMA NextIInv == IInv /\ [Next]_vars => IInv'
<1> SUFFICES ASSUME IInv, [Next]_vars PROVE IInv' OBVIOUS
<1> USE ContextFacts DEF At, Goto, Irql, PASSIVE_LEVEL, DISPATCH_LEVEL, NoDpc
<1>1. ASSUME NEW x \in Contexts, Acquire(x) PROVE IInv'
    <2>0. \A y \in Contexts : y # x /\ CpuOf(y) = CpuOf(x) => pc[y] = "idle"
        BY <1>1, OtherContextIdle DEF Acquire
    <2>1. TypeOK' BY <1>1 DEF IInv, TypeOK, Acquire
    <2>2. WordTracksOwner' BY <1>1 DEF IInv, TypeOK, WordTracksOwner, Owns, Acquire
    <2>3. OldIrqlIsOwners'
        BY <1>1 DEF IInv, TypeOK, WordTracksOwner, Owns, OldIrqlIsOwners, Acquire
    <2>4. ReleaseRestoresIrql'
        BY <1>1 DEF IInv, TypeOK, OldIrqlIsOwners, ReleaseRestoresIrql, Acquire
    <2>5. OwnerAtDispatch'
        BY <1>1, <2>0 DEF IInv, TypeOK, OwnerAtDispatch, Owns, Acquire
    <2>6. NoDpcOverOwner' /\ IdleDpcOutside'
        BY <1>1 DEF IInv, TypeOK, NoDpcOverOwner, IdleDpcOutside, Running, Acquire
    <2> QED BY <2>1, <2>2, <2>3, <2>4, <2>5, <2>6 DEF IInv
<1>2. ASSUME NEW x \in Contexts, AcquireAtDpc(x) PROVE IInv'
    <2>0. \A y \in Contexts : y # x /\ CpuOf(y) = CpuOf(x) => pc[y] = "idle"
        BY <1>2, OtherContextIdle DEF AcquireAtDpc
    <2>1. TypeOK' BY <1>2 DEF IInv, TypeOK, AcquireAtDpc
    <2>2. WordTracksOwner' BY <1>2 DEF IInv, TypeOK, WordTracksOwner, Owns, AcquireAtDpc
    <2>3. OldIrqlIsOwners'
        BY <1>2 DEF IInv, TypeOK, WordTracksOwner, Owns, OldIrqlIsOwners, AcquireAtDpc
    <2>4. ReleaseRestoresIrql'
        BY <1>2 DEF IInv, TypeOK, OldIrqlIsOwners, ReleaseRestoresIrql, AcquireAtDpc
    <2>5. OwnerAtDispatch'
        BY <1>2, <2>0 DEF IInv, TypeOK, OwnerAtDispatch, Owns, AcquireAtDpc
    <2>6. NoDpcOverOwner' /\ IdleDpcOutside'
        BY <1>2 DEF IInv, TypeOK, NoDpcOverOwner, IdleDpcOutside, Running, AcquireAtDpc
    <2> QED BY <2>1, <2>2, <2>3, <2>4, <2>5, <2>6 DEF IInv
<1>3. ASSUME NEW x \in Contexts, KernelAcquire(x) PROVE IInv'
    <2>0. \A y \in Contexts : y # x /\ CpuOf(y) = CpuOf(x) => pc[y] = "idle"
        BY <1>3, OtherContextIdle DEF KernelAcquire
    <2>1. TypeOK' BY <1>3 DEF IInv, TypeOK, KernelAcquire
    <2>2. WordTracksOwner' BY <1>3 DEF IInv, TypeOK, WordTracksOwner, Owns, KernelAcquire
    <2>3. OldIrqlIsOwners'
        BY <1>3 DEF IInv, TypeOK, WordTracksOwner, Owns, OldIrqlIsOwners, KernelAcquire
    <2>4. ReleaseRestoresIrql'
        BY <1>3 DEF IInv, TypeOK, OldIrqlIsOwners, ReleaseRestoresIrql, KernelAcquire
    <2>5. OwnerAtDispatch'
        BY <1>3, <2>0 DEF IInv, TypeOK, OwnerAtDispatch, Owns, KernelAcquire
    <2>6. NoDpcOverOwner' /\ IdleDpcOutside'
        BY <1>3 DEF IInv, TypeOK, NoDpcOverOwner, IdleDpcOutside, Running, KernelAcquire
    <2> QED BY <2>1, <2>2, <2>3, <2>4, <2>5, <2>6 DEF IInv
<1>4. ASSUME NEW x \in Contexts, StoreOldIrql(x) PROVE IInv'
    <2>0. \A y \in Contexts : y # x /\ CpuOf(y) = CpuOf(x) => pc[y] = "idle"
        BY <1>4, OtherContextIdle DEF StoreOldIrql
    <2>1. TypeOK' BY <1>4 DEF IInv, TypeOK, StoreOldIrql
    <2>2. WordTracksOwner' BY <1>4 DEF IInv, TypeOK, WordTracksOwner, Owns, StoreOldIrql
    <2>3. OldIrqlIsOwners'
        BY <1>4 DEF IInv, TypeOK, WordTracksOwner, Owns, OldIrqlIsOwners, StoreOldIrql
    <2>4. ReleaseRestoresIrql'
        BY <1>4 DEF IInv, TypeOK, OldIrqlIsOwners, ReleaseRestoresIrql, StoreOldIrql
    <2>5. OwnerAtDispatch'
        BY <1>4, <2>0 DEF IInv, TypeOK, OwnerAtDispatch, Owns, StoreOldIrql
    <2>6. NoDpcOverOwner' /\ IdleDpcOutside'
        BY <1>4 DEF IInv, TypeOK, NoDpcOverOwner, IdleDpcOutside, Running, StoreOldIrql
    <2> QED BY <2>1, <2>2, <2>3, <2>4, <2>5, <2>6 DEF IInv
<1>5. ASSUME NEW x \in Contexts, Release(x) PROVE IInv'
    <2>0. \A y \in Contexts : y # x /\ CpuOf(y) = CpuOf(x) => pc[y] = "idle"
        BY <1>5, OtherContextIdle DEF Release
    <2>1. TypeOK' BY <1>5 DEF IInv, TypeOK, Release
    <2>2. WordTracksOwner' BY <1>5 DEF IInv, TypeOK, WordTracksOwner, Owns, Release
    <2>3. OldIrqlIsOwners'
        BY <1>5 DEF IInv, TypeOK, WordTracksOwner, Owns, OldIrqlIsOwners, Release
    <2>4. ReleaseRestoresIrql'
        BY <1>5 DEF IInv, TypeOK, OldIrqlIsOwners, ReleaseRestoresIrql, Release
    <2>5. OwnerAtDispatch'
        BY <1>5, <2>0 DEF IInv, TypeOK, OwnerAtDispatch, Owns, Release
    <2>6. NoDpcOverOwner' /\ IdleDpcOutside'
        BY <1>5 DEF IInv, TypeOK, NoDpcOverOwner, IdleDpcOutside, Running, Release
    <2> QED BY <2>1, <2>2, <2>3, <2>4, <2>5, <2>6 DEF IInv
<1>6. ASSUME NEW x \in Contexts, KernelRelease(x) PROVE IInv'
    <2>0. \A y \in Contexts : y # x /\ CpuOf(y) = CpuOf(x) => pc[y] = "idle"
        BY <1>6, OtherContextIdle DEF KernelRelease
    <2>1. TypeOK' BY <1>6 DEF IInv, TypeOK, KernelRelease
    <2>2. WordTracksOwner' BY <1>6 DEF IInv, TypeOK, WordTracksOwner, Owns, KernelRelease
    <2>3. OldIrqlIsOwners'
        BY <1>6 DEF IInv, TypeOK, WordTracksOwner, Owns, OldIrqlIsOwners, KernelRelease
    <2>4. ReleaseRestoresIrql'
        BY <1>6 DEF IInv, TypeOK, OldIrqlIsOwners, ReleaseRestoresIrql, KernelRelease
    <2>5. OwnerAtDispatch'
        BY <1>6, <2>0 DEF IInv, TypeOK, OwnerAtDispatch, Owns, KernelRelease
    <2>6. NoDpcOverOwner' /\ IdleDpcOutside'
        BY <1>6 DEF IInv, TypeOK, NoDpcOverOwner, IdleDpcOutside, Running, KernelRelease
    <2> QED BY <2>1, <2>2, <2>3, <2>4, <2>5, <2>6 DEF IInv
<1>7. ASSUME NEW x \in Contexts, KernelLower(x) PROVE IInv'
    <2>0. \A y \in Contexts : y # x /\ CpuOf(y) = CpuOf(x) => pc[y] = "idle"
        BY <1>7, OtherContextIdle DEF KernelLower
    <2>1. TypeOK' BY <1>7 DEF IInv, TypeOK, KernelLower
    <2>2. WordTracksOwner' BY <1>7 DEF IInv, TypeOK, WordTracksOwner, Owns, KernelLower
    <2>3. OldIrqlIsOwners'
        BY <1>7 DEF IInv, TypeOK, WordTracksOwner, Owns, OldIrqlIsOwners, KernelLower
    <2>4. ReleaseRestoresIrql'
        BY <1>7 DEF IInv, TypeOK, OldIrqlIsOwners, ReleaseRestoresIrql, KernelLower
    <2>5. OwnerAtDispatch'
        BY <1>7, <2>0 DEF IInv, TypeOK, OwnerAtDispatch, Owns, KernelLower
    <2>6. NoDpcOverOwner' /\ IdleDpcOutside'
        BY <1>7 DEF IInv, TypeOK, NoDpcOverOwner, IdleDpcOutside, Running, KernelLower
    <2> QED BY <2>1, <2>2, <2>3, <2>4, <2>5, <2>6 DEF IInv
<1>8. ASSUME NEW x \in Contexts, ReleaseFromDpc(x) PROVE IInv'
    <2>0. \A y \in Contexts : y # x /\ CpuOf(y) = CpuOf(x) => pc[y] = "idle"
        BY <1>8, OtherContextIdle DEF ReleaseFromDpc
    <2>1. TypeOK' BY <1>8 DEF IInv, TypeOK, ReleaseFromDpc
    <2>2. WordTracksOwner' BY <1>8 DEF IInv, TypeOK, WordTracksOwner, Owns, ReleaseFromDpc
    <2>3. OldIrqlIsOwners'
        BY <1>8 DEF IInv, TypeOK, WordTracksOwner, Owns, OldIrqlIsOwners, ReleaseFromDpc
    <2>4. ReleaseRestoresIrql'
        BY <1>8 DEF IInv, TypeOK, OldIrqlIsOwners, ReleaseRestoresIrql, ReleaseFromDpc
    <2>5. OwnerAtDispatch'
        BY <1>8, <2>0 DEF IInv, TypeOK, OwnerAtDispatch, Owns, ReleaseFromDpc
    <2>6. NoDpcOverOwner' /\ IdleDpcOutside'
        BY <1>8 DEF IInv, TypeOK, NoDpcOverOwner, IdleDpcOutside, Running, ReleaseFromDpc
    <2> QED BY <2>1, <2>2, <2>3, <2>4, <2>5, <2>6 DEF IInv
<1>9. ASSUME NEW c \in Cpus, DpcInterrupt(c) PROVE IInv'
    <2>0. pc[<<c, "thread">>] = "idle"
        <3>1. irql[c] # DISPATCH_LEVEL BY <1>9 DEF IInv, TypeOK, DpcInterrupt
        <3>2. <<c, "thread">> \in Contexts /\ CpuOf(<<c, "thread">>) = c
            BY ContextFacts
        <3>3. pc[<<c, "thread">>] \in {"idle", "spin", "got", "held", "unlock", "lower"}
            BY <3>2 DEF IInv, TypeOK
        <3> QED BY <3>1, <3>2, <3>3 DEF IInv, OwnerAtDispatch, Owns
    <2>1. TypeOK' BY <1>9 DEF IInv, TypeOK, DpcInterrupt
    <2>2. WordTracksOwner' /\ OldIrqlIsOwners' /\ ReleaseRestoresIrql'
        BY <1>9 DEF IInv, WordTracksOwner, OldIrqlIsOwners, ReleaseRestoresIrql, Owns, DpcInterrupt
    <2>3. pc[<<c, "dpc">>] = "idle" BY <1>9 DEF IInv, IdleDpcOutside, DpcInterrupt
    <2>4. \A y \in Contexts : CpuOf(y) = c => pc[y] = "idle"
        BY <2>0, <2>3
    <2>5. OwnerAtDispatch'
        BY <1>9, <2>4 DEF IInv, TypeOK, OwnerAtDispatch, Owns, DpcInterrupt
    <2>6. NoDpcOverOwner' /\ IdleDpcOutside'
        BY <1>9, <2>0, <2>3 DEF IInv, TypeOK, NoDpcOverOwner, IdleDpcOutside, DpcInterrupt
    <2> QED BY <2>1, <2>2, <2>5, <2>6 DEF IInv
<1>10. ASSUME NEW c \in Cpus, DpcReturn(c) PROVE IInv'
    <2>0. pc[<<c, "thread">>] = "idle"
        BY <1>10 DEF IInv, TypeOK, OwnerAtDispatch, NoDpcOverOwner, Owns, DpcReturn
    <2>1. TypeOK' BY <1>10 DEF IInv, TypeOK, DpcReturn
    <2>2. WordTracksOwner' /\ OldIrqlIsOwners' /\ ReleaseRestoresIrql'
        BY <1>10 DEF IInv, WordTracksOwner, OldIrqlIsOwners, ReleaseRestoresIrql, Owns, DpcReturn
    <2>3. pc[<<c, "dpc">>] = "idle" BY <1>10 DEF IInv, IdleDpcOutside, DpcReturn
    <2>4. \A y \in Contexts : CpuOf(y) = c => pc[y] = "idle"
        BY <2>0, <2>3
    <2>5. OwnerAtDispatch'
        BY <1>10, <2>4 DEF IInv, TypeOK, OwnerAtDispatch, Owns, DpcReturn
    <2>6. NoDpcOverOwner' /\ IdleDpcOutside'
        BY <1>10, <2>0, <2>3 DEF IInv, TypeOK, NoDpcOverOwner, IdleDpcOutside, DpcReturn
    <2> QED BY <2>1, <2>2, <2>5, <2>6 DEF IInv
<1>11. CASE UNCHANGED vars
    BY <1>11 DEF vars, IInv, TypeOK, WordTracksOwner, OldIrqlIsOwners, ReleaseRestoresIrql,
                 OwnerAtDispatch, NoDpcOverOwner, IdleDpcOutside, Owns
<1> QED BY <1>1, <1>2, <1>3, <1>4, <1>5, <1>6, <1>7, <1>8, <1>9, <1>10, <1>11 DEF Next, Inside

(* The inductive invariant holds in every reachable state.                   *)
THEOREM Invariance == Spec => []IInv
<1>1. Init => IInv BY InitIInv
<1>2. IInv /\ [Next]_vars => IInv' BY NextIInv
<1> QED BY <1>1, <1>2, PTL DEF Spec

(* The fields of the lock and the IRQL of the processors keep their types.   *)
THEOREM TypeCorrect == Spec => []TypeOK
<1>1. IInv => TypeOK BY DEF IInv
<1> QED BY <1>1, Invariance, PTL

(* release lowers every caller to its own IRQL, on any number of processors. *)
THEOREM IrqlRestored == Spec => []ReleaseRestoresIrql
<1>1. IInv => ReleaseRestoresIrql BY DEF IInv
<1> QED BY <1>1, Invariance, PTL

(* The word and the owner agree, and there is at most one owner.             *)
THEOREM SingleOwner == Spec => []WordTracksOwner
<1>1. IInv => WordTracksOwner BY DEF IInv
<1> QED BY <1>1, Invariance, PTL

(* No DPC can spin on a lock owned by the thread it interrupted.             *)
THEOREM NoSelfDeadlock == Spec => []NoDpcOverOwner
<1>1. IInv => NoDpcOverOwner BY DEF IInv
<1> QED BY <1>1, Invariance, PTL
=============================================================================
