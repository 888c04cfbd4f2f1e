------------------------------ MODULE SpinLock ------------------------------
(* WduSpinLock (src/src/sync/spinlock.rs), the forms that keep the caller's  *)
(* IRQL in the field old_irql (acquire, acquire_for_dpc) or do not touch it  *)
(* (acquire_at_dpc).  The field belongs to the lock, not to the caller, and  *)
(* is written after the kernel has handed the lock over and read before it   *)
(* is given back.  Each processor runs one thread and, on top of it, at most *)
(* one DPC, which the kernel starts only below DISPATCH_LEVEL: a DPC that    *)
(* spins on a lock the thread under it owns would spin forever.              *)
EXTENDS Integers

CONSTANT Cpus

PASSIVE_LEVEL == 0
APC_LEVEL == 1
DISPATCH_LEVEL == 2
Irql == PASSIVE_LEVEL .. DISPATCH_LEVEL
NoDpc == -1

Contexts == Cpus \X {"thread", "dpc"}
CpuOf(x) == x[1]

VARIABLES
    spinlock,   \* WduSpinLock.spinlock, the kernel's word: 0 free, 1 owned
    old_irql,   \* WduSpinLock.old_irql, shared by all contexts
    irql,       \* the current IRQL of each processor
    dpc,        \* the IRQL the processor's DPC interrupted, or NoDpc
    pc,         \* where each context is in its acquire ... release
    form,       \* the pair of methods the context uses
    saved,      \* the IRQL the context had when it called acquire
    arg         \* the new_irql it passes to KeReleaseSpinLock

vars == <<spinlock, old_irql, irql, dpc, pc, form, saved, arg>>

TypeOK ==
    /\ spinlock \in {0, 1}
    /\ old_irql \in Irql
    /\ irql \in [Cpus -> Irql]
    /\ dpc \in [Cpus -> Irql \cup {NoDpc}]
    /\ pc \in [Contexts -> {"idle", "spin", "got", "held", "unlock", "lower"}]
    /\ form \in [Contexts -> {"acquire", "at_dpc"}]
    /\ saved \in [Contexts -> Irql]
    /\ arg \in [Contexts -> Irql]

(* A new lock; the threads run at whatever IRQL their callers left them.     *)
Init ==
    /\ spinlock = 0
    /\ old_irql = 0
    /\ irql \in [Cpus -> Irql]
    /\ dpc = [c \in Cpus |-> NoDpc]
    /\ pc = [x \in Contexts |-> "idle"]
    /\ form = [x \in Contexts |-> "acquire"]
    /\ saved = [x \in Contexts |-> 0]
    /\ arg = [x \in Contexts |-> 0]

(* A processor executes its DPC when it has one, its thread otherwise.       *)
Running(x) == (x[2] = "dpc") <=> (dpc[CpuOf(x)] # NoDpc)

At(x, where) == Running(x) /\ pc[x] = where
Goto(x, where) == pc' = [pc EXCEPT ![x] = where]

-----------------------------------------------------------------------------
(* Plausible mistakes: old_irql noted when the call is made, before the lock *)
(* is owned; acquire_at_dpc called below DISPATCH_LEVEL; acquire_at_dpc      *)
(* without its kernel call; release lowering one level too far.              *)
AcquireNotesIrqlEarly(x) ==
    /\ At(x, "idle")
    /\ form' = [form EXCEPT ![x] = "acquire"]
    /\ saved' = [saved EXCEPT ![x] = irql[CpuOf(x)]]
    /\ old_irql' = irql[CpuOf(x)]
    /\ irql' = [irql EXCEPT ![CpuOf(x)] = DISPATCH_LEVEL]
    /\ Goto(x, "spin")
    /\ UNCHANGED <<spinlock, dpc, arg>>

AcquireAtDpcAnyLevel(x) ==
    /\ At(x, "idle")
    /\ form' = [form EXCEPT ![x] = "at_dpc"]
    /\ Goto(x, "spin")
    /\ UNCHANGED <<spinlock, old_irql, irql, dpc, saved, arg>>

AcquireAtDpcNoKernelCall(x) ==
    /\ At(x, "idle")
    /\ irql[CpuOf(x)] >= DISPATCH_LEVEL
    /\ form' = [form EXCEPT ![x] = "at_dpc"]
    /\ Goto(x, "held")
    /\ UNCHANGED <<spinlock, old_irql, irql, dpc, saved, arg>>

ReleaseTooLow(x) ==
    /\ At(x, "held")
    /\ form[x] = "acquire"
    /\ arg' = [arg EXCEPT ![x] = old_irql - 1]
    /\ Goto(x, "unlock")
    /\ UNCHANGED <<spinlock, old_irql, irql, dpc, form, saved>>

-----------------------------------------------------------------------------
(* acquire and acquire_for_dpc: the kernel raises the processor to           *)
(* DISPATCH_LEVEL, then spins, and returns the IRQL it raised from.          *)
Acquire(x) ==
    /\ At(x, "idle")
    /\ irql[CpuOf(x)] <= DISPATCH_LEVEL
    /\ form' = [form EXCEPT ![x] = "acquire"]
    /\ saved' = [saved EXCEPT ![x] = irql[CpuOf(x)]]
    /\ irql' = [irql EXCEPT ![CpuOf(x)] = DISPATCH_LEVEL]
    /\ Goto(x, "spin")
    /\ UNCHANGED <<spinlock, old_irql, dpc, arg>>

(* acquire_at_dpc: the caller is at DISPATCH_LEVEL already.                  *)
AcquireAtDpc(x) ==
    /\ At(x, "idle")
    /\ irql[CpuOf(x)] >= DISPATCH_LEVEL
    /\ form' = [form EXCEPT ![x] = "at_dpc"]
    /\ Goto(x, "spin")
    /\ UNCHANGED <<spinlock, old_irql, irql, dpc, saved, arg>>

(* The kernel finds the word free and takes it.                              *)
KernelAcquire(x) ==
    /\ At(x, "spin")
    /\ spinlock = 0
    /\ spinlock' = 1
    /\ Goto(x, IF form[x] = "acquire" THEN "got" ELSE "held")
    /\ UNCHANGED <<old_irql, irql, dpc, form, saved, arg>>

(* acquire: `self.old_irql = ' the value the kernel returned.                *)
StoreOldIrql(x) ==
    /\ At(x, "got")
    /\ old_irql' = saved[x]
    /\ Goto(x, "held")
    /\ UNCHANGED <<spinlock, irql, dpc, form, saved, arg>>

(* release and release_for_dpc: self.old_irql becomes the kernel's argument. *)
Release(x) ==
    /\ At(x, "held")
    /\ form[x] = "acquire"
    /\ arg' = [arg EXCEPT ![x] = old_irql]
    /\ Goto(x, "unlock")
    /\ UNCHANGED <<spinlock, old_irql, irql, dpc, form, saved>>

(* KeReleaseSpinLock: frees the word, then lowers to the IRQL it was given.  *)
KernelRelease(x) ==
    /\ At(x, "unlock")
    /\ spinlock' = 0
    /\ Goto(x, "lower")
    /\ UNCHANGED <<old_irql, irql, dpc, form, saved, arg>>

KernelLower(x) ==
    /\ At(x, "lower")
    /\ irql' = [irql EXCEPT ![CpuOf(x)] = arg[x]]
    /\ Goto(x, "idle")
    /\ UNCHANGED <<spinlock, old_irql, dpc, form, saved, arg>>

ReleaseFromDpc(x) ==
    /\ At(x, "held")
    /\ form[x] = "at_dpc"
    /\ spinlock' = 0
    /\ Goto(x, "idle")
    /\ UNCHANGED <<old_irql, irql, dpc, form, saved, arg>>

(* The kernel runs a DPC on a processor below DISPATCH_LEVEL, and goes back  *)
(* to the thread when the DPC is done.                                       *)
DpcInterrupt(c) ==
    /\ dpc[c] = NoDpc
    /\ irql[c] < DISPATCH_LEVEL
    /\ dpc' = [dpc EXCEPT ![c] = irql[c]]
    /\ irql' = [irql EXCEPT ![c] = DISPATCH_LEVEL]
    /\ UNCHANGED <<spinlock, old_irql, pc, form, saved, arg>>

DpcReturn(c) ==
    /\ dpc[c] # NoDpc
    /\ pc[<<c, "dpc">>] = "idle"
    /\ irql' = [irql EXCEPT ![c] = dpc[c]]
    /\ dpc' = [dpc EXCEPT ![c] = NoDpc]
    /\ UNCHANGED <<spinlock, old_irql, pc, form, saved, arg>>

(* The steps of a context that is inside a method of the lock.               *)
Inside(x) ==
    \/ KernelAcquire(x) \/ StoreOldIrql(x) \/ Release(x)
    \/ KernelRelease(x) \/ KernelLower(x) \/ ReleaseFromDpc(x)

Next ==
    \/ \E x \in Contexts : Acquire(x) \/ AcquireAtDpc(x) \/ Inside(x)
    \/ \E c \in Cpus : DpcInterrupt(c) \/ DpcReturn(c)

Spec == Init /\ [][Next]_vars

(* A processor always executes the next instruction of the context it runs,  *)
(* and DPC routines return.                                                  *)
FairSpec ==
    /\ Spec
    /\ \A x \in Contexts : WF_vars(Inside(x))
    /\ \A c \in Cpus : WF_vars(DpcReturn(c))

-----------------------------------------------------------------------------
Owns(x) == pc[x] \in {"got", "held", "unlock"}

(* The kernel word is 1 exactly while a context owns the lock, and no two    *)
(* contexts own it.                                                          *)
WordTracksOwner ==
    /\ spinlock = 1 <=> \E x \in Contexts : Owns(x)
    /\ \A x, y \in Contexts : Owns(x) /\ Owns(y) => x = y

(* Whoever owns the lock through acquire finds its own IRQL in old_irql from *)
(* its store until its release, whatever other processors do meanwhile.      *)
OldIrqlIsOwners ==
    \A x \in Contexts : pc[x] = "held" /\ form[x] = "acquire" => old_irql = saved[x]

(* KeReleaseSpinLock lowers a processor to the IRQL its own acquire raised   *)
(* it from, never to the one another caller had.                             *)
ReleaseRestoresIrql ==
    \A x \in Contexts : pc[x] \in {"unlock", "lower"} => arg[x] = saved[x]

(* release's debug_assert, for as long as the lock is wanted or owned: the   *)
(* processor is at DISPATCH_LEVEL.                                           *)
OwnerAtDispatch ==
    \A x \in Contexts : Owns(x) \/ pc[x] \in {"spin", "lower"} => irql[CpuOf(x)] = DISPATCH_LEVEL

(* No DPC runs on a processor whose thread is inside the lock: a DPC never   *)
(* spins on a lock that the thread beneath it owns.                          *)
NoDpcOverOwner ==
    \A c \in Cpus : dpc[c] # NoDpc => pc[<<c, "thread">>] = "idle"

(* The part of a processor that has no DPC running has no DPC in the lock.   *)
IdleDpcOutside == \A c \in Cpus : dpc[c] = NoDpc => pc[<<c, "dpc">>] = "idle"

(* The inductive invariant.                                                  *)
IInv ==
    /\ TypeOK
    /\ WordTracksOwner
    /\ OldIrqlIsOwners
    /\ ReleaseRestoresIrql
    /\ OwnerAtDispatch
    /\ NoDpcOverOwner
    /\ IdleDpcOutside

(* Once owned, the lock becomes free again.                                  *)
LockReleased == (spinlock = 1) ~> (spinlock = 0)
=============================================================================
