----------------------------- MODULE InStackLock -----------------------------
(* WduSpinLock's in-stack queued form (src/src/sync/spinlock.rs,             *)
(* acquire_in_stack and release_in_stack) as a release build runs it.  The   *)
(* kernel wants one queue handle per acquirer; the wrapper keeps a single    *)
(* one, in the field lockhandle of the lock that all processors share.  It   *)
(* is put there before the kernel call that may wait for the lock, and taken *)
(* away after the kernel call that hands the lock to the next in line.       *)
EXTENDS Sequences

CONSTANTS Cpus,      \* the processors that use the lock
          NoHandle   \* lockhandle is None

VARIABLES
    lockhandle,  \* NoHandle, "zeroed", or the processor whose entry it holds
    queue,       \* the kernel's queue; its head owns the lock
    pc

vars == <<lockhandle, queue, pc>>

Init ==
    /\ lockhandle = NoHandle
    /\ queue = <<>>
    /\ pc = [c \in Cpus |-> "idle"]

Goto(c, where) == pc' = [pc EXCEPT ![c] = where]

(* acquire_in_stack: `self.lockhandle = Some(LockHandle::default())'.        *)
StoreHandle(c) ==
    /\ pc[c] = "idle"
    /\ lockhandle' = "zeroed"
    /\ Goto(c, "enqueue")
    /\ UNCHANGED queue

(* `self.lockhandle.as_mut().unwrap()' panics on None; otherwise the kernel  *)
(* fills the handle in and queues it.                                        *)
KernelEnqueue(c) ==
    /\ pc[c] = "enqueue"
    /\ \/ /\ lockhandle = NoHandle
          /\ Goto(c, "stopped")
          /\ UNCHANGED <<lockhandle, queue>>
       \/ /\ lockhandle # NoHandle
          /\ lockhandle' = c
          /\ queue' = Append(queue, c)
          /\ Goto(c, "wait")

KernelGrant(c) ==
    /\ pc[c] = "wait"
    /\ Head(queue) = c
    /\ Goto(c, "held")
    /\ UNCHANGED <<lockhandle, queue>>

(* release_in_stack: unwrap panics on None and the kernel faults on a handle *)
(* without a lock; otherwise the next in line gets the lock.                 *)
KernelRelease(c) ==
    /\ pc[c] = "held"
    /\ \/ /\ lockhandle \in {NoHandle, "zeroed"}
          /\ Goto(c, "stopped")
          /\ UNCHANGED queue
       \/ /\ lockhandle \in Cpus
          /\ queue' = Tail(queue)
          /\ Goto(c, "clear")
    /\ UNCHANGED lockhandle

(* release_in_stack: `self.lockhandle = None', when the lock is gone already.*)
ClearHandle(c) ==
    /\ pc[c] = "clear"
    /\ lockhandle' = NoHandle
    /\ Goto(c, "idle")
    /\ UNCHANGED queue

Next == \E c \in Cpus :
            \/ StoreHandle(c) \/ KernelEnqueue(c) \/ KernelGrant(c)
            \/ KernelRelease(c) \/ ClearHandle(c)

Spec == Init /\ [][Next]_vars

(* release_in_stack's debug_assert: the owner of the lock finds a handle     *)
(* when it comes to release it.                                              *)
HandlePresentAtRelease == \A c \in Cpus : pc[c] = "held" => lockhandle # NoHandle
==============================================================================
