----------------------------- MODULE EventDriver -----------------------------
(* The event sample (src/examples/event/src/lib.rs): requests on open files  *)
(* register to be notified by a timer, either by the completion of their own *)
(* IRP or by an event they name.  A record per registration sits in the      *)
(* event_queue of the device, under a spin lock, with its timer and DPC      *)
(* inside it.  Five kinds of actors touch it: the dispatch of a request, its *)
(* timer DPC, its cancel routine, the cleanup of a file, and unload.         *)
(* What an actor does while it owns the lock is one step (module SpinLock    *)
(* shows the lock excludes); an actor that gives the lock up in the middle   *)
(* takes several.  A panic is `loop {}', so a panic inside the lock leaves   *)
(* it taken for good.                                                        *)
EXTENDS Irp, Sequences, SequencesExt, FiniteSets

CONSTANTS
    Requests,   \* the register requests (the IRPs), which also name records
    Files,
    Events,
    FileOf,     \* the file each request is made on
    Notify,     \* "irp" or an event, for each request
    Cancels,    \* the requests the application cancels
    Expires,    \* the requests whose timer runs out
    Closes,     \* the files that are closed
    Cpus        \* how many timer DPCs can run at a time

ASSUME EventDriverAssumption ==
    /\ IsFiniteSet(Requests) /\ "irp" \notin Events
    /\ FileOf \in [Requests -> Files]
    /\ Notify \in [Requests -> Events \cup {"irp"}]
    /\ Cancels \subseteq Requests /\ Expires \subseteq Requests /\ Closes \subseteq Files
    /\ Cpus \in Nat \ {0}

VARIABLES
    irp,          \* the IRP of each request
    record_rtn,   \* the `cancel' field of the WduIrp clone in its record
    event_queue,
    queue_lock,   \* "usable" or "wedged" by a panic
    timer,        \* the KTIMER of each record
    freed,        \* the records whose Box has been dropped
    refs,         \* references the driver holds on each event
    signals,      \* what evt.set has done, per event
    file_rundown, \* the requests inside the remove lock of each file
    req,          \* where the dispatch of a request is
    dpc,          \* where its timer DPC is
    index,        \* the queue position the DPC has looked up
    rtn,          \* where its cancel routine is
    cln,          \* where the cleanup of a file is
    cleanup_list, \* the IRPs each cleanup has collected to complete
    unloaded

irpVars == <<irp, record_rtn>>
recordVars == <<event_queue, timer, freed>>
eventVars == <<refs, signals>>
dpcVars == <<dpc, index>>
fileVars == <<file_rundown, cln, cleanup_list>>
vars == <<irpVars, recordVars, eventVars, dpcVars, fileVars, queue_lock, req, rtn, unloaded>>

IsIrp(r) == Notify[r] = "irp"

TypeOK ==
    /\ irp \in [Requests -> IrpRecord]
    /\ record_rtn \in [Requests -> BOOLEAN]
    /\ event_queue \in Seq(Requests)
    /\ queue_lock \in {"usable", "wedged"}
    /\ timer \in [Requests -> {"none", "set", "off", "expired"}]
    /\ freed \subseteq Requests
    /\ refs \in [Events -> Int] /\ signals \in [Events -> Nat]
    /\ file_rundown \in [Files -> SUBSET Requests]
    /\ req \in [Requests -> {"new", "entered", "armed", "referenced", "finish", "leave", "untag", "done"}]
    /\ dpc \in [Requests -> {"idle", "queued", "completing", "relock", "done", "panic"}]
    /\ index \in [Requests -> Nat]
    /\ rtn \in [Requests -> {"idle", "called", "taken", "complete", "done", "panic"}]
    /\ cln \in [Files -> {"new", "open", "rundown", "sweep", "complete", "cleaned", "closed"}]
    /\ cleanup_list \in [Files -> SUBSET Requests]
    /\ unloaded \in BOOLEAN

Init ==
    /\ irp = [r \in Requests |-> NewIrp]
    /\ record_rtn = [r \in Requests |-> FALSE]
    /\ event_queue = <<>> /\ queue_lock = "usable"
    /\ timer = [r \in Requests |-> "none"]
    /\ freed = {}
    /\ refs = [e \in Events |-> 0] /\ signals = [e \in Events |-> 0]
    /\ file_rundown = [f \in Files |-> {}]
    /\ req = [r \in Requests |-> "new"]
    /\ dpc = [r \in Requests |-> "idle"]
    /\ index = [r \in Requests |-> 0]
    /\ rtn = [r \in Requests |-> "idle"]
    /\ cln = [f \in Files |-> "new"]
    /\ cleanup_list = [f \in Files |-> {}]
    /\ unloaded = FALSE

-----------------------------------------------------------------------------
(* Vec::swap_remove: the last element takes the place of the removed one.    *)
swap_remove(s, i) ==
    [j \in 1 .. Len(s) - 1 |-> IF j = i THEN s[Len(s)] ELSE s[j]]

(* Vec::position: the first record that is one of X, or 0.                   *)
position(X) == SelectInSeq(event_queue, LAMBDA q : q \in X)

(* Vec::retain_mut: the elements at the places Keep, in their order.  The    *)
(* place of the j-th of them is the one with j kept places up to it.         *)
retain(s, Keep) ==
    [j \in 1 .. Cardinality(Keep) |->
        s[CHOOSE i \in Keep : Cardinality({k \in Keep : k <= i}) = j]]

(* WduTimer::cancel is true, and the timer is off, when it was still set.    *)
CancelTimer(r) == [timer EXCEPT ![r] = IF @ = "set" THEN "off" ELSE @]

(* WduEvent: the reference taken by handle, given back, and the signal.      *)
ref_by_handle(e) == [refs EXCEPT ![e] = @ + 1]
dereference(e) == [refs EXCEPT ![e] = @ - 1]
set(e) == [signals EXCEPT ![e] = @ + 1]

Queued == ToSet(event_queue)

(* The lock may be taken unless somebody panicked while owning it.           *)
CanLock == queue_lock = "usable"

-----------------------------------------------------------------------------
(* Plausible mistakes, used to see that the properties notice them.          *)
SameDataByExtension(r, q) == TRUE

IrpNotificationNotPending(r) ==
    /\ req[r] = "armed" /\ CanLock
    /\ timer' = [timer EXCEPT ![r] = "set"]
    /\ event_queue' = Append(event_queue, r)
    /\ req' = [req EXCEPT ![r] = "finish"]
    /\ UNCHANGED <<irpVars, freed, eventVars, dpcVars, fileVars, queue_lock, rtn, unloaded>>

EventNotificationReturnsEarly(r) ==
    /\ req[r] = "referenced" /\ CanLock
    /\ req' = [req EXCEPT ![r] = "finish"]
    /\ UNCHANGED <<irpVars, recordVars, eventVars, dpcVars, fileVars, queue_lock, rtn, unloaded>>

EventNotificationDropsEvent(r) ==
    /\ req[r] = "referenced" /\ CanLock
    /\ timer' = [timer EXCEPT ![r] = "set"]
    /\ event_queue' = Append(event_queue, r)
    /\ refs' = dereference(Notify[r])
    /\ req' = [req EXCEPT ![r] = "finish"]
    /\ UNCHANGED <<irpVars, freed, signals, dpcVars, fileVars, queue_lock, rtn, unloaded>>

CancelRoutineLeavesRecord(r) ==
    /\ rtn[r] = "taken" /\ CanLock
    /\ timer' = CancelTimer(r)
    /\ rtn' = [rtn EXCEPT ![r] = "complete"]
    /\ UNCHANGED <<irpVars, event_queue, freed, eventVars, dpcVars, fileVars, queue_lock, req, unloaded>>

CleanupCompletesOwnOnly(f) ==
    /\ cln[f] = "complete"
    /\ cln' = [cln EXCEPT ![f] = "cleaned"]
    /\ UNCHANGED <<irpVars, recordVars, eventVars, dpcVars, file_rundown, cleanup_list,
                   queue_lock, req, rtn, unloaded>>

CleanupDoesNotWait(f) ==
    /\ cln[f] = "rundown"
    /\ cln' = [cln EXCEPT ![f] = "sweep"]
    /\ UNCHANGED <<irpVars, recordVars, eventVars, dpcVars, file_rundown, cleanup_list,
                   queue_lock, req, rtn, unloaded>>

-----------------------------------------------------------------------------
(* NotifyData::eq compares the IRP pointers or the event pointers.           *)
SameData(r, q) == IF IsIrp(r) THEN q = r ELSE Notify[q] = Notify[r]

(* create: the file context, with its remove lock, goes into FsContext, which*)
(* the I/O manager hands over empty.                                         *)
Create(f) ==
    /\ cln[f] = "new" /\ ~unloaded
    /\ cln' = [cln EXCEPT ![f] = "open"]
    /\ UNCHANGED <<irpVars, recordVars, eventVars, dpcVars, file_rundown, cleanup_list,
                   queue_lock, req, rtn, unloaded>>

(* device_control: file_rundown.acquire, refused once cleanup has begun.     *)
Enter(r) ==
    /\ req[r] = "new" /\ cln[FileOf[r]] \notin {"new", "closed"}
    /\ \/ /\ cln[FileOf[r]] = "open"
          /\ file_rundown' = [file_rundown EXCEPT ![FileOf[r]] = @ \cup {r}]
          /\ req' = [req EXCEPT ![r] = "entered"]
          /\ UNCHANGED irp
       \/ /\ cln[FileOf[r]] # "open"
          /\ irp' = [irp EXCEPT ![r] = complete(@)]
          /\ req' = [req EXCEPT ![r] = "done"]
          /\ UNCHANGED file_rundown
    /\ UNCHANGED <<record_rtn, recordVars, eventVars, dpcVars, cln, cleanup_list,
                   queue_lock, rtn, unloaded>>

(* handle_register_event: a short buffer, an unknown type or a bad handle is *)
(* an error.                                                                 *)
Reject(r) ==
    /\ req[r] = "entered"
    /\ req' = [req EXCEPT ![r] = "finish"]
    /\ UNCHANGED <<irpVars, recordVars, eventVars, dpcVars, fileVars, queue_lock, rtn, unloaded>>

(* irp_notification, before the lock: set_cancel_rtn(Some(cancel_routine)),  *)
(* then the clones for the record and for the DPC, which copy the routine.   *)
Arm(r) ==
    /\ req[r] = "entered" /\ IsIrp(r)
    /\ irp' = [irp EXCEPT ![r] = SetCancelRtn(@)]
    /\ record_rtn' = [record_rtn EXCEPT ![r] = TRUE]
    /\ req' = [req EXCEPT ![r] = "armed"]
    /\ UNCHANGED <<recordVars, eventVars, dpcVars, fileVars, queue_lock, rtn, unloaded>>

Push(r) ==
    /\ timer' = [timer EXCEPT ![r] = "set"]
    /\ event_queue' = Append(event_queue, r)
    /\ UNCHANGED freed

(* irp_notification, under the lock.  On a cancelled IRP set_cancel_rtn(None)*)
(* returns the dispatch's own copy, which is set, so the error is returned.  *)
IrpNotification(r) ==
    /\ req[r] = "armed" /\ CanLock
    /\ \/ /\ irp[r].cancel
          /\ irp' = [irp EXCEPT ![r] = ClearCancelRtn(@)]
          /\ req' = [req EXCEPT ![r] = "finish"]
          /\ UNCHANGED recordVars
       \/ /\ ~irp[r].cancel
          /\ Push(r)
          /\ req' = [req EXCEPT ![r] = "leave"]
          /\ UNCHANGED irp
    /\ UNCHANGED <<record_rtn, eventVars, dpcVars, fileVars, queue_lock, rtn, unloaded>>

(* event_notification: WduEvent::ref_by_handle; when it fails the request    *)
(* ends as in Reject.                                                        *)
RefByHandle(r) ==
    /\ req[r] = "entered" /\ ~IsIrp(r)
    /\ refs' = ref_by_handle(Notify[r])
    /\ req' = [req EXCEPT ![r] = "referenced"]
    /\ UNCHANGED <<irpVars, recordVars, signals, dpcVars, fileVars, queue_lock, rtn, unloaded>>

EventNotification(r) ==
    /\ req[r] = "referenced" /\ CanLock
    /\ Push(r)
    /\ req' = [req EXCEPT ![r] = "finish"]
    /\ UNCHANGED <<irpVars, eventVars, dpcVars, fileVars, queue_lock, rtn, unloaded>>

(* device_control: every status but STATUS_PENDING completes the request.    *)
Finish(r) ==
    /\ req[r] = "finish"
    /\ irp' = [irp EXCEPT ![r] = complete(@)]
    /\ req' = [req EXCEPT ![r] = "leave"]
    /\ UNCHANGED <<record_rtn, recordVars, eventVars, dpcVars, fileVars, queue_lock, rtn, unloaded>>

(* device_control: file_rundown.release, which is the kernel's release and   *)
(* then, with nothing left to keep the file context, a write of lock_tag.    *)
Leave(r) ==
    /\ req[r] = "leave"
    /\ file_rundown' = [file_rundown EXCEPT ![FileOf[r]] = @ \ {r}]
    /\ req' = [req EXCEPT ![r] = "untag"]
    /\ UNCHANGED <<irpVars, recordVars, eventVars, dpcVars, cln, cleanup_list,
                   queue_lock, rtn, unloaded>>

ClearTag(r) ==
    /\ req[r] = "untag"
    /\ req' = [req EXCEPT ![r] = "done"]
    /\ UNCHANGED <<irpVars, recordVars, eventVars, dpcVars, fileVars, queue_lock, rtn, unloaded>>

-----------------------------------------------------------------------------
(* The application cancels a request: the I/O manager calls the routine it   *)
(* finds.                                                                    *)
Cancel(r) ==
    /\ r \in Cancels /\ req[r] # "new" /\ ~irp[r].cancel /\ irp[r].completed = 0
    /\ irp' = [irp EXCEPT ![r] = IoCancelIrp(@)]
    /\ rtn' = [rtn EXCEPT ![r] = IF irp[r].routine THEN "called" ELSE @]
    /\ UNCHANGED <<record_rtn, recordVars, eventVars, dpcVars, fileVars, queue_lock, req, unloaded>>

(* WduIrp::cancel_routine takes the box out of the IRP to find the driver's  *)
(* routine in it.  When somebody has called set_cancel_rtn(None) since, there*)
(* is no box, and the read through the null pointer is the end.              *)
TakeContext(r) ==
    /\ rtn[r] = "called"
    /\ irp' = [irp EXCEPT ![r] = from_context(@)]
    /\ rtn' = [rtn EXCEPT ![r] = IF irp[r].context = "null" THEN "panic" ELSE "taken"]
    /\ UNCHANGED <<record_rtn, recordVars, eventVars, dpcVars, fileVars, queue_lock, req, unloaded>>

(* cancel_routine, under the lock: `position(...).unwrap()' panics when the  *)
(* record is not in the queue.                                               *)
CancelRoutine(r) ==
    /\ rtn[r] = "taken" /\ CanLock
    /\ \/ /\ r \in Queued
          /\ event_queue' = swap_remove(event_queue, position({r}))
          /\ timer' = CancelTimer(r)
          /\ freed' = freed \cup {r}
          /\ rtn' = [rtn EXCEPT ![r] = "complete"]
          /\ UNCHANGED queue_lock
       \/ /\ r \notin Queued
          /\ rtn' = [rtn EXCEPT ![r] = "panic"]
          /\ queue_lock' = "wedged"
          /\ UNCHANGED recordVars
    /\ UNCHANGED <<irpVars, eventVars, dpcVars, fileVars, req, unloaded>>

(* The IRP is completed, and the wrapper drops the box it has taken.         *)
CancelComplete(r) ==
    /\ rtn[r] = "complete"
    /\ irp' = [irp EXCEPT ![r] = DropBox(complete(@))]
    /\ rtn' = [rtn EXCEPT ![r] = "done"]
    /\ UNCHANGED <<record_rtn, recordVars, eventVars, dpcVars, fileVars, queue_lock, req, unloaded>>

-----------------------------------------------------------------------------
(* The timer of a record runs out, and the kernel queues its DPC.            *)
Expire(r) ==
    /\ r \in Expires /\ timer[r] = "set"
    /\ timer' = [timer EXCEPT ![r] = "expired"]
    /\ dpc' = [dpc EXCEPT ![r] = "queued"]
    /\ UNCHANGED <<irpVars, event_queue, freed, eventVars, index, fileVars, queue_lock,
                   req, rtn, unloaded>>

(* timer_dpc, its first time under the lock.  The DPC's clone of the IRP     *)
(* wrapper still has its routine, so set_cancel_rtn(None).is_some() holds    *)
(* whatever happened to the IRP, and the lock is given up to complete it.    *)
(* An event is signalled and dereferenced, and the record found is removed.  *)
TimerDpc(r) ==
    LET i == position({q \in Requests : SameData(r, q)}) IN
    /\ dpc[r] = "queued" /\ CanLock
    /\ Cardinality({q \in Requests : dpc[q] \in {"completing", "relock"}}) < Cpus
    /\ \/ /\ i = 0
          /\ dpc' = [dpc EXCEPT ![r] = "done"]
          /\ UNCHANGED <<irp, event_queue, freed, eventVars, index>>
       \/ /\ i # 0 /\ IsIrp(r)
          /\ irp' = [irp EXCEPT ![r] = ClearCancelRtn(@)]
          /\ dpc' = [dpc EXCEPT ![r] = "completing"]
          /\ index' = [index EXCEPT ![r] = i]
          /\ UNCHANGED <<event_queue, freed, eventVars>>
       \/ /\ i # 0 /\ ~IsIrp(r)
          /\ signals' = set(Notify[r])
          /\ refs' = dereference(Notify[r])
          /\ event_queue' = swap_remove(event_queue, i)
          /\ freed' = freed \cup {event_queue[i]}
          /\ dpc' = [dpc EXCEPT ![r] = "done"]
          /\ UNCHANGED <<irp, index>>
    /\ UNCHANGED <<record_rtn, timer, fileVars, queue_lock, req, rtn, unloaded>>

DpcComplete(r) ==
    /\ dpc[r] = "completing"
    /\ irp' = [irp EXCEPT ![r] = complete(@)]
    /\ dpc' = [dpc EXCEPT ![r] = "relock"]
    /\ UNCHANGED <<record_rtn, recordVars, eventVars, index, fileVars, queue_lock, req, rtn, unloaded>>

(* timer_dpc, its second time under the lock: swap_remove at the position    *)
(* looked up the first time, which panics when there is no such position.    *)
DpcRemove(r) ==
    /\ dpc[r] = "relock" /\ CanLock
    /\ \/ /\ index[r] <= Len(event_queue)
          /\ event_queue' = swap_remove(event_queue, index[r])
          /\ freed' = freed \cup {event_queue[index[r]]}
          /\ dpc' = [dpc EXCEPT ![r] = "done"]
          /\ UNCHANGED queue_lock
       \/ /\ index[r] > Len(event_queue)
          /\ dpc' = [dpc EXCEPT ![r] = "panic"]
          /\ queue_lock' = "wedged"
          /\ UNCHANGED <<event_queue, freed>>
    /\ UNCHANGED <<irpVars, timer, eventVars, index, fileVars, req, rtn, unloaded>>

-----------------------------------------------------------------------------
(* cleanup: acquire and release_and_wait on the file's remove lock.          *)
CleanupRundown(f) ==
    /\ f \in Closes /\ cln[f] = "open"
    /\ cln' = [cln EXCEPT ![f] = "rundown"]
    /\ UNCHANGED <<irpVars, recordVars, eventVars, dpcVars, file_rundown, cleanup_list,
                   queue_lock, req, rtn, unloaded>>

CleanupWait(f) ==
    /\ cln[f] = "rundown" /\ file_rundown[f] = {}
    /\ cln' = [cln EXCEPT ![f] = "sweep"]
    /\ UNCHANGED <<irpVars, recordVars, eventVars, dpcVars, file_rundown, cleanup_list,
                   queue_lock, req, rtn, unloaded>>

(* cleanup's retain_mut.  A record is skipped when it is another file's and  *)
(* its timer could not be cancelled, which is tried on no record of the      *)
(* file.  set_cancel_rtn(None) is called on the record's own WduIrp.         *)
Skipped(f, r) == FileOf[r] # f /\ timer[r] # "set"
Swept(f) == {r \in Queued : ~Skipped(f, r)}
Retained(f, r) == Skipped(f, r) \/ (IsIrp(r) /\ record_rtn[r])

CleanupSweep(f) ==
    LET dropped == {r \in Queued : ~Retained(f, r)} IN
    /\ cln[f] = "sweep" /\ CanLock
    /\ timer' = [r \in Requests |->
                    IF r \in Swept(f) /\ FileOf[r] # f THEN "off" ELSE timer[r]]
    /\ irp' = [r \in Requests |->
                    IF r \in Swept(f) /\ IsIrp(r) THEN ClearCancelRtn(irp[r]) ELSE irp[r]]
    /\ record_rtn' = [r \in Requests |-> record_rtn[r] /\ r \notin Swept(f)]
    /\ refs' = [e \in Events |-> refs[e] - Cardinality({r \in dropped : Notify[r] = e})]
    /\ cleanup_list' = [cleanup_list EXCEPT ![f] = {r \in dropped : IsIrp(r)}]
    /\ event_queue' = retain(event_queue, {i \in DOMAIN event_queue : event_queue[i] \notin dropped})
    /\ freed' = freed \cup dropped
    /\ cln' = [cln EXCEPT ![f] = "complete"]
    /\ UNCHANGED <<signals, dpcVars, file_rundown, queue_lock, req, rtn, unloaded>>

(* cleanup completes the IRPs it has collected, and then its own.            *)
CleanupComplete(f) ==
    /\ cln[f] = "complete"
    /\ irp' = [r \in Requests |->
                    IF r \in cleanup_list[f] THEN complete(irp[r]) ELSE irp[r]]
    /\ cln' = [cln EXCEPT ![f] = "cleaned"]
    /\ UNCHANGED <<record_rtn, recordVars, eventVars, dpcVars, file_rundown, cleanup_list,
                   queue_lock, req, rtn, unloaded>>

(* close: sent by the I/O manager when no request keeps the file object.     *)
Close(f) ==
    /\ cln[f] = "cleaned"
    /\ \A r \in Requests : FileOf[r] = f => req[r] = "new" \/ irp[r].completed > 0
    /\ cln' = [cln EXCEPT ![f] = "closed"]
    /\ UNCHANGED <<irpVars, recordVars, eventVars, dpcVars, file_rundown, cleanup_list,
                   queue_lock, req, rtn, unloaded>>

(* driver_unload, which the I/O manager calls when no file is open.          *)
Unload ==
    /\ ~unloaded
    /\ \A f \in Files : cln[f] \in {"new", "closed"}
    /\ unloaded' = TRUE
    /\ UNCHANGED <<irpVars, recordVars, eventVars, dpcVars, fileVars, queue_lock, req, rtn>>

-----------------------------------------------------------------------------
Dispatch(r) ==
    \/ Reject(r) \/ Arm(r) \/ IrpNotification(r) \/ RefByHandle(r)
    \/ EventNotification(r) \/ Finish(r) \/ Leave(r) \/ ClearTag(r)
CancelSteps(r) == TakeContext(r) \/ CancelRoutine(r) \/ CancelComplete(r)
DpcSteps(r) == TimerDpc(r) \/ DpcComplete(r) \/ DpcRemove(r)
Cleanup(f) == CleanupWait(f) \/ CleanupSweep(f) \/ CleanupComplete(f)

Next ==
    \/ \E r \in Requests : Enter(r) \/ Dispatch(r) \/ Cancel(r) \/ CancelSteps(r)
                           \/ Expire(r) \/ DpcSteps(r)
    \/ \E f \in Files : Create(f) \/ CleanupRundown(f) \/ Cleanup(f) \/ Close(f)
    \/ Unload

Spec == Init /\ [][Next]_vars

(* Handlers, DPCs and routines that have started are run to their end, and   *)
(* timers run out; the application need not do anything.                     *)
FairSpec ==
    /\ Spec
    /\ \A r \in Requests :
          WF_vars(Dispatch(r)) /\ WF_vars(CancelSteps(r)) /\ WF_vars(DpcSteps(r)) /\ WF_vars(Expire(r))
    /\ \A f \in Files : WF_vars(Cleanup(f))

-----------------------------------------------------------------------------
Waiting(e) == {r \in Requests : Notify[r] = e /\ (r \in Queued \/ req[r] = "referenced")}

(* Every IRP is completed at most once, whichever of dispatch, DPC, cancel   *)
(* routine and cleanup gets to it first.                                     *)
CompletedAtMostOnce == \A r \in Requests : irp[r].completed <= 1

(* What a timer DPC adds, which completes its IRP whatever happened to it,   *)
(* is the only completion too many there can be: of dispatch, cancel routine *)
(* and the cleanups of all files one at most completes an IRP, also when     *)
(* DPCs have removed the wrong records between them.                         *)
DpcCompleted(r) == IF index[r] > 0 /\ dpc[r] # "completing" THEN 1 ELSE 0
OneCompleterBesideTimer == \A r \in Requests : irp[r].completed - DpcCompleted(r) <= 1

(* set_cancel_rtn(None) finds the context box it is about to deallocate, and *)
(* finds it alive.                                                           *)
ContextFreedOnce == \A r \in Requests : irp[r].faults = {}

(* An event is referenced once for each registration that names it and is    *)
(* still waiting: none is leaked, none is dereferenced twice.                *)
EventRefsBalanced == \A e \in Events : refs[e] = Cardinality(Waiting(e))

(* The driver never gives back a reference that a waiting registration still *)
(* needs, so the DPC that will signal the event finds it alive, whatever DPCs*)
(* of the same event, cleanups and removals at a stale index did before.     *)
EventOutlivesWaiters == \A e \in Events : refs[e] >= Cardinality(Waiting(e))

(* Every signal uses up a registration of its event: two DPCs that find each *)
(* other's records, and a DPC whose record a cleanup has dropped, never      *)
(* signal one registration twice.                                            *)
UsedUp(e) == {r \in freed : Notify[r] = e}
OneSignalPerRegistration == \A e \in Events : signals[e] <= Cardinality(UsedUp(e))

(* Once the cleanup of a file has waited its requests out, no record of that *)
(* file enters the queue, so the sweep sees all there will ever be.          *)
NoRegistrationAfterCleanup ==
    [][\A r \in Requests : r \in Queued' \ Queued => cln[FileOf[r]] \in {"open", "rundown"}]_vars

(* The file context, which close frees, is there from a request's acquire of *)
(* the remove lock in it to the kernel's release of that lock.  Close waits  *)
(* for the IRPs of the file only, and a request is inside the lock after its *)
(* IRP was completed: that cleanup has waited for the lock before is what    *)
(* keeps it.  The write of lock_tag after the release is not covered.        *)
FileOutlivesRundown ==
    \A r \in Requests : req[r] \notin {"new", "untag", "done"} => cln[FileOf[r]] \notin {"new", "closed"}

(* remove_lock.rs writes lock_tag when the release has returned: the file    *)
(* context is there as long as a request on the file may still touch it.     *)
FileOutlivesRequests ==
    \A r \in Requests : req[r] \notin {"new", "done"} => cln[FileOf[r]] \notin {"new", "closed"}

(* The position a DPC looked up is still that of its record when it has the  *)
(* lock again.                                                               *)
DpcIndexValid ==
    \A r \in Requests : dpc[r] \in {"completing", "relock"} =>
        index[r] <= Len(event_queue) /\ event_queue[index[r]] = r

(* timer_dpc's comment: a DPC whose entry was removed finds that out and     *)
(* returns; so the DPC, which lives in the entry, is not freed under it.     *)
RecordOutlivesTimer == \A r \in freed : timer[r] # "set" /\ dpc[r] # "queued"

(* cancel_routine's unwrap: the record of a cancelled IRP is in the queue.   *)
CancelFindsRecord == \A r \in Requests : rtn[r] # "panic"

(* cleanup's comment: an entry of the file it leaves in the queue is one     *)
(* whose cancel routine was called and will free it.                         *)
SweptEntryHasCanceller ==
    \A r \in Queued : cln[FileOf[r]] \in {"complete", "cleaned", "closed"} => rtn[r] # "idle"

(* driver_unload's assertion: the queue is empty when the driver goes.       *)
UnloadQueueEmpty == unloaded => event_queue = <<>>

(* Inductive invariant of every instance: a request pushes one record, and   *)
(* one only, which is not freed as long as it is queued; its timer is set    *)
(* once and its DPC runs once; a request that may touch its file is inside   *)
(* the remove lock, whose users cleanup waits for; and only IRP              *)
(* registrations have cancel routines and DPCs that give the lock up.        *)
InDispatch(r) == req[r] \in {"new", "entered", "armed", "referenced"}
MidDpc(r) == dpc[r] \in {"completing", "relock"}
QueueOnce ==
    /\ \A i, j \in DOMAIN event_queue : event_queue[i] = event_queue[j] => i = j
    /\ \A r \in Requests : InDispatch(r) => r \notin Queued /\ r \notin freed
    /\ Queued \cap freed = {}
TimerOnce ==
    \A r \in Requests :
        /\ InDispatch(r) => timer[r] = "none"
        /\ timer[r] \in {"none", "set"} => dpc[r] = "idle"
        /\ dpc[r] \in {"idle", "queued"} => index[r] = 0
        /\ MidDpc(r) => index[r] > 0
InsideCounted ==
    /\ \A r \in Requests : req[r] \notin {"new", "untag", "done"} => r \in file_rundown[FileOf[r]]
    /\ \A f \in Files : file_rundown[f] # {} => cln[f] \in {"open", "rundown"}
KindsAgree ==
    \A r \in Requests :
        /\ irp[r].routine \/ rtn[r] # "idle" \/ MidDpc(r) \/ req[r] = "armed" => IsIrp(r)
        /\ req[r] = "referenced" => ~IsIrp(r)
IInv == TypeOK /\ QueueOnce /\ TimerOnce /\ InsideCounted /\ KindsAgree

(* Besides its timer, whoever may still complete an IRP is the only one: its *)
(* dispatch, the queue (for the cancel routine and for cleanup to find it    *)
(* in), its cancel routine, or one cleanup.                                  *)
Collected(r) == {f \in Files : cln[f] = "complete" /\ r \in cleanup_list[f]}
Others(r) == irp[r].completed - DpcCompleted(r)
Owned(r) ==
    /\ Others(r) <= 1
    /\ InDispatch(r) \/ req[r] = "finish" =>
          Others(r) = 0 /\ r \notin Queued /\ rtn[r] # "complete" /\ Collected(r) = {}
    /\ r \in Queued => Others(r) = 0 /\ rtn[r] # "complete" /\ Collected(r) = {}
    /\ rtn[r] = "complete" => Others(r) = 0 /\ Collected(r) = {}
    /\ Collected(r) # {} => Others(r) = 0 /\ \E f \in Files : Collected(r) = {f}
Answered(r) ==
    /\ irp[r].completed = IF req[r] \in {"leave", "untag", "done"} THEN 1 ELSE 0
    /\ index[r] = 0 /\ Collected(r) = {}
OwnedOrAnswered(r) == IF IsIrp(r) THEN Owned(r) ELSE Answered(r)
OwnedInv == \A r \in Requests : OwnedOrAnswered(r)

(* While no IRP registration times out, no DPC gives the lock up, and a file *)
(* with a record in the queue is not closed.                                 *)
NoIrpExpires == \A r \in Expires : ~IsIrp(r)
NoIrpDpc == \A r \in Requests : IsIrp(r) => dpc[r] = "idle"
FilesHeld ==
    /\ \A r \in Queued : /\ cln[FileOf[r]] \notin {"new", "closed"}
                         /\ ~IsIrp(r) => cln[FileOf[r]] \in {"open", "rundown", "sweep"}
    /\ unloaded => \A f \in Files : cln[f] \in {"new", "closed"}

(* Every request that is let in is completed, by its dispatch, its DPC, its  *)
(* cancel routine or a cleanup, whichever of them has it in the end; unless  *)
(* somebody panics, or a DPC with a stale index has dropped its record, or   *)
(* the cleanup of another file took its timer away and its own file is never *)
(* cleaned up.                                                               *)
Panicked == \E r \in Requests : rtn[r] = "panic" \/ dpc[r] = "panic"
DroppedByStaleIndex(r) ==
    /\ r \in freed /\ index[r] = 0 /\ rtn[r] \notin {"complete", "done"}
    /\ \A f \in Files : r \notin cleanup_list[f]
TimerTakenAway(r) == r \in Queued /\ timer[r] = "off"
Abandoned(r) == Panicked \/ DroppedByStaleIndex(r) \/ TimerTakenAway(r)
EveryRequestAnswered ==
    \A r \in Requests :
        [](req[r] = "entered" => <>(irp[r].completed > 0) \/ <>[]Abandoned(r))

(* An application that registered an event and keeps its file open is        *)
(* notified.                                                                 *)
EventDelivered ==
    \A r \in Requests : ~IsIrp(r) /\ FileOf[r] \notin Closes =>
        (r \in Queued ~> signals[Notify[r]] > 0)
==============================================================================
