------------------------------- MODULE Protect -------------------------------
(* The obcallback sample (src/examples/obcallback/src) and the part of       *)
(* WduObCallback and WduPsCallback it runs on (src/src/callbacks/ob.rs,      *)
(* process.rs).  Control requests register and unregister the handle filter; *)
(* the process-notify callback records a process whose file name matches;    *)
(* handle opens are filtered by a pre and a post callback that read the      *)
(* record without the mutex; unload takes everything down.                   *)
(*                                                                           *)
(* WduGuardedMtx is lock_api's Mutex over WduGuardedMutex.  The adapter of   *)
(* mutex.rs casts `&self', the address of its argument, where it means self, *)
(* and acquires whatever lies on its own stack.  What lies there decides:    *)
(* PROTECT.lock() may wait although nobody is inside (the steps that wait    *)
(* are then not taken), and may be granted while another thread is inside;   *)
(* `overlaps' counts how often it was.  No property of the filter assumes    *)
(* that the mutex excludes: they speak of a run as long as no two sections   *)
(* have overlapped.  After an overlap a step keeps the grain it has under a  *)
(* mutex, and only what is stated without that condition is claimed.         *)
EXTENDS Integers, FiniteSets

CONSTANTS Clients,         \* control requests
          Procs,           \* process objects (and process ids), reused after exit
          Openers,         \* threads that open handles
          Names,           \* the file names of processes
          Asked,           \* the names that requests ask for
          Unloader,        \* the thread in driver_unload
          None,
          MaxRegister,     \* bound: calls of register_callback that get to push their operations
          MaxCreate,       \* bound: processes created
          MaxOverlap       \* bound: sections entered while another one runs

ASSUME ProtectAssumption ==
    /\ Asked \subseteq Names /\ MaxRegister \in Nat /\ MaxCreate \in Nat /\ MaxOverlap \in Nat
    \* threads are different threads, and None is none of them
    /\ Clients \cap Procs = {} /\ Unloader \notin Clients \cup Procs
    /\ None \notin Clients \cup Procs \cup {Unloader}

VARIABLES
    inside,    \* the threads between PROTECT.lock() and the drop of their guard
    overlaps,  \* how many sections were entered while another one ran
    prot,      \* the Protect object and the two flags beside it
    ob,        \* the handle filter in the kernel
    psLive,    \* process_notify_cb is registered in the kernel
    client,    \* the control requests
    proc,      \* the processes, with the state of the callback for their creation
    opener,    \* the handle opens
    unload,    \* where driver_unload is
    creates

mutexVars == <<inside, overlaps>>
vars == <<inside, overlaps, prot, ob, psLive, client, proc, opener, unload, creates>>

Threads == Clients \cup Procs \cup {Unloader}
Callers == {"other", "self", "kernel"}
Requests == [op : {"protect", "reject", "other"}, name : Asked]

(* prot.ops counts the pairs of operation registrations (one for processes,  *)
(* one for threads) pushed to WduObCallback.operations.  ob.live: the kernel *)
(* calls the filter; ob.handle: WduObCallback.handle is not null; ob.stale:  *)
(* a handle was unregistered that was not registered any more.               *)
ProtRecord ==
    [installed : BOOLEAN, name : Names \cup {None}, ops : 0..MaxRegister,
     tproc : Procs \cup {None}, tpid : Procs \cup {None},
     protectFlag : BOOLEAN, rejectFlag : BOOLEAN]
ObRecord == [live : BOOLEAN, handle : BOOLEAN, stale : BOOLEAN]
ClientRecord ==
    [req : Requests \cup {None},
     pc : {"idle", "name", "register", "flag1", "flag2", "unregister", "drain"}]
ProcRecord ==
    [name : Names \cup {None}, pass : {"protect", "reject"},
     pc : {"none", "flag", "lock", "process", "pid", "live", "denied"}]
OpenerRecord ==
    [pc : {"idle", "pre", "granted"}, obj : Procs \cup {None}, stripped : BOOLEAN,
     ctx : {"none", "live", "freed"}, faults : SUBSET {"assert", "double free"}]

TypeOK ==
    /\ inside \subseteq Threads /\ overlaps \in 0..MaxOverlap
    /\ prot \in ProtRecord /\ ob \in ObRecord /\ psLive \in BOOLEAN
    /\ client \in [Clients -> ClientRecord]
    /\ proc \in [Procs -> ProcRecord]
    /\ opener \in [Openers -> OpenerRecord]
    /\ unload \in {"loaded", "psWait", "lock", "drain", "device", "unloaded"}
    /\ creates \in 0..MaxCreate

Init ==
    /\ inside = {} /\ overlaps = 0
    /\ prot = [installed |-> FALSE, name |-> None, ops |-> 0, tproc |-> None, tpid |-> None,
               protectFlag |-> FALSE, rejectFlag |-> FALSE]
    /\ ob = [live |-> FALSE, handle |-> FALSE, stale |-> FALSE]
    /\ psLive = TRUE     \* init has registered process_notify_cb
    /\ client = [c \in Clients |-> [pc |-> "idle", req |-> None]]
    /\ proc = [p \in Procs |-> [pc |-> "none", name |-> None, pass |-> "protect"]]
    /\ opener = [o \in Openers |-> [pc |-> "idle", obj |-> None, stripped |-> FALSE,
                                    ctx |-> "none", faults |-> {}]]
    /\ unload = "loaded"
    /\ creates = 0

-----------------------------------------------------------------------------
(* PROTECT.lock(), the drop of its guard, and a section that only looks at   *)
(* `installed'.                                                              *)
Granted ==
    \/ inside = {} /\ UNCHANGED overlaps
    \/ inside # {} /\ overlaps < MaxOverlap /\ overlaps' = overlaps + 1

Lock(t) == Granted /\ inside' = inside \cup {t}

Unlock(t) == inside' = inside \ {t} /\ UNCHANGED overlaps

LockBriefly == Granted /\ UNCHANGED inside

ClientAt(c, where) == client' = [client EXCEPT ![c].pc = where]
ClientEnds(c) == client' = [client EXCEPT ![c] = [pc |-> "idle", req |-> None]]
ClientReturns(c) == Unlock(c) /\ ClientEnds(c)

(* The kernel's part (external): the handle opens and the process creations  *)
(* it is calling back for.  Unregistering stops new calls and returns when   *)
(* the ones under way are over, for a handle open its post callback too.     *)
InFilter == {o \in Openers : opener[o].pc # "idle"}
InNotify == {p \in Procs : proc[p].pc \in {"flag", "lock", "process", "pid"}}

(* WduObCallback: push_op_registration for both object types, register up to *)
(* and including ObRegisterCallbacks, which refuses an altitude in use, and  *)
(* unregister's ObUnRegisterCallbacks.                                       *)
PushOps(p) == [p EXCEPT !.ops = @ + 1]

ObRegister == ~ob.live /\ ob' = [ob EXCEPT !.live = TRUE, !.handle = TRUE]

ObUnregister == ob' = [ob EXCEPT !.live = FALSE, !.stale = @ \/ ~ob.live]

-----------------------------------------------------------------------------
(* Plausible mistakes.                                                       *)

(* `installed' is left for the end of protect_name_cb, which an unknown      *)
(* operation never reaches.                                                  *)
RegisterCallbackNotesNothing(c) ==
    /\ client[c].pc = "register" /\ ObRegister
    /\ ClientAt(c, "flag1")
    /\ UNCHANGED <<mutexVars, prot, psLive, proc, opener, unload, creates>>

(* The mutex is taken before the process callback is removed.                *)
StopNotifyUnderLock ==
    /\ unload = "loaded" /\ \A c \in Clients : client[c].pc = "idle"
    /\ Lock(Unloader)
    /\ psLive' = FALSE
    /\ unload' = "psWait"
    /\ UNCHANGED <<prot, ob, client, proc, opener, creates>>

(* process_notify_cb calls check_process_match without the mutex.            *)
LockForMatchForgotten(p) ==
    /\ proc[p].pc = "lock"
    /\ proc' = [proc EXCEPT ![p].pc = "process"]
    /\ UNCHANGED <<mutexVars, prot, ob, psLive, client, opener, unload, creates>>

(* The post callback borrows the context and does not free it.               *)
PostOperationLeaks(op) == op

(* The registrations are pushed before the name is converted, and a name     *)
(* that cannot be converted leaves them behind.                              *)
SetNamePushesFirst(c) ==
    /\ client[c].pc = "name"
    /\ \/ prot' = PushOps(prot) /\ ClientReturns(c)
       \/ /\ prot.ops < MaxRegister
          /\ prot' = PushOps([prot EXCEPT !.name = client[c].req.name])
          /\ ClientAt(c, "register") /\ UNCHANGED mutexVars
    /\ UNCHANGED <<ob, psLive, proc, opener, unload, creates>>

(* unregister keeps the filter in the kernel.                                *)
UnregisterOnlyForgets(c) ==
    /\ client[c].pc = "unregister"
    /\ ClientAt(c, "drain")
    /\ UNCHANGED <<mutexVars, prot, ob, psLive, proc, opener, unload, creates>>

-----------------------------------------------------------------------------
(* protect_name: an input that is too small is refused without the mutex, a  *)
(* step that changes nothing; when the filter is installed already there is  *)
(* nothing to do.                                                            *)
protect_name(c) ==
    /\ client[c].pc = "idle" /\ unload = "loaded"
    /\ IF prot.installed THEN LockBriefly /\ UNCHANGED client
       ELSE /\ Lock(c)
            /\ \E r \in Requests : client' = [client EXCEPT ![c] = [pc |-> "name", req |-> r]]
    /\ UNCHANGED <<prot, ob, psLive, proc, opener, unload, creates>>

(* protect_name_cb: the name, whose conversion may fail, and, in             *)
(* register_callback, a registration for each of the two object types.       *)
SetName(c) ==
    /\ client[c].pc = "name"
    /\ \/ ClientReturns(c) /\ UNCHANGED prot
       \/ /\ prot.ops < MaxRegister
          /\ prot' = PushOps([prot EXCEPT !.name = client[c].req.name])
          /\ ClientAt(c, "register") /\ UNCHANGED mutexVars
    /\ UNCHANGED <<ob, psLive, proc, opener, unload, creates>>

(* WduObCallback::register.  The kernel refuses an altitude that is taken,   *)
(* and may fail for want of memory; the pushed registrations stay.           *)
register_callback(c) ==
    /\ client[c].pc = "register"
    /\ \/ /\ ObRegister
          /\ prot' = [prot EXCEPT !.installed = TRUE]
          /\ ClientAt(c, "flag1") /\ UNCHANGED mutexVars
       \/ ClientReturns(c) /\ UNCHANGED <<ob, prot>>
    /\ UNCHANGED <<psLive, proc, opener, unload, creates>>

(* PROTECT_NAME_FLAG, then REJECT_NAME_FLAG; an unknown operation returns an *)
(* error with the filter installed and the flags as they were.               *)
SetProtectFlag(c) ==
    /\ client[c].pc = "flag1"
    /\ IF client[c].req.op = "other" THEN ClientReturns(c) /\ UNCHANGED prot
       ELSE /\ prot' = [prot EXCEPT !.protectFlag = (client[c].req.op = "protect")]
            /\ ClientAt(c, "flag2") /\ UNCHANGED mutexVars
    /\ UNCHANGED <<ob, psLive, proc, opener, unload, creates>>

SetRejectFlag(c) ==
    /\ client[c].pc = "flag2"
    /\ prot' = [prot EXCEPT !.rejectFlag = (client[c].req.op = "reject")]
    /\ ClientReturns(c)
    /\ UNCHANGED <<ob, psLive, proc, opener, unload, creates>>

(* unprotect and delete_protect_name_cb; the flags and the target stay.      *)
unprotect(c) ==
    /\ client[c].pc = "idle" /\ unload = "loaded"
    /\ IF prot.installed THEN Lock(c) /\ ClientAt(c, "unregister")
       ELSE LockBriefly /\ UNCHANGED client
    /\ UNCHANGED <<prot, ob, psLive, proc, opener, unload, creates>>

Unregister(c) ==
    /\ client[c].pc = "unregister"
    /\ IF ob.handle THEN ObUnregister /\ ClientAt(c, "drain") /\ UNCHANGED mutexVars
       ELSE ClientReturns(c) /\ UNCHANGED ob
    /\ UNCHANGED <<prot, psLive, proc, opener, unload, creates>>

Unregistered(c) ==
    /\ client[c].pc = "drain" /\ InFilter = {}
    /\ ob' = [ob EXCEPT !.handle = FALSE]
    /\ prot' = [prot EXCEPT !.installed = FALSE]
    /\ ClientReturns(c)
    /\ UNCHANGED <<psLive, proc, opener, unload, creates>>

-----------------------------------------------------------------------------
(* A process is created with some file name.  The callback is given a copy   *)
(* of the name; when the copy fails the name is empty and nothing is done.   *)
CreateProcess(p, n) ==
    /\ proc[p].pc = "none" /\ creates < MaxCreate
    /\ creates' = creates + 1
    /\ \E where \in {"flag", "live"} :
         /\ where = "flag" => psLive
         /\ proc' = [proc EXCEPT ![p] = [pc |-> where, name |-> n, pass |-> "protect"]]
    /\ UNCHANGED <<mutexVars, prot, ob, psLive, client, opener, unload>>

(* process_notify_cb reads each flag without the mutex, the second one when  *)
(* it is through with the first.                                             *)
AfterPass(p) ==
    IF proc[p].pass = "protect" THEN [proc[p] EXCEPT !.pc = "flag", !.pass = "reject"]
    ELSE [proc[p] EXCEPT !.pc = "live", !.pass = "protect"]

ReadFlag(p) ==
    /\ proc[p].pc = "flag"
    /\ IF (proc[p].pass = "protect" /\ prot.protectFlag) \/ (proc[p].pass = "reject" /\ prot.rejectFlag)
       THEN proc' = [proc EXCEPT ![p].pc = "lock"]
       ELSE proc' = [proc EXCEPT ![p] = AfterPass(p)]
    /\ UNCHANGED <<mutexVars, prot, ob, psLive, client, opener, unload, creates>>

LockForMatch(p) ==
    /\ proc[p].pc = "lock"
    /\ Lock(p)
    /\ proc' = [proc EXCEPT ![p].pc = "process"]
    /\ UNCHANGED <<prot, ob, psLive, client, opener, unload, creates>>

(* check_process_match: the name, then target_process, then                  *)
(* target_process_id; a match in the reject pass denies the creation.        *)
MatchName(p) ==
    /\ proc[p].pc = "process"
    /\ IF proc[p].name = prot.name
       THEN /\ prot' = [prot EXCEPT !.tproc = p]
            /\ proc' = [proc EXCEPT ![p].pc = "pid"]
            /\ UNCHANGED mutexVars
       ELSE /\ proc' = [proc EXCEPT ![p] = AfterPass(p)]
            /\ Unlock(p) /\ UNCHANGED prot
    /\ UNCHANGED <<ob, psLive, client, opener, unload, creates>>

SetTargetId(p) ==
    /\ proc[p].pc = "pid"
    /\ prot' = [prot EXCEPT !.tpid = p]
    /\ proc' = [proc EXCEPT ![p] = IF proc[p].pass = "reject" THEN [@ EXCEPT !.pc = "denied", !.pass = "protect"]
                                   ELSE AfterPass(p)]
    /\ Unlock(p)
    /\ UNCHANGED <<ob, psLive, client, opener, unload, creates>>

(* A process ends and its object and id are free again; the callback for an  *)
(* exit does nothing.                                                        *)
ExitProcess(p) ==
    /\ proc[p].pc \in {"live", "denied"} /\ \A o \in InFilter : opener[o].obj # p
    /\ proc' = [proc EXCEPT ![p] = [pc |-> "none", name |-> None, pass |-> "protect"]]
    /\ UNCHANGED <<mutexVars, prot, ob, psLive, client, opener, unload, creates>>

-----------------------------------------------------------------------------
(* A handle to a process, or to a thread of it, is opened or duplicated: by  *)
(* the process itself, by another one, or as a kernel handle.                *)
OpenHandle(o, p) ==
    /\ opener[o].pc = "idle" /\ ob.live /\ proc[p].pc # "none"
    /\ opener' = [opener EXCEPT ![o] = [pc |-> "pre", obj |-> p, stripped |-> FALSE,
                                        ctx |-> "none", faults |-> {}]]
    /\ UNCHANGED <<mutexVars, prot, ob, psLive, client, proc, unload, creates>>

IsTarget(op, type) == op.obj = IF type = "Process" THEN prot.tproc ELSE prot.tpid

(* set_desired_access: the terminate right is taken away, not from a kernel  *)
(* handle.                                                                   *)
Strip(op, who) == [op EXCEPT !.stripped = (who = "other")]

(* ObPreOpInfo::set_context asserts that there is no context yet;            *)
(* ObPostOpInfo::call_context makes a box of it, which its caller drops.     *)
set_context(op) ==
    [op EXCEPT !.ctx = "live",
               !.faults = IF op.ctx = "none" THEN @ ELSE @ \cup {"assert"}]

call_context(op) ==
    [op EXCEPT !.ctx = "freed",
               !.faults = IF op.ctx = "freed" THEN @ \cup {"double free"} ELSE @]

pre_operation_cb(op, type, who) ==
    IF IsTarget(op, type) /\ who # "self" THEN set_context(Strip(op, who)) ELSE op

post_operation_cb(op) == IF op.ctx = "none" THEN op ELSE call_context(op)

(* pre_op_internal and post_op_internal call the driver once for each        *)
(* registration of the object's type; what goes wrong the second time stays  *)
(* wrong the third.  The type of the object and who opens it are looked at   *)
(* only here.                                                                *)
pre_op_internal(o, type, who) ==
    /\ opener[o].pc = "pre"
    /\ LET first == pre_operation_cb(opener[o], type, who)
           all == IF prot.ops > 1 THEN pre_operation_cb(first, type, who) ELSE first
       IN  opener' = [opener EXCEPT ![o] = [all EXCEPT !.pc = "granted"]]
    /\ UNCHANGED <<mutexVars, prot, ob, psLive, client, proc, unload, creates>>

post_op_internal(o) ==
    /\ opener[o].pc = "granted"
    /\ LET first == post_operation_cb(opener[o])
           all == IF prot.ops > 1 THEN post_operation_cb(first) ELSE first
       IN  opener' = [opener EXCEPT ![o] = [all EXCEPT !.pc = "idle", !.obj = None, !.stripped = FALSE]]
    /\ UNCHANGED <<mutexVars, prot, ob, psLive, client, proc, unload, creates>>

-----------------------------------------------------------------------------
(* driver_unload, which the kernel calls when no handle to the device is     *)
(* open: the process callback first, then, under the mutex, the filter, then *)
(* the device.                                                               *)
StopNotify ==
    /\ unload = "loaded" /\ \A c \in Clients : client[c].pc = "idle"
    /\ psLive' = FALSE
    /\ unload' = "psWait"
    /\ UNCHANGED <<mutexVars, prot, ob, client, proc, opener, creates>>

NotifyStopped ==
    /\ unload = "psWait" /\ InNotify = {}
    /\ unload' = "lock"
    /\ UNCHANGED <<mutexVars, prot, ob, psLive, client, proc, opener, creates>>

StopFilter ==
    /\ unload = "lock"
    /\ Lock(Unloader)
    /\ IF prot.installed /\ ob.handle THEN ObUnregister /\ unload' = "drain"
       ELSE unload' = "device" /\ UNCHANGED ob
    /\ UNCHANGED <<prot, psLive, client, proc, opener, creates>>

FilterStopped ==
    /\ unload = "drain" /\ InFilter = {}
    /\ ob' = [ob EXCEPT !.handle = FALSE]
    /\ prot' = [prot EXCEPT !.installed = FALSE]
    /\ unload' = "device"
    /\ UNCHANGED <<mutexVars, psLive, client, proc, opener, creates>>

DeleteDevice ==
    /\ unload = "device"
    /\ Unlock(Unloader)
    /\ unload' = "unloaded"
    /\ UNCHANGED <<prot, ob, psLive, client, proc, opener, creates>>

-----------------------------------------------------------------------------
ClientStep(c) ==
    \/ SetName(c) \/ register_callback(c) \/ SetProtectFlag(c) \/ SetRejectFlag(c)
    \/ Unregister(c) \/ Unregistered(c)

NotifyStep(p) == ReadFlag(p) \/ LockForMatch(p) \/ MatchName(p) \/ SetTargetId(p)

FilterStep(o) ==
    \/ \E type \in {"Process", "Thread"}, who \in Callers : pre_op_internal(o, type, who)
    \/ post_op_internal(o)

UnloadStep == NotifyStopped \/ StopFilter \/ FilterStopped \/ DeleteDevice

Next ==
    \/ \E c \in Clients : protect_name(c) \/ unprotect(c) \/ ClientStep(c)
    \/ \E p \in Procs : NotifyStep(p) \/ ExitProcess(p) \/ \E n \in Names : CreateProcess(p, n)
    \/ \E o \in Openers : FilterStep(o) \/ \E p \in Procs : OpenHandle(o, p)
    \/ StopNotify \/ UnloadStep

Spec == Init /\ [][Next]_vars

(* A callback, a request and an unload that have begun are scheduled until   *)
(* they end; a thread that waits for a mutex that is free again and again    *)
(* gets it in the end.  Nothing is ever forced to overlap.                   *)
FairSpec ==
    /\ Spec
    /\ \A c \in Clients : WF_vars(ClientStep(c))
    /\ \A p \in Procs : WF_vars(ReadFlag(p) \/ MatchName(p) \/ SetTargetId(p)) /\ SF_vars(inside = {} /\ LockForMatch(p))
    /\ \A o \in Openers : WF_vars(FilterStep(o))
    /\ WF_vars(NotifyStopped \/ FilterStopped \/ DeleteDevice) /\ SF_vars(inside = {} /\ StopFilter)

-----------------------------------------------------------------------------
(* As long as no two sections have overlapped, the Protect object and the    *)
(* kernel agree about the filter whenever no thread is in a section, also    *)
(* after a request that failed half way (an unknown operation fails after    *)
(* the registration).                                                        *)
InstalledAgrees ==
    overlaps = 0 /\ inside = {} => prot.installed = ob.live /\ ob.handle = ob.live

(* As long as no two sections have overlapped, the target's object and its   *)
(* id are those of one process whenever no thread is in a section: matches   *)
(* of two processes do not mix.                                              *)
TargetPairAgrees == overlaps = 0 /\ inside = {} => prot.tproc = prot.tpid

(* As long as the filter was registered once, the call context of a handle   *)
(* open is set once, freed once by the post callback and never left behind.  *)
CallContextOnce ==
    prot.ops <= 1 =>
        \A o \in Openers : opener[o].faults = {} /\ (opener[o].pc = "idle" => opener[o].ctx # "live")

(* When unload deletes the device the process callback cannot be called      *)
(* again and is not running, whatever the mutex does; nor is the handle      *)
(* filter, as long as no two sections have overlapped: `installed' has then  *)
(* not lost a filter that unload would skip.                                 *)
NothingCalledAfterUnload ==
    unload \in {"device", "unloaded"} =>
        /\ ~psLive /\ InNotify = {}
        /\ overlaps = 0 => ~ob.live /\ InFilter = {}

(* Inductive invariant.  The first half holds whatever the mutex does.       *)
(* Whoever is between PROTECT.lock() and the drop of its guard is inside.    *)
InsideOwns ==
    /\ \A c \in Clients : client[c].pc # "idle" => c \in inside
    /\ \A p \in Procs : proc[p].pc \in {"process", "pid"} => p \in inside
    /\ unload \in {"drain", "device"} => Unloader \in inside

(* Where a handle open's context is.                                         *)
ContextAt ==
    \A o \in Openers :
        /\ opener[o].pc = "pre" => opener[o].ctx = "none"
        /\ prot.ops <= 1 =>
              /\ opener[o].faults = {}
              /\ opener[o].pc = "idle" => opener[o].ctx # "live"
              /\ opener[o].pc = "granted" => opener[o].ctx # "freed"

(* Unload begins when no request is under way, and removes the process       *)
(* callback first.                                                           *)
NotifyStops ==
    /\ unload # "loaded" => ~psLive /\ \A c \in Clients : client[c].pc = "idle"
    /\ unload \in {"lock", "drain", "device", "unloaded"} => InNotify = {}

(* A request under way is in its place.                                      *)
RequestsInPlace ==
    \A c \in Clients : client[c].pc \in {"name", "register", "flag1", "flag2"}
                           => client[c].req \in Requests

Base == TypeOK /\ InsideOwns /\ ContextAt /\ NotifyStops /\ RequestsInPlace

(* The second half, until two sections overlap: one thread at most is        *)
(* inside.                                                                   *)
Alone == \A t, u \in inside : t = u

(* Only while an unregistration waits may object and kernel disagree, and    *)
(* the filter is then on its way out.                                        *)
Draining == unload = "drain" \/ \E c \in Clients : client[c].pc = "drain"
FilterAgrees ==
    /\ Draining => ~ob.live
    /\ ~Draining => prot.installed = ob.live /\ ob.handle = ob.live
    /\ InFilter # {} => ob.live \/ Draining

(* The target's object is ahead of its id only in check_process_match.       *)
TargetAhead ==
    /\ \A p \in Procs : proc[p].pc = "pid" => prot.tproc = p
    /\ (\A p \in Procs : proc[p].pc # "pid") => prot.tproc = prot.tpid

(* The last stages of the unload have stopped the filter.                    *)
FilterStops == unload \in {"device", "unloaded"} => ~ob.live /\ InFilter = {}

Excluded == Alone /\ FilterAgrees /\ TargetAhead /\ FilterStops

IInv == Base /\ (overlaps = 0 => Excluded)

(* An unload that has begun ends: removing the process callback outside the  *)
(* mutex keeps it from waiting for callbacks that wait for the mutex.  An    *)
(* overlap of two sections ends the claim.                                   *)
UnloadEnds == (unload # "loaded") ~> (unload = "unloaded" \/ overlaps > 0)

(* A request that has taken the mutex gives it back, unless two sections     *)
(* have overlapped (its unregistration might then wait for the handle opens  *)
(* of a later registration).                                                 *)
RequestEnds ==
    (\E c \in Clients : client[c].pc # "idle")
        ~> ((\A c \in Clients : client[c].pc = "idle") \/ overlaps > 0)

(* ob.rs asserts in set_context that the call context is still NULL, `Filter *)
(* manager sets this value to NULL'.                                         *)
ContextNullAtPre == \A o \in Openers : "assert" \notin opener[o].faults

(* pre_operation_cb ignores requests for `processes other than our target    *)
(* process': access is taken away only from handles to a process of the      *)
(* protected name.                                                           *)
StrippedIsNamed ==
    \A o \in Openers :
        opener[o].pc = "granted" /\ opener[o].stripped => proc[opener[o].obj].name = prot.name

(* unprotect takes back what protect_name has set up: a creation is denied   *)
(* only while a filter is installed.                                         *)
DenialWhileInstalled ==
    [][\A p \in Procs : proc'[p].pc = "denied" /\ proc[p].pc # "denied" => prot.installed]_vars

(* lock_api synchronises the access to the global structure: a handle is not *)
(* unregistered twice.                                                       *)
UnregisteredOnce == ~ob.stale
==============================================================================
