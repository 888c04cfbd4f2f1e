--------------------------- MODULE NotifyCallback ---------------------------
(* The objects of src/src/callbacks that hold a registration in the kernel   *)
(* on behalf of a driver.  The kernel keeps them apart by kind, so a         *)
(* behaviour is about objects of one kind:                                   *)
(*   "notify"  WduPsCallback, WduThCallback, WduImageCallback (process.rs,   *)
(*             thread.rs, image.rs): the routine is kept in `callback', and  *)
(*             the kernel identifies the registration by it;                 *)
(*   "cm"      WduCmCallback (cm.rs): the kernel returns a cookie, which the *)
(*             object keeps for good, and there is no Drop;                  *)
(*   "ex"      WduCallbackObject (callback.rs): the kernel returns a handle, *)
(*             an address it may use again; unregister, and so Drop, passes  *)
(*             it back whatever it is.                                       *)
EXTENDS Integers, FiniteSets, FiniteSetsExt

CONSTANTS Objects,          \* the wrapper objects
          Routines,         \* the drivers' routines
          None,
          RefuseDuplicate,  \* PsSetCreateProcessNotifyRoutine, not the others
          Slots,            \* how many notify routines the kernel has room for
          Handles           \* the addresses and cookies it gives out

ASSUME NotifyAssumption ==
    /\ IsFiniteSet(Objects)
    /\ None \notin Routines \cup Handles \cup Objects
    /\ RefuseDuplicate \in BOOLEAN /\ Slots \in Nat

VARIABLES
    kind,       \* what the objects are
    callback,   \* the `callback' or `cb' field of each object
    handle,     \* the `handle' or `cookie' field
    made,       \* the objects there are
    dropped,    \* the objects that have been dropped
    kernel,     \* how often each notify routine is registered in the kernel
    holder,     \* for whom each handle is registered
    last,       \* what the last call returned
    misused,    \* the objects registered twice, or unregistered when they were not
    faults      \* what the kernel was given that it does not expect

vars == <<kind, callback, handle, made, dropped, kernel, holder, last, misused, faults>>
exVars == <<kind, handle, made, holder, misused, faults>>

Results == {"Ok", "RegisterError", "NotRegistered", "UnregisterError", "CreateError", "NtStatus"}

TypeOK ==
    /\ kind \in {"notify", "cm", "ex"}
    /\ callback \in [Objects -> Routines \cup {None}]
    /\ handle \in [Objects -> Handles \cup {None}]
    /\ made \subseteq Objects /\ dropped \subseteq Objects /\ misused \subseteq Objects
    /\ kernel \in [Routines -> Nat]
    /\ holder \in [Handles -> Objects \cup {None}]
    /\ last \in Results
    /\ faults \subseteq {"null handle", "stale handle", "dead context"}

Usable(o, k) == kind = k /\ o \in made \ dropped

(* const_new and default; a callback object is yet to be created.            *)
Init ==
    /\ kind \in {"notify", "cm", "ex"}
    /\ callback = [o \in Objects |-> None]
    /\ handle = [o \in Objects |-> None]
    /\ made = (IF kind = "ex" THEN {} ELSE Objects) /\ dropped = {}
    /\ kernel = [r \in Routines |-> 0]
    /\ holder = [h \in Handles |-> None]
    /\ last = "Ok" /\ misused = {} /\ faults = {}

Registered == MapThenSumSet(LAMBDA r : kernel[r], Routines)

(* The kernel takes a routine when there is room and no duplicate it         *)
(* refuses (external).                                                       *)
SetNotifyRoutine(r) ==
    /\ Registered < Slots
    /\ RefuseDuplicate => kernel[r] = 0

(* The kernel has an object's registration.                                  *)
Held(o) == \E h \in Handles : handle[o] = h /\ holder[h] = o

-----------------------------------------------------------------------------
(* Plausible mistakes: the routine is noted before the status is looked at;  *)
(* a successful unregister does not forget it; the handle is not noted.      *)
RegisterNotesFirst(o, r) ==
    /\ Usable(o, "notify")
    /\ callback' = [callback EXCEPT ![o] = r]
    /\ IF SetNotifyRoutine(r)
       THEN kernel' = [kernel EXCEPT ![r] = @ + 1] /\ last' = "Ok"
       ELSE last' = "RegisterError" /\ UNCHANGED kernel
    /\ UNCHANGED <<kind, handle, made, dropped, holder, misused, faults>>

UnregisterKeeps(o) ==
    IF callback[o] = None THEN last' = "NotRegistered" /\ UNCHANGED <<callback, kernel>>
    ELSE IF kernel[callback[o]] = 0
    THEN last' = "UnregisterError" /\ UNCHANGED <<callback, kernel>>
    ELSE /\ kernel' = [kernel EXCEPT ![callback[o]] = @ - 1]
         /\ last' = "Ok" /\ UNCHANGED callback

HandleNotNoted(o, h) == UNCHANGED handle

-----------------------------------------------------------------------------
(* The notify wrappers.  register: the kernel call, whose failure leaves the *)
(* object as it was; the routine registered before, if any, is overwritten.  *)
register(o, r) ==
    /\ Usable(o, "notify")
    /\ IF SetNotifyRoutine(r)
       THEN /\ kernel' = [kernel EXCEPT ![r] = @ + 1]
            /\ callback' = [callback EXCEPT ![o] = r]
            /\ misused' = IF callback[o] = None THEN misused ELSE misused \cup {o}
            /\ last' = "Ok"
       ELSE last' = "RegisterError" /\ UNCHANGED <<callback, kernel, misused>>
    /\ UNCHANGED <<kind, handle, made, dropped, holder, faults>>

(* unregister: the kernel fails when it does not have the routine.           *)
UnregisterBody(o) ==
    IF callback[o] = None THEN last' = "NotRegistered" /\ UNCHANGED <<callback, kernel>>
    ELSE IF kernel[callback[o]] = 0
    THEN last' = "UnregisterError" /\ UNCHANGED <<callback, kernel>>
    ELSE /\ kernel' = [kernel EXCEPT ![callback[o]] = @ - 1]
         /\ callback' = [callback EXCEPT ![o] = None]
         /\ last' = "Ok"

unregister(o) ==
    /\ Usable(o, "notify")
    /\ UnregisterBody(o)
    /\ UNCHANGED <<dropped, exVars>>

(* Drop unregisters and ignores the result.                                  *)
drop(o) ==
    /\ Usable(o, "notify")
    /\ UnregisterBody(o)
    /\ dropped' = dropped \cup {o}
    /\ UNCHANGED exVars

-----------------------------------------------------------------------------
(* The kernel registers (external) for o, and the object notes the handle.   *)
StoreHandle(o, h) == handle' = [handle EXCEPT ![o] = h]

Accept(o) ==
    /\ \E h \in Handles :
          /\ holder[h] = None
          /\ holder' = [holder EXCEPT ![h] = o]
          /\ StoreHandle(o, h)
    /\ misused' = IF Held(o) THEN misused \cup {o} ELSE misused
    /\ last' = "Ok"

(* The registry callback.  The kernel may refuse; it knows its cookies, and  *)
(* one that is not registered is an error.                                   *)
CmRegister(o) ==
    /\ Usable(o, "cm")
    /\ \/ Accept(o)
       \/ last' = "RegisterError" /\ UNCHANGED <<handle, holder, misused>>
    /\ UNCHANGED <<kind, callback, made, dropped, kernel, faults>>

CmUnregister(o) ==
    /\ Usable(o, "cm")
    /\ IF Held(o) THEN holder' = [holder EXCEPT ![handle[o]] = None] /\ last' = "Ok"
       ELSE last' = "NtStatus" /\ UNCHANGED holder
    /\ UNCHANGED <<kind, callback, handle, made, dropped, kernel, misused, faults>>

CmDrop(o) ==
    /\ Usable(o, "cm")
    /\ dropped' = dropped \cup {o}
    /\ UNCHANGED <<callback, kernel, last, exVars>>

-----------------------------------------------------------------------------
(* WduCallbackObject::unregister: ExUnregisterCallback on the handle the     *)
(* object has, null or not, registered or not; the handle stays.             *)
ExUnregisterBody(o) ==
    /\ callback' = [callback EXCEPT ![o] = None]
    /\ misused' = IF Held(o) THEN misused ELSE misused \cup {o}
    /\ IF handle[o] = None
       THEN faults' = faults \cup {"null handle"} /\ UNCHANGED holder
       ELSE /\ holder' = [holder EXCEPT ![handle[o]] = None]
            /\ faults' = IF holder[handle[o]] = o THEN faults ELSE faults \cup {"stale handle"}
    /\ UNCHANGED <<handle, kernel>>

(* open and create.  When ExCreateCallback fails the object made by new goes *)
(* out of scope, and Drop unregisters it.                                    *)
ExCreate(o) ==
    /\ kind = "ex" /\ o \notin made
    /\ made' = made \cup {o}
    /\ \/ last' = "Ok" /\ UNCHANGED <<callback, handle, dropped, kernel, holder, misused, faults>>
       \/ last' = "CreateError" /\ dropped' = dropped \cup {o} /\ ExUnregisterBody(o)
    /\ UNCHANGED kind

(* register: the context the kernel is given is the address of register's    *)
(* own argument.  A null handle is an error.                                 *)
ExRegister(o, r) ==
    /\ Usable(o, "ex")
    /\ \/ Accept(o) /\ callback' = [callback EXCEPT ![o] = r]
       \/ last' = "RegisterError" /\ UNCHANGED <<callback, handle, holder, misused>>
    /\ UNCHANGED <<kind, made, dropped, kernel, faults>>

ExUnregister(o) ==
    /\ Usable(o, "ex")
    /\ ExUnregisterBody(o)
    /\ last' = "Ok"
    /\ UNCHANGED <<kind, made, dropped>>

ExDrop(o) ==
    /\ Usable(o, "ex")
    /\ ExUnregisterBody(o)
    /\ dropped' = dropped \cup {o}
    /\ UNCHANGED <<kind, made, last>>

(* notify: the kernel calls cb_internal with the context of each             *)
(* registration, none of which is there any more.                            *)
ExNotify(o) ==
    /\ Usable(o, "ex")
    /\ \E h \in Handles : holder[h] # None
    /\ faults' = faults \cup {"dead context"}
    /\ UNCHANGED <<kind, callback, handle, made, dropped, kernel, holder, last, misused>>

Next ==
    \E o \in Objects :
        \/ \E r \in Routines : register(o, r) \/ ExRegister(o, r)
        \/ unregister(o) \/ drop(o)
        \/ CmRegister(o) \/ CmUnregister(o) \/ CmDrop(o)
        \/ ExCreate(o) \/ ExUnregister(o) \/ ExDrop(o) \/ ExNotify(o)

Spec == Init /\ [][Next]_vars

-----------------------------------------------------------------------------
(* Every routine a notify object holds is backed by a registration of its    *)
(* own: objects never take each other's registration away, whatever calls    *)
(* fail.                                                                     *)
Holders(r) == {o \in Objects : callback[o] = r}
EveryHolderBacked ==
    kind = "notify" => \A r \in Routines : Cardinality(Holders(r)) <= kernel[r]

(* The error Drop ignores never happens: the kernel always has what a notify *)
(* object unregisters.                                                       *)
UnregisterNeverFails == last # "UnregisterError"

(* What a user has to do: while no object is registered a second time, and   *)
(* no callback object is unregistered that is not registered (dropped ones   *)
(* included), objects and kernel agree exactly.  Nothing is registered for a *)
(* dropped notify or callback object, a callback object with a routine is    *)
(* the one its handle is registered for, and no handle is null or stale.     *)
CountsAgree == kind = "notify" => \A r \in Routines : kernel[r] = Cardinality(Holders(r))
RoutineMeansHeld == kind = "ex" => \A o \in Objects : callback[o] # None <=> Held(o)
HoldersKnow == \A h \in Handles : holder[h] # None => handle[holder[h]] = h
DroppedForget == \A o \in dropped : callback[o] = None
HandlesGood == faults \subseteq {"dead context"}
ProperUseIsSafe ==
    misused = {} =>
        CountsAgree /\ RoutineMeansHeld /\ HoldersKnow /\ DroppedForget /\ HandlesGood

(* Inductive invariant: with these, a registry callback keeps its routine    *)
(* nowhere but in the kernel.                                                *)
CmKeepsNoRoutine == kind = "cm" => \A o \in Objects : callback[o] = None
IInv ==
    TypeOK /\ EveryHolderBacked /\ UnregisterNeverFails /\ ProperUseIsSafe
           /\ CmKeepsNoRoutine

(* Dropping the last object leaves nothing of it in the kernel, which would  *)
(* go on calling it (`a critical error').                                    *)
DropLeavesNothing ==
    dropped = Objects => Registered = 0 /\ \A h \in Handles : holder[h] = None

(* unregister and Drop give a handle back once.                              *)
HandleGivenBackOnce == faults \cap {"null handle", "stale handle"} = {}

(* A callback object with a routine is registered.                           *)
CallbackObjectBacked == kind = "ex" => \A o \in Objects : callback[o] # None => Held(o)

(* The context cb_internal is called with is the object that registered.     *)
ContextLive == "dead context" \notin faults
=============================================================================
