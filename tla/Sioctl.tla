------------------------------- MODULE Sioctl -------------------------------
(* The I/O of a sample driver (module DriverEntry) through the dispatch of   *)
(* WduDriver (common/driver.rs), and the controls of the sioctl sample       *)
(* (src/examples/sioctl/src/lib.rs) over WduDeviceControl                    *)
(* (io/device_control.rs) and WduMdl (memory/mdl.rs): which IRPs reach a     *)
(* callback, and the memory descriptors of the METHOD_NEITHER control.  What *)
(* the other two samples do with a control is in EventDriver and Protect.    *)
(* The I/O manager around it is external: it sends IRPs once DriverEntry has *)
(* succeeded, unloads when nobody has the device open, and frees the driver  *)
(* extension afterwards.  Contents and lengths of buffers are left out, but  *)
(* for a length of zero.                                                     *)
EXTENDS DriverEntry

CONSTANTS
    Handles,   \* the handles applications open
    MaxSend    \* how many reads and controls are sent on each

ASSUME SioctlAssumption == MaxSend \in Nat

VARIABLES
    file,      \* where each handle is between open and close
    irp,       \* the IRP last sent on it, and where its dispatch is
    mdl,       \* the WduMdl objects of that dispatch: empty or one each
    pages      \* what the kernel knows of their MDLs

ioVars == <<file, irp, mdl, pages>>
vars == <<driverVars, ioVars>>

WduMdl == [lock : BOOLEAN, alloc : BOOLEAN]
MdlState == [pages : {"none", "built", "locked"}, fault : BOOLEAN]

FileState == {"none", "opening", "open", "cleanup", "closing", "closed"}
IrpRecord == [major : FileObjMajors \cup IoMajors, completed : Nat, sent : 0..MaxSend,
              at : {"none", "sent", "ioctl", "alloc", "lock", "map", "drop",
                    "complete", "return", "lost"},
              side : {"in", "out"}, ok : BOOLEAN]

TypeOK ==
    /\ DriverTypeOK
    /\ file \in [Handles -> FileState]
    /\ irp \in [Handles -> IrpRecord]
    /\ mdl \in [Handles -> [own : SUBSET WduMdl, control : SUBSET WduMdl]]
    /\ pages \in [Handles -> [own : MdlState, control : MdlState]]

-----------------------------------------------------------------------------
(* WduMdl: wrap neither owns nor locks; allocate owns; probe_and_lock locks. *)
wrap == [lock |-> FALSE, alloc |-> FALSE]
allocate == [lock |-> FALSE, alloc |-> TRUE]
probe_and_lock(m) == [m EXCEPT !.lock = TRUE]

(* WduMdl::unlock, free and drop, as the kernel sees them: unlocking pages   *)
(* that are not locked, or freeing an MDL that is locked or gone, is a fault.*)
unlock(s) == [s EXCEPT !.pages = "built", !.fault = @ \/ s.pages # "locked"]
free(s) == [s EXCEPT !.pages = "none", !.fault = @ \/ s.pages # "built"]

(* drop, and the mistake of freeing without unlocking.                       *)
DropFreesOnly(m, s) == IF m.alloc THEN free(s) ELSE s
drop(m, s) ==
    LET unlocked == IF m.lock THEN unlock(s) ELSE s IN
    IF m.alloc THEN free(unlocked) ELSE unlocked

NoMdl == [pages |-> "none", fault |-> FALSE]

-----------------------------------------------------------------------------
Init ==
    /\ DriverInit
    /\ file = [h \in Handles |-> "none"]
    /\ irp = [h \in Handles |-> [major |-> "Create", completed |-> 0, sent |-> 0,
                                 at |-> "none", side |-> "in", ok |-> TRUE]]
    /\ mdl = [h \in Handles |-> [own |-> {}, control |-> {}]]
    /\ pages = [h \in Handles |-> [own |-> NoMdl, control |-> NoMdl]]

-----------------------------------------------------------------------------
(* The I/O manager (external): sends an IRP; a direct control has its MDL    *)
(* locked first.                                                             *)
Send(h, major, state) ==
    /\ file' = [file EXCEPT ![h] = state]
    /\ irp' = [irp EXCEPT ![h].major = major, ![h].at = "sent", ![h].completed = 0,
                          ![h].side = "in", ![h].ok = TRUE,
                          ![h].sent = IF major \in IoMajors THEN @ + 1 ELSE @]
    /\ UNCHANGED <<driverVars, mdl, pages>>

Idle(h) == irp[h].at = "none"

Open(h) ==
    /\ entry = "running" /\ ~stop /\ device = "live" /\ file[h] = "none"
    /\ Send(h, "Create", "opening")
ReadOrControl(h) ==
    /\ file[h] = "open" /\ Idle(h) /\ irp[h].sent < MaxSend
    /\ \/ Send(h, "Read", "open")
       \/ sample = "sioctl" /\ Send(h, "DeviceControl", "open")
CloseHandle(h) == file[h] = "open" /\ Idle(h) /\ Send(h, "Cleanup", "cleanup")
LastReference(h) == file[h] = "cleanup" /\ Idle(h) /\ Send(h, "Close", "closing")

At(h, place) == irp' = [irp EXCEPT ![h].at = place]

(* The callback of the WduDriver, if it has one; if not, nothing is done.    *)
fo_dispatch(wdu, major) == IF major \in wdu.fileobj THEN "complete" ELSE "return"
io_dispatch(wdu, major) == IF major \in wdu.io THEN "ioctl" ELSE "return"

(* dispatch_handler: without a WduDriver too it returns STATUS_SUCCESS.      *)
Dispatch(h) ==
    /\ irp[h].at = "sent"
    /\ At(h, IF ext = {} THEN "return"
             ELSE LET wdu == CHOOSE wdu \in ext : TRUE IN
                  IF irp[h].major \in FileObjMajors THEN fo_dispatch(wdu, irp[h].major)
                  ELSE io_dispatch(wdu, irp[h].major))
    /\ UNCHANGED <<driverVars, file, mdl, pages>>

(* WduDeviceControl::new: only a direct method has an MDL, the IRP's own.    *)
ControlMdl(method) == IF method = "Direct" THEN {wrap} ELSE {}

(* device_control: an empty buffer, an output buffer that is null, an        *)
(* unknown code and the buffered and direct methods all go on to the         *)
(* completion.  The mistake is an early return.                              *)
ForgetsToComplete(h) ==
    /\ irp[h].at = "ioctl"
    /\ \E at \in {"return", "complete", "alloc"} : At(h, at)
    /\ UNCHANGED <<driverVars, file, mdl, pages>>

DeviceControl(h) ==
    /\ irp[h].at = "ioctl"
    /\ \E method \in {"Buffered", "Direct", "Neither"} :
          /\ mdl' = [mdl EXCEPT ![h].control = ControlMdl(method)]
          /\ pages' = [pages EXCEPT ![h].control.pages =
                            IF method = "Direct" THEN "locked" ELSE "none"]
          /\ \/ At(h, "complete")
             \/ method = "Neither" /\ At(h, "alloc")
    /\ UNCHANGED <<driverVars, file>>

(* method_neither, for the input buffer and then for the output buffer:      *)
(* allocate may fail, and get_system_addr may return null.                   *)
MdlAllocate(h) ==
    /\ irp[h].at = "alloc"
    /\ \/ /\ mdl' = [mdl EXCEPT ![h].own = {allocate}]
          /\ pages' = [pages EXCEPT ![h].own.pages = "built"]
          /\ At(h, "lock")
       \/ At(h, "complete") /\ UNCHANGED <<mdl, pages>>
    /\ UNCHANGED <<driverVars, file>>

MdlLock(h) ==
    /\ irp[h].at = "lock"
    /\ mdl' = [mdl EXCEPT ![h].own = {probe_and_lock(m) : m \in @}]
    /\ pages' = [pages EXCEPT ![h].own.pages = "locked"]
    /\ At(h, "map")
    /\ UNCHANGED <<driverVars, file>>

MdlMap(h) ==
    /\ irp[h].at = "map"
    /\ \E mapped \in BOOLEAN :
          irp' = [irp EXCEPT ![h].at = "drop", ![h].ok = mapped]
    /\ UNCHANGED <<driverVars, file, mdl, pages>>

(* The MDL goes out of scope, on the error path too.                         *)
MdlDrop(h) ==
    /\ irp[h].at = "drop"
    /\ \E m \in mdl[h].own : pages' = [pages EXCEPT ![h].own = drop(m, @)]
    /\ mdl' = [mdl EXCEPT ![h].own = {}]
    /\ IF irp[h].ok /\ irp[h].side = "in"
       THEN irp' = [irp EXCEPT ![h].at = "alloc", ![h].side = "out"]
       ELSE At(h, "complete")
    /\ UNCHANGED <<driverVars, file>>

(* WduIrp::complete, with which the I/O manager releases the IRP's own MDL.  *)
Complete(h) ==
    /\ irp[h].at = "complete"
    /\ irp' = [irp EXCEPT ![h].at = "return", ![h].completed = @ + 1]
    /\ pages' = [pages EXCEPT ![h].control.pages = "none"]
    /\ UNCHANGED <<driverVars, file, mdl>>

(* The handler returns, and its WduDeviceControl is dropped.  The I/O        *)
(* manager takes the status it returned for the outcome, and frees a cleanup *)
(* IRP itself; any other that was not completed stays with its file.         *)
Return(h) ==
    /\ irp[h].at = "return"
    /\ pages' = [pages EXCEPT ![h].control =
                    IF mdl[h].control = {} THEN @
                    ELSE drop(CHOOSE m \in mdl[h].control : TRUE, @)]
    /\ mdl' = [mdl EXCEPT ![h].control = {}]
    /\ At(h, IF irp[h].completed = 0 /\ irp[h].major # "Cleanup" THEN "lost" ELSE "none")
    /\ file' = [file EXCEPT ![h] = CASE @ = "opening" -> "open"
                                     [] @ = "closing" -> "closed"
                                     [] OTHER -> @]
    /\ UNCHANGED driverVars

-----------------------------------------------------------------------------
Handler(h) ==
    \/ Dispatch(h) \/ DeviceControl(h) \/ MdlAllocate(h) \/ MdlLock(h) \/ MdlMap(h)
    \/ MdlDrop(h) \/ Complete(h) \/ Return(h)

(* The I/O manager unloads a driver that nobody has open.                    *)
UnloadWhenClosed ==
    /\ \A h \in Handles : file[h] \in {"none", "closed"}
    /\ DriverUnload

Next ==
    \/ Loading /\ UNCHANGED ioVars
    \/ RequestUnload /\ UNCHANGED ioVars
    \/ UnloadWhenClosed /\ UNCHANGED ioVars
    \/ Unloading /\ UNCHANGED ioVars
    \/ \E h \in Handles : \/ Open(h) \/ ReadOrControl(h) \/ CloseHandle(h) \/ LastReference(h)
                          \/ Handler(h)

Spec == Init /\ [][Next]_vars

(* A dispatch routine that has been called runs to its end.                  *)
FairSpec == Spec /\ \A h \in Handles : WF_vars(Handler(h))

-----------------------------------------------------------------------------
Dispatching(h) == irp[h].at \notin {"none", "lost"}

(* Whenever a dispatch routine or unload runs, both extensions are there:    *)
(* the device's points back to it, and the driver's holds a WduDriver that   *)
(* says it was initialised (driver_unload asserts it).                       *)
ExtensionsFound ==
    /\ (\E h \in Handles : Dispatching(h)) => device = "live" /\ dev_ext = "device"
    /\ (\E h \in Handles : Dispatching(h)) \/ entry \in {"unload", "unlink", "unlinked"}
          => ext # {} /\ \A wdu \in ext : wdu.init

(* Whatever fails in method_neither, the pages it locks are unlocked and the *)
(* MDLs it allocates are freed, once, before the IRP is completed; the IRP's *)
(* own MDL is left to the I/O manager.                                       *)
PagesReleased ==
    \A h \in Handles :
        /\ ~pages[h].own.fault /\ ~pages[h].control.fault
        /\ irp[h].completed > 0 => pages[h].own.pages = "none"

(* Inductive invariant: an open file keeps the driver running and its device,*)
(* and a dispatch is on an open file; and the MDL of method_neither is there,*)
(* built and locked, exactly while the dispatch is between allocate and drop.*)
OpenMeansRunning ==
    \A h \in Handles :
        /\ Dispatching(h) => file[h] \notin {"none", "closed"}
        /\ file[h] \notin {"none", "closed"} => entry = "running" /\ device = "live"
MdlAgrees ==
    \A h \in Handles :
        /\ mdl[h].own = CASE irp[h].at = "lock" -> {allocate}
                          [] irp[h].at \in {"map", "drop"} -> {probe_and_lock(allocate)}
                          [] OTHER -> {}
        /\ pages[h].own.pages = CASE irp[h].at = "lock" -> "built"
                                  [] irp[h].at \in {"map", "drop"} -> "locked"
                                  [] OTHER -> "none"
        /\ ~pages[h].own.fault /\ ~pages[h].control.fault
        /\ mdl[h].control \subseteq {wrap}
        /\ irp[h].completed > 0 => irp[h].at \in {"return", "none", "lost"}
IInv == TypeOK /\ EntryAgrees /\ OpenMeansRunning /\ MdlAgrees

(* Every IRP of a major the sample gave a callback for is completed: what    *)
(* the builder was told is what dispatch finds.                              *)
HandledIsAnswered ==
    \A h \in Handles :
        irp[h].at = "sent" /\ irp[h].major \in FileObjCallbacks(sample) \cup {"DeviceControl"}
            ~> irp[h].completed = 1

(* Every IRP the driver is sent is completed: not so, as it hooks majors it  *)
(* has no callback for.                                                      *)
EveryIrpAnswered == \A h \in Handles : irp[h].at # "lost"
=============================================================================
