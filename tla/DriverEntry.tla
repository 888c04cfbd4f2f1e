---------------------------- MODULE DriverEntry ----------------------------
(* The life of a driver from DriverEntry to unload, as the three samples     *)
(* (src/examples/sioctl, event and obcallback) lead it over WduDriver        *)
(* (common/driver.rs) and WduDevice (io/device.rs), every step of DriverEntry*)
(* failing or not.  They differ in the callbacks they are built with and in  *)
(* what init does when the symbolic name is taken: sioctl is done, event     *)
(* goes on to set the device up, obcallback goes on to register a process    *)
(* notify routine.  Each reports success all the same, so unload comes later.*)
EXTENDS Integers

VARIABLES
    sample,    \* which of the samples this is
    entry,     \* where DriverEntry, and later driver_unload, is
    drvobj,    \* the hooks in the DRIVER_OBJECT
    ext,       \* the WduDriver in its extension: empty when there is none
    device,    \* the DEVICE_OBJECT: "none" or "live"
    dev_ext,   \* the `device' of the WduDevice copied into its extension
    link,      \* whose the symbolic name is
    notify,    \* the process notify routine is registered
    stop,      \* somebody has asked to unload the driver
    faults     \* what was done to a device that is not there

driverVars == <<sample, entry, drvobj, ext, device, dev_ext, link, notify, stop, faults>>

Samples == {"sioctl", "event", "obcallback"}
FileObjMajors == {"Create", "Close", "Cleanup"}
IoMajors == {"Read", "Write", "DeviceControl"}

WduDriver == [init : BOOLEAN, unload : BOOLEAN, fileobj : SUBSET FileObjMajors, io : SUBSET IoMajors]

(* A name that the driver failed to delete is "stuck".                       *)
DriverTypeOK ==
    /\ sample \in Samples
    /\ entry \in {"start", "built", "device", "named", "running", "failed",
                  "unload", "unlink", "unlinked", "unloaded"}
    /\ drvobj \in [unload : BOOLEAN, majors : SUBSET (FileObjMajors \cup IoMajors)]
    /\ ext \in SUBSET WduDriver
    /\ device \in {"none", "live"} /\ dev_ext \in {"garbage", "device"}
    /\ link \in {"none", "self", "stuck", "other"}
    /\ notify \in BOOLEAN /\ stop \in BOOLEAN
    /\ faults \in SUBSET {"deleted twice", "used deleted", "used null"}

-----------------------------------------------------------------------------
(* WduDriver's builder: what it puts into the DRIVER_OBJECT and into itself. *)
new == [wdu |-> [init |-> FALSE, unload |-> FALSE, fileobj |-> {}, io |-> {}],
        obj |-> [unload |-> FALSE, majors |-> {}]]

unload(b) == [b EXCEPT !.wdu.unload = TRUE, !.obj.unload = TRUE]

(* All majors of the group are hooked, whichever callbacks are given.        *)
file_object(b, rtns) ==
    [b EXCEPT !.obj.majors = @ \cup FileObjMajors, !.wdu.fileobj = rtns]

io(b, rtns) == [b EXCEPT !.obj.majors = @ \cup IoMajors, !.wdu.io = rtns]

(* init: the builder as the samples use it; sioctl has no cleanup callback.  *)
FileObjCallbacks(s) == IF s = "sioctl" THEN {"Create", "Close"} ELSE FileObjMajors
Built(s) == io(file_object(unload(new), FileObjCallbacks(s)), {"DeviceControl"})

(* The mistake: copied before it is marked.                                  *)
CopyBeforeInit(wdu) == wdu

(* alloc_ext: the WduDriver that is copied into the extension.               *)
alloc_ext(wdu) == [wdu EXCEPT !.init = TRUE]

(* IoDeleteSymbolicLink may fail, and does not ask whose the name is.        *)
DeletedLink == {"none", IF link = "self" THEN "stuck" ELSE link}

(* IoDeleteDevice, for a device that was created: not so a second time.      *)
delete ==
    /\ device' = "none"
    /\ faults' = IF device = "none" THEN faults \cup {"deleted twice"} ELSE faults

-----------------------------------------------------------------------------
(* The name may have been taken by another driver.                           *)
DriverInit ==
    /\ sample \in Samples
    /\ entry = "start"
    /\ drvobj = new.obj /\ ext = {}
    /\ device = "none" /\ dev_ext = "garbage"
    /\ link \in {"none", "other"}
    /\ notify = FALSE /\ stop = FALSE /\ faults = {}

(* build: IoAllocateDriverObjectExtension may fail, which ends DriverEntry.  *)
BuildDriver ==
    /\ entry = "start"
    /\ drvobj' = Built(sample).obj
    /\ \/ ext' = {alloc_ext(Built(sample).wdu)} /\ entry' = "built"
       \/ entry' = "failed" /\ UNCHANGED ext
    /\ UNCHANGED <<sample, device, dev_ext, link, notify, stop, faults>>

(* WduDevice::build: IoCreateDevice stores the device in the WduDevice, which*)
(* is then copied.                                                           *)
BuildDevice ==
    /\ entry = "built"
    /\ \/ device' = "live" /\ dev_ext' = "device" /\ entry' = "device"
       \/ entry' = "failed" /\ UNCHANGED <<device, dev_ext>>
    /\ UNCHANGED <<sample, drvobj, ext, link, notify, stop, faults>>

(* symbolic_name, refused when the name is taken and for want of resources;  *)
(* then the device is deleted, and init goes on as if it had not been.       *)
SymbolicName ==
    /\ entry = "device"
    /\ entry' = IF sample = "sioctl" THEN "running" ELSE "named"
    /\ \/ link = "none" /\ link' = "self" /\ UNCHANGED <<device, faults>>
       \/ delete /\ UNCHANGED link
    /\ UNCHANGED <<sample, drvobj, ext, dev_ext, notify, stop>>

(* event: the lock and the queue in the device extension, and the flags.     *)
SetUpExtension ==
    /\ entry = "named" /\ sample = "event" /\ entry' = "running"
    /\ faults' = IF device = "none" THEN faults \cup {"used deleted"} ELSE faults
    /\ UNCHANGED <<sample, drvobj, ext, device, dev_ext, link, notify, stop>>

(* obcallback: when the routine cannot be registered, name and device go.    *)
RegisterNotify ==
    /\ entry = "named" /\ sample = "obcallback" /\ entry' = "running"
    /\ \/ notify' = TRUE /\ UNCHANGED <<link, device, faults>>
       \/ link' \in DeletedLink /\ delete /\ UNCHANGED notify
    /\ UNCHANGED <<sample, drvobj, ext, dev_ext, stop>>

RequestUnload ==
    /\ entry = "running" /\ ~stop
    /\ stop' = TRUE
    /\ UNCHANGED <<sample, entry, drvobj, ext, device, dev_ext, link, notify, faults>>

(* WduDriver::driver_unload, which calls the sample's.                       *)
DriverUnload ==
    /\ entry = "running" /\ stop /\ drvobj.unload
    /\ entry' = CASE ~\E wdu \in ext : wdu.unload -> "unloaded"
                  [] sample = "sioctl" -> "unlink"
                  [] OTHER -> "unload"
    /\ UNCHANGED <<sample, drvobj, ext, device, dev_ext, link, notify, stop, faults>>

(* event: driver.device() is the device of the DRIVER_OBJECT, null when it   *)
(* was deleted, and its extension is read before anything else.              *)
ReadExtension ==
    /\ entry = "unload" /\ sample = "event" /\ entry' = "unlink"
    /\ faults' = IF device = "none" THEN faults \cup {"used null"} ELSE faults
    /\ UNCHANGED <<sample, drvobj, ext, device, dev_ext, link, notify, stop>>

(* obcallback: the error of unregister, which is that nothing is registered, *)
(* is ignored.                                                               *)
StopNotify ==
    /\ entry = "unload" /\ sample = "obcallback" /\ entry' = "unlink"
    /\ notify' = FALSE
    /\ UNCHANGED <<sample, drvobj, ext, device, dev_ext, link, stop, faults>>

(* The name is deleted, an error only logged; then the device, if the        *)
(* DRIVER_OBJECT still has one.  The mistake is the other order.             *)
DeleteDeviceFirst ==
    /\ entry = "unlink" /\ entry' = "unlinked"
    /\ device' = "none"
    /\ UNCHANGED <<sample, drvobj, ext, link, dev_ext, notify, stop, faults>>

DeleteSymbolicName ==
    /\ entry = "unlink" /\ entry' = "unlinked"
    /\ link' \in DeletedLink
    /\ UNCHANGED <<sample, drvobj, ext, device, dev_ext, notify, stop, faults>>

DeleteDevice ==
    /\ entry = "unlinked" /\ entry' = "unloaded"
    /\ device' = "none" /\ ext' = {}
    /\ UNCHANGED <<sample, drvobj, dev_ext, link, notify, stop, faults>>

Loading == BuildDriver \/ BuildDevice \/ SymbolicName \/ SetUpExtension \/ RegisterNotify
Unloading == ReadExtension \/ StopNotify \/ DeleteSymbolicName \/ DeleteDevice

-----------------------------------------------------------------------------
(* A name this driver made and has not failed to delete leads to its device, *)
(* and a driver that failed to load or is unloaded leaves neither a device   *)
(* nor a notify routine, whichever steps of its entry failed.                *)
NothingLeftBehind ==
    /\ link = "self" => device = "live"
    /\ entry \in {"failed", "unloaded"} => device = "none" /\ ~notify /\ link # "self"

(* Where the entry is, and what it has made by then.                         *)
EntryAgrees ==
    /\ entry \in {"start", "built", "failed", "unloaded"} => device = "none"
    /\ entry = "device" => device = "live"
    /\ device = "live" => dev_ext = "device"
    /\ link = "self" => device = "live"
    /\ entry \in {"start", "built", "device", "failed", "unlinked", "unloaded"} => link # "self"
    /\ notify => sample = "obcallback" /\ entry \in {"running", "unload"}
    /\ entry \notin {"start", "failed", "unloaded"} => ext = {alloc_ext(Built(sample).wdu)}

(* init's clean-up: a device is deleted once.  Not so in obcallback.         *)
DeviceDeletedOnce == "deleted twice" \notin faults

(* A device is used while it is there.  Not so in event.                     *)
DeviceUsedWhileThere == faults \cap {"used deleted", "used null"} = {}

(* The driver deletes no name but its own.  Not so in any sample.            *)
ForeignNameKept == [][link = "other" => link' = "other"]_driverVars
=============================================================================
