---------------------------- MODULE SioctlProofs ----------------------------
(* For any set of handles and any number of requests: whichever step of      *)
(* DriverEntry fails, nothing of the driver is left behind; whatever is      *)
(* dispatched finds its device and its driver; and the MDLs of               *)
(* method_neither are unlocked and freed once.                               *)
EXTENDS Sioctl, TLAPS

(* A builder and the DRIVER_OBJECT it works on; each call keeps the types,   *)
(* and an unload callback that is there.                                     *)
DriverObject == [unload : BOOLEAN, majors : SUBSET (FileObjMajors \cup IoMajors)]
Builder == [wdu : WduDriver, obj : DriverObject]

(* `new' makes a builder.                                                    *)
LEMMA NewBuilds == new \in Builder
<1>1. [init |-> FALSE, unload |-> FALSE, fileobj |-> {}, io |-> {}] \in WduDriver BY DEF WduDriver
<1>2. [unload |-> FALSE, majors |-> {}] \in DriverObject BY DEF DriverObject
<1> QED BY <1>1, <1>2 DEF new, Builder

(* `unload' notes the callback.                                              *)
LEMMA UnloadBuilds == ASSUME NEW b \in Builder PROVE unload(b) \in Builder /\ unload(b).wdu.unload
<1>1. b.wdu \in WduDriver /\ b.obj \in DriverObject BY DEF Builder
<1>2. \A w \in WduDriver : LET v == [w EXCEPT !.unload = TRUE] IN v \in WduDriver /\ v.unload
    BY DEF WduDriver
<1>3. \A d \in DriverObject : [d EXCEPT !.unload = TRUE] \in DriverObject BY DEF DriverObject
<1>4. unload(b) = [b EXCEPT !.wdu = [b.wdu EXCEPT !.unload = TRUE],
                            !.obj = [b.obj EXCEPT !.unload = TRUE]]
    BY DEF unload, Builder
<1> QED BY <1>1, <1>2, <1>3, <1>4 DEF Builder

(* `file_object' hooks the majors of files and notes the callbacks.          *)
LEMMA FileObjectBuilds ==
    ASSUME NEW b \in Builder, NEW rtns \in SUBSET FileObjMajors
    PROVE  file_object(b, rtns) \in Builder /\ file_object(b, rtns).wdu.unload = b.wdu.unload
<1>1. b.wdu \in WduDriver /\ b.obj \in DriverObject BY DEF Builder
<1>2. \A w \in WduDriver : LET v == [w EXCEPT !.fileobj = rtns] IN
                               v \in WduDriver /\ v.unload = w.unload
    BY DEF WduDriver
<1>3. \A d \in DriverObject : [d EXCEPT !.majors = @ \cup FileObjMajors] \in DriverObject
    BY DEF DriverObject
<1>4. file_object(b, rtns) = [b EXCEPT !.obj = [b.obj EXCEPT !.majors = @ \cup FileObjMajors],
                                       !.wdu = [b.wdu EXCEPT !.fileobj = rtns]]
    BY DEF file_object, Builder
<1> QED BY <1>1, <1>2, <1>3, <1>4 DEF Builder

(* `io' does the same for the majors of I/O.                                 *)
LEMMA IoBuilds ==
    ASSUME NEW b \in Builder, NEW rtns \in SUBSET IoMajors
    PROVE  io(b, rtns) \in Builder /\ io(b, rtns).wdu.unload = b.wdu.unload
<1>1. b.wdu \in WduDriver /\ b.obj \in DriverObject BY DEF Builder
<1>2. \A w \in WduDriver : LET v == [w EXCEPT !.io = rtns] IN
                               v \in WduDriver /\ v.unload = w.unload
    BY DEF WduDriver
<1>3. \A d \in DriverObject : [d EXCEPT !.majors = @ \cup IoMajors] \in DriverObject
    BY DEF DriverObject
<1>4. io(b, rtns) = [b EXCEPT !.obj = [b.obj EXCEPT !.majors = @ \cup IoMajors],
                              !.wdu = [b.wdu EXCEPT !.io = rtns]]
    BY DEF io, Builder
<1> QED BY <1>1, <1>2, <1>3, <1>4 DEF Builder

(* What the builder makes of a sample: a WduDriver marked as initialised,    *)
(* with an unload callback, and a hook for unload.                           *)
LEMMA BuiltDriver ==
    ASSUME NEW s \in Samples
    PROVE  /\ alloc_ext(Built(s).wdu) \in WduDriver
           /\ alloc_ext(Built(s).wdu).init /\ alloc_ext(Built(s).wdu).unload
           /\ Built(s).obj \in [unload : BOOLEAN, majors : SUBSET (FileObjMajors \cup IoMajors)]
<1>1. FileObjCallbacks(s) \in SUBSET FileObjMajors /\ {"DeviceControl"} \in SUBSET IoMajors
    BY DEF FileObjCallbacks, FileObjMajors, IoMajors
<1>2. unload(new) \in Builder /\ unload(new).wdu.unload BY NewBuilds, UnloadBuilds
<1> DEFINE b == file_object(unload(new), FileObjCallbacks(s))
<1>3. b \in Builder /\ b.wdu.unload BY <1>1, <1>2, FileObjectBuilds
<1> HIDE DEF b
<1>4. Built(s) = io(b, {"DeviceControl"}) BY DEF Built, b
<1>5. Built(s) \in Builder /\ Built(s).wdu.unload BY <1>1, <1>3, <1>4, IoBuilds
<1>6. Built(s).wdu \in WduDriver /\ Built(s).obj \in DriverObject BY <1>5 DEF Builder
<1>7. \A w \in WduDriver : /\ alloc_ext(w) \in WduDriver
                           /\ alloc_ext(w).init /\ alloc_ext(w).unload = w.unload
    BY DEF alloc_ext, WduDriver
<1> QED BY <1>5, <1>6, <1>7 DEF DriverObject

-----------------------------------------------------------------------------
(* Nothing is loaded and no file is open at first.                           *)
LEMMA InitIInv == Init => IInv
<1> SUFFICES ASSUME Init PROVE IInv OBVIOUS
<1>1. DriverTypeOK
    BY DEF Init, DriverInit, DriverTypeOK, new
<1>2. file \in [Handles -> FileState] BY DEF Init, FileState
<1>3. irp \in [Handles -> IrpRecord]
    BY SioctlAssumption DEF Init, IrpRecord, FileObjMajors
<1>4. /\ mdl \in [Handles -> [own : SUBSET WduMdl, control : SUBSET WduMdl]]
      /\ pages \in [Handles -> [own : MdlState, control : MdlState]]
    BY DEF Init, NoMdl, MdlState
<1>5. EntryAgrees BY DEF Init, DriverInit, EntryAgrees
<1>6. OpenMeansRunning BY DEF Init, OpenMeansRunning, Dispatching
<1>7. MdlAgrees BY DEF Init, MdlAgrees, NoMdl
<1> QED BY <1>1, <1>2, <1>3, <1>4, <1>5, <1>6, <1>7 DEF IInv, TypeOK

(* The steps of DriverEntry and of unload, which touch no file.              *)
LEMMA DriverIInv ==
    ASSUME IInv, UNCHANGED ioVars, Loading \/ RequestUnload \/ UnloadWhenClosed \/ Unloading
    PROVE  IInv'
<1>a. /\ sample \in Samples /\ DriverTypeOK /\ EntryAgrees
      /\ alloc_ext(Built(sample).wdu) \in WduDriver /\ alloc_ext(Built(sample).wdu).unload
      /\ Built(sample).obj \in [unload : BOOLEAN, majors : SUBSET (FileObjMajors \cup IoMajors)]
    BY BuiltDriver DEF IInv, TypeOK, DriverTypeOK
<1> DEFINE W == alloc_ext(Built(sample).wdu)
<1>b. sample' = sample
    BY DEF Loading, BuildDriver, BuildDevice, SymbolicName, SetUpExtension, RegisterNotify,
       RequestUnload, UnloadWhenClosed, DriverUnload, Unloading, ReadExtension, StopNotify,
       DeleteSymbolicName, DeleteDevice
<1>c. Built(sample') = Built(sample) BY <1>b
<1>1. DriverTypeOK' /\ EntryAgrees'
    <2>1. CASE BuildDriver
        BY <1>a, <1>b, <1>c, <2>1 DEF BuildDriver, DriverTypeOK, EntryAgrees
    <2>2. CASE BuildDevice
        BY <1>a, <1>b, <1>c, <2>2 DEF BuildDevice, DriverTypeOK, EntryAgrees
    <2>3. CASE SymbolicName
        BY <1>a, <1>b, <1>c, <2>3 DEF SymbolicName, delete, DriverTypeOK, EntryAgrees
    <2>4. CASE SetUpExtension
        BY <1>a, <1>b, <1>c, <2>4 DEF SetUpExtension, DriverTypeOK, EntryAgrees
    <2>5. CASE RegisterNotify
        BY <1>a, <1>b, <1>c, <2>5 DEF RegisterNotify, delete, DeletedLink, DriverTypeOK, EntryAgrees
    <2>6. CASE RequestUnload
        BY <1>a, <1>b, <1>c, <2>6 DEF RequestUnload, DriverTypeOK, EntryAgrees
    <2>7. CASE UnloadWhenClosed
        <3>1. \E wdu \in ext : wdu.unload
            BY <1>a, <2>7 DEF UnloadWhenClosed, DriverUnload, EntryAgrees
        <3>2. entry' \in {"unlink", "unload"} /\ (sample # "sioctl" => entry' = "unload")
            BY <2>7, <3>1 DEF UnloadWhenClosed, DriverUnload
        <3> QED BY <1>a, <1>b, <1>c, <2>7, <3>2
                DEF UnloadWhenClosed, DriverUnload, DriverTypeOK, EntryAgrees
    <2>8. CASE ReadExtension
        BY <1>a, <1>b, <1>c, <2>8 DEF ReadExtension, DriverTypeOK, EntryAgrees
    <2>9. CASE StopNotify
        BY <1>a, <1>b, <1>c, <2>9 DEF StopNotify, DriverTypeOK, EntryAgrees
    <2>10. CASE DeleteSymbolicName
        BY <1>a, <1>b, <1>c, <2>10 DEF DeleteSymbolicName, DeletedLink, DriverTypeOK, EntryAgrees
    <2>11. CASE DeleteDevice
        BY <1>a, <1>b, <1>c, <2>11 DEF DeleteDevice, DriverTypeOK, EntryAgrees
    <2> QED BY <2>1, <2>2, <2>3, <2>4, <2>5, <2>6, <2>7, <2>8, <2>9, <2>10, <2>11
            DEF Loading, Unloading
<1>2. TypeOK' BY <1>1 DEF IInv, TypeOK, ioVars
<1>3. OpenMeansRunning'
    <2>1. CASE \A h \in Handles : file[h] \in {"none", "closed"}
        BY <2>1 DEF IInv, OpenMeansRunning, Dispatching, ioVars
    <2>2. CASE ~\A h \in Handles : file[h] \in {"none", "closed"}
        <3>1. entry = "running" /\ device = "live" BY <2>2 DEF IInv, OpenMeansRunning
        <3>2. RequestUnload
            BY <2>2, <3>1 DEF Loading, BuildDriver, BuildDevice, SymbolicName, SetUpExtension,
               RegisterNotify, UnloadWhenClosed, Unloading, ReadExtension, StopNotify,
               DeleteSymbolicName, DeleteDevice
        <3> QED BY <3>2 DEF RequestUnload, IInv, OpenMeansRunning, Dispatching, ioVars
    <2> QED BY <2>1, <2>2
<1>4. MdlAgrees' BY DEF IInv, MdlAgrees, ioVars
<1> QED BY <1>1, <1>2, <1>3, <1>4 DEF IInv
-----------------------------------------------------------------------------
(* The IRP of one handle goes on, on an open file of a running driver.       *)
IoStep(h) ==
    /\ UNCHANGED driverVars /\ entry = "running" /\ device = "live"
    /\ \A g \in Handles \ {h} : /\ file'[g] = file[g] /\ irp'[g] = irp[g]
                                /\ mdl'[g] = mdl[g] /\ pages'[g] = pages[g]

(* Such a step keeps the invariant of the other handles, so that its own     *)
(* handle is all that is left to show.                                       *)
LEMMA OtherHandles ==
    ASSUME IInv, NEW h \in Handles, IoStep(h),
           file' \in [Handles -> FileState], irp' \in [Handles -> IrpRecord],
           mdl' \in [Handles -> [own : SUBSET WduMdl, control : SUBSET WduMdl]],
           pages' \in [Handles -> [own : MdlState, control : MdlState]],
           Dispatching(h)' => file'[h] \notin {"none", "closed"},
           mdl'[h].own = CASE irp'[h].at = "lock" -> {allocate}
                           [] irp'[h].at \in {"map", "drop"} -> {probe_and_lock(allocate)}
                           [] OTHER -> {},
           pages'[h].own.pages = CASE irp'[h].at = "lock" -> "built"
                                   [] irp'[h].at \in {"map", "drop"} -> "locked"
                                   [] OTHER -> "none",
           ~pages'[h].own.fault /\ ~pages'[h].control.fault,
           mdl'[h].control \subseteq {wrap},
           irp'[h].completed > 0 => irp'[h].at \in {"return", "none", "lost"}
    PROVE  IInv'
<1>1. DriverTypeOK' /\ EntryAgrees'
    <2>1. UNCHANGED <<sample, entry, drvobj, ext, device, dev_ext, link, notify, stop, faults>>
        BY DEF IoStep, driverVars
    <2> QED BY <2>1 DEF IInv, TypeOK, DriverTypeOK, EntryAgrees
<1>2. TypeOK' BY <1>1 DEF TypeOK
<1>3. OpenMeansRunning'
    BY DEF IInv, OpenMeansRunning, IoStep, driverVars, Dispatching
<1>4. ASSUME NEW g \in Handles
      PROVE  /\ mdl'[g].own = CASE irp'[g].at = "lock" -> {allocate}
                                [] irp'[g].at \in {"map", "drop"} -> {probe_and_lock(allocate)}
                                [] OTHER -> {}
             /\ pages'[g].own.pages = CASE irp'[g].at = "lock" -> "built"
                                        [] irp'[g].at \in {"map", "drop"} -> "locked"
                                        [] OTHER -> "none"
             /\ ~pages'[g].own.fault /\ ~pages'[g].control.fault
             /\ mdl'[g].control \subseteq {wrap}
             /\ irp'[g].completed > 0 => irp'[g].at \in {"return", "none", "lost"}
    <2>1. CASE g = h BY <2>1
    <2>2. CASE g # h
        <3>1. irp'[g] = irp[g] /\ mdl'[g] = mdl[g] /\ pages'[g] = pages[g] BY <2>2 DEF IoStep
        <3> QED BY <3>1 DEF IInv, MdlAgrees
    <2> QED BY <2>1, <2>2
<1>5. MdlAgrees' BY <1>4 DEF MdlAgrees
<1> QED BY <1>1, <1>2, <1>3, <1>5 DEF IInv

(* An IRP is sent on a handle no IRP is under way on.                        *)
LEMMA SendIInv ==
    ASSUME IInv, NEW h \in Handles, NEW major \in FileObjMajors \cup IoMajors,
           NEW state \in FileState \ {"none", "closed"}, Send(h, major, state), ~Dispatching(h),
           entry = "running", device = "live",
           major \in IoMajors => irp[h].sent < MaxSend
    PROVE  IInv'
<1>1. irp[h] \in IrpRecord /\ irp \in [Handles -> IrpRecord] /\ file \in [Handles -> FileState]
    BY DEF IInv, TypeOK
<1>2. UNCHANGED <<driverVars, mdl, pages>> /\ file' = [file EXCEPT ![h] = state]
    BY DEF Send
<1>3. irp' = [irp EXCEPT ![h] = [irp[h] EXCEPT !.major = major, !.at = "sent", !.completed = 0,
                                 !.side = "in", !.ok = TRUE,
                                 !.sent = IF major \in IoMajors THEN @ + 1 ELSE @]]
    BY <1>1 DEF Send
<1>4. irp'[h] \in IrpRecord /\ irp'[h].at = "sent" /\ irp'[h].completed = 0
    <2>1. irp'[h] = [irp[h] EXCEPT !.major = major, !.at = "sent", !.completed = 0,
                                   !.side = "in", !.ok = TRUE,
                                   !.sent = IF major \in IoMajors THEN @ + 1 ELSE @]
        BY <1>1, <1>3
    <2>2. (IF major \in IoMajors THEN irp[h].sent + 1 ELSE irp[h].sent) \in 0 .. MaxSend
        BY <1>1, SioctlAssumption DEF IrpRecord
    <2>3. irp'[h] = [major |-> major, completed |-> 0,
                     sent |-> IF major \in IoMajors THEN irp[h].sent + 1 ELSE irp[h].sent,
                     at |-> "sent", side |-> "in", ok |-> TRUE]
        BY <1>1, <2>1 DEF IrpRecord
    <2>4. irp'[h] \in IrpRecord BY <2>2, <2>3 DEF IrpRecord
    <2> QED BY <2>3, <2>4
<1>5. IoStep(h) /\ irp' \in [Handles -> IrpRecord] /\ file' \in [Handles -> FileState]
    BY <1>1, <1>2, <1>3, <1>4 DEF IoStep
<1>6. file'[h] \notin {"none", "closed"} BY <1>1, <1>2
<1>7. /\ mdl[h].own = {} /\ pages[h].own.pages = "none" /\ mdl[h].control \subseteq {wrap}
      /\ ~pages[h].own.fault /\ ~pages[h].control.fault
    BY DEF Dispatching, IInv, MdlAgrees
<1>8. /\ mdl' \in [Handles -> [own : SUBSET WduMdl, control : SUBSET WduMdl]]
      /\ pages' \in [Handles -> [own : MdlState, control : MdlState]]
    BY <1>2 DEF IInv, TypeOK
<1>9. /\ mdl'[h].own = {} /\ pages'[h].own.pages = "none" /\ mdl'[h].control \subseteq {wrap}
      /\ ~pages'[h].own.fault /\ ~pages'[h].control.fault
    BY <1>2, <1>7
<1>10. ~(irp'[h].completed > 0) /\ irp'[h].at \notin {"lock", "map", "drop"} BY <1>4
<1> QED BY <1>5, <1>6, <1>8, <1>9, <1>10, OtherHandles

(* The I/O manager sends within these conditions.                            *)
LEMMA IoManagerIInv ==
    ASSUME IInv, NEW h \in Handles, Open(h) \/ ReadOrControl(h) \/ CloseHandle(h) \/ LastReference(h)
    PROVE  IInv'
<1> USE DEF FileState, FileObjMajors, IoMajors
<1>1. CASE Open(h)
    <2>1. ~Dispatching(h) BY <1>1 DEF Open, IInv, OpenMeansRunning
    <2> QED BY <1>1, <2>1, SendIInv DEF Open
<1>2. CASE ReadOrControl(h)
    BY <1>2, SendIInv DEF ReadOrControl, Idle, Dispatching, IInv, OpenMeansRunning
<1>3. CASE CloseHandle(h)
    BY <1>3, SendIInv DEF CloseHandle, Idle, Dispatching, IInv, OpenMeansRunning
<1>4. CASE LastReference(h)
    BY <1>4, SendIInv DEF LastReference, Idle, Dispatching, IInv, OpenMeansRunning
<1> QED BY <1>1, <1>2, <1>3, <1>4
(* What a dispatch has to show of its own handle.                            *)
LEMMA MoveIInv ==
    ASSUME IInv, NEW h \in Handles, Dispatching(h), UNCHANGED <<driverVars, file>>,
           NEW at \in {"ioctl", "alloc", "lock", "map", "drop", "complete", "return"},
           irp' = [irp EXCEPT ![h] = irp'[h]], irp'[h] \in IrpRecord, irp'[h].at = at,
           irp'[h].completed > 0 => at = "return",
           mdl' = [mdl EXCEPT ![h] = mdl'[h]],
           mdl'[h] \in [own : SUBSET WduMdl, control : SUBSET WduMdl],
           pages' = [pages EXCEPT ![h] = pages'[h]],
           pages'[h] \in [own : MdlState, control : MdlState],
           mdl'[h].own = CASE at = "lock" -> {allocate}
                           [] at \in {"map", "drop"} -> {probe_and_lock(allocate)}
                           [] OTHER -> {},
           pages'[h].own.pages = CASE at = "lock" -> "built"
                                   [] at \in {"map", "drop"} -> "locked"
                                   [] OTHER -> "none",
           ~pages'[h].own.fault /\ ~pages'[h].control.fault,
           mdl'[h].control \subseteq {wrap}
    PROVE  IInv'
<1>1. /\ irp \in [Handles -> IrpRecord] /\ file \in [Handles -> FileState]
      /\ mdl \in [Handles -> [own : SUBSET WduMdl, control : SUBSET WduMdl]]
      /\ pages \in [Handles -> [own : MdlState, control : MdlState]]
    BY DEF IInv, TypeOK
<1>2. /\ irp' \in [Handles -> IrpRecord] /\ file' \in [Handles -> FileState]
      /\ mdl' \in [Handles -> [own : SUBSET WduMdl, control : SUBSET WduMdl]]
      /\ pages' \in [Handles -> [own : MdlState, control : MdlState]]
      /\ \A g \in Handles \ {h} : /\ irp'[g] = irp[g] /\ mdl'[g] = mdl[g] /\ pages'[g] = pages[g]
    BY <1>1
<1>3. file'[h] \notin {"none", "closed"} /\ entry = "running" /\ device = "live"
    BY DEF IInv, OpenMeansRunning
<1>4. IoStep(h) BY <1>2, <1>3 DEF IoStep
<1> QED BY <1>2, <1>3, <1>4, OtherHandles

Places == {"none", "sent", "ioctl", "alloc", "lock", "map", "drop", "complete", "return", "lost"}

(* A dispatch moves on, and leaves the rest of its IRP alone.                *)
LEMMA AtMoves ==
    ASSUME irp \in [Handles -> IrpRecord], NEW h \in Handles, NEW place \in Places, At(h, place)
    PROVE  /\ irp' = [irp EXCEPT ![h] = irp'[h]] /\ irp'[h] \in IrpRecord
           /\ irp'[h].at = place /\ irp'[h].completed = irp[h].completed
<1>1. irp[h] \in IrpRecord OBVIOUS
<1>2. irp' = [irp EXCEPT ![h] = [irp[h] EXCEPT !.at = place]] BY DEF At
<1>3. irp'[h] = [irp[h] EXCEPT !.at = place] BY <1>2
<1>4. /\ [irp[h] EXCEPT !.at = place] \in IrpRecord
      /\ [irp[h] EXCEPT !.at = place].at = place
      /\ [irp[h] EXCEPT !.at = place].completed = irp[h].completed
    BY <1>1 DEF IrpRecord, Places
<1> QED BY <1>2, <1>3, <1>4

(* What WduMdl makes of an MDL, and what drop does to the one that was       *)
(* allocated and locked, and to the IRP's own.                               *)
LEMMA MdlSteps ==
    /\ allocate \in WduMdl /\ probe_and_lock(allocate) \in WduMdl /\ wrap \in WduMdl
    /\ \A s \in MdlState : drop(wrap, s) = s
    /\ \A s \in MdlState : s.pages = "locked" /\ ~s.fault =>
          /\ drop(probe_and_lock(allocate), s) \in MdlState
          /\ drop(probe_and_lock(allocate), s).pages = "none"
          /\ ~drop(probe_and_lock(allocate), s).fault
<1>1. allocate \in WduMdl /\ probe_and_lock(allocate) \in WduMdl /\ wrap \in WduMdl
    BY DEF allocate, probe_and_lock, wrap, WduMdl
<1>2. /\ ~wrap.lock /\ ~wrap.alloc
      /\ probe_and_lock(allocate).lock /\ probe_and_lock(allocate).alloc
    BY DEF allocate, probe_and_lock, wrap
<1>3. \A s \in MdlState : drop(wrap, s) = s BY <1>2 DEF drop
<1>4. ASSUME NEW s \in MdlState, s.pages = "locked", ~s.fault
      PROVE  /\ drop(probe_and_lock(allocate), s) \in MdlState
             /\ drop(probe_and_lock(allocate), s).pages = "none"
             /\ ~drop(probe_and_lock(allocate), s).fault
    <2>1. drop(probe_and_lock(allocate), s) = free(unlock(s)) BY <1>2 DEF drop
    <2>2. unlock(s) \in MdlState /\ unlock(s).pages = "built" /\ ~unlock(s).fault
        BY <1>4 DEF unlock, MdlState
    <2>3. \A u \in MdlState : u.pages = "built" /\ ~u.fault =>
              free(u) \in MdlState /\ free(u).pages = "none" /\ ~free(u).fault
        BY DEF free, MdlState
    <2> QED BY <2>1, <2>2, <2>3
<1> QED BY <1>1, <1>3, <1>4

(* Every step of a dispatch routine keeps the invariant.                     *)
LEMMA HandlerIInv == ASSUME IInv, NEW h \in Handles, Handler(h) PROVE IInv'
<1> DEFINE MdlPair == [own : SUBSET WduMdl, control : SUBSET WduMdl]
           PagesPair == [own : MdlState, control : MdlState]
<1>a. /\ irp \in [Handles -> IrpRecord] /\ mdl \in [Handles -> MdlPair]
      /\ pages \in [Handles -> PagesPair]
      /\ mdl[h] \in MdlPair /\ pages[h] \in PagesPair
    BY DEF IInv, TypeOK
<1>b. /\ ~pages[h].own.fault /\ ~pages[h].control.fault /\ mdl[h].control \subseteq {wrap}
      /\ irp[h].at \notin {"return", "none", "lost"} => ~(irp[h].completed > 0)
      /\ irp[h].at \notin {"lock", "map", "drop"} =>
            mdl[h].own = {} /\ pages[h].own.pages = "none"
      /\ irp[h].at = "lock" => mdl[h].own = {allocate} /\ pages[h].own.pages = "built"
      /\ irp[h].at \in {"map", "drop"} =>
            mdl[h].own = {probe_and_lock(allocate)} /\ pages[h].own.pages = "locked"
    BY DEF IInv, MdlAgrees
<1> USE DEF Places
<1>1. CASE Dispatch(h)
    <2>1. PICK at \in {"ioctl", "complete", "return"} : At(h, at)
        BY <1>1 DEF Dispatch, fo_dispatch, io_dispatch
    <2>2. /\ irp' = [irp EXCEPT ![h] = irp'[h]] /\ irp'[h] \in IrpRecord
          /\ irp'[h].at = at /\ ~(irp'[h].completed > 0)
        BY <1>1, <1>a, <1>b, <2>1, AtMoves DEF Dispatch
    <2>3. mdl' = mdl /\ pages' = pages /\ UNCHANGED <<driverVars, file>> BY <1>1 DEF Dispatch
    <2>4. mdl[h].own = {} /\ pages[h].own.pages = "none" /\ Dispatching(h)
        BY <1>1, <1>b DEF Dispatch, Dispatching
    <2>5. mdl' = [mdl EXCEPT ![h] = mdl'[h]] /\ pages' = [pages EXCEPT ![h] = pages'[h]]
        BY <1>a, <2>3
    <2> QED BY <1>a, <1>b, <2>2, <2>3, <2>4, <2>5, MoveIInv
<1>2. CASE DeviceControl(h)
    <2>1. PICK method \in {"Buffered", "Direct", "Neither"} :
              /\ mdl' = [mdl EXCEPT ![h].control = ControlMdl(method)]
              /\ pages' = [pages EXCEPT ![h].control.pages =
                                IF method = "Direct" THEN "locked" ELSE "none"]
              /\ At(h, "complete") \/ At(h, "alloc")
        BY <1>2 DEF DeviceControl
    <2>2. PICK at \in {"complete", "alloc"} : At(h, at) BY <2>1
    <2>3. /\ irp' = [irp EXCEPT ![h] = irp'[h]] /\ irp'[h] \in IrpRecord
          /\ irp'[h].at = at /\ ~(irp'[h].completed > 0)
        BY <1>2, <1>a, <1>b, <2>2, AtMoves DEF DeviceControl
    <2>4. /\ mdl' = [mdl EXCEPT ![h] = mdl'[h]] /\ mdl'[h] \in MdlPair
          /\ mdl'[h].own = mdl[h].own /\ mdl'[h].control \subseteq {wrap}
        BY <1>a, <2>1, MdlSteps DEF ControlMdl
    <2>5. /\ pages' = [pages EXCEPT ![h] = pages'[h]] /\ pages'[h] \in PagesPair
          /\ pages'[h].own = pages[h].own /\ pages'[h].control.fault = pages[h].control.fault
        BY <1>a, <2>1 DEF MdlState
    <2>6. /\ mdl[h].own = {} /\ pages[h].own.pages = "none" /\ Dispatching(h)
          /\ UNCHANGED <<driverVars, file>>
        BY <1>2, <1>b DEF DeviceControl, Dispatching
    <2> QED BY <1>b, <2>3, <2>4, <2>5, <2>6, MoveIInv
<1>3. CASE MdlAllocate(h)
    <2>0. Dispatching(h) /\ UNCHANGED <<driverVars, file>> /\ irp[h].at = "alloc"
        BY <1>3 DEF MdlAllocate, Dispatching
    <2>1. CASE At(h, "complete") /\ UNCHANGED <<mdl, pages>>
        <3>1. /\ irp' = [irp EXCEPT ![h] = irp'[h]] /\ irp'[h] \in IrpRecord
              /\ irp'[h].at = "complete" /\ ~(irp'[h].completed > 0)
            BY <1>a, <1>b, <2>0, <2>1, AtMoves
        <3>2. mdl' = [mdl EXCEPT ![h] = mdl'[h]] /\ pages' = [pages EXCEPT ![h] = pages'[h]]
            BY <1>a, <2>1
        <3> QED BY <1>a, <1>b, <2>0, <2>1, <3>1, <3>2, MoveIInv
    <2>2. CASE /\ mdl' = [mdl EXCEPT ![h].own = {allocate}]
               /\ pages' = [pages EXCEPT ![h].own.pages = "built"]
               /\ At(h, "lock")
        <3>1. /\ irp' = [irp EXCEPT ![h] = irp'[h]] /\ irp'[h] \in IrpRecord
              /\ irp'[h].at = "lock" /\ ~(irp'[h].completed > 0)
            BY <1>a, <1>b, <2>0, <2>2, AtMoves
        <3>2. /\ mdl' = [mdl EXCEPT ![h] = mdl'[h]] /\ mdl'[h] \in MdlPair
              /\ mdl'[h].own = {allocate} /\ mdl'[h].control = mdl[h].control
            BY <1>a, <2>2, MdlSteps
        <3>3. /\ pages' = [pages EXCEPT ![h] = pages'[h]] /\ pages'[h] \in PagesPair
              /\ pages'[h].own.pages = "built" /\ pages'[h].own.fault = pages[h].own.fault
              /\ pages'[h].control = pages[h].control
            BY <1>a, <2>2 DEF MdlState
        <3> QED BY <1>b, <2>0, <3>1, <3>2, <3>3, MoveIInv
    <2> QED BY <1>3, <2>1, <2>2 DEF MdlAllocate
<1>4. CASE MdlLock(h)
    <2>0. Dispatching(h) /\ UNCHANGED <<driverVars, file>> /\ irp[h].at = "lock"
        BY <1>4 DEF MdlLock, Dispatching
    <2>1. /\ irp' = [irp EXCEPT ![h] = irp'[h]] /\ irp'[h] \in IrpRecord
          /\ irp'[h].at = "map" /\ ~(irp'[h].completed > 0)
        BY <1>4, <1>a, <1>b, <2>0, AtMoves DEF MdlLock
    <2>2. mdl' = [mdl EXCEPT ![h].own = {probe_and_lock(allocate)}]
        <3>1. {probe_and_lock(m) : m \in mdl[h].own} = {probe_and_lock(allocate)} BY <1>b, <2>0
        <3> QED BY <1>4, <3>1 DEF MdlLock
    <2>3. /\ mdl' = [mdl EXCEPT ![h] = mdl'[h]] /\ mdl'[h] \in MdlPair
          /\ mdl'[h].own = {probe_and_lock(allocate)} /\ mdl'[h].control = mdl[h].control
        BY <1>a, <2>2, MdlSteps
    <2>4. /\ pages' = [pages EXCEPT ![h] = pages'[h]] /\ pages'[h] \in PagesPair
          /\ pages'[h].own.pages = "locked" /\ pages'[h].own.fault = pages[h].own.fault
          /\ pages'[h].control = pages[h].control
        BY <1>4, <1>a DEF MdlLock, MdlState
    <2> QED BY <1>b, <2>0, <2>1, <2>3, <2>4, MoveIInv
<1>5. CASE MdlMap(h)
    <2>0. /\ Dispatching(h) /\ UNCHANGED <<driverVars, file, mdl, pages>> /\ irp[h].at = "map"
        BY <1>5 DEF MdlMap, Dispatching
    <2>1. /\ irp' = [irp EXCEPT ![h] = irp'[h]] /\ irp'[h] \in IrpRecord
          /\ irp'[h].at = "drop" /\ irp'[h].completed = irp[h].completed
        <3>1. PICK mapped \in BOOLEAN : irp' = [irp EXCEPT ![h].at = "drop", ![h].ok = mapped]
            BY <1>5 DEF MdlMap
        <3>2. irp[h] \in IrpRecord BY <1>a
        <3>3. irp' = [irp EXCEPT ![h] = [irp[h] EXCEPT !.at = "drop", !.ok = mapped]]
            BY <1>a, <3>1
        <3>4. irp'[h] = [irp[h] EXCEPT !.at = "drop", !.ok = mapped] BY <1>a, <3>3
        <3>5. irp'[h] = [major |-> irp[h].major, completed |-> irp[h].completed,
                         sent |-> irp[h].sent, at |-> "drop", side |-> irp[h].side, ok |-> mapped]
            BY <3>2, <3>4 DEF IrpRecord
        <3>6. irp'[h] \in IrpRecord BY <3>2, <3>5 DEF IrpRecord
        <3>7. irp'[h].at = "drop" /\ irp'[h].completed = irp[h].completed BY <3>5
        <3> QED BY <1>a, <3>3, <3>4, <3>6, <3>7
    <2>2. mdl' = [mdl EXCEPT ![h] = mdl'[h]] /\ pages' = [pages EXCEPT ![h] = pages'[h]]
        BY <1>a, <2>0
    <2> QED BY <1>a, <1>b, <2>0, <2>1, <2>2, MoveIInv
<1>6. CASE MdlDrop(h)
    <2>0. Dispatching(h) /\ UNCHANGED <<driverVars, file>> /\ irp[h].at = "drop"
        BY <1>6 DEF MdlDrop, Dispatching
    <2> DEFINE dropped == drop(probe_and_lock(allocate), pages[h].own)
    <2>1. pages' = [pages EXCEPT ![h].own = dropped] /\ mdl' = [mdl EXCEPT ![h].own = {}]
        BY <1>6, <1>b, <2>0 DEF MdlDrop
    <2>2. dropped \in MdlState /\ dropped.pages = "none" /\ ~dropped.fault
        BY <1>a, <1>b, <2>0, MdlSteps
    <2> HIDE DEF dropped
    <2>3. /\ pages' = [pages EXCEPT ![h] = pages'[h]] /\ pages'[h] \in PagesPair
          /\ pages'[h].own = dropped /\ pages'[h].control = pages[h].control
        BY <1>a, <2>1, <2>2
    <2>4. /\ mdl' = [mdl EXCEPT ![h] = mdl'[h]] /\ mdl'[h] \in MdlPair
          /\ mdl'[h].own = {} /\ mdl'[h].control = mdl[h].control
        BY <1>a, <2>1
    <2>5. /\ irp' = [irp EXCEPT ![h] = irp'[h]] /\ irp'[h] \in IrpRecord
          /\ irp'[h].at \in {"alloc", "complete"} /\ irp'[h].completed = irp[h].completed
        <3>1. CASE At(h, "complete") BY <1>a, <3>1, AtMoves
        <3>2. CASE irp' = [irp EXCEPT ![h].at = "alloc", ![h].side = "out"]
            BY <1>a, <3>2 DEF IrpRecord
        <3> QED BY <1>6, <3>1, <3>2 DEF MdlDrop
    <2> QED BY <1>b, <2>0, <2>2, <2>3, <2>4, <2>5, MoveIInv
<1>7. CASE Complete(h)
    <2>0. Dispatching(h) /\ UNCHANGED <<driverVars, file, mdl>> /\ irp[h].at = "complete"
        BY <1>7 DEF Complete, Dispatching
    <2>1. /\ irp' = [irp EXCEPT ![h] = irp'[h]] /\ irp'[h] \in IrpRecord
          /\ irp'[h].at = "return"
        BY <1>7, <1>a DEF Complete, IrpRecord
    <2>2. /\ pages' = [pages EXCEPT ![h] = pages'[h]] /\ pages'[h] \in PagesPair
          /\ pages'[h].own = pages[h].own /\ pages'[h].control.fault = pages[h].control.fault
        BY <1>7, <1>a DEF Complete, MdlState
    <2>3. mdl' = [mdl EXCEPT ![h] = mdl'[h]] BY <1>a, <2>0
    <2> QED BY <1>a, <1>b, <2>0, <2>1, <2>2, <2>3, MoveIInv
<1>8. CASE Return(h)
    <2>0. Dispatching(h) /\ UNCHANGED driverVars /\ irp[h].at = "return"
        BY <1>8 DEF Return, Dispatching
    <2>1. PICK at \in {"lost", "none"} : At(h, at) BY <1>8 DEF Return
    <2>2. /\ irp' = [irp EXCEPT ![h] = irp'[h]] /\ irp'[h] \in IrpRecord /\ irp'[h].at = at
        BY <1>a, <2>1, AtMoves
    <2>3. pages' = [pages EXCEPT ![h] = pages[h]]
        <3>1. mdl[h].control = {} \/ mdl[h].control = {wrap} BY <1>b
        <3>2. pages[h].control \in MdlState BY <1>a
        <3>3. (IF mdl[h].control = {} THEN pages[h].control
               ELSE drop(CHOOSE m \in mdl[h].control : TRUE, pages[h].control)) = pages[h].control
            BY <3>1, <3>2, MdlSteps
        <3>4. pages' = [pages EXCEPT ![h].control = pages[h].control] BY <1>8, <3>3 DEF Return
        <3> QED BY <1>a, <3>4
    <2>4. pages' = pages BY <1>a, <2>3
    <2>5. /\ mdl' = [mdl EXCEPT ![h] = mdl'[h]] /\ mdl'[h] \in MdlPair
          /\ mdl'[h].own = mdl[h].own /\ mdl'[h].control = {}
        BY <1>8, <1>a DEF Return
    <2>6. file' \in [Handles -> FileState] /\ \A g \in Handles \ {h} : file'[g] = file[g]
        BY <1>8 DEF Return, IInv, TypeOK, FileState
    <2>7. entry = "running" /\ device = "live" BY <2>0 DEF IInv, OpenMeansRunning
    <2>8. IoStep(h) BY <1>a, <2>0, <2>2, <2>4, <2>5, <2>6, <2>7 DEF IoStep
    <2>9. ~Dispatching(h)' /\ irp'[h].at \in {"none", "lost"} BY <2>2 DEF Dispatching
    <2>10. irp' \in [Handles -> IrpRecord] /\ mdl' \in [Handles -> MdlPair]
        BY <1>a, <2>2, <2>5
    <2> QED BY <1>a, <1>b, <2>0, <2>4, <2>5, <2>6, <2>8, <2>9, <2>10, OtherHandles
<1> QED BY <1>1, <1>2, <1>3, <1>4, <1>5, <1>6, <1>7, <1>8 DEF Handler
-----------------------------------------------------------------------------
(* The inductive invariant holds of every behaviour.                         *)
LEMMA NextIInv == IInv /\ [Next]_vars => IInv'
<1> SUFFICES ASSUME IInv, [Next]_vars PROVE IInv' OBVIOUS
<1>1. ASSUME UNCHANGED vars PROVE IInv'
    BY <1>1 DEF vars, driverVars, ioVars, IInv, TypeOK, DriverTypeOK, EntryAgrees,
       OpenMeansRunning, MdlAgrees, Dispatching
<1> QED BY <1>1, DriverIInv, IoManagerIInv, HandlerIInv DEF Next

(* The inductive invariant, always.                                          *)
LEMMA Inductive == Spec => []IInv
<1>1. Init => IInv BY InitIInv
<1>2. IInv /\ [Next]_vars => IInv' BY NextIInv
<1> QED BY <1>1, <1>2, PTL DEF Spec

(* NothingLeftBehind: whichever step of DriverEntry fails, in whichever      *)
(* sample, no device and no notify routine outlives the driver, and its name *)
(* leads to its device.                                                      *)
THEOREM NothingIsLeftBehind == Spec => []NothingLeftBehind
<1>1. IInv => NothingLeftBehind BY DEF IInv, EntryAgrees, NothingLeftBehind
<1> QED BY <1>1, Inductive, PTL

(* ExtensionsFound: dispatch_handler and driver_unload find the device and   *)
(* an initialised WduDriver whenever they run.                               *)
THEOREM ExtensionsAreFound == Spec => []ExtensionsFound
<1>1. IInv => ExtensionsFound
    <2> SUFFICES ASSUME IInv PROVE ExtensionsFound OBVIOUS
    <2>1. sample \in Samples BY DEF IInv, TypeOK, DriverTypeOK
    <2>2. ASSUME NEW h \in Handles, Dispatching(h)
          PROVE  entry = "running" /\ device = "live" /\ dev_ext = "device"
        BY <2>2 DEF IInv, OpenMeansRunning, EntryAgrees
    <2>3. ASSUME entry \in {"running", "unload", "unlink", "unlinked"}
          PROVE  ext # {} /\ \A wdu \in ext : wdu.init
        <3>1. ext = {alloc_ext(Built(sample).wdu)} BY <2>3 DEF IInv, EntryAgrees
        <3>2. alloc_ext(Built(sample).wdu).init BY <2>1, BuiltDriver
        <3> QED BY <3>1, <3>2
    <2> QED BY <2>2, <2>3 DEF ExtensionsFound
<1> QED BY <1>1, Inductive, PTL

(* PagesReleased: method_neither unlocks and frees its MDLs once, on every   *)
(* path, before the IRP is completed.                                        *)
THEOREM PagesAreReleased == Spec => []PagesReleased
<1>1. IInv => PagesReleased BY DEF IInv, MdlAgrees, PagesReleased
<1> QED BY <1>1, Inductive, PTL
=============================================================================
