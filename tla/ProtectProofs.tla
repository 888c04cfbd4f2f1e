---------------------------- MODULE ProtectProofs ----------------------------
(* The obcallback sample for any clients, processes, handle opens and        *)
(* bounds, on a mutex that may fail to exclude: what holds whatever it does, *)
(* and what holds as long as no two sections have overlapped.                *)
EXTENDS Protect, TLAPS

(* What an action does to the one request, process or handle open it is of.  *)
ClientGoes(c, w) ==
    /\ client' \in [Clients -> ClientRecord] /\ client'[c].pc = w
    /\ \A d \in Clients \ {c} : client'[d] = client[d]

ProcGoes(p, w) ==
    /\ proc' \in [Procs -> ProcRecord] /\ proc'[p].pc = w
    /\ \A q \in Procs \ {p} : proc'[q] = proc[q]

OpenerGoes(o, w) ==
    /\ opener' \in [Openers -> OpenerRecord] /\ opener'[o].pc = w
    /\ \A q \in Openers \ {o} : opener'[q] = opener[q]

ClientInside == {"name", "register", "flag1", "flag2", "unregister", "drain"}
ProcInside == {"process", "pid"}
NotifyInside == {"flag", "lock", "process", "pid"}

(* Threads are told apart, and none of them is None.                         *)
LEMMA ThreadsDiffer ==
    /\ \A c \in Clients : c \notin Procs /\ c # Unloader /\ c # None
    /\ \A p \in Procs : p # Unloader /\ p # None
    /\ Unloader # None
BY ProtectAssumption

(* A request moves to its next statement, its operation and name kept.       *)
LEMMA ClientMoves ==
    ASSUME TypeOK, NEW c \in Clients, NEW w \in ClientInside, ClientAt(c, w)
    PROVE  ClientGoes(c, w) /\ client'[c].req = client[c].req
<1>1. client' = [client EXCEPT ![c] = [client[c] EXCEPT !.pc = w]] BY DEF ClientAt
<1>2. client[c] \in ClientRecord BY DEF TypeOK
<1>3. [client[c] EXCEPT !.pc = w] \in ClientRecord BY <1>2 DEF ClientRecord, ClientInside
<1>4. [client[c] EXCEPT !.pc = w].pc = w /\ [client[c] EXCEPT !.pc = w].req = client[c].req
    BY <1>2 DEF ClientRecord
<1> QED BY <1>1, <1>3, <1>4 DEF ClientGoes, TypeOK

(* A request that returns leaves its thread idle.                            *)
LEMMA ClientIsIdle ==
    ASSUME TypeOK, NEW c \in Clients, ClientEnds(c) PROVE ClientGoes(c, "idle")
<1>1. [pc |-> "idle", req |-> None] \in ClientRecord BY DEF ClientRecord
<1> QED BY <1>1 DEF ClientGoes, ClientEnds, TypeOK

(* The callback for a process moves on to its next statement.                *)
LEMMA ProcMoves ==
    ASSUME TypeOK, NEW p \in Procs, NEW w \in NotifyInside,
           proc' = [proc EXCEPT ![p].pc = w]
    PROVE  ProcGoes(p, w)
<1>1. proc' = [proc EXCEPT ![p] = [proc[p] EXCEPT !.pc = w]] OBVIOUS
<1>2. proc[p] \in ProcRecord BY DEF TypeOK
<1>3. [proc[p] EXCEPT !.pc = w] \in ProcRecord /\ [proc[p] EXCEPT !.pc = w].pc = w
    BY <1>2 DEF ProcRecord, NotifyInside
<1> QED BY <1>1, <1>3 DEF ProcGoes, TypeOK

(* A pass over the flags that is over is followed by the second pass or by   *)
(* the end of the callback.                                                  *)
LEMMA PassEnds ==
    ASSUME TypeOK, NEW p \in Procs, proc' = [proc EXCEPT ![p] = AfterPass(p)]
    PROVE  \E w \in {"flag", "live"} : ProcGoes(p, w)
<1>1. proc[p] \in ProcRecord BY DEF TypeOK
<1>2. AfterPass(p) \in ProcRecord /\ AfterPass(p).pc \in {"flag", "live"}
    BY <1>1 DEF ProcRecord, AfterPass
<1> QED BY <1>2 DEF ProcGoes, TypeOK

(* A process that is created or gone starts from a fresh record.             *)
LEMMA ProcBecomes ==
    ASSUME TypeOK, NEW p \in Procs, NEW w \in {"flag", "live", "none"}, NEW n \in Names \cup {None},
           proc' = [proc EXCEPT ![p] = [pc |-> w, name |-> n, pass |-> "protect"]]
    PROVE  ProcGoes(p, w)
<1>1. [pc |-> w, name |-> n, pass |-> "protect"] \in ProcRecord BY DEF ProcRecord
<1> QED BY <1>1 DEF ProcGoes, TypeOK

(* The driver's pre callback sets the context of an open that has none       *)
(* without a fault.                                                          *)
LEMMA PreCallback ==
    ASSUME NEW op \in OpenerRecord, NEW type, NEW who
    PROVE  /\ pre_operation_cb(op, type, who) \in OpenerRecord
           /\ op.ctx = "none" => /\ pre_operation_cb(op, type, who).ctx # "freed"
                                 /\ pre_operation_cb(op, type, who).faults = op.faults
<1>1. Strip(op, who) \in OpenerRecord /\ Strip(op, who).ctx = op.ctx /\ Strip(op, who).faults = op.faults
    BY DEF OpenerRecord, Strip
<1>2. ASSUME NEW s \in OpenerRecord
      PROVE  /\ set_context(s) \in OpenerRecord /\ set_context(s).ctx = "live"
             /\ s.ctx = "none" => set_context(s).faults = s.faults
    BY DEF OpenerRecord, set_context
<1> QED BY <1>1, <1>2 DEF pre_operation_cb

(* Its post callback frees a context that is not freed yet without a fault.  *)
LEMMA PostCallback ==
    ASSUME NEW op \in OpenerRecord
    PROVE  /\ post_operation_cb(op) \in OpenerRecord
           /\ op.ctx # "freed" => /\ post_operation_cb(op).ctx # "live"
                                  /\ post_operation_cb(op).faults = op.faults
BY DEF OpenerRecord, post_operation_cb, call_context

-----------------------------------------------------------------------------
(* What a thread's use of the mutex leaves of the others' sections.          *)
MutexKept(t) ==
    /\ inside' \subseteq Threads /\ overlaps' \in 0..MaxOverlap
    /\ overlaps' = 0 => overlaps = 0
    /\ \A u \in inside \ {t} : u \in inside'
    /\ overlaps' = 0 /\ Alone => Alone'

(* However the mutex is used, the sections of the others go on, and without  *)
(* an overlap a thread is inside alone.                                      *)
LEMMA MutexSteps ==
    ASSUME TypeOK, NEW t \in Threads, Lock(t) \/ Unlock(t) \/ LockBriefly \/ UNCHANGED mutexVars
    PROVE  MutexKept(t)
<1>1. inside \subseteq Threads /\ overlaps \in 0..MaxOverlap /\ MaxOverlap \in Nat
    BY ProtectAssumption DEF TypeOK
<1>2. CASE Lock(t) BY <1>1, <1>2 DEF Lock, Granted, MutexKept, Alone
<1>3. CASE Unlock(t) BY <1>1, <1>3 DEF Unlock, MutexKept, Alone
<1>4. CASE LockBriefly BY <1>1, <1>4 DEF LockBriefly, Granted, MutexKept, Alone
<1>5. CASE UNCHANGED mutexVars BY <1>1, <1>5 DEF mutexVars, MutexKept, Alone
<1> QED BY <1>2, <1>3, <1>4, <1>5

(* A step of a request, which happens before unload: it is inside until it   *)
(* is idle again, and leaves the target and the processes alone.             *)
LEMMA ClientStepKeeps ==
    ASSUME IInv, NEW c \in Clients, NEW w \in ClientInside \cup {"idle"}, ClientGoes(c, w),
           unload = "loaded", UNCHANGED <<psLive, proc, opener, unload, creates>>,
           MutexKept(c), w # "idle" => c \in inside',
           w \in {"name", "register", "flag1", "flag2"} => client'[c].req \in Requests,
           prot' \in ProtRecord, prot'.ops >= prot.ops,
           prot'.tproc = prot.tproc, prot'.tpid = prot.tpid, ob' \in ObRecord
    PROVE  Base' /\ (overlaps' = 0 /\ FilterAgrees' => Excluded')
<1> USE DEF IInv, Base
<1>1. TypeOK' BY DEF TypeOK, ClientGoes, MutexKept
<1>2. InsideOwns' BY ThreadsDiffer DEF InsideOwns, ClientGoes, ClientInside, MutexKept
<1>3. ContextAt'
    <2>1. prot.ops \in Int /\ prot'.ops \in Int BY ProtectAssumption DEF TypeOK, ProtRecord
    <2> QED BY <2>1 DEF ContextAt
<1>4. NotifyStops' BY DEF NotifyStops
<1>5. RequestsInPlace' BY DEF RequestsInPlace, ClientGoes
<1>6. ASSUME overlaps' = 0 PROVE Alone' /\ TargetAhead' /\ FilterStops'
    BY <1>6 DEF MutexKept, Excluded, TargetAhead, FilterStops
<1> QED BY <1>1, <1>2, <1>3, <1>4, <1>5, <1>6 DEF Excluded

(* A step of the callback for a process: it is inside while it matches,      *)
(* begins only while it is registered, and leaves the filter alone.          *)
LEMMA ProcStepKeeps ==
    ASSUME IInv, NEW p \in Procs, NEW w, ProcGoes(p, w),
           UNCHANGED <<ob, psLive, client, opener, unload>>, creates' \in 0..MaxCreate,
           MutexKept(p), w \in ProcInside => p \in inside',
           w \in NotifyInside => proc[p].pc \in NotifyInside \/ psLive,
           prot' \in ProtRecord, prot'.ops = prot.ops, prot'.installed = prot.installed
    PROVE  Base' /\ (overlaps' = 0 /\ TargetAhead' => Excluded')
<1> USE DEF IInv, Base
<1>1. TypeOK' BY DEF TypeOK, ProcGoes, MutexKept
<1>2. InsideOwns' BY ThreadsDiffer DEF InsideOwns, ProcGoes, ProcInside, MutexKept
<1>3. ContextAt' /\ RequestsInPlace' BY DEF ContextAt, RequestsInPlace
<1>4. NotifyStops'
    <2>1. InNotify = {} /\ ~psLive => InNotify' = {} BY DEF InNotify, NotifyInside, ProcGoes
    <2> QED BY <2>1 DEF NotifyStops
<1>5. ASSUME overlaps' = 0 PROVE Alone' /\ FilterAgrees' /\ FilterStops'
    <2>1. Excluded /\ Alone' BY <1>5 DEF MutexKept, Excluded
    <2>2. FilterAgrees' BY <2>1 DEF Excluded, FilterAgrees, Draining, InFilter
    <2>3. FilterStops' BY <2>1 DEF Excluded, FilterStops, InFilter
    <2> QED BY <2>1, <2>2, <2>3
<1> QED BY <1>1, <1>2, <1>3, <1>4, <1>5 DEF Excluded

(* A step of a handle open: it begins only while the kernel has the filter.  *)
LEMMA OpenerStepKeeps ==
    ASSUME IInv, NEW o \in Openers, NEW w, OpenerGoes(o, w), ContextAt',
           UNCHANGED <<mutexVars, prot, ob, psLive, client, proc, unload, creates>>,
           w # "idle" => opener[o].pc # "idle" \/ ob.live
    PROVE  IInv'
<1> USE DEF IInv, Base, mutexVars
<1>1. TypeOK' BY DEF TypeOK, OpenerGoes
<1>2. InsideOwns' /\ RequestsInPlace' BY DEF InsideOwns, RequestsInPlace
<1>3. NotifyStops'
    <2>1. InNotify' = InNotify BY DEF InNotify
    <2> QED BY <2>1 DEF NotifyStops
<1>4. ASSUME overlaps' = 0 PROVE Excluded'
    <2>1. Excluded BY <1>4
    <2>2. InFilter = {} /\ ~ob.live => InFilter' = {} BY DEF InFilter, OpenerGoes
    <2>3. Draining' = Draining BY DEF Draining
    <2>4. Alone' /\ TargetAhead' BY <2>1 DEF Excluded, Alone, TargetAhead
    <2>5. FilterAgrees' BY <2>1, <2>2, <2>3 DEF Excluded, FilterAgrees
    <2>6. FilterStops' BY <2>1, <2>2 DEF Excluded, FilterStops
    <2> QED BY <2>4, <2>5, <2>6 DEF Excluded
<1> QED BY <1>1, <1>2, <1>3, <1>4

-----------------------------------------------------------------------------
(* The driver has registered its process callback and nothing else.          *)
LEMMA InitIInv == Init => IInv
<1> SUFFICES ASSUME Init PROVE IInv OBVIOUS
<1> USE DEF Init
<1>1. /\ \A c \in Clients : client[c].pc = "idle"
      /\ \A p \in Procs : proc[p].pc = "none"
      /\ \A o \in Openers : opener[o].pc = "idle" /\ opener[o].ctx = "none" /\ opener[o].faults = {}
    OBVIOUS
<1>2. /\ prot.ops = 0 /\ prot.installed = FALSE /\ prot.tproc = prot.tpid
      /\ ob.live = FALSE /\ ob.handle = FALSE
    OBVIOUS
<1>3. prot \in ProtRecord /\ ob \in ObRecord BY ProtectAssumption DEF ProtRecord, ObRecord
<1>4. client \in [Clients -> ClientRecord] BY DEF ClientRecord
<1>5. proc \in [Procs -> ProcRecord] BY DEF ProcRecord
<1>6. opener \in [Openers -> OpenerRecord] BY DEF OpenerRecord
<1>a. inside = {} /\ overlaps = 0 /\ psLive = TRUE /\ unload = "loaded" /\ creates = 0 OBVIOUS
<1> HIDE DEF Init
<1>7. TypeOK BY <1>3, <1>4, <1>5, <1>6, <1>a, ProtectAssumption DEF TypeOK
<1>8. InFilter = {} /\ ~Draining BY <1>1, <1>a DEF InFilter, Draining
<1>9. InsideOwns /\ NotifyStops /\ ContextAt /\ RequestsInPlace
    BY <1>1, <1>2, <1>a DEF InsideOwns, NotifyStops, ContextAt, RequestsInPlace
<1>10. Excluded
    BY <1>1, <1>2, <1>8, <1>a DEF Excluded, Alone, FilterAgrees, TargetAhead, FilterStops
<1> QED BY <1>7, <1>9, <1>10 DEF IInv, Base

(* Without an overlap so far, a request that is inside is the only one, and  *)
(* while no thread is inside there is none.                                  *)
LEMMA OnlyRequest ==
    ASSUME IInv, Alone
    PROVE  /\ \A c \in Clients : client[c].pc \in ClientInside =>
                  \A d \in Clients \ {c} : client[d].pc \notin ClientInside
           /\ inside = {} => \A d \in Clients : client[d].pc \notin ClientInside
           /\ Unloader \in inside => \A d \in Clients : client[d].pc \notin ClientInside
BY ThreadsDiffer DEF IInv, Base, InsideOwns, Alone, ClientInside

(* Every step of a request keeps the inductive invariant.                    *)
LEMMA ClientKeepsIInv ==
    ASSUME IInv, NEW c \in Clients, protect_name(c) \/ unprotect(c) \/ ClientStep(c)
    PROVE  IInv'
<1> USE DEF IInv, Base
<1>a. /\ prot \in ProtRecord /\ prot.ops \in 0..MaxRegister /\ MaxRegister \in Nat
      /\ prot.ops >= prot.ops /\ ob \in ObRecord /\ c \in Threads
    BY ProtectAssumption DEF TypeOK, ProtRecord, Threads
<1>b. client[c].pc \in ClientInside => c \in inside /\ unload = "loaded"
    BY DEF InsideOwns, NotifyStops, ClientInside
<1>c. overlaps = 0 => Alone /\ FilterAgrees BY DEF Excluded
<1>0. ASSUME client[c].pc = "idle", unload = "loaded", LockBriefly, UNCHANGED client,
             UNCHANGED <<prot, ob, psLive, proc, opener, unload, creates>>
      PROVE  IInv'
    \* the filter is as the request wants it
    <2>1. MutexKept(c) BY <1>0, <1>a, MutexSteps
    <2>2. ClientGoes(c, "idle") BY <1>0 DEF ClientGoes, TypeOK
    <2>3. Base' /\ (overlaps' = 0 /\ FilterAgrees' => Excluded')
        BY <1>0, <1>a, <2>1, <2>2, ClientStepKeeps
    <2>4. Draining' = Draining /\ InFilter' = InFilter BY <1>0 DEF Draining, InFilter
    <2>5. overlaps' = 0 => FilterAgrees' BY <1>0, <1>c, <2>1, <2>4 DEF FilterAgrees, MutexKept
    <2> QED BY <2>3, <2>5
<1>1. ASSUME protect_name(c) PROVE IInv'
    <2>0. /\ client[c].pc = "idle" /\ unload = "loaded"
          /\ UNCHANGED <<prot, ob, psLive, proc, opener, unload, creates>>
        BY <1>1 DEF protect_name
    <2>1. CASE LockBriefly /\ UNCHANGED client BY <1>0, <2>0, <2>1
    <2>2. ASSUME Lock(c), NEW r \in Requests,
                 client' = [client EXCEPT ![c] = [pc |-> "name", req |-> r]]
          PROVE  IInv'
        <3>1. [pc |-> "name", req |-> r] \in ClientRecord BY DEF ClientRecord
        <3>2. ClientGoes(c, "name") /\ client'[c].req = r
            BY <2>2, <3>1 DEF ClientGoes, TypeOK
        <3>3. MutexKept(c) /\ c \in inside' BY <2>2, <1>a, MutexSteps DEF Lock
        <3>4. Base' /\ (overlaps' = 0 /\ FilterAgrees' => Excluded')
            BY <1>a, <2>0, <3>2, <3>3, ClientStepKeeps DEF ClientInside
        <3>5. Draining' = Draining /\ InFilter' = InFilter
            BY <2>0, <3>2 DEF Draining, InFilter, ClientGoes
        <3>6. overlaps' = 0 => FilterAgrees' BY <1>c, <2>0, <3>3, <3>5 DEF FilterAgrees, MutexKept
        <3> QED BY <3>4, <3>6
    <2> QED BY <1>1, <2>1, <2>2 DEF protect_name
<1>2. ASSUME client[c].pc \in ClientInside \ {"drain"}, ClientReturns(c),
             UNCHANGED <<ob, psLive, proc, opener, unload, creates>>,
             prot' \in ProtRecord, prot'.ops = prot.ops, prot'.installed = prot.installed,
             prot'.tproc = prot.tproc, prot'.tpid = prot.tpid
      PROVE  IInv'
    \* the requests that return without an unregistration
    <2>1. MutexKept(c) /\ ClientGoes(c, "idle")
        BY <1>2, <1>a, MutexSteps, ClientIsIdle DEF ClientReturns
    <2>2. Base' /\ (overlaps' = 0 /\ FilterAgrees' => Excluded')
        BY <1>2, <1>a, <1>b, <2>1, ClientStepKeeps
    <2>3. Draining' = Draining /\ InFilter' = InFilter
        BY <1>2, <2>1 DEF Draining, InFilter, ClientGoes, ClientInside
    <2>4. overlaps' = 0 => FilterAgrees' BY <1>2, <1>c, <2>1, <2>3 DEF FilterAgrees, MutexKept
    <2> QED BY <2>2, <2>4
<1>3. ASSUME SetName(c) PROVE IInv'
    <2>0. /\ client[c].pc = "name" /\ c \in inside /\ unload = "loaded"
          /\ UNCHANGED <<ob, psLive, proc, opener, unload, creates>>
        BY <1>3, <1>b DEF SetName, ClientInside
    <2>1. CASE ClientReturns(c) /\ UNCHANGED prot
        BY <1>2, <1>a, <2>0, <2>1 DEF ClientInside
    <2>2. CASE /\ prot.ops < MaxRegister
               /\ prot' = PushOps([prot EXCEPT !.name = client[c].req.name])
               /\ ClientAt(c, "register") /\ UNCHANGED mutexVars
        <3>1. ClientGoes(c, "register") /\ client'[c].req = client[c].req
            BY <2>2, ClientMoves DEF ClientInside
        <3>2. client[c].req \in Requests BY <2>0 DEF RequestsInPlace
        <3>3. client[c].req.name \in Names BY <3>2, ProtectAssumption DEF Requests
        <3>4. prot.ops + 1 \in 0..MaxRegister BY <1>a, <2>2
        <3>5. prot' = [prot EXCEPT !.name = client[c].req.name, !.ops = @ + 1]
            BY <2>2 DEF PushOps
        <3>6. /\ prot'.ops = prot.ops + 1 /\ prot'.installed = prot.installed
              /\ prot'.tproc = prot.tproc /\ prot'.tpid = prot.tpid
            BY <1>a, <3>5 DEF ProtRecord
        <3>7. prot' \in ProtRecord BY <1>a, <3>3, <3>4, <3>5 DEF ProtRecord
        <3>8. prot'.ops >= prot.ops BY <1>a, <3>6
        <3>9. MutexKept(c) /\ c \in inside' BY <1>a, <2>0, <2>2, MutexSteps DEF mutexVars
        <3>10. Base' /\ (overlaps' = 0 /\ FilterAgrees' => Excluded')
            BY <1>a, <2>0, <3>1, <3>2, <3>6, <3>7, <3>8, <3>9, ClientStepKeeps DEF ClientInside
        <3>11. Draining' = Draining /\ InFilter' = InFilter
            BY <2>0, <3>1 DEF Draining, InFilter, ClientGoes
        <3>12. overlaps' = 0 => FilterAgrees'
            BY <1>c, <2>0, <3>6, <3>9, <3>11 DEF FilterAgrees, MutexKept
        <3> QED BY <3>10, <3>12
    <2> QED BY <1>3, <2>1, <2>2 DEF SetName
<1>4. ASSUME register_callback(c) PROVE IInv'
    <2>0. /\ client[c].pc = "register" /\ c \in inside /\ unload = "loaded"
          /\ UNCHANGED <<psLive, proc, opener, unload, creates>>
        BY <1>4, <1>b DEF register_callback, ClientInside
    <2>1. CASE ClientReturns(c) /\ UNCHANGED <<ob, prot>>
        BY <1>2, <1>a, <2>0, <2>1 DEF ClientInside
    <2>2. CASE /\ ObRegister /\ prot' = [prot EXCEPT !.installed = TRUE]
               /\ ClientAt(c, "flag1") /\ UNCHANGED mutexVars
        <3>1. ClientGoes(c, "flag1") /\ client'[c].req \in Requests
            BY <2>0, <2>2, ClientMoves DEF ClientInside, RequestsInPlace
        <3>2. /\ prot' \in ProtRecord /\ prot'.ops = prot.ops /\ prot'.installed
              /\ prot'.tproc = prot.tproc /\ prot'.tpid = prot.tpid
            BY <1>a, <2>2 DEF ProtRecord
        <3>3. ob' \in ObRecord /\ ob'.live /\ ob'.handle BY <1>a, <2>2 DEF ObRegister, ObRecord
        <3>4. MutexKept(c) /\ c \in inside' BY <1>a, <2>0, <2>2, MutexSteps DEF mutexVars
        <3>5. Base' /\ (overlaps' = 0 /\ FilterAgrees' => Excluded')
            BY <1>a, <2>0, <3>1, <3>2, <3>3, <3>4, ClientStepKeeps DEF ClientInside
        <3>6. ASSUME overlaps' = 0 PROVE FilterAgrees'
            <4>1. Alone BY <1>c, <3>4, <3>6 DEF MutexKept
            <4>2. ~Draining'
                BY <2>0, <3>1, <4>1, OnlyRequest DEF Draining, ClientInside, ClientGoes
            <4> QED BY <3>2, <3>3, <4>2 DEF FilterAgrees, ProtRecord, ObRecord
        <3> QED BY <3>5, <3>6
    <2> QED BY <1>4, <2>1, <2>2 DEF register_callback
<1>5. ASSUME SetProtectFlag(c) PROVE IInv'
    <2>0. /\ client[c].pc = "flag1" /\ c \in inside /\ unload = "loaded"
          /\ UNCHANGED <<ob, psLive, proc, opener, unload, creates>>
        BY <1>5, <1>b DEF SetProtectFlag, ClientInside
    <2>1. CASE ClientReturns(c) /\ UNCHANGED prot
        BY <1>2, <1>a, <2>0, <2>1 DEF ClientInside
    <2>2. CASE /\ prot' = [prot EXCEPT !.protectFlag = (client[c].req.op = "protect")]
               /\ ClientAt(c, "flag2") /\ UNCHANGED mutexVars
        <3>1. ClientGoes(c, "flag2") /\ client'[c].req \in Requests
            BY <2>0, <2>2, ClientMoves DEF ClientInside, RequestsInPlace
        <3>2. /\ prot' \in ProtRecord /\ prot'.ops = prot.ops /\ prot'.installed = prot.installed
              /\ prot'.tproc = prot.tproc /\ prot'.tpid = prot.tpid
            BY <1>a, <2>2 DEF ProtRecord
        <3>3. MutexKept(c) /\ c \in inside' BY <1>a, <2>0, <2>2, MutexSteps DEF mutexVars
        <3>4. Base' /\ (overlaps' = 0 /\ FilterAgrees' => Excluded')
            BY <1>a, <2>0, <3>1, <3>2, <3>3, ClientStepKeeps DEF ClientInside
        <3>5. Draining' = Draining /\ InFilter' = InFilter
            BY <2>0, <3>1 DEF Draining, InFilter, ClientGoes
        <3>6. overlaps' = 0 => FilterAgrees'
            BY <1>c, <2>0, <3>2, <3>3, <3>5 DEF FilterAgrees, MutexKept
        <3> QED BY <3>4, <3>6
    <2> QED BY <1>5, <2>1, <2>2 DEF SetProtectFlag
<1>6. ASSUME SetRejectFlag(c) PROVE IInv'
    <2>1. /\ prot' \in ProtRecord /\ prot'.ops = prot.ops /\ prot'.installed = prot.installed
          /\ prot'.tproc = prot.tproc /\ prot'.tpid = prot.tpid
        BY <1>a, <1>6 DEF ProtRecord, SetRejectFlag
    <2> QED BY <1>2, <1>6, <2>1 DEF SetRejectFlag, ClientInside
<1>7. ASSUME unprotect(c) PROVE IInv'
    <2>0. /\ client[c].pc = "idle" /\ unload = "loaded"
          /\ UNCHANGED <<prot, ob, psLive, proc, opener, unload, creates>>
        BY <1>7 DEF unprotect
    <2>1. CASE LockBriefly /\ UNCHANGED client BY <1>0, <2>0, <2>1
    <2>2. CASE Lock(c) /\ ClientAt(c, "unregister")
        <3>1. ClientGoes(c, "unregister") BY <2>2, ClientMoves DEF ClientInside
        <3>2. MutexKept(c) /\ c \in inside' BY <1>a, <2>2, MutexSteps DEF Lock
        <3>3. Base' /\ (overlaps' = 0 /\ FilterAgrees' => Excluded')
            BY <1>a, <2>0, <3>1, <3>2, ClientStepKeeps DEF ClientInside
        <3>4. Draining' = Draining /\ InFilter' = InFilter
            BY <2>0, <3>1 DEF Draining, InFilter, ClientGoes
        <3>5. overlaps' = 0 => FilterAgrees' BY <1>c, <2>0, <3>2, <3>4 DEF FilterAgrees, MutexKept
        <3> QED BY <3>3, <3>5
    <2> QED BY <1>7, <2>1, <2>2 DEF unprotect
<1>8. ASSUME Unregister(c) PROVE IInv'
    <2>0. /\ client[c].pc = "unregister" /\ c \in inside /\ unload = "loaded"
          /\ UNCHANGED <<prot, psLive, proc, opener, unload, creates>>
        BY <1>8, <1>b DEF Unregister, ClientInside
    <2>1. CASE ClientReturns(c) /\ UNCHANGED ob
        BY <1>2, <1>a, <2>0, <2>1 DEF ClientInside
    <2>2. CASE ObUnregister /\ ClientAt(c, "drain") /\ UNCHANGED mutexVars
        <3>1. ClientGoes(c, "drain") BY <2>2, ClientMoves DEF ClientInside
        <3>2. ob' \in ObRecord /\ ~ob'.live BY <1>a, <2>2 DEF ObUnregister, ObRecord
        <3>3. MutexKept(c) /\ c \in inside' BY <1>a, <2>0, <2>2, MutexSteps DEF mutexVars
        <3>4. Base' /\ (overlaps' = 0 /\ FilterAgrees' => Excluded')
            BY <1>a, <2>0, <3>1, <3>2, <3>3, ClientStepKeeps DEF ClientInside
        <3>5. Draining' BY <3>1 DEF Draining, ClientGoes
        <3>6. FilterAgrees' BY <3>2, <3>5 DEF FilterAgrees
        <3> QED BY <3>4, <3>6
    <2> QED BY <1>8, <2>1, <2>2 DEF Unregister
<1>9. ASSUME Unregistered(c) PROVE IInv'
    <2>0. /\ client[c].pc = "drain" /\ unload = "loaded" /\ InFilter = {}
          /\ UNCHANGED <<psLive, proc, opener, unload, creates>>
        BY <1>9, <1>b DEF Unregistered, ClientInside
    <2>1. MutexKept(c) /\ ClientGoes(c, "idle")
        BY <1>9, <1>a, MutexSteps, ClientIsIdle DEF Unregistered, ClientReturns
    <2>2. ob' \in ObRecord /\ ob'.live = ob.live /\ ob'.handle = FALSE
        BY <1>a, <1>9 DEF Unregistered, ObRecord
    <2>3. /\ prot' \in ProtRecord /\ prot'.ops = prot.ops /\ prot'.installed = FALSE
          /\ prot'.tproc = prot.tproc /\ prot'.tpid = prot.tpid
        BY <1>a, <1>9 DEF Unregistered, ProtRecord
    <2>4. Base' /\ (overlaps' = 0 /\ FilterAgrees' => Excluded')
        BY <1>a, <2>0, <2>1, <2>2, <2>3, ClientStepKeeps
    <2>5. ASSUME overlaps' = 0 PROVE FilterAgrees'
        <3>1. Alone /\ FilterAgrees BY <1>c, <2>1, <2>5 DEF MutexKept
        <3>2. ob.live = FALSE BY <1>a, <2>0, <3>1 DEF FilterAgrees, Draining, ObRecord
        <3>3. ~Draining' /\ InFilter' = {}
            BY <2>0, <2>1, <3>1, OnlyRequest DEF Draining, InFilter, ClientGoes, ClientInside
        <3> QED BY <2>2, <2>3, <3>2, <3>3 DEF FilterAgrees
    <2> QED BY <2>4, <2>5
<1> QED BY <1>1, <1>3, <1>4, <1>5, <1>6, <1>7, <1>8, <1>9 DEF ClientStep

(* Every step of a process keeps it.                                         *)
LEMMA ProcKeepsIInv ==
    ASSUME IInv, NEW p \in Procs,
           NotifyStep(p) \/ ExitProcess(p) \/ \E n \in Names : CreateProcess(p, n)
    PROVE  IInv'
<1> USE DEF IInv, Base
<1>a. /\ prot \in ProtRecord /\ MaxCreate \in Nat /\ creates \in 0..MaxCreate /\ p \in Threads
    BY ProtectAssumption DEF TypeOK, Threads
<1>b. overlaps = 0 => Alone /\ TargetAhead BY DEF Excluded
<1>1. ASSUME NEW w \in {"flag", "live", "lock", "none", "process"}, ProcGoes(p, w),
             proc[p].pc \notin ProcInside, creates' \in 0..MaxCreate,
             w \in NotifyInside => proc[p].pc \in NotifyInside \/ psLive,
             MutexKept(p), w = "process" => p \in inside',
             UNCHANGED <<prot, ob, psLive, client, opener, unload>>
      PROVE  IInv'
    \* creation, exit and the steps of the callback up to the mutex
    <2>1. Base' /\ (overlaps' = 0 /\ TargetAhead' => Excluded')
        BY <1>a, <1>1, ProcStepKeeps DEF ProcInside
    <2>2. \A q \in Procs : proc'[q].pc = "pid" <=> proc[q].pc = "pid"
        BY <1>1 DEF ProcGoes, ProcInside
    <2>3. overlaps' = 0 => TargetAhead' BY <1>1, <1>b, <2>2 DEF TargetAhead, MutexKept
    <2> QED BY <2>1, <2>3
<1>2. UNCHANGED mutexVars => MutexKept(p) BY <1>a, MutexSteps
<1>3. ASSUME NEW n \in Names, CreateProcess(p, n) PROVE IInv'
    <2>1. PICK w \in {"flag", "live"} :
              /\ w = "flag" => psLive
              /\ proc' = [proc EXCEPT ![p] = [pc |-> w, name |-> n, pass |-> "protect"]]
        BY <1>3 DEF CreateProcess
    <2>2. ProcGoes(p, w) BY <2>1, ProcBecomes
    <2>3. creates' \in 0..MaxCreate BY <1>a, <1>3 DEF CreateProcess
    <2> QED BY <1>1, <1>2, <1>3, <2>1, <2>2, <2>3 DEF CreateProcess, ProcInside, NotifyInside
<1>4. ASSUME ReadFlag(p) PROVE IInv'
    <2>1. \E w \in {"flag", "live", "lock"} : ProcGoes(p, w)
        BY <1>4, ProcMoves, PassEnds DEF ReadFlag, NotifyInside
    <2> QED BY <1>1, <1>2, <1>4, <1>a, <2>1 DEF ReadFlag, ProcInside, NotifyInside
<1>5. ASSUME LockForMatch(p) PROVE IInv'
    <2>1. ProcGoes(p, "process") BY <1>5, ProcMoves DEF LockForMatch, NotifyInside
    <2>2. MutexKept(p) /\ p \in inside' BY <1>5, <1>a, MutexSteps DEF LockForMatch, Lock
    <2> QED BY <1>1, <1>5, <1>a, <2>1, <2>2 DEF LockForMatch, ProcInside, NotifyInside
<1>6. ASSUME Alone, proc[p].pc \in ProcInside
      PROVE  \A q \in Procs \ {p} : proc[q].pc # "pid"
    BY <1>6 DEF InsideOwns, ProcInside, Alone
<1>7. ASSUME MatchName(p) PROVE IInv'
    <2>0. /\ proc[p].pc = "process" /\ p \in inside
          /\ UNCHANGED <<ob, psLive, client, opener, unload, creates>>
        BY <1>7 DEF MatchName, InsideOwns
    <2>1. CASE proc[p].name = prot.name
        <3>1. /\ prot' = [prot EXCEPT !.tproc = p] /\ proc' = [proc EXCEPT ![p].pc = "pid"]
              /\ UNCHANGED mutexVars
            BY <1>7, <2>1 DEF MatchName
        <3>2. ProcGoes(p, "pid") BY <3>1, ProcMoves DEF NotifyInside
        <3>3. /\ prot' \in ProtRecord /\ prot'.ops = prot.ops /\ prot'.installed = prot.installed
              /\ prot'.tproc = p
            BY <1>a, <3>1 DEF ProtRecord
        <3>4. MutexKept(p) /\ p \in inside' BY <1>2, <2>0, <3>1 DEF mutexVars
        <3>5. Base' /\ (overlaps' = 0 /\ TargetAhead' => Excluded')
            BY <1>a, <2>0, <3>2, <3>3, <3>4, ProcStepKeeps DEF ProcInside, NotifyInside
        <3>6. ASSUME overlaps' = 0 PROVE TargetAhead'
            <4>1. \A q \in Procs \ {p} : proc[q].pc # "pid"
                BY <1>6, <1>b, <2>0, <3>4, <3>6 DEF MutexKept, ProcInside
            <4> QED BY <3>2, <3>3, <4>1 DEF TargetAhead, ProcGoes
        <3> QED BY <3>5, <3>6
    <2>2. CASE proc[p].name # prot.name
        <3>1. proc' = [proc EXCEPT ![p] = AfterPass(p)] /\ Unlock(p) /\ UNCHANGED prot
            BY <1>7, <2>2 DEF MatchName
        <3>2. PICK w \in {"flag", "live"} : ProcGoes(p, w) BY <3>1, PassEnds
        <3>3. MutexKept(p) BY <1>a, <3>1, MutexSteps
        <3>4. Base' /\ (overlaps' = 0 /\ TargetAhead' => Excluded')
            BY <1>a, <2>0, <3>1, <3>2, <3>3, ProcStepKeeps DEF ProcInside, NotifyInside
        <3>5. \A q \in Procs : proc'[q].pc = "pid" <=> proc[q].pc = "pid"
            BY <2>0, <3>2 DEF ProcGoes
        <3>6. overlaps' = 0 => TargetAhead' BY <1>b, <3>1, <3>3, <3>5 DEF TargetAhead, MutexKept
        <3> QED BY <3>4, <3>6
    <2> QED BY <2>1, <2>2
<1>8. ASSUME SetTargetId(p) PROVE IInv'
    <2>0. /\ proc[p].pc = "pid" /\ Unlock(p)
          /\ UNCHANGED <<ob, psLive, client, opener, unload, creates>>
        BY <1>8 DEF SetTargetId
    <2>1. PICK w \in {"flag", "live", "denied"} : ProcGoes(p, w)
        <3>1. CASE proc[p].pass = "reject"
            <4>1. proc' = [proc EXCEPT ![p] = [proc[p] EXCEPT !.pc = "denied", !.pass = "protect"]]
                BY <1>8, <3>1 DEF SetTargetId
            <4>2. proc[p] \in ProcRecord BY DEF TypeOK
            <4>3. /\ [proc[p] EXCEPT !.pc = "denied", !.pass = "protect"] \in ProcRecord
                  /\ [proc[p] EXCEPT !.pc = "denied", !.pass = "protect"].pc = "denied"
                BY <4>2 DEF ProcRecord
            <4>4. ProcGoes(p, "denied") BY <4>1, <4>3 DEF ProcGoes, TypeOK
            <4> QED BY <4>4
        <3>2. CASE proc[p].pass # "reject"
            <4>1. proc' = [proc EXCEPT ![p] = AfterPass(p)] BY <1>8, <3>2 DEF SetTargetId
            <4> QED BY <4>1, PassEnds
        <3> QED BY <3>1, <3>2
    <2>2. /\ prot' \in ProtRecord /\ prot'.ops = prot.ops /\ prot'.installed = prot.installed
          /\ prot'.tproc = prot.tproc /\ prot'.tpid = p
        BY <1>a, <1>8 DEF SetTargetId, ProtRecord
    <2>3. MutexKept(p) BY <1>a, <2>0, MutexSteps
    <2>4. Base' /\ (overlaps' = 0 /\ TargetAhead' => Excluded')
        BY <1>a, <2>0, <2>1, <2>2, <2>3, ProcStepKeeps DEF ProcInside, NotifyInside
    <2>5. ASSUME overlaps' = 0 PROVE TargetAhead'
        <3>1. Alone /\ TargetAhead BY <1>b, <2>3, <2>5 DEF MutexKept
        <3>2. \A q \in Procs \ {p} : proc[q].pc # "pid" BY <1>6, <2>0, <3>1 DEF ProcInside
        <3>3. prot.tproc = p BY <2>0, <3>1 DEF TargetAhead
        <3> QED BY <2>1, <2>2, <3>2, <3>3 DEF TargetAhead, ProcGoes
    <2> QED BY <2>4, <2>5
<1>9. ASSUME ExitProcess(p) PROVE IInv'
    <2>1. ProcGoes(p, "none") BY <1>9, ProcBecomes DEF ExitProcess
    <2> QED BY <1>1, <1>2, <1>9, <1>a, <2>1 DEF ExitProcess, ProcInside, NotifyInside
<1> QED BY <1>3, <1>4, <1>5, <1>7, <1>8, <1>9 DEF NotifyStep
(* Every step of a handle open keeps it.                                     *)
LEMMA OpenerKeepsIInv ==
    ASSUME IInv, NEW o \in Openers, FilterStep(o) \/ \E p \in Procs : OpenHandle(o, p)
    PROVE  IInv'
<1> USE DEF IInv, Base
<1>a. opener[o] \in OpenerRecord /\ prot.ops \in 0..MaxRegister /\ MaxRegister \in Nat
    BY ProtectAssumption DEF TypeOK, ProtRecord
<1>1. ASSUME NEW p \in Procs, OpenHandle(o, p) PROVE IInv'
    <2> DEFINE op == [pc |-> "pre", obj |-> p, stripped |-> FALSE, ctx |-> "none", faults |-> {}]
    <2>0. /\ opener[o].pc = "idle" /\ ob.live /\ opener' = [opener EXCEPT ![o] = op]
          /\ UNCHANGED <<mutexVars, prot, ob, psLive, client, proc, unload, creates>>
        BY <1>1 DEF OpenHandle
    <2>1. op \in OpenerRecord /\ op.pc = "pre" /\ op.ctx = "none" /\ op.faults = {}
        BY DEF OpenerRecord
    <2> HIDE DEF op
    <2>2. OpenerGoes(o, "pre") /\ opener'[o] = op BY <2>0, <2>1 DEF OpenerGoes, TypeOK
    <2>3. ContextAt' BY <2>0, <2>1, <2>2 DEF ContextAt, OpenerGoes
    <2> QED BY <2>0, <2>2, <2>3, OpenerStepKeeps
<1>2. ASSUME NEW type, NEW who, pre_op_internal(o, type, who) PROVE IInv'
    <2> DEFINE first == pre_operation_cb(opener[o], type, who)
               all == IF prot.ops > 1 THEN pre_operation_cb(first, type, who) ELSE first
               op == [all EXCEPT !.pc = "granted"]
    <2>0. /\ opener[o].pc = "pre" /\ opener' = [opener EXCEPT ![o] = op]
          /\ UNCHANGED <<mutexVars, prot, ob, psLive, client, proc, unload, creates>>
        BY <1>2 DEF pre_op_internal
    <2>1. opener[o].ctx = "none" BY <2>0 DEF ContextAt
    <2>2. first \in OpenerRecord /\ first.ctx # "freed" /\ first.faults = opener[o].faults
        BY <1>a, <2>1, PreCallback
    <2>3. all \in OpenerRecord /\ (prot.ops <= 1 => all = first) BY <1>a, <2>2, PreCallback
    <2> HIDE DEF first, all
    <2>4. op \in OpenerRecord /\ op.pc = "granted" /\ op.ctx = all.ctx /\ op.faults = all.faults
        BY <2>3 DEF OpenerRecord
    <2> HIDE DEF op
    <2>5. OpenerGoes(o, "granted") /\ opener'[o] = op BY <2>0, <2>4 DEF OpenerGoes, TypeOK
    <2>6. ContextAt' BY <2>0, <2>2, <2>3, <2>4, <2>5 DEF ContextAt, OpenerGoes
    <2> QED BY <2>0, <2>5, <2>6, OpenerStepKeeps
<1>3. ASSUME post_op_internal(o) PROVE IInv'
    <2> DEFINE first == post_operation_cb(opener[o])
               all == IF prot.ops > 1 THEN post_operation_cb(first) ELSE first
               op == [all EXCEPT !.pc = "idle", !.obj = None, !.stripped = FALSE]
    <2>0. /\ opener[o].pc = "granted" /\ opener' = [opener EXCEPT ![o] = op]
          /\ UNCHANGED <<mutexVars, prot, ob, psLive, client, proc, unload, creates>>
        BY <1>3 DEF post_op_internal
    <2>2. /\ first \in OpenerRecord
          /\ opener[o].ctx # "freed" => first.ctx # "live" /\ first.faults = opener[o].faults
        BY <1>a, PostCallback
    <2>3. all \in OpenerRecord /\ (prot.ops <= 1 => all = first) BY <1>a, <2>2, PostCallback
    <2> HIDE DEF first, all
    <2>4. op \in OpenerRecord /\ op.pc = "idle" /\ op.ctx = all.ctx /\ op.faults = all.faults
        BY <2>3 DEF OpenerRecord
    <2> HIDE DEF op
    <2>5. OpenerGoes(o, "idle") /\ opener'[o] = op BY <2>0, <2>4 DEF OpenerGoes, TypeOK
    <2>6. ContextAt' BY <2>0, <2>2, <2>3, <2>4, <2>5 DEF ContextAt, OpenerGoes
    <2> QED BY <2>0, <2>5, <2>6, OpenerStepKeeps
<1> QED BY <1>1, <1>2, <1>3 DEF FilterStep

(* Every step of the unload keeps it.                                        *)
LEMMA UnloadKeepsIInv ==
    ASSUME IInv, StopNotify \/ UnloadStep PROVE IInv'
<1> USE DEF IInv, Base
<1>a. prot \in ProtRecord /\ ob \in ObRecord /\ Unloader \in Threads BY DEF TypeOK, Threads
<1>b. UNCHANGED mutexVars => MutexKept(Unloader) BY <1>a, MutexSteps
<1>c. overlaps = 0 => Alone /\ FilterAgrees /\ TargetAhead /\ FilterStops BY DEF Excluded
<1>1. ASSUME StopNotify PROVE IInv'
    <2>0. /\ unload = "loaded" /\ unload' = "psWait" /\ psLive' = FALSE
          /\ \A c \in Clients : client[c].pc = "idle"
          /\ UNCHANGED <<mutexVars, prot, ob, client, proc, opener, creates>>
        BY <1>1 DEF StopNotify
    <2>1. TypeOK' BY <2>0 DEF TypeOK, mutexVars
    <2>2. InsideOwns' /\ ContextAt' /\ RequestsInPlace' /\ NotifyStops'
        BY <2>0 DEF InsideOwns, ContextAt, RequestsInPlace, NotifyStops, mutexVars
    <2>3. Draining' = Draining /\ InFilter' = InFilter BY <2>0 DEF Draining, InFilter
    <2>4. overlaps' = 0 => FilterAgrees' /\ FilterStops'
        BY <1>c, <2>0, <2>3 DEF FilterAgrees, FilterStops, mutexVars
    <2>5. overlaps' = 0 => Alone' /\ TargetAhead' BY <1>c, <2>0 DEF Alone, TargetAhead, mutexVars
    <2> QED BY <2>1, <2>2, <2>4, <2>5 DEF Excluded
<1>2. ASSUME NotifyStopped PROVE IInv'
    <2>0. /\ unload = "psWait" /\ unload' = "lock" /\ InNotify = {}
          /\ UNCHANGED <<mutexVars, prot, ob, psLive, client, proc, opener, creates>>
        BY <1>2 DEF NotifyStopped
    <2>1. TypeOK' BY <2>0 DEF TypeOK, mutexVars
    <2>2. InsideOwns' /\ ContextAt' /\ RequestsInPlace'
        BY <2>0 DEF InsideOwns, ContextAt, RequestsInPlace, mutexVars
    <2>3. Draining' = Draining /\ InFilter' = InFilter /\ InNotify' = InNotify
        BY <2>0 DEF Draining, InFilter, InNotify
    <2>4. NotifyStops' BY <2>0, <2>3 DEF NotifyStops
    <2>5. overlaps' = 0 => FilterAgrees' /\ FilterStops'
        BY <1>c, <2>0, <2>3 DEF FilterAgrees, FilterStops, mutexVars
    <2>6. overlaps' = 0 => Alone' /\ TargetAhead' BY <1>c, <2>0 DEF Alone, TargetAhead, mutexVars
    <2> QED BY <2>1, <2>2, <2>4, <2>5, <2>6 DEF Excluded
<1>3. ASSUME StopFilter PROVE IInv'
    <2>0. /\ unload = "lock" /\ Lock(Unloader) /\ unload' \in {"drain", "device"}
          /\ UNCHANGED <<prot, psLive, client, proc, opener, creates>>
        BY <1>3 DEF StopFilter
    <2>1. MutexKept(Unloader) /\ Unloader \in inside' BY <1>a, <2>0, MutexSteps DEF Lock
    <2>2. ob' \in ObRecord BY <1>3, <1>a DEF StopFilter, ObUnregister, ObRecord
    <2>3. TypeOK' BY <2>0, <2>1, <2>2 DEF TypeOK, MutexKept
    <2>4. InsideOwns' BY <2>0, <2>1, ThreadsDiffer DEF InsideOwns, MutexKept
    <2>5. ContextAt' /\ RequestsInPlace' BY <2>0 DEF ContextAt, RequestsInPlace
    <2>6. InFilter' = InFilter /\ InNotify' = InNotify BY <2>0 DEF InFilter, InNotify
    <2>7. NotifyStops' BY <2>0, <2>6 DEF NotifyStops
    <2>8. ASSUME overlaps' = 0 PROVE Excluded'
        <3>1. Alone /\ FilterAgrees /\ TargetAhead /\ Alone' BY <1>c, <2>1, <2>8 DEF MutexKept
        <3>2. TargetAhead' BY <2>0, <3>1 DEF TargetAhead
        <3>3. ~Draining BY <2>0 DEF Draining, NotifyStops
        <3>4. CASE unload' = "drain"
            <4>1. ~ob'.live BY <1>3, <1>a, <3>4 DEF StopFilter, ObUnregister, ObRecord
            <4>2. FilterAgrees' BY <3>4, <4>1 DEF FilterAgrees, Draining
            <4>3. FilterStops' BY <3>4 DEF FilterStops
            <4> QED BY <3>1, <3>2, <4>2, <4>3 DEF Excluded
        <3>5. CASE unload' = "device"
            <4>1. ob' = ob /\ ~(prot.installed /\ ob.handle) BY <1>3, <3>5 DEF StopFilter
            <4>2. ~Draining' BY <2>0, <3>3, <3>5 DEF Draining
            <4>3. ob.live = FALSE BY <1>a, <3>1, <3>3, <4>1 DEF FilterAgrees, ObRecord, ProtRecord
            <4>4. InFilter = {} BY <3>1, <3>3, <4>3 DEF FilterAgrees
            <4>5. FilterAgrees' BY <2>0, <2>6, <3>1, <3>3, <4>1, <4>2, <4>4 DEF FilterAgrees
            <4>6. FilterStops' BY <2>6, <4>1, <4>3, <4>4 DEF FilterStops
            <4> QED BY <3>1, <3>2, <4>5, <4>6 DEF Excluded
        <3> QED BY <2>0, <3>4, <3>5
    <2> QED BY <2>3, <2>4, <2>5, <2>7, <2>8
<1>4. ASSUME FilterStopped PROVE IInv'
    <2>0. /\ unload = "drain" /\ unload' = "device" /\ InFilter = {}
          /\ UNCHANGED <<mutexVars, psLive, client, proc, opener, creates>>
        BY <1>4 DEF FilterStopped
    <2>1. ob' \in ObRecord /\ ob'.live = ob.live /\ ob'.handle = FALSE
        BY <1>a, <1>4 DEF FilterStopped, ObRecord
    <2>2. /\ prot' \in ProtRecord /\ prot'.ops = prot.ops /\ prot'.installed = FALSE
          /\ prot'.tproc = prot.tproc /\ prot'.tpid = prot.tpid
        BY <1>a, <1>4 DEF FilterStopped, ProtRecord
    <2>3. TypeOK' BY <2>0, <2>1, <2>2 DEF TypeOK, mutexVars
    <2>4. InsideOwns' /\ ContextAt' /\ RequestsInPlace'
        BY <2>0, <2>2 DEF InsideOwns, ContextAt, RequestsInPlace, mutexVars
    <2>5. ~Draining' /\ InFilter' = {} /\ InNotify' = InNotify
        BY <2>0 DEF Draining, InFilter, InNotify, NotifyStops
    <2>6. NotifyStops' BY <2>0, <2>5 DEF NotifyStops
    <2>7. ASSUME overlaps' = 0 PROVE Excluded'
        <3>1. Alone /\ FilterAgrees /\ TargetAhead BY <1>c, <2>0, <2>7 DEF mutexVars
        <3>2. ob.live = FALSE BY <1>a, <2>0, <3>1 DEF FilterAgrees, Draining, ObRecord
        <3>3. Alone' /\ TargetAhead' BY <2>0, <2>2, <3>1 DEF Alone, TargetAhead, mutexVars
        <3>4. FilterAgrees' BY <2>1, <2>2, <2>5, <3>2 DEF FilterAgrees
        <3>5. FilterStops' BY <2>1, <2>5, <3>2 DEF FilterStops
        <3> QED BY <3>3, <3>4, <3>5 DEF Excluded
    <2> QED BY <2>3, <2>4, <2>6, <2>7
<1>5. ASSUME DeleteDevice PROVE IInv'
    <2>0. /\ unload = "device" /\ unload' = "unloaded" /\ Unlock(Unloader)
          /\ UNCHANGED <<prot, ob, psLive, client, proc, opener, creates>>
        BY <1>5 DEF DeleteDevice
    <2>1. MutexKept(Unloader) BY <1>a, <2>0, MutexSteps
    <2>2. TypeOK' BY <2>0, <2>1 DEF TypeOK, MutexKept
    <2>3. InsideOwns' BY <2>0, <2>1, ThreadsDiffer DEF InsideOwns, MutexKept
    <2>4. ContextAt' /\ RequestsInPlace' BY <2>0 DEF ContextAt, RequestsInPlace
    <2>5. Draining' = Draining /\ InFilter' = InFilter /\ InNotify' = InNotify
        BY <2>0 DEF Draining, InFilter, InNotify
    <2>6. NotifyStops' BY <2>0, <2>5 DEF NotifyStops
    <2>7. ASSUME overlaps' = 0 PROVE Excluded'
        <3>1. Alone' /\ FilterAgrees /\ TargetAhead /\ FilterStops BY <1>c, <2>1, <2>7 DEF MutexKept
        <3>2. FilterAgrees' BY <2>0, <2>5, <3>1 DEF FilterAgrees
        <3>3. TargetAhead' /\ FilterStops' BY <2>0, <2>5, <3>1 DEF TargetAhead, FilterStops
        <3> QED BY <3>1, <3>2, <3>3 DEF Excluded
    <2> QED BY <2>2, <2>3, <2>4, <2>6, <2>7
<1> QED BY <1>1, <1>2, <1>3, <1>4, <1>5 DEF UnloadStep

(* Every step keeps the inductive invariant.                                 *)
LEMMA NextIInv == IInv /\ [Next]_vars => IInv'
<1> SUFFICES ASSUME IInv, [Next]_vars PROVE IInv' OBVIOUS
<1>1. CASE Next
    BY <1>1, ClientKeepsIInv, ProcKeepsIInv, OpenerKeepsIInv, UnloadKeepsIInv DEF Next
<1>2. CASE UNCHANGED vars
    <2>1. InFilter' = InFilter /\ InNotify' = InNotify /\ Draining' = Draining
        BY <1>2 DEF vars, InFilter, InNotify, Draining
    <2>2. Base'
        BY <1>2, <2>1 DEF IInv, Base, vars, TypeOK, InsideOwns, ContextAt, NotifyStops, RequestsInPlace
    <2>3. overlaps = 0 => Excluded'
        BY <1>2, <2>1 DEF IInv, Excluded, vars, Alone, FilterAgrees, TargetAhead, FilterStops
    <2> QED BY <1>2, <2>2, <2>3 DEF IInv, vars
<1> QED BY <1>1, <1>2

(* The inductive invariant holds in every reachable state.                   *)
LEMMA Inductive == Spec => []IInv
BY InitIInv, NextIInv, PTL DEF Spec

(* Every variable keeps its type, whatever the mutex does.                   *)
THEOREM TypeCorrect == Spec => []TypeOK
<1>1. IInv => TypeOK BY DEF IInv, Base
<1> QED BY <1>1, Inductive, PTL

(* As long as no two sections have overlapped, the Protect object and the    *)
(* kernel agree about the filter whenever no thread is in a section.         *)
THEOREM FilterConsistent == Spec => []InstalledAgrees
<1>1. IInv => InstalledAgrees
    <2> SUFFICES ASSUME IInv, overlaps = 0, inside = {}
                 PROVE  prot.installed = ob.live /\ ob.handle = ob.live
        BY DEF InstalledAgrees
    <2>1. ~Draining BY DEF IInv, Base, Draining, InsideOwns
    <2> QED BY <2>1 DEF IInv, Excluded, FilterAgrees
<1> QED BY <1>1, Inductive, PTL

(* As long as no two sections have overlapped, target_process and            *)
(* target_process_id are of one process whenever no thread is in a section.  *)
THEOREM TargetConsistent == Spec => []TargetPairAgrees
<1>1. IInv => TargetPairAgrees
    BY DEF IInv, Base, Excluded, TargetPairAgrees, TargetAhead, InsideOwns
<1> QED BY <1>1, Inductive, PTL

(* As long as the filter was registered once, a call context is set once and *)
(* freed once, whatever the mutex does.                                      *)
THEOREM ContextOnce == Spec => []CallContextOnce
<1>1. IInv => CallContextOnce BY DEF IInv, Base, CallContextOnce, ContextAt
<1> QED BY <1>1, Inductive, PTL

(* Unload leaves no process callback that could be called or is running,     *)
(* whatever the mutex does, and no handle filter as long as no two sections  *)
(* have overlapped.                                                          *)
THEOREM UnloadIsSafe == Spec => []NothingCalledAfterUnload
<1>1. IInv => NothingCalledAfterUnload
    BY DEF IInv, Base, Excluded, NothingCalledAfterUnload, NotifyStops, FilterStops
<1> QED BY <1>1, Inductive, PTL
==============================================================================
