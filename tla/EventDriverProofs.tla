-------------------------- MODULE EventDriverProofs --------------------------
(* For any finite set of requests, any files and any events, and whatever is *)
(* cancelled, closed or timed out: the file context outlives the requests    *)
(* inside its remove lock, nothing is registered once cleanup has waited, an *)
(* event outlives the registrations that wait for it, no registration is     *)
(* signalled twice, and beside its timer one actor at most completes an IRP. *)
(* While no IRP registration times out every IRP is completed at most once,  *)
(* every event reference is given back and the queue is empty at unload.     *)
EXTENDS EventDriver, FiniteSetTheorems, WellFoundedInduction, TLAPS

(* A non-empty set of naturals has a least element.                          *)
LEMMA Least ==
    ASSUME NEW T, T \subseteq Nat, T # {} PROVE \E x \in T : \A y \in T : x <= y
<1>1. PICK x \in T : \A y \in T : ~(<<y, x>> \in OpToRel(<, Nat))
    BY NatLessThanWellFounded, WFMin
<1>2. \A y \in T : ~(y < x) BY <1>1 DEF OpToRel
<1> QED BY <1>2

(* No element of the queue stands in it twice.                               *)
Distinct(s) == \A i, j \in DOMAIN s : s[i] = s[j] => i = j

(* Vec::position finds a record that is one of X, unless there is none.      *)
LEMMA PositionFinds ==
    ASSUME event_queue \in Seq(Requests), NEW X
    PROVE  /\ position(X) = 0 => Queued \cap X = {}
           /\ position(X) # 0 => /\ position(X) \in 1 .. Len(event_queue)
                                 /\ event_queue[position(X)] \in X
<1> DEFINE I == {i \in 1 .. Len(event_queue) : event_queue[i] \in X}
<1>1. position(X) = IF I # {} THEN Min(I) ELSE 0 BY DEF position, SelectInSeq
<1>2. CASE I = {}
    BY <1>1, <1>2 DEF Queued, ToSet
<1>3. CASE I # {}
    <2>1. I \subseteq Nat OBVIOUS
    <2>2. \E x \in I : \A y \in I : x <= y BY <1>3, <2>1, Least
    <2>3. Min(I) \in I BY <2>2 DEF Min
    <2> QED BY <1>1, <1>3, <2>3
<1> QED BY <1>2, <1>3

(* Vec::push adds its element and no other.                                  *)
LEMMA AppendAdds ==
    ASSUME NEW S, NEW s \in Seq(S), NEW x \in S, Distinct(s), x \notin ToSet(s)
    PROVE  /\ Append(s, x) \in Seq(S) /\ Distinct(Append(s, x))
           /\ ToSet(Append(s, x)) = ToSet(s) \cup {x}
           /\ \A i \in DOMAIN s : i \in DOMAIN Append(s, x) /\ Append(s, x)[i] = s[i]
<1> DEFINE t == Append(s, x)
<1>1. /\ t \in Seq(S) /\ DOMAIN t = 1 .. Len(s) + 1 /\ Len(s) \in Nat
      /\ DOMAIN s = 1 .. Len(s)
      /\ \A i \in 1 .. Len(s) : t[i] = s[i]
      /\ t[Len(s) + 1] = x
    OBVIOUS
<1> HIDE DEF t
<1>2. \A i \in DOMAIN s : s[i] # x BY DEF ToSet
<1>3. Distinct(t) BY <1>1, <1>2 DEF Distinct
<1>4. ToSet(t) = ToSet(s) \cup {x} BY <1>1 DEF ToSet
<1>5. \A i \in DOMAIN s : i \in DOMAIN t /\ t[i] = s[i] BY <1>1
<1> QED BY <1>1, <1>3, <1>4, <1>5 DEF t

(* Vec::swap_remove removes the element at its position and no other.        *)
LEMMA SwapRemoveRemoves ==
    ASSUME NEW S, NEW s \in Seq(S), NEW i \in 1 .. Len(s), Distinct(s)
    PROVE  /\ swap_remove(s, i) \in Seq(S) /\ Distinct(swap_remove(s, i))
           /\ ToSet(swap_remove(s, i)) = ToSet(s) \ {s[i]}
<1> DEFINE t == swap_remove(s, i)
<1>1. /\ Len(s) \in Nat \ {0} /\ DOMAIN s = 1 .. Len(s)
      /\ \A j \in 1 .. Len(s) : s[j] \in S
    OBVIOUS
<1>2. /\ DOMAIN t = 1 .. Len(s) - 1
      /\ \A j \in 1 .. Len(s) - 1 : t[j] = IF j = i THEN s[Len(s)] ELSE s[j]
    BY <1>1 DEF swap_remove
<1>3. t \in Seq(S) BY <1>1 DEF swap_remove
<1> HIDE DEF t
<1>4. Distinct(t) BY <1>1, <1>2 DEF Distinct
<1>5. ToSet(t) \subseteq ToSet(s) \ {s[i]} BY <1>1, <1>2 DEF ToSet, Distinct
<1>a. \A n \in Nat : \A k \in 1 .. n : k # n => k \in 1 .. n - 1 OBVIOUS
<1>b. \A k \in 1 .. Len(s) : k # Len(s) => k \in 1 .. Len(s) - 1
    <2>1. Len(s) \in Nat BY <1>1
    <2> QED BY <1>a, <2>1, Zenon
<1>6. ASSUME NEW k \in 1 .. Len(s), k # i PROVE s[k] \in ToSet(t)
    <2>1. CASE k = Len(s)
        <3>1. i \in 1 .. Len(s) - 1 BY <1>b, <1>6, <2>1, Zenon
        <3>2. t[i] = s[k] BY <1>2, <2>1, <3>1
        <3> QED BY <1>2, <3>1, <3>2 DEF ToSet
    <2>2. CASE k # Len(s)
        <3>1. k \in 1 .. Len(s) - 1 BY <1>b, <2>2, Zenon
        <3>2. t[k] = s[k] BY <1>2, <1>6, <3>1
        <3> QED BY <1>2, <3>1, <3>2 DEF ToSet
    <2> QED BY <2>1, <2>2
<1>7. ToSet(s) \ {s[i]} \subseteq ToSet(t)
    BY <1>1, <1>6 DEF ToSet
<1> QED BY <1>3, <1>4, <1>5, <1>7 DEF t

(* Vec::retain_mut leaves the elements at the places it keeps.               *)
LEMMA RetainKeeps ==
    ASSUME NEW S, NEW s \in Seq(S), Distinct(s), NEW Keep \in SUBSET (DOMAIN s)
    PROVE  /\ retain(s, Keep) \in Seq(S) /\ Distinct(retain(s, Keep))
           /\ ToSet(retain(s, Keep)) = {s[i] : i \in Keep}
<1> DEFINE n == Cardinality(Keep)
           UpTo(i) == {k \in Keep : k <= i}
           rank == [i \in Keep |-> Cardinality(UpTo(i))]
           place(j) == CHOOSE i \in Keep : Cardinality({k \in Keep : k <= i}) = j
           t == retain(s, Keep)
<1>1. Len(s) \in Nat /\ DOMAIN s = 1 .. Len(s) /\ Keep \subseteq Nat
    OBVIOUS
<1>2. IsFiniteSet(Keep) /\ n \in Nat
    <2>1. IsFiniteSet(1 .. Len(s)) BY <1>1, FS_Interval
    <2>2. IsFiniteSet(Keep) BY <1>1, <2>1, FS_Subset
    <2> QED BY <2>2, FS_CardinalityType
<1>3. \A i \in Keep : IsFiniteSet(UpTo(i)) /\ Cardinality(UpTo(i)) \in 1 .. n
    <2> SUFFICES ASSUME NEW i \in Keep
                 PROVE  IsFiniteSet(UpTo(i)) /\ Cardinality(UpTo(i)) \in 1 .. n
        OBVIOUS
    <2>1. UpTo(i) \in SUBSET Keep /\ i \in UpTo(i) BY <1>1
    <2>2. IsFiniteSet(UpTo(i)) /\ Cardinality(UpTo(i)) <= n BY <1>2, <2>1, FS_Subset
    <2>3. Cardinality(UpTo(i)) \in Nat BY <2>2, FS_CardinalityType
    <2>4. Cardinality(UpTo(i)) # 0 BY <2>1, <2>2, FS_EmptySet
    <2> QED BY <1>2, <2>2, <2>3, <2>4
<1>4. \A i, j \in Keep : i < j => Cardinality(UpTo(i)) < Cardinality(UpTo(j))
    <2> SUFFICES ASSUME NEW i \in Keep, NEW j \in Keep, i < j
                 PROVE  Cardinality(UpTo(i)) < Cardinality(UpTo(j))
        OBVIOUS
    <2>1. UpTo(i) \in SUBSET UpTo(j) /\ j \in UpTo(j) /\ j \notin UpTo(i) BY <1>1
    <2>2. /\ Cardinality(UpTo(i)) <= Cardinality(UpTo(j))
          /\ Cardinality(UpTo(i)) # Cardinality(UpTo(j))
        BY <1>3, <2>1, FS_Subset
    <2>3. Cardinality(UpTo(i)) \in Nat /\ Cardinality(UpTo(j)) \in Nat
        BY <1>3, FS_CardinalityType
    <2> QED BY <2>2, <2>3
<1> HIDE DEF UpTo
<1>5. \A i, j \in Keep : Cardinality(UpTo(i)) = Cardinality(UpTo(j)) => i = j
    BY <1>1, <1>3, <1>4
<1>6. rank \in Injection(Keep, 1 .. n)
    BY <1>3, <1>5 DEF Injection, IsInjective
<1>7. IsFiniteSet(1 .. n) /\ Cardinality(1 .. n) = n BY <1>2, FS_Interval
<1>8. rank \in Surjection(Keep, 1 .. n) BY <1>6, <1>7, FS_Injection
<1>9. \A j \in 1 .. n : \E i \in Keep : Cardinality(UpTo(i)) = j
    BY <1>8 DEF Surjection
<1>10. \A j \in 1 .. n : place(j) \in Keep /\ Cardinality(UpTo(place(j))) = j
    BY <1>9 DEF UpTo
<1>11. DOMAIN t = 1 .. n /\ \A j \in 1 .. n : t[j] = s[place(j)]
    BY DEF retain
<1> HIDE DEF place
<1>12. t \in Seq(S)
    <2>1. \A k \in DOMAIN s : s[k] \in S OBVIOUS
    <2>2. \A j \in 1 .. n : t[j] \in S BY <1>10, <1>11, <2>1
    <2>3. t = [j \in 1 .. n |-> t[j]] BY DEF retain
    <2> HIDE DEF t, n
    <2> QED BY <1>2, <2>2, <2>3
<1> HIDE DEF t, n
<1>13. Distinct(t)
    <2> SUFFICES ASSUME NEW i \in 1 .. n, NEW j \in 1 .. n, t[i] = t[j] PROVE i = j
        BY <1>11 DEF Distinct
    <2>1. s[place(i)] = s[place(j)] /\ place(i) \in DOMAIN s /\ place(j) \in DOMAIN s
        BY <1>1, <1>10, <1>11
    <2>2. place(i) = place(j) BY <2>1 DEF Distinct
    <2> QED BY <1>10, <2>2
<1>14. ToSet(t) \subseteq {s[i] : i \in Keep} BY <1>10, <1>11 DEF ToSet
<1>15. ASSUME NEW i \in Keep PROVE s[i] \in ToSet(t)
    <2>1. Cardinality(UpTo(i)) \in 1 .. n BY <1>3
    <2>2. place(Cardinality(UpTo(i))) = i BY <1>5, <1>10, <2>1
    <2> QED BY <1>11, <2>1, <2>2 DEF ToSet
<1> QED BY <1>12, <1>13, <1>14, <1>15 DEF t

(* What the wrapper's methods do to an IRP, field by field.                  *)
LEMMA CompleteIrp ==
    ASSUME NEW i \in IrpRecord
    PROVE  /\ complete(i) \in IrpRecord /\ complete(i).routine = i.routine
           /\ complete(i).completed = i.completed + 1 /\ i.completed \in Nat
BY DEF complete, IrpRecord

(* set_cancel_rtn(None) leaves the completions alone.                        *)
LEMMA ClearIrp ==
    ASSUME NEW i \in IrpRecord
    PROVE  /\ ClearCancelRtn(i) \in IrpRecord /\ ClearCancelRtn(i).routine = FALSE
           /\ ClearCancelRtn(i).completed = i.completed
BY DEF ClearCancelRtn, DropFromContext, from_context, DropBox, IrpRecord, Faults

(* So does set_cancel_rtn(Some(_)).                                          *)
LEMMA SetIrp ==
    ASSUME NEW i \in IrpRecord
    PROVE  SetCancelRtn(i) \in IrpRecord /\ SetCancelRtn(i).completed = i.completed
BY DEF SetCancelRtn, set_context, IrpRecord

(* Cancelling takes the routine away.                                        *)
LEMMA CancelIrp ==
    ASSUME NEW i \in IrpRecord
    PROVE  /\ IoCancelIrp(i) \in IrpRecord
           /\ IoCancelIrp(i).completed = i.completed /\ IoCancelIrp(i).routine = FALSE
BY DEF IoCancelIrp, IrpRecord

(* The box is taken out and dropped, whatever state it was in.               *)
LEMMA DropIrp ==
    ASSUME NEW i \in IrpRecord
    PROVE  /\ DropBox(i) \in IrpRecord /\ from_context(i) \in IrpRecord
           /\ DropBox(i).completed = i.completed /\ DropBox(i).routine = i.routine
           /\ from_context(i).completed = i.completed /\ from_context(i).routine = i.routine
BY DEF DropBox, from_context, IrpRecord, Faults

(* An IRP as it is sent.                                                     *)
LEMMA NewIrpFields ==
    NewIrp \in IrpRecord /\ NewIrp.completed = 0 /\ NewIrp.routine = FALSE
BY DEF NewIrp, IrpRecord

-----------------------------------------------------------------------------
(* The records a sweep drops.                                                *)
Dropped(f) == {r \in Queued : ~Retained(f, r)}

(* The queue after the push of a registration, a removal and a sweep.        *)
LEMMA PushEffect ==
    ASSUME IInv, NEW r \in Requests, InDispatch(r), Push(r)
    PROVE  /\ event_queue' \in Seq(Requests) /\ Distinct(event_queue')
           /\ Queued' = Queued \cup {r}
           /\ \A i \in DOMAIN event_queue : /\ i \in DOMAIN event_queue'
                                            /\ event_queue'[i] = event_queue[i]
<1>1. event_queue \in Seq(Requests) /\ Distinct(event_queue) /\ r \notin ToSet(event_queue)
    BY DEF IInv, TypeOK, QueueOnce, Distinct, Queued
<1>2. event_queue' = Append(event_queue, r) BY DEF Push
<1> QED BY <1>1, <1>2, AppendAdds DEF Queued

(* A removal takes out exactly the record at its index.                      *)
LEMMA RemoveEffect ==
    ASSUME IInv, NEW i \in 1 .. Len(event_queue), event_queue' = swap_remove(event_queue, i)
    PROVE  /\ event_queue' \in Seq(Requests) /\ Distinct(event_queue')
           /\ Queued' = Queued \ {event_queue[i]}
           /\ event_queue[i] \in Queued /\ event_queue[i] \in Requests
<1>1. event_queue \in Seq(Requests) /\ Distinct(event_queue)
    BY DEF IInv, TypeOK, QueueOnce, Distinct
<1>2. event_queue[i] \in Queued /\ event_queue[i] \in Requests
    BY <1>1 DEF Queued, ToSet
<1> QED BY <1>1, <1>2, SwapRemoveRemoves DEF Queued

(* The sweep takes out exactly the records it drops.                         *)
LEMMA SweepEffect ==
    ASSUME IInv, NEW f \in Files, CleanupSweep(f)
    PROVE  /\ event_queue' \in Seq(Requests) /\ Distinct(event_queue')
           /\ Queued' = Queued \ Dropped(f)
<1> DEFINE Keep == {i \in DOMAIN event_queue : event_queue[i] \notin Dropped(f)}
<1>1. event_queue \in Seq(Requests) /\ Distinct(event_queue)
    BY DEF IInv, TypeOK, QueueOnce, Distinct
<1>2. event_queue' = retain(event_queue, Keep) BY DEF CleanupSweep, Dropped
<1>3. Keep \in SUBSET (DOMAIN event_queue) OBVIOUS
<1>4. {event_queue[i] : i \in Keep} = Queued \ Dropped(f) BY DEF Queued, ToSet
<1> HIDE DEF Keep
<1>5. /\ retain(event_queue, Keep) \in Seq(Requests) /\ Distinct(retain(event_queue, Keep))
      /\ ToSet(retain(event_queue, Keep)) = {event_queue[i] : i \in Keep}
    BY <1>1, <1>3, RetainKeeps
<1> QED BY <1>2, <1>4, <1>5 DEF Queued
-----------------------------------------------------------------------------
(* A fresh device satisfies the inductive invariant.                         *)
LEMMA InitIInv == Init => IInv
<1> SUFFICES ASSUME Init PROVE IInv OBVIOUS
<1>0. event_queue \in Seq(Requests) BY DEF Init
<1>a. irp \in [Requests -> IrpRecord] BY NewIrpFields DEF Init
<1>b. refs \in [Events -> Int] /\ signals \in [Events -> Nat] /\ index \in [Requests -> Nat]
    BY DEF Init
<1>c. /\ record_rtn \in [Requests -> BOOLEAN] /\ unloaded \in BOOLEAN /\ freed \subseteq Requests
      /\ file_rundown \in [Files -> SUBSET Requests]
      /\ cleanup_list \in [Files -> SUBSET Requests]
    BY DEF Init
<1>1. TypeOK BY <1>0, <1>a, <1>b, <1>c DEF Init, TypeOK
<1>2. Queued = {} BY DEF Init, Queued, ToSet
<1>3. QueueOnce /\ TimerOnce /\ InsideCounted /\ KindsAgree
    BY <1>2, NewIrpFields DEF Init, QueueOnce, TimerOnce, InsideCounted, KindsAgree, MidDpc
<1> QED BY <1>1, <1>3 DEF IInv

(* Every step of a dispatch keeps it.                                        *)
LEMMA DispatchIInv ==
    ASSUME IInv, NEW r \in Requests, Enter(r) \/ Dispatch(r) PROVE IInv'
<1> USE DEF IInv
<1>a. irp[r] \in IrpRecord /\ FileOf[r] \in Files
    BY EventDriverAssumption DEF TypeOK
<1>1. CASE Enter(r)
    <2>1. ASSUME cln[FileOf[r]] = "open" PROVE TypeOK' /\ InsideCounted'
        <3>1. /\ file_rundown' = [file_rundown EXCEPT ![FileOf[r]] = @ \cup {r}]
              /\ req' = [req EXCEPT ![r] = "entered"] /\ UNCHANGED irp
            BY <1>1, <2>1 DEF Enter
        <3>2. TypeOK' BY <1>1, <1>a, <3>1 DEF TypeOK, Enter, recordVars, eventVars, dpcVars
        <3>3. InsideCounted' BY <1>1, <1>a, <2>1, <3>1 DEF TypeOK, Enter, InsideCounted
        <3> QED BY <3>2, <3>3
    <2>3. ASSUME cln[FileOf[r]] # "open" PROVE TypeOK' /\ InsideCounted'
        <3>1. /\ irp' = [irp EXCEPT ![r] = complete(@)] /\ req' = [req EXCEPT ![r] = "done"]
              /\ UNCHANGED file_rundown
            BY <1>1, <2>3 DEF Enter
        <3>2. TypeOK'
            BY <1>1, <1>a, <3>1, CompleteIrp DEF TypeOK, Enter, recordVars, eventVars, dpcVars
        <3>3. InsideCounted' BY <1>1, <1>a, <3>1 DEF TypeOK, Enter, InsideCounted
        <3> QED BY <3>2, <3>3
    <2>2. QueueOnce'
        BY <1>1 DEF TypeOK, Enter, QueueOnce, InDispatch, Queued, recordVars, dpcVars
    <2>4. KindsAgree'
        <3>1. \A q \in Requests : irp'[q].routine = irp[q].routine
            <4>1. irp' = irp \/ irp' = [irp EXCEPT ![r] = complete(@)] BY <1>1 DEF Enter
            <4>2. complete(irp[r]).routine = irp[r].routine BY <1>a, CompleteIrp
            <4>3. irp \in [Requests -> IrpRecord] BY DEF TypeOK
            <4> HIDE DEF IInv
            <4> QED BY <4>1, <4>2, <4>3
        <3>2. /\ req'[r] \in {"entered", "done"}
              /\ \A q \in Requests \ {r} : req'[q] = req[q]
            BY <1>1 DEF TypeOK, Enter
        <3> QED BY <1>1, <3>1, <3>2 DEF Enter, KindsAgree, MidDpc, dpcVars
    <2>5. TimerOnce'
        BY <1>1 DEF TypeOK, Enter, TimerOnce, InDispatch, MidDpc, recordVars, dpcVars
    <2> QED BY <2>1, <2>2, <2>3, <2>4, <2>5
<1>2. CASE Reject(r)
    <2>1. TypeOK' BY <1>2 DEF TypeOK, Reject, irpVars, recordVars, eventVars, dpcVars, fileVars
    <2>2. QueueOnce'
        BY <1>2 DEF TypeOK, Reject, QueueOnce, InDispatch, Queued, recordVars, dpcVars
    <2>3. InsideCounted' BY <1>2, <1>a DEF TypeOK, Reject, InsideCounted, fileVars
    <2>4. KindsAgree' BY <1>2 DEF TypeOK, Reject, KindsAgree, MidDpc, dpcVars, irpVars
    <2>5. TimerOnce'
        BY <1>2 DEF TypeOK, Reject, TimerOnce, InDispatch, MidDpc, recordVars, dpcVars
    <2> QED BY <2>1, <2>2, <2>3, <2>4, <2>5
<1>3. CASE Arm(r)
    <2>1. TypeOK' BY <1>3, <1>a, SetIrp DEF TypeOK, Arm, recordVars, eventVars, dpcVars, fileVars
    <2>2. QueueOnce'
        BY <1>3 DEF TypeOK, Arm, QueueOnce, InDispatch, Queued, recordVars, dpcVars
    <2>3. InsideCounted' BY <1>3, <1>a DEF TypeOK, Arm, InsideCounted, fileVars
    <2>4. KindsAgree' BY <1>3, <1>a, SetIrp DEF TypeOK, Arm, KindsAgree, MidDpc, dpcVars
    <2>5. TimerOnce'
        BY <1>3 DEF TypeOK, Arm, TimerOnce, InDispatch, MidDpc, recordVars, dpcVars
    <2> QED BY <2>1, <2>2, <2>3, <2>4, <2>5
<1>4. CASE IrpNotification(r) /\ irp[r].cancel
    <2>0. /\ irp' = [irp EXCEPT ![r] = ClearCancelRtn(@)]
          /\ req' = [req EXCEPT ![r] = "finish"] /\ UNCHANGED recordVars
        BY <1>4 DEF IrpNotification, Push, recordVars
    <2>1. TypeOK'
        BY <1>4, <1>a, <2>0, ClearIrp
        DEF TypeOK, IrpNotification, recordVars, eventVars, dpcVars, fileVars
    <2>2. QueueOnce'
        BY <1>4 DEF TypeOK, IrpNotification, QueueOnce, InDispatch, Queued,
           recordVars, dpcVars
    <2>3. InsideCounted' BY <1>4, <1>a DEF TypeOK, IrpNotification, InsideCounted, fileVars
    <2>4. KindsAgree'
        BY <1>4, <1>a, ClearIrp DEF TypeOK, IrpNotification, KindsAgree, MidDpc, dpcVars
    <2>5. TimerOnce'
        BY <1>4 DEF TypeOK, IrpNotification, TimerOnce, InDispatch, MidDpc,
           recordVars, dpcVars
    <2> QED BY <2>1, <2>2, <2>3, <2>4, <2>5
<1>5. CASE IrpNotification(r) /\ ~irp[r].cancel
    <2>0. /\ event_queue' \in Seq(Requests) /\ Distinct(event_queue')
          /\ Queued' = Queued \cup {r}
        BY <1>5, PushEffect DEF IrpNotification, InDispatch
    <2>a. Push(r) /\ req' = [req EXCEPT ![r] = "leave"] /\ UNCHANGED irp
        BY <1>5 DEF IrpNotification
    <2>1. TypeOK'
        BY <1>5, <2>0, <2>a DEF TypeOK, IrpNotification, Push, eventVars, dpcVars, fileVars
    <2>2. QueueOnce'
        BY <1>5, <2>0 DEF TypeOK, IrpNotification, Push, QueueOnce, InDispatch, Distinct, dpcVars
    <2>3. InsideCounted' BY <1>5, <1>a DEF TypeOK, IrpNotification, InsideCounted, fileVars
    <2>4. KindsAgree'
        BY <1>5 DEF TypeOK, IrpNotification, KindsAgree, MidDpc, dpcVars
    <2>5. TimerOnce'
        BY <1>5, <2>0 DEF TypeOK, IrpNotification, Push, TimerOnce, InDispatch, MidDpc, dpcVars
    <2> QED BY <2>1, <2>2, <2>3, <2>4, <2>5
<1>6. CASE RefByHandle(r)
    <2>0. Notify[r] \in Events BY <1>6, EventDriverAssumption DEF RefByHandle, IsIrp
    <2>1. TypeOK'
        BY <1>6, <2>0 DEF TypeOK, RefByHandle, ref_by_handle, irpVars, recordVars, dpcVars, fileVars
    <2>2. QueueOnce'
        BY <1>6 DEF TypeOK, RefByHandle, QueueOnce, InDispatch, Queued, recordVars, dpcVars
    <2>3. InsideCounted' BY <1>6, <1>a DEF TypeOK, RefByHandle, InsideCounted, fileVars
    <2>4. KindsAgree' BY <1>6 DEF TypeOK, RefByHandle, KindsAgree, MidDpc, dpcVars, irpVars
    <2>5. TimerOnce'
        BY <1>6 DEF TypeOK, RefByHandle, TimerOnce, InDispatch, MidDpc, recordVars, dpcVars
    <2> QED BY <2>1, <2>2, <2>3, <2>4, <2>5
<1>7. CASE EventNotification(r)
    <2>0. /\ event_queue' \in Seq(Requests) /\ Distinct(event_queue')
          /\ Queued' = Queued \cup {r}
        BY <1>7, PushEffect DEF EventNotification, InDispatch
    <2>1. TypeOK'
        BY <1>7, <2>0 DEF TypeOK, EventNotification, Push, irpVars, eventVars, dpcVars, fileVars
    <2>2. QueueOnce'
        BY <1>7, <2>0 DEF TypeOK, EventNotification, Push, QueueOnce, InDispatch, Distinct, dpcVars
    <2>3. InsideCounted' BY <1>7, <1>a DEF TypeOK, EventNotification, InsideCounted, fileVars
    <2>4. KindsAgree' BY <1>7 DEF TypeOK, EventNotification, KindsAgree, MidDpc, dpcVars, irpVars
    <2>5. TimerOnce'
        BY <1>7, <2>0 DEF TypeOK, EventNotification, Push, TimerOnce, InDispatch, MidDpc, dpcVars
    <2> QED BY <2>1, <2>2, <2>3, <2>4, <2>5
<1>8. CASE Finish(r)
    <2>1. TypeOK'
        BY <1>8, <1>a, CompleteIrp DEF TypeOK, Finish, recordVars, eventVars, dpcVars, fileVars
    <2>2. QueueOnce'
        BY <1>8 DEF TypeOK, Finish, QueueOnce, InDispatch, Queued, recordVars, dpcVars
    <2>3. InsideCounted' BY <1>8, <1>a DEF TypeOK, Finish, InsideCounted, fileVars
    <2>4. KindsAgree' BY <1>8, <1>a, CompleteIrp DEF TypeOK, Finish, KindsAgree, MidDpc, dpcVars
    <2>5. TimerOnce'
        BY <1>8 DEF TypeOK, Finish, TimerOnce, InDispatch, MidDpc, recordVars, dpcVars
    <2> QED BY <2>1, <2>2, <2>3, <2>4, <2>5
<1>9. CASE Leave(r)
    <2>1. TypeOK' BY <1>9, <1>a DEF TypeOK, Leave, irpVars, recordVars, eventVars, dpcVars
    <2>2. QueueOnce'
        BY <1>9 DEF TypeOK, Leave, QueueOnce, InDispatch, Queued, recordVars, dpcVars
    <2>3. InsideCounted' BY <1>9, <1>a DEF TypeOK, Leave, InsideCounted
    <2>4. KindsAgree' BY <1>9 DEF TypeOK, Leave, KindsAgree, MidDpc, dpcVars, irpVars
    <2>5. TimerOnce'
        BY <1>9 DEF TypeOK, Leave, TimerOnce, InDispatch, MidDpc, recordVars, dpcVars
    <2> QED BY <2>1, <2>2, <2>3, <2>4, <2>5
<1>10. CASE ClearTag(r)
    <2>1. TypeOK' BY <1>10 DEF TypeOK, ClearTag, irpVars, recordVars, eventVars, dpcVars, fileVars
    <2>2. QueueOnce'
        BY <1>10 DEF TypeOK, ClearTag, QueueOnce, InDispatch, Queued, recordVars, dpcVars
    <2>3. InsideCounted' BY <1>10, <1>a DEF TypeOK, ClearTag, InsideCounted, fileVars
    <2>4. KindsAgree' BY <1>10 DEF TypeOK, ClearTag, KindsAgree, MidDpc, dpcVars, irpVars
    <2>5. TimerOnce'
        BY <1>10 DEF TypeOK, ClearTag, TimerOnce, InDispatch, MidDpc, recordVars, dpcVars
    <2> QED BY <2>1, <2>2, <2>3, <2>4, <2>5
<1> QED BY <1>1, <1>2, <1>3, <1>4, <1>5, <1>6, <1>7, <1>8, <1>9, <1>10
        DEF Dispatch, IrpNotification

(* A cancellation and the steps of a cancel routine keep it.                 *)
LEMMA CancelIInv ==
    ASSUME IInv, NEW r \in Requests, Cancel(r) \/ CancelSteps(r) PROVE IInv'
<1> USE DEF IInv
<1>a. irp[r] \in IrpRecord BY DEF TypeOK
<1>1. CASE Cancel(r)
    <2>1. TypeOK'
        BY <1>1, <1>a, CancelIrp DEF TypeOK, Cancel, recordVars, eventVars, dpcVars, fileVars
    <2>2. QueueOnce'
        BY <1>1 DEF TypeOK, Cancel, QueueOnce, InDispatch, Queued, recordVars, dpcVars
    <2>3. InsideCounted' BY <1>1 DEF Cancel, InsideCounted, fileVars
    <2>4. KindsAgree' BY <1>1, <1>a, CancelIrp DEF TypeOK, Cancel, KindsAgree, MidDpc, dpcVars
    <2>5. TimerOnce'
        BY <1>1 DEF TypeOK, Cancel, TimerOnce, InDispatch, MidDpc, recordVars, dpcVars
    <2> QED BY <2>1, <2>2, <2>3, <2>4, <2>5
<1>2. CASE CancelRoutine(r) /\ r \in Queued
    <2>0. /\ event_queue' = swap_remove(event_queue, position({r}))
          /\ timer' = CancelTimer(r) /\ freed' = freed \cup {r}
          /\ rtn' = [rtn EXCEPT ![r] = "complete"] /\ UNCHANGED queue_lock
        BY <1>2 DEF CancelRoutine
    <2>a. position({r}) \in 1 .. Len(event_queue) /\ event_queue[position({r})] = r
        BY <1>2, PositionFinds DEF TypeOK
    <2>b. /\ event_queue' \in Seq(Requests) /\ Distinct(event_queue')
          /\ Queued' = Queued \ {r}
        BY <2>0, <2>a, RemoveEffect
    <2>1. TypeOK'
        BY <1>2, <2>0, <2>b DEF TypeOK, CancelRoutine, CancelTimer, irpVars, eventVars, dpcVars,
           fileVars
    <2>2. QueueOnce'
        BY <1>2, <2>0, <2>b DEF CancelRoutine, QueueOnce, InDispatch, Distinct, dpcVars
    <2>3. InsideCounted' BY <1>2 DEF CancelRoutine, InsideCounted, fileVars
    <2>4. KindsAgree'
        BY <1>2, <2>0 DEF TypeOK, CancelRoutine, KindsAgree, MidDpc, dpcVars, irpVars
    <2>5. TimerOnce'
        BY <1>2, <2>0, <2>b DEF TypeOK, CancelRoutine, CancelTimer, TimerOnce, InDispatch, MidDpc,
           QueueOnce, dpcVars
    <2> QED BY <2>1, <2>2, <2>3, <2>4, <2>5
<1>3. CASE CancelRoutine(r) /\ r \notin Queued
    <2>0. /\ rtn' = [rtn EXCEPT ![r] = "panic"] /\ queue_lock' = "wedged"
          /\ UNCHANGED recordVars
        BY <1>3 DEF CancelRoutine
    <2>1. TypeOK'
        BY <1>3, <2>0 DEF TypeOK, CancelRoutine, irpVars, recordVars, eventVars, dpcVars, fileVars
    <2>2. QueueOnce'
        BY <1>3, <2>0 DEF CancelRoutine, QueueOnce, InDispatch, Queued, recordVars, dpcVars
    <2>3. InsideCounted' BY <1>3 DEF CancelRoutine, InsideCounted, fileVars
    <2>4. KindsAgree'
        BY <1>3, <2>0 DEF TypeOK, CancelRoutine, KindsAgree, MidDpc, dpcVars, irpVars
    <2>5. TimerOnce'
        BY <1>3, <2>0 DEF TypeOK, CancelRoutine, TimerOnce, InDispatch, MidDpc, recordVars, dpcVars
    <2> QED BY <2>1, <2>2, <2>3, <2>4, <2>5
<1>4. CASE CancelComplete(r)
    <2>0. /\ DropBox(complete(irp[r])) \in IrpRecord
          /\ DropBox(complete(irp[r])).routine = irp[r].routine
        BY <1>a, CompleteIrp, DropIrp
    <2>1. TypeOK'
        BY <1>4, <2>0 DEF TypeOK, CancelComplete, recordVars, eventVars, dpcVars, fileVars
    <2>2. QueueOnce'
        BY <1>4 DEF CancelComplete, QueueOnce, InDispatch, Queued, recordVars, dpcVars
    <2>3. InsideCounted' BY <1>4 DEF CancelComplete, InsideCounted, fileVars
    <2>4. KindsAgree' BY <1>4, <2>0 DEF TypeOK, CancelComplete, KindsAgree, MidDpc, dpcVars
    <2>5. TimerOnce'
        BY <1>4 DEF TypeOK, CancelComplete, TimerOnce, InDispatch, MidDpc, recordVars, dpcVars
    <2> QED BY <2>1, <2>2, <2>3, <2>4, <2>5
<1>5. CASE TakeContext(r)
    <2>0. from_context(irp[r]) \in IrpRecord /\ from_context(irp[r]).routine = irp[r].routine
        BY <1>a, DropIrp
    <2>1. TypeOK'
        BY <1>5, <2>0 DEF TypeOK, TakeContext, recordVars, eventVars, dpcVars, fileVars
    <2>2. QueueOnce'
        BY <1>5 DEF TakeContext, QueueOnce, InDispatch, Queued, recordVars, dpcVars
    <2>3. InsideCounted' BY <1>5 DEF TakeContext, InsideCounted, fileVars
    <2>4. KindsAgree' BY <1>5, <2>0 DEF TypeOK, TakeContext, KindsAgree, MidDpc, dpcVars
    <2>5. TimerOnce' BY <1>5 DEF TakeContext, TimerOnce, InDispatch, MidDpc, recordVars, dpcVars
    <2> QED BY <2>1, <2>2, <2>3, <2>4, <2>5
<1> QED BY <1>1, <1>2, <1>3, <1>4, <1>5 DEF CancelSteps

(* The record a DPC of an event registration finds is one of that event; the *)
(* one an IRP's DPC finds is its own.                                        *)
LEMMA TimerDpcFinds ==
    ASSUME IInv, NEW r \in Requests,
           position({q \in Requests : SameData(r, q)}) # 0
    PROVE  LET i == position({q \in Requests : SameData(r, q)}) IN
           /\ i \in 1 .. Len(event_queue) /\ event_queue[i] \in Queued \cap Requests
           /\ IF IsIrp(r) THEN event_queue[i] = r ELSE Notify[event_queue[i]] = Notify[r]
<1> DEFINE X == {q \in Requests : SameData(r, q)}
<1>1. event_queue \in Seq(Requests) BY DEF IInv, TypeOK
<1>2. position(X) \in 1 .. Len(event_queue) /\ event_queue[position(X)] \in X
    BY <1>1, PositionFinds
<1>3. event_queue[position(X)] \in Queued BY <1>1, <1>2 DEF Queued, ToSet
<1> QED BY <1>2, <1>3 DEF SameData

(* A timer that runs out and the steps of its DPC keep it.                   *)
LEMMA DpcIInv ==
    ASSUME IInv, NEW r \in Requests, Expire(r) \/ DpcSteps(r) PROVE IInv'
<1> USE DEF IInv
<1> DEFINE i == position({q \in Requests : SameData(r, q)})
<1>a. irp[r] \in IrpRecord BY DEF TypeOK
<1> HIDE DEF i
<1>1. CASE Expire(r)
    <2>1. TypeOK' BY <1>1 DEF TypeOK, Expire, irpVars, eventVars, fileVars
    <2>2. QueueOnce'
        BY <1>1 DEF TypeOK, Expire, QueueOnce, InDispatch, Queued
    <2>3. InsideCounted' BY <1>1 DEF Expire, InsideCounted, fileVars
    <2>4. KindsAgree' BY <1>1 DEF TypeOK, Expire, KindsAgree, MidDpc, irpVars
    <2>5. TimerOnce'
        BY <1>1 DEF TypeOK, Expire, TimerOnce, InDispatch, MidDpc
    <2> QED BY <2>1, <2>2, <2>3, <2>4, <2>5
<1>2. CASE TimerDpc(r) /\ i = 0
    <2>0. /\ dpc' = [dpc EXCEPT ![r] = "done"]
          /\ UNCHANGED <<irp, event_queue, freed, eventVars, index>>
        BY <1>2 DEF TimerDpc, i
    <2>1. TypeOK' BY <1>2, <2>0 DEF TypeOK, TimerDpc, eventVars, fileVars
    <2>2. QueueOnce'
        BY <1>2, <2>0 DEF TypeOK, TimerDpc, QueueOnce, InDispatch, Queued
    <2>3. InsideCounted' BY <1>2 DEF TimerDpc, InsideCounted, fileVars
    <2>4. KindsAgree' BY <1>2, <2>0 DEF TypeOK, TimerDpc, KindsAgree, MidDpc
    <2>5. TimerOnce'
        BY <1>2, <2>0 DEF TypeOK, TimerDpc, TimerOnce, InDispatch, MidDpc
    <2> QED BY <2>1, <2>2, <2>3, <2>4, <2>5
<1>3. CASE TimerDpc(r) /\ i # 0 /\ IsIrp(r)
    <2>0. /\ irp' = [irp EXCEPT ![r] = ClearCancelRtn(@)]
          /\ dpc' = [dpc EXCEPT ![r] = "completing"]
          /\ index' = [index EXCEPT ![r] = i]
          /\ UNCHANGED <<event_queue, freed, eventVars>>
        BY <1>3 DEF TimerDpc, i
    <2>a. i \in 1 .. Len(event_queue) /\ Len(event_queue) \in Nat
        BY <1>3, TimerDpcFinds DEF i, TypeOK
    <2>b. i \in Nat /\ i > 0 BY <2>a
    <2>1. TypeOK' BY <1>3, <1>a, <2>0, <2>b, ClearIrp DEF TypeOK, TimerDpc, eventVars, fileVars
    <2>2. QueueOnce'
        BY <1>3, <2>0, <2>b DEF TypeOK, TimerDpc, QueueOnce, InDispatch, Queued
    <2>3. InsideCounted' BY <1>3 DEF TimerDpc, InsideCounted, fileVars
    <2>4. KindsAgree' BY <1>3, <1>a, <2>0, ClearIrp DEF TypeOK, TimerDpc, KindsAgree, MidDpc
    <2>5. TimerOnce'
        BY <1>3, <2>0, <2>b DEF TypeOK, TimerDpc, TimerOnce, InDispatch, MidDpc
    <2> QED BY <2>1, <2>2, <2>3, <2>4, <2>5
<1>4. CASE TimerDpc(r) /\ i # 0 /\ ~IsIrp(r)
    <2>0. /\ signals' = set(Notify[r]) /\ refs' = dereference(Notify[r])
          /\ event_queue' = swap_remove(event_queue, i)
          /\ freed' = freed \cup {event_queue[i]}
          /\ dpc' = [dpc EXCEPT ![r] = "done"]
          /\ UNCHANGED <<irp, index>>
        BY <1>4 DEF TimerDpc, i
    <2>a. i \in 1 .. Len(event_queue) /\ event_queue[i] \in Requests
        BY <1>4, TimerDpcFinds DEF i
    <2>b. /\ event_queue' \in Seq(Requests) /\ Distinct(event_queue')
          /\ Queued' = Queued \ {event_queue[i]} /\ event_queue[i] \in Queued
        BY <2>0, <2>a, RemoveEffect
    <2>c. Notify[r] \in Events BY <1>4, EventDriverAssumption DEF IsIrp
    <2>d. refs' \in [Events -> Int] /\ signals' \in [Events -> Nat]
        BY <2>0, <2>c DEF TypeOK, set, dereference
    <2>e. freed' \subseteq Requests /\ dpc' = [dpc EXCEPT ![r] = "done"] /\ UNCHANGED <<irp, index>>
        BY <2>0, <2>a DEF TypeOK
    <2>f. UNCHANGED <<record_rtn, timer, fileVars, queue_lock, req, rtn, unloaded>>
        BY <1>4 DEF TimerDpc
    <2>1. TypeOK' BY <2>b, <2>d, <2>e, <2>f DEF TypeOK, fileVars
    <2>2. QueueOnce'
        BY <1>4, <2>0, <2>b DEF TypeOK, TimerDpc, QueueOnce, InDispatch, Distinct
    <2>3. InsideCounted' BY <1>4 DEF TimerDpc, InsideCounted, fileVars
    <2>4. KindsAgree' BY <1>4, <2>0 DEF TypeOK, TimerDpc, KindsAgree, MidDpc
    <2>5. TimerOnce'
        BY <1>4, <2>0, <2>b DEF TypeOK, TimerDpc, TimerOnce, InDispatch, MidDpc
    <2> QED BY <2>1, <2>2, <2>3, <2>4, <2>5
<1>5. CASE DpcComplete(r)
    <2>1. TypeOK'
        BY <1>5, <1>a, CompleteIrp DEF TypeOK, DpcComplete, recordVars, eventVars, fileVars
    <2>2. QueueOnce'
        BY <1>5 DEF TypeOK, DpcComplete, QueueOnce, InDispatch, Queued, recordVars
    <2>3. InsideCounted' BY <1>5 DEF DpcComplete, InsideCounted, fileVars
    <2>4. KindsAgree' BY <1>5, <1>a, CompleteIrp DEF TypeOK, DpcComplete, KindsAgree, MidDpc
    <2>5. TimerOnce'
        BY <1>5 DEF TypeOK, DpcComplete, TimerOnce, InDispatch, MidDpc, recordVars
    <2> QED BY <2>1, <2>2, <2>3, <2>4, <2>5
<1>6. CASE DpcRemove(r) /\ index[r] <= Len(event_queue)
    <2>a. index[r] \in Nat /\ index[r] > 0 /\ Len(event_queue) \in Nat
        BY <1>6 DEF TypeOK, DpcRemove, TimerOnce, MidDpc
    <2>b. index[r] \in 1 .. Len(event_queue) BY <1>6, <2>a
    <2>0. /\ event_queue' = swap_remove(event_queue, index[r])
          /\ freed' = freed \cup {event_queue[index[r]]}
          /\ dpc' = [dpc EXCEPT ![r] = "done"] /\ UNCHANGED queue_lock
        BY <1>6, <2>a DEF DpcRemove
    <2>c. /\ event_queue' \in Seq(Requests) /\ Distinct(event_queue')
          /\ Queued' = Queued \ {event_queue[index[r]]} /\ event_queue[index[r]] \in Queued
          /\ event_queue[index[r]] \in Requests
        BY <2>0, <2>b, RemoveEffect
    <2>1. TypeOK' BY <1>6, <2>0, <2>c DEF TypeOK, DpcRemove, irpVars, eventVars, fileVars
    <2>2. QueueOnce'
        BY <1>6, <2>0, <2>c DEF TypeOK, DpcRemove, QueueOnce, InDispatch, Distinct
    <2>3. InsideCounted' BY <1>6 DEF DpcRemove, InsideCounted, fileVars
    <2>4. KindsAgree' BY <1>6, <2>0 DEF TypeOK, DpcRemove, KindsAgree, MidDpc, irpVars
    <2>5. TimerOnce'
        BY <1>6, <2>0, <2>c DEF TypeOK, DpcRemove, TimerOnce, InDispatch, MidDpc
    <2> QED BY <2>1, <2>2, <2>3, <2>4, <2>5
<1>7. CASE DpcRemove(r) /\ ~(index[r] <= Len(event_queue))
    <2>0. /\ dpc' = [dpc EXCEPT ![r] = "panic"] /\ queue_lock' = "wedged"
          /\ UNCHANGED <<event_queue, freed>>
        BY <1>7 DEF DpcRemove
    <2>1. TypeOK' BY <1>7, <2>0 DEF TypeOK, DpcRemove, irpVars, eventVars, fileVars
    <2>2. QueueOnce'
        BY <1>7, <2>0 DEF TypeOK, DpcRemove, QueueOnce, InDispatch, Queued
    <2>3. InsideCounted' BY <1>7 DEF DpcRemove, InsideCounted, fileVars
    <2>4. KindsAgree' BY <1>7, <2>0 DEF TypeOK, DpcRemove, KindsAgree, MidDpc, irpVars
    <2>5. TimerOnce'
        BY <1>7, <2>0 DEF TypeOK, DpcRemove, TimerOnce, InDispatch, MidDpc
    <2> QED BY <2>1, <2>2, <2>3, <2>4, <2>5
<1> QED BY <1>1, <1>2, <1>3, <1>4, <1>5, <1>6, <1>7 DEF DpcSteps
(* Opening, cleaning up and closing a file, and unload, keep it.             *)
LEMMA FileIInv ==
    ASSUME IInv, NEW f \in Files,
           Create(f) \/ CleanupRundown(f) \/ Cleanup(f) \/ Close(f)
    PROVE  IInv'
<1> USE DEF IInv
<1> DEFINE Quiet == UNCHANGED <<irpVars, recordVars, eventVars, dpcVars, file_rundown,
                                cleanup_list, queue_lock, req, rtn, unloaded>>
<1>1. ASSUME NEW c \in {"open", "rundown", "sweep", "closed"}, Quiet,
             cln' = [cln EXCEPT ![f] = c],
             c \in {"sweep", "closed"} => file_rundown[f] = {}
      PROVE  IInv'
    <2>1. TypeOK' BY <1>1 DEF TypeOK, irpVars, recordVars, eventVars, dpcVars
    <2>2. QueueOnce' BY <1>1 DEF QueueOnce, InDispatch, Queued, recordVars, dpcVars
    <2>3. InsideCounted' BY <1>1 DEF TypeOK, InsideCounted
    <2>4. KindsAgree' BY <1>1 DEF KindsAgree, MidDpc, dpcVars, irpVars
    <2>5. TimerOnce' BY <1>1 DEF TypeOK, TimerOnce, InDispatch, MidDpc, recordVars, dpcVars
    <2> QED BY <2>1, <2>2, <2>3, <2>4, <2>5
<1>2. CASE Create(f) BY <1>1, <1>2 DEF Create
<1>3. CASE CleanupRundown(f) BY <1>1, <1>3 DEF CleanupRundown
<1>4. CASE CleanupWait(f) BY <1>1, <1>4 DEF CleanupWait
<1>5. CASE Close(f)
    <2>1. file_rundown[f] = {} BY <1>5 DEF Close, InsideCounted
    <2> QED BY <1>1, <1>5, <2>1 DEF Close
<1>6. CASE CleanupSweep(f)
    <2>0. /\ event_queue' \in Seq(Requests) /\ Distinct(event_queue')
          /\ Queued' = Queued \ Dropped(f) /\ Dropped(f) \subseteq Queued
        BY <1>6, SweepEffect DEF Dropped
    <2>a. Dropped(f) \subseteq Requests
        <3>1. Queued \subseteq Requests BY DEF TypeOK, Queued, ToSet
        <3> QED BY <3>1 DEF Dropped
    <2>b. /\ irp' \in [Requests -> IrpRecord]
          /\ \A r \in Requests : irp'[r].routine => irp[r].routine
        BY <1>6, ClearIrp DEF CleanupSweep, TypeOK
    <2>c. record_rtn' \in [Requests -> BOOLEAN] /\ UNCHANGED unloaded
        BY <1>6, Zenon DEF CleanupSweep, TypeOK
    <2>d. timer' \in [Requests -> {"none", "set", "off", "expired"}]
        BY <1>6 DEF CleanupSweep, TypeOK
    <2>e. refs' \in [Events -> Int]
        <3>1. \A e \in Events : Cardinality({r \in Dropped(f) : Notify[r] = e}) \in Nat
            <4> TAKE e \in Events
            <4>1. {r \in Dropped(f) : Notify[r] = e} \in SUBSET Requests BY <2>a
            <4>2. IsFiniteSet({r \in Dropped(f) : Notify[r] = e})
                BY <4>1, EventDriverAssumption, FS_Subset
            <4> QED BY <4>2, FS_CardinalityType
        <3>2. refs' = [e \in Events |-> refs[e] - Cardinality({r \in Dropped(f) : Notify[r] = e})]
            BY <1>6 DEF CleanupSweep, Dropped
        <3> DEFINE Count(e) == Cardinality({r \in Dropped(f) : Notify[r] = e})
        <3>3. refs' = [e \in Events |-> refs[e] - Count(e)] BY <3>2
        <3>4. \A e \in Events : Count(e) \in Nat BY <3>1
        <3> HIDE DEF Count
        <3>5. \A e \in Events : refs[e] - Count(e) \in Int BY <3>4 DEF TypeOK
        <3> QED BY <3>3, <3>5
    <2>f. /\ cleanup_list' = [cleanup_list EXCEPT ![f] = {r \in Dropped(f) : IsIrp(r)}]
          /\ freed' = freed \cup Dropped(f)
          /\ cln' = [cln EXCEPT ![f] = "complete"]
          /\ UNCHANGED <<signals, dpcVars, file_rundown, queue_lock, req, rtn, unloaded>>
          /\ cln[f] = "sweep"
        BY <1>6 DEF CleanupSweep, Dropped
    <2>1. TypeOK' BY <2>0, <2>a, <2>b, <2>c, <2>d, <2>e, <2>f DEF TypeOK, dpcVars
    <2>2. QueueOnce' BY <2>0, <2>f DEF QueueOnce, InDispatch, Distinct, dpcVars
    <2>3. InsideCounted' BY <2>f DEF InsideCounted, TypeOK
    <2>4. KindsAgree' BY <2>b, <2>f DEF KindsAgree, MidDpc, dpcVars
    <2>5. TimerOnce'
        <3>1. \A r \in Requests :
                 timer'[r] = timer[r] \/ (timer[r] = "set" /\ timer'[r] = "off")
            BY <1>6 DEF CleanupSweep, Swept, Skipped
        <3> QED BY <2>f, <3>1 DEF TimerOnce, InDispatch, MidDpc, dpcVars
    <2> QED BY <2>1, <2>2, <2>3, <2>4, <2>5
<1>7. CASE CleanupComplete(f)
    <2>0. /\ irp' \in [Requests -> IrpRecord]
          /\ \A r \in Requests : irp'[r].routine = irp[r].routine
        BY <1>7, CompleteIrp DEF CleanupComplete, TypeOK
    <2>a. /\ cln' = [cln EXCEPT ![f] = "cleaned"] /\ cln[f] = "complete"
          /\ UNCHANGED <<record_rtn, recordVars, eventVars, dpcVars, file_rundown,
                         cleanup_list, queue_lock, req, rtn, unloaded>>
        BY <1>7 DEF CleanupComplete
    <2>1. TypeOK' BY <2>0, <2>a DEF TypeOK, recordVars, eventVars, dpcVars
    <2>2. QueueOnce' BY <2>a DEF QueueOnce, InDispatch, Queued, recordVars, dpcVars
    <2>3. InsideCounted' BY <2>a DEF InsideCounted, TypeOK
    <2>4. KindsAgree' BY <2>0, <2>a DEF KindsAgree, MidDpc, dpcVars
    <2>5. TimerOnce' BY <2>a DEF TypeOK, TimerOnce, InDispatch, MidDpc, recordVars, dpcVars
    <2> QED BY <2>1, <2>2, <2>3, <2>4, <2>5
<1> QED BY <1>2, <1>3, <1>4, <1>5, <1>6, <1>7 DEF Cleanup

(* Every step keeps the inductive invariant.                                 *)
LEMMA NextIInv == IInv /\ [Next]_vars => IInv'
<1> SUFFICES ASSUME IInv, [Next]_vars PROVE IInv' OBVIOUS
<1>1. ASSUME Unload \/ UNCHANGED vars PROVE IInv'
    <2>0. /\ UNCHANGED <<irpVars, recordVars, eventVars, dpcVars, fileVars, queue_lock, req, rtn>>
          /\ unloaded' \in BOOLEAN
        BY <1>1 DEF Unload, vars, IInv, TypeOK
    <2>1. TypeOK'
        BY <2>0 DEF IInv, TypeOK, irpVars, recordVars, eventVars, dpcVars, fileVars
    <2>2. QueueOnce'
        BY <2>0 DEF IInv, QueueOnce, InDispatch, Queued, recordVars, dpcVars
    <2>3. InsideCounted' BY <2>0 DEF IInv, InsideCounted, fileVars
    <2>4. KindsAgree' BY <2>0 DEF IInv, KindsAgree, MidDpc, dpcVars, irpVars
    <2>5. TimerOnce' BY <2>0 DEF IInv, TimerOnce, InDispatch, MidDpc, recordVars, dpcVars
    <2> QED BY <2>1, <2>2, <2>3, <2>4, <2>5 DEF IInv
<1> QED BY <1>1, DispatchIInv, CancelIInv, DpcIInv, FileIInv DEF Next

(* The inductive invariant holds of every behaviour.                         *)
LEMMA Inductive == Spec => []IInv
<1>1. Init => IInv BY InitIInv
<1>2. IInv /\ [Next]_vars => IInv' BY NextIInv
<1> QED BY <1>1, <1>2, PTL DEF Spec

(* FileOutlivesRundown: the file context is there from a request's acquire of*)
(* the remove lock in it to the kernel's release of that lock.               *)
THEOREM FileIsSafe == Spec => []FileOutlivesRundown
<1>1. IInv => FileOutlivesRundown
    <2> SUFFICES ASSUME IInv, NEW r \in Requests, req[r] \notin {"new", "untag", "done"}
                 PROVE  cln[FileOf[r]] \notin {"new", "closed"}
        BY DEF FileOutlivesRundown
    <2>1. FileOf[r] \in Files /\ r \in file_rundown[FileOf[r]]
        BY EventDriverAssumption DEF IInv, InsideCounted
    <2> QED BY <2>1 DEF IInv, InsideCounted
<1> QED BY <1>1, Inductive, PTL
-----------------------------------------------------------------------------
(* What the three removals do to the queue: the cancel routine takes out its *)
(* own record, a DPC the one it has found.                                   *)
LEMMA CancelRoutineEffect ==
    ASSUME IInv, NEW r \in Requests, CancelRoutine(r)
    PROVE  IF r \in Queued THEN Queued' = Queued \ {r} ELSE UNCHANGED event_queue
<1>1. CASE r \in Queued
    <2>1. position({r}) \in 1 .. Len(event_queue) /\ event_queue[position({r})] = r
        BY <1>1, PositionFinds DEF IInv, TypeOK
    <2>2. event_queue' = swap_remove(event_queue, position({r}))
        BY <1>1 DEF CancelRoutine
    <2> QED BY <1>1, <2>1, <2>2, RemoveEffect
<1>2. CASE r \notin Queued BY <1>2 DEF CancelRoutine, recordVars
<1> QED BY <1>1, <1>2

(* The DPC under the lock: it finds nothing, or an IRP record and notes its  *)
(* index, or an event record, which it signals, dereferences and removes.    *)
LEMMA TimerDpcEffect ==
    ASSUME IInv, NEW r \in Requests, TimerDpc(r)
    PROVE  \/ /\ dpc' = [dpc EXCEPT ![r] = "done"]
              /\ UNCHANGED <<irp, event_queue, freed, refs, signals, index>>
           \/ /\ IsIrp(r)
              /\ irp' = [irp EXCEPT ![r] = ClearCancelRtn(@)]
              /\ dpc' = [dpc EXCEPT ![r] = "completing"]
              /\ index' = [index EXCEPT ![r] = index'[r]]
              /\ index'[r] \in 1 .. Len(event_queue) /\ event_queue[index'[r]] = r
              /\ UNCHANGED <<event_queue, freed, refs, signals>>
           \/ /\ ~IsIrp(r) /\ Notify[r] \in Events
              /\ \E q \in Queued \cap Requests :
                    Notify[q] = Notify[r] /\ Queued' = Queued \ {q} /\ freed' = freed \cup {q}
              /\ refs' = dereference(Notify[r]) /\ signals' = set(Notify[r])
              /\ dpc' = [dpc EXCEPT ![r] = "done"]
              /\ UNCHANGED <<irp, index>>
<1> DEFINE i == position({q \in Requests : SameData(r, q)})
<1> HIDE DEF i
<1>1. CASE i = 0
    BY <1>1 DEF TimerDpc, i, eventVars
<1>2. CASE i # 0 /\ IsIrp(r)
    <2>1. /\ irp' = [irp EXCEPT ![r] = ClearCancelRtn(@)]
          /\ dpc' = [dpc EXCEPT ![r] = "completing"]
          /\ index' = [index EXCEPT ![r] = i]
          /\ UNCHANGED <<event_queue, freed, refs, signals>>
        BY <1>2 DEF TimerDpc, i, eventVars
    <2>2. i \in 1 .. Len(event_queue) /\ event_queue[i] = r
        BY <1>2, TimerDpcFinds DEF i
    <2>3. index'[r] = i BY <2>1 DEF IInv, TypeOK
    <2> QED BY <1>2, <2>1, <2>2, <2>3
<1>3. CASE i # 0 /\ ~IsIrp(r)
    <2>1. /\ event_queue' = swap_remove(event_queue, i)
          /\ freed' = freed \cup {event_queue[i]}
          /\ refs' = dereference(Notify[r]) /\ signals' = set(Notify[r])
          /\ dpc' = [dpc EXCEPT ![r] = "done"] /\ UNCHANGED <<irp, index>>
        BY <1>3 DEF TimerDpc, i
    <2>2. /\ i \in 1 .. Len(event_queue) /\ event_queue[i] \in Queued \cap Requests
          /\ Notify[event_queue[i]] = Notify[r]
        BY <1>3, TimerDpcFinds DEF i
    <2>3. Queued' = Queued \ {event_queue[i]} BY <2>1, <2>2, RemoveEffect
    <2>4. Notify[r] \in Events BY <1>3, EventDriverAssumption DEF IsIrp
    <2> QED BY <1>3, <2>1, <2>2, <2>3, <2>4
<1> QED BY <1>1, <1>2, <1>3

(* The DPC after the relock: it removes whatever is at its index, or faults. *)
LEMMA DpcRemoveEffect ==
    ASSUME IInv, NEW r \in Requests, DpcRemove(r)
    PROVE  \/ UNCHANGED <<event_queue, freed>> /\ ~(index[r] <= Len(event_queue))
           \/ /\ index[r] \in 1 .. Len(event_queue)
              /\ event_queue[index[r]] \in Queued \cap Requests
              /\ Queued' = Queued \ {event_queue[index[r]]}
              /\ freed' = freed \cup {event_queue[index[r]]}
              /\ dpc' = [dpc EXCEPT ![r] = "done"]
<1>1. index[r] \in Nat /\ index[r] > 0 /\ Len(event_queue) \in Nat
    BY DEF IInv, TypeOK, DpcRemove, TimerOnce, MidDpc
<1>2. CASE index[r] <= Len(event_queue)
    <2>1. index[r] \in 1 .. Len(event_queue) BY <1>1, <1>2
    <2>2. /\ event_queue' = swap_remove(event_queue, index[r])
          /\ freed' = freed \cup {event_queue[index[r]]}
          /\ dpc' = [dpc EXCEPT ![r] = "done"]
        BY <1>1, <1>2 DEF DpcRemove
    <2> QED BY <2>1, <2>2, RemoveEffect
<1>3. CASE ~(index[r] <= Len(event_queue)) BY <1>3 DEF DpcRemove
<1> QED BY <1>2, <1>3

(* Only the two notification handlers put a record into the queue, and the   *)
(* request they do it for is inside the remove lock.                         *)
LEMMA OnlyDispatchPushes ==
    ASSUME IInv, [Next]_vars, NEW r \in Requests, r \in Queued' \ Queued
    PROVE  req[r] \in {"armed", "referenced"}
<1>1. ASSUME NEW q \in Requests, Enter(q) \/ Dispatch(q) PROVE req[r] \in {"armed", "referenced"}
    <2>1. ASSUME event_queue' # event_queue PROVE req[q] \in {"armed", "referenced"} /\ Push(q)
        BY <1>1, <2>1 DEF Dispatch, Enter, Reject, Arm, IrpNotification, RefByHandle,
           EventNotification, Finish, Leave, ClearTag, recordVars
    <2>2. event_queue' # event_queue BY DEF Queued
    <2>3. Queued' = Queued \cup {q} BY <2>1, <2>2, PushEffect DEF InDispatch
    <2> QED BY <2>1, <2>2, <2>3
<1>2. ASSUME NEW q \in Requests, Cancel(q) \/ CancelSteps(q) PROVE Queued' \subseteq Queued
    BY <1>2, CancelRoutineEffect
    DEF Cancel, CancelSteps, TakeContext, CancelComplete, recordVars, Queued
<1>3. ASSUME NEW q \in Requests, Expire(q) \/ DpcSteps(q) PROVE Queued' \subseteq Queued
    <2>1. CASE TimerDpc(q) BY <2>1, TimerDpcEffect DEF Queued
    <2>2. CASE DpcRemove(q) BY <2>2, DpcRemoveEffect DEF Queued
    <2>3. CASE Expire(q) \/ DpcComplete(q) BY <2>3 DEF Expire, DpcComplete, recordVars, Queued
    <2> QED BY <1>3, <2>1, <2>2, <2>3 DEF DpcSteps
<1>4. ASSUME NEW f \in Files, Create(f) \/ CleanupRundown(f) \/ Cleanup(f) \/ Close(f)
      PROVE  Queued' \subseteq Queued
    <2>1. CASE CleanupSweep(f) BY <2>1, SweepEffect
    <2> QED BY <1>4, <2>1 DEF Create, CleanupRundown, Cleanup, CleanupWait, CleanupComplete,
            Close, recordVars, Queued
<1>5. ASSUME Unload \/ UNCHANGED vars PROVE Queued' \subseteq Queued
    BY <1>5 DEF Unload, vars, recordVars, Queued
<1> QED BY <1>1, <1>2, <1>3, <1>4, <1>5 DEF Next

(* NoRegistrationAfterCleanup: the sweep of a file sees all the records of   *)
(* that file there will ever be.                                             *)
THEOREM SweepSeesAll == Spec => NoRegistrationAfterCleanup
<1> DEFINE P == \A r \in Requests : r \in Queued' \ Queued => cln[FileOf[r]] \in {"open", "rundown"}
<1>1. IInv /\ [Next]_vars => [P]_vars
    <2> SUFFICES ASSUME IInv, [Next]_vars, NEW r \in Requests, r \in Queued' \ Queued
                 PROVE  cln[FileOf[r]] \in {"open", "rundown"}
        OBVIOUS
    <2>1. req[r] \in {"armed", "referenced"} BY OnlyDispatchPushes
    <2>2. FileOf[r] \in Files /\ r \in file_rundown[FileOf[r]]
        BY <2>1, EventDriverAssumption DEF IInv, InsideCounted
    <2> QED BY <2>2 DEF IInv, InsideCounted
<1> QED BY <1>1, Inductive, PTL DEF Spec, NoRegistrationAfterCleanup
-----------------------------------------------------------------------------
(* The registrations waiting for an event are finitely many.                 *)
LEMMA WaitingFinite ==
    ASSUME NEW e PROVE IsFiniteSet(Waiting(e)) /\ Cardinality(Waiting(e)) \in Nat
<1>1. Waiting(e) \in SUBSET Requests BY DEF Waiting
<1>2. IsFiniteSet(Waiting(e)) BY <1>1, EventDriverAssumption, FS_Subset
<1> QED BY <1>2, FS_CardinalityType

WaitsFor(q) == q \in Queued \/ req[q] = "referenced"

(* The references on an event beyond those its waiting registrations need.   *)
Surplus(e) == refs[e] - Cardinality(Waiting(e))

(* A step that keeps the references and the waiting registrations.           *)
LEMMA SurplusKept ==
    ASSUME refs' = refs, \A q \in Requests : ~IsIrp(q) => (WaitsFor(q)' <=> WaitsFor(q))
    PROVE  \A e \in Events : Surplus(e)' = Surplus(e)
<1>1. \A e \in Events : Waiting(e)' = Waiting(e)
    BY EventDriverAssumption DEF Waiting, WaitsFor, IsIrp
<1> QED BY <1>1 DEF Surplus

(* Every step but the removal of another record than its own by a DPC keeps  *)
(* the surplus, and such a removal cannot lower it.                          *)
LEMMA NextSurplus ==
    ASSUME IInv, [Next]_vars
    PROVE  /\ \A e \in Events : Surplus(e) \in Int /\ Surplus(e)' >= Surplus(e)
           /\ DpcIndexValid => \A e \in Events : Surplus(e)' = Surplus(e)
<1> USE DEF IInv
<1> DEFINE Kept == \A e \in Events : Surplus(e)' = Surplus(e)
<1>a. req \in [Requests -> {"new", "entered", "armed", "referenced", "finish", "leave", "untag",
                            "done"}]
    BY DEF TypeOK
<1>b. \A e \in Events : refs[e] \in Int /\ Surplus(e) \in Int
    BY WaitingFinite DEF TypeOK, Surplus
<1>1. ASSUME NEW r \in Requests,
             Enter(r) \/ Reject(r) \/ Arm(r) \/ Finish(r) \/ Leave(r) \/ ClearTag(r)
      PROVE  Kept
    <2>1. refs' = refs /\ Queued' = Queued
        BY <1>1 DEF Enter, Reject, Arm, Finish, Leave, ClearTag, recordVars, eventVars, Queued
    <2>2. /\ req[r] # "referenced" /\ req'[r] # "referenced"
          /\ \A q \in Requests \ {r} : req'[q] = req[q]
        BY <1>a, <1>1 DEF Enter, Reject, Arm, Finish, Leave, ClearTag
    <2> QED BY <2>1, <2>2, SurplusKept DEF WaitsFor
<1>2. ASSUME NEW r \in Requests, IrpNotification(r) PROVE Kept
    <2>1. IsIrp(r) BY <1>2 DEF IrpNotification, KindsAgree
    <2>2. refs' = refs /\ \A q \in Requests \ {r} : req'[q] = req[q]
        BY <1>a, <1>2 DEF IrpNotification, eventVars
    <2>3. Queued' = Queued \/ Queued' = Queued \cup {r}
        BY <1>2, PushEffect DEF IrpNotification, InDispatch, Queued, recordVars
    <2> QED BY <2>1, <2>2, <2>3, SurplusKept DEF WaitsFor
<1>3. ASSUME NEW r \in Requests, RefByHandle(r) PROVE Kept
    <2>1. /\ Notify[r] \in Events /\ req[r] = "entered"
          /\ refs' = [refs EXCEPT ![Notify[r]] = @ + 1]
          /\ req' = [req EXCEPT ![r] = "referenced"] /\ Queued' = Queued
        BY <1>3, EventDriverAssumption
        DEF RefByHandle, ref_by_handle, IsIrp, recordVars, Queued
    <2>2. r \notin Queued BY <2>1 DEF QueueOnce, InDispatch
    <2>3. ASSUME NEW e \in Events, e # Notify[r] PROVE Surplus(e)' = Surplus(e)
        <3>1. Waiting(e)' = Waiting(e) BY <1>a, <2>1, <2>3 DEF Waiting
        <3> QED BY <2>1, <2>3, <3>1 DEF Surplus, TypeOK
    <2>4. Surplus(Notify[r])' = Surplus(Notify[r])
        <3>1. Waiting(Notify[r])' = Waiting(Notify[r]) \cup {r} /\ r \notin Waiting(Notify[r])
            BY <1>a, <2>1, <2>2 DEF Waiting
        <3>2. Cardinality(Waiting(Notify[r])') = Cardinality(Waiting(Notify[r])) + 1
            BY <3>1, WaitingFinite, FS_AddElement
        <3>3. Cardinality(Waiting(Notify[r])) \in Nat BY WaitingFinite
        <3>4. refs'[Notify[r]] = refs[Notify[r]] + 1 /\ Notify' = Notify BY <2>1 DEF TypeOK
        <3> QED BY <1>b, <2>1, <3>2, <3>3, <3>4 DEF Surplus
    <2> QED BY <2>3, <2>4
<1>4. ASSUME NEW r \in Requests, EventNotification(r) PROVE Kept
    <2>1. refs' = refs /\ req[r] = "referenced" /\ \A q \in Requests \ {r} : req'[q] = req[q]
        BY <1>a, <1>4 DEF EventNotification, eventVars
    <2>2. Queued' = Queued \cup {r}
        BY <1>4, PushEffect DEF EventNotification, InDispatch
    <2> QED BY <2>1, <2>2, SurplusKept DEF WaitsFor
<1>5. ASSUME NEW r \in Requests, Cancel(r) \/ CancelSteps(r) PROVE Kept
    <2>1. refs' = refs /\ req' = req
        BY <1>5 DEF Cancel, CancelSteps, TakeContext, CancelRoutine, CancelComplete, eventVars
    <2>2. CASE CancelRoutine(r)
        <3>1. IsIrp(r) BY <2>2 DEF CancelRoutine, KindsAgree
        <3>2. Queued' = Queued \/ Queued' = Queued \ {r}
            BY <2>2, CancelRoutineEffect DEF Queued
        <3> QED BY <2>1, <3>1, <3>2, SurplusKept DEF WaitsFor
    <2>3. CASE ~CancelRoutine(r)
        <3>1. Queued' = Queued
            BY <1>5, <2>3 DEF Cancel, CancelSteps, TakeContext, CancelComplete, recordVars, Queued
        <3> QED BY <2>1, <3>1, SurplusKept DEF WaitsFor
    <2> QED BY <2>2, <2>3
<1>6. ASSUME NEW r \in Requests, Expire(r) \/ DpcComplete(r) PROVE Kept
    <2>1. refs' = refs /\ req' = req /\ Queued' = Queued
        BY <1>6 DEF Expire, DpcComplete, eventVars, recordVars, Queued
    <2> QED BY <2>1, SurplusKept DEF WaitsFor
<1>7. ASSUME NEW r \in Requests, DpcRemove(r)
      PROVE  (\A e \in Events : Surplus(e)' >= Surplus(e)) /\ (DpcIndexValid => Kept)
    <2>1. refs' = refs /\ req' = req /\ IsIrp(r)
        BY <1>7 DEF DpcRemove, eventVars, KindsAgree, MidDpc
    <2>2. Queued' \subseteq Queued BY <1>7, DpcRemoveEffect DEF Queued
    <2>3. ASSUME NEW e \in Events PROVE Surplus(e)' >= Surplus(e)
        <3>1. Waiting(e)' \in SUBSET Waiting(e) BY <2>1, <2>2 DEF Waiting
        <3>2. /\ Cardinality(Waiting(e)') <= Cardinality(Waiting(e))
              /\ Cardinality(Waiting(e)') \in Nat
            BY <3>1, WaitingFinite, FS_Subset, FS_CardinalityType
        <3> QED BY <1>b, <2>1, <3>2, WaitingFinite DEF Surplus
    <2>4. ASSUME DpcIndexValid PROVE Kept
        <3>1. event_queue[index[r]] = r BY <1>7, <2>4 DEF DpcRemove, DpcIndexValid
        <3>2. Queued' = Queued \/ Queued' = Queued \ {r}
            BY <1>7, <3>1, DpcRemoveEffect DEF Queued
        <3> QED BY <2>1, <3>2, SurplusKept DEF WaitsFor
    <2> QED BY <2>3, <2>4
<1>8. ASSUME NEW r \in Requests, TimerDpc(r) PROVE Kept
    <2>0. req' = req BY <1>8 DEF TimerDpc
    <2>1. CASE UNCHANGED <<event_queue, refs>>
        BY <2>0, <2>1, SurplusKept DEF WaitsFor, Queued
    <2>2. CASE ~UNCHANGED <<event_queue, refs>>
        <3> DEFINE e == Notify[r]
        <3>1. PICK q \in Queued \cap Requests : Notify[q] = e /\ Queued' = Queued \ {q}
            BY <1>8, <2>2, TimerDpcEffect
        <3>2. e \in Events /\ refs' = [refs EXCEPT ![e] = @ - 1]
            BY <1>8, <2>2, TimerDpcEffect DEF dereference
        <3>3. req[q] # "referenced" BY <3>1 DEF QueueOnce, InDispatch
        <3> HIDE DEF e
        <3>4. Waiting(e)' = Waiting(e) \ {q} /\ q \in Waiting(e)
            BY <2>0, <3>1, <3>3 DEF Waiting
        <3>5. /\ Cardinality(Waiting(e)') = Cardinality(Waiting(e)) - 1
              /\ Cardinality(Waiting(e)) \in Nat
            BY <3>4, WaitingFinite, FS_RemoveElement
        <3>6. Surplus(e)' = Surplus(e)
            BY <1>b, <3>2, <3>5 DEF Surplus, TypeOK, e
        <3>7. ASSUME NEW d \in Events, d # e PROVE Surplus(d)' = Surplus(d)
            <4>1. Waiting(d)' = Waiting(d) BY <2>0, <3>1, <3>7 DEF Waiting
            <4> QED BY <3>2, <3>7, <4>1 DEF Surplus, TypeOK
        <3> QED BY <3>6, <3>7
    <2> QED BY <2>1, <2>2
<1>9. ASSUME NEW f \in Files, CleanupSweep(f) PROVE Kept
    <2> SUFFICES ASSUME NEW e \in Events PROVE Surplus(e)' = Surplus(e)
        OBVIOUS
    <2> DEFINE D == {r \in Dropped(f) : Notify[r] = e}
    <2>1. refs'[e] = refs[e] - Cardinality(D) /\ req' = req
        BY <1>9 DEF CleanupSweep, Dropped
    <2>2. Queued' = Queued \ Dropped(f) BY <1>9, SweepEffect
    <2>3. Dropped(f) \subseteq Queued /\ Queued \subseteq Requests
        BY DEF TypeOK, Queued, ToSet, Dropped
    <2>4. \A r \in D : req[r] # "referenced" BY <2>3 DEF QueueOnce, InDispatch
    <2>5. Waiting(e)' = Waiting(e) \ D /\ D \in SUBSET Waiting(e)
        BY <2>1, <2>2, <2>3, <2>4 DEF Waiting
    <2> HIDE DEF D
    <2>6. IsFiniteSet(D) /\ Cardinality(D) \in Nat
        BY <2>5, WaitingFinite, FS_Subset, FS_CardinalityType
    <2>7. Cardinality(Waiting(e) \ D) = Cardinality(Waiting(e)) - Cardinality(D)
        <3>1. Waiting(e) \cap D = D BY <2>5
        <3> QED BY <2>6, <3>1, WaitingFinite, FS_Difference
    <2>8. refs[e] \in Int /\ Cardinality(Waiting(e)) \in Nat BY <1>b, WaitingFinite
    <2> QED BY <2>1, <2>5, <2>6, <2>7, <2>8 DEF Surplus
<1>10. ASSUME NEW f \in Files,
              Create(f) \/ CleanupRundown(f) \/ CleanupWait(f) \/ CleanupComplete(f) \/ Close(f)
       PROVE  Kept
    <2>1. refs' = refs /\ req' = req /\ Queued' = Queued
        BY <1>10 DEF Create, CleanupRundown, CleanupWait, CleanupComplete, Close, eventVars,
           recordVars, Queued
    <2> QED BY <2>1, SurplusKept DEF WaitsFor
<1>11. ASSUME Unload \/ UNCHANGED vars PROVE Kept
    <2>1. refs' = refs /\ req' = req /\ Queued' = Queued
        BY <1>11 DEF Unload, vars, eventVars, recordVars, Queued
    <2> QED BY <2>1, SurplusKept DEF WaitsFor
<1>12. Kept \/ \E r \in Requests : DpcRemove(r)
    BY <1>1, <1>2, <1>3, <1>4, <1>5, <1>6, <1>8, <1>9, <1>10, <1>11
    DEF Next, Dispatch, DpcSteps, Cleanup
<1>13. Kept => \A e \in Events : Surplus(e)' >= Surplus(e) BY <1>b
<1> QED BY <1>b, <1>7, <1>12, <1>13

(* At first no event is referenced and no registration waits.                *)
LEMMA InitSurplus == Init => \A e \in Events : Surplus(e) = 0
<1> SUFFICES ASSUME Init, NEW e \in Events PROVE Surplus(e) = 0 OBVIOUS
<1>1. Waiting(e) = {} BY DEF Init, Waiting, Queued, ToSet
<1> QED BY <1>1, FS_EmptySet DEF Init, Surplus

(* EventOutlivesWaiters: no step gives back a reference a waiting            *)
(* registration needs, also after a DPC has removed another's record.        *)
THEOREM WaitersHoldTheirEvent == Spec => []EventOutlivesWaiters
<1> DEFINE Enough == \A e \in Events : Surplus(e) >= 0
<1>1. Init => Enough BY InitSurplus
<1>2. IInv /\ Enough /\ [Next]_vars => Enough'
    <2> SUFFICES ASSUME IInv, Enough, [Next]_vars, NEW e \in Events PROVE Surplus(e)' >= 0
        OBVIOUS
    <2>1. Surplus(e) \in Int /\ Surplus(e)' >= Surplus(e) BY NextSurplus
    <2>2. IInv' BY NextIInv
    <2>3. Surplus(e)' \in Int
        <3>1. refs'[e] \in Int BY <2>2 DEF IInv, TypeOK
        <3>2. IsFiniteSet(Waiting(e)')
            <4>1. Waiting(e)' \in SUBSET Requests BY DEF Waiting
            <4> QED BY <4>1, EventDriverAssumption, FS_Subset
        <3>3. Cardinality(Waiting(e)') \in Nat BY <3>2, FS_CardinalityType
        <3> QED BY <3>1, <3>3 DEF Surplus
    <2> QED BY <2>1, <2>3
<1>3. IInv /\ Enough => EventOutlivesWaiters
    <2> SUFFICES ASSUME IInv, Enough, NEW e \in Events PROVE refs[e] >= Cardinality(Waiting(e))
        BY DEF EventOutlivesWaiters
    <2>1. refs[e] \in Int /\ Cardinality(Waiting(e)) \in Nat
        BY WaitingFinite DEF IInv, TypeOK
    <2> QED BY <2>1 DEF Surplus
<1> HIDE DEF Enough
<1> QED BY <1>1, <1>2, <1>3, Inductive, PTL DEF Spec

(* EventRefsBalanced: no reference on an event is leaked or given back twice,*)
(* in every behaviour in which the DPCs find their records where they were.  *)
THEOREM RefsBalanced == Spec /\ []DpcIndexValid => []EventRefsBalanced
<1> DEFINE None == \A e \in Events : Surplus(e) = 0
<1>1. Init => None BY InitSurplus
<1>2. IInv /\ DpcIndexValid /\ None /\ [Next]_vars => None'
    <2> SUFFICES ASSUME IInv, DpcIndexValid, None, [Next]_vars PROVE None' OBVIOUS
    <2>1. \A e \in Events : Surplus(e)' = Surplus(e) BY NextSurplus
    <2> QED BY <2>1
<1>3. IInv /\ None => EventRefsBalanced
    <2> SUFFICES ASSUME IInv, None, NEW e \in Events PROVE refs[e] = Cardinality(Waiting(e))
        BY DEF EventRefsBalanced
    <2>1. refs[e] \in Int /\ Cardinality(Waiting(e)) \in Nat
        BY WaitingFinite DEF IInv, TypeOK
    <2> QED BY <2>1 DEF Surplus
<1> HIDE DEF None
<1> QED BY <1>1, <1>2, <1>3, Inductive, PTL DEF Spec
-----------------------------------------------------------------------------
(* What the counts of completions are made of.                               *)
LEMMA OthersType ==
    ASSUME IInv, NEW q \in Requests
    PROVE  /\ irp[q].completed \in Nat /\ DpcCompleted(q) \in {0, 1} /\ Others(q) \in Int
           /\ irp[q].completed = Others(q) + DpcCompleted(q)
           /\ index[q] = 0 => DpcCompleted(q) = 0
<1>1. irp[q].completed \in Nat BY CompleteIrp DEF IInv, TypeOK
<1>2. index[q] \in Nat BY DEF IInv, TypeOK
<1> QED BY <1>1, <1>2 DEF DpcCompleted, Others

(* A step that gives a request no further owner, and completes it at most by *)
(* the DPC that is counted apart.                                            *)
Same(q) ==
    /\ Others(q)' = Others(q) /\ req'[q] = req[q]
    /\ q \in Queued' => q \in Queued
    /\ rtn'[q] = "complete" => rtn[q] = "complete"
    /\ Collected(q)' = Collected(q)
    /\ ~IsIrp(q) => irp'[q].completed = irp[q].completed /\ index'[q] = index[q]

(* Such a step keeps what is known about the owner of the request.           *)
LEMMA SameKeeps ==
    ASSUME NEW q \in Requests, OwnedOrAnswered(q), Same(q) PROVE OwnedOrAnswered(q)'
<1>1. CASE IsIrp(q) BY <1>1 DEF OwnedOrAnswered, Same, Owned, InDispatch, IsIrp
<1>2. CASE ~IsIrp(q) BY <1>2 DEF OwnedOrAnswered, Same, Answered, IsIrp
<1> QED BY <1>1, <1>2

(* Every step of a dispatch keeps one owner for each IRP.                    *)
LEMMA DispatchOwned ==
    ASSUME IInv, OwnedInv, NEW r \in Requests, Enter(r) \/ Dispatch(r) PROVE OwnedInv'
<1>a. OwnedOrAnswered(r) /\ Others(r) \in Int /\ irp[r].completed \in Nat
    BY OthersType DEF OwnedInv
<1>b. irp[r] \in IrpRecord /\ irp \in [Requests -> IrpRecord]
    BY DEF IInv, TypeOK
<1>c. /\ UNCHANGED <<dpc, index, rtn>>
      /\ \A q \in Requests : Collected(q)' = Collected(q) /\ DpcCompleted(q)' = DpcCompleted(q)
    BY DEF Enter, Dispatch, Reject, Arm, IrpNotification, RefByHandle, EventNotification, Finish,
       Leave, ClearTag, dpcVars, fileVars, Collected, DpcCompleted
<1>d. \A q \in Requests \ {r} : irp'[q].completed = irp[q].completed /\ req'[q] = req[q]
    BY DEF Enter, Dispatch, Reject, Arm, IrpNotification, RefByHandle, EventNotification, Finish,
       Leave, ClearTag, irpVars, IInv, TypeOK
<1>e. ASSUME OwnedOrAnswered(r)', \A q \in Requests \ {r} : q \in Queued' <=> q \in Queued
      PROVE  OwnedInv'
    <2>1. \A q \in Requests \ {r} : Same(q) BY <1>c, <1>d, <1>e DEF Same, Others
    <2> QED BY <1>e, <2>1, SameKeeps DEF OwnedInv
<1>f. irp'[r].completed = irp[r].completed => Others(r)' = Others(r) BY <1>c DEF Others
<1>g. irp'[r].completed = irp[r].completed + 1 => Others(r)' = Others(r) + 1
    BY <1>a, <1>c, OthersType DEF Others
<1> USE DEF OwnedOrAnswered, Owned, Answered, InDispatch
<1>1. CASE Enter(r)
    <2>0. Queued' = Queued BY <1>1 DEF Enter, recordVars, Queued
    <2>1. CASE cln[FileOf[r]] = "open"
        <3>1. req[r] = "new" /\ req'[r] = "entered" /\ irp' = irp
            BY <1>1, <2>1 DEF Enter, IInv, TypeOK
        <3>2. OwnedOrAnswered(r)' BY <1>a, <1>c, <1>f, <2>0, <3>1 DEF IsIrp
        <3> QED BY <1>e, <2>0, <3>2
    <2>2. CASE cln[FileOf[r]] # "open"
        <3>1. req[r] = "new" /\ req'[r] = "done" /\ irp'[r].completed = irp[r].completed + 1
            BY <1>1, <1>b, <2>2, CompleteIrp DEF Enter, IInv, TypeOK
        <3>2. OwnedOrAnswered(r)' BY <1>a, <1>c, <1>g, <2>0, <3>1 DEF IsIrp
        <3> QED BY <1>e, <2>0, <3>2
    <2> QED BY <2>1, <2>2
<1>2. CASE Reject(r) \/ Arm(r) \/ RefByHandle(r)
    <2>0. Queued' = Queued BY <1>2 DEF Reject, Arm, RefByHandle, recordVars, Queued
    <2>1. /\ req[r] = "entered" /\ req'[r] \in {"finish", "armed", "referenced"}
          /\ irp'[r].completed = irp[r].completed
        BY <1>2, <1>b, SetIrp DEF Reject, Arm, RefByHandle, irpVars, IInv, TypeOK
    <2>2. OwnedOrAnswered(r)' BY <1>a, <1>c, <1>f, <2>0, <2>1 DEF IsIrp
    <2> QED BY <1>e, <2>0, <2>2
<1>3. CASE IrpNotification(r) /\ irp[r].cancel
    <2>0. Queued' = Queued BY <1>3 DEF IrpNotification, recordVars, Queued
    <2>1. /\ req[r] = "armed" /\ req'[r] = "finish"
          /\ irp'[r].completed = irp[r].completed
        BY <1>3, <1>b, ClearIrp DEF IrpNotification, IInv, TypeOK
    <2>2. OwnedOrAnswered(r)' BY <1>a, <1>c, <1>f, <2>0, <2>1 DEF IsIrp
    <2> QED BY <1>e, <2>0, <2>2
<1>4. CASE IrpNotification(r) /\ ~irp[r].cancel
    <2>0. Queued' = Queued \cup {r} BY <1>4, PushEffect DEF IrpNotification
    <2>1. req[r] = "armed" /\ req'[r] = "leave" /\ IsIrp(r) /\ irp' = irp
        BY <1>4 DEF IrpNotification, IInv, TypeOK, KindsAgree
    <2>2. OwnedOrAnswered(r)' BY <1>a, <1>c, <1>f, <2>0, <2>1 DEF IsIrp
    <2> QED BY <1>e, <2>0, <2>2
<1>5. CASE EventNotification(r)
    <2>0. Queued' = Queued \cup {r} BY <1>5, PushEffect DEF EventNotification
    <2>1. req[r] = "referenced" /\ req'[r] = "finish" /\ ~IsIrp(r) /\ irp' = irp
        BY <1>5 DEF EventNotification, irpVars, IInv, TypeOK, KindsAgree
    <2>2. OwnedOrAnswered(r)' BY <1>a, <1>c, <2>0, <2>1 DEF IsIrp
    <2> QED BY <1>e, <2>0, <2>2
<1>6. CASE Finish(r)
    <2>0. Queued' = Queued BY <1>6 DEF Finish, recordVars, Queued
    <2>1. req[r] = "finish" /\ req'[r] = "leave" /\ irp'[r].completed = irp[r].completed + 1
        BY <1>6, <1>b, CompleteIrp DEF Finish, IInv, TypeOK
    <2>2. OwnedOrAnswered(r)' BY <1>a, <1>c, <1>g, <2>0, <2>1 DEF IsIrp
    <2> QED BY <1>e, <2>0, <2>2
<1>7. CASE Leave(r) \/ ClearTag(r)
    <2>0. Queued' = Queued BY <1>7 DEF Leave, ClearTag, recordVars, Queued
    <2>1. req[r] \in {"leave", "untag"} /\ req'[r] \in {"untag", "done"} /\ irp' = irp
        BY <1>7 DEF Leave, ClearTag, irpVars, IInv, TypeOK
    <2>2. OwnedOrAnswered(r)' BY <1>a, <1>c, <1>f, <2>0, <2>1 DEF IsIrp
    <2> QED BY <1>e, <2>0, <2>2
<1> QED BY <1>1, <1>2, <1>3, <1>4, <1>5, <1>6, <1>7 DEF Dispatch

(* So do a cancellation and the cancel routine, which takes the IRP over     *)
(* from the queue or panics.                                                 *)
LEMMA CancelOwned ==
    ASSUME IInv, OwnedInv, NEW r \in Requests, Cancel(r) \/ CancelSteps(r) PROVE OwnedInv'
<1>a. OwnedOrAnswered(r) /\ Others(r) \in Int /\ irp[r].completed \in Nat
    BY OthersType DEF OwnedInv
<1>b. irp[r] \in IrpRecord /\ irp \in [Requests -> IrpRecord] BY DEF IInv, TypeOK
<1>c. /\ UNCHANGED <<dpc, index, req>>
      /\ \A q \in Requests : Collected(q)' = Collected(q) /\ DpcCompleted(q)' = DpcCompleted(q)
    BY DEF Cancel, CancelSteps, TakeContext, CancelRoutine, CancelComplete, dpcVars, fileVars,
       Collected, DpcCompleted
<1>d. Queued' = Queued \/ (CancelRoutine(r) /\ Queued' = Queued \ {r})
    BY CancelRoutineEffect DEF Cancel, CancelSteps, TakeContext, CancelComplete, recordVars, Queued
<1>e. \A q \in Requests \ {r} : irp'[q].completed = irp[q].completed /\ rtn'[q] = rtn[q]
    BY DEF Cancel, CancelSteps, TakeContext, CancelRoutine, CancelComplete, irpVars, IInv, TypeOK
<1>f. ASSUME OwnedOrAnswered(r)' PROVE OwnedInv'
    <2>1. \A q \in Requests \ {r} : Same(q) BY <1>c, <1>d, <1>e DEF Same, Others
    <2> QED BY <1>f, <2>1, SameKeeps DEF OwnedInv
<1>1. CASE Cancel(r) \/ TakeContext(r)
    <2>1. irp'[r].completed = irp[r].completed
        BY <1>1, <1>b, CancelIrp, DropIrp DEF Cancel, TakeContext
    <2>2. /\ Queued' = Queued
          /\ rtn'[r] = "complete" => rtn[r] = "complete"
        BY <1>1 DEF Cancel, TakeContext, recordVars, Queued, IInv, TypeOK
    <2>3. Same(r) BY <1>c, <2>1, <2>2 DEF Same, Others
    <2> QED BY <1>a, <1>f, <2>3, SameKeeps
<1>2. CASE CancelRoutine(r)
    <2>1. irp' = irp /\ IsIrp(r) BY <1>2 DEF CancelRoutine, irpVars, IInv, KindsAgree
    <2>2. Others(r)' = Others(r) BY <1>c, <2>1 DEF Others
    <2>3. CASE r \in Queued
        <3>1. Queued' = Queued \ {r} /\ rtn'[r] = "complete"
            BY <1>2, <2>3, CancelRoutineEffect DEF CancelRoutine, IInv, TypeOK
        <3>2. OwnedOrAnswered(r)'
            BY <1>a, <1>c, <2>1, <2>2, <2>3, <3>1 DEF OwnedOrAnswered, Owned, InDispatch, IsIrp
        <3> QED BY <1>f, <3>2
    <2>4. CASE r \notin Queued
        <3>1. Queued' = Queued /\ rtn'[r] = "panic"
            BY <1>2, <2>4 DEF CancelRoutine, recordVars, Queued, IInv, TypeOK
        <3>2. Same(r) BY <1>c, <2>1, <2>2, <3>1 DEF Same
        <3> QED BY <1>a, <1>f, <3>2, SameKeeps
    <2> QED BY <2>3, <2>4
<1>3. CASE CancelComplete(r)
    <2>1. DropBox(complete(irp[r])).completed = irp[r].completed + 1
        BY <1>b, CompleteIrp, DropIrp
    <2>2. /\ irp'[r].completed = irp[r].completed + 1 /\ rtn[r] = "complete" /\ rtn'[r] = "done"
          /\ Queued' = Queued /\ IsIrp(r)
        BY <1>3, <1>b, <2>1 DEF CancelComplete, recordVars, Queued, IInv, TypeOK, KindsAgree
    <2>3. Others(r)' = Others(r) + 1 BY <1>a, <1>c, <2>2, OthersType DEF Others
    <2>4. OwnedOrAnswered(r)'
        BY <1>a, <1>c, <2>2, <2>3 DEF OwnedOrAnswered, Owned, InDispatch, IsIrp
    <2> QED BY <1>f, <2>4
<1> QED BY <1>1, <1>2, <1>3 DEF CancelSteps

(* A DPC takes an IRP over from nobody: what it completes is counted apart,  *)
(* and the record it removes, its own or another, only leaves the queue.     *)
LEMMA DpcOwned ==
    ASSUME IInv, OwnedInv, NEW r \in Requests, Expire(r) \/ DpcSteps(r) PROVE OwnedInv'
<1>a. /\ irp \in [Requests -> IrpRecord] /\ index \in [Requests -> Nat]
      /\ dpc \in [Requests -> {"idle", "queued", "completing", "relock", "done", "panic"}]
    BY DEF IInv, TypeOK
<1>b. UNCHANGED <<req, rtn>> /\ \A q \in Requests : Collected(q)' = Collected(q)
    BY DEF Expire, DpcSteps, TimerDpc, DpcComplete, DpcRemove, fileVars, Collected
<1>c. ASSUME Queued' \subseteq Queued,
             \A q \in Requests \ {r} : UNCHANGED <<irp[q].completed, index[q], dpc[q]>>,
             Others(r)' = Others(r),
             ~IsIrp(r) => UNCHANGED <<irp[r].completed, index[r]>>
      PROVE  OwnedInv'
    <2>1. \A q \in Requests \ {r} : Same(q) BY <1>b, <1>c DEF Same, Others, DpcCompleted
    <2>2. Same(r) BY <1>b, <1>c DEF Same
    <2> QED BY <2>1, <2>2, SameKeeps DEF OwnedInv
<1>1. CASE Expire(r)
    <2>1. /\ timer[r] = "set" /\ dpc' = [dpc EXCEPT ![r] = "queued"]
          /\ irp' = irp /\ index' = index /\ Queued' = Queued
        BY <1>1 DEF Expire, irpVars, Queued
    <2>2. index[r] = 0 BY <2>1 DEF IInv, TimerOnce
    <2>3. Others(r)' = Others(r) BY <2>1, <2>2 DEF Others, DpcCompleted
    <2> QED BY <1>a, <1>c, <2>1, <2>3
<1>2. CASE TimerDpc(r)
    <2>1. index[r] = 0 BY <1>2 DEF TimerDpc, IInv, TimerOnce
    <2>2. CASE dpc' = [dpc EXCEPT ![r] = "completing"]
        <3>1. dpc'[r] = "completing" BY <1>a, <2>2
        <3>2. /\ IsIrp(r) /\ irp' = [irp EXCEPT ![r] = ClearCancelRtn(@)]
              /\ index' = [index EXCEPT ![r] = index'[r]] /\ Queued' = Queued
            BY <1>2, <1>a, <3>1, TimerDpcEffect DEF Queued
        <3>3. \A q \in Requests : irp'[q].completed = irp[q].completed
            BY <1>a, <3>2, ClearIrp
        <3>4. Others(r)' = Others(r) BY <2>1, <3>1, <3>3 DEF Others, DpcCompleted
        <3> QED BY <1>a, <1>c, <2>2, <3>2, <3>3, <3>4
    <2>3. CASE dpc' # [dpc EXCEPT ![r] = "completing"]
        <3>1. /\ dpc' = [dpc EXCEPT ![r] = "done"] /\ irp' = irp /\ index' = index
              /\ Queued' \subseteq Queued
            BY <1>2, <2>3, TimerDpcEffect DEF Queued
        <3>2. Others(r)' = Others(r) BY <2>1, <3>1 DEF Others, DpcCompleted
        <3> QED BY <1>a, <1>c, <3>1, <3>2
    <2> QED BY <2>2, <2>3
<1>3. CASE DpcComplete(r)
    <2>1. /\ dpc[r] = "completing" /\ dpc' = [dpc EXCEPT ![r] = "relock"]
          /\ irp' = [irp EXCEPT ![r] = complete(@)] /\ index' = index /\ Queued' = Queued
        BY <1>3 DEF DpcComplete, recordVars, Queued
    <2>2. index[r] > 0 /\ IsIrp(r) BY <2>1 DEF IInv, TimerOnce, KindsAgree, MidDpc
    <2>3. /\ irp'[r].completed = irp[r].completed + 1 /\ irp[r].completed \in Nat
          /\ \A q \in Requests \ {r} : irp'[q] = irp[q]
        BY <1>a, <2>1, CompleteIrp
    <2>4. Others(r)' = Others(r) BY <1>a, <2>1, <2>2, <2>3 DEF Others, DpcCompleted
    <2> QED BY <1>a, <1>c, <2>1, <2>2, <2>3, <2>4
<1>4. CASE DpcRemove(r)
    <2>1. /\ dpc[r] = "relock" /\ irp' = irp /\ index' = index
          /\ dpc' = [dpc EXCEPT ![r] = dpc'[r]] /\ dpc'[r] \in {"done", "panic"}
        BY <1>4, <1>a DEF DpcRemove, irpVars
    <2>2. Queued' \subseteq Queued BY <1>4, DpcRemoveEffect DEF Queued
    <2>3. Others(r)' = Others(r) BY <2>1 DEF Others, DpcCompleted
    <2> QED BY <1>a, <1>c, <2>1, <2>2, <2>3
<1> QED BY <1>1, <1>2, <1>3, <1>4 DEF DpcSteps

(* A cleanup takes over the IRPs it drops from the queue, and gives them up  *)
(* when it has completed them.                                               *)
LEMMA FileOwned ==
    ASSUME IInv, OwnedInv, NEW f \in Files,
           Create(f) \/ CleanupRundown(f) \/ Cleanup(f) \/ Close(f)
    PROVE  OwnedInv'
<1>a. \A q \in Requests : OwnedOrAnswered(q) BY DEF OwnedInv
<1>b. /\ cln \in [Files -> {"new", "open", "rundown", "sweep", "complete", "cleaned", "closed"}]
      /\ cleanup_list \in [Files -> SUBSET Requests]
    BY DEF IInv, TypeOK
<1>c. /\ UNCHANGED <<dpc, index, req, rtn>>
      /\ \A q \in Requests : DpcCompleted(q)' = DpcCompleted(q)
    BY DEF Create, CleanupRundown, Cleanup, CleanupWait, CleanupSweep, CleanupComplete, Close,
       dpcVars, DpcCompleted
<1>1. ASSUME NEW c \in {"open", "rundown", "sweep", "closed"},
             UNCHANGED <<irp, event_queue, cleanup_list>>,
             cln' = [cln EXCEPT ![f] = c], cln[f] # "complete"
      PROVE  OwnedInv'
    <2>1. \A q \in Requests : Collected(q)' = Collected(q) BY <1>b, <1>1 DEF Collected
    <2>2. \A q \in Requests : Same(q) BY <1>1, <1>c, <2>1 DEF Same, Others, Queued
    <2> QED BY <1>a, <2>2, SameKeeps DEF OwnedInv
<1>2. CASE Create(f) BY <1>1, <1>2 DEF Create, irpVars, recordVars
<1>3. CASE CleanupRundown(f) BY <1>1, <1>3 DEF CleanupRundown, irpVars, recordVars
<1>4. CASE CleanupWait(f) BY <1>1, <1>4 DEF CleanupWait, irpVars, recordVars
<1>5. CASE Close(f) BY <1>1, <1>5 DEF Close, irpVars, recordVars
<1>6. CASE CleanupSweep(f)
    <2>0. /\ cleanup_list' = [cleanup_list EXCEPT ![f] = {r \in Dropped(f) : IsIrp(r)}]
          /\ cln' = [cln EXCEPT ![f] = "complete"] /\ cln[f] = "sweep"
        BY <1>6 DEF CleanupSweep, Dropped
    <2>1. \A q \in Requests : irp'[q].completed = irp[q].completed /\ Others(q)' = Others(q)
        BY <1>6, <1>c, ClearIrp DEF CleanupSweep, IInv, TypeOK, Others
    <2>2. Queued' = Queued \ Dropped(f) /\ Dropped(f) \subseteq Queued
        BY <1>6, SweepEffect DEF Dropped
    <2>3. ASSUME NEW q \in Requests, ~(q \in Dropped(f) /\ IsIrp(q)) PROVE OwnedOrAnswered(q)'
        <3>1. Collected(q)' = Collected(q) BY <1>b, <2>0, <2>3 DEF Collected
        <3>2. Same(q) BY <1>c, <2>1, <2>2, <3>1 DEF Same
        <3> QED BY <1>a, <3>2, SameKeeps
    <2>4. ASSUME NEW q \in Requests, q \in Dropped(f), IsIrp(q) PROVE OwnedOrAnswered(q)'
        <3>1. Owned(q) /\ q \in Queued BY <1>a, <2>2, <2>4 DEF OwnedOrAnswered
        <3>2. Collected(q)' = {f}
            BY <1>b, <2>0, <2>4, <3>1 DEF Collected, Owned
        <3>3. /\ ~InDispatch(q) /\ req[q] # "finish" /\ rtn[q] # "complete"
              /\ Others(q)' = 0 /\ q \notin Queued'
            BY <2>1, <2>2, <2>4, <3>1 DEF Owned
        <3> QED BY <1>c, <2>4, <3>2, <3>3 DEF OwnedOrAnswered, Owned, InDispatch, IsIrp
    <2> QED BY <2>3, <2>4 DEF OwnedInv
<1>7. CASE CleanupComplete(f)
    <2>0. /\ cln' = [cln EXCEPT ![f] = "cleaned"] /\ cln[f] = "complete"
          /\ UNCHANGED <<event_queue, cleanup_list>>
        BY <1>7 DEF CleanupComplete, recordVars
    <2>1. \A q \in Requests :
              irp'[q].completed = irp[q].completed + IF q \in cleanup_list[f] THEN 1 ELSE 0
        BY <1>7, CompleteIrp DEF CleanupComplete, IInv, TypeOK
    <2>2. ASSUME NEW q \in Requests, q \notin cleanup_list[f] PROVE OwnedOrAnswered(q)'
        <3>1. Collected(q)' = Collected(q) BY <1>b, <2>0, <2>2 DEF Collected
        <3>2. irp'[q].completed = irp[q].completed BY <2>1, <2>2, OthersType
        <3>3. Same(q) BY <1>c, <2>0, <3>1, <3>2 DEF Same, Others, Queued
        <3> QED BY <1>a, <3>3, SameKeeps
    <2>3. ASSUME NEW q \in Requests, q \in cleanup_list[f] PROVE OwnedOrAnswered(q)'
        <3>1. f \in Collected(q) BY <2>0, <2>3 DEF Collected
        <3>2. IsIrp(q) /\ Owned(q) BY <1>a, <3>1 DEF OwnedOrAnswered, Answered
        <3>3. Others(q) = 0 /\ Collected(q) = {f} BY <3>1, <3>2 DEF Owned
        <3>4. Collected(q)' = {} BY <1>b, <2>0, <3>3 DEF Collected
        <3>5. ~InDispatch(q) /\ req[q] # "finish" /\ rtn[q] # "complete" /\ q \notin Queued
            BY <3>1, <3>2 DEF Owned
        <3>6. Others(q)' = 1
            <4>1. irp[q].completed = DpcCompleted(q) /\ DpcCompleted(q) \in {0, 1}
                BY <3>3, OthersType
            <4>2. irp'[q].completed = irp[q].completed + 1 BY <2>1, <2>3
            <4> QED BY <1>c, <4>1, <4>2 DEF Others
        <3> QED BY <1>c, <2>0, <3>2, <3>4, <3>5, <3>6
                DEF OwnedOrAnswered, Owned, InDispatch, IsIrp, Queued
    <2> QED BY <2>2, <2>3 DEF OwnedInv
<1> QED BY <1>2, <1>3, <1>4, <1>5, <1>6, <1>7 DEF Cleanup

(* Every step keeps one owner for each IRP.                                  *)
LEMMA NextOwned == IInv /\ OwnedInv /\ [Next]_vars => OwnedInv'
<1> SUFFICES ASSUME IInv, OwnedInv, [Next]_vars PROVE OwnedInv' OBVIOUS
<1>1. ASSUME Unload \/ UNCHANGED vars PROVE OwnedInv'
    <2>0. UNCHANGED <<irp, event_queue, dpc, index, req, rtn, cln, cleanup_list>>
        BY <1>1 DEF Unload, vars, irpVars, recordVars, dpcVars, fileVars
    <2>1. \A q \in Requests : Same(q) BY <2>0 DEF Same, Others, DpcCompleted, Queued, Collected
    <2> QED BY <2>1, SameKeeps DEF OwnedInv
<1> QED BY <1>1, DispatchOwned, CancelOwned, DpcOwned, FileOwned DEF Next

(* The ownership invariant holds of every behaviour.                         *)
LEMMA OwnershipHolds == Spec => []OwnedInv
<1>1. Init => OwnedInv
    <2> SUFFICES ASSUME Init PROVE OwnedInv OBVIOUS
    <2>1. Queued = {} /\ \A r \in Requests : Collected(r) = {}
        BY DEF Init, Queued, ToSet, Collected
    <2>2. \A r \in Requests : irp[r].completed = 0 /\ index[r] = 0 BY NewIrpFields DEF Init
    <2>3. \A r \in Requests : Others(r) = 0 BY <2>2 DEF Others, DpcCompleted
    <2>4. \A r \in Requests : Owned(r) /\ Answered(r)
        BY <2>1, <2>2, <2>3 DEF Init, Owned, Answered
    <2> QED BY <2>4 DEF OwnedInv, OwnedOrAnswered
<1>2. IInv /\ OwnedInv /\ [Next]_vars => OwnedInv' BY NextOwned
<1> QED BY <1>1, <1>2, Inductive, PTL DEF Spec

(* OneCompleterBesideTimer: of dispatch, cancel routine and cleanups one at  *)
(* most completes an IRP, whatever the timer DPCs do to the queue.           *)
THEOREM OneCompleter == Spec => []OneCompleterBesideTimer
<1>1. IInv /\ OwnedInv => OneCompleterBesideTimer
    <2> SUFFICES ASSUME IInv, OwnedInv, NEW r \in Requests PROVE Others(r) <= 1
        BY DEF OneCompleterBesideTimer, Others
    <2>1. OwnedOrAnswered(r) BY DEF OwnedInv
    <2>2. CASE IsIrp(r) BY <2>1, <2>2 DEF OwnedOrAnswered, Owned
    <2>3. CASE ~IsIrp(r)
        BY <2>1, <2>3, OthersType DEF OwnedOrAnswered, Answered
    <2> QED BY <2>2, <2>3
<1> QED BY <1>1, Inductive, OwnershipHolds, PTL

(* A record is dropped once, and its event is signalled by nobody else.      *)
LEMMA NextSignals ==
    ASSUME IInv, OneSignalPerRegistration, [Next]_vars PROVE OneSignalPerRegistration'
<1>a. /\ signals \in [Events -> Nat] /\ freed \subseteq Requests
      /\ signals' \in [Events -> Nat] /\ freed' \subseteq Requests
    BY NextIInv DEF IInv, TypeOK
<1>b. \A e \in Events : /\ IsFiniteSet(UsedUp(e)) /\ Cardinality(UsedUp(e)) \in Nat
                        /\ IsFiniteSet(UsedUp(e)') /\ Cardinality(UsedUp(e)') \in Nat
    <2> TAKE e \in Events
    <2>1. UsedUp(e) \in SUBSET Requests /\ UsedUp(e)' \in SUBSET Requests
        BY <1>a DEF UsedUp
    <2> QED BY <2>1, EventDriverAssumption, FS_Subset, FS_CardinalityType
<1>1. ASSUME NEW e \in Events, signals'[e] = signals[e], freed \subseteq freed'
      PROVE  signals'[e] <= Cardinality(UsedUp(e)')
    <2>1. UsedUp(e) \in SUBSET UsedUp(e)' BY <1>1 DEF UsedUp
    <2>2. Cardinality(UsedUp(e)) <= Cardinality(UsedUp(e)') BY <1>b, <2>1, FS_Subset
    <2>3. signals[e] <= Cardinality(UsedUp(e)) BY DEF OneSignalPerRegistration
    <2> HIDE DEF UsedUp
    <2> QED BY <1>1, <1>a, <1>b, <2>2, <2>3
<1>2. ASSUME NEW r \in Requests, TimerDpc(r), ~UNCHANGED <<freed, signals>>
      PROVE  OneSignalPerRegistration'
    <2> DEFINE e == Notify[r]
    <2>1. PICK q \in Queued \cap Requests : Notify[q] = e /\ freed' = freed \cup {q}
        BY <1>2, TimerDpcEffect
    <2>2. e \in Events /\ signals' = [signals EXCEPT ![e] = @ + 1]
        BY <1>2, TimerDpcEffect DEF set
    <2>3. q \notin freed BY <2>1 DEF IInv, QueueOnce
    <2> HIDE DEF e
    <2>4. UsedUp(e)' = UsedUp(e) \cup {q} /\ q \notin UsedUp(e) BY <2>1, <2>3 DEF UsedUp
    <2>5. Cardinality(UsedUp(e)') = Cardinality(UsedUp(e)) + 1
        BY <1>b, <2>2, <2>4, FS_AddElement
    <2>6. signals[e] <= Cardinality(UsedUp(e)) /\ signals'[e] = signals[e] + 1
        BY <1>a, <2>2 DEF OneSignalPerRegistration
    <2>7. signals'[e] <= Cardinality(UsedUp(e)') BY <1>a, <1>b, <2>2, <2>5, <2>6
    <2>8. ASSUME NEW d \in Events, d # e PROVE signals'[d] <= Cardinality(UsedUp(d)')
        BY <1>1, <1>a, <2>1, <2>2, <2>8
    <2> QED BY <2>7, <2>8 DEF OneSignalPerRegistration
<1>3. ASSUME signals' = signals, freed \subseteq freed' PROVE OneSignalPerRegistration'
    BY <1>1, <1>3 DEF OneSignalPerRegistration
<1>4. ASSUME NEW r \in Requests, Enter(r) \/ Dispatch(r) PROVE UNCHANGED <<signals, freed>>
    BY <1>4 DEF Enter, Dispatch, Reject, Arm, IrpNotification, RefByHandle, EventNotification,
       Finish, Leave, ClearTag, Push, recordVars, eventVars
<1>5. ASSUME NEW r \in Requests, Cancel(r) \/ CancelSteps(r)
      PROVE  signals' = signals /\ freed \subseteq freed'
    BY <1>5 DEF Cancel, CancelSteps, TakeContext, CancelRoutine, CancelComplete, recordVars,
       eventVars
<1>6. ASSUME NEW r \in Requests, Expire(r) \/ DpcComplete(r) \/ DpcRemove(r)
      PROVE  signals' = signals /\ freed \subseteq freed'
    BY <1>6 DEF Expire, DpcComplete, DpcRemove, recordVars, eventVars
<1>7. ASSUME NEW f \in Files, Create(f) \/ CleanupRundown(f) \/ Cleanup(f) \/ Close(f)
      PROVE  signals' = signals /\ freed \subseteq freed'
    BY <1>7 DEF Create, CleanupRundown, Cleanup, CleanupWait, CleanupSweep, CleanupComplete, Close,
       recordVars, eventVars
<1>8. ASSUME Unload \/ UNCHANGED vars PROVE UNCHANGED <<signals, freed>>
    BY <1>8 DEF Unload, vars, recordVars, eventVars
<1> QED BY <1>2, <1>3, <1>4, <1>5, <1>6, <1>7, <1>8 DEF Next, DpcSteps

(* OneSignalPerRegistration: an event is signalled at most once for each     *)
(* record of it that is gone.                                                *)
THEOREM SignalsOnce == Spec => []OneSignalPerRegistration
<1>1. Init => OneSignalPerRegistration
    <2> SUFFICES ASSUME Init, NEW e \in Events PROVE signals[e] <= Cardinality(UsedUp(e))
        BY DEF OneSignalPerRegistration
    <2>1. UsedUp(e) = {} BY DEF Init, UsedUp
    <2> QED BY <2>1, FS_EmptySet DEF Init
<1>2. IInv /\ OneSignalPerRegistration /\ [Next]_vars => OneSignalPerRegistration' BY NextSignals
<1> QED BY <1>1, <1>2, Inductive, PTL DEF Spec
-----------------------------------------------------------------------------
(* While no IRP registration times out, no DPC of one ever runs.             *)
LEMMA NoIrpDpcHolds == NoIrpExpires /\ Spec => []NoIrpDpc
<1> SUFFICES ASSUME NoIrpExpires PROVE Spec => []NoIrpDpc OBVIOUS
<1>1. Init => NoIrpDpc BY DEF Init, NoIrpDpc
<1>2. IInv /\ NoIrpDpc /\ [Next]_vars => NoIrpDpc'
    <2> SUFFICES ASSUME IInv, NoIrpDpc, [Next]_vars PROVE NoIrpDpc' OBVIOUS
    <2>1. ASSUME NEW r \in Requests, Expire(r) \/ DpcSteps(r) PROVE NoIrpDpc'
        <3>1. ~IsIrp(r)
            BY <2>1 DEF NoIrpExpires, NoIrpDpc, Expire, DpcSteps, TimerDpc, DpcComplete, DpcRemove
        <3>2. \A q \in Requests \ {r} : dpc'[q] = dpc[q]
            BY <2>1 DEF Expire, DpcSteps, TimerDpc, DpcComplete, DpcRemove, IInv, TypeOK
        <3> QED BY <3>1, <3>2 DEF NoIrpDpc, IsIrp
    <2>2. ASSUME NEW r \in Requests, Enter(r) \/ Dispatch(r) \/ Cancel(r) \/ CancelSteps(r)
          PROVE  dpc' = dpc
        BY <2>2 DEF Enter, Dispatch, Reject, Arm, IrpNotification, RefByHandle, EventNotification,
           Finish, Leave, ClearTag, Cancel, CancelSteps, TakeContext, CancelRoutine,
           CancelComplete, dpcVars
    <2>3. ASSUME NEW f \in Files, Create(f) \/ CleanupRundown(f) \/ Cleanup(f) \/ Close(f)
          PROVE  dpc' = dpc
        BY <2>3 DEF Create, CleanupRundown, Cleanup, CleanupWait, CleanupSweep, CleanupComplete,
           Close, dpcVars
    <2>4. ASSUME Unload \/ UNCHANGED vars PROVE dpc' = dpc BY <2>4 DEF Unload, vars, dpcVars
    <2>5. dpc' = dpc => NoIrpDpc' BY DEF NoIrpDpc, IsIrp
    <2> QED BY <2>1, <2>2, <2>3, <2>4, <2>5 DEF Next
<1> QED BY <1>1, <1>2, Inductive, PTL DEF Spec

(* So its DPC has completed none.                                            *)
LEMMA NoneByDpc ==
    ASSUME IInv, NoIrpDpc, OwnedInv, NEW r \in Requests
    PROVE  irp[r].completed = Others(r) /\ DpcCompleted(r) = 0
<1>1. index[r] = 0
    <2>1. CASE IsIrp(r) BY <2>1 DEF NoIrpDpc, IInv, TimerOnce
    <2>2. CASE ~IsIrp(r) BY <2>2 DEF OwnedInv, OwnedOrAnswered, Answered
    <2> QED BY <2>1, <2>2
<1> QED BY <1>1, OthersType

(* CompletedAtMostOnce: unless an IRP registration times out, every IRP is   *)
(* completed at most once, whoever gets to it first.                         *)
THEOREM CompletedOnce == NoIrpExpires /\ Spec => []CompletedAtMostOnce
<1>1. IInv /\ NoIrpDpc /\ OwnedInv /\ OneCompleterBesideTimer => CompletedAtMostOnce
    <2> SUFFICES ASSUME IInv, NoIrpDpc, OwnedInv, OneCompleterBesideTimer, NEW r \in Requests
                 PROVE  irp[r].completed <= 1
        BY DEF CompletedAtMostOnce
    <2> QED BY NoneByDpc DEF OneCompleterBesideTimer, Others
<1> QED BY <1>1, Inductive, NoIrpDpcHolds, OwnershipHolds, OneCompleter, PTL

(* EventRefsBalanced: unless an IRP registration times out, no reference on  *)
(* an event is leaked or given back twice.                                   *)
THEOREM RefsBalancedWithoutIrpExpiry == NoIrpExpires /\ Spec => []EventRefsBalanced
<1>1. IInv /\ NoIrpDpc => DpcIndexValid
    BY DEF IInv, KindsAgree, MidDpc, NoIrpDpc, DpcIndexValid
<1> QED BY <1>1, Inductive, NoIrpDpcHolds, RefsBalanced, PTL

(* A file with a record in the queue is not closed.                          *)
LEMMA NextHeld ==
    ASSUME IInv, NoIrpDpc, OwnedInv, FilesHeld, [Next]_vars PROVE FilesHeld'
<1>a. /\ cln \in [Files -> {"new", "open", "rundown", "sweep", "complete", "cleaned", "closed"}]
      /\ Queued \subseteq Requests /\ \A q \in Requests : FileOf[q] \in Files
    BY EventDriverAssumption DEF IInv, TypeOK, Queued, ToSet
<1>b. ASSUME Queued' \subseteq Queued, UNCHANGED <<cln, unloaded>> PROVE FilesHeld'
    BY <1>b DEF FilesHeld, IsIrp
<1>1. ASSUME NEW r \in Requests, Enter(r) \/ Dispatch(r) PROVE FilesHeld'
    <2>1. UNCHANGED <<cln, unloaded>>
        BY <1>1 DEF Enter, Dispatch, Reject, Arm, IrpNotification, RefByHandle, EventNotification,
           Finish, Leave, ClearTag, fileVars
    <2>2. ASSUME NEW q \in Queued' \ Queued PROVE cln[FileOf[q]] \in {"open", "rundown"}
        <3>1. q \in Requests BY NextIInv DEF IInv, TypeOK, Queued, ToSet
        <3>2. req[q] \in {"armed", "referenced"} BY <3>1, OnlyDispatchPushes
        <3> QED BY <1>a, <3>1, <3>2 DEF IInv, InsideCounted
    <2> QED BY <2>1, <2>2 DEF FilesHeld, IsIrp
<1>2. ASSUME NEW r \in Requests, Cancel(r) \/ CancelSteps(r) PROVE FilesHeld'
    <2>1. Queued' \subseteq Queued
        BY <1>2, CancelRoutineEffect
        DEF Cancel, CancelSteps, TakeContext, CancelComplete, recordVars, Queued
    <2>2. UNCHANGED <<cln, unloaded>>
        BY <1>2 DEF Cancel, CancelSteps, TakeContext, CancelRoutine, CancelComplete, fileVars
    <2> QED BY <1>b, <2>1, <2>2
<1>3. ASSUME NEW r \in Requests, Expire(r) \/ DpcSteps(r) PROVE FilesHeld'
    <2>1. UNCHANGED <<cln, unloaded>>
        BY <1>3 DEF Expire, DpcSteps, TimerDpc, DpcComplete, DpcRemove, fileVars
    <2>2. CASE TimerDpc(r) BY <1>b, <2>1, <2>2, TimerDpcEffect DEF Queued
    <2>3. CASE DpcRemove(r) BY <1>b, <2>1, <2>3, DpcRemoveEffect DEF Queued
    <2>4. CASE Expire(r) \/ DpcComplete(r)
        BY <1>b, <2>1, <2>4 DEF Expire, DpcComplete, recordVars, Queued
    <2> QED BY <1>3, <2>2, <2>3, <2>4 DEF DpcSteps
<1>4. ASSUME NEW f \in Files, CleanupSweep(f) PROVE FilesHeld'
    <2>0. cln' = [cln EXCEPT ![f] = "complete"] /\ cln[f] = "sweep" /\ UNCHANGED unloaded
        BY <1>4 DEF CleanupSweep
    <2>1. Queued' = Queued \ Dropped(f) BY <1>4, SweepEffect
    <2>2. ASSUME NEW q \in Queued', ~IsIrp(q) PROVE FileOf[q] # f
        BY <2>1, <2>2 DEF Dropped, Retained, Skipped
    <2> QED BY <1>a, <2>0, <2>1, <2>2 DEF FilesHeld, IsIrp
<1>5. ASSUME NEW f \in Files, Close(f) PROVE FilesHeld'
    <2>1. /\ cln' = [cln EXCEPT ![f] = "closed"] /\ cln[f] = "cleaned"
          /\ UNCHANGED <<event_queue, unloaded>>
          /\ \A r \in Requests : FileOf[r] = f => req[r] = "new" \/ irp[r].completed > 0
        BY <1>5 DEF Close, recordVars
    <2>2. ASSUME NEW q \in Queued PROVE FileOf[q] # f
        <3>1. q \in Requests /\ req[q] # "new" BY <1>a DEF IInv, QueueOnce, InDispatch
        <3>2. CASE IsIrp(q)
            <4>1. irp[q].completed = 0
                BY <3>1, <3>2, NoneByDpc DEF OwnedInv, OwnedOrAnswered, Owned
            <4> QED BY <2>1, <3>1, <4>1
        <3>3. CASE ~IsIrp(q) BY <2>1, <3>1, <3>3 DEF FilesHeld
        <3> QED BY <3>2, <3>3
    <2> QED BY <1>a, <2>1, <2>2 DEF FilesHeld, Queued, IsIrp
<1>6. ASSUME NEW f \in Files, Create(f) \/ CleanupRundown(f) \/ CleanupWait(f) \/ CleanupComplete(f)
      PROVE  FilesHeld'
    <2>1. UNCHANGED <<event_queue, unloaded>> BY <1>6 DEF Create, CleanupRundown, CleanupWait,
          CleanupComplete, recordVars
    <2>2. CASE Create(f) BY <1>a, <2>1, <2>2 DEF Create, FilesHeld, Queued, IsIrp
    <2>3. CASE CleanupRundown(f) BY <1>a, <2>1, <2>3 DEF CleanupRundown, FilesHeld, Queued, IsIrp
    <2>4. CASE CleanupWait(f) BY <1>a, <2>1, <2>4 DEF CleanupWait, FilesHeld, Queued, IsIrp
    <2>5. CASE CleanupComplete(f)
        BY <1>a, <2>1, <2>5 DEF CleanupComplete, FilesHeld, Queued, IsIrp
    <2> QED BY <1>6, <2>2, <2>3, <2>4, <2>5
<1>7. ASSUME Unload \/ UNCHANGED vars PROVE FilesHeld'
    <2>1. /\ UNCHANGED <<event_queue, cln>>
          /\ unloaded' => unloaded \/ \A f \in Files : cln[f] \in {"new", "closed"}
        BY <1>7 DEF Unload, vars, recordVars, fileVars
    <2> QED BY <2>1 DEF FilesHeld, Queued, IsIrp
<1> QED BY <1>1, <1>2, <1>3, <1>4, <1>5, <1>6, <1>7 DEF Next, Cleanup

(* UnloadQueueEmpty: driver_unload's assertion about the queue, unless an IRP*)
(* registration times out.                                                   *)
THEOREM QueueEmptyAtUnload == NoIrpExpires /\ Spec => []UnloadQueueEmpty
<1> SUFFICES ASSUME NoIrpExpires PROVE Spec => []UnloadQueueEmpty OBVIOUS
<1>1. Init => FilesHeld BY DEF Init, FilesHeld, Queued, ToSet
<1>2. IInv /\ NoIrpDpc /\ OwnedInv /\ FilesHeld /\ [Next]_vars => FilesHeld' BY NextHeld
<1>3. IInv /\ FilesHeld => UnloadQueueEmpty
    <2> SUFFICES ASSUME IInv, FilesHeld, unloaded PROVE event_queue = <<>>
        BY DEF UnloadQueueEmpty
    <2>1. event_queue \in Seq(Requests) BY DEF IInv, TypeOK
    <2>2. Queued = {}
        <3> SUFFICES ASSUME NEW q \in Queued PROVE FALSE OBVIOUS
        <3>1. q \in Requests BY <2>1 DEF Queued, ToSet
        <3> QED BY <3>1, EventDriverAssumption DEF FilesHeld
    <2> QED BY <2>1, <2>2 DEF Queued, ToSet
<1>4. Spec => []NoIrpDpc BY NoIrpDpcHolds
<1> QED BY <1>1, <1>2, <1>3, <1>4, Inductive, OwnershipHolds, PTL DEF Spec
==============================================================================
