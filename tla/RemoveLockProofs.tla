-------------------------- MODULE RemoveLockProofs --------------------------
(* For any finite set of requests: the kernel's count is exact, nobody is    *)
(* inside once release_and_wait came through, and the remove lock implements *)
(* run-down protection.                                                      *)
EXTENDS RemoveLock, FiniteSetTheorems, TLAPS

(* The users the count stands for are finitely many.                         *)
LEMMA CountedFinite == IsFiniteSet(Counted) /\ Cardinality(Counted) \in Nat
<1>1. IsFiniteSet(Users)
    BY RemoveLockAssumption, FS_AddElement DEF Users
<1>2. Counted \subseteq Users BY DEF Counted
<1>3. IsFiniteSet(Counted) BY <1>1, <1>2, FS_Subset
<1> QED BY <1>3, FS_CardinalityType

(* A count of zero, the initial one given up, means that nobody is inside.   *)
LEMMA ZeroMeansEmpty ==
    ASSUME Cardinality(Counted) = 0 PROVE \A u \in Users : pc[u] # "held"
<1>1. Counted = {} BY CountedFinite, FS_EmptySet
<1> QED BY <1>1 DEF Counted

(* A counted user that decrements: the count goes down with it, the initial  *)
(* one is untouched, and when the event is set it was the last.              *)
LEMMA DecrementCounts ==
    ASSUME IInv, NEW u \in Users, u \in Counted, Decrement,
           Counted' = Counted \ {u}, InitialCounted' = InitialCounted
    PROVE  /\ CountExact' /\ ioCount' \in Nat
           /\ event' \in BOOLEAN
           /\ event' /\ ~event => ~InitialCounted /\ Counted = {u}
<1>1. /\ Cardinality(Counted') = Cardinality(Counted) - 1
      /\ Cardinality(Counted') \in Nat /\ IsFiniteSet(Counted')
    BY CountedFinite, FS_RemoveElement, FS_CardinalityType
<1>2. CountExact' /\ ioCount' \in Nat /\ event' \in BOOLEAN
    BY <1>1, CountedFinite DEF IInv, CountExact, Decrement, TypeOK
<1>3. ASSUME event', ~event PROVE ~InitialCounted /\ Counted = {u}
    <2>1. ioCount = 1 BY <1>3 DEF Decrement
    <2>2. ~InitialCounted /\ Cardinality(Counted') = 0
        BY <1>1, <2>1, CountedFinite DEF IInv, CountExact
    <2>3. Counted' = {} BY <1>1, <2>2, FS_EmptySet
    <2> QED BY <2>2, <2>3
<1> QED BY <1>2, <1>3

(* A new lock counts its creator only.                                       *)
LEMMA InitIInv == Init => IInv
<1> SUFFICES ASSUME Init PROVE IInv OBVIOUS
<1>1. Counted = {} BY DEF Init, Counted
<1>2. \A u \in Users : pc[u] = "idle" BY DEF Init
<1>3. Remover \in Users /\ Workers \subseteq Users BY DEF Users
<1>4. TypeOK BY DEF Init, TypeOK
<1>5. CountExact
    BY <1>1, <1>2, <1>3, FS_EmptySet DEF Init, CountExact, InitialCounted
<1>6. NobodyInsideAfterWait /\ RemovedAgrees /\ OwnSteps /\ EventMeansEmpty
    BY <1>2, <1>3
    DEF Init, NobodyInsideAfterWait, RemovedAgrees, OwnSteps, EventMeansEmpty
<1> QED BY <1>4, <1>5, <1>6 DEF IInv

(* Every step of a request, of the remover and of close keeps the inductive  *)
(* invariant.                                                                *)
LEMMA NextIInv == IInv /\ [Next]_vars => IInv'
<1> SUFFICES ASSUME IInv, [Next]_vars PROVE IInv' OBVIOUS
<1> DEFINE Others == NobodyInsideAfterWait /\ RemovedAgrees /\ OwnSteps /\ EventMeansEmpty
<1> USE DEF IInv
<1>a. Remover \in Users /\ Workers \subseteq Users /\ Remover \notin Workers
    BY RemoveLockAssumption DEF Users
<1>1. ASSUME NEW u \in Users, StoreTag(u) PROVE IInv'
    <2>1. TypeOK' BY <1>1 DEF TypeOK, StoreTag, Goto
    <2>2. Counted' = Counted /\ InitialCounted' = InitialCounted
        BY <1>1, <1>a DEF StoreTag, Goto, Counted, InitialCounted, TypeOK
    <2>3. CountExact' BY <1>1, <2>2 DEF StoreTag, CountExact
    <2>4. Others'
        BY <1>1, <1>a, <2>2 DEF StoreTag, Goto, TypeOK, NobodyInsideAfterWait,
           RemovedAgrees, OwnSteps, EventMeansEmpty
    <2> QED BY <2>1, <2>3, <2>4
<1>2. ASSUME NEW u \in Users, Increment(u) PROVE IInv'
    <2>1. TypeOK' BY <1>2 DEF TypeOK, Increment, Goto
    <2>2. Counted' = Counted \cup {u} /\ u \notin Counted /\ InitialCounted' = InitialCounted
        BY <1>2, <1>a DEF Increment, Goto, Counted, InitialCounted, TypeOK
    <2>3. Cardinality(Counted') = Cardinality(Counted) + 1
        BY <2>2, CountedFinite, FS_AddElement
    <2>4. CountExact' BY <1>2, <2>2, <2>3, CountedFinite DEF Increment, CountExact
    <2>5. Others'
        BY <1>2, <1>a, <2>2 DEF Increment, Goto, TypeOK, NobodyInsideAfterWait,
           RemovedAgrees, OwnSteps, EventMeansEmpty
    <2> QED BY <2>1, <2>4, <2>5
<1>3. ASSUME NEW u \in Users, Check(u), ~removed PROVE IInv'
    <2>1. TypeOK' BY <1>3 DEF TypeOK, Check, Goto
    <2>2. Counted' = Counted /\ InitialCounted' = InitialCounted
        BY <1>3, <1>a DEF Check, Goto, Counted, InitialCounted, TypeOK
    <2>3. CountExact' BY <1>3, <2>2 DEF Check, CountExact
    <2>4. Others'
        BY <1>3, <1>a, <2>2 DEF Check, Goto, TypeOK, NobodyInsideAfterWait,
           RemovedAgrees, OwnSteps, EventMeansEmpty, InitialCounted
    <2> QED BY <2>1, <2>3, <2>4
<1>4. ASSUME NEW u \in Users, Check(u), removed PROVE IInv'
    <2>0. u # Remover /\ u \in Counted /\ Decrement
        BY <1>4, <1>a DEF Check, RemovedAgrees, Counted
    <2>1. Counted' = Counted \ {u} /\ InitialCounted' = InitialCounted
        BY <1>4, <1>a, <2>0 DEF Check, Goto, Counted, InitialCounted, TypeOK
    <2>2. CountExact' /\ TypeOK'
        BY <1>4, <2>0, <2>1, DecrementCounts DEF Check, Goto, TypeOK
    <2>3. event' /\ ~event => ~InitialCounted /\ Counted = {u} BY <2>0, <2>1, DecrementCounts
    <2>4. event' => ~InitialCounted /\ \A w \in Workers : pc[w] # "held"
        BY <1>4, <1>a, <2>3 DEF EventMeansEmpty, Counted, Check
    <2>5. Others'
        BY <1>4, <1>a, <2>0, <2>1, <2>4 DEF Check, Goto, TypeOK, NobodyInsideAfterWait,
           RemovedAgrees, OwnSteps, EventMeansEmpty
    <2> QED BY <2>2, <2>5
<1>5. ASSUME NEW w \in Workers, KernelRelease(w) PROVE IInv'
    <2>0. w # Remover /\ w \in Counted /\ Decrement
        BY <1>5, <1>a DEF KernelRelease, Counted
    <2>1. Counted' = Counted \ {w} /\ InitialCounted' = InitialCounted
        BY <1>5, <1>a, <2>0 DEF KernelRelease, Goto, Counted, InitialCounted, TypeOK
    <2>2. CountExact' /\ TypeOK'
        BY <1>5, <1>a, <2>0, <2>1, DecrementCounts DEF KernelRelease, Goto, TypeOK
    <2>3. event' /\ ~event => ~InitialCounted /\ Counted = {w}
        BY <1>a, <2>0, <2>1, DecrementCounts
    <2>4. event' => ~InitialCounted /\ \A x \in Workers \ {w} : pc[x] # "held"
        BY <1>5, <1>a, <2>3 DEF EventMeansEmpty, Counted, KernelRelease
    <2>5. Others'
        BY <1>5, <1>a, <2>0, <2>1, <2>4 DEF KernelRelease, Goto, TypeOK,
           NobodyInsideAfterWait, RemovedAgrees, OwnSteps, EventMeansEmpty
    <2> QED BY <2>2, <2>5
<1>6. ASSUME NEW w \in Workers, ClearTag(w) PROVE IInv'
    <2>1. TypeOK' BY <1>6, <1>a DEF TypeOK, ClearTag, Goto
    <2>2. Counted' = Counted /\ InitialCounted' = InitialCounted
        BY <1>6, <1>a DEF ClearTag, Goto, Counted, InitialCounted, TypeOK
    <2>3. CountExact' BY <1>6, <2>2 DEF ClearTag, CountExact
    <2>4. Others'
        BY <1>6, <1>a, <2>2 DEF ClearTag, Goto, TypeOK, NobodyInsideAfterWait,
           RemovedAgrees, OwnSteps, EventMeansEmpty
    <2> QED BY <2>1, <2>3, <2>4
<1>7. ASSUME SetRemoved PROVE IInv'
    <2>1. TypeOK' BY <1>7, <1>a DEF TypeOK, SetRemoved, Goto
    <2>2. Counted' = Counted /\ InitialCounted' = InitialCounted
        BY <1>7, <1>a DEF SetRemoved, Goto, Counted, InitialCounted, TypeOK
    <2>3. CountExact' BY <1>7, <2>2 DEF SetRemoved, CountExact
    <2>4. Others'
        BY <1>7, <1>a, <2>2 DEF SetRemoved, Goto, TypeOK, NobodyInsideAfterWait,
           RemovedAgrees, OwnSteps, EventMeansEmpty
    <2> QED BY <2>1, <2>3, <2>4
<1>8. ASSUME DropOwn PROVE IInv'
    <2>1. /\ Counted' = Counted \ {Remover} /\ Remover \in Counted
          /\ InitialCounted' = InitialCounted
        BY <1>8, <1>a DEF DropOwn, Goto, Counted, InitialCounted, TypeOK
    <2>2. Cardinality(Counted') = Cardinality(Counted) - 1 /\ Cardinality(Counted') \in Nat
        BY <2>1, CountedFinite, FS_RemoveElement, FS_CardinalityType
    <2>3. CountExact' /\ ioCount' \in Nat
        BY <1>8, <2>1, <2>2, CountedFinite DEF DropOwn, CountExact
    <2>4. TypeOK' BY <1>8, <1>a, <2>3 DEF TypeOK, DropOwn, Goto
    <2>5. Others'
        BY <1>8, <1>a, <2>1 DEF DropOwn, Goto, TypeOK, NobodyInsideAfterWait,
           RemovedAgrees, OwnSteps, EventMeansEmpty
    <2> QED BY <2>3, <2>4, <2>5
<1>9. ASSUME DropInitial PROVE IInv'
    <2>1. Counted' = Counted /\ InitialCounted /\ ~InitialCounted'
        BY <1>9, <1>a DEF DropInitial, Goto, Counted, InitialCounted, TypeOK
    <2>2. ioCount' = Cardinality(Counted) /\ ioCount' \in Nat
        BY <1>9, <2>1, CountedFinite DEF DropInitial, CountExact
    <2>3. CountExact' BY <2>1, <2>2, CountedFinite DEF CountExact
    <2>4. TypeOK' BY <1>9, <1>a, <2>2 DEF TypeOK, DropInitial, Goto
    <2>5. pc'[Remover] = "through" => \A w \in Workers : pc[w] # "held"
        BY <1>9, <1>a, <2>2, ZeroMeansEmpty DEF DropInitial, Goto, TypeOK
    <2>6. ~event BY <1>9 DEF DropInitial, EventMeansEmpty, InitialCounted
    <2>7. Others'
        BY <1>9, <1>a, <2>5, <2>6 DEF DropInitial, Goto, TypeOK, NobodyInsideAfterWait,
           RemovedAgrees, OwnSteps, EventMeansEmpty
    <2> QED BY <2>3, <2>4, <2>7
<1>10. ASSUME Wake PROVE IInv'
    <2>1. TypeOK' BY <1>10, <1>a DEF TypeOK, Wake, Goto
    <2>2. Counted' = Counted /\ InitialCounted' = InitialCounted
        BY <1>10, <1>a DEF Wake, Goto, Counted, InitialCounted, TypeOK
    <2>3. CountExact' BY <1>10, <2>2 DEF Wake, CountExact
    <2>4. Others'
        BY <1>10, <1>a, <2>2 DEF Wake, Goto, TypeOK, NobodyInsideAfterWait,
           RemovedAgrees, OwnSteps, EventMeansEmpty
    <2> QED BY <2>1, <2>3, <2>4
<1>11. ASSUME ClearTagAfterWait PROVE IInv'
    <2>1. TypeOK' BY <1>11, <1>a DEF TypeOK, ClearTagAfterWait, Goto
    <2>2. Counted' = Counted /\ InitialCounted' = InitialCounted
        BY <1>11, <1>a DEF ClearTagAfterWait, Goto, Counted, InitialCounted, TypeOK
    <2>3. CountExact' BY <1>11, <2>2 DEF ClearTagAfterWait, CountExact
    <2>4. Others'
        BY <1>11, <1>a, <2>2 DEF ClearTagAfterWait, Goto, TypeOK, NobodyInsideAfterWait,
           RemovedAgrees, OwnSteps, EventMeansEmpty
    <2> QED BY <2>1, <2>3, <2>4
<1>12. CASE Close \/ UNCHANGED vars
    <2>1. UNCHANGED <<ioCount, removed, event, pc>> BY <1>12 DEF Close, vars
    <2>2. TypeOK' BY <1>12, <2>1 DEF Close, vars, TypeOK
    <2>3. Counted' = Counted /\ InitialCounted' = InitialCounted
        BY <2>1 DEF Counted, InitialCounted
    <2>4. CountExact' BY <2>1, <2>3 DEF CountExact
    <2>5. Others'
        BY <2>1, <2>3 DEF NobodyInsideAfterWait, RemovedAgrees, OwnSteps, EventMeansEmpty
    <2> QED BY <2>2, <2>4, <2>5
<1> QED BY <1>1, <1>2, <1>3, <1>4, <1>5, <1>6, <1>7, <1>8, <1>9, <1>10, <1>11, <1>12
        DEF Next, Acquire, ReleaseStep, ReleaseAndWait

(* The inductive invariant holds in every reachable state.                   *)
LEMMA Inductive == Spec => []IInv
BY InitIInv, NextIInv, PTL DEF Spec

(* The kernel's count never goes below zero, and every variable keeps its    *)
(* type.                                                                     *)
THEOREM TypeCorrect == Spec => []TypeOK
<1>1. IInv => TypeOK BY DEF IInv
<1> QED BY <1>1, Inductive, PTL

(* The count is the number of users inside or on their way, plus one until   *)
(* release_and_wait gives the initial count up, under every interleaving.    *)
THEOREM CountIsExact == Spec => []CountExact
<1>1. IInv => CountExact BY DEF IInv
<1> QED BY <1>1, Inductive, PTL

(* When release_and_wait has come through, no request is inside the lock.    *)
THEOREM WaitIsSafe == Spec => []NobodyInsideAfterWait
<1>1. IInv => NobodyInsideAfterWait BY DEF IInv
<1> QED BY <1>1, Inductive, PTL

(* A new lock maps to open run-down protection with nobody inside.           *)
LEMMA InitRefines == Init => RD!Init
BY DEF Init, RD!Init, Users

(* Every step is a step of run-down protection or leaves it unchanged.       *)
LEMMA NextRefines ==
    IInv /\ IInv' /\ [Next]_vars => [RD!Next]_(RD!rundownVars)
<1> SUFFICES ASSUME IInv, IInv', [Next]_vars PROVE [RD!Next]_(RD!rundownVars) OBVIOUS
<1> USE DEF IInv
<1> DEFINE Ins == {w \in Workers : pc[w] = "held"}
           Ph  == IF ~removed THEN "open"
                  ELSE IF pc[Remover] \in {"through", "done"} THEN "closed" ELSE "closing"
<1>a. Remover \in Users /\ Workers \subseteq Users /\ Remover \notin Workers
    BY RemoveLockAssumption DEF Users
<1>b. (Ins' = Ins /\ Ph' = Ph) => UNCHANGED RD!rundownVars BY DEF RD!rundownVars
<1>1. ASSUME NEW u \in Users, StoreTag(u) \/ Increment(u) PROVE Ins' = Ins /\ Ph' = Ph
    BY <1>1, <1>a DEF StoreTag, Increment, Goto, TypeOK, RemovedAgrees
<1>2. ASSUME NEW u \in Users, Check(u), removed PROVE Ins' = Ins /\ Ph' = Ph
    BY <1>2, <1>a DEF Check, Goto, TypeOK, RemovedAgrees
<1>3. ASSUME Check(Remover), ~removed PROVE Ins' = Ins /\ Ph' = Ph
    BY <1>3, <1>a DEF Check, Goto, TypeOK
<1>4. ASSUME NEW w \in Workers, Check(w), ~removed PROVE RD!Next
    <2>1. w \notin Ins /\ Ins' = Ins \cup {w} /\ Ph = "open" /\ Ph' = "open"
        BY <1>4, <1>a DEF Check, Goto, TypeOK
    <2>2. RD!Enter(w) BY <2>1 DEF RD!Enter
    <2> QED BY <2>2 DEF RD!Next
<1>5. ASSUME NEW w \in Workers, KernelRelease(w) PROVE RD!Next
    <2>1. w \in Ins /\ Ins' = Ins \ {w} /\ Ph' = Ph
        BY <1>5, <1>a DEF KernelRelease, Goto, TypeOK
    <2>2. RD!Leave(w) BY <2>1 DEF RD!Leave
    <2> QED BY <2>2 DEF RD!Next
<1>6. ASSUME NEW w \in Workers, ClearTag(w) PROVE Ins' = Ins /\ Ph' = Ph
    BY <1>6, <1>a DEF ClearTag, Goto, TypeOK
<1>7. ASSUME SetRemoved PROVE RD!Next
    <2>1. Ins' = Ins /\ Ph = "open" /\ Ph' = "closing"
        BY <1>7, <1>a DEF SetRemoved, Goto, TypeOK, RemovedAgrees
    <2>2. RD!Close BY <2>1 DEF RD!Close
    <2> QED BY <2>2 DEF RD!Next
<1>8. ASSUME DropOwn \/ ClearTagAfterWait PROVE Ins' = Ins /\ Ph' = Ph
    BY <1>8, <1>a DEF DropOwn, ClearTagAfterWait, Goto, TypeOK
<1>9. ASSUME DropInitial \/ Wake, pc'[Remover] = "through" PROVE RD!Next
    <2>1. Ins' = Ins /\ Ph = "closing" /\ Ph' = "closed"
        BY <1>9, <1>a DEF DropInitial, Wake, Goto, TypeOK, RemovedAgrees
    <2>2. Ins' = {} BY <1>9 DEF NobodyInsideAfterWait
    <2>3. RD!Drained BY <2>1, <2>2 DEF RD!Drained
    <2> QED BY <2>3 DEF RD!Next
<1>10. ASSUME DropInitial, pc'[Remover] # "through" PROVE Ins' = Ins /\ Ph' = Ph
    BY <1>10, <1>a DEF DropInitial, Goto, TypeOK
<1>11. ASSUME Wake PROVE pc'[Remover] = "through" BY <1>11, <1>a DEF Wake, Goto, TypeOK
<1>12. CASE Close \/ UNCHANGED vars
    <2>1. Ins' = Ins /\ Ph' = Ph BY <1>12 DEF Close, vars
    <2> QED BY <2>1, <1>b
<1> QED BY <1>1, <1>2, <1>3, <1>4, <1>5, <1>6, <1>7, <1>8, <1>9, <1>10, <1>11, <1>12, <1>b
        DEF Next, Acquire, ReleaseStep, ReleaseAndWait, Users

(* The remove lock implements run-down protection: nobody enters once it is  *)
(* marked removed, and release_and_wait comes through only when the last     *)
(* request has left.                                                         *)
THEOREM RefinesRundown == Spec => ImplementsRundown
BY Inductive, InitRefines, NextRefines, PTL DEF Spec, ImplementsRundown, RD!Spec
=============================================================================
