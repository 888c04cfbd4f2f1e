------------------------ MODULE NotifyCallbackProofs ------------------------
(* For any finite set of wrapper objects and any number of kernel slots:     *)
(* every routine a wrapper holds is backed by the kernel, unregister never   *)
(* fails, and a driver that uses the objects properly has objects and kernel *)
(* in agreement.                                                             *)
EXTENDS NotifyCallback, FiniteSetTheorems, TLAPS

(* The objects that hold a routine are finitely many.                        *)
LEMMA HoldersFinite ==
    ASSUME NEW r PROVE IsFiniteSet(Holders(r)) /\ Cardinality(Holders(r)) \in Nat
<1>1. Holders(r) \subseteq Objects BY DEF Holders
<1>2. IsFiniteSet(Holders(r)) BY <1>1, NotifyAssumption, FS_Subset
<1> QED BY <1>2, FS_CardinalityType

(* Writing the field of one object moves it from the holders of what it held *)
(* to those of what it is given, and leaves every other routine's alone.     *)
LEMMA SetField ==
    ASSUME TypeOK, NEW o \in Objects, NEW v \in Routines \cup {None},
           callback' = [callback EXCEPT ![o] = v], NEW r \in Routines
    PROVE  Cardinality(Holders(r)') =
             IF r = v /\ r # callback[o] THEN Cardinality(Holders(r)) + 1
             ELSE IF r # v /\ r = callback[o] THEN Cardinality(Holders(r)) - 1
             ELSE Cardinality(Holders(r))
<1>1. CASE r = v /\ r # callback[o]
    <2>1. Holders(r)' = Holders(r) \cup {o} /\ o \notin Holders(r)
        BY <1>1 DEF TypeOK, Holders
    <2>2. Cardinality(Holders(r) \cup {o}) = Cardinality(Holders(r)) + 1
        BY <2>1, HoldersFinite, FS_AddElement
    <2> QED BY <1>1, <2>1, <2>2
<1>2. CASE r # v /\ r = callback[o]
    <2>1. Holders(r)' = Holders(r) \ {o} /\ o \in Holders(r)
        BY <1>2 DEF TypeOK, Holders
    <2>2. Cardinality(Holders(r) \ {o}) = Cardinality(Holders(r)) - 1
        <3> DEFINE H == Holders(r)
        <3>1. IsFiniteSet(H) /\ o \in H BY <2>1, HoldersFinite
        <3> HIDE DEF H
        <3>2. Cardinality(H \ {o}) = Cardinality(H) - 1 BY <3>1, FS_RemoveElement
        <3> QED BY <3>2 DEF H
    <2> QED BY <1>2, <2>1, <2>2
<1>3. CASE (r = v /\ r = callback[o]) \/ (r # v /\ r # callback[o])
    <2>1. Holders(r)' = Holders(r) BY <1>3 DEF TypeOK, Holders
    <2> QED BY <1>3, <2>1
<1> QED BY <1>1, <1>2, <1>3

(* A routine that some object holds has at least one holder.                 *)
LEMMA HeldCounts ==
    ASSUME NEW o \in Objects, NEW r \in Routines, callback[o] = r
    PROVE  Cardinality(Holders(r)) >= 1
<1>1. o \in Holders(r) BY DEF Holders
<1>2. Cardinality(Holders(r)) # 0 BY <1>1, HoldersFinite, FS_EmptySet
<1> QED BY <1>2, HoldersFinite

(* The kernel has what a notify object unregisters, which takes exactly that *)
(* registration away and leaves the object without a routine.                *)
LEMMA UnregisterTakesOwn ==
    ASSUME IInv, kind = "notify", NEW o \in Objects, UnregisterBody(o)
    PROVE  /\ callback' = [callback EXCEPT ![o] = None] /\ last' \in {"NotRegistered", "Ok"}
           /\ kernel' \in [Routines -> Nat]
           /\ \A r \in Routines : kernel'[r] = IF r = callback[o] THEN kernel[r] - 1 ELSE kernel[r]
<1> USE DEF IInv
<1>1. CASE callback[o] = None
    <2>1. callback' = callback /\ kernel' = kernel /\ last' = "NotRegistered"
        BY <1>1 DEF UnregisterBody
    <2>2. callback' = [callback EXCEPT ![o] = None] BY <1>1, <2>1 DEF TypeOK
    <2>3. \A r \in Routines : r # callback[o] BY <1>1, NotifyAssumption
    <2> QED BY <2>1, <2>2, <2>3 DEF TypeOK
<1>2. CASE callback[o] # None
    <2>1. callback[o] \in Routines BY <1>2 DEF TypeOK
    <2>2. kernel[callback[o]] >= 1 /\ kernel[callback[o]] \in Nat
        <3>1. Cardinality(Holders(callback[o])) >= 1 BY <2>1, HeldCounts
        <3>2. Cardinality(Holders(callback[o])) <= kernel[callback[o]]
            BY <2>1 DEF EveryHolderBacked
        <3>3. Cardinality(Holders(callback[o])) \in Nat BY HoldersFinite
        <3>4. kernel[callback[o]] \in Nat BY <2>1 DEF TypeOK
        <3> QED BY <3>1, <3>2, <3>3, <3>4
    <2>3. /\ kernel' = [kernel EXCEPT ![callback[o]] = @ - 1] /\ last' = "Ok"
          /\ callback' = [callback EXCEPT ![o] = None]
        BY <1>2, <2>2 DEF UnregisterBody
    <2>4. kernel \in [Routines -> Nat] BY DEF TypeOK
    <2>5. \A r \in Routines : kernel'[r] = IF r = callback[o] THEN kernel[r] - 1 ELSE kernel[r]
        BY <2>1, <2>3, <2>4
    <2>6. kernel' \in [Routines -> Nat] BY <2>1, <2>2, <2>3, <2>4
    <2> QED BY <2>3, <2>5, <2>6
<1> QED BY <1>1, <1>2

(* The kernel registers an object and the object notes the handle: what the  *)
(* kernel has of the others is untouched, and when the object had nothing    *)
(* registered every registration is known to its holder.                     *)
LEMMA AcceptHolds ==
    ASSUME TypeOK, NEW o \in Objects, Accept(o)
    PROVE  /\ handle' \in [Objects -> Handles \cup {None}]
           /\ holder' \in [Handles -> Objects \cup {None}]
           /\ misused' \subseteq Objects /\ misused \subseteq misused' /\ last' = "Ok"
           /\ \A p \in Objects : Held(p)' <=> (p = o \/ Held(p))
           /\ misused' = {} /\ HoldersKnow => HoldersKnow'
<1>1. PICK h \in Handles : /\ holder[h] = None /\ holder' = [holder EXCEPT ![h] = o]
                           /\ handle' = [handle EXCEPT ![o] = h]
    BY DEF Accept, StoreHandle
<1>2. None \notin Objects BY NotifyAssumption
<1>3. /\ handle' \in [Objects -> Handles \cup {None}]
      /\ holder' \in [Handles -> Objects \cup {None}]
      /\ misused' \subseteq Objects /\ misused \subseteq misused' /\ last' = "Ok"
    BY <1>1 DEF TypeOK, Accept
<1>4. \A p \in Objects : Held(p)' <=> (p = o \/ Held(p))
    BY <1>1, <1>2 DEF TypeOK, Held
<1>5. ASSUME misused' = {}, HoldersKnow PROVE HoldersKnow'
    <2>1. ~Held(o) BY <1>5 DEF Accept
    <2>2. \A g \in Handles : holder[g] # o
        BY <1>2, <1>5, <2>1 DEF HoldersKnow, Held
    <2> QED BY <1>1, <1>2, <1>5, <2>2 DEF HoldersKnow, TypeOK
<1> QED BY <1>3, <1>4, <1>5

(* ExUnregisterCallback on the handle of an object that is registered takes  *)
(* that registration away and no other; on any other it is a misuse.         *)
LEMMA ExUnregisterReleases ==
    ASSUME TypeOK, NEW o \in Objects, ExUnregisterBody(o)
    PROVE  /\ callback' = [callback EXCEPT ![o] = None]
           /\ holder' \in [Handles -> Objects \cup {None}]
           /\ misused' \subseteq Objects /\ misused \subseteq misused'
           /\ faults' \subseteq {"null handle", "stale handle", "dead context"}
           /\ UNCHANGED <<handle, kernel>>
           /\ misused' = {} => /\ faults' = faults
                               /\ \A p \in Objects : Held(p)' <=> (p # o /\ Held(p))
                               /\ HoldersKnow => HoldersKnow'
<1>1. /\ callback' = [callback EXCEPT ![o] = None]
      /\ UNCHANGED <<handle, kernel>> /\ misused' \subseteq Objects /\ misused \subseteq misused'
    BY DEF ExUnregisterBody, TypeOK
<1>2. /\ holder' \in [Handles -> Objects \cup {None}]
      /\ faults' \subseteq {"null handle", "stale handle", "dead context"}
    <2>1. CASE handle[o] = None BY <2>1 DEF ExUnregisterBody, TypeOK
    <2>2. CASE handle[o] # None
        <3>1. handle[o] \in Handles BY <2>2 DEF TypeOK
        <3> QED BY <2>2, <3>1 DEF ExUnregisterBody, TypeOK
    <2> QED BY <2>1, <2>2
<1>3. ASSUME misused' = {}
      PROVE  /\ faults' = faults
             /\ \A p \in Objects : Held(p)' <=> (p # o /\ Held(p))
             /\ HoldersKnow => HoldersKnow'
    <2>1. Held(o) BY <1>3 DEF ExUnregisterBody
    <2>2. /\ handle[o] \in Handles /\ holder[handle[o]] = o /\ handle[o] # None
        BY <2>1, NotifyAssumption DEF Held
    <2>3. holder' = [holder EXCEPT ![handle[o]] = None] /\ faults' = faults
        BY <2>2 DEF ExUnregisterBody
    <2>4. \A p \in Objects : Held(p)' <=> (p # o /\ Held(p))
        BY <1>1, <2>2, <2>3, NotifyAssumption DEF Held, TypeOK
    <2>5. HoldersKnow => HoldersKnow' BY <1>1, <2>2, <2>3 DEF HoldersKnow, TypeOK
    <2> QED BY <2>3, <2>4, <2>5
<1> QED BY <1>1, <1>2, <1>3

(* New objects hold nothing and the kernel has nothing.                      *)
LEMMA InitIInv == Init => IInv
<1> SUFFICES ASSUME Init PROVE IInv OBVIOUS
<1>1. TypeOK BY DEF Init, TypeOK, Results
<1>2. \A o \in Objects : callback[o] = None /\ ~Held(o)
    BY NotifyAssumption DEF Init, Held
<1>3. \A r \in Routines : Holders(r) = {} BY <1>2, NotifyAssumption DEF Holders
<1>4. \A r \in Routines : Cardinality(Holders(r)) = 0 /\ kernel[r] = 0
    BY <1>3, FS_EmptySet DEF Init
<1>5. EveryHolderBacked /\ CountsAgree BY <1>4 DEF EveryHolderBacked, CountsAgree
<1>6. UnregisterNeverFails /\ HoldersKnow /\ DroppedForget /\ HandlesGood /\ CmKeepsNoRoutine
    BY <1>2 DEF Init, UnregisterNeverFails, HoldersKnow, DroppedForget, HandlesGood, CmKeepsNoRoutine
<1>7. RoutineMeansHeld BY <1>2 DEF RoutineMeansHeld
<1> QED BY <1>1, <1>5, <1>6, <1>7 DEF IInv, ProperUseIsSafe

(* Every call on every kind of object keeps the inductive invariant.         *)
LEMMA NextIInv == IInv /\ [Next]_vars => IInv'
<1> SUFFICES ASSUME IInv, [Next]_vars PROVE IInv' OBVIOUS
<1> USE DEF IInv
<1>a. None \notin Routines /\ None \notin Handles /\ None \notin Objects BY NotifyAssumption
<1>1. ASSUME NEW o \in Objects, NEW r \in Routines, register(o, r), SetNotifyRoutine(r)
      PROVE  IInv'
    <2>1. /\ kernel' = [kernel EXCEPT ![r] = @ + 1] /\ callback' = [callback EXCEPT ![o] = r]
          /\ misused' = (IF callback[o] = None THEN misused ELSE misused \cup {o})
          /\ last' = "Ok" /\ kind = "notify" /\ o \notin dropped
          /\ UNCHANGED <<kind, handle, made, dropped, holder, faults>>
        BY <1>1 DEF register, Usable
    <2>b. kernel \in [Routines -> Nat] /\ r \in Routines \cup {None} BY DEF TypeOK
    <2>c. kernel' \in [Routines -> Nat]
        BY <2>1, <2>b
    <2>d. \A q \in Routines : kernel'[q] = IF q = r THEN kernel[q] + 1 ELSE kernel[q]
        BY <2>1, <2>b
    <2>e. \A q \in Routines : Cardinality(Holders(q)') =
              IF q = r /\ q # callback[o] THEN Cardinality(Holders(q)) + 1
              ELSE IF q # r /\ q = callback[o] THEN Cardinality(Holders(q)) - 1
              ELSE Cardinality(Holders(q))
        BY <2>1, <2>b, SetField
    <2>f. \A q \in Routines : Cardinality(Holders(q)) \in Nat /\ kernel[q] \in Nat
        BY <2>b, HoldersFinite
    <2>2. TypeOK' BY <2>1, <2>c DEF TypeOK, Results
    <2>3. EveryHolderBacked'
        BY <2>1, <2>d, <2>e, <2>f DEF EveryHolderBacked
    <2>4. misused' = {} => CountsAgree'
        BY <1>a, <2>1, <2>d, <2>e, <2>f DEF ProperUseIsSafe, CountsAgree
    <2>5. misused' = {} => RoutineMeansHeld' /\ HoldersKnow' /\ DroppedForget' /\ HandlesGood'
        BY <2>1 DEF ProperUseIsSafe, RoutineMeansHeld, HoldersKnow, DroppedForget, HandlesGood, TypeOK
    <2> QED BY <2>1, <2>2, <2>3, <2>4, <2>5
            DEF ProperUseIsSafe, UnregisterNeverFails, CmKeepsNoRoutine
<1>2. ASSUME UNCHANGED <<kind, callback, handle, made, dropped, kernel, holder, misused>>,
             last' \in Results \ {"UnregisterError"} \/ UNCHANGED last,
             faults' \subseteq faults \cup {"dead context"}
      PROVE  IInv'
    <2>1. TypeOK' BY <1>2 DEF TypeOK, Results
    <2>2. \A x : Holders(x)' = Holders(x) /\ Held(x)' = Held(x) BY <1>2 DEF Holders, Held
    <2>3. EveryHolderBacked' BY <1>2, <2>2 DEF EveryHolderBacked
    <2>4. CountsAgree' = CountsAgree /\ RoutineMeansHeld' = RoutineMeansHeld
        BY <1>2, <2>2 DEF CountsAgree, RoutineMeansHeld
    <2>5. HoldersKnow' = HoldersKnow /\ DroppedForget' = DroppedForget
        BY <1>2 DEF HoldersKnow, DroppedForget
    <2>6. HandlesGood => HandlesGood' BY <1>2 DEF HandlesGood
    <2> QED BY <1>2, <2>1, <2>3, <2>4, <2>5, <2>6
            DEF ProperUseIsSafe, UnregisterNeverFails, CmKeepsNoRoutine
<1>3. ASSUME NEW o \in Objects, NEW r \in Routines, register(o, r), ~SetNotifyRoutine(r)
      PROVE  IInv'
    BY <1>2, <1>3 DEF register, Results
<1>4. ASSUME NEW o \in Objects, unregister(o) \/ drop(o) PROVE IInv'
    <2>1. /\ kind = "notify" /\ UnregisterBody(o) /\ UNCHANGED exVars
          /\ dropped \subseteq dropped' /\ dropped' \subseteq dropped \cup {o}
        BY <1>4 DEF unregister, drop, Usable
    <2>2. /\ callback' = [callback EXCEPT ![o] = None] /\ last' \in {"NotRegistered", "Ok"}
          /\ kernel' \in [Routines -> Nat]
          /\ \A r \in Routines : kernel'[r] = IF r = callback[o] THEN kernel[r] - 1 ELSE kernel[r]
        BY <2>1, UnregisterTakesOwn
    <2>3. TypeOK' BY <2>1, <2>2 DEF TypeOK, Results, exVars
    <2>4. \A r \in Routines : Cardinality(Holders(r)') =
              IF r = callback[o] THEN Cardinality(Holders(r)) - 1 ELSE Cardinality(Holders(r))
        <3>1. TypeOK /\ callback' = [callback EXCEPT ![o] = None] /\ None \in Routines \cup {None}
            BY <2>2
        <3>2. \A r \in Routines : Cardinality(Holders(r)') =
                  IF r = None /\ r # callback[o] THEN Cardinality(Holders(r)) + 1
                  ELSE IF r # None /\ r = callback[o] THEN Cardinality(Holders(r)) - 1
                  ELSE Cardinality(Holders(r))
            BY <3>1, SetField
        <3> QED BY <1>a, <3>2
    <2>b. \A r \in Routines : Cardinality(Holders(r)) \in Nat /\ kernel[r] \in Nat
        BY HoldersFinite DEF TypeOK
    <2>c. \A r \in Routines :
              /\ Cardinality(Holders(r)) <= kernel[r] => Cardinality(Holders(r)') <= kernel'[r]
              /\ kernel[r] = Cardinality(Holders(r)) => kernel'[r] = Cardinality(Holders(r)')
        BY <2>2, <2>4, <2>b
    <2>5. EveryHolderBacked' BY <2>1, <2>c DEF EveryHolderBacked
    <2>6. misused = {} => CountsAgree' BY <2>1, <2>c DEF ProperUseIsSafe, CountsAgree
    <2>d. misused = {} => RoutineMeansHeld' /\ HoldersKnow' /\ HandlesGood'
        BY <2>1 DEF exVars, ProperUseIsSafe, RoutineMeansHeld, HoldersKnow, HandlesGood
    <2>e. misused = {} => DroppedForget'
        BY <2>1, <2>2 DEF ProperUseIsSafe, DroppedForget, TypeOK
    <2>7. misused = {} => RoutineMeansHeld' /\ HoldersKnow' /\ DroppedForget' /\ HandlesGood'
        BY <2>d, <2>e
    <2> QED BY <2>1, <2>2, <2>3, <2>5, <2>6, <2>7
            DEF exVars, ProperUseIsSafe, UnregisterNeverFails, CmKeepsNoRoutine
<1>5. ASSUME NEW o \in Objects, CmRegister(o) PROVE IInv'
    <2>1. CASE Accept(o)
        <3>1. UNCHANGED <<kind, callback, made, dropped, kernel, faults>> /\ kind = "cm"
            BY <1>5 DEF CmRegister, Usable
        <3>2. TypeOK' BY <2>1, <3>1, AcceptHolds DEF TypeOK, Results
        <3>3. misused' = {} => HoldersKnow' /\ misused = {}
            BY <2>1, AcceptHolds DEF ProperUseIsSafe
        <3>4. misused' = {} => DroppedForget' /\ HandlesGood'
            BY <3>1, <3>3 DEF ProperUseIsSafe, DroppedForget, HandlesGood
        <3>5. last' = "Ok" BY <2>1, AcceptHolds
        <3> QED BY <3>1, <3>2, <3>3, <3>4, <3>5
                DEF ProperUseIsSafe, UnregisterNeverFails, CmKeepsNoRoutine,
                    EveryHolderBacked, CountsAgree, RoutineMeansHeld
    <2>2. CASE ~Accept(o) BY <1>2, <1>5, <2>2 DEF CmRegister, Results
    <2> QED BY <2>1, <2>2
<1>6. ASSUME NEW o \in Objects, CmUnregister(o) PROVE IInv'
    <2>1. CASE Held(o)
        <3>1. /\ holder' = [holder EXCEPT ![handle[o]] = None] /\ last' = "Ok" /\ kind = "cm"
              /\ UNCHANGED <<kind, callback, handle, made, dropped, kernel, misused, faults>>
            BY <1>6, <2>1 DEF CmUnregister, Usable
        <3>2. TypeOK' BY <3>1 DEF TypeOK, Results
        <3>3. misused = {} => HoldersKnow'
            BY <3>1 DEF ProperUseIsSafe, HoldersKnow, TypeOK
        <3>4. misused' = {} => DroppedForget' /\ HandlesGood'
            BY <3>1 DEF ProperUseIsSafe, DroppedForget, HandlesGood
        <3> QED BY <3>1, <3>2, <3>3, <3>4
                DEF ProperUseIsSafe, UnregisterNeverFails, CmKeepsNoRoutine,
                    EveryHolderBacked, CountsAgree, RoutineMeansHeld
    <2>2. CASE ~Held(o) BY <1>2, <1>6, <2>2 DEF CmUnregister, Results
    <2> QED BY <2>1, <2>2
<1>7. ASSUME NEW o \in Objects, CmDrop(o) PROVE IInv'
    <2>1. kind = "cm" /\ dropped' = dropped \cup {o} /\ UNCHANGED <<callback, kernel, last, exVars>>
        BY <1>7 DEF CmDrop, Usable
    <2>2. TypeOK' BY <2>1 DEF TypeOK, exVars
    <2>3. misused = {} => HoldersKnow' /\ DroppedForget' /\ HandlesGood'
        BY <2>1 DEF exVars, ProperUseIsSafe, HoldersKnow, DroppedForget, HandlesGood, CmKeepsNoRoutine
    <2> QED BY <2>1, <2>2, <2>3
            DEF exVars, ProperUseIsSafe, UnregisterNeverFails, CmKeepsNoRoutine,
                EveryHolderBacked, CountsAgree, RoutineMeansHeld
<1>8. ASSUME NEW o \in Objects, kind = "ex", ExUnregisterBody(o),
             UNCHANGED kind, made' \subseteq Objects,
             dropped \subseteq dropped', dropped' \subseteq dropped \cup {o},
             last' \in {"Ok", "CreateError"} \/ UNCHANGED last
      PROVE  IInv'
    <2>1. TypeOK' BY <1>8, ExUnregisterReleases DEF TypeOK, Results
    <2>2. ASSUME misused' = {}
          PROVE  RoutineMeansHeld' /\ HoldersKnow' /\ DroppedForget' /\ HandlesGood'
        <3>1. /\ misused = {} /\ faults' = faults /\ HoldersKnow'
              /\ callback' = [callback EXCEPT ![o] = None]
              /\ \A p \in Objects : Held(p)' <=> (p # o /\ Held(p))
            BY <1>8, <2>2, ExUnregisterReleases DEF ProperUseIsSafe
        <3>2. RoutineMeansHeld'
            BY <1>8, <3>1 DEF ProperUseIsSafe, RoutineMeansHeld, TypeOK
        <3>3. DroppedForget' /\ HandlesGood'
            BY <1>8, <3>1 DEF ProperUseIsSafe, DroppedForget, HandlesGood, TypeOK
        <3> QED BY <3>1, <3>2, <3>3
    <2> QED BY <1>8, <2>1, <2>2 DEF ProperUseIsSafe, UnregisterNeverFails,
            CmKeepsNoRoutine, EveryHolderBacked, CountsAgree
<1>9. ASSUME NEW o \in Objects, ExCreate(o) PROVE IInv'
    <2>1. CASE ExUnregisterBody(o) /\ last' = "CreateError" /\ dropped' = dropped \cup {o}
        BY <1>8, <1>9, <2>1 DEF ExCreate, TypeOK
    <2>2. CASE last' = "Ok" /\ UNCHANGED <<callback, handle, dropped, kernel, holder, misused, faults>>
        <3>1. kind = "ex" /\ UNCHANGED kind /\ made' = made \cup {o} BY <1>9 DEF ExCreate
        <3>2. TypeOK' BY <2>2, <3>1 DEF TypeOK, Results
        <3>3. \A x : Held(x)' = Held(x) BY <2>2 DEF Held
        <3>4. misused = {} => RoutineMeansHeld' /\ HoldersKnow' /\ DroppedForget' /\ HandlesGood'
            BY <2>2, <3>1, <3>3
            DEF ProperUseIsSafe, RoutineMeansHeld, HoldersKnow, DroppedForget, HandlesGood
        <3> QED BY <2>2, <3>1, <3>2, <3>4 DEF ProperUseIsSafe, UnregisterNeverFails,
                CmKeepsNoRoutine, EveryHolderBacked, CountsAgree
    <2> QED BY <1>9, <2>1, <2>2 DEF ExCreate
<1>10. ASSUME NEW o \in Objects, NEW r \in Routines, ExRegister(o, r) PROVE IInv'
    <2>1. CASE Accept(o) /\ callback' = [callback EXCEPT ![o] = r]
        <3>1. /\ UNCHANGED <<kind, made, dropped, kernel, faults>> /\ kind = "ex"
              /\ o \notin dropped
            BY <1>10 DEF ExRegister, Usable
        <3>2. TypeOK' BY <2>1, <3>1, AcceptHolds DEF TypeOK, Results
        <3>3. ASSUME misused' = {}
              PROVE  RoutineMeansHeld' /\ HoldersKnow' /\ DroppedForget' /\ HandlesGood'
            <4>1. /\ misused = {} /\ HoldersKnow'
                  /\ \A p \in Objects : Held(p)' <=> (p = o \/ Held(p))
                BY <2>1, <3>3, AcceptHolds DEF ProperUseIsSafe
            <4>2. RoutineMeansHeld'
                BY <1>a, <2>1, <3>1, <4>1 DEF ProperUseIsSafe, RoutineMeansHeld, TypeOK
            <4>3. DroppedForget' /\ HandlesGood'
                BY <2>1, <3>1, <4>1 DEF ProperUseIsSafe, DroppedForget, HandlesGood, TypeOK
            <4> QED BY <4>1, <4>2, <4>3
        <3>4. last' = "Ok" BY <2>1, AcceptHolds
        <3> QED BY <3>1, <3>2, <3>3, <3>4 DEF ProperUseIsSafe, UnregisterNeverFails,
                CmKeepsNoRoutine, EveryHolderBacked, CountsAgree
    <2>2. CASE last' = "RegisterError" /\ UNCHANGED <<callback, handle, holder, misused>>
        BY <1>2, <1>10, <2>2 DEF ExRegister, Results
    <2> QED BY <1>10, <2>1, <2>2 DEF ExRegister
<1>11. ASSUME NEW o \in Objects, ExUnregister(o) \/ ExDrop(o) PROVE IInv'
    BY <1>8, <1>11 DEF ExUnregister, ExDrop, Usable, TypeOK
<1>12. ASSUME NEW o \in Objects, ExNotify(o) PROVE IInv'
    BY <1>2, <1>12 DEF ExNotify
<1>13. CASE UNCHANGED vars BY <1>2, <1>13 DEF vars
<1> QED BY <1>1, <1>3, <1>4, <1>5, <1>6, <1>7, <1>9, <1>10, <1>11, <1>12, <1>13 DEF Next

(* The inductive invariant holds in every reachable state.                   *)
LEMMA Inductive == Spec => []IInv
BY InitIInv, NextIInv, PTL DEF Spec

(* Fields and results have the types the wrappers declare, and the kernel's  *)
(* count of a routine never goes below zero.                                 *)
THEOREM TypeCorrect == Spec => []TypeOK
<1>1. IInv => TypeOK BY DEF IInv
<1> QED BY <1>1, Inductive, PTL

(* Whatever calls fail and however often objects are registered, no notify   *)
(* object loses its registration to another one.                             *)
THEOREM HoldersBacked == Spec => []EveryHolderBacked
<1>1. IInv => EveryHolderBacked BY DEF IInv
<1> QED BY <1>1, Inductive, PTL

(* The error that Drop ignores never happens.                                *)
THEOREM UnregisterSucceeds == Spec => []UnregisterNeverFails
<1>1. IInv => UnregisterNeverFails BY DEF IInv
<1> QED BY <1>1, Inductive, PTL

(* A driver that registers no object twice, and unregisters and drops        *)
(* callback objects only while they are registered, has objects and kernel   *)
(* in agreement.                                                             *)
THEOREM ProperUse == Spec => []ProperUseIsSafe
<1>1. IInv => ProperUseIsSafe BY DEF IInv
<1> QED BY <1>1, Inductive, PTL
=============================================================================
