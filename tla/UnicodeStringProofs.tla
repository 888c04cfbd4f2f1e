------------------------- MODULE UnicodeStringProofs -------------------------
(* For any strings, any width of a length and any sources: every allocated   *)
(* buffer that a string was made to point to has exactly one owner, which    *)
(* frees it once and with the routine of its allocator, and a converted      *)
(* string is within its buffer, also when the length of its source does not  *)
(* fit.                                                                      *)
EXTENDS UnicodeString, TLAPS

(* A length cut to 16 bits is one.                                           *)
LEMMA CutFits == ASSUME NEW n \in Nat PROVE to_unicode_len(n) \in 0 .. Limit - 1
<1>1. Limit \in Nat \ {0} BY UnicodeAssumption
<1>2. \A m \in Nat : \A l \in Nat \ {0} : m % l \in 0 .. l - 1 OBVIOUS
<1>3. 2 * n \in Nat OBVIOUS
<1> QED BY <1>1, <1>2, <1>3 DEF to_unicode_len

(* What an allocation adds to the heap.                                      *)
Allocates(buffers, kind, size) ==
    /\ buffers \in Seq(BufferRecord)
    /\ DOMAIN heap \subseteq DOMAIN buffers /\ Len(heap) <= Len(buffers)
    /\ \A b \in DOMAIN heap : buffers[b] = heap[b]
    /\ Fresh \in DOMAIN buffers
    /\ buffers[Fresh].kind = kind /\ buffers[Fresh].live /\ buffers[Fresh].size = size
    /\ \A b \in DOMAIN buffers : b \in DOMAIN heap \/ b = Fresh \/ buffers[b].kind = "Vec"

(* One buffer allocated from the pool, or by the kernel.                     *)
LEMMA AppendAllocates ==
    ASSUME heap \in Seq(BufferRecord), NEW kind \in AllocType, NEW size \in Nat, NEW written \in Nat
    PROVE  Allocates(Append(heap, Allocated(kind, size, written)), kind, size)
<1> DEFINE x == Allocated(kind, size, written)
           t == Append(heap, x)
<1>1. x \in BufferRecord /\ x.kind = kind /\ x.live /\ x.size = size
    BY DEF Allocated, BufferRecord
<1> HIDE DEF x
<1>2. /\ t \in Seq(BufferRecord) /\ Len(heap) \in Nat /\ Len(t) = Len(heap) + 1
      /\ DOMAIN t = 1 .. Len(heap) + 1 /\ DOMAIN heap = 1 .. Len(heap)
      /\ \A b \in 1 .. Len(heap) : t[b] = heap[b]
      /\ t[Len(heap) + 1] = x
    BY <1>1
<1> HIDE DEF t
<1>3. \A b \in DOMAIN t : b \in DOMAIN heap \/ b = Fresh BY <1>2 DEF Fresh
<1>4. DOMAIN heap \subseteq DOMAIN t /\ Len(heap) <= Len(t) /\ Fresh \in DOMAIN t
    BY <1>2 DEF Fresh
<1>5. t[Fresh] = x BY <1>2 DEF Fresh
<1>6. Allocates(t, kind, size) BY <1>1, <1>2, <1>3, <1>4, <1>5 DEF Allocates
<1> QED BY <1>6 DEF t, x

(* The Box and the Vec in it that copy allocates.                            *)
LEMMA BoxAllocates ==
    ASSUME heap \in Seq(BufferRecord), NEW size \in Nat, NEW written \in Nat, NEW elements \in Nat
    PROVE  Allocates(heap \o <<Allocated("Rust", size, written), Allocated("Vec", elements, 0)>>,
                     "Rust", size)
<1> DEFINE x == Allocated("Rust", size, written)
           y == Allocated("Vec", elements, 0)
           t == heap \o <<x, y>>
<1>1. /\ x \in BufferRecord /\ x.kind = "Rust" /\ x.live /\ x.size = size
      /\ y \in BufferRecord /\ y.kind = "Vec"
    BY DEF Allocated, BufferRecord, AllocType
<1> HIDE DEF x, y
<1>2. /\ t \in Seq(BufferRecord) /\ Len(heap) \in Nat /\ Len(t) = Len(heap) + 2
      /\ DOMAIN t = 1 .. Len(heap) + 2 /\ DOMAIN heap = 1 .. Len(heap)
      /\ \A b \in 1 .. Len(heap) : t[b] = heap[b]
      /\ t[Len(heap) + 1] = x /\ t[Len(heap) + 2] = y
    BY <1>1
<1> HIDE DEF t
<1>3. \A b \in DOMAIN t : b \in DOMAIN heap \/ b = Fresh \/ b = Len(heap) + 2 BY <1>2 DEF Fresh
<1>4. DOMAIN heap \subseteq DOMAIN t /\ Len(heap) <= Len(t) /\ Fresh \in DOMAIN t
    BY <1>2 DEF Fresh
<1>5. t[Fresh] = x BY <1>2 DEF Fresh
<1>6. Allocates(t, "Rust", size) BY <1>1, <1>2, <1>3, <1>4, <1>5 DEF Allocates
<1> QED BY <1>6 DEF t, x, y

(* A freed buffer.                                                           *)
LEMMA FreedBuffer ==
    ASSUME NEW x \in BufferRecord
    PROVE  [x EXCEPT !.live = FALSE] \in BufferRecord /\ ~[x EXCEPT !.live = FALSE].live
BY DEF BufferRecord

(* A heap with one buffer freed.                                             *)
LEMMA FreedIn ==
    ASSUME NEW q \in Seq(BufferRecord), NEW f \in DOMAIN q
    PROVE  LET r == [q EXCEPT ![f].live = FALSE] IN
           /\ r \in Seq(BufferRecord) /\ Len(r) = Len(q) /\ DOMAIN r = DOMAIN q
           /\ \A b \in DOMAIN q : b # f => r[b] = q[b]
           /\ ~r[f].live
<1> DEFINE x == [q[f] EXCEPT !.live = FALSE]
<1>1. q[f] \in BufferRecord OBVIOUS
<1>2. x \in BufferRecord /\ ~x.live BY <1>1, FreedBuffer
<1>3. [q EXCEPT ![f].live = FALSE] = [q EXCEPT ![f] = x] OBVIOUS
<1> HIDE DEF x
<1>4. Len(q) \in Nat /\ DOMAIN q = 1 .. Len(q) OBVIOUS
<1>5. [q EXCEPT ![f] = x] \in Seq(BufferRecord) BY <1>2
<1>6. /\ DOMAIN [q EXCEPT ![f] = x] = DOMAIN q
      /\ \A b \in DOMAIN q : b # f => [q EXCEPT ![f] = x][b] = q[b]
      /\ [q EXCEPT ![f] = x][f] = x
    OBVIOUS
<1>7. Len([q EXCEPT ![f] = x]) = Len(q) BY <1>4, <1>5, <1>6
<1> QED BY <1>2, <1>3, <1>5, <1>6, <1>7

-----------------------------------------------------------------------------
(* The place of a string that was moved or dropped is empty.                 *)
LEMMA MovedIsNone == Moved \in StringRecord /\ ~Moved.live /\ Moved.Buffer = 0
<1>1. default \in StringRecord /\ default.Buffer = 0
    <2>1. 0 \in 0 .. Limit - 1 /\ 0 \in Nat BY UnicodeAssumption
    <2> QED BY <2>1 DEF default, StringRecord
<1>2. ASSUME NEW s \in StringRecord
      PROVE  /\ [s EXCEPT !.live = FALSE] \in StringRecord /\ ~[s EXCEPT !.live = FALSE].live
             /\ [s EXCEPT !.live = FALSE].Buffer = s.Buffer
    BY DEF StringRecord
<1> QED BY <1>1, <1>2 DEF Moved

(* There is no string and no buffer at first.                                *)
LEMMA InitIInv == Init => IInv
<1> SUFFICES ASSUME Init PROVE IInv OBVIOUS
<1>1. Moved \in StringRecord /\ ~Moved.live /\ Moved.Buffer = 0 BY MovedIsNone
<1>2. heap \in Seq(BufferRecord) /\ Len(heap) = 0 /\ DOMAIN heap = {} BY DEF Init
<1>3. \A o \in Objects : str[o] = Moved BY DEF Init
<1>4. TypeOK
    <2>1. str \in [Objects -> StringRecord] BY <1>1 DEF Init
    <2>2. \A o \in Objects : str[o].Buffer <= Len(heap) BY <1>1, <1>2, <1>3
    <2> QED BY <1>2, <2>1, <2>2 DEF Init, TypeOK
<1>5. OwnersBacked /\ SoleOwners /\ LengthsFit
    BY <1>1, <1>3 DEF OwnersBacked, SoleOwners, LengthsFit, Owns
<1>6. NoneLeaked BY <1>2 DEF NoneLeaked, Buffers
<1> QED BY <1>4, <1>5, <1>6 DEF Init, IInv

(* A string that owns a buffer allocated for it.                             *)
LEMMA MakeIInv ==
    ASSUME IInv, NEW o \in Objects, NEW kind \in AllocType,
           NEW length \in 0 .. Limit - 1, NEW max \in 0 .. Limit - 1, NEW size \in Nat,
           kind # "Rust" => length <= max /\ max <= size,
           Put(o, Owner(kind, length, max)), Allocates(heap', kind, size), UNCHANGED fault
    PROVE  IInv'
<1> DEFINE s == Owner(kind, length, max)
<1>1. heap \in Seq(BufferRecord) /\ Len(heap) \in Nat /\ DOMAIN heap = 1 .. Len(heap)
    BY DEF IInv, TypeOK
<1>2. Fresh \in Nat /\ Fresh \notin DOMAIN heap BY <1>1 DEF Fresh
<1>3. /\ s \in StringRecord /\ s.live /\ s.alloc = kind /\ s.Buffer = Fresh
      /\ s.Length = length /\ s.MaximumLength = max
    BY <1>2 DEF Owner, StringRecord
<1>4. kind # "None" BY DEF AllocType
<1> HIDE DEF s
<1>5. /\ ~str[o].live /\ str' \in [Objects -> StringRecord] /\ str'[o] = s
      /\ \A p \in Objects \ {o} : str'[p] = str[p]
    BY <1>3 DEF Put, IInv, TypeOK, s
<1>6. /\ Owns(o)' /\ ~Owns(o) /\ str'[o].Buffer = Fresh
      /\ \A p \in Objects \ {o} : /\ Owns(p)' <=> Owns(p)
                                  /\ Owns(p) => str[p].Buffer \in DOMAIN heap
    BY <1>3, <1>4, <1>5 DEF Owns, IInv, OwnersBacked
<1>7. TypeOK'
    <2>1. heap' \in Seq(BufferRecord) /\ Len(heap') \in Nat /\ DOMAIN heap' = 1 .. Len(heap')
        BY DEF Allocates
    <2>2. Fresh <= Len(heap') BY <2>1, <1>2 DEF Allocates
    <2>3. \A p \in Objects \ {o} : str'[p].Buffer <= Len(heap')
        <3> TAKE p \in Objects \ {o}
        <3>1. str[p].Buffer <= Len(heap) /\ str[p].Buffer \in Nat
            BY DEF IInv, TypeOK, StringRecord
        <3> QED BY <1>1, <1>5, <2>1, <3>1 DEF Allocates
    <2> QED BY <1>5, <1>6, <2>1, <2>2, <2>3 DEF TypeOK, IInv
<1>8. OwnersBacked'
    <2>1. ASSUME NEW p \in Objects \ {o}, Owns(p)
          PROVE  /\ str'[p].Buffer \in DOMAIN heap' /\ heap'[str'[p].Buffer].live
                 /\ heap'[str'[p].Buffer].kind = str'[p].alloc
        BY <1>5, <1>6, <2>1 DEF IInv, OwnersBacked, Allocates
    <2>2. /\ str'[o].Buffer \in DOMAIN heap' /\ heap'[str'[o].Buffer].live
          /\ heap'[str'[o].Buffer].kind = str'[o].alloc
        BY <1>3, <1>5 DEF Allocates
    <2> QED BY <1>6, <2>1, <2>2 DEF OwnersBacked
<1>9. SoleOwners'
    <2>1. ASSUME NEW p \in Objects, NEW q \in Objects, Owns(p)', Owns(q)',
                 str'[p].Buffer = str'[q].Buffer
          PROVE  p = q
        BY <1>2, <1>5, <1>6, <2>1 DEF IInv, SoleOwners
    <2> QED BY <2>1 DEF SoleOwners
<1>10. NoneLeaked'
    <2>1. ASSUME NEW b \in Buffers' PROVE b \in Buffers \/ b = Fresh
        BY DEF Buffers, Allocates
    <2>2. ASSUME NEW b \in Buffers PROVE \E p \in Objects : Owns(p)' /\ str'[p].Buffer = b
        <3>1. PICK p \in Objects : Owns(p) /\ str[p].Buffer = b BY DEF IInv, NoneLeaked
        <3> QED BY <1>5, <1>6, <3>1
    <2> QED BY <1>6, <2>1, <2>2 DEF NoneLeaked
<1>11. LengthsFit'
    <2>1. ASSUME NEW p \in Objects \ {o}, str[p].live, str[p].alloc \in {"Os", "Pool"}
          PROVE  /\ str'[p].Length <= str'[p].MaximumLength
                 /\ str'[p].MaximumLength <= heap'[str'[p].Buffer].size
        BY <1>5, <1>6, <2>1 DEF IInv, LengthsFit, Owns, Allocates
    <2>2. str'[o].alloc \in {"Os", "Pool"} =>
              /\ str'[o].Length <= str'[o].MaximumLength
              /\ str'[o].MaximumLength <= heap'[str'[o].Buffer].size
        BY <1>3, <1>5 DEF Allocates
    <2> QED BY <1>5, <2>1, <2>2 DEF LengthsFit
<1> QED BY <1>7, <1>8, <1>9, <1>10, <1>11 DEF IInv
(* A string that borrows the buffer of another, or none.                     *)
LEMMA BorrowIInv ==
    ASSUME IInv, NEW o \in Objects, NEW s \in StringRecord, s.alloc = "None",
           s.Buffer <= Len(heap), Put(o, s), UNCHANGED <<heap, fault>>
    PROVE  IInv'
<1>1. /\ ~str[o].live /\ str' \in [Objects -> StringRecord] /\ str'[o] = s
      /\ \A p \in Objects \ {o} : str'[p] = str[p]
    BY DEF Put, IInv, TypeOK
<1>2. /\ ~Owns(o)' /\ ~Owns(o)
      /\ \A p \in Objects \ {o} : Owns(p)' <=> Owns(p)
    BY <1>1 DEF Owns
<1>3. TypeOK' BY <1>1 DEF IInv, TypeOK
<1>4. OwnersBacked' BY <1>1, <1>2 DEF IInv, OwnersBacked
<1>5. SoleOwners' BY <1>1, <1>2 DEF IInv, SoleOwners
<1>6. NoneLeaked'
    <2> SUFFICES ASSUME NEW b \in Buffers PROVE \E p \in Objects : Owns(p)' /\ str'[p].Buffer = b
        BY DEF NoneLeaked, Buffers
    <2>1. PICK p \in Objects : Owns(p) /\ str[p].Buffer = b BY DEF IInv, NoneLeaked
    <2> QED BY <1>1, <1>2, <2>1
<1>7. LengthsFit' BY <1>1 DEF IInv, LengthsFit
<1> QED BY <1>3, <1>4, <1>5, <1>6, <1>7 DEF IInv

(* A conversion that fails gives back the buffer it had allocated.           *)
LEMMA FailIInv ==
    ASSUME IInv, NEW max \in 0 .. Limit - 1,
           heap' = Freed(Owner("Pool", max, max), Append(heap, Allocated("Pool", max, 0))),
           fault' = (fault \/ BadFree(Owner("Pool", max, max),
                                      Append(heap, Allocated("Pool", max, 0)))),
           UNCHANGED str
    PROVE  IInv'
<1> DEFINE t == Append(heap, Allocated("Pool", max, 0))
           s == Owner("Pool", max, max)
<1>1. heap \in Seq(BufferRecord) /\ Len(heap) \in Nat /\ DOMAIN heap = 1 .. Len(heap)
    BY DEF IInv, TypeOK
<1>2. Allocates(t, "Pool", max) BY <1>1, AppendAllocates, UnicodeAssumption DEF AllocType
<1>3. s.alloc = "Pool" /\ s.Buffer = Fresh BY DEF Owner
<1> HIDE DEF s, t
<1>4. heap' = [t EXCEPT ![Fresh].live = FALSE] BY <1>3 DEF Freed, s, t
<1>5. ~fault' BY <1>2, <1>3 DEF BadFree, Allocates, IInv, s, t
<1>6. /\ heap' \in Seq(BufferRecord) /\ Len(heap') = Len(t) /\ DOMAIN heap' = DOMAIN t
      /\ \A b \in DOMAIN t \ {Fresh} : heap'[b] = t[b]
      /\ ~heap'[Fresh].live
    <2>1. t \in Seq(BufferRecord) /\ Fresh \in DOMAIN t BY <1>2 DEF Allocates
    <2> QED BY <1>4, <2>1, FreedIn
<1>7. Fresh \notin DOMAIN heap BY <1>1 DEF Fresh
<1>8. \A b \in DOMAIN heap : b \in DOMAIN heap' /\ heap'[b] = heap[b]
    BY <1>2, <1>6, <1>7 DEF Allocates
<1>9. Buffers' \subseteq Buffers BY <1>2, <1>6, <1>7 DEF Buffers, Allocates
<1>10. TypeOK'
    <2>1. Len(t) \in Nat /\ Len(heap) <= Len(t) BY <1>2 DEF Allocates
    <2>2. \A o \in Objects : str[o].Buffer \in Nat /\ str[o].Buffer <= Len(heap)
        BY DEF IInv, TypeOK, StringRecord
    <2>3. \A o \in Objects : str'[o].Buffer <= Len(heap') BY <1>1, <1>6, <2>1, <2>2
    <2> QED BY <1>5, <1>6, <2>3 DEF IInv, TypeOK
<1>11. OwnersBacked' BY <1>8 DEF IInv, OwnersBacked, Owns
<1>12. SoleOwners' BY DEF IInv, SoleOwners, Owns
<1>13. NoneLeaked' BY <1>9 DEF IInv, NoneLeaked, Owns
<1>14. LengthsFit'
    <2>1. ASSUME NEW o \in Objects, str[o].live, str[o].alloc \in {"Os", "Pool"}
          PROVE  heap'[str[o].Buffer] = heap[str[o].Buffer]
        BY <1>8, <2>1 DEF IInv, OwnersBacked, Owns
    <2> QED BY <2>1 DEF IInv, LengthsFit
<1> QED BY <1>5, <1>10, <1>11, <1>12, <1>13, <1>14 DEF IInv

(* drop: the only owner of a buffer frees it, with the right routine.        *)
LEMMA DropIInv == ASSUME IInv, NEW o \in Objects, drop(o) PROVE IInv'
<1>1. Moved \in StringRecord /\ ~Moved.live /\ Moved.Buffer = 0 BY MovedIsNone
<1>2. /\ str' \in [Objects -> StringRecord] /\ str'[o] = Moved
      /\ \A p \in Objects \ {o} : str'[p] = str[p]
    BY <1>1 DEF drop, IInv, TypeOK
<1>3. /\ ~Owns(o)' /\ \A p \in Objects \ {o} : Owns(p)' <=> Owns(p)
      /\ Owns(o) <=> str[o].alloc # "None"
    BY <1>1, <1>2 DEF Owns, drop
<1>4. heap \in Seq(BufferRecord) /\ Len(heap) \in Nat /\ DOMAIN heap = 1 .. Len(heap)
    BY DEF IInv, TypeOK
<1>5. ~fault'
    <2>1. CASE Owns(o) BY <2>1 DEF drop, BadFree, IInv, OwnersBacked
    <2>2. CASE ~Owns(o) BY <1>3, <2>2 DEF drop, BadFree, IInv
    <2> QED BY <2>1, <2>2
<1>6. /\ heap' \in Seq(BufferRecord) /\ Len(heap') = Len(heap) /\ DOMAIN heap' = DOMAIN heap
      /\ \A b \in DOMAIN heap : ~(Owns(o) /\ b = str[o].Buffer) => heap'[b] = heap[b]
      /\ Owns(o) => ~heap'[str[o].Buffer].live
    <2>1. CASE Owns(o)
        <3> DEFINE f == str[o].Buffer
        <3>1. f \in DOMAIN heap BY <2>1 DEF IInv, OwnersBacked
        <3>2. heap' = [heap EXCEPT ![f].live = FALSE] BY <1>3, <2>1 DEF drop, Freed
        <3> QED BY <1>4, <2>1, <3>1, <3>2, FreedIn
    <2>2. CASE ~Owns(o)
        <3>1. heap' = heap BY <1>3, <2>2 DEF drop, Freed
        <3> QED BY <1>4, <2>2, <3>1
    <2> QED BY <2>1, <2>2
<1>7. ASSUME NEW p \in Objects \ {o}, Owns(p)
      PROVE  /\ str[p].Buffer \in DOMAIN heap
             /\ heap'[str[p].Buffer] = heap[str[p].Buffer]
    <2>1. str[p].Buffer \in DOMAIN heap BY <1>7 DEF IInv, OwnersBacked
    <2>2. ~(Owns(o) /\ str[p].Buffer = str[o].Buffer) BY <1>7 DEF IInv, SoleOwners
    <2> QED BY <1>6, <2>1, <2>2
<1>8. TypeOK'
    <2>1. \A p \in Objects : str'[p].Buffer <= Len(heap')
        BY <1>1, <1>2, <1>4, <1>6 DEF IInv, TypeOK
    <2>2. fault' \in BOOLEAN BY DEF drop, IInv, TypeOK, BadFree
    <2> QED BY <1>2, <1>6, <2>1, <2>2 DEF TypeOK
<1>9. OwnersBacked' BY <1>2, <1>3, <1>6, <1>7 DEF IInv, OwnersBacked
<1>10. SoleOwners' BY <1>2, <1>3 DEF IInv, SoleOwners
<1>11. NoneLeaked'
    <2> SUFFICES ASSUME NEW b \in Buffers' PROVE \E p \in Objects : Owns(p)' /\ str'[p].Buffer = b
        BY DEF NoneLeaked
    <2>1. b \in DOMAIN heap /\ heap'[b].live /\ heap'[b].kind # "Vec" BY <1>6 DEF Buffers
    <2>2. ~(Owns(o) /\ b = str[o].Buffer) BY <1>6, <2>1
    <2>3. b \in Buffers BY <1>6, <2>1, <2>2 DEF Buffers
    <2>4. PICK p \in Objects : Owns(p) /\ str[p].Buffer = b BY <2>3 DEF IInv, NoneLeaked
    <2> QED BY <1>2, <1>3, <2>2, <2>4
<1>12. LengthsFit'
    <2>1. ASSUME NEW p \in Objects \ {o}, str[p].live, str[p].alloc \in {"Os", "Pool"}
          PROVE  heap'[str[p].Buffer] = heap[str[p].Buffer]
        BY <1>7, <2>1 DEF Owns
    <2> QED BY <1>1, <1>2, <2>1 DEF IInv, LengthsFit
<1> QED BY <1>5, <1>8, <1>9, <1>10, <1>11, <1>12 DEF IInv
-----------------------------------------------------------------------------
(* create: what is copied counts more than the buffer, but the string is as  *)
(* long as the buffer.                                                       *)
LEMMA CreateIInv == ASSUME IInv, NEW o \in Objects, NEW n \in Nat, create(o, n) PROVE IInv'
<1> DEFINE len == to_unicode_len(n)
<1>1. len \in 0 .. Limit - 1 BY CutFits
<1>2. len \in Nat /\ 2 * len \in Nat BY <1>1, UnicodeAssumption
<1>3. /\ Put(o, Owner("Pool", len, len)) /\ UNCHANGED fault
      /\ heap' = Append(heap, Allocated("Pool", len, 2 * len))
    BY DEF create
<1> HIDE DEF len
<1>4. Allocates(heap', "Pool", len) BY <1>2, <1>3, AppendAllocates DEF IInv, TypeOK, AllocType
<1>5. "Pool" \in AllocType /\ len <= len BY <1>2 DEF AllocType
<1> QED BY <1>1, <1>2, <1>3, <1>4, <1>5, MakeIInv

(* A number converted, or refused by the kernel.                             *)
LEMMA TryFromIntIInv == ASSUME IInv, NEW o \in Objects, TryFromInt(o) PROVE IInv'
<1>1. PICK max \in MaxInt :
          \/ /\ \E n \in 1..(max \div 2) : Put(o, Owner("Pool", 2 * n, max))
             /\ heap' = Append(heap, Allocated("Pool", max, 0)) /\ UNCHANGED fault
          \/ /\ heap' = Freed(Owner("Pool", max, max), Append(heap, Allocated("Pool", max, 0)))
             /\ fault' = (fault \/ BadFree(Owner("Pool", max, max),
                                           Append(heap, Allocated("Pool", max, 0))))
             /\ UNCHANGED str
    BY DEF TryFromInt
<1>2. max \in Nat /\ max \in 0 .. Limit - 1 BY UnicodeAssumption
<1>3. CASE /\ \E n \in 1..(max \div 2) : Put(o, Owner("Pool", 2 * n, max))
           /\ heap' = Append(heap, Allocated("Pool", max, 0)) /\ UNCHANGED fault
    <2>1. PICK n \in 1..(max \div 2) : Put(o, Owner("Pool", 2 * n, max)) BY <1>3
    <2>2. 2 * n \in 0 .. Limit - 1 /\ 2 * n <= max BY <1>2, UnicodeAssumption
    <2>3. Allocates(heap', "Pool", max)
        BY <1>2, <1>3, AppendAllocates DEF IInv, TypeOK, AllocType
    <2>4. "Pool" \in AllocType /\ max <= max BY <1>2 DEF AllocType
    <2> DEFINE l == 2 * n
    <2> HIDE DEF l
    <2>5. l \in 0 .. Limit - 1 /\ l <= max /\ Put(o, Owner("Pool", l, max)) BY <2>1, <2>2 DEF l
    <2> QED BY <1>2, <1>3, <2>3, <2>4, <2>5, MakeIInv
<1>4. CASE /\ heap' = Freed(Owner("Pool", max, max), Append(heap, Allocated("Pool", max, 0)))
           /\ fault' = (fault \/ BadFree(Owner("Pool", max, max),
                                         Append(heap, Allocated("Pool", max, 0))))
           /\ UNCHANGED str
    BY <1>2, <1>4, FailIInv
<1> QED BY <1>1, <1>3, <1>4

(* A string that the kernel allocates, of any length that fits.              *)
LEMMA OsIInv ==
    ASSUME IInv, NEW o \in Objects, NEW length \in 0 .. Limit - 1, NEW max \in 0 .. Limit - 1,
           length <= max, Put(o, Owner("Os", length, max)),
           heap' = Append(heap, Allocated("Os", max, max)), UNCHANGED fault
    PROVE  IInv'
<1>1. max \in Nat BY UnicodeAssumption
<1>2. "Os" \in AllocType /\ max <= max BY <1>1 DEF AllocType
<1>3. Allocates(heap', "Os", max) BY <1>1, <1>2, AppendAllocates DEF IInv, TypeOK
<1> QED BY <1>1, <1>2, <1>3, MakeIInv

(* UTF-8, of which the kernel sees the length cut to 16 bits.                *)
LEMMA TryFromUtf8IInv ==
    ASSUME IInv, NEW o \in Objects, NEW n \in Nat, TryFromUtf8(o, n) PROVE IInv'
<1>1. Limit \in Nat \ {0} BY UnicodeAssumption
<1>2. \A m \in Nat : \A l \in Nat \ {0} : m % l \in 0 .. l - 1 OBVIOUS
<1>3. n % Limit \in Nat BY <1>1, <1>2
<1> DEFINE len == 2 * (n % Limit)
           max == len + 2
<1>4. len \in Nat BY <1>3
<1>5. /\ Put(o, Owner("Os", len, max)) /\ UNCHANGED fault /\ max < Limit
      /\ heap' = Append(heap, Allocated("Os", max, max))
    BY DEF TryFromUtf8
<1> HIDE DEF len
<1>6. len \in 0 .. Limit - 1 /\ max \in 0 .. Limit - 1 /\ len <= max BY <1>1, <1>4, <1>5
<1> HIDE DEF max
<1> QED BY <1>5, <1>6, OsIInv

(* The strings made from another: the kernel's duplicates and conversions of *)
(* case, the wrapped and the sliced ones, and the clone.                     *)
LEMMA FromStringIInv ==
    ASSUME IInv, NEW o \in Objects, NEW p \in Objects,
           \/ duplicate(o, p) \/ NewCase(o, p) \/ wrap(o, p)
           \/ copy(o, p) \/ view(o, p) \/ to_owned(o, p)
    PROVE  IInv'
<1> DEFINE s == str[p]
<1>1. /\ s \in StringRecord /\ s.Length \in 0 .. Limit - 1 /\ s.MaximumLength \in 0 .. Limit - 1
      /\ s.Buffer <= Len(heap)
    BY DEF IInv, TypeOK, StringRecord
<1> HIDE DEF s
<1>2. s.Length \in Nat /\ s.MaximumLength \in Nat BY <1>1, UnicodeAssumption
<1>3. CASE duplicate(o, p)
    <2>1. PICK max \in {s.Length, s.Length + 2} :
              /\ max < Limit /\ Put(o, Owner("Os", s.Length, max))
              /\ heap' = Append(heap, Allocated("Os", max, max))
        BY <1>3 DEF duplicate, s
    <2>2. max \in 0 .. Limit - 1 /\ s.Length <= max BY <1>2, <2>1, UnicodeAssumption
    <2>3. UNCHANGED fault BY <1>3 DEF duplicate
    <2> QED BY <1>1, <2>1, <2>2, <2>3, OsIInv
<1>4. CASE NewCase(o, p)
    <2>1. s.Length <= s.Length BY <1>2
    <2> QED BY <1>1, <1>4, <2>1, OsIInv DEF NewCase, s
<1>5. CASE wrap(o, p)
    <2> DEFINE w == [s EXCEPT !.alloc = "None"]
    <2>1. w \in StringRecord /\ w.alloc = "None" /\ w.Buffer = s.Buffer
        BY <1>1 DEF StringRecord
    <2>2. Put(o, w) /\ UNCHANGED <<heap, fault>> BY <1>5 DEF wrap, s
    <2> HIDE DEF w
    <2> QED BY <1>1, <2>1, <2>2, BorrowIInv
<1>6. CASE copy(o, p)
    <2> DEFINE written == IF s.Length + 2 <= s.MaximumLength THEN s.Length + 2 ELSE s.Length
    <2>1. written \in Nat BY <1>2
    <2>2. /\ Put(o, Owner("Rust", s.Length, s.MaximumLength)) /\ UNCHANGED fault
          /\ heap' = heap \o <<Allocated("Rust", VecSize, written), Allocated("Vec", s.Length, 0)>>
        BY <1>6 DEF copy, s
    <2> HIDE DEF written
    <2>3. Allocates(heap', "Rust", VecSize)
        BY <1>2, <2>1, <2>2, BoxAllocates, UnicodeAssumption DEF IInv, TypeOK
    <2>4. "Rust" \in AllocType /\ VecSize \in Nat BY UnicodeAssumption DEF AllocType
    <2> QED BY <1>1, <2>2, <2>3, <2>4, MakeIInv
<1>7. ASSUME NEW u \in {as_slice(s), from_ptr(s)} PROVE u \in Nat
    BY <1>2 DEF as_slice, from_ptr
<1>8. CASE view(o, p)
    <2>1. PICK u \in {as_slice(s), from_ptr(s)} : Put(o, as_unicode_string(s, u))
        BY <1>8 DEF view, s
    <2> DEFINE len == to_unicode_len(u)
               w == as_unicode_string(s, u)
    <2>2. len \in 0 .. Limit - 1 BY <1>7, CutFits
    <2>3. w = [s EXCEPT !.Length = len, !.MaximumLength = len, !.alloc = "None"]
        BY DEF as_unicode_string
    <2> HIDE DEF len, w
    <2>4. w \in StringRecord /\ w.alloc = "None" /\ w.Buffer = s.Buffer
        BY <1>1, <2>2, <2>3 DEF StringRecord
    <2>5. Put(o, w) /\ UNCHANGED <<heap, fault>> BY <1>8, <2>1 DEF view, w
    <2> QED BY <1>1, <2>4, <2>5, BorrowIInv
<1>9. CASE to_owned(o, p)
    <2>1. PICK u \in {as_slice(s), from_ptr(s)} : create(o, u) BY <1>9 DEF to_owned, s
    <2> QED BY <1>7, <2>1, CreateIInv
<1> QED BY <1>3, <1>4, <1>5, <1>6, <1>8, <1>9

(* A string taken over from the kernel.                                      *)
LEMMA TakeIInv == ASSUME IInv, NEW o \in Objects, NEW n \in Nat, take(o, n) PROVE IInv'
<1> DEFINE len == to_unicode_len(n)
<1>1. len \in 0 .. Limit - 1 BY CutFits
<1>2. /\ Put(o, Owner("Os", len, len)) /\ UNCHANGED fault
      /\ heap' = Append(heap, Allocated("Os", len, len))
    BY DEF take
<1> HIDE DEF len
<1>3. len <= len BY <1>1, UnicodeAssumption
<1> QED BY <1>1, <1>2, <1>3, OsIInv

(* Every operation keeps the inductive invariant.                            *)
LEMMA NextIInv == IInv /\ [Next]_vars => IInv'
<1> SUFFICES ASSUME IInv, [Next]_vars PROVE IInv' OBVIOUS
<1>1. \A n \in 0 .. MaxUnits : n \in Nat BY UnicodeAssumption
<1>2. ASSUME NEW o \in Objects, TryFrom(o) PROVE IInv'
    BY <1>1, <1>2, TryFromIntIInv, CreateIInv, TryFromUtf8IInv DEF TryFrom
<1>3. ASSUME NEW o \in Objects, NEW n \in 0 .. MaxUnits, take(o, n) PROVE IInv'
    BY <1>1, <1>3, TakeIInv
<1>4. ASSUME NEW o \in Objects, NEW p \in Objects,
             \/ duplicate(o, p) \/ NewCase(o, p) \/ wrap(o, p)
             \/ copy(o, p) \/ view(o, p) \/ to_owned(o, p)
      PROVE  IInv'
    BY <1>4, FromStringIInv
<1>5. ASSUME NEW o \in Objects, drop(o) PROVE IInv' BY <1>5, DropIInv
<1>6. CASE UNCHANGED vars
    BY <1>6 DEF vars, IInv, TypeOK, OwnersBacked, SoleOwners, NoneLeaked, LengthsFit, Owns, Buffers
<1> QED BY <1>2, <1>3, <1>4, <1>5, <1>6 DEF Next

(* The inductive invariant, always.                                          *)
LEMMA Inductive == Spec => []IInv
BY InitIInv, NextIInv, PTL DEF Spec

(* Whatever is converted, cloned, wrapped or fails: every buffer made for a  *)
(* string to point to that is still allocated has exactly one owner, which   *)
(* will free it with the routine of its allocator, and none was freed        *)
(* otherwise.  The elements that copy leaks are no such buffers.             *)
THEOREM BufferIsOwnedOnce == Spec => []OwnedOnce
<1>1. IInv => OwnedOnce
    <2> SUFFICES ASSUME IInv, NEW b \in Buffers
                 PROVE  \E o \in Objects : Owners(b) = {o} /\ str[o].alloc = heap[b].kind
        BY DEF OwnedOnce, IInv
    <2>1. PICK o \in Objects : Owns(o) /\ str[o].Buffer = b BY DEF IInv, NoneLeaked
    <2>2. \A p \in Objects : p \in Owners(b) => p = o BY <2>1 DEF Owners, Owns, IInv, SoleOwners
    <2>3. o \in Owners(b) /\ Owners(b) \subseteq Objects BY <2>1 DEF Owners, Owns
    <2>4. str[o].alloc = heap[b].kind BY <2>1 DEF IInv, OwnersBacked
    <2> QED BY <2>2, <2>3, <2>4
<1> QED BY <1>1, Inductive, PTL

(* A string made by a conversion is within its buffer, even when the length  *)
(* of the source does not fit into 16 bits.                                  *)
THEOREM LengthsAlwaysFit == Spec => []LengthsFit
<1>1. IInv => LengthsFit BY DEF IInv
<1> QED BY <1>1, Inductive, PTL
==============================================================================
