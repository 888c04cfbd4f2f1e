---------------------------- MODULE UnicodeString ----------------------------
(* WduUnicodeString (src/src/strings/unicode.rs, mod string): a              *)
(* UNICODE_STRING and a note of who allocated its buffer, which decides how  *)
(* drop frees it.  Lengths are in bytes and 16 bits wide, a character has    *)
(* two bytes.  Contents are left out; `written' is how far into a buffer its *)
(* constructor writes.                                                       *)
EXTENDS Integers, Sequences, FiniteSets

CONSTANTS
    Objects,    \* places a WduUnicodeString can be kept in
    Limit,      \* one more than the largest length: 2^16
    MaxUnits,   \* the longest source, in characters
    MaxInt,     \* MAX_LEN_U32_STRING, MAX_LEN_U64_STRING
    VecSize,    \* the bytes of a Vec, without its elements
    MaxAlloc    \* bound: how many buffers are allocated

ASSUME UnicodeAssumption ==
    /\ Limit \in Nat \ {0} /\ MaxUnits \in Nat /\ VecSize \in Nat /\ MaxAlloc \in Nat
    /\ MaxInt \subseteq 1..(Limit - 1)

VARIABLES
    str,    \* the strings
    heap,   \* the buffers, in the order of their allocation
    fault   \* a buffer was freed twice, or by another allocator's routine

vars == <<str, heap, fault>>

AllocType == {"Os", "Rust", "Pool"}

StringRecord == [live : BOOLEAN, Length : 0..(Limit - 1), MaximumLength : 0..(Limit - 1),
                 Buffer : Nat, alloc : AllocType \cup {"None"}]
BufferRecord == [kind : AllocType \cup {"Vec"}, size : Nat, written : Nat, live : BOOLEAN]

TypeOK ==
    /\ str \in [Objects -> StringRecord]
    /\ heap \in Seq(BufferRecord)
    /\ fault \in BOOLEAN
    /\ \A o \in Objects : str[o].Buffer <= Len(heap)

-----------------------------------------------------------------------------
(* (len * size_of::<u16>()) as u16                                           *)
to_unicode_len(n) == (2 * n) % Limit

default == [live |-> TRUE, Length |-> 0, MaximumLength |-> 0, Buffer |-> 0, alloc |-> "None"]
Moved == [default EXCEPT !.live = FALSE]

Allocated(kind, size, written) ==
    [kind |-> kind, size |-> size, written |-> written, live |-> TRUE]

(* The next buffer, and a string that owns it.                               *)
Fresh == Len(heap) + 1
Owner(kind, length, max) ==
    [live |-> TRUE, Length |-> length, MaximumLength |-> max, Buffer |-> Fresh, alloc |-> kind]

(* Drop: RtlFreeUnicodeString, Box::from_raw or ExFreePoolWithTag, by the    *)
(* note; nothing without one.                                                *)
Freed(s, buffers) ==
    IF s.alloc = "None" THEN buffers ELSE [buffers EXCEPT ![s.Buffer].live = FALSE]
BadFree(s, buffers) ==
    s.alloc # "None" /\ (~buffers[s.Buffer].live \/ buffers[s.Buffer].kind # s.alloc)

Room == Len(heap) < MaxAlloc
Put(o, s) == ~str[o].live /\ str' = [str EXCEPT ![o] = s]

-----------------------------------------------------------------------------
(* Plausible mistakes: the note made only when the conversion has succeeded; *)
(* memory for the characters counted, not for their bytes.                   *)
TryFromIntNotesLate(o) ==
    /\ Room
    /\ \E max \in MaxInt :
          /\ heap' = Append(heap, Allocated("Pool", max, 0))
          /\ \/ \E n \in 1..(max \div 2) : Put(o, Owner("Pool", 2 * n, max))
             \/ UNCHANGED str
    /\ UNCHANGED fault

CreateCountsUnits(o, n) ==
    LET len == to_unicode_len(n) IN
    /\ Room
    /\ Put(o, Owner("Pool", len, len))
    /\ heap' = Append(heap, Allocated("Pool", n, 2 * len))
    /\ UNCHANGED fault

-----------------------------------------------------------------------------
Init ==
    /\ str = [o \in Objects |-> Moved]
    /\ heap = <<>>
    /\ fault = FALSE

(* create, and the conversions that end in it.  The copy is counted in       *)
(* characters, and given the length in bytes.  When the pool is exhausted    *)
(* nothing changes.                                                          *)
create(o, n) ==
    LET len == to_unicode_len(n) IN
    /\ Room
    /\ Put(o, Owner("Pool", len, len))
    /\ heap' = Append(heap, Allocated("Pool", len, 2 * len))
    /\ UNCHANGED fault

(* try_from_u32, try_from_u64: the string owns its buffer before the kernel  *)
(* converts into it, so that an error drops it.                              *)
TryFromInt(o) ==
    /\ Room
    /\ \E max \in MaxInt :
          LET allocated == Append(heap, Allocated("Pool", max, 0)) IN
          \/ /\ \E n \in 1..(max \div 2) : Put(o, Owner("Pool", 2 * n, max))
             /\ heap' = allocated /\ UNCHANGED fault
          \/ /\ heap' = Freed(Owner("Pool", max, max), allocated)
             /\ fault' = (fault \/ BadFree(Owner("Pool", max, max), allocated))
             /\ UNCHANGED str

(* try_from_utf8: the length of the source, as u16, is what the kernel sees; *)
(* it refuses what is too long and allocates the rest with a terminator      *)
(* (external), and only then the note is made.                               *)
TryFromUtf8(o, n) ==
    LET len == 2 * (n % Limit) IN
    /\ Room /\ len + 2 < Limit
    /\ Put(o, Owner("Os", len, len + 2))
    /\ heap' = Append(heap, Allocated("Os", len + 2, len + 2))
    /\ UNCHANGED fault

(* Each TryFrom and FromStr is one of these.                                 *)
TryFrom(o) ==
    TryFromInt(o) \/ \E n \in 0..MaxUnits : create(o, n) \/ TryFromUtf8(o, n)

(* duplicate: the kernel allocates, with room for a terminator when asked.   *)
duplicate(o, p) ==
    /\ str[p].live /\ Room
    /\ \E max \in {str[p].Length, str[p].Length + 2} :
          /\ max < Limit
          /\ Put(o, Owner("Os", str[p].Length, max))
          /\ heap' = Append(heap, Allocated("Os", max, max))
    /\ UNCHANGED fault

(* new_lower, new_upper: the kernel allocates as much as the source has.     *)
NewCase(o, p) ==
    /\ str[p].live /\ Room
    /\ Put(o, Owner("Os", str[p].Length, str[p].Length))
    /\ heap' = Append(heap, Allocated("Os", str[p].Length, str[p].Length))
    /\ UNCHANGED fault

(* take: a string the kernel allocated.                                      *)
take(o, n) ==
    /\ Room
    /\ Put(o, Owner("Os", to_unicode_len(n), to_unicode_len(n)))
    /\ heap' = Append(heap, Allocated("Os", to_unicode_len(n), to_unicode_len(n)))
    /\ UNCHANGED fault

(* wrap: the same buffer, not owned.                                         *)
wrap(o, p) ==
    /\ str[p].live
    /\ Put(o, [str[p] EXCEPT !.alloc = "None"])
    /\ UNCHANGED <<heap, fault>>

(* clone: a Box of a Vec is made, and the Buffer is the Box, not the Vec's   *)
(* elements; the kernel copies as much as the source has, and a terminator   *)
(* when the maximum leaves room.                                             *)
copy(o, p) ==
    LET s == str[p]
        written == IF s.Length + 2 <= s.MaximumLength THEN s.Length + 2 ELSE s.Length
    IN
    /\ s.live /\ Len(heap) + 1 < MaxAlloc
    /\ Put(o, Owner("Rust", s.Length, s.MaximumLength))
    /\ heap' = heap \o <<Allocated("Rust", VecSize, written), Allocated("Vec", s.Length, 0)>>
    /\ UNCHANGED fault

(* WduUnicodeStr, a borrowed slice, counted in characters: as_slice takes it *)
(* from the Length of a string, from_ptr from its MaximumLength.             *)
as_slice(s) == s.Length \div 2
from_ptr(s) == s.MaximumLength \div 2

(* as_unicode_string: the slice as a UNICODE_STRING again, which wrap takes. *)
as_unicode_string(s, units) ==
    [s EXCEPT !.Length = to_unicode_len(units), !.MaximumLength = to_unicode_len(units),
              !.alloc = "None"]

view(o, p) ==
    /\ str[p].live
    /\ \E units \in {as_slice(str[p]), from_ptr(str[p])} :
          Put(o, as_unicode_string(str[p], units))
    /\ UNCHANGED <<heap, fault>>

(* to_owned: a string created from the slice.                                *)
to_owned(o, p) ==
    /\ str[p].live
    /\ \E units \in {as_slice(str[p]), from_ptr(str[p])} : create(o, units)

(* PartialEq<UNICODE_STRING>: the bytes it reads of the other string, whose  *)
(* Length is taken for a number of characters.                               *)
eq(s) == 2 * s.Length

drop(o) ==
    /\ str[o].live
    /\ heap' = Freed(str[o], heap)
    /\ fault' = (fault \/ BadFree(str[o], heap))
    /\ str' = [str EXCEPT ![o] = Moved]

Next ==
    \E o \in Objects :
        \/ TryFrom(o)
        \/ \E n \in 0..MaxUnits : take(o, n)
        \/ \E p \in Objects : duplicate(o, p) \/ NewCase(o, p) \/ wrap(o, p) \/ copy(o, p)
                              \/ view(o, p) \/ to_owned(o, p)
        \/ drop(o)

Spec == Init /\ [][Next]_vars

-----------------------------------------------------------------------------
Owners(b) == {o \in Objects : str[o].live /\ str[o].alloc # "None" /\ str[o].Buffer = b}
\* the buffers that a string's Buffer may point to, not the elements behind a clone's Box
Buffers == {b \in DOMAIN heap : heap[b].live /\ heap[b].kind # "Vec"}

(* Whatever is converted, cloned, wrapped or fails: of the buffers that      *)
(* strings are made to point to, every one that is still allocated has       *)
(* exactly one owner, which will free it with the routine of its allocator,  *)
(* and none was freed otherwise.  The elements of the Vec that copy boxes    *)
(* are not among them: no string points to them and nothing frees them       *)
(* (CloneFreed).                                                             *)
OwnedOnce ==
    /\ ~fault
    /\ \A b \in Buffers : \E o \in Objects : Owners(b) = {o} /\ str[o].alloc = heap[b].kind

(* A string made by a conversion is within its buffer, even when the length  *)
(* of the source does not fit into 16 bits.                                  *)
LengthsFit ==
    \A o \in Objects : str[o].live /\ str[o].alloc \in {"Os", "Pool"} =>
        /\ str[o].Length <= str[o].MaximumLength
        /\ str[o].MaximumLength <= heap[str[o].Buffer].size

(* Inductive invariant: an owner's buffer is there, and of its allocator; no *)
(* two own the same; and none that is there has lost its owner.              *)
Owns(o) == str[o].live /\ str[o].alloc # "None"
OwnersBacked ==
    \A o \in Objects : Owns(o) =>
        /\ str[o].Buffer \in DOMAIN heap
        /\ heap[str[o].Buffer].live /\ heap[str[o].Buffer].kind = str[o].alloc
SoleOwners ==
    \A o, p \in Objects : Owns(o) /\ Owns(p) /\ str[o].Buffer = str[p].Buffer => o = p
NoneLeaked == \A b \in Buffers : \E o \in Objects : Owns(o) /\ str[o].Buffer = b
IInv == TypeOK /\ ~fault /\ OwnersBacked /\ SoleOwners /\ NoneLeaked /\ LengthsFit

(* A constructor writes no further than the buffer it has allocated.  create *)
(* and copy do.                                                              *)
CopyFits == \A b \in DOMAIN heap : heap[b].written <= heap[b].size

(* A WduUnicodeStr made from a string shows that string.  from_ptr shows its *)
(* spare room too.                                                           *)
ViewIsContents ==
    \A o \in Objects : str[o].live => from_ptr(str[o]) = as_slice(str[o])

(* Comparing with a UNICODE_STRING reads no further than its buffer.  It     *)
(* reads twice as far as the string goes.                                    *)
CompareFits ==
    \A o \in Objects : str[o].live /\ str[o].Buffer # 0 => eq(str[o]) <= heap[str[o].Buffer].size

(* The elements of the Vec that copy makes are freed with the string.  They  *)
(* are not.                                                                  *)
CloneFreed ==
    (\A o \in Objects : ~str[o].live) => \A b \in DOMAIN heap : ~heap[b].live
==============================================================================
