--------------------------------- MODULE Irp ---------------------------------
(* WduIrp (src/src/io/irp.rs): the cancellation state of an IRP and what the *)
(* wrapper's methods do to it.  An IRP is a record                           *)
(*    cancel     Irp->Cancel, set by IoCancelIrp                             *)
(*    routine    Irp->CancelRoutine is the wrapper's cancel_routine          *)
(*    context    DriverContext[3]: "null", "box"                             *)
(*    box        the boxed WduIrp behind it: "none", "live", "freed"         *)
(*    completed  calls of IofCompleteRequest                                 *)
(*    faults     what the wrapper did to memory it does not own              *)
(* A fault does not stop the model: carrying on is one of the outcomes, and  *)
(* a system that stops there does nothing more.                              *)
EXTENDS Integers

Faults == {"null box", "double free"}

IrpRecord == [cancel : BOOLEAN, routine : BOOLEAN, context : {"null", "box"},
              box : {"none", "live", "freed"}, completed : Nat, faults : SUBSET Faults]

(* A request the I/O manager hands to a dispatch routine; the wrapper built  *)
(* around it (wrap) has no cancel routine of its own yet.                    *)
NewIrp == [cancel |-> FALSE, routine |-> FALSE, context |-> "null",
           box |-> "none", completed |-> 0, faults |-> {}]

complete(irp) == [irp EXCEPT !.completed = @ + 1]

(* set_context: the box moves into the IRP.  from_context makes a box of what*)
(* the IRP holds, and leaves the pointer there; it is dropped by its owner.  *)
set_context(irp) == [irp EXCEPT !.context = "box", !.box = "live"]

from_context(irp) ==
    IF irp.context = "null" THEN [irp EXCEPT !.faults = @ \cup {"null box"}] ELSE irp

DropBox(irp) ==
    [irp EXCEPT !.box = "freed",
                !.faults = IF irp.box = "freed" THEN @ \cup {"double free"} ELSE @]

DropFromContext(irp) ==
    IF irp.context = "null" THEN from_context(irp) ELSE DropBox(irp)

(* set_cancel_rtn(Some(_)) and set_cancel_rtn(None), as seen on the IRP.     *)
(* What they return is the `cancel' field of the wrapper they are called on, *)
(* whatever the IRP says.  Each is a few unsynchronised statements in the    *)
(* code, and one step here.  Some: the box is there before the routine is,   *)
(* so a cancellation in between is one before both.  None: the routine goes, *)
(* the box is freed, the pointer is cleared; a cancel routine that takes the *)
(* box in between has a freed one, as it has when it took it just before.    *)
SetCancelRtn(irp) == [set_context(irp) EXCEPT !.routine = TRUE]

ClearCancelRtn(irp) ==
    [DropFromContext(irp) EXCEPT !.routine = FALSE, !.context = "null"]

(* IoCancelIrp marks the IRP and takes its cancel routine away to call it.   *)
IoCancelIrp(irp) == [irp EXCEPT !.cancel = TRUE, !.routine = FALSE]
==============================================================================
