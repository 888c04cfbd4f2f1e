--------------------------- MODULE MCEventDriver ---------------------------
(* Instances of the event sample: who registers what, on which file.         *)
EXTENDS EventDriver

CONSTANTS r1, r2, r3, f1, f2, e1

(* One file or two.                                                          *)
OneFile == [r \in Requests |-> f1]
TwoFiles == [r \in Requests |-> IF r = r1 THEN f1 ELSE f2]

(* All wait for their IRP; or one does, and the others for one event.        *)
AllIrps == [r \in Requests |-> "irp"]
OneIrp == [r \in Requests |-> IF r = r1 THEN "irp" ELSE e1]
============================================================================
