------------------------------- MODULE Rundown -------------------------------
(* What run-down protection promises: users come and go while it is open;    *)
(* once it is closed nobody enters any more, and the closer gets through     *)
(* only when the last user has left.                                         *)
CONSTANT Users

VARIABLES inside, phase

rundownVars == <<inside, phase>>

Init == inside = {} /\ phase = "open"

Enter(u) ==
    /\ phase = "open" /\ u \notin inside
    /\ inside' = inside \cup {u}
    /\ UNCHANGED phase

Leave(u) ==
    /\ u \in inside
    /\ inside' = inside \ {u}
    /\ UNCHANGED phase

Close ==
    /\ phase = "open"
    /\ phase' = "closing"
    /\ UNCHANGED inside

Drained ==
    /\ phase = "closing" /\ inside = {}
    /\ phase' = "closed"
    /\ UNCHANGED inside

Next == (\E u \in Users : Enter(u) \/ Leave(u)) \/ Close \/ Drained

Spec == Init /\ [][Next]_rundownVars
==============================================================================
