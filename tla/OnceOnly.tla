------------------------------ MODULE OnceOnly ------------------------------
(***************************************************************************)
(* What signed requests promise, with the mechanism left out: a request is *)
(* performed at most once, whatever the network does to its copies.        *)
(***************************************************************************)
EXTENDS Naturals

CONSTANT Request
VARIABLE performed   \* performed[r]: how often request r was performed

Init == performed = [r \in Request |-> 0]

Perform(r) ==
    /\ performed[r] = 0
    /\ performed' = [performed EXCEPT ![r] = 1]

Next == \E r \in Request : Perform(r)

Spec == Init /\ [][Next]_performed
=============================================================================
