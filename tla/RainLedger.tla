------------------------------ MODULE RainLedger ------------------------------
(***************************************************************************)
(* What the firmware promises of the rain, without its deadlines, passes   *)
(* and counters: what falls waits to be counted, is counted into the open  *)
(* window, and leaves it once, when the window closes; what has left is    *)
(* published or dropped as a whole.                                        *)
(***************************************************************************)
EXTENDS Naturals

VARIABLES waiting, open, closed, sent

vars == <<waiting, open, closed, sent>>

Init == waiting = 0 /\ open = 0 /\ closed = 0 /\ sent = 0

Fall == waiting' = waiting + 1 /\ UNCHANGED <<open, closed, sent>>

Count ==
    /\ open' = open + waiting
    /\ waiting' = 0
    /\ UNCHANGED <<closed, sent>>

Close ==
    /\ closed' = closed + open
    /\ sent' \in {sent, sent + open}
    /\ open' = 0
    /\ UNCHANGED waiting

Next == Fall \/ Count \/ Close

Spec == Init /\ [][Next]_vars
=============================================================================
