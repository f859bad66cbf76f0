------------------------------ MODULE StrikeLog ------------------------------
(***************************************************************************)
(* What the station and the server promise of lightning together, without  *)
(* the interrupt, the poll and the registers: of the events of the sensor  *)
(* some are picked up, each at most once and in their order; a report of   *)
(* one, with values no older than it, is sent at most once, may be lost,   *)
(* and once in the log stays there.                                        *)
(***************************************************************************)
EXTENDS Integers

VARIABLES
    seen,      \* events of the sensor so far
    picked,    \* the last one picked up
    open,      \* its report is being made
    way,       \* reports on the way
    log

vars == <<seen, picked, open, way, log>>

Init ==
    /\ seen = 0 /\ picked = 0 /\ open = FALSE
    /\ way = {} /\ log = {}

Occur == seen' = seen + 1 /\ UNCHANGED <<picked, open, way, log>>

PickUp ==
    /\ ~open /\ open'
    /\ picked' \in picked + 1 .. seen
    /\ UNCHANGED <<seen, way, log>>

Reports(m) ==
    /\ m.event = picked
    /\ picked <= m.distance /\ m.distance <= m.energy /\ m.energy <= seen

Send ==
    /\ open /\ ~open'
    /\ way \subseteq way'
    /\ \A m \in way' \ way : Reports(m)
    /\ \A m \in way' \ way, n \in way' \ way : m = n
    /\ UNCHANGED <<seen, picked, log>>

Lose == way' \in SUBSET way /\ UNCHANGED <<seen, picked, open, log>>

Deliver(m) ==
    /\ way' = way \ {m}
    /\ log' = log \cup {m}
    /\ UNCHANGED <<seen, picked, open>>

Next == Occur \/ PickUp \/ Send \/ Lose \/ \E m \in way : Deliver(m)

Spec == Init /\ [][Next]_vars
=============================================================================
