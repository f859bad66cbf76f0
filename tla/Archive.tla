------------------------------- MODULE Archive -------------------------------
(***************************************************************************)
(* What the measurement store promises, without its tables, schedule,      *)
(* windows, clocks and faults: a reading, once received, can be read on    *)
(* its own until it is forgotten; the store forgets oldest first, and only *)
(* what a summary has counted before or what is excused from it (a summary *)
(* failed while the reading was there, or it was past the retention on     *)
(* arrival).                                                               *)
(***************************************************************************)
EXTENDS Integers

VARIABLES
    received,    \* every reading so far
    kept,        \* those that can still be read one by one
    summarised,  \* those a daily summary has counted
    excused      \* those that may be forgotten without

vars == <<received, kept, summarised, excused>>

Init ==
    /\ received = {} /\ kept = {}
    /\ summarised = {} /\ excused = {}

Receive(r) ==
    /\ r \notin received
    /\ received' = received \cup {r}
    /\ kept' = kept \cup {r}
    /\ excused' \in {excused, excused \cup {r}}
    /\ UNCHANGED summarised

Summarise ==
    /\ summarised \subseteq summarised'
    /\ summarised' \subseteq summarised \cup kept
    /\ UNCHANGED <<received, kept, excused>>

Excuse ==
    /\ excused \subseteq excused'
    /\ excused' \subseteq excused \cup kept
    /\ UNCHANGED <<received, kept, summarised>>

Forget ==
    /\ kept' \subseteq kept
    /\ kept \ kept' \subseteq summarised \cup excused
    /\ \A r \in kept \ kept', s \in kept' : r.ts < s.ts
    /\ UNCHANGED <<received, summarised, excused>>

Next ==
    \/ \E r \in received' : Receive(r)
    \/ Summarise
    \/ Excuse
    \/ Forget

Spec == Init /\ [][Next]_vars
=============================================================================
