----------------------------- MODULE MCRetention -----------------------------
(* Small instances of Retention and of the queries over it for TLC. *)
EXTENDS Queries, TLC

CONSTANTS s1, s2

OneStation  == {s1}
TwoStations == {s1, s2}
Symmetry    == Permutations({s1, s2})

\* Delays: stamped on arrival; queued on the way; stamped by an unset clock,
\* which puts the reading further back than any window reaches.
OnTime      == {0}
SomeLate    == {0, 1, 3}
LateOrUnset == {0, 2, 20}

\* Intervals as wide as an hour, and wider.
MCWidths  == "1h" :> 2 @@ "3h" :> 4
MCMoments == {1, 4}
NoWidths  == [name \in {} |-> 0]
NoMoments == {}
=============================================================================
