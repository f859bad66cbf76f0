----------------------------- MODULE MCStatusLink -----------------------------
(* StatusLink for TLC.  A node that is powered up twice and a few faults, in  *)
(* any order, give every stale will, lost publish and redelivery a chance.    *)
EXTENDS StatusLink
=============================================================================
