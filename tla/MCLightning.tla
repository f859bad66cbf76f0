----------------------------- MODULE MCLightning -----------------------------
(* A small instance of Lightning for TLC: limits that are missing, zero,     *)
(* below and above the maximum; ranges shorter and longer than the run.      *)
EXTENDS Lightning

MCLimits == {None, -1, 0, 1, 9}
MCSpans  == {1, 4}
=============================================================================
