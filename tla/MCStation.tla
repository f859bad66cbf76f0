------------------------------ MODULE MCStation ------------------------------
(* A small instance of Station for TLC: passes that keep up with the sampling *)
(* interval and passes blocked for several publish intervals, and a clock that *)
(* wraps after a few windows.                                                  *)
EXTENDS Station

MCPassTimes  == {1, 9}
MCWindSpeeds == {NaN, 2}
=============================================================================
