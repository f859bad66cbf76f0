----------------------------- MODULE MCDashboard -----------------------------
(* A small instance of Dashboard for TLC.  The sparks are handled as the      *)
(* history is, and lightning as the summary is: the instance leaves them out. *)
EXTENDS Dashboard

MCUnits    == {"metric", "imperial"}
MCRanges   == {"12h", "7d"}
MCShort    == {"12h"}
MCRequests == {"now", "today", "summary", "history", "forecast"}
=============================================================================
