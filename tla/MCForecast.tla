----------------------------- MODULE MCForecast -----------------------------
(* Small instances of Forecast for TLC.  As in the code, openmeteo returns    *)
(* whole days and a bit more than nws, which starts at the hour.              *)
EXTENDS Forecast, TLC

CONSTANTS openmeteo, nws

MCSources == {openmeteo, nws}

ShortAlign == openmeteo :> 2 @@ nws :> 1    \* days of two points
ShortSpan  == openmeteo :> 4 @@ nws :> 3

DayAlign == openmeteo :> 4 @@ nws :> 1      \* days of four points
DaySpan  == openmeteo :> 8 @@ nws :> 6
=============================================================================
