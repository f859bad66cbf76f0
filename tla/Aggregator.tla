----------------------------- MODULE Aggregator -----------------------------
(***************************************************************************)
(* The window aggregator of the firmware (firmware/src/aggregator.cpp): a  *)
(* record of the file's static variables and the three functions over it.  *)
(* Rain is counted in tips of the bucket, wind speeds are integers, and a  *)
(* mean is kept as its sum and its count.  Wind direction, a second mean   *)
(* over the same samples, and the other scalar sensors, which travel with  *)
(* `last`, are left out.                                                   *)
(***************************************************************************)
EXTENDS Integers

CONSTANT NaN        \* a sensor value that is not a number

\* A SensorReading.
Sample == [wind : Nat \cup {NaN}, totalRain : Nat]

Aggregate == [samples : Nat, rainBaseline : Nat, windSum : Nat, windGust : Nat,
              windCount : Nat, last : Sample]

\* Deliberate bug: the sum of the previous window is kept.
ResetKeepsSum(a, rainBaseline) ==
    [a EXCEPT !.samples = 0, !.rainBaseline = rainBaseline,
              !.windGust = 0, !.windCount = 0]

\* Start a new window.  The last sample stays where it is.
Reset(a, rainBaseline) ==
    [a EXCEPT !.samples = 0, !.rainBaseline = rainBaseline,
              !.windSum = 0, !.windGust = 0, !.windCount = 0]

\* Fold one sample into the window; wind that is not a number is skipped.
AddSample(a, r) ==
    LET valid == r.wind # NaN
    IN  [samples      |-> a.samples + 1,
         rainBaseline |-> a.rainBaseline,
         windSum      |-> IF valid THEN a.windSum + r.wind ELSE a.windSum,
         windGust     |-> IF valid /\ r.wind > a.windGust
                          THEN r.wind ELSE a.windGust,
         windCount    |-> IF valid THEN a.windCount + 1 ELSE a.windCount,
         last         |-> r]

\* Close the window: what is published.  Rain never goes negative.
Finalize(a, totalRain) ==
    [samples   |-> a.samples,
     windSum   |-> a.windSum,
     windCount |-> a.windCount,
     windGust  |-> a.windGust,
     rain      |-> IF totalRain > a.rainBaseline
                   THEN totalRain - a.rainBaseline ELSE 0,
     last      |-> a.last]

Window == [samples : Nat, windSum : Nat, windCount : Nat, windGust : Nat,
           rain : Nat, last : Sample]
=============================================================================
