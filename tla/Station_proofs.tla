---------------------------- MODULE Station_proofs ----------------------------
(***************************************************************************)
(* Proofs about Station: no window is closed without a sample, and every   *)
(* tip of the rain gauge is counted once, for every pair of intervals,     *)
(* every width of the millisecond counter and every duration of a pass.    *)
(***************************************************************************)
EXTENDS Station, TLAPS

USE StationAssumption

\* Wrapping arithmetic: values stay in range, and a lag grows by the time that
\* passes and shrinks by the interval a deadline moves, as long as the true
\* value fits.
LEMMA WrapArithmetic ==
    ASSUME NEW a \in Millis, NEW b \in Millis, NEW d \in Nat
    PROVE  /\ Minus(a, b) \in Millis
           /\ d < Wrap => Plus(a, d) \in Millis
           /\ Minus(a, b) + d < Wrap => Minus(Plus(a, d), b) = Minus(a, b) + d
           /\ Minus(a, b) >= d => Minus(a, Plus(b, d)) = Minus(a, b) - d
           /\ Minus(a, a) = 0
  BY DEF Minus, Plus, Millis

\* A new window stays within the aggregator's type.
LEMMA ResetType ==
    ASSUME NEW a \in Aggregate, NEW base \in Nat
    PROVE  Reset(a, base) \in Aggregate
  BY DEF Aggregate, Reset

\* So does a folded sample, valid or not.
LEMMA AddSampleType ==
    ASSUME NEW a \in Aggregate, NEW r \in Sample
    PROVE  AddSample(a, r) \in Aggregate
<1> DEFINE valid == r.wind # NaN
           sum   == IF valid THEN a.windSum + r.wind ELSE a.windSum
           count == IF valid THEN a.windCount + 1 ELSE a.windCount
           gust  == IF valid /\ r.wind > a.windGust THEN r.wind ELSE a.windGust
<1>1. valid => r.wind \in Nat
  BY DEF Sample
<1>2. sum \in Nat /\ count \in Nat /\ gust \in Nat
  BY <1>1 DEF Aggregate
<1>3. a.samples + 1 \in Nat /\ a.rainBaseline \in Nat
  BY DEF Aggregate
<1>4. AddSample(a, r) = [samples |-> a.samples + 1,
                         rainBaseline |-> a.rainBaseline, windSum |-> sum,
                         windGust |-> gust, windCount |-> count, last |-> r]
  BY DEF AddSample
<1> HIDE DEF valid, sum, count, gust
<1> QED
  BY <1>2, <1>3, <1>4 DEF Aggregate

LEMMA InitTypeOK == Init => TypeOK
<1> SUFFICES ASSUME Init PROVE TypeOK
  OBVIOUS
<1>1. EmptyAggregate \in Aggregate /\ NoSample \in Sample
  BY DEF EmptyAggregate, Aggregate, NoSample, Sample
<1>2. agg \in Aggregate
  BY <1>1, ResetType DEF Init
<1> QED
  BY <1>2 DEF Init, TypeOK

LEMMA NextTypeOK == TypeOK /\ [Next]_vars => TypeOK'
<1> SUFFICES ASSUME TypeOK, [Next]_vars PROVE TypeOK'
  OBVIOUS
<1>1. CASE RainTip
  BY <1>1 DEF RainTip, TypeOK
<1>2. ASSUME NEW d \in PassTimes, Network(d) PROVE TypeOK'
  <2>1. SampleLag \in Millis /\ d \in Nat
    BY WrapArithmetic DEF TypeOK, SampleLag
  <2>2. d < Wrap
    BY <1>2, <2>1 DEF Network, Millis
  <2>3. now' \in Millis
    BY <1>2, <2>1, <2>2, WrapArithmetic DEF Network, TypeOK
  <2> QED
    BY <1>2, <2>1, <2>3 DEF Network, TypeOK
<1>3. ASSUME NEW wind \in WindSpeeds, TakeSample(wind) PROVE TypeOK'
  <2>1. NextSample \in Millis
    <3>1. SAMPLE_INTERVAL_MS < Wrap
      OBVIOUS
    <3> QED
      BY <3>1, WrapArithmetic DEF TypeOK, NextSample
  <2>2. AddSample(agg, [wind |-> wind, totalRain |-> totalRain]) \in Aggregate
    <3>1. [wind |-> wind, totalRain |-> totalRain] \in Sample
      BY DEF TypeOK, Sample
    <3> QED
      BY <3>1, AddSampleType DEF TypeOK
  <2> QED
    BY <1>3, <2>1, <2>2 DEF TakeSample, TypeOK
<1>4. ASSUME NEW connected \in BOOLEAN, Publish(connected) PROVE TypeOK'
  <2>1. NextPublish \in Millis
    BY WrapArithmetic DEF TypeOK, NextPublish
  <2>2. Reset(agg, NewBaseline) \in Aggregate
    BY ResetType DEF TypeOK, NewBaseline
  <2>3. Finalize(agg, lastRainTotal).rain \in Nat
    BY DEF TypeOK, Finalize, Aggregate
  <2> QED
    BY <1>4, <2>1, <2>2, <2>3 DEF Publish, TypeOK
<1>5. CASE UNCHANGED vars
  BY <1>5 DEF vars, TypeOK
<1> QED
  BY <1>1, <1>2, <1>3, <1>4, <1>5 DEF Next, Loop

-----------------------------------------------------------------------------
LEMMA InitSchedule == Init => ScheduleInv
<1> SUFFICES ASSUME Init PROVE ScheduleInv
  OBVIOUS
<1>1. SampleLag = 0 /\ PublishLag = 0
  BY WrapArithmetic DEF Init, SampleLag, PublishLag
<1> QED
  BY <1>1 DEF Init, ScheduleInv

\* Time that passes moves both lags alike.
LEMMA NetworkLags ==
    ASSUME TypeOK, NEW d \in PassTimes, Network(d)
    PROVE  /\ SampleLag' = SampleLag + d
           /\ PublishLag' = PublishLag + d
  BY WrapArithmetic DEF TypeOK, Network, SampleLag, PublishLag

LEMMA NextSchedule == TypeOK /\ ScheduleInv /\ [Next]_vars => ScheduleInv'
<1> SUFFICES ASSUME TypeOK, ScheduleInv, [Next]_vars PROVE ScheduleInv'
  OBVIOUS
<1>1. SampleLag \in Millis /\ PublishLag \in Millis
  BY WrapArithmetic DEF TypeOK, SampleLag, PublishLag
<1>2. SampleLag \in Nat /\ PublishLag \in Nat
  BY <1>1 DEF Millis
<1>3. ASSUME NEW d \in PassTimes, Network(d) PROVE ScheduleInv'
  <2>1. SampleLag' = SampleLag + d /\ PublishLag' = PublishLag + d /\ d \in Nat
    BY <1>3, NetworkLags
  <2> QED
    BY <1>2, <1>3, <2>1 DEF Network, ScheduleInv
<1>4. ASSUME NEW wind \in WindSpeeds, TakeSample(wind) PROVE ScheduleInv'
  <2>1. PublishLag' = PublishLag
    BY <1>4 DEF TakeSample, PublishLag
  <2>2. CASE Due(SampleLag, SAMPLE_INTERVAL_MS)
    <3>1. SampleLag' = SampleLag - SAMPLE_INTERVAL_MS
      BY <1>4, <2>2, WrapArithmetic
         DEF TypeOK, TakeSample, SampleLag, Due, NextSample
    <3>2. agg'.samples = agg.samples + 1 /\ agg.samples \in Nat
      BY <1>4, <2>2 DEF TakeSample, AddSample, TypeOK, Aggregate
    <3> QED
      BY <1>2, <1>4, <2>1, <3>1, <3>2 DEF TakeSample, ScheduleInv
  <2>3. CASE ~Due(SampleLag, SAMPLE_INTERVAL_MS)
    <3>1. SampleLag' = SampleLag /\ agg' = agg
      BY <1>4, <2>3 DEF TakeSample, SampleLag
    <3> QED
      BY <1>2, <1>4, <2>1, <2>3, <3>1 DEF TakeSample, ScheduleInv, Due
  <2> QED
    BY <2>2, <2>3
<1>5. ASSUME NEW connected \in BOOLEAN, Publish(connected) PROVE ScheduleInv'
  <2>1. SampleLag' = SampleLag
    BY <1>5 DEF Publish, SampleLag
  <2>2. CASE Due(PublishLag, PUBLISH_INTERVAL_MS)
    <3>1. PublishLag' = PublishLag - PUBLISH_INTERVAL_MS
      BY <1>5, <2>2, WrapArithmetic
         DEF TypeOK, Publish, PublishLag, Due, NextPublish
    <3> QED
      BY <1>2, <1>5, <2>1, <3>1 DEF Publish, ScheduleInv
  <2>3. CASE ~Due(PublishLag, PUBLISH_INTERVAL_MS)
    <3>1. PublishLag' = PublishLag /\ agg' = agg
      BY <1>5, <2>3 DEF Publish, PublishLag
    <3> QED
      BY <1>2, <1>5, <2>1, <2>3, <3>1 DEF Publish, ScheduleInv, Due
  <2> QED
    BY <2>2, <2>3
<1>6. ASSUME RainTip \/ UNCHANGED vars PROVE ScheduleInv'
  BY <1>6 DEF RainTip, vars, ScheduleInv, SampleLag, PublishLag
<1> QED
  BY <1>3, <1>4, <1>5, <1>6 DEF Next, Loop

\* The types of the loop's state, deadlines below the wrap included.
THEOREM TypeCorrect == Spec => []TypeOK
  BY InitTypeOK, NextTypeOK, PTL DEF Spec

\* Multiples of a modulus, and how differences keep them.
LEMMA Multiple ==
    ASSUME NEW s \in Nat \ {0}, NEW k \in Int
    PROVE  (s * k) % s = 0
<1> DEFINE n == s * k
           q == n \div s
           m == n % s
<1>1. n \in Int /\ q \in Int /\ m \in 0..(s - 1) /\ n = s * q + m
  OBVIOUS
<1>2. s * (k - q) = m
  BY <1>1
<1> HIDE DEF n, q, m
<1>3. CASE k - q >= 1
  <2>1. k - q - 1 \in Nat /\ s * (k - q - 1) >= 0
    BY <1>1, <1>3
  <2>2. s * (k - q) = s + s * (k - q - 1)
    BY <1>1
  <2> QED
    BY <1>1, <1>2, <2>1, <2>2
<1>4. CASE q - k >= 1
  <2>1. q - k - 1 \in Nat /\ s * (q - k - 1) >= 0
    BY <1>1, <1>4
  <2>2. s * (k - q) = -s - s * (q - k - 1)
    BY <1>1
  <2> QED
    BY <1>1, <1>2, <2>1, <2>2
<1>5. CASE k = q
  BY <1>1, <1>2, <1>5 DEF n, m
<1> QED
  BY <1>1, <1>3, <1>4, <1>5

LEMMA MultiplesDiffer ==
    ASSUME NEW s \in Nat \ {0}, NEW x \in Int, NEW y \in Int,
           x % s = 0, y % s = 0
    PROVE  (x - y) % s = 0 /\ (x + y) % s = 0
<1> DEFINE p == x \div s
           q == y \div s
<1>1. p \in Int /\ q \in Int /\ x = s * p /\ y = s * q
  OBVIOUS
<1> HIDE DEF p, q
<1>2. x - y = s * (p - q) /\ x + y = s * (p + q)
  BY <1>1
<1>3. (s * (p - q)) % s = 0 /\ (s * (p + q)) % s = 0
  BY <1>1, Multiple
<1> QED
  BY <1>2, <1>3

LEMMA NextInPhase == TypeOK /\ DeadlinesInPhase /\ [Next]_vars => DeadlinesInPhase'
<1> SUFFICES ASSUME TypeOK, DeadlinesInPhase, [Next]_vars PROVE DeadlinesInPhase'
  OBVIOUS
<1> DEFINE gap == SampleLag - PublishLag
<1>1. SampleLag \in Int /\ PublishLag \in Int
  BY WrapArithmetic DEF TypeOK, SampleLag, PublishLag, Millis
<1>2. gap \in Int /\ gap % SAMPLE_INTERVAL_MS = 0
  BY <1>1 DEF DeadlinesInPhase
<1>3. ASSUME NEW d \in PassTimes, Network(d) PROVE gap' = gap
  <2>1. SampleLag' = SampleLag + d /\ PublishLag' = PublishLag + d /\ d \in Int
    BY <1>3, NetworkLags
  <2> QED
    BY <1>1, <2>1
<1>4. ASSUME NEW wind \in WindSpeeds, TakeSample(wind)
      PROVE  gap' = gap \/ gap' = gap - SAMPLE_INTERVAL_MS
  <2>1. PublishLag' = PublishLag
    BY <1>4 DEF TakeSample, PublishLag
  <2>2. CASE Due(SampleLag, SAMPLE_INTERVAL_MS)
    <3>1. SampleLag' = SampleLag - SAMPLE_INTERVAL_MS
      BY <1>4, <2>2, WrapArithmetic
         DEF TypeOK, TakeSample, SampleLag, Due, NextSample
    <3> QED
      BY <1>1, <2>1, <3>1
  <2>3. CASE ~Due(SampleLag, SAMPLE_INTERVAL_MS)
    BY <1>4, <2>1, <2>3 DEF TakeSample, SampleLag
  <2> QED
    BY <2>2, <2>3
<1>5. ASSUME NEW connected \in BOOLEAN, Publish(connected)
      PROVE  gap' = gap \/ gap' = gap + PUBLISH_INTERVAL_MS
  <2>1. SampleLag' = SampleLag
    BY <1>5 DEF Publish, SampleLag
  <2>2. CASE Due(PublishLag, PUBLISH_INTERVAL_MS)
    <3>1. PublishLag' = PublishLag - PUBLISH_INTERVAL_MS
      BY <1>5, <2>2, WrapArithmetic
         DEF TypeOK, Publish, PublishLag, Due, NextPublish
    <3> QED
      BY <1>1, <2>1, <3>1
  <2>3. CASE ~Due(PublishLag, PUBLISH_INTERVAL_MS)
    BY <1>5, <2>1, <2>3 DEF Publish, PublishLag
  <2> QED
    BY <2>2, <2>3
<1>6. ASSUME RainTip \/ UNCHANGED vars PROVE gap' = gap
  BY <1>6 DEF RainTip, vars, SampleLag, PublishLag
<1>7. \/ gap' = gap
      \/ gap' = gap - SAMPLE_INTERVAL_MS
      \/ gap' = gap + PUBLISH_INTERVAL_MS
  BY <1>3, <1>4, <1>5, <1>6 DEF Next, Loop
<1>8. /\ SAMPLE_INTERVAL_MS \in Nat \ {0} /\ PUBLISH_INTERVAL_MS \in Int
      /\ SAMPLE_INTERVAL_MS % SAMPLE_INTERVAL_MS = 0
      /\ PUBLISH_INTERVAL_MS % SAMPLE_INTERVAL_MS = 0
  <2>1. SAMPLE_INTERVAL_MS * 1 = SAMPLE_INTERVAL_MS
    OBVIOUS
  <2> QED
    BY <2>1, Multiple, WholeSamples
<1>9. gap' % SAMPLE_INTERVAL_MS = 0
  BY <1>2, <1>7, <1>8, MultiplesDiffer
<1> QED
  BY <1>9 DEF DeadlinesInPhase

\* main.loop: blocking passes shift neither schedule against the other, the two deadlines
\* stay a whole number of sample intervals apart.
THEOREM DeadlinesStayInPhase == Spec => []DeadlinesInPhase
<1>1. Init => DeadlinesInPhase
  <2> SUFFICES ASSUME Init PROVE DeadlinesInPhase
    OBVIOUS
  <2>1. SampleLag = 0 /\ PublishLag = 0
    BY WrapArithmetic DEF Init, SampleLag, PublishLag
  <2>2. (SAMPLE_INTERVAL_MS * 0) % SAMPLE_INTERVAL_MS = 0
    BY Multiple
  <2> QED
    BY <2>1, <2>2 DEF DeadlinesInPhase
<1> QED
  BY <1>1, NextInPhase, TypeCorrect, PTL DEF Spec

\* main.loop: no window is closed without a sample of its own.
THEOREM EveryWindowSampled == Spec => []WindowHasSample
<1>1. Init => TypeOK /\ ScheduleInv
  BY InitTypeOK, InitSchedule
<1>2. TypeOK /\ ScheduleInv /\ [Next]_vars => (TypeOK /\ ScheduleInv)'
  BY NextTypeOK, NextSchedule
<1>3. TypeOK /\ ScheduleInv => WindowHasSample
  <2> SUFFICES ASSUME TypeOK, ScheduleInv, pc = "publish",
                      PublishLag >= PUBLISH_INTERVAL_MS, agg.samples = 0
               PROVE  FALSE
    BY DEF WindowHasSample, Due, TypeOK, Aggregate
  <2>1. SampleLag \in Millis /\ PublishLag \in Millis
    BY WrapArithmetic DEF TypeOK, SampleLag, PublishLag
  <2> QED
    BY <2>1 DEF ScheduleInv, Millis
<1> QED
  BY <1>1, <1>2, <1>3, PTL DEF Spec

-----------------------------------------------------------------------------
LEMMA InitRain == Init => RainInv
  BY DEF Init, RainInv, Reset, EmptyAggregate, NoSample

LEMMA NextRain == TypeOK /\ RainInv /\ [Next]_vars => RainInv'
<1> SUFFICES ASSUME TypeOK, RainInv, [Next]_vars PROVE RainInv'
  OBVIOUS
<1> USE DEF TypeOK, RainInv, Aggregate
<1>1. CASE RainTip
  BY <1>1 DEF RainTip
<1>2. ASSUME NEW d \in PassTimes, Network(d) PROVE RainInv'
  BY <1>2 DEF Network
<1>3. ASSUME NEW wind \in WindSpeeds, TakeSample(wind) PROVE RainInv'
  <2>1. agg'.rainBaseline = agg.rainBaseline
    BY <1>3 DEF TakeSample, AddSample
  <2> QED
    BY <1>3, <2>1 DEF TakeSample
<1>4. ASSUME NEW connected \in BOOLEAN, Publish(connected) PROVE RainInv'
  <2> DEFINE w == Finalize(agg, lastRainTotal)
  <2>1. w.rain = lastRainTotal - agg.rainBaseline
    BY DEF Finalize
  <2>2. Reset(agg, NewBaseline).rainBaseline = lastRainTotal
    BY DEF Reset, NewBaseline
  <2> HIDE DEF w
  <2>3. CASE Due(PublishLag, PUBLISH_INTERVAL_MS)
    <3>1. /\ agg'.rainBaseline = lastRainTotal
          /\ rainFinalized' = rainFinalized + w.rain
          /\ rainSent' = IF connected THEN rainSent + w.rain ELSE rainSent
      BY <1>4, <2>2, <2>3 DEF Publish, w
    <3> QED
      BY <1>4, <2>1, <3>1 DEF Publish
  <2>4. CASE ~Due(PublishLag, PUBLISH_INTERVAL_MS)
    BY <1>4, <2>4 DEF Publish
  <2> QED
    BY <2>3, <2>4
<1>5. CASE UNCHANGED vars
  BY <1>5 DEF vars
<1> QED
  BY <1>1, <1>2, <1>3, <1>4, <1>5 DEF Next, Loop

\* main.loop and aggregator.cpp: every tip of the gauge is counted once.
THEOREM RainConserved == Spec => []RainCountedOnce
<1>1. Init => TypeOK /\ RainInv
  BY InitTypeOK, InitRain
<1>2. TypeOK /\ RainInv /\ [Next]_vars => (TypeOK /\ RainInv)'
  BY NextTypeOK, NextRain
<1>3. TypeOK /\ RainInv => RainCountedOnce
  BY DEF TypeOK, RainInv, RainCountedOnce, Finalize, Aggregate
<1> QED
  BY <1>1, <1>2, <1>3, PTL DEF Spec

\* Every step of the firmware is a step of the rain ledger, or none.
LEMMA LedgerStep == TypeOK /\ RainInv /\ [Next]_vars => [Ledger!Next]_Ledger!vars
<1> SUFFICES ASSUME TypeOK, RainInv, [Next]_vars
             PROVE  Ledger!Next \/ UNCHANGED Ledger!vars
  OBVIOUS
<1> USE DEF TypeOK, RainInv, Aggregate
<1>1. CASE RainTip
  BY <1>1 DEF RainTip, Ledger!Next, Ledger!Fall
<1>2. ASSUME NEW d \in PassTimes, Network(d) PROVE UNCHANGED Ledger!vars
  BY <1>2 DEF Network, Ledger!vars
<1>3. ASSUME NEW wind \in WindSpeeds, TakeSample(wind)
      PROVE  Ledger!Next \/ UNCHANGED Ledger!vars
  <2>1. CASE Due(SampleLag, SAMPLE_INTERVAL_MS)
    <3>1. agg'.rainBaseline = agg.rainBaseline
      BY <1>3, <2>1 DEF TakeSample, AddSample
    <3> QED
      BY <1>3, <2>1, <3>1 DEF TakeSample, Ledger!Next, Ledger!Count
  <2>2. CASE ~Due(SampleLag, SAMPLE_INTERVAL_MS)
    BY <1>3, <2>2 DEF TakeSample, Ledger!vars
  <2> QED
    BY <2>1, <2>2
<1>4. ASSUME NEW connected \in BOOLEAN, Publish(connected)
      PROVE  Ledger!Next \/ UNCHANGED Ledger!vars
  <2>1. CASE Due(PublishLag, PUBLISH_INTERVAL_MS)
    <3>1. agg'.rainBaseline = lastRainTotal
      BY <1>4, <2>1 DEF Publish, Reset, NewBaseline
    <3>2. Finalize(agg, lastRainTotal).rain = lastRainTotal - agg.rainBaseline
      BY DEF Finalize
    <3> QED
      BY <1>4, <2>1, <3>1, <3>2 DEF Publish, Ledger!Next, Ledger!Close
  <2>2. CASE ~Due(PublishLag, PUBLISH_INTERVAL_MS)
    BY <1>4, <2>2 DEF Publish, Ledger!vars
  <2> QED
    BY <2>1, <2>2
<1>5. CASE UNCHANGED vars
  BY <1>5 DEF vars, Ledger!vars
<1> QED
  BY <1>1, <1>2, <1>3, <1>4, <1>5 DEF Next, Loop

\* The firmware implements the rain ledger.
THEOREM Implementation == Spec => ImplementsLedger
<1>1. Init => TypeOK /\ RainInv /\ Ledger!Init
  BY InitTypeOK, InitRain DEF Init, Reset, EmptyAggregate, Ledger!Init
<1>2. TypeOK /\ RainInv /\ [Next]_vars => (TypeOK /\ RainInv)'
  BY NextTypeOK, NextRain
<1> QED
  BY <1>1, <1>2, LedgerStep, PTL DEF Spec, Ledger!Spec, ImplementsLedger


-----------------------------------------------------------------------------
\* Folding a speed v into a window whose gust is g keeps the mean below it.
LEMMA MeanFold ==
    ASSUME NEW s \in Nat, NEW c \in Nat, NEW g \in Nat, NEW v \in Nat,
           s <= g * c
    PROVE  s + v <= (IF v > g THEN v ELSE g) * (c + 1)
<1>1. CASE v > g
  <2>1. g * c <= v * c
    BY <1>1
  <2>2. v * (c + 1) = v * c + v
    OBVIOUS
  <2> QED
    BY <1>1, <2>1, <2>2
<1>2. CASE ~(v > g)
  <2>1. g * (c + 1) = g * c + g
    OBVIOUS
  <2> QED
    BY <1>2, <2>1
<1> QED
  BY <1>1, <1>2

\* aggregator.cpp: the published mean wind never exceeds the published gust.
THEOREM MeanNeverAboveGust == Spec => []MeanBelowGust
<1>1. Init => TypeOK /\ MeanBelowGust
  <2>1. Init => MeanBelowGust
    BY DEF Init, MeanBelowGust, Reset, EmptyAggregate
  <2> QED
    BY <2>1, InitTypeOK
<1>2. TypeOK /\ MeanBelowGust /\ [Next]_vars => (TypeOK /\ MeanBelowGust)'
  <2> SUFFICES ASSUME TypeOK, MeanBelowGust, [Next]_vars PROVE MeanBelowGust'
    BY NextTypeOK
  <2>1. ASSUME NEW wind \in WindSpeeds, TakeSample(wind) PROVE MeanBelowGust'
    <3> DEFINE r == [wind |-> wind, totalRain |-> totalRain]
    <3>1. /\ agg.windSum \in Nat /\ agg.windGust \in Nat
          /\ agg.windCount \in Nat
      BY DEF TypeOK, Aggregate
    <3>2. CASE agg' = agg
      BY <3>2 DEF MeanBelowGust
    <3>3. CASE agg' = AddSample(agg, r) /\ wind = NaN
      BY <3>3 DEF AddSample, MeanBelowGust
    <3>4. CASE agg' = AddSample(agg, r) /\ wind # NaN
      <4>1. wind \in Nat
        BY <3>4
      <4>2. agg.windSum + wind <= (IF wind > agg.windGust THEN wind ELSE agg.windGust)
                                     * (agg.windCount + 1)
        BY <3>1, <4>1, MeanFold DEF MeanBelowGust
      <4> QED
        BY <3>4, <4>2 DEF AddSample, MeanBelowGust
    <3> QED
      BY <2>1, <3>2, <3>3, <3>4 DEF TakeSample
  <2>2. ASSUME NEW connected \in BOOLEAN, Publish(connected) PROVE MeanBelowGust'
    <3>1. CASE agg' = agg
      BY <3>1 DEF MeanBelowGust
    <3>2. CASE agg' = Reset(agg, NewBaseline)
      BY <3>2 DEF Reset, MeanBelowGust, TypeOK, Aggregate
    <3> QED
      BY <2>2, <3>1, <3>2 DEF Publish
  <2>3. ASSUME \/ RainTip
               \/ \E d \in PassTimes : Network(d)
               \/ UNCHANGED vars
        PROVE  MeanBelowGust'
    BY <2>3 DEF RainTip, Network, vars, MeanBelowGust
  <2> QED
    BY <2>1, <2>2, <2>3 DEF Next, Loop
<1> QED
  BY <1>1, <1>2, PTL DEF Spec

=============================================================================
