------------------------------- MODULE Station -------------------------------
(***************************************************************************)
(* The main loop of the firmware (firmware/src/main.cpp): one pass runs    *)
(* the network, then takes at most one sample and closes at most one       *)
(* window, by deadlines kept in 32-bit milliseconds that wrap.  The        *)
(* network may block a pass for many sampling intervals, and the rain      *)
(* gauge tips in an interrupt at any point of it.                          *)
(***************************************************************************)
EXTENDS Aggregator

CONSTANTS
    Wrap,       \* 2^32: millis() wraps there
    SAMPLE_INTERVAL_MS,
    PUBLISH_INTERVAL_MS,
    PassTimes,  \* how long one pass of the loop may take
    WindSpeeds, \* what getWindSpeed() may return, NaN included
    MaxTips     \* bound on the tips of the rain gauge since power-up

ASSUME StationAssumption ==
    /\ Wrap \in Nat /\ SAMPLE_INTERVAL_MS \in Nat /\ PUBLISH_INTERVAL_MS \in Nat
    /\ 0 < SAMPLE_INTERVAL_MS
    /\ 2 * SAMPLE_INTERVAL_MS <= PUBLISH_INTERVAL_MS
    /\ PUBLISH_INTERVAL_MS + SAMPLE_INTERVAL_MS < Wrap
    /\ PassTimes \subseteq Nat
    /\ WindSpeeds \subseteq Nat \cup {NaN}
    /\ NaN \notin Nat
    /\ MaxTips \in Nat

\* A window is a whole number of samples.
ASSUME WholeSamples == PUBLISH_INTERVAL_MS % SAMPLE_INTERVAL_MS = 0

VARIABLES
    pc,             \* where loop() is: "net", "sample" or "publish"
    now,            \* millis() as last read, and when the pass began
    lastSample,     \* deadlines, advanced by whole intervals
    lastPublish,
    totalRain,      \* the gauge's own counter
    lastRainTotal,  \* the counter as of the last sample
    agg,            \* the aggregator's statics
    \* What the properties need to remember.
    passTime,       \* duration of the last pass
    seed,           \* the counter when setup() read it
    rainFinalized,  \* rain of all closed windows
    rainSent        \* rain of those that were handed to the broker

vars == <<pc, now, lastSample, lastPublish, totalRain, lastRainTotal, agg,
          passTime, seed, rainFinalized, rainSent>>

Millis == 0..(Wrap - 1)

TypeOK ==
    /\ pc \in {"net", "sample", "publish"}
    /\ now \in Millis /\ lastSample \in Millis /\ lastPublish \in Millis
    /\ totalRain \in Nat /\ lastRainTotal \in Nat /\ seed \in Nat
    /\ agg \in Aggregate
    /\ passTime \in Nat
    /\ rainFinalized \in Nat /\ rainSent \in Nat

-----------------------------------------------------------------------------
\* Deliberate bug: a counter wider than 32 bits beside one that wraps.
PlusUnwrapped(a, b) == a + b

\* uint32_t arithmetic on values below Wrap.
Plus(a, b)  == IF a + b < Wrap THEN a + b ELSE a + b - Wrap
Minus(a, b) == IF a >= b THEN a - b ELSE a - b + Wrap

SampleLag  == Minus(now, lastSample)
PublishLag == Minus(now, lastPublish)

DueLate(lag, interval) == lag > interval        \* deliberate bug: off by one

Due(lag, interval) == lag >= interval

NoSample == [wind |-> NaN, totalRain |-> 0]
EmptyAggregate ==
    [samples |-> 0, rainBaseline |-> 0, windSum |-> 0, windGust |-> 0,
     windCount |-> 0, last |-> NoSample]

\* setup(): both deadlines start at the same millis(), and the rain counted so
\* far becomes the baseline.
Init ==
    /\ pc = "net"
    /\ now \in Millis
    /\ lastSample = now
    /\ lastPublish = now
    /\ totalRain \in 0..MaxTips
    /\ lastRainTotal = totalRain
    /\ agg = Reset(EmptyAggregate, totalRain)
    /\ passTime = 0
    /\ seed = totalRain
    /\ rainFinalized = 0 /\ rainSent = 0

\* The rain gauge interrupt.
RainTip ==
    /\ totalRain < MaxTips
    /\ totalRain' = totalRain + 1
    /\ UNCHANGED <<pc, now, lastSample, lastPublish, lastRainTotal, agg,
                   passTime, seed, rainFinalized, rainSent>>

\* net::loop() and the rest of the pass, of total duration d; then `now` is
\* read.  The loop never falls a whole wrap (49 days) behind its deadlines.
Network(d) ==
    /\ pc = "net"
    /\ SampleLag + d < Wrap
    /\ PublishLag + d < Wrap
    /\ now' = Plus(now, d)
    /\ passTime' = d
    /\ pc' = "sample"
    /\ UNCHANGED <<lastSample, lastPublish, totalRain, lastRainTotal, agg, seed,
                   rainFinalized, rainSent>>

\* Deliberate bugs: a deadline restarted from the present, as is common in
\* Arduino sketches.
NextSampleFromNow  == now
NextPublishFromNow == now

\* A deadline moves by one interval, so that a late pass shifts no later one.
NextSample  == Plus(lastSample, SAMPLE_INTERVAL_MS)
NextPublish == Plus(lastPublish, PUBLISH_INTERVAL_MS)

\* At most one sample per pass.
TakeSample(wind) ==
    /\ pc = "sample"
    /\ pc' = "publish"
    /\ IF Due(SampleLag, SAMPLE_INTERVAL_MS)
       THEN /\ lastSample' = NextSample
            /\ agg' = AddSample(agg, [wind |-> wind, totalRain |-> totalRain])
            /\ lastRainTotal' = totalRain
       ELSE UNCHANGED <<lastSample, agg, lastRainTotal>>
    /\ UNCHANGED <<now, lastPublish, totalRain, passTime, seed,
                   rainFinalized, rainSent>>

\* Deliberate bug: the new window starts from the gauge instead of from what
\* the closed one counted to.
NewBaselineFromGauge == totalRain
NewBaseline == lastRainTotal

\* At most one window per pass.  It is dropped when the broker is not
\* connected; the next one starts either way, from the rain it counted to.
Publish(connected) ==
    /\ pc = "publish"
    /\ pc' = "net"
    /\ IF Due(PublishLag, PUBLISH_INTERVAL_MS)
       THEN LET w == Finalize(agg, lastRainTotal)
            IN  /\ lastPublish' = NextPublish
                /\ agg' = Reset(agg, NewBaseline)
                /\ rainFinalized' = rainFinalized + w.rain
                /\ rainSent' = IF connected THEN rainSent + w.rain ELSE rainSent
       ELSE UNCHANGED <<lastPublish, agg, rainFinalized, rainSent>>
    /\ UNCHANGED <<now, lastSample, totalRain, lastRainTotal, passTime, seed>>

Loop ==
    \/ \E d \in PassTimes : Network(d)
    \/ \E wind \in WindSpeeds : TakeSample(wind)
    \/ \E connected \in BOOLEAN : Publish(connected)

Next == RainTip \/ Loop

Spec == Init /\ [][Next]_vars

\* loop() is called for ever.
FairSpec == Spec /\ WF_vars(Loop)

-----------------------------------------------------------------------------
(***************************************************************************)
(* Properties                                                              *)
(***************************************************************************)

\* A closed window holds at least one sample, so a message never repeats the
\* sensor values of an earlier one as if they were new: aggregator.cpp does
\* not clear g_last, and only the order of the two deadlines in loop() keeps
\* an empty window from being published, however long passes were blocked and
\* wherever millis() wrapped.
WindowHasSample ==
    pc = "publish" /\ Due(PublishLag, PUBLISH_INTERVAL_MS) => agg.samples >= 1

\* Every tip since setup() is in exactly one closed window, in the open one, or
\* still to be sampled: none is counted twice or falls between two windows,
\* though tips arrive between the sample and the publish of a pass.
RainCountedOnce ==
    /\ seed + rainFinalized + Finalize(agg, lastRainTotal).rain = lastRainTotal
    /\ lastRainTotal <= totalRain
    /\ rainSent <= rainFinalized

\* The inductive invariant behind WindowHasSample, in the distance from the
\* publish deadline to the sample deadline, PublishLag - SampleLag: samples run
\* ahead of a window by less than a window, and by less than a sample while the
\* window is empty.
ScheduleInv ==
    /\ PublishLag - SampleLag < PUBLISH_INTERVAL_MS
           + (IF pc = "publish" THEN SAMPLE_INTERVAL_MS ELSE 0)
    /\ agg.samples = 0 => PublishLag - SampleLag < SAMPLE_INTERVAL_MS
    /\ pc = "publish" /\ agg.samples = 0 => SampleLag < SAMPLE_INTERVAL_MS

\* The same for RainCountedOnce.
RainInv ==
    /\ seed + rainFinalized = agg.rainBaseline
    /\ agg.rainBaseline <= lastRainTotal
    /\ lastRainTotal <= totalRain
    /\ rainSent <= rainFinalized

\* The rain of the firmware, seen as a ledger.
Ledger == INSTANCE RainLedger WITH
            waiting <- totalRain - lastRainTotal,
            open    <- lastRainTotal - agg.rainBaseline,
            closed  <- rainFinalized,
            sent    <- rainSent

\* Interrupt, samples and windows implement the ledger: a step moves rain
\* forward by one stage or not at all, and a window closes with all of its own.
ImplementsLedger == Ledger!Spec

\* The mean wind of the open window never exceeds its gust: windSum, windCount
\* and windGust speak of the same samples.
MeanBelowGust == agg.windSum <= agg.windGust * agg.windCount

\* The two deadlines stay a whole number of sample intervals apart, as they
\* were at power-up: passes that block delay samples and windows but do not
\* shift one schedule against the other.
DeadlinesInPhase ==
    (SampleLag - PublishLag) % SAMPLE_INTERVAL_MS = 0

\* When passes stop blocking, the node works off the samples it is behind with:
\* from some point on no pass begins with a sample overdue.
CatchesUp ==
    <>[](passTime < SAMPLE_INTERVAL_MS)
        => <>[](pc = "net" => SampleLag < SAMPLE_INTERVAL_MS)
=============================================================================
