------------------------------ MODULE Retention ------------------------------
(***************************************************************************)
(* The measurement store of the server: the raw readings, the hourly and   *)
(* daily rollups computed from them, and the maintenance run that keeps    *)
(* the rollups up to date and prunes old raw readings, interleaved with    *)
(* the ingest of MQTT messages and with faults of the process             *)
(* (server/main.go, server/internal/store, server/internal/ingest).        *)
(*                                                                         *)
(* One unit of time is one period of the maintenance ticker.  A rollup     *)
(* table is the set of the readings its rows summarise: the row of a       *)
(* bucket aggregates the members whose timestamp falls in that bucket, and *)
(* since COUNT is at least one, a bucket has a row iff it has a member.    *)
(* What AVG, MIN, MAX and SUM return is a function of that set.            *)
(***************************************************************************)
EXTENDS Integers

CONSTANTS
    Stations,       \* station_id values
    Hour, Day,      \* bucket lengths
    HourlyWindow,   \* 9 days: how far back RollupHourly reaches
    Retention,      \* cfg.RetentionDays; 0 disables pruning
    RetentionSlack, \* 2 days: how far RollupDaily reaches past Retention
    AllRaw,         \* 3650 days: the reach of RollupDaily without pruning
    EventDelays,    \* delays between a reading's timestamp and its arrival
    MaxGap,         \* longest time between two daily rollups (outages too)
    MaxNow, MaxRows, MaxFaults  \* bounds on counters

ASSUME RetentionAssumption ==
    /\ Hour \in Nat \ {0}
    /\ Day \in Nat \ {0}
    /\ HourlyWindow \in Nat
    /\ Retention \in Nat
    /\ RetentionSlack \in Nat
    /\ AllRaw \in Nat
    /\ EventDelays \subseteq Int
    /\ MaxGap \in Nat
    /\ MaxNow \in Nat /\ MaxRows \in Nat /\ MaxFaults \in Nat

\* No outage is longer than the two days RollupDaily reaches past Retention.
ASSUME GapAssumption == MaxGap <= RetentionSlack

VARIABLES
    now,        \* the server's clock
    pc,         \* where the maintenance goroutine is, or "down"
    runNow,     \* `now` as fixed at the start of runMaintenance
    ticker,     \* its channel (capacity one), or "none" before it is created
    faults,     \* failed statements and crashes so far
    nextId,     \* next value of readings.id
    raw,        \* table readings
    hourly,     \* readings summarised by table readings_hourly
    daily,      \* readings summarised by table readings_daily
    \* What the properties need to remember; no action reads it but Tick,
    \* whose bound on outages is an assumption about the environment.
    received,   \* every reading ever stored
    captured,   \* every reading ever summarised by a daily row
    missed,     \* readings present while a daily rollup failed
    hourlyRun,  \* last successful hourly rollup: its `since`, what it followed
    dailyRun,   \* the same for the daily rollup
    lastDaily,  \* `now` of the last maintenance run that tried RollupDaily
    prunedTo    \* readings older than this have been deleted

db   == <<raw, hourly, daily, nextId>>
hist == <<received, captured, missed, hourlyRun, dailyRun, lastDaily, prunedTo>>
vars == <<now, pc, runNow, ticker, faults, db, hist>>

Reading == [station : Stations, id : Nat, ts : Int, received_at : Nat]
Run     == [since : Int, rows : SUBSET Reading]

TypeOK ==
    /\ now \in Nat
    /\ pc \in {"down", "idle", "hourly", "daily", "prune"}
    /\ runNow \in Nat
    /\ ticker \in {"none", "empty", "full"}
    /\ faults \in Nat
    /\ nextId \in Nat
    /\ raw \subseteq Reading
    /\ hourly \subseteq Reading
    /\ daily \subseteq Reading
    /\ received \subseteq Reading
    /\ captured \subseteq Reading
    /\ missed \subseteq Reading
    /\ hourlyRun \in Run
    /\ dailyRun \in Run
    /\ lastDaily \in Nat
    /\ prunedTo \in Int

-----------------------------------------------------------------------------
\* Start of the bucket of length len that holds the reading: substr(ts, 1, 13)
\* and substr(ts, 1, 10) with the rest of the timestamp zeroed.
BucketStart(r, len) == r.ts - (r.ts % len)

\* A deliberate bug: the PRIMARY KEY of the rollup tables without station_id.
SameBucketAnyStation(r, s, len) == BucketStart(r, len) = BucketStart(s, len)

SameBucket(r, s, len) ==
    /\ r.station = s.station
    /\ BucketStart(r, len) = BucketStart(s, len)

\* INSERT OR REPLACE ... SELECT ... FROM readings WHERE ts >= since GROUP BY
\* station_id, bucket: the row of every bucket that has a selected reading is
\* replaced by the aggregate of the selected readings of that bucket.
SelectedAfter(since) == {r \in raw : r.ts > since}   \* deliberate bug: ts > ?

Selected(since) == {r \in raw : r.ts >= since}

Rollup(table, len, since) ==
    {r \in table : \A s \in Selected(since) : ~SameBucket(r, s, len)}
        \cup Selected(since)

HourlySince == runNow - HourlyWindow
DailySinceNoSlack == runNow - Retention   \* deliberate bug: no 2-day slack
DailySince  == IF Retention > 0 THEN runNow - (Retention + RetentionSlack)
                                ELSE runNow - AllRaw
\* Deliberate bugs: half the retention; a second look at the clock.
PruneBeforeTooLate == runNow - Retention \div 2
PruneBeforeByClock == now - Retention

PruneBefore == runNow - Retention

-----------------------------------------------------------------------------
Init ==
    /\ now = 0
    /\ pc = "down"
    /\ runNow = 0
    /\ ticker = "none"
    /\ faults = 0
    /\ nextId = 1
    /\ raw = {} /\ hourly = {} /\ daily = {}
    /\ received = {} /\ captured = {} /\ missed = {}
    /\ hourlyRun = [since |-> 0, rows |-> {}]
    /\ dailyRun = [since |-> 0, rows |-> {}]
    /\ lastDaily = 0
    /\ prunedTo = -Retention

Running == pc \in {"hourly", "daily", "prune"}

\* Time passes; the ticker puts a tick in its channel and drops it when one is
\* still there.  A run of maintenance lasts less than two periods, and no
\* outage keeps the daily rollup from being tried for more than MaxGap.
Tick ==
    /\ now < MaxNow
    /\ Running => now <= runNow
    /\ now < lastDaily + MaxGap
    /\ now' = now + 1
    /\ ticker' = IF ticker = "none" THEN "none" ELSE "full"
    /\ UNCHANGED <<pc, runNow, faults, db, hist>>

\* The event time of a reading: the timestamp it carries, which lies `delay`
\* before its arrival, or its arrival time when it carries none (delay 0).
EventTime(delay) == now - delay

InsertReading(r) ==
    /\ raw' = raw \cup {r}
    /\ nextId' = nextId + 1
    /\ received' = received \cup {r}

\* A readings message arrives, whatever maintenance is doing.  An INSERT that
\* fails is logged and leaves everything as it was.
OnReadings(st, delay) ==
    /\ pc # "down"
    /\ nextId <= MaxRows
    /\ InsertReading([station |-> st, id |-> nextId,
                      ts |-> EventTime(delay), received_at |-> now])
    /\ UNCHANGED <<now, pc, runNow, ticker, faults, hourly, daily, captured,
                   missed, hourlyRun, dailyRun, lastDaily, prunedTo>>

\* The process starts: main subscribes to the broker, then runs maintenance
\* once before it creates the ticker.
Start ==
    /\ pc = "down"
    /\ pc' = "hourly"
    /\ runNow' = now
    /\ UNCHANGED <<now, ticker, faults, db, hist>>

\* for range t.C { runMaintenance() }
TickerRun ==
    /\ pc = "idle"
    /\ ticker = "full"
    /\ ticker' = "empty"
    /\ pc' = "hourly"
    /\ runNow' = now
    /\ UNCHANGED <<now, faults, db, hist>>

\* A deliberate bug: the goroutine that owns the ticker is never started.
ReturnNoTicker == pc' = "idle" /\ UNCHANGED ticker

\* The run returns; main creates the ticker after the first one.
Return ==
    /\ pc' = "idle"
    /\ ticker' = IF ticker = "none" THEN "empty" ELSE ticker

\* A statement may fail (the database is busy for longer than busy_timeout, the
\* disk is full); the error is logged and the run goes on with the next one.
Outcome(ok) ==
    IF ok THEN UNCHANGED faults ELSE faults < MaxFaults /\ faults' = faults + 1

RollupHourly(ok) ==
    /\ Outcome(ok)
    /\ pc = "hourly"
    /\ pc' = "daily"
    /\ IF ok
       THEN /\ hourly' = Rollup(hourly, Hour, HourlySince)
            /\ hourlyRun' = [since |-> HourlySince, rows |-> received]
       ELSE UNCHANGED <<hourly, hourlyRun>>
    /\ UNCHANGED <<now, runNow, ticker, raw, daily, nextId, received,
                   captured, missed, dailyRun, lastDaily, prunedTo>>

RollupDaily(ok) ==
    /\ Outcome(ok)
    /\ pc = "daily"
    /\ IF Retention > 0 THEN pc' = "prune" /\ UNCHANGED ticker ELSE Return
    /\ lastDaily' = runNow
    /\ IF ok
       THEN /\ daily' = Rollup(daily, Day, DailySince)
            /\ captured' = captured \cup daily'
            /\ dailyRun' = [since |-> DailySince, rows |-> received]
            /\ UNCHANGED missed
       ELSE /\ missed' = missed \cup raw
            /\ UNCHANGED <<daily, captured, dailyRun>>
    /\ UNCHANGED <<now, runNow, raw, hourly, nextId, received,
                   hourlyRun, prunedTo>>

PruneRaw(ok) ==
    /\ Outcome(ok)
    /\ pc = "prune"
    /\ Return
    /\ IF ok
       THEN /\ raw' = {r \in raw : r.ts >= PruneBefore}
            /\ prunedTo' = PruneBefore
       ELSE UNCHANGED <<raw, prunedTo>>
    /\ UNCHANGED <<now, runNow, hourly, daily, nextId, received,
                   captured, missed, hourlyRun, dailyRun, lastDaily>>

\* Power loss or termination at any point; each statement has committed or
\* not, and only the database survives.
Crash ==
    /\ pc # "down"
    /\ faults < MaxFaults
    /\ faults' = faults + 1
    /\ pc' = "down"
    /\ ticker' = "none"
    /\ UNCHANGED <<now, runNow, db, hist>>

Maintenance ==
    \/ TickerRun
    \/ \E ok \in BOOLEAN : RollupHourly(ok) \/ RollupDaily(ok) \/ PruneRaw(ok)

Next ==
    \/ Tick
    \/ \E st \in Stations, delay \in EventDelays : OnReadings(st, delay)
    \/ Start
    \/ Maintenance
    \/ Crash

Spec == Init /\ [][Next]_vars

\* The clock advances, systemd restarts the process (Restart=always) and the
\* Go scheduler runs the maintenance goroutine.
Fairness == WF_vars(Tick) /\ WF_vars(Start) /\ WF_vars(Maintenance)

FairSpec == Spec /\ Fairness

-----------------------------------------------------------------------------
(***************************************************************************)
(* Properties                                                              *)
(***************************************************************************)

\* Fresh(table, run, len): the row of a bucket that the last successful rollup
\* covered whole, and that pruning has not reached, aggregates exactly the
\* readings of that bucket stored before that rollup: none is missing, none is
\* counted that was not received, whatever arrived late or out of order and
\* whatever failed or crashed since.
Fresh(table, run, len) ==
    \A r \in received :
        /\ BucketStart(r, len) >= run.since
        /\ BucketStart(r, len) >= prunedTo
        => (r \in table <=> r \in run.rows)

\* store.RollupHourly "absorbs late-arriving data": the hours it covers are
\* exact up to the last successful run.
HourlyFresh == Fresh(hourly, hourlyRun, Hour)

\* The same for store.RollupDaily.
DailyFresh == Fresh(daily, dailyRun, Day)

\* The reading was already older than the retention when it arrived.
ExpiredOnArrival(r) == Retention > 0 /\ r.ts < r.received_at - Retention

\* PruneRaw deletes no reading that was never summarised, as long as daily
\* rollups do not fail: a reading that is gone had been in a daily row, or a
\* daily rollup failed while it was there, or it was older than the retention
\* when it arrived.  The two days RollupDaily reaches past the retention and
\* the single `now` of a run are what makes it so: a reading that arrives
\* between RollupDaily and PruneRaw, or during an outage shorter than the
\* slack, is still safe.
NoSilentLoss ==
    \A r \in received \ raw :
        r \in captured \/ r \in missed \/ ExpiredOnArrival(r)

\* The inductive invariant behind the three properties above.
\* The clocks: a run works with a `now` that is not newer than the clock and
\* not older than the previous run's; pruning stays behind the daily rollup.
ClocksInv ==
    /\ runNow <= now
    /\ lastDaily <= now
    /\ now <= lastDaily + MaxGap
    /\ pc \in {"hourly", "daily"} => lastDaily <= runNow
    /\ pc = "prune" => lastDaily = runNow /\ Retention > 0
    /\ prunedTo <= lastDaily - Retention

\* Where readings come from, and which of them are still in the raw table.
RowsInv ==
    /\ \A r \in received : r.id < nextId /\ r.received_at <= now
    /\ raw \cup hourly \cup captured \cup missed \subseteq received
    /\ hourlyRun.rows \cup dailyRun.rows \subseteq received
    /\ daily \subseteq captured
    /\ \A r \in received : r.ts >= prunedTo \/ Retention = 0 => r \in raw

\* A reading the daily rollup has not taken yet arrived after its last try.
PendingInv ==
    Retention > 0 =>
        \A r \in raw : \/ r \in captured \/ r \in missed
                       \/ ExpiredOnArrival(r)
                       \/ r.received_at >= lastDaily

\* Everything the safety of the retained data rests on, in one inductive
\* invariant: types, clocks, provenance of rows, pending readings, exactness
\* of fresh buckets and no silent loss.
Inv ==
    /\ TypeOK
    /\ ClocksInv
    /\ RowsInv
    /\ PendingInv
    /\ NoSilentLoss
    /\ HourlyFresh
    /\ DailyFresh

\* A rollup run changes what a daily row counts only in ways that can be told
\* from the boundaries: it drops a reading only if pruning or its own `since`
\* lies beyond the reading's timestamp, and the bucket keeps a row.
DailyRowsRecomputed ==
    [][\A r \in daily \ daily' :
          /\ r.ts < prunedTo \/ r.ts < DailySince
          /\ \E s \in daily' : /\ s.station = r.station
                              /\ BucketStart(s, Day) = BucketStart(r, Day)]_vars

\* Every stored reading that is not past the retention is summarised by the
\* daily rollup at one of the next runs, through crashes and restarts, unless
\* that rollup fails while the reading is there (for readings stored while the
\* bounded clock still has two periods to go).
EventuallySummarised ==
    \A i \in 1..MaxRows :
        (now + 2 <= MaxNow /\ \E r \in raw : r.id = i /\ ~ExpiredOnArrival(r))
            ~> (\E r \in captured \cup missed : r.id = i)

\* What the store keeps, seen as an archive.
A == INSTANCE Archive WITH
        kept       <- raw,
        summarised <- captured,
        excused    <- missed \cup {r \in received : ExpiredOnArrival(r)}

\* The three tables, their windows and the maintenance run implement the
\* archive: readings leave oldest first, and never before a daily row has
\* counted them, through late arrivals, crashes and failing statements.
ImplementsArchive == A!Spec

\* store.go: "Downsampled rollups (recomputed from raw; survive raw pruning)":
\* what a daily row summarises stays summarised.
DailyRollupsSurvivePruning == [][daily \subseteq daily']_vars

\* store.go, RollupHourly: "Idempotent ..., so safe to run often": running it
\* again takes nothing out of an hourly row.
HourlyRollupSafeToRepeat == [][hourly \subseteq hourly']_vars

\* store.go, PruneRaw: "Call only after rollups covering that range have been
\* computed": whatever is pruned was there when the daily rollup last
\* succeeded.
PruneOnlyAfterRollup ==
    [][\A r \in raw \ raw' : ExpiredOnArrival(r) \/ r \in dailyRun.rows]_vars
=============================================================================
