------------------------------- MODULE Queries -------------------------------
(***************************************************************************)
(* What the HTTP API answers from the measurement store while ingest and   *)
(* maintenance change it: the current reading, the history at every bucket *)
(* width and the summary (server/internal/web and the queries of           *)
(* server/internal/store).  An answer is a function of the tables and the  *)
(* clock.  An aggregate stands for the set of the readings it aggregates,  *)
(* so a point of a history is a bucket's start with the readings in it.    *)
(***************************************************************************)
EXTENDS Retention

CONSTANTS
    Absent,       \* a request parameter that is not given
    Widths,       \* intervalBuckets: a width for each interval's name
    DefaultSpan,  \* 24 hours
    Moments       \* values the `from` and `to` of a request may have

ASSUME QueryAssumption ==
    /\ \A name \in DOMAIN Widths : Widths[name] \in Nat \ {0}
    /\ {"raw", "hour", "day"} \cap DOMAIN Widths = {}
    /\ DefaultSpan \in Nat
    /\ Moments \subseteq Int
    /\ Absent \notin Int
    /\ Absent \notin {"raw", "hour", "day"} \cup DOMAIN Widths

\* timeRange: the last 24 hours by default.
RangeEnd(to) == IF to = Absent THEN now ELSE to
RangeStart(from, to) ==
    IF from = Absent THEN RangeEnd(to) - DefaultSpan ELSE from

\* ... WHERE station_id = ? AND ts >= ? AND ts < ?
InRange(st, from, to) ==
    {r \in raw : r.station = st /\ r.ts >= from /\ r.ts < to}

\* A deliberate bug: the last row inserted instead of ORDER BY ts DESC.
LastInserted(st) ==
    {r \in raw : r.station = st
                 /\ \A s \in raw : s.station = st => s.id <= r.id}

\* SELECT ... WHERE station_id = ? ORDER BY ts DESC LIMIT 1: one of these, or
\* sql.ErrNoRows, which the API answers with 404, when there is none.
LatestReading(st) ==
    {r \in raw : r.station = st
                 /\ \A s \in raw : s.station = st => s.ts <= r.ts}

\* The start of the interval of `sec` seconds that holds t, from the epoch on.
Truncate(t, sec) == t - (t % sec)

\* SELECT start(ts) AS bucket, COUNT(*), ... GROUP BY bucket
Points(rows, sec) ==
    {[bucket |-> Truncate(r.ts, sec),
      rows   |-> {s \in rows : Truncate(s.ts, sec) = Truncate(r.ts, sec)}] :
        r \in rows}

\* A deliberate bug: the intervals start where the range starts.
HistoryIntervalFromStart(st, from, to, sec) ==
    {[p EXCEPT !.bucket = from + (@ - Truncate(from, sec))] :
        p \in Points(InRange(st, from, to), sec)}

HistoryInterval(st, from, to, sec) == Points(InRange(st, from, to), sec)

\* The rows of a rollup table whose bucket lies in [from, to).
HistoryRollup(table, len, st, from, to) ==
    {p \in Points({r \in table : r.station = st}, len) :
        p.bucket >= from /\ p.bucket < to}

FirstBucketUnfloored(from, len) == from   \* deliberate bug

\* The first bucket of an hourly or daily history: `from`, floored.
FirstBucket(from, len) == Truncate(from, len)

\* Readings have whole timestamps: "raw" is one point for each of them.
History(st, from, to, bucket) ==
    CASE bucket = "hour" ->
             HistoryRollup(hourly, Hour, st, FirstBucket(from, Hour), to)
      [] bucket = "day" ->
             HistoryRollup(daily, Day, st, FirstBucket(from, Day), to)
      [] bucket = "raw" -> HistoryInterval(st, from, to, 1)
      [] OTHER          -> HistoryInterval(st, from, to, Widths[bucket])

\* The readings the summary counts and takes its statistics of.
Summarize(st, from, to) == InRange(st, from, to)

\* GET /api/current, /api/history and /api/summary.  A malformed time or an
\* unknown bucket is answered with 400.
ApiCurrent(st) == LatestReading(st)
ApiHistory(st, from, to, bucket) ==
    History(st, RangeStart(from, to), RangeEnd(to),
            IF bucket = Absent THEN "raw" ELSE bucket)
ApiSummary(st, from, to) ==
    Summarize(st, RangeStart(from, to), RangeEnd(to))

-----------------------------------------------------------------------------
(***************************************************************************)
(* Properties                                                              *)
(***************************************************************************)
Times == Moments \cup {Absent}

\* The readings behind the point of a history that starts at b, if it has one.
RowsAt(points, b) == UNION {p.rows : p \in {q \in points : q.bucket = b}}

\* The buckets that are settled: the last run of their rollup covered them
\* whole and pruning has not reached them.
Settled(run, len) ==
    {b \in {BucketStart(r, len) : r \in received} :
        b >= run.since /\ b >= prunedTo}

\* The history of a station answers bucket b with the readings its rollup
\* found there if the bucket meets the range, and with nothing if it does not.
Exact(bucket, run, len, b, st, from, to) ==
    RowsAt(ApiHistory(st, from, to, bucket), b) =
        IF b + len > RangeStart(from, to) /\ b < RangeEnd(to)
        THEN {r \in run.rows : r.station = st /\ BucketStart(r, len) = b}
        ELSE {}

\* store.History "floor `from` to the bucket start so a partially-covered
\* first bucket is included": an hourly or daily history has a point for
\* every bucket that meets the requested range, the first one included, and
\* the point counts exactly the readings of the bucket stored before the last
\* rollup, whatever arrived late and whatever maintenance is doing.
RollupHistoryExact ==
    \A st \in Stations, from \in Times, to \in Times :
        /\ \A b \in Settled(hourlyRun, Hour) :
              Exact("hour", hourlyRun, Hour, b, st, from, to)
        /\ \A b \in Settled(dailyRun, Day) :
              Exact("day", dailyRun, Day, b, st, from, to)

\* The same hour read two ways: an interval history binned from the raw
\* readings and the hourly rollup count the same readings in every hour that
\* lies in the range, but for those that arrived after the last rollup.
HourViewsAgree ==
    \A b \in Settled(hourlyRun, Hour),
       name \in {n \in DOMAIN Widths : Widths[n] = Hour},
       st \in Stations, from \in Times, to \in Times :
        (b >= RangeStart(from, to) /\ b + Hour <= RangeEnd(to))
        => RowsAt(ApiHistory(st, from, to, name), b) \cap hourlyRun.rows
             = RowsAt(ApiHistory(st, from, to, "hour"), b)

\* web.timeRange "defaulting to the last 24h": a summary of the default range
\* misses no reading because of pruning, which works with the `now` of an
\* earlier moment than the request (RetentionDays is a number of days).
DefaultRangeWhole ==
    (Retention = 0 \/ DefaultSpan <= Retention) =>
        \A st \in Stations :
            ApiSummary(st, Absent, Absent) =
                {r \in received : /\ r.station = st
                                  /\ r.ts >= now - DefaultSpan /\ r.ts < now}

\* store.LatestReading "the most recent reading for a station (by ts)": a
\* reading that arrives late, a rollup or a pruning run never takes the
\* current conditions back to an older reading than the one shown before.
CurrentAdvances ==
    [][\A st \in Stations :
          \A r \in ApiCurrent(st), s \in ApiCurrent(st)' :
              r.ts <= s.ts]_vars
=============================================================================
