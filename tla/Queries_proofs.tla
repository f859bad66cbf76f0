--------------------------- MODULE Queries_proofs ---------------------------
(***************************************************************************)
(* Proofs about Queries: what the API answers agrees with what was         *)
(* received and with the last rollup, for every range, station and width.  *)
(***************************************************************************)
EXTENDS Queries, Retention_proofs

USE RetentionAssumption, GapAssumption, QueryAssumption

\* Flooring goes down by less than one interval, to a multiple of it.
LEMMA TruncateBound ==
    ASSUME NEW t \in Int, NEW len \in Nat \ {0}
    PROVE  /\ Truncate(t, len) \in Int
           /\ Truncate(t, len) <= t /\ t < Truncate(t, len) + len
           /\ t \div len \in Int
           /\ Truncate(t, len) = len * (t \div len)
<1>1. t % len \in 0..(len - 1) /\ t \div len \in Int
  OBVIOUS
<1>2. t = len * (t \div len) + (t % len)
  OBVIOUS
<1> QED
  BY <1>1, <1>2 DEF Truncate

\* A bucket meets a range that starts at `from` iff it is not before the
\* bucket that `from` is floored to.
LEMMA FloorKeepsFirstBucket ==
    ASSUME NEW from \in Int, NEW t \in Int, NEW len \in Nat \ {0}
    PROVE  FirstBucket(from, len) <= Truncate(t, len)
             <=> Truncate(t, len) + len > from
<1> DEFINE p == from \div len
           q == t \div len
<1>1. /\ p \in Int /\ q \in Int
      /\ FirstBucket(from, len) = len * p /\ Truncate(t, len) = len * q
      /\ len * p <= from /\ from < len * p + len
  BY TruncateBound DEF FirstBucket
<1> HIDE DEF p, q
<1>2. CASE q >= p
  <2>1. q - p \in Nat /\ len * (q - p) >= 0
    BY <1>1, <1>2
  <2>2. len * q = len * p + len * (q - p)
    BY <1>1
  <2>3. len * q >= len * p
    BY <1>1, <2>1, <2>2
  <2> QED
    BY <1>1, <2>3
<1>3. CASE q < p
  <2>1. p - q - 1 \in Nat /\ len * (p - q - 1) >= 0
    BY <1>1, <1>3
  <2>2. len * p = len * q + len + len * (p - q - 1)
    BY <1>1
  <2>3. len * p >= len * q + len
    BY <1>1, <2>1, <2>2
  <2> QED
    BY <1>1, <2>3
<1> QED
  BY <1>1, <1>2, <1>3

\* What a history answers for bucket b, of the rows it was grouped from.
LEMMA RowsOfPoints ==
    ASSUME NEW rows, NEW sec, NEW b
    PROVE  RowsAt(Points(rows, sec), b)
             = {r \in rows : Truncate(r.ts, sec) = b}
<1>1. ASSUME NEW r \in RowsAt(Points(rows, sec), b)
      PROVE  r \in rows /\ Truncate(r.ts, sec) = b
  BY DEF RowsAt, Points
<1>2. ASSUME NEW r \in rows, Truncate(r.ts, sec) = b
      PROVE  r \in RowsAt(Points(rows, sec), b)
  <2> DEFINE p == [bucket |-> Truncate(r.ts, sec),
                   rows   |-> {s \in rows : Truncate(s.ts, sec) = Truncate(r.ts, sec)}]
  <2>1. p \in Points(rows, sec)
    BY DEF Points
  <2>2. p.bucket = b /\ r \in p.rows
    BY <1>2
  <2> HIDE DEF p
  <2> QED
    BY <2>1, <2>2 DEF RowsAt
<1> QED
  BY <1>1, <1>2

\* The same for a rollup table, of the buckets of the range.
LEMMA RowsOfRollup ==
    ASSUME NEW table, NEW len, NEW st, NEW from, NEW to, NEW b
    PROVE  RowsAt(HistoryRollup(table, len, st, from, to), b)
             = IF b >= from /\ b < to
               THEN {r \in table : r.station = st /\ Truncate(r.ts, len) = b}
               ELSE {}
<1> DEFINE pts == Points({r \in table : r.station = st}, len)
<1>1. RowsAt(pts, b) = {r \in table : r.station = st /\ Truncate(r.ts, len) = b}
  BY RowsOfPoints
<1>2. CASE b >= from /\ b < to
  <2>1. {q \in HistoryRollup(table, len, st, from, to) : q.bucket = b}
          = {q \in pts : q.bucket = b}
    BY <1>2 DEF HistoryRollup
  <2> QED
    BY <1>1, <1>2, <2>1 DEF RowsAt
<1>3. CASE ~(b >= from /\ b < to)
  <2>1. {q \in HistoryRollup(table, len, st, from, to) : q.bucket = b} = {}
    BY <1>3 DEF HistoryRollup
  <2> QED
    BY <1>3, <2>1 DEF RowsAt
<1> QED
  BY <1>2, <1>3

\* A valid request has a range of whole times.
LEMMA RangeIsInt ==
    ASSUME TypeOK, NEW from \in Times, NEW to \in Times
    PROVE  RangeStart(from, to) \in Int /\ RangeEnd(to) \in Int
<1>1. /\ from = Absent \/ from \in Int
      /\ to = Absent \/ to \in Int
  BY QueryAssumption DEF QueryAssumption, Times
<1>2. now \in Int /\ DefaultSpan \in Int
  BY QueryAssumption DEF QueryAssumption, TypeOK
<1>3. RangeEnd(to) \in Int
  BY <1>1, <1>2 DEF RangeEnd
<1> QED
  BY <1>1, <1>2, <1>3 DEF RangeStart

\* One rollup table: the answer for a settled bucket is exact.
LEMMA RollupAnswerExact ==
    ASSUME TypeOK, NEW table \in SUBSET received, NEW run \in Run,
           run.rows \subseteq received, NEW len \in Nat \ {0},
           Fresh(table, run, len), NEW b \in Settled(run, len),
           NEW st, NEW from \in Int, NEW to \in Int
    PROVE  RowsAt(HistoryRollup(table, len, st, FirstBucket(from, len), to), b)
             = IF b + len > from /\ b < to
               THEN {r \in run.rows : r.station = st /\ BucketStart(r, len) = b}
               ELSE {}
<1>1. PICK r \in received : b = Truncate(r.ts, len)
  BY DEF Settled, BucketStart, Truncate
<1>2. r.ts \in Int
  BY DEF TypeOK, Reading
<1>3. FirstBucket(from, len) \in Int /\ b \in Int
  BY <1>1, <1>2, TruncateBound DEF FirstBucket
<1>4. FirstBucket(from, len) <= b <=> b + len > from
  BY <1>1, <1>2, FloorKeepsFirstBucket
<1>5. b >= FirstBucket(from, len) <=> b + len > from
  BY <1>3, <1>4
<1>6. RowsAt(HistoryRollup(table, len, st, FirstBucket(from, len), to), b)
        = IF b >= FirstBucket(from, len) /\ b < to
          THEN {x \in table : x.station = st /\ Truncate(x.ts, len) = b}
          ELSE {}
  BY RowsOfRollup
<1>7. {x \in table : x.station = st /\ Truncate(x.ts, len) = b}
        = {x \in run.rows : x.station = st /\ BucketStart(x, len) = b}
  <2>1. \A x : BucketStart(x, len) = Truncate(x.ts, len)
    BY DEF BucketStart, Truncate
  <2>2. b >= run.since /\ b >= prunedTo
    BY DEF Settled
  <2>3. \A x \in received : BucketStart(x, len) = b => (x \in table <=> x \in run.rows)
    BY <2>2 DEF Fresh
  <2>4. \A x : (x \in table \/ x \in run.rows) => x \in received
    OBVIOUS
  <2> HIDE RetentionAssumption, GapAssumption, QueryAssumption
  <2> QED
    BY <2>1, <2>3, <2>4
<1> QED
  BY <1>5, <1>6, <1>7, Zenon

\* What the invariant of the store says of its two rollup tables.
LEMMA TablesOfInv ==
    ASSUME Inv
    PROVE  /\ TypeOK
           /\ hourly \in SUBSET received /\ daily \in SUBSET received
           /\ hourlyRun \in Run /\ hourlyRun.rows \subseteq received
           /\ dailyRun \in Run /\ dailyRun.rows \subseteq received
           /\ Fresh(hourly, hourlyRun, Hour) /\ Fresh(daily, dailyRun, Day)
  BY DEF Inv, TypeOK, RowsInv, HourlyFresh, DailyFresh

LEMMA HistoryFromInv == Inv => RollupHistoryExact
<1> SUFFICES ASSUME Inv, NEW st \in Stations, NEW from \in Times, NEW to \in Times
             PROVE  /\ \A b \in Settled(hourlyRun, Hour) :
                          Exact("hour", hourlyRun, Hour, b, st, from, to)
                    /\ \A b \in Settled(dailyRun, Day) :
                          Exact("day", dailyRun, Day, b, st, from, to)
  BY DEF RollupHistoryExact
<1>1. /\ TypeOK
      /\ hourly \in SUBSET received /\ daily \in SUBSET received
      /\ hourlyRun \in Run /\ hourlyRun.rows \subseteq received
      /\ dailyRun \in Run /\ dailyRun.rows \subseteq received
      /\ Fresh(hourly, hourlyRun, Hour) /\ Fresh(daily, dailyRun, Day)
      /\ Hour \in Nat \ {0} /\ Day \in Nat \ {0}
  BY TablesOfInv
<1>2. RangeStart(from, to) \in Int /\ RangeEnd(to) \in Int
  BY <1>1, RangeIsInt
<1>3. /\ ApiHistory(st, from, to, "hour")
           = HistoryRollup(hourly, Hour, st,
                           FirstBucket(RangeStart(from, to), Hour), RangeEnd(to))
      /\ ApiHistory(st, from, to, "day")
           = HistoryRollup(daily, Day, st,
                           FirstBucket(RangeStart(from, to), Day), RangeEnd(to))
  BY DEF ApiHistory, History
<1> HIDE RetentionAssumption, QueryAssumption, GapAssumption
<1>4. \A b \in Settled(hourlyRun, Hour) :
          Exact("hour", hourlyRun, Hour, b, st, from, to)
  BY <1>1, <1>2, <1>3, RollupAnswerExact DEF Exact
<1>5. \A b \in Settled(dailyRun, Day) :
          Exact("day", dailyRun, Day, b, st, from, to)
  BY <1>1, <1>2, <1>3, RollupAnswerExact DEF Exact
<1> QED
  BY <1>4, <1>5

\* store.History: an hourly or daily history shows the first bucket whole and
\* every settled bucket exactly.
THEOREM RollupHistoryIsExact == Spec => []RollupHistoryExact
  BY HistoryFromInv, Invariance, PTL

LEMMA ViewsFromInv == Inv => HourViewsAgree
<1> SUFFICES ASSUME Inv, NEW b \in Settled(hourlyRun, Hour),
                    NEW name \in DOMAIN Widths, Widths[name] = Hour,
                    NEW st \in Stations, NEW from \in Times, NEW to \in Times,
                    b >= RangeStart(from, to), b + Hour <= RangeEnd(to)
             PROVE  RowsAt(ApiHistory(st, from, to, name), b) \cap hourlyRun.rows
                      = RowsAt(ApiHistory(st, from, to, "hour"), b)
  BY DEF HourViewsAgree
<1> DEFINE f == RangeStart(from, to)
           t == RangeEnd(to)
<1>1. f \in Int /\ t \in Int /\ b \in Int
  <2>1. PICK r \in received : b = Truncate(r.ts, Hour)
    BY DEF Settled, BucketStart, Truncate
  <2>2. r.ts \in Int
    BY TablesOfInv DEF TypeOK, Reading
  <2> QED
    BY <2>1, <2>2, TablesOfInv, RangeIsInt, TruncateBound
<1>2. RowsAt(ApiHistory(st, from, to, name), b)
        = {r \in raw : r.station = st /\ Truncate(r.ts, Hour) = b}
  <2>1. ApiHistory(st, from, to, name) = Points(InRange(st, f, t), Hour)
    BY DEF ApiHistory, History, HistoryInterval
  <2>2. \A r \in raw : Truncate(r.ts, Hour) = b => r.ts >= f /\ r.ts < t
    <3> SUFFICES ASSUME NEW r \in raw, Truncate(r.ts, Hour) = b
                 PROVE  r.ts >= f /\ r.ts < t
      OBVIOUS
    <3>1. r.ts \in Int
      BY DEF Inv, TypeOK, Reading
    <3>2. b <= r.ts /\ r.ts < b + Hour
      BY <3>1, TruncateBound
    <3> QED
      BY <1>1, <3>1, <3>2
  <2> QED
    BY <2>1, <2>2, RowsOfPoints DEF InRange
<1>3. RowsAt(ApiHistory(st, from, to, "hour"), b)
        = {r \in hourlyRun.rows : r.station = st /\ BucketStart(r, Hour) = b}
  <2>1. b + Hour > f /\ b < t
    BY <1>1
  <2> QED
    BY <2>1, HistoryFromInv DEF RollupHistoryExact, Exact
<1>4. \A r \in hourlyRun.rows : Truncate(r.ts, Hour) = b => r \in raw
  <2> SUFFICES ASSUME NEW r \in hourlyRun.rows, Truncate(r.ts, Hour) = b
               PROVE  r \in raw
    OBVIOUS
  <2>1. r \in received /\ r.ts \in Int /\ prunedTo \in Int
    BY DEF Inv, TypeOK, RowsInv, Reading
  <2>2. b <= r.ts
    BY <2>1, TruncateBound
  <2>3. b >= prunedTo
    BY DEF Settled
  <2>4. r.ts >= prunedTo
    BY <1>1, <2>1, <2>2, <2>3
  <2> QED
    BY <2>1, <2>4 DEF Inv, RowsInv
<1>5. \A r : BucketStart(r, Hour) = Truncate(r.ts, Hour)
  BY DEF BucketStart, Truncate
<1> QED
  BY <1>2, <1>3, <1>4, <1>5

\* The interval history and the hourly rollup agree on the hours they share.
THEOREM ViewsAgree == Spec => []HourViewsAgree
  BY ViewsFromInv, Invariance, PTL

\* web.summary: the default range is never cut short by pruning.
THEOREM DefaultRangeIsWhole == Spec => []DefaultRangeWhole
<1>1. Inv => DefaultRangeWhole
  <2> SUFFICES ASSUME Inv, Retention = 0 \/ DefaultSpan <= Retention,
                      NEW st \in Stations
               PROVE  ApiSummary(st, Absent, Absent) =
                        {r \in received : /\ r.station = st
                                          /\ r.ts >= now - DefaultSpan
                                          /\ r.ts < now}
    BY DEF DefaultRangeWhole
  <2>1. /\ \A r \in received : r.ts \in Int
        /\ now \in Int /\ lastDaily \in Int /\ prunedTo \in Int
    BY TablesOfInv DEF TypeOK, Reading
  <2>2. prunedTo <= lastDaily - Retention /\ lastDaily <= now
    BY DEF Inv, ClocksInv
  <2>3. ASSUME NEW r \in received, r.ts >= now - DefaultSpan
        PROVE  r \in raw
    <3>1. Retention = 0 \/ r.ts >= prunedTo
      BY <2>1, <2>2, <2>3
    <3> QED
      BY <3>1 DEF Inv, RowsInv
  <2>4. raw \subseteq received
    BY DEF Inv, RowsInv
  <2> QED
    BY <2>3, <2>4 DEF ApiSummary, Summarize, InRange, RangeStart, RangeEnd
<1> QED
  BY <1>1, Invariance, PTL

\* store.LatestReading: no step of ingest or of maintenance takes the current
\* conditions back in time.
THEOREM CurrentNeverGoesBack == Spec => CurrentAdvances
<1> DEFINE Advances == \A st \in Stations :
                         \A r \in ApiCurrent(st), s \in ApiCurrent(st)' : r.ts <= s.ts
<1>1. Inv /\ [Next]_vars => Advances
  <2> SUFFICES ASSUME Inv, [Next]_vars, NEW st \in Stations,
                      NEW r \in LatestReading(st), NEW s \in LatestReading(st)'
               PROVE  r.ts <= s.ts
    BY DEF ApiCurrent
  <2>1. r \in raw /\ s \in raw' /\ r.station = st /\ s.station = st
    BY DEF LatestReading
  <2>2. r.ts \in Int /\ s.ts \in Int
    BY <2>1, NextTypeOK DEF Inv, TypeOK, Reading
  <2>3. CASE r \in raw'
    BY <2>1, <2>3 DEF LatestReading
  <2>4. CASE r \notin raw'
    <3>1. PruneRaw(TRUE)
      BY <2>1, <2>4 DEF Next, Maintenance, Tick, OnReadings, InsertReading, Start,
            TickerRun, RollupHourly, RollupDaily, PruneRaw, Crash, vars, db
    <3>2. raw' = {x \in raw : x.ts >= PruneBefore} /\ PruneBefore \in Int
      BY <3>1, TablesOfInv DEF PruneRaw, PruneBefore, TypeOK
    <3> QED
      BY <2>1, <2>2, <2>4, <3>2
  <2> QED
    BY <2>3, <2>4
<1> QED
  BY <1>1, Invariance, PTL DEF Spec, CurrentAdvances

=============================================================================
