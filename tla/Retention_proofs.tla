--------------------------- MODULE Retention_proofs ---------------------------
(***************************************************************************)
(* Proofs about Retention: its inductive invariant, the safety of pruning, *)
(* the exactness of fresh rollup rows, and the limits within which a       *)
(* rollup run may rewrite a row, for every value of the constants.         *)
(***************************************************************************)
EXTENDS Retention, TLAPS

USE RetentionAssumption, GapAssumption

\* A bucket starts at or before every reading in it.
LEMMA BucketStartBound ==
    ASSUME NEW r \in Reading, NEW len \in Nat \ {0}
    PROVE  BucketStart(r, len) \in Int /\ BucketStart(r, len) <= r.ts
<1>1. r.ts \in Int
  BY DEF Reading
<1>2. r.ts % len \in 0..(len - 1)
  BY <1>1
<1> QED
  BY <1>1, <1>2 DEF BucketStart

\* A rollup run leaves a table of received readings.
LEMMA RollupRows ==
    ASSUME NEW table, NEW len, NEW since
    PROVE  /\ Rollup(table, len, since) \subseteq table \cup raw
           /\ Selected(since) \subseteq Rollup(table, len, since)
  BY DEF Rollup, Selected

\* The row of a bucket that starts at or after both boundaries is complete
\* after the run: it has exactly the readings received so far.
LEMMA RollupFresh ==
    ASSUME Inv, NEW table \in SUBSET received, NEW len \in Nat \ {0},
           NEW since \in Int,
           NEW r \in received,
           BucketStart(r, len) >= since, BucketStart(r, len) >= prunedTo
    PROVE  r \in Rollup(table, len, since)
<1>1. r \in Reading
  BY DEF Inv, TypeOK
<1>2. r.ts \in Int /\ BucketStart(r, len) \in Int /\ BucketStart(r, len) <= r.ts
  BY <1>1, BucketStartBound DEF Reading
<1>3. r.ts >= prunedTo /\ r.ts >= since
  BY <1>2 DEF Inv, TypeOK
<1>4. r \in raw
  BY <1>3 DEF Inv, RowsInv
<1> QED
  BY <1>3, <1>4 DEF Rollup, Selected

\* The initial state: an empty database and a process about to start.
LEMMA InitInv == Init => Inv
<1> SUFFICES ASSUME Init PROVE Inv
  OBVIOUS
<1>1. TypeOK
  BY DEF Init, TypeOK, Run
<1>2. ClocksInv
  BY DEF Init, ClocksInv
<1>3. RowsInv /\ PendingInv /\ NoSilentLoss
  BY DEF Init, RowsInv, PendingInv, NoSilentLoss
<1>4. HourlyFresh /\ DailyFresh
  BY DEF Init, HourlyFresh, DailyFresh, Fresh
<1> QED
  BY <1>1, <1>2, <1>3, <1>4 DEF Inv

\* Every operation keeps the types.
LEMMA NextTypeOK == TypeOK /\ [Next]_vars => TypeOK'
<1> SUFFICES ASSUME TypeOK, [Next]_vars PROVE TypeOK'
  OBVIOUS
<1> USE DEF TypeOK
<1>1. CASE Tick
  BY <1>1 DEF Tick, db, hist
<1>2. ASSUME NEW st \in Stations, NEW delay \in EventDelays,
             OnReadings(st, delay)
      PROVE  TypeOK'
  <2> DEFINE r == [station |-> st, id |-> nextId,
                   ts |-> now - delay, received_at |-> now]
  <2>1. r \in Reading
    BY DEF Reading
  <2> QED
    BY <1>2, <2>1 DEF OnReadings, InsertReading, EventTime
<1>3. CASE Start
  BY <1>3 DEF Start, db, hist
<1>4. CASE TickerRun
  BY <1>4 DEF TickerRun, db, hist
<1>5. ASSUME NEW ok \in BOOLEAN, RollupHourly(ok)
      PROVE  TypeOK'
  <2>1. Rollup(hourly, Hour, HourlySince) \subseteq Reading
    BY RollupRows
  <2>2. [since |-> HourlySince, rows |-> received] \in Run
    BY DEF HourlySince, Run
  <2> QED
    BY <1>5, <2>1, <2>2 DEF RollupHourly, Outcome
<1>6. ASSUME NEW ok \in BOOLEAN, RollupDaily(ok)
      PROVE  TypeOK'
  <2>1. Rollup(daily, Day, DailySince) \subseteq Reading
    BY RollupRows
  <2>2. [since |-> DailySince, rows |-> received] \in Run
    BY DEF DailySince, Run
  <2> QED
    BY <1>6, <2>1, <2>2 DEF RollupDaily, Outcome, Return
<1>7. ASSUME NEW ok \in BOOLEAN, PruneRaw(ok)
      PROVE  TypeOK'
  BY <1>7 DEF PruneRaw, Outcome, Return, PruneBefore
<1>8. CASE Crash
  BY <1>8 DEF Crash, db, hist
<1>9. CASE UNCHANGED vars
  BY <1>9 DEF vars, db, hist
<1> QED
  BY <1>1, <1>2, <1>3, <1>4, <1>5, <1>6, <1>7, <1>8, <1>9 DEF Next, Maintenance

\* A step that touches neither the rows nor what is remembered of the runs.
LEMMA IdleStep ==
    ASSUME Inv, UNCHANGED <<db, hist>>, now' >= now, now \in Nat, now' \in Nat
    PROVE  RowsInv' /\ PendingInv' /\ NoSilentLoss' /\ HourlyFresh' /\ DailyFresh'
<1>1. RowsInv'
  <2>1. \A r \in received : r.received_at \in Nat
    BY DEF Inv, TypeOK, Reading
  <2> QED
    BY <2>1 DEF Inv, RowsInv, db, hist
<1>2. PendingInv'
  BY DEF Inv, PendingInv, ExpiredOnArrival, db, hist
<1>3. NoSilentLoss'
  BY DEF Inv, NoSilentLoss, ExpiredOnArrival, db, hist
<1>4. HourlyFresh' /\ DailyFresh'
  BY DEF Inv, HourlyFresh, DailyFresh, Fresh, BucketStart, db, hist
<1> QED
  BY <1>1, <1>2, <1>3, <1>4

\* A stored reading has a new id, so no table and no earlier run knows it.
LEMMA InsertStep ==
    ASSUME Inv, NEW st \in Stations, NEW delay \in EventDelays,
           OnReadings(st, delay)
    PROVE  Inv'
<1> DEFINE r == [station |-> st, id |-> nextId,
                 ts |-> now - delay, received_at |-> now]
<1>1. TypeOK'
  BY NextTypeOK DEF Inv, Next
<1>2. r \notin received
  BY DEF Inv, TypeOK, RowsInv
<1>3. r \in Reading /\ now \in Nat /\ nextId \in Nat
  BY DEF Inv, TypeOK, Reading
<1>4. ClocksInv'
  BY DEF Inv, ClocksInv, OnReadings
<1>5. RowsInv'
  <2>1. \A s \in received' : s.id < nextId' /\ s.received_at <= now'
    <3>1. \A s \in received : s.id \in Nat
      BY DEF Inv, TypeOK, Reading
    <3> QED
      BY <1>3, <3>1 DEF OnReadings, InsertReading, EventTime, Inv, RowsInv
  <2>2. \A s \in received' : s.ts >= prunedTo' \/ Retention = 0 => s \in raw'
    BY DEF OnReadings, InsertReading, EventTime, Inv, RowsInv
  <2> QED
    BY <2>1, <2>2 DEF OnReadings, InsertReading, EventTime, Inv, RowsInv
<1>6. PendingInv'
  BY <1>3 DEF OnReadings, InsertReading, EventTime, Inv, PendingInv, ClocksInv, ExpiredOnArrival
<1>7. NoSilentLoss'
  BY DEF OnReadings, InsertReading, EventTime, Inv, NoSilentLoss, ExpiredOnArrival
<1>8. r \notin hourly /\ r \notin daily
      /\ r \notin hourlyRun.rows /\ r \notin dailyRun.rows
  BY <1>2 DEF Inv, RowsInv
<1>9. HourlyFresh' /\ DailyFresh'
  BY <1>8 DEF OnReadings, InsertReading, EventTime, Inv, HourlyFresh, DailyFresh, Fresh, BucketStart
<1> QED
  BY <1>1, <1>4, <1>5, <1>6, <1>7, <1>9 DEF Inv

\* The hourly rollup makes the hours it covers whole exact again.
LEMMA RollupHourlyStep ==
    ASSUME Inv, NEW ok \in BOOLEAN, RollupHourly(ok)
    PROVE  Inv'
<1>1. TypeOK'
  BY NextTypeOK DEF Inv, Next, Maintenance
<1>2. ClocksInv'
  BY DEF Inv, ClocksInv, RollupHourly
<1>3. hourly \subseteq received /\ HourlySince \in Int
  BY DEF Inv, TypeOK, RowsInv, HourlySince
<1>4. Rollup(hourly, Hour, HourlySince) \subseteq received
  BY <1>3, RollupRows DEF Inv, RowsInv
<1>5. RowsInv'
  BY <1>4 DEF RollupHourly, Inv, RowsInv
<1>6. PendingInv' /\ NoSilentLoss' /\ DailyFresh'
  BY DEF RollupHourly, Inv, PendingInv, NoSilentLoss, ExpiredOnArrival,
         DailyFresh, Fresh, BucketStart
<1>7. HourlyFresh'
  <2>1. CASE ok
    <3> SUFFICES ASSUME NEW r \in received,
                        BucketStart(r, Hour) >= HourlySince,
                        BucketStart(r, Hour) >= prunedTo
                 PROVE  r \in Rollup(hourly, Hour, HourlySince)
      BY <2>1 DEF RollupHourly, HourlyFresh, Fresh, BucketStart
    <3> QED
      BY <1>3, RollupFresh
  <2>2. CASE ~ok
    BY <2>2 DEF RollupHourly, Inv, HourlyFresh, Fresh, BucketStart
  <2> QED
    BY <2>1, <2>2
<1> QED
  BY <1>1, <1>2, <1>5, <1>6, <1>7 DEF Inv

\* A reading that the daily rollup has not taken arrived after its last try,
\* hence lies within the reach of this one.
LEMMA PendingWithinReach ==
    ASSUME Inv, pc = "daily", Retention > 0, NEW r \in raw
    PROVE  \/ r \in captured \/ r \in missed \/ ExpiredOnArrival(r)
           \/ r.ts >= DailySince
<1>1. r \in Reading /\ lastDaily \in Nat /\ runNow \in Nat /\ now \in Nat
  BY DEF Inv, TypeOK
<1>2. r.ts \in Int /\ r.received_at \in Nat
  BY <1>1 DEF Reading
<1>3. runNow <= lastDaily + MaxGap
  BY <1>1 DEF Inv, ClocksInv
<1>4. ASSUME r.received_at >= lastDaily, ~ExpiredOnArrival(r)
      PROVE  r.ts >= DailySince
  <2>1. r.ts >= r.received_at - Retention
    BY <1>2, <1>4 DEF ExpiredOnArrival
  <2>2. r.ts >= lastDaily - Retention
    BY <1>1, <1>2, <1>4, <2>1
  <2>3. r.ts >= runNow - (Retention + RetentionSlack)
    BY <1>1, <1>2, <1>3, <2>2
  <2> QED
    BY <2>3 DEF DailySince
<1> QED
  BY <1>4 DEF Inv, PendingInv

\* The daily rollup takes every pending reading, or fails and marks it missed.
LEMMA RollupDailyStep ==
    ASSUME Inv, NEW ok \in BOOLEAN, RollupDaily(ok)
    PROVE  Inv'
<1>1. TypeOK'
  BY NextTypeOK DEF Inv, Next, Maintenance
<1>2. ClocksInv'
  BY DEF Inv, TypeOK, ClocksInv, RollupDaily, Return
<1>3. daily \subseteq received /\ DailySince \in Int
  BY DEF Inv, TypeOK, RowsInv, DailySince
<1>4. /\ Rollup(daily, Day, DailySince) \subseteq received
      /\ Selected(DailySince) \subseteq Rollup(daily, Day, DailySince)
  BY <1>3, RollupRows DEF Inv, RowsInv
<1>5. RowsInv'
  <2>1. daily' \subseteq captured' /\ captured' \cup missed' \subseteq received
    BY <1>4 DEF RollupDaily, Inv, RowsInv
  <2>2. dailyRun'.rows \subseteq received
    BY DEF RollupDaily, Inv, RowsInv
  <2> QED
    BY <2>1, <2>2 DEF RollupDaily, Inv, RowsInv
<1>6. PendingInv'
  <2> SUFFICES ASSUME Retention > 0, NEW r \in raw, ~ExpiredOnArrival(r)
               PROVE  r \in captured' \/ r \in missed'
    BY DEF PendingInv, RollupDaily, ExpiredOnArrival
  <2>1. CASE ok
    <3>1. r \in captured \/ r \in missed \/ r \in Selected(DailySince)
      BY PendingWithinReach DEF RollupDaily, Selected
    <3> QED
      BY <2>1, <3>1, <1>4 DEF RollupDaily
  <2>2. CASE ~ok
    BY <2>2 DEF RollupDaily
  <2> QED
    BY <2>1, <2>2
<1>7. NoSilentLoss'
  BY DEF RollupDaily, Inv, NoSilentLoss, ExpiredOnArrival
<1>8. HourlyFresh'
  BY DEF RollupDaily, Inv, HourlyFresh, Fresh, BucketStart
<1>9. DailyFresh'
  <2>1. CASE ok
    <3> SUFFICES ASSUME NEW r \in received,
                        BucketStart(r, Day) >= DailySince,
                        BucketStart(r, Day) >= prunedTo
                 PROVE  r \in Rollup(daily, Day, DailySince)
      BY <2>1 DEF RollupDaily, DailyFresh, Fresh, BucketStart
    <3> QED
      BY <1>3, RollupFresh
  <2>2. CASE ~ok
    BY <2>2 DEF RollupDaily, Inv, DailyFresh, Fresh, BucketStart
  <2> QED
    BY <2>1, <2>2
<1> QED
  BY <1>1, <1>2, <1>5, <1>6, <1>7, <1>8, <1>9 DEF Inv

\* Pruning deletes only readings that arrived before the daily rollup of the
\* same run, and moves the boundary forward only.
LEMMA PruneRawStep ==
    ASSUME Inv, NEW ok \in BOOLEAN, PruneRaw(ok)
    PROVE  Inv'
<1>1. TypeOK'
  BY NextTypeOK DEF Inv, Next, Maintenance
<1>2. ClocksInv'
  BY DEF Inv, TypeOK, ClocksInv, PruneRaw, Return, PruneBefore
<1>3. Retention > 0 /\ lastDaily = runNow /\ runNow \in Nat /\ prunedTo \in Int
  BY DEF Inv, TypeOK, ClocksInv, PruneRaw
<1>4. prunedTo' >= prunedTo /\ prunedTo' \in Int
  BY <1>3 DEF PruneRaw, PruneBefore, Inv, ClocksInv
<1>5. RowsInv'
  <2>1. \A r \in received : r.ts >= prunedTo' => r \in raw'
    <3> SUFFICES ASSUME NEW r \in received, r.ts >= prunedTo'
                 PROVE  r \in raw'
      OBVIOUS
    <3>1. r.ts \in Int
      BY DEF Inv, TypeOK, Reading
    <3>2. r \in raw
      BY <1>3, <1>4, <3>1 DEF Inv, RowsInv
    <3> QED
      BY <3>2 DEF PruneRaw
  <2>2. raw' \subseteq raw
    BY DEF PruneRaw
  <2> QED
    BY <1>3, <2>1, <2>2 DEF PruneRaw, Inv, RowsInv
<1>6. PendingInv'
  BY DEF PruneRaw, Inv, PendingInv, ExpiredOnArrival
<1>7. NoSilentLoss'
  <2> SUFFICES ASSUME NEW r \in raw, ~(r.ts >= PruneBefore)
               PROVE  r \in captured \/ r \in missed \/ ExpiredOnArrival(r)
    BY DEF PruneRaw, Inv, NoSilentLoss, ExpiredOnArrival
  <2>1. r.ts \in Int /\ r.received_at \in Nat
    BY DEF Inv, TypeOK, Reading
  <2>2. ASSUME r.received_at >= lastDaily
        PROVE  ExpiredOnArrival(r)
    BY <1>3, <2>1, <2>2 DEF PruneBefore, ExpiredOnArrival
  <2> QED
    BY <1>3, <2>2 DEF Inv, PendingInv
<1>8. HourlyFresh' /\ DailyFresh'
  <2>1. \A r \in received : /\ BucketStart(r, Hour) \in Int
                            /\ BucketStart(r, Day) \in Int
    BY BucketStartBound DEF Inv, TypeOK
  <2>2. UNCHANGED <<received, hourly, daily, hourlyRun, dailyRun>>
    BY DEF PruneRaw
  <2>3. ASSUME NEW b \in Int, b >= prunedTo' PROVE b >= prunedTo
    BY <1>4, <2>3 DEF Inv, TypeOK
  <2>4. \A r \in received : BucketStart(r, Hour) >= prunedTo'
                             => BucketStart(r, Hour) >= prunedTo
    BY <2>1, <2>3
  <2>5. \A r \in received : BucketStart(r, Day) >= prunedTo'
                             => BucketStart(r, Day) >= prunedTo
    BY <2>1, <2>3
  <2>6. HourlyFresh'
    BY <2>2, <2>4 DEF Inv, HourlyFresh, Fresh, BucketStart
  <2>7. DailyFresh'
    BY <2>2, <2>5 DEF Inv, DailyFresh, Fresh, BucketStart
  <2> QED
    BY <2>6, <2>7
<1> QED
  BY <1>1, <1>2, <1>5, <1>6, <1>7, <1>8 DEF Inv

\* Every step keeps the invariant.
LEMMA NextInv == Inv /\ [Next]_vars => Inv'
<1> SUFFICES ASSUME Inv, [Next]_vars PROVE Inv'
  OBVIOUS
<1>1. TypeOK' /\ TypeOK
  BY NextTypeOK DEF Inv
<1>2. ASSUME NEW st \in Stations, NEW delay \in EventDelays,
             OnReadings(st, delay)
      PROVE  Inv'
  BY <1>2, InsertStep
<1>3. ASSUME NEW ok \in BOOLEAN,
             RollupHourly(ok) \/ RollupDaily(ok) \/ PruneRaw(ok)
      PROVE  Inv'
  BY <1>3, RollupHourlyStep, RollupDailyStep, PruneRawStep
<1>4. ASSUME Tick \/ Start \/ TickerRun \/ Crash \/ UNCHANGED vars
      PROVE  Inv'
  <2>1. UNCHANGED <<db, hist>>
    BY <1>4 DEF Tick, Start, TickerRun, Crash, vars
  <2>2. now' >= now
    BY <1>1, <1>4 DEF TypeOK, Tick, Start, TickerRun, Crash, vars
  <2>3. RowsInv' /\ PendingInv' /\ NoSilentLoss' /\ HourlyFresh' /\ DailyFresh'
    BY <1>1, <2>1, <2>2, IdleStep DEF TypeOK
  <2>4. ClocksInv'
    <3> USE DEF Inv, TypeOK, ClocksInv, db, hist
    <3>1. CASE Tick
      BY <3>1 DEF Tick, Running
    <3>2. CASE Start
      BY <3>2 DEF Start
    <3>3. CASE TickerRun
      BY <3>3 DEF TickerRun
    <3>4. CASE Crash
      BY <3>4 DEF Crash
    <3>5. CASE UNCHANGED vars
      BY <3>5 DEF vars
    <3> QED
      BY <1>4, <3>1, <3>2, <3>3, <3>4, <3>5
  <2> QED
    BY <1>1, <2>3, <2>4 DEF Inv
<1> QED
  BY <1>2, <1>3, <1>4 DEF Next, Maintenance

-----------------------------------------------------------------------------
\* The inductive invariant holds of every behaviour: whatever readings arrive
\* late, whichever statements fail and wherever the process crashes.
THEOREM Invariance == Spec => []Inv
<1>1. Init => Inv
  BY InitInv
<1>2. Inv /\ [Next]_vars => Inv'
  BY NextInv
<1> QED
  BY <1>1, <1>2, PTL DEF Spec

\* main.runMaintenance: pruning raw readings loses none that the daily rollup
\* could have taken, if outages stay below the two days of slack.
THEOREM PruningIsSafe == Spec => []NoSilentLoss
<1>1. Inv => NoSilentLoss
  BY DEF Inv
<1> QED
  BY <1>1, Invariance, PTL

\* store.rollup: the buckets inside both boundaries are exact.
THEOREM HourlyBucketsExact == Spec => []HourlyFresh
<1>1. Inv => HourlyFresh
  BY DEF Inv
<1> QED
  BY <1>1, Invariance, PTL

\* The same for the daily rollup.
THEOREM DailyBucketsExact == Spec => []DailyFresh
<1>1. Inv => DailyFresh
  BY DEF Inv
<1> QED
  BY <1>1, Invariance, PTL

\* store.rollup: a rollup run drops a reading from a daily row only beyond the
\* boundaries, and never drops the row.
THEOREM DailyRewritesBounded == Spec => DailyRowsRecomputed
<1> DEFINE Rewrites ==
        \A r \in daily \ daily' :
          /\ r.ts < prunedTo \/ r.ts < DailySince
          /\ \E s \in daily' : /\ s.station = r.station
                              /\ BucketStart(s, Day) = BucketStart(r, Day)
<1>1. Inv /\ [Next]_vars => Rewrites
  <2> SUFFICES ASSUME Inv, [Next]_vars, NEW r \in daily \ daily'
               PROVE  /\ r.ts < prunedTo \/ r.ts < DailySince
                      /\ \E s \in daily' :
                            /\ s.station = r.station
                            /\ BucketStart(s, Day) = BucketStart(r, Day)
    OBVIOUS
  <2>1. RollupDaily(TRUE)
    BY DEF Next, Maintenance, Tick, OnReadings, InsertReading, Start, TickerRun,
           RollupHourly, RollupDaily, PruneRaw, Crash, vars, db, hist
  <2>2. daily' = Rollup(daily, Day, DailySince)
    BY <2>1 DEF RollupDaily
  <2>3. PICK s \in Selected(DailySince) : SameBucket(r, s, Day)
    BY <2>2 DEF Rollup
  <2>4. r \notin Selected(DailySince) /\ s \in daily'
    BY <2>2 DEF Rollup
  <2>5. r \in received /\ r.ts \in Int /\ prunedTo \in Int /\ DailySince \in Int
    BY DEF Inv, TypeOK, RowsInv, Reading, DailySince
  <2>6. r.ts < prunedTo \/ r.ts < DailySince
    BY <2>4, <2>5 DEF Selected, Inv, RowsInv
  <2> QED
    BY <2>3, <2>4, <2>6 DEF SameBucket
<1> QED
  BY <1>1, Invariance, PTL DEF Spec, DailyRowsRecomputed

-----------------------------------------------------------------------------
\* Every step of the store is a step of the archive, or none.
LEMMA ArchiveStep == Inv /\ [Next]_vars => [A!Next]_A!vars
<1> SUFFICES ASSUME Inv, [Next]_vars PROVE A!Next \/ UNCHANGED A!vars
  OBVIOUS
<1> USE DEF ExpiredOnArrival
<1>1. CASE Tick \/ Start \/ TickerRun \/ Crash \/ UNCHANGED vars
  BY <1>1 DEF Tick, Start, TickerRun, Crash, vars, db, hist, A!vars
<1>2. ASSUME NEW st \in Stations, NEW delay \in EventDelays, OnReadings(st, delay)
      PROVE  A!Next
  <2> DEFINE r == [station |-> st, id |-> nextId,
                   ts |-> now - delay, received_at |-> now]
  <2>1. r \notin received
    BY DEF Inv, TypeOK, RowsInv
  <2>2. /\ received' = received \cup {r} /\ raw' = raw \cup {r}
        /\ UNCHANGED <<captured, missed>>
    BY <1>2 DEF OnReadings, InsertReading, EventTime
  <2> HIDE DEF r
  <2>3. r \in received'
    BY <2>2
  <2>4. \E x \in received' : A!Receive(x)
    BY <2>1, <2>2, <2>3 DEF A!Receive
  <2> QED
    BY <2>4 DEF A!Next
<1>3. ASSUME NEW ok \in BOOLEAN, RollupHourly(ok) PROVE UNCHANGED A!vars
  BY <1>3 DEF RollupHourly, A!vars
<1>4. ASSUME NEW ok \in BOOLEAN, RollupDaily(ok) PROVE A!Next
  <2>1. CASE ok
    <3>1. captured' = captured \cup Rollup(daily, Day, DailySince)
      BY <1>4, <2>1 DEF RollupDaily
    <3>2. captured' \subseteq captured \cup raw
      BY <3>1 DEF Rollup, Selected, Inv, RowsInv
    <3>3. A!Summarise
      BY <1>4, <2>1, <3>1, <3>2 DEF RollupDaily, A!Summarise
    <3> QED
      BY <3>3 DEF A!Next
  <2>2. CASE ~ok
    <3>1. A!Excuse
      BY <1>4, <2>2 DEF RollupDaily, A!Excuse
    <3> QED
      BY <3>1 DEF A!Next
  <2> QED
    BY <2>1, <2>2
<1>5. ASSUME NEW ok \in BOOLEAN, PruneRaw(ok) PROVE A!Next \/ UNCHANGED A!vars
  <2>1. CASE ok
    <3>1. raw' = {r \in raw : r.ts >= PruneBefore}
      BY <1>5, <2>1 DEF PruneRaw
    <3>2. PruneBefore \in Int /\ \A r \in raw : r.ts \in Int
      BY DEF PruneBefore, Inv, TypeOK, Reading
    <3>3. \A r \in raw \ raw', s \in raw' : r.ts < s.ts
      BY <3>1, <3>2
    <3>4. NoSilentLoss'
      BY NextInv DEF Inv
    <3>5. /\ raw' \subseteq raw
          /\ UNCHANGED <<received, captured, missed>>
      BY <1>5, <3>1 DEF PruneRaw
    <3>6. A!Forget
      BY <3>3, <3>4, <3>5 DEF A!Forget, NoSilentLoss, Inv, RowsInv
    <3> QED
      BY <3>6 DEF A!Next
  <2>2. CASE ~ok
    BY <1>5, <2>2 DEF PruneRaw, A!vars
  <2> QED
    BY <2>1, <2>2
<1> QED
  BY <1>1, <1>2, <1>3, <1>4, <1>5 DEF Next, Maintenance

\* The measurement store implements the archive.
THEOREM Implementation == Spec => ImplementsArchive
<1>1. Init => A!Init
  BY DEF Init, A!Init
<1> QED
  BY <1>1, ArchiveStep, Invariance, PTL DEF Spec, A!Spec, ImplementsArchive

=============================================================================
