# Verification of wtwlt

TLA+ models, TLC configurations and TLAPS proofs for the wtwlt weather station:
an ESP32 node (`firmware/`) that samples sensors and publishes over MQTT, and a
Go server (`server/`) that stores what it receives, rolls it up, prunes it,
fetches a forecast and serves an API and a dashboard.

## The system

| Component | State | Operations | Correct when |
|---|---|---|---|
| Firmware loop (`firmware/src/main.cpp`) | `lastSample`, `lastPublish`, `lastRainTotal` | `setup`, one pass of `loop` | every window holds a sample, rain is counted once, the schedule neither drifts nor stays behind |
| Aggregator (`aggregator.cpp`) | sums, counts, gust, rain baseline, last sample | `reset`, `addSample`, `finalize` | all statistics of a window speak of the same samples |
| Sensors (`sensors.cpp`) | `lightningFlag` set by an interrupt | `begin`, `read`, `pollLightning` | no strike is forgotten |
| Network (`net/wifi_mqtt.cpp`) | connection, `g_bootIso`, `g_statusFinalized` | `begin`, `loop`, `mqttConnect`, `publish*` | the retained status says what the node is |
| Ingest (`server/internal/ingest`) | MQTT session of `wtwlt-server` | `subscribe`, `onReadings`, `onLightning`, `onStatus` | the table follows the retained status; event times are right |
| Store (`server/internal/store`) | SQLite tables | inserts, rollups, pruning, forecast, queries | rollups agree with the readings; nothing unsummarised is pruned |
| Maintenance (`server/main.go`) | ticker, a goroutine | hourly rollup, daily rollup, prune | the same, through crashes, late data and failing statements |
| Forecast (`internal/forecast`, `main.go`) | poll loop, table `forecast` | fetch, upsert, prune, query | recent, from one source, the newest word on every hour |
| Geocoding (`internal/geocode`) | location label | five attempts | the label appears when the service answers |
| API (`internal/web/web.go`) | location under a mutex | handlers | an answer agrees with the tables, whatever the parameters |
| Dashboard (`dashboard.html`) | page state, overlapping requests | refreshes, range and unit changes | what is shown belongs to what is selected |

The node and the server meet only at the broker: readings and lightning at
QoS 0, status as a retained message with a retained will.  Inside the server
the paho callbacks, the maintenance goroutine, the forecast goroutine and the
HTTP handlers share the database and nothing else but the location label.  The
dashboard sees the server through the API only.

What is hard here: maintenance interleaved with ingest and cut by crashes or
failing statements; rollups recomputed from data that pruning has cut; late and
unset timestamps; two views of the same hours, from readings and from rollups;
passes of the firmware loop blocked by the network, under a wrapping millisecond
counter and with the rain gauge in an interrupt; a sensor whose interrupt line
rises once and stays up until a register is read; a status
that travels through wills, retained messages, a persistent session and
redelivery while any of four parties fails; a page whose requests overtake each
other.  `PROJECT.json` lists each hazard at its line.

## Modules

| Module | Models | Builds on |
|---|---|---|
| `Retention` | raw readings, both rollup tables, `runMaintenance`, `onReadings`, crashes | |
| `Archive` | what the store promises, without tables, schedule and faults (abstract) | |
| `Queries` | current, history and summary of the API over the changing tables | `Retention` |
| `Aggregator` | the statics of `aggregator.cpp` as a record, its functions as operators | |
| `Station` | `setup()` and `loop()` | `Aggregator` |
| `RainLedger` | what the firmware promises of the rain, without clocks and counters (abstract) | |
| `StatusLink` | network module, broker, status ingest | |
| `StatusBoard` | what the status topic and the server's row promise, without messages, sessions and faults (abstract) | |
| `Lightning` | chip, interrupt, `pollLightning`, publish, ingest and query of strikes | |
| `StrikeLog` | what station and server promise of lightning, without interrupt, poll and registers (abstract) | |
| `Forecast` | polling goroutine, forecast table, query with its choice of source | |
| `Outlook` | what the overlay promises, without poller, failures and rows (abstract) | |
| `Dashboard` | selection, overlapping loads, cached answers, what is drawn | |
| `MCRetention` (with `Queries`), `MCStation`, `MCStatusLink`, `MCLightning`, `MCForecast`, `MCDashboard` | instances for TLC | |
| `Retention_proofs`, `Queries_proofs`, `Station_proofs`, `StatusLink_proofs`, `Lightning_proofs`, `Forecast_proofs`, `Dashboard_proofs` | theorems | |

Five refinements: `Retention` implements `Archive` (`ImplementsArchive`),
`Station` implements `RainLedger` (`ImplementsLedger`), `StatusLink` implements `StatusBoard`
(`ImplementsBoard`), `Lightning` implements `StrikeLog` (`ImplementsStrikeLog`) and
`Forecast` implements `Outlook` (`ImplementsOutlook`), each an `INSTANCE ... WITH` in the
detailed module, checked by TLC and proved.

### Retention and Archive

Time advances in periods of the maintenance ticker (ten minutes).  A rollup
table is the set of readings its rows summarise; the row of a bucket aggregates
the members in it, and AVG, MIN, MAX and SUM are functions of them.  `Rollup` is the
`INSERT OR REPLACE ... SELECT ... GROUP BY`: every bucket with a selected
reading gets a new row, all others keep theirs.  `Start`, `TickerRun`,
`RollupHourly`, `RollupDaily`, `PruneRaw` are the steps of `main` and
`runMaintenance`; each statement is atomic in SQLite and may fail, which the
code logs before it goes on.  `runNow` is the `now` the run fixes at its start.
`OnReadings` may come between any two steps, with a timestamp from its arrival
time to far in the past (a node whose clock is unset sends the epoch).
`Crash` keeps the tables.  `received`, `captured`, `missed`, `hourlyRun`,
`dailyRun`, `lastDaily` and `prunedTo` are history variables.

Assumptions: `GapAssumption`, no more time passes between two tries of the daily
rollup than the two days by which its reach exceeds the retention, and a run
lasts less than two periods (`Tick`).  A server that is down for longer does lose
readings that were not rolled up yet; that is what the slack of two days buys and no
more.

`Archive` says the same without any of it: readings are received, may be summarised, and are
forgotten oldest first, and only when summarised or excused.  A reading is
excused when the rollup that should have taken it failed (`missed`) or when it was
past the retention on arrival.

### Queries

The answers of `GET /api/current`, `/api/history` and `/api/summary` as functions of the tables
and the clock: the default range (`timeRange`), the intervals of `historyInterval`
(which start on multiples of their width, not where the range starts), the choice
between raw readings and a rollup table, the flooring of the first bucket.  An
aggregate is the set of readings it is taken over.  The queries change nothing, so
they are evaluated in every state of `Retention`, between any two statements of maintenance.

### Aggregator, Station and RainLedger

One pass of `loop()` is three steps: `Network` (everything that takes time,
then `millis()`), `TakeSample` (at most one) and `Publish` (at most one window).
`millis()` and the deadlines are below `Wrap` and wrap; only their differences
are compared, as in the code.  `RainTip`, the interrupt, comes between any two steps.
Rain is counted in tips and means are kept as sum and count, so no property
rests on floating point.  Windows published while MQTT is down are
dropped (`rainSent`), as in `publishReadings`.

`RainLedger` has four numbers: rain that waits in the gauge, in the open window, in closed
windows and sent.  The gauge's counter, its baseline and the last total of the sample map to them.

### StatusLink and StatusBoard

`connected` is what PubSubClient believes, `tcp` whether bytes arrive.  Boot times
are power-up numbers, 0 the epoch string.  `MqttConnect` covers `mqttConnect()`
from `begin()` and from `loop()`; `FinalizeStatus` the late republication.  The
broker (external) follows MQTT 3.1.1: taking over a client id publishes
the old will, a will is published when keep-alive runs out, retained messages answer
a subscription, QoS 1 messages are queued for the server's session and sent
again when not acknowledged.  `DeliverReading` carries only the kind of timestamp.
Messages that arrive for the server before its handlers are registered again are
treated as handled; the retained message that follows the subscription comes
after them either way.

`UpsertStatus` may fail, which `onStatus` only logs (`upsertFailed`); the last
row written then stays until the next status.  `hist` remembers what properties need.
`QoS1`, what the broker keeps of a queue for a session that is away, is a function of positions.

`StatusBoard` has the node's power-ups, whether it is connected, what the topic says and what
the server shows.  An announcement comes from the connected node and names its present power-up;
a withdrawal comes while it is not connected, or with its next connection, and names no earlier
power-up than the board does.  Both are one message at the broker, whichever way it came:
from the node, from a will, late or sent again.

### Lightning and StrikeLog

The AS3935 (external) as the driver's comments and calls describe it: one pending event in the
interrupt register, a line that rises with it and falls when the register is read,
and distance and energy registers that hold the last strike.  `Poll`, `ReadInterruptReg`,
`DistanceToStorm` and `LightningEnergy` are the lines of `pollLightning`, with `Detect`
(and the interrupt, which only sets the flag) between any two of them.  `Attach` ends
`begin()`: events before it raise the line without an edge.  `PublishLightning` stamps the
message with the clock or, while it is unset, with the epoch, and drops it without a
connection; messages are lost or reordered on the way (`flight` is a set); `OnLightning` stores them
unless the insert fails.  Reports of disturbers and noise are compiled out
(`LIGHTNING_REPORT_NONSTRIKE`), as `Reported` has it.  A message carries the numbers of
the events its fields come from, so that a mixture of two strikes shows.

`StrikeLog` leaves the chip, the flag and the steps of the poll out: events occur, one newer than
all before is picked up, its report is sent at most once, with values no older than it,
and is lost or logged.

### Forecast and Outlook

A unit of time is the distance of two points of a forecast.  `Start` is the
process with the provider of its configuration, `FetchReturns` and `FetchFails`
the call of the provider, `Store` and `Prune` the two
statements of `fetchForecast`, `Wake` the next round of the loop.  The provider's answer
(`Points`, external) is a run of hours from the start of the day for openmeteo, of the
hour for nws; what `parseOpenMeteo` and `parseNWSForecast` make of it is any part of it
that is not empty (`Parsed`), since both skip a point whose time they cannot read and fail only
when none is left.  Each may fail and
the process may crash between any two; `Store` is one transaction.
`StoredForecast` is `store.Forecast`, `Answer` what `GET /api/forecast` returns for the coming week and
`DefaultSources` the sources the query without a source may take.  `provider`
persists over a crash only as history; `fetched` (the last stored fetch of each source),
`log` (all of them), `lastOk`, `lastFail`, `providerSince` and `lastPrune` are history too.

`UpsertForecast` overwrites the hours it is given and deletes none.  So the rows of a source are
its last fetch where that has a point (`LastFetchShown`), and what it leaves out shows
older fetches; only after a whole series (`Whole`) is nothing else shown.

`SeriesAssumption`: a series reaches beyond the day or hour it starts at and the time its fetch
may take.  Both providers return about a week, and a fetch is given up after 75 seconds.

`Outlook` remembers every fetch it hears of and shows, for each hour that is not past, the newest
word of a source on it.  That the table, which keeps one row per hour, deletes what is past and
goes through this in two statements, either of which may fail or be
cut off by a crash, shows the same is `ImplementsOutlook`.

### Dashboard

The script is single-threaded, so a step is the handling of an event up to its next `await`:
a click (`SetUnits`, `SetRange`), the minute's `RefreshLive`, or one answer (`Answer`,
successful or not).  A load is a call of `loadCurrent`, `loadSummary`, `loadLightning` or
`loadCharts` that waits: it keeps the selection its requests were sent with, and goes on
when the last one is answered (`Promise.all`).  Of an answer only the units and the
range it was asked for are kept, in `data` (the page's `state`) and, once rendered, in `page`.
`DrawSummary` labels the cards with the range selected *now*, and `DrawCharts` draws the
axis of the range selected now, as the code does.  The day's high and low are drawn by
`loadCurrent` only, the day's rain with the tiles by `loadCharts` too.

## What the runs check

| Run | Bounds | Shows |
|---|---|---|
| `retention_safety` | two stations, two readings, one fault, five periods, hours of 2 and days of 4, windows of 2; intervals as wide as an hour and a day, ranges given and defaulted | `Inv`, `HourlyFresh`, `DailyFresh`, `NoSilentLoss`, `DailyRowsRecomputed`; of the API `RollupHistoryExact`, `HourViewsAgree`, `DefaultRangeWhole`, `CurrentAdvances`; `ImplementsArchive` |
| `retention_live` | one station | `EventuallySummarised` under `FairSpec` |
| `retention_daily`, `retention_hourly`, `retention_prune` | one station, on-time readings, windows and slack in the code's proportions; two faults in the last | the three disagreements below |
| `station_safety` | samples every 2, windows of 6, passes of 1 or 9, wrap at 17, two tips | `TypeOK`, `WindowHasSample`, `RainCountedOnce`, `MeanBelowGust`, `DeadlinesInPhase`, `CatchesUp`, `ImplementsLedger` |
| `status_safety` | two power-ups, three faults | `TypeOK`, `LinkInv`, `StatusIsRetained`, `RetainedFollowsNode`, `BootOrder`, `EventuallyOnline`, `EventuallyOffline`, `ImplementsBoard` |
| `lightning_safety` | four events, four instants, limits missing, negative, zero, small and above the maximum | `StrikeInv`, `NeverDeaf`, `StrikesStoredOnce`, `RecentStrikeShown`, `InterruptServed`, `ImplementsStrikeLog` |
| `forecast_safety` | two providers, series of 4 and 3 hours, waits of 1 and 2, fetches of up to 1, eight hours, two faults, partial answers among them | `TypeOK`, `LastFetchShown`, `FreshUnlessFailing`, `SwitchHeals`, `ImplementsOutlook` |
| `forecast_source` | series of 8, from the start of a day of four, and 6, as 168 hours to 156; one fault | the choice of source below |
| `dashboard_safety` | two units, a short and a long range, two clicks, one overtaken load, one failure | `PageInv`, `FetchedIsDrawn`, `Settles` |
| `status_clock` | one power-up, no fault | the timestamp disagreement below |

Why the bounds are enough.  *Retention*: two readings are what any property
relates (one stored, one that triggers the replacement of its bucket; one shown as current, one
that arrives late); five
periods let a reading be stored, rolled up, cut by `since`, pruned and its
bucket rolled up again; buckets are longer than the windows are aligned, so
`since` falls inside and on the edge of one; delays of 0, 2 and 20 are on time,
at the edge of the windows and past all of them; ranges begin and end inside a bucket and on
its edge.  Stations are symmetric, and no property of the run is a liveness property.  The
proofs cover all other values.  *Station*: a pass of 9 spans four samples and a
whole window, and 17 is no multiple of either interval, so every phase of the wrap
is met.  *StatusLink*: two power-ups and three faults allow a stale will, a lost
publication and a redelivery in one behaviour.  *Lightning*: a poll has three reads, so
four events are one that starts it and one between any two reads, or two polls with a strike inside each;
four instants give messages a different order in time and in arrival.
*Forecast*: two faults are a crash
that changes the provider and one failure or partial answer anywhere; eight hours are longer than
the longest series, so that the rows of an old provider come and go within a behaviour.
*Dashboard*: two clicks change the selection and change it back, so an old answer may match or
not; one load may be overtaken, which is what an answer out of order takes.  The
instance leaves two of the seven requests out: the sparks are fetched, kept and drawn as
the history is, and lightning as the summary is.  The proofs cover all seven.

Deadlock is checked for `Station`, whose loop never ends, and for `Dashboard`, whose
timer never stops.  `Retention`, `Lightning` and `Forecast` stop at their
bounded clock and counters, and `StatusLink` when everything has settled.

Fairness.  `Retention`: the clock advances, systemd restarts the process
(`Restart=always` in `install.sh`), the goroutine is scheduled; ingest, failures
and crashes are not fair.  `Station` and `Lightning`: `loop()` is called for ever by the Arduino
core.  `StatusLink`: `loop()` retries WiFi and MQTT without end, SNTP answers in
the end, the broker serves and detects dead connections, paho reconnects
(`SetAutoReconnect`, `SetConnectRetry`) and handles what comes.  Power-ups and
faults are not fair.  `Dashboard`: `setInterval` fires for ever, and as long as requests are
open one of them is answered in the end; clicks are not fair.  Which request is
answered is not fixed, but `Start` bounds how many late ones there are.

## Disagreements the runs show

* `retention_daily`: `store.go:67` says rollups survive raw pruning.  `RollupDaily`
  reaches two days further back than `PruneRaw` leaves readings; a bucket
  that the cut-off runs through is replaced by an aggregate of what is left of
  it, and at the next runs of less, until only its last minutes count.  What does
  hold is `DailyRowsRecomputed`: rows shrink only there, and never vanish.
* `retention_hourly`: `store.go:360` says the hourly rollup is safe to run often.
  `since` is not truncated to the hour, so the hour nine days ago is replaced by
  an aggregate of its end, though its readings are all still there.
* `retention_prune`: `store.go:387` says to prune only what was rolled up.
  `runMaintenance` logs the failed rollup and prunes.
* `forecast_source`: `store.go:508` says the source with most rows is the active
  one.  The rows of a provider that is no longer configured stay until they are past
  and may outnumber the new ones; nothing fetches them any more.  `SwitchHeals`
  bounds how long: until what is past is pruned `HealTime` after the change, which for each
  other source is the difference of the two lengths, the alignment of the new series and a
  fetch, when the last stored fetch is a whole series; else until `Span` of the old source after it,
  when its last row is past.
* `status_clock`: `README.md:155` says the server stamps the arrival time when the
  node's clock is not set.  The node sends the epoch, which parses.

Met while modelling, without a run of its own:

* `README.md:116` says the node publishes readings at QoS 1.  `publish()` of the firmware's
  MQTT client sends at QoS 0, and the models have it so: the broker keeps no reading or
  strike for a server that is away and sends none twice.
* `store.go:478` says `UpsertForecast` replaces the stored forecast of the source; its next
  sentence, and `store_test.go:348-355`, that it overwrites the hours it is given.  When the
  parsers skip points (`openmeteo.go:99-103`, `nws.go:124-128`), hours of an older fetch
  stay between those of the newer, and the API answers with both.  What does hold is
  `LastFetchShown` and `ImplementsOutlook`.
* An event of the lightning chip between its start and `attachInterrupt` (`sensors.cpp:132`)
  leaves the line up, and no edge follows; `NeverDeaf` and `InterruptServed` name it as
  their exception (`missed`).
* The distance and energy of a message may be those of a later strike than the one
  it reports (`sensors.cpp:190`); `StrikesStoredOnce` bounds the mixture.
* The dashboard's cards may be labelled with a range they are not of (`dashboard.html:620`), the
  reading with units it is not in (`:486`), and tiles that draw on several answers may mix units
  while requests from before and after a change of units are open, or when one of
  the later ones fails.  `Settles` shows that each heals within the refreshes that follow.
  The charts of ranges above 48 hours are not refreshed: a late answer for an
  old selection stays on them until the user acts, and `Settles` leaves them out.

## What is proved

All with `tlapm`, for every value of the constants that satisfies the named
assumptions.

* `Retention_proofs`: `Invariance` (`Inv` is inductive), and from it
  `PruningIsSafe`, `HourlyBucketsExact`, `DailyBucketsExact` and `DailyRewritesBounded`.
  `NoSilentLoss` alone is not inductive: that a pruned reading was captured
  rests on `PendingInv` (a reading not yet taken by the daily rollup arrived after
  its last try), which rests on `ClocksInv` (that try is at most the slack ago, and
  a run prunes with the `now` it rolled up with) and `RowsInv` (raw readings newer
  than the last cut-off are all still there).  `Implementation`: every step of the
  store is a step of `Archive` or changes nothing of it; pruning needs `NoSilentLoss`
  of the next state, and that the cut-off never moves back behind what is kept.
* `Queries_proofs`: `RollupHistoryIsExact` and `ViewsAgree`, from the exactness of settled buckets and lemmas
  on `Truncate` (a bucket meets a range that starts at `from` iff its start is not before the
  floored `from`) and on grouping; `DefaultRangeIsWhole`, since the cut-off lies at least the
  retention before any later `now`; `CurrentNeverGoesBack`, since pruning removes
  only what is older than everything it keeps.
* `Station_proofs`: `TypeCorrect` and `DeadlinesStayInPhase` (the two stay a whole number
  of sample intervals apart, through the wrap and every blocked pass); `EveryWindowSampled` from `ScheduleInv`, a bound on how far
  samples run ahead of windows in wrapped arithmetic; `RainConserved` from
  `RainInv`; `MeanNeverAboveGust`; `Implementation`: every step is a step of `RainLedger` or a stutter.
* `StatusLink_proofs`: `LinkConsistent` (`LinkInv` is inductive: the node's view of
  its connection agrees with the broker's session, and wills, queued and retained
  messages are ordered by power-up), and from it `BootsInOrder` and
  `RetainedIsNode`.  Neither is inductive alone: that a late will cannot overwrite
  rests on the broker having one session per client id.  `TypeCorrect`
  needs that `QoS1` returns a sequence of messages of the queue it is given (`QoS1Type`), by induction
  over its positions, done by the least position at which it would fail (`LeastNumber`, from
  the well-foundedness of the order on naturals).  `RowIsRetained`: whatever is routed to the
  connected server is the last in its queue, and the retained status is routed
  with it (`RouteKeepsRow`).
  For `Implementation`, `OrderInv` adds that the row, and
  every status on its way to it, names no power-up after the retained one.
* `Lightning_proofs`: `Invariance` (`StrikeInv` is inductive), and from it `InterruptsAreNotLost`, `StrikesAreStoredOnce`
  and `NewestStrikeIsShown`.  That no strike is stored twice rests on the order of
  event numbers along the way: stored or in flight, below the one being read,
  below the one in the register (`SentInv`, `PollInv`, `ChipInv`).  `Implementation` needs
  `PickedInv` besides: also between two polls the register holds nothing older than what was read last.
* `Forecast_proofs`: `TypeCorrect`; `Fresh` from `PhaseInv` (when the current phase
  began, against the last success or failure); `LastFetchIsShown` from
  `ProjectionInv`: fetches are stored in the order they were made (`OrderInv`), so no row of a
  source lies beyond a series made when it was last fetched (`ReachInv`, by the monotonicity of
  `t - t % Align`), and a whole series covers every row that is not past (`PartReaches`).
  `Heals` from `HealInv`: no row of a source that is no longer configured lies further
  than a series made when it was replaced (`BoundInv`), an hour of a source has one row (`KeyInv`), a
  fetch of the configured source is stored that is not older than the last cut-off (`StoredInv`), and of the
  others nothing is left before it (`PruneInv`); the old rows then lie in a shorter
  interval than a whole new series fills, which `Outnumbers` turns into cardinalities, or
  in none (`OthersGone`).
  `Implementation` from `LogInv`: a row is of the newest fetch that speaks of its hour, and of every
  hour ahead that a fetch speaks of there is one.  That the table is then what the outlook
  shows (`LogNewest`) holds in every state, so a step need only be matched in clock and fetches.
* `Dashboard_proofs`: `Invariance` (of `PageInv`) and `NothingIsLeftUndrawn`, for every set of requests, units and ranges
  and any number of overlapping loads.  Starting loads keeps those under way; no other
  load writes what the charts draw; the one whose last answer comes draws all of it.

Only model-checked:

* liveness (`EventuallySummarised`, `EventuallyOnline`, `EventuallyOffline`, `InterruptServed`,
  `Settles`, `CatchesUp`), because the prover does not reason about fairness and ENABLED.

Every safety property and every refinement that a passing run checks is proved.

## What is left

A composition of `Station` with a link that loses messages and the store, as one promise from
gauge to summary: the two halves are `RainLedger` (what is sent) and `Archive` (what is
received); QoS 0 between them promises nothing but order.

## Not modelled

* Geocoding: at most five attempts that write one variable once, under a mutex;
  nothing waits for it and nothing undoes it.
* Unit conversions and configuration: single expressions, covered by their
  unit tests.
* `GET /api/stations`, which returns the table of `StatusLink` as it is; JSON and HTTP as such.
* What a point of a forecast says of the weather (`wmoCondition`, the texts and units of
  the NWS): tables of constants.
* The drivers' arithmetic on one sample and the mean wind direction of the aggregator: real
  arithmetic.
* Of the dashboard: layout, themes, tables, resampling and the redrawing of cached data when
  another metric or view is chosen, which fetches nothing.
* The installer, the service unit, the mock publisher and the broker's configuration.
  `Restart=always` of the service and the persistence of the broker appear as assumptions.
