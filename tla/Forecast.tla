------------------------------ MODULE Forecast ------------------------------
(***************************************************************************)
(* The forecast overlay of the server: the goroutine that polls a provider *)
(* (server/main.go), the table it fills (UpsertForecast, PruneForecast)    *)
(* and the query behind the API (Forecast) in server/internal/store.  The  *)
(* process may crash, and be started again with another provider.          *)
(*                                                                         *)
(* A unit of time is the distance of two forecast points.  What a point    *)
(* says of the weather is left out: it is named by its source, its hour    *)
(* and the fetch it came with.                                             *)
(***************************************************************************)
EXTENDS Integers, FiniteSets, FiniteSetsExt

CONSTANTS
    Sources,        \* the providers, openmeteo and nws
    Align,          \* provider -> where its series starts: at a day, at an hour
    Span,           \* provider -> how many points a whole series has
    None,           \* WTWLT_FORECAST_PROVIDER=none
    Retry,          \* wait after a failure: two minutes
    Interval,       \* wait after a success: cfg.ForecastMinutes
    FetchMax,       \* context.WithTimeout around a fetch
    Week,           \* the range a client asks for
    MaxNow, MaxFaults   \* bounds on counters

ASSUME ForecastAssumption ==
    /\ None \notin Sources
    /\ Align \in [Sources -> Nat \ {0}]
    /\ Span \in [Sources -> Nat \ {0}]
    /\ Retry \in Nat /\ Interval \in Nat /\ FetchMax \in Nat /\ Week \in Nat
    /\ MaxNow \in Nat /\ MaxFaults \in Nat

\* A series reaches beyond the day or hour it starts at and the fetch it came with:
\* both cover about a week, and a fetch is given up after 75 seconds.
ASSUME SeriesAssumption == \A s \in Sources : Span[s] >= Align[s] + FetchMax

VARIABLES
    now,
    pc,             \* the polling goroutine; "down" with the process, "off"
                    \* when no provider is configured
    provider,       \* as configured, of this or of the last process
    asked,          \* when the fetch began
    pts,            \* the hours it returned
    fetchedAt,      \* `now` of fetchForecast: when it returned
    wake,           \* when the sleep ends
    forecast,       \* table forecast
    faults,
    \* what the properties need to remember
    fetched,        \* source -> its last stored fetch
    log,            \* all stored fetches
    lastOk, lastFail, \* when a fetch was stored; when one failed or the process began
    providerSince,  \* since when the provider is configured
    lastPrune       \* cut-off of the last successful PruneForecast

poll == <<pc, provider, asked, pts, fetchedAt, wake>>
hist == <<fetched, log, lastOk, lastFail, providerSince, lastPrune>>
vars == <<now, poll, forecast, faults, hist>>

Row == [source : Sources, ts : Int, fetched_at : Nat]
Fetch == [source : Sources, pts : SUBSET Int, at : Nat]

TypeOK ==
    /\ now \in Nat
    /\ pc \in {"down", "off", "fetch", "store", "prune", "sleep"}
    /\ provider \in Sources \cup {None}
    /\ pc \in {"fetch", "store", "prune", "sleep"} => provider \in Sources
    /\ asked \in Nat /\ fetchedAt \in Nat /\ wake \in Nat
    /\ pts \subseteq Int
    /\ forecast \subseteq Row
    /\ faults \in Nat
    /\ fetched \in [Sources -> [pts : SUBSET Int, at : Nat]]
    /\ log \subseteq Fetch
    /\ lastOk \in Int /\ lastFail \in Nat
    /\ providerSince \in Nat /\ lastPrune \in Int

-----------------------------------------------------------------------------
Init ==
    /\ now = 0
    /\ pc = "down"
    /\ provider = None
    /\ asked = 0 /\ pts = {} /\ fetchedAt = 0 /\ wake = 0
    /\ forecast = {}
    /\ faults = 0
    /\ fetched = [s \in Sources |-> [pts |-> {}, at |-> 0]]
    /\ log = {}
    /\ lastOk = -Interval /\ lastFail = 0
    /\ providerSince = 0 /\ lastPrune = -1

\* Time passes while the process is down, waits or sleeps, a fetch no longer
\* than its timeout; the statements on the table take none.
Tick ==
    /\ now < MaxNow
    /\ pc \notin {"store", "prune"}
    /\ pc = "fetch" => now < asked + FetchMax
    /\ pc = "sleep" => now < wake
    /\ now' = now + 1
    /\ UNCHANGED <<poll, forecast, faults, hist>>

\* Deliberate bug: the polling begins though forecast.New returned no provider.
FirstStepUnchecked(p) == "fetch"

FirstStep(p) == IF p = None THEN "off" ELSE "fetch"

\* The process starts, with the provider its configuration names.
Start(p) ==
    /\ pc = "down"
    /\ provider' = p
    /\ pc' = FirstStep(p)
    /\ asked' = now
    /\ lastFail' = now
    /\ providerSince' = IF p = provider THEN providerSince ELSE now
    /\ UNCHANGED <<now, pts, fetchedAt, wake, forecast, faults, fetched, log,
                   lastOk, lastPrune>>

Fault == faults < MaxFaults /\ faults' = faults + 1

Crash ==
    /\ pc # "down"
    /\ Fault
    /\ pc' = "down"
    /\ UNCHANGED <<now, provider, asked, pts, fetchedAt, wake, forecast, hist>>

Sleep(wait) == pc' = "sleep" /\ wake' = now + wait

WaitAfterFailureFull == Interval    \* deliberate bug: no early retry
WaitAfterFailure == Retry

Fails ==
    /\ Fault
    /\ Sleep(WaitAfterFailure)
    /\ lastFail' = now
    /\ UNCHANGED <<now, provider, asked, pts, fetchedAt, forecast, fetched, log,
                   lastOk, providerSince, lastPrune>>

\* The whole series of a provider at time t, from the start of the day or of the
\* hour (external).
Points(p, t) == LET first == t - (t % Align[p]) IN first..(first + Span[p] - 1)

\* parseOpenMeteo and parseNWSForecast skip the points whose time they cannot read,
\* and give up only when none is left.
Parsed(series) == (SUBSET series) \ {{}}

\* prov.Fetch returns; the answer was made at some time since it was asked for.  That
\* a part of it is missing or does not parse is no error, but counts as a fault here
\* (bound).
FetchReturns ==
    /\ pc = "fetch"
    /\ \E t \in asked..now :
          /\ pts' \in Parsed(Points(provider, t))
          /\ IF pts' = Points(provider, t) THEN UNCHANGED faults ELSE Fault
    /\ fetchedAt' = now
    /\ pc' = "store"
    /\ UNCHANGED <<now, provider, asked, wake, forecast, hist>>

\* No answer, a status other than 200, or a body with no point that parses.
FetchFails == pc = "fetch" /\ Fails

\* Deliberate bug: without the transaction, a failure leaves the points before it
\* in the table.
UpsertPartly(ok) ==
    LET written == {t \in pts : ok \/ t <= now + 1}
    IN  {r \in forecast : r.source # provider \/ r.ts \notin written}
          \cup [source : {provider}, ts : written, fetched_at : {fetchedAt}]

\* Deliberate bug: INSERT OR IGNORE, the row of an hour is never renewed.
UpsertIgnoring(ok) ==
    IF ok
    THEN forecast \cup {r \in [source : {provider}, ts : pts, fetched_at : {fetchedAt}] :
                           \A q \in forecast : q.source = provider => q.ts # r.ts}
    ELSE forecast

\* INSERT OR REPLACE of every point in one transaction: all or, when one of them
\* or the commit fails, none.  Rows of other hours stay as they are.
UpsertForecast(ok) ==
    IF ok
    THEN {r \in forecast : r.source # provider \/ r.ts \notin pts}
           \cup [source : {provider}, ts : pts, fetched_at : {fetchedAt}]
    ELSE forecast

Store(ok) ==
    /\ pc = "store"
    /\ forecast' = UpsertForecast(ok)
    /\ IF ok
       THEN /\ pc' = "prune"
            /\ fetched' = [fetched EXCEPT ![provider] = [pts |-> pts, at |-> fetchedAt]]
            /\ log' = log \cup {[source |-> provider, pts |-> pts, at |-> fetchedAt]}
            /\ lastOk' = now
            /\ UNCHANGED <<wake, faults, lastFail>>
       ELSE /\ Fault
            /\ Sleep(WaitAfterFailure)
            /\ lastFail' = now
            /\ UNCHANGED <<fetched, log, lastOk>>
    /\ UNCHANGED <<now, provider, asked, pts, fetchedAt, providerSince, lastPrune>>

\* Deliberate bug: what is a week old is deleted, not what is past.
PruneForecastLate == {r \in forecast : r.ts >= fetchedAt - Week}

PruneForecast == {r \in forecast : r.ts >= fetchedAt}

\* A failure to prune is only logged.
Prune(ok) ==
    /\ pc = "prune"
    /\ Sleep(Interval)
    /\ IF ok
       THEN /\ forecast' = PruneForecast
            /\ lastPrune' = fetchedAt
            /\ UNCHANGED faults
       ELSE Fault /\ UNCHANGED <<forecast, lastPrune>>
    /\ UNCHANGED <<now, provider, asked, pts, fetchedAt, fetched, log,
                   lastOk, lastFail, providerSince>>

\* time.Sleep returns, and the loop starts over.
Wake ==
    /\ pc = "sleep"
    /\ now >= wake
    /\ pc' = "fetch"
    /\ asked' = now
    /\ UNCHANGED <<now, provider, pts, fetchedAt, wake, forecast, faults, hist>>

Next ==
    \/ Tick
    \/ \E p \in Sources \cup {None} : Start(p)
    \/ Crash
    \/ FetchReturns \/ FetchFails
    \/ \E ok \in BOOLEAN : Store(ok) \/ Prune(ok)
    \/ Wake

Spec == Init /\ [][Next]_vars

-----------------------------------------------------------------------------
\* store.Forecast.  Without a source it takes one that has most rows, any of
\* them in a tie, and none when there are no rows.
Count(s) == Cardinality({r \in forecast : r.source = s})

DefaultSources ==
    {s \in Sources : Count(s) > 0 /\ \A t \in Sources : Count(t) <= Count(s)}

StoredForecast(s, from, to) ==
    {r \in forecast : r.source = s /\ from <= r.ts /\ r.ts < to}

\* GET /api/forecast?source=s, always for the coming week.
Answer(s) == StoredForecast(s, now, now + Week)

-----------------------------------------------------------------------------
(***************************************************************************)
(* Properties                                                              *)
(***************************************************************************)

\* The last stored fetch of s is a whole series, one of the time it was made.
Whole(s) ==
    \E t \in 0..fetched[s].at : /\ fetched[s].at <= t + FetchMax
                                /\ fetched[s].pts = Points(s, t)

\* What a client is shown in the hours of the last stored fetch of a source is that
\* fetch, and when it was a whole series nothing else is shown: rows are overwritten one
\* by one, fetches are partial, statements fail and the process crashes between any
\* two, and still what older projections leave behind is gone with the next whole one.
\* (UpsertForecast "replaces the stored forecast" only in that sense.)
LastFetchShown ==
    \A s \in Sources :
        /\ {r \in Answer(s) : r.ts \in fetched[s].pts}
              = [source : {s}, fetched_at : {fetched[s].at},
                 ts : {u \in fetched[s].pts : now <= u /\ u < now + Week}]
        /\ Whole(s) => \A r \in Answer(s) : r.ts \in fetched[s].pts

\* A running poller is never further from its last stored fetch than the interval
\* and one fetch, unless something failed within the retry time and one fetch:
\* neither wait is taken for the other, and none is forgotten.
FreshUnlessFailing ==
    pc \notin {"down", "off"} =>
        now <= Max({lastOk + Interval, lastFail + Retry}) + FetchMax

\* How long the rows of s, no longer configured, may outnumber those of the
\* provider that is.
HealTime(s) == Span[s] - Span[provider] + Align[provider] + FetchMax

\* After a change of provider, once rows were pruned late enough, the query
\* without a source is answered with the configured provider alone: rows that
\* nothing fetches any more age out of the table.  With a whole series stored they
\* cease to outvote it before that; with partial ones when the last of them is past.
SwitchHeals ==
    /\ provider # None /\ (\A s \in Sources : lastPrune >= providerSince + HealTime(s))
          => (Whole(provider) => DefaultSources = {provider})
    /\ (\A s \in Sources : lastPrune >= providerSince + Span[s])
          => DefaultSources \subseteq {provider}

\* The table, seen without what is past, implements the outlook: though each fetch is
\* stored over the last and what is past deleted, in two statements that fail and are
\* cut off by a crash on their own, every hour to come shows what the newest of all
\* fetches that speak of it says, as if all had been kept.
Overlay == INSTANCE Outlook WITH
              heard <- log,
              shown <- [s \in Sources |-> {r \in forecast : r.source = s /\ now <= r.ts}]
ImplementsOutlook == Overlay!Spec

\* store.go, Forecast: "An empty source picks whichever source has the most rows
\* (the active one)": once a whole series that the configured provider gave since it is
\* configured is stored, and what is past is pruned, it is served, in a tie at least
\* possibly.
ActiveSourceServed ==
    /\ pc = "sleep" /\ fetched[provider].at > providerSince /\ lastPrune = fetchedAt
    /\ Whole(provider)
    => provider \in DefaultSources
=============================================================================
