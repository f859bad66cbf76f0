--------------------------- MODULE Forecast_proofs ---------------------------
(***************************************************************************)
(* Proofs about Forecast: for every length of the waits, of a fetch and of *)
(* the providers' series, and whatever part of a fetch is missing, a       *)
(* running poller is as recent as the waits allow and a client is shown    *)
(* the newest word on every hour.                                          *)
(***************************************************************************)
EXTENDS Forecast, FiniteSetTheorems, TLAPS

USE ForecastAssumption

\* The latest time at which the next fetch must have begun.
Deadline == Max({lastOk + Interval, lastFail + Retry})

\* Max of two numbers is one of them and not below the other.
LEMMA MaxOfTwo ==
    ASSUME NEW a \in Int, NEW b \in Int
    PROVE  Max({a, b}) = IF a >= b THEN a ELSE b
<1>1. \E x \in {a, b} : \A y \in {a, b} : x >= y
  OBVIOUS
<1>2. Max({a, b}) \in {a, b} /\ \A y \in {a, b} : Max({a, b}) >= y
  BY <1>1 DEF Max
<1> QED
  BY <1>2

\* The times that the poller compares are numbers.
ClockType ==
    /\ now \in Nat /\ asked \in Nat /\ wake \in Nat
    /\ lastOk \in Int /\ lastFail \in Nat

\* In every phase, how far the clock may have advanced: a fetch began in time and
\* ends by its timeout, rows are stored at that instant, and a sleep ends on time.
PhaseInv ==
    /\ pc = "fetch" => asked <= Deadline /\ now <= asked + FetchMax
    /\ pc = "store" => now <= Deadline + FetchMax
    /\ pc = "prune" => now = lastOk
    /\ pc = "sleep" => now <= wake /\ wake <= Deadline

FreshInv ==
    /\ ClockType
    /\ pc \in {"down", "off", "fetch", "store", "prune", "sleep"}
    /\ PhaseInv

LEMMA DeadlineIs ==
    ASSUME lastOk \in Int, lastFail \in Int
    PROVE  /\ Deadline \in Int
           /\ Deadline >= lastOk + Interval
           /\ Deadline >= lastFail + Retry
  BY MaxOfTwo DEF Deadline

LEMMA DeadlineNextIs ==
    ASSUME lastOk' \in Int, lastFail' \in Int
    PROVE  /\ Deadline' \in Int
           /\ Deadline' >= lastOk' + Interval
           /\ Deadline' >= lastFail' + Retry
  BY MaxOfTwo DEF Deadline

LEMMA InitFresh == Init => FreshInv
  BY DEF Init, FreshInv, ClockType, PhaseInv

\* A fetch, a statement or the commit that fails leads to the early retry.
LEMMA FailsFresh ==
    ASSUME FreshInv, UNCHANGED <<now, asked, lastOk>>,
           Sleep(WaitAfterFailure), lastFail' = now
    PROVE  FreshInv'
<1>1. ClockType' /\ pc' = "sleep" /\ wake' = now + Retry
  BY DEF FreshInv, ClockType, Sleep, WaitAfterFailure
<1>2. Deadline' >= lastFail' + Retry
  BY <1>1, DeadlineNextIs DEF ClockType
<1> QED
  BY <1>1, <1>2 DEF FreshInv, ClockType, PhaseInv

LEMMA NextFresh == FreshInv /\ [Next]_vars => FreshInv'
<1> SUFFICES ASSUME FreshInv, [Next]_vars PROVE FreshInv'
  OBVIOUS
<1>0. ClockType /\ PhaseInv /\ Deadline \in Int
  BY DeadlineIs DEF FreshInv, ClockType
<1>1. CASE Tick
  <2>1. UNCHANGED <<pc, asked, wake, lastOk, lastFail>> /\ now' = now + 1
    BY <1>1 DEF Tick, poll, hist
  <2>2. Deadline' = Deadline
    BY <2>1 DEF Deadline
  <2> QED
    BY <1>0, <1>1, <2>1, <2>2 DEF FreshInv, ClockType, PhaseInv, Tick
<1>2. ASSUME NEW p \in Sources \cup {None}, Start(p) PROVE FreshInv'
  <2>1. UNCHANGED <<now, wake, lastOk>> /\ asked' = now /\ lastFail' = now
        /\ pc' \in {"off", "fetch"}
    BY <1>2 DEF Start, FirstStep
  <2>2. Deadline' \in Int /\ Deadline' >= now + Retry
    BY <1>0, <2>1, DeadlineNextIs DEF ClockType
  <2>3. ClockType'
    BY <1>0, <2>1 DEF ClockType
  <2>4. now' <= asked' + FetchMax /\ asked' <= Deadline'
    BY <1>0, <2>1, <2>2 DEF ClockType
  <2> QED
    BY <2>1, <2>3, <2>4 DEF FreshInv, PhaseInv
<1>3. CASE Crash
  BY <1>0, <1>3 DEF FreshInv, ClockType, PhaseInv, Crash, hist
<1>4. CASE FetchReturns
  <2>1. UNCHANGED <<now, asked, wake, lastOk, lastFail>> /\ pc' = "store"
        /\ pc = "fetch"
    BY <1>4 DEF FetchReturns, hist
  <2>2. Deadline' = Deadline
    BY <2>1 DEF Deadline
  <2> QED
    BY <1>0, <2>1, <2>2 DEF FreshInv, ClockType, PhaseInv
<1>5. CASE FetchFails
  BY <1>5, FailsFresh DEF FetchFails, Fails
<1>6. CASE Store(FALSE)
  BY <1>6, FailsFresh DEF Store
<1>7. CASE Store(TRUE)
  <2>1. UNCHANGED <<now, asked, wake, lastFail>> /\ pc' = "prune" /\ lastOk' = now
    BY <1>7 DEF Store
  <2> QED
    BY <1>0, <2>1 DEF FreshInv, ClockType, PhaseInv
<1>8. ASSUME NEW ok \in BOOLEAN, Prune(ok) PROVE FreshInv'
  <2>1. UNCHANGED <<now, asked, lastOk, lastFail>> /\ pc = "prune"
        /\ pc' = "sleep" /\ wake' = now + Interval
    BY <1>8 DEF Prune, Sleep
  <2>2. Deadline' = Deadline /\ Deadline >= lastOk + Interval
    BY <1>0, <2>1, DeadlineIs DEF Deadline, ClockType
  <2> QED
    BY <1>0, <2>1, <2>2 DEF FreshInv, ClockType, PhaseInv
<1>9. CASE Wake
  <2>1. UNCHANGED <<now, wake, lastOk, lastFail>> /\ asked' = now
        /\ pc = "sleep" /\ pc' = "fetch"
    BY <1>9 DEF Wake, hist
  <2>2. Deadline' = Deadline
    BY <2>1 DEF Deadline
  <2> QED
    BY <1>0, <2>1, <2>2 DEF FreshInv, ClockType, PhaseInv
<1>10. CASE UNCHANGED vars
  <2>1. UNCHANGED <<now, pc, asked, wake, lastOk, lastFail>>
    BY <1>10 DEF vars, poll, hist
  <2> QED
    BY <2>1, <1>0 DEF FreshInv, ClockType, PhaseInv, Deadline
<1> QED
  BY <1>1, <1>2, <1>3, <1>4, <1>5, <1>6, <1>7, <1>8, <1>9, <1>10 DEF Next

\* A running poller is never further from its last stored fetch than the interval
\* and one fetch, unless something failed within the retry time and one fetch.
THEOREM Fresh == Spec => []FreshUnlessFailing
<1>1. FreshInv => FreshUnlessFailing
  <2> SUFFICES ASSUME FreshInv PROVE FreshUnlessFailing
    OBVIOUS
  <2>1. /\ Deadline \in Int
        /\ Deadline >= lastOk + Interval
    BY DeadlineIs DEF FreshInv, ClockType
  <2>2. pc \notin {"down", "off"} => now <= Deadline + FetchMax
    BY <2>1 DEF FreshInv, ClockType, PhaseInv
  <2> QED
    BY <2>2 DEF FreshUnlessFailing, Deadline
<1> QED
  BY <1>1, InitFresh, NextFresh, PTL DEF Spec

-----------------------------------------------------------------------------
LEMMA NextType == TypeOK /\ [Next]_vars => TypeOK'
<1> SUFFICES ASSUME TypeOK, [Next]_vars PROVE TypeOK'
  OBVIOUS
<1> USE DEF TypeOK
<1>1. CASE Tick
  BY <1>1 DEF Tick, poll, hist
<1>2. ASSUME NEW p \in Sources \cup {None}, Start(p) PROVE TypeOK'
  BY <1>2 DEF Start, FirstStep
<1>3. CASE Crash
  BY <1>3 DEF Crash, Fault, hist
<1>4. CASE FetchReturns
  <2>1. PICK t \in asked..now :
          /\ pts' \in Parsed(Points(provider, t))
          /\ IF pts' = Points(provider, t) THEN UNCHANGED faults ELSE Fault
    BY <1>4 DEF FetchReturns
  <2>2. Points(provider, t) \subseteq Int
    BY DEF Points
  <2>3. pts' \subseteq Int /\ faults' \in Nat
    BY <2>1, <2>2 DEF Parsed, Fault
  <2> QED
    BY <1>4, <2>3 DEF FetchReturns, hist
<1>5. CASE FetchFails
  BY <1>5 DEF FetchFails, Fails, Fault, Sleep, WaitAfterFailure
<1>6. CASE Store(FALSE)
  BY <1>6 DEF Store, UpsertForecast, Fault, Sleep, WaitAfterFailure
<1>7. CASE Store(TRUE)
  <2>1. provider \in Sources
    BY <1>7 DEF Store
  <2>2. forecast' \subseteq Row
    <3>1. forecast' \subseteq forecast
             \cup [source : {provider}, ts : pts, fetched_at : {fetchedAt}]
      BY <1>7 DEF Store, UpsertForecast
    <3>2. [source : {provider}, ts : pts, fetched_at : {fetchedAt}] \subseteq Row
      BY <2>1 DEF Row
    <3> QED
      BY <3>1, <3>2
  <2>3. fetched' \in [Sources -> [pts : SUBSET Int, at : Nat]]
    <3>1. [pts |-> pts, at |-> fetchedAt] \in [pts : SUBSET Int, at : Nat]
      OBVIOUS
    <3>2. fetched' = [fetched EXCEPT ![provider] = [pts |-> pts, at |-> fetchedAt]]
      BY <1>7 DEF Store
    <3> QED
      BY <3>1, <3>2
  <2>4. /\ UNCHANGED <<now, provider, asked, pts, fetchedAt, wake, faults,
                      lastFail, providerSince, lastPrune>>
        /\ pc' = "prune" /\ lastOk' = now
    BY <1>7 DEF Store
  <2>5. log' \subseteq Fetch
    <3>1. [source |-> provider, pts |-> pts, at |-> fetchedAt] \in Fetch
      BY <2>1 DEF Fetch
    <3> QED
      BY <1>7, <3>1 DEF Store
  <2> QED
    BY <2>1, <2>2, <2>3, <2>4, <2>5
<1>8. ASSUME NEW ok \in BOOLEAN, Prune(ok) PROVE TypeOK'
  <2>1. provider \in Sources
    BY <1>8 DEF Prune
  <2>2. forecast' \subseteq Row /\ faults' \in Nat /\ lastPrune' \in Int
    BY <1>8 DEF Prune, PruneForecast, Fault
  <2> QED
    BY <1>8, <2>1, <2>2 DEF Prune, Sleep
<1>9. CASE Wake
  BY <1>9 DEF Wake, hist
<1>10. CASE UNCHANGED vars
  BY <1>10 DEF vars, poll, hist
<1> QED
  BY <1>1, <1>2, <1>3, <1>4, <1>5, <1>6, <1>7, <1>8, <1>9, <1>10 DEF Next

\* Every variable keeps its type, and the poller runs only with a provider.
THEOREM TypeCorrect == Spec => []TypeOK
<1>1. Init => TypeOK
  BY DEF Init, TypeOK
<1> QED
  BY <1>1, NextType, PTL DEF Spec

-----------------------------------------------------------------------------
LEMMA Division ==
    ASSUME NEW t \in Nat, NEW a \in Nat \ {0}
    PROVE  /\ t \div a \in Int /\ t % a \in Int
           /\ t = a * (t \div a) + (t % a)
           /\ 0 <= t % a /\ t % a < a
  OBVIOUS

LEMMA StrictProduct ==
    ASSUME NEW a \in Nat \ {0}, NEW p \in Int, NEW q \in Int, p < q
    PROVE  a * p + a <= a * q
  OBVIOUS

\* A series that starts at the hour or at the day never starts earlier than that
\* of an earlier fetch.
LEMMA StartMonotone ==
    ASSUME NEW s \in Nat, NEW t \in Nat, NEW a \in Nat \ {0}, s <= t
    PROVE  s - (s % a) <= t - (t % a)
<1>1. CASE t \div a < s \div a
  BY <1>1, Division, StrictProduct
<1>2. CASE s \div a = t \div a
  BY <1>2, Division
<1>3. CASE s \div a < t \div a
  BY <1>3, Division, StrictProduct
<1> QED
  BY <1>1, <1>2, <1>3, Division

\* The last point of a fetch made at time t.
LastPoint(p, t) == t - (t % Align[p]) + Span[p] - 1

LEMMA LastPointMonotone ==
    ASSUME NEW p \in Sources, NEW s \in Nat, NEW t \in Nat, s <= t
    PROVE  LastPoint(p, s) \in Int /\ LastPoint(p, t) \in Int
           /\ LastPoint(p, s) <= LastPoint(p, t)
<1>1. Align[p] \in Nat \ {0} /\ Span[p] \in Nat
  OBVIOUS
<1>2. s - (s % Align[p]) <= t - (t % Align[p])
  BY <1>1, StartMonotone
<1>3. s % Align[p] \in Int /\ t % Align[p] \in Int
  BY <1>1, Division
<1> QED
  BY <1>1, <1>2, <1>3 DEF LastPoint

\* A whole series holds every hour from now to its last point, and none after it.
LEMMA PointsRange ==
    ASSUME NEW p \in Sources, NEW t \in Nat, NEW u \in Int
    PROVE  /\ u \in Points(p, t) => u <= LastPoint(p, t)
           /\ t <= u /\ u <= LastPoint(p, t) => u \in Points(p, t)
<1>1. Align[p] \in Nat \ {0} /\ Span[p] \in Nat
  OBVIOUS
<1>2. t % Align[p] \in Int /\ 0 <= t % Align[p]
  BY <1>1, Division
<1> QED
  BY <1>1, <1>2 DEF Points, LastPoint

\* A series that is a part of another reaches as far.
LEMMA PartReaches ==
    ASSUME NEW p \in Sources, NEW s \in Nat, NEW t \in Nat,
           Points(p, s) \subseteq Points(p, t)
    PROVE  LastPoint(p, t) <= LastPoint(p, s)
<1>1. Align[p] \in Nat \ {0} /\ Span[p] \in Nat \ {0}
  OBVIOUS
<1>2. s % Align[p] \in Int /\ t % Align[p] \in Int
  BY <1>1, Division
<1>3. s - (s % Align[p]) \in Points(p, s)
  BY <1>1, <1>2 DEF Points
<1>4. s - (s % Align[p]) \in Points(p, t)
  BY <1>3
<1> QED
  BY <1>1, <1>2, <1>4 DEF Points, LastPoint

-----------------------------------------------------------------------------
\* Fetches are stored in the order in which they were made.
OrderInv ==
    /\ \A s \in Sources : fetched[s].at <= now
    /\ pc \in {"fetch", "store"} =>
          asked <= now /\ \A s \in Sources : fetched[s].at <= asked
    /\ pc \in {"store", "prune"} => fetchedAt = now

\* What is about to be stored is of a series made since it was asked for, and no row
\* lies beyond a series made when its source was last fetched.
ReachInv ==
    /\ pc = "store" => \E t \in asked..now : pts \subseteq Points(provider, t)
    /\ \A r \in forecast : r.ts <= LastPoint(r.source, fetched[r.source].at)

Shown(s, u) == [source |-> s, ts |-> u, fetched_at |-> fetched[s].at]

\* In the hours of the last stored fetch the rows are of that fetch; when it is whole,
\* no other row is ahead.
RowsInv ==
    /\ \A r \in forecast : r.ts \in fetched[r.source].pts
                             => r.fetched_at = fetched[r.source].at
    /\ \A s \in Sources : \A u \in fetched[s].pts : now <= u => Shown(s, u) \in forecast
    /\ \A s \in Sources : Whole(s) => \A r \in forecast :
          r.source = s /\ now <= r.ts => r.ts \in fetched[s].pts

ProjectionInv == TypeOK /\ OrderInv /\ ReachInv /\ RowsInv

LEMMA InitProjection == Init => ProjectionInv
  BY DEF Init, ProjectionInv, TypeOK, OrderInv, ReachInv, RowsInv

\* A step that leaves the table, the fetches and what is about to be stored alone.
LEMMA OrderSuffices ==
    ASSUME ProjectionInv, TypeOK', OrderInv', now <= now',
           UNCHANGED <<forecast, fetched>>, pc' # "store"
    PROVE  ProjectionInv'
<1>1. ReachInv'
  BY DEF ProjectionInv, ReachInv
<1>2. RowsInv'
  <2>0. \A s \in Sources : Whole(s)' => Whole(s)
    BY DEF Whole
  <2>1. ASSUME NEW r \in forecast, now' <= r.ts PROVE now <= r.ts
    BY <2>1 DEF ProjectionInv, TypeOK, Row
  <2>2. ASSUME NEW s \in Sources, NEW u \in fetched[s].pts, now' <= u PROVE now <= u
    BY <2>2 DEF ProjectionInv, TypeOK
  <2>3. \A s \in Sources : Whole(s)' => \A r \in forecast :
          r.source = s /\ now' <= r.ts => r.ts \in fetched[s].pts
    BY <2>0, <2>1 DEF ProjectionInv, RowsInv
  <2>4. \A s \in Sources : \A u \in fetched[s].pts : now' <= u => Shown(s, u) \in forecast
    BY <2>2 DEF ProjectionInv, RowsInv
  <2> QED
    BY <2>3, <2>4 DEF RowsInv, Shown, ProjectionInv
<1> QED
  BY <1>1, <1>2 DEF ProjectionInv

\* What is stored replaces the rows of its hours; a whole series covers what was ahead.
LEMMA StoreProjection ==
    ASSUME ProjectionInv, TypeOK', Store(TRUE) PROVE ProjectionInv'
<1> DEFINE new == [pts |-> pts, at |-> fetchedAt]
<1>0. TypeOK /\ OrderInv /\ ReachInv /\ RowsInv
  BY DEF ProjectionInv
<1>1. provider \in Sources /\ now \in Nat /\ asked \in Nat /\ pts \subseteq Int
  BY <1>0 DEF Store, TypeOK
<1>2. /\ pc = "store" /\ pc' = "prune" /\ fetchedAt = now
      /\ UNCHANGED <<now, provider, asked, pts, fetchedAt>>
      /\ fetched' = [fetched EXCEPT ![provider] = new]
      /\ forecast' = {r \in forecast : r.source # provider \/ r.ts \notin pts}
              \cup [source : {provider}, ts : pts, fetched_at : {now}]
  BY <1>0 DEF Store, UpsertForecast, OrderInv
<1>3. /\ fetched'[provider].pts = pts /\ fetched'[provider].at = now
      /\ \A s \in Sources \ {provider} : fetched'[s] = fetched[s]
  BY <1>0, <1>1, <1>2 DEF TypeOK
<1>4. PICK t \in asked..now : pts \subseteq Points(provider, t)
  BY <1>0, <1>2 DEF ReachInv
<1>5. /\ t \in Nat /\ asked <= t /\ t <= now
      /\ fetched[provider].at \in Nat /\ fetched[provider].at <= asked
  BY <1>0, <1>1, <1>2 DEF TypeOK, OrderInv
<1>6. /\ LastPoint(provider, fetched[provider].at) \in Int
      /\ LastPoint(provider, t) \in Int /\ LastPoint(provider, now) \in Int
      /\ LastPoint(provider, fetched[provider].at) <= LastPoint(provider, t)
      /\ LastPoint(provider, t) <= LastPoint(provider, now)
  BY <1>1, <1>5, LastPointMonotone
<1>7. OrderInv'
  BY <1>0, <1>1, <1>2, <1>3 DEF OrderInv, TypeOK
<1>8. ReachInv'
  <2>1. ASSUME NEW r \in forecast'
        PROVE  r.ts <= LastPoint(r.source, fetched'[r.source].at)
    <3>1. CASE r \in [source : {provider}, ts : pts, fetched_at : {now}]
      <4>1. r.source = provider /\ r.ts \in Points(provider, t) /\ r.ts \in Int
        BY <1>1, <1>4, <3>1
      <4>2. r.ts <= LastPoint(provider, t)
        BY <1>1, <1>5, <4>1, PointsRange
      <4> QED
        BY <1>3, <1>6, <4>1, <4>2
    <3>2. CASE r \in forecast /\ r.source # provider
      BY <1>0, <1>3, <3>2 DEF ReachInv, TypeOK, Row
    <3>3. CASE r \in forecast /\ r.source = provider
      <4>1. r.ts \in Int /\ r.ts <= LastPoint(provider, fetched[provider].at)
        BY <1>0, <3>3 DEF ReachInv, TypeOK, Row
      <4> QED
        BY <1>3, <1>6, <3>3, <4>1
    <3> QED
      BY <1>2, <3>1, <3>2, <3>3
  <2> QED
    BY <1>2, <2>1 DEF ReachInv, LastPoint
<1>9. ASSUME NEW r \in forecast', r.ts \in fetched'[r.source].pts
      PROVE  r.fetched_at = fetched'[r.source].at
  <2>1. CASE r \in [source : {provider}, ts : pts, fetched_at : {now}]
    BY <1>3, <2>1
  <2>2. CASE r \in forecast /\ r.source # provider
    BY <1>0, <1>3, <1>9, <2>2 DEF RowsInv, TypeOK, Row
  <2>3. CASE r \in forecast /\ r.source = provider /\ r.ts \notin pts
    BY <1>3, <1>9, <2>3
  <2> QED
    BY <1>2, <2>1, <2>2, <2>3
<1>10. ASSUME NEW s \in Sources, NEW u \in fetched'[s].pts, now <= u
       PROVE  [source |-> s, ts |-> u, fetched_at |-> fetched'[s].at] \in forecast'
  <2>1. CASE s = provider
    BY <1>2, <1>3, <1>10, <2>1
  <2>2. CASE s # provider
    BY <1>0, <1>2, <1>3, <1>10, <2>2 DEF RowsInv, Shown
  <2> QED
    BY <2>1, <2>2
<1>11. ASSUME NEW s \in Sources, Whole(s)', NEW r \in forecast', r.source = s, now <= r.ts
       PROVE  r.ts \in fetched'[s].pts
  <2>1. CASE s # provider
    <3>1. Whole(s) /\ r \in forecast
      BY <1>2, <1>3, <1>11, <2>1 DEF Whole, Points
    <3> QED
      BY <1>0, <1>3, <1>11, <2>1, <3>1 DEF RowsInv
  <2>2. CASE s = provider /\ r.ts \notin pts
    <3>1. PICK w \in 0..now : pts = Points(provider, w)
      BY <1>3, <1>11, <2>2 DEF Whole, Points
    <3>2. w \in Nat /\ w <= now
      BY <1>1
    <3>3. /\ LastPoint(provider, w) \in Int
          /\ LastPoint(provider, t) <= LastPoint(provider, w)
      BY <1>1, <1>4, <1>5, <3>1, <3>2, PartReaches, LastPointMonotone
    <3>4. /\ r \in forecast /\ r.ts \in Int
          /\ r.ts <= LastPoint(provider, fetched[provider].at)
      BY <1>0, <1>2, <1>11, <2>2 DEF ReachInv, TypeOK, Row
    <3>5. w <= r.ts /\ r.ts <= LastPoint(provider, w)
      BY <1>1, <1>6, <1>11, <3>2, <3>3, <3>4
    <3> QED
      BY <1>1, <2>2, <3>1, <3>2, <3>4, <3>5, PointsRange
  <2>3. CASE s = provider /\ r.ts \in pts
    BY <1>3, <2>3
  <2> QED
    BY <2>1, <2>2, <2>3
<1>12. RowsInv'
  BY <1>2, <1>9, <1>10, <1>11 DEF RowsInv, Shown
<1> QED
  BY <1>7, <1>8, <1>12 DEF ProjectionInv

\* Only what is past is pruned.
LEMMA PruneProjection ==
    ASSUME ProjectionInv, TypeOK', Prune(TRUE) PROVE ProjectionInv'
<1>1. /\ pc = "prune" /\ pc' = "sleep" /\ UNCHANGED <<now, fetched>>
      /\ forecast' = {r \in forecast : r.ts >= now}
  BY DEF Prune, Sleep, PruneForecast, ProjectionInv, OrderInv
<1>2. OrderInv' /\ ReachInv'
  BY <1>1 DEF ProjectionInv, OrderInv, ReachInv
<1>3. /\ \A r \in forecast' : r.ts \in fetched[r.source].pts
                                 => r.fetched_at = fetched[r.source].at
      /\ \A s \in Sources : Whole(s)' => \A r \in forecast' :
            r.source = s /\ now <= r.ts => r.ts \in fetched[s].pts
  BY <1>1 DEF ProjectionInv, RowsInv, Whole
<1>4. ASSUME NEW s \in Sources, NEW u \in fetched[s].pts, now <= u
      PROVE  Shown(s, u) \in forecast'
  <2>1. Shown(s, u) \in forecast /\ Shown(s, u).ts = u
    BY <1>4 DEF ProjectionInv, RowsInv, Shown
  <2>2. u \in Int /\ now \in Nat
    BY DEF ProjectionInv, TypeOK
  <2> QED
    BY <1>1, <1>4, <2>1, <2>2
<1>5. RowsInv'
  BY <1>1, <1>3, <1>4 DEF RowsInv, Shown
<1> QED
  BY <1>2, <1>5 DEF ProjectionInv

LEMMA NextProjection == ProjectionInv /\ [Next]_vars => ProjectionInv'
<1> SUFFICES ASSUME ProjectionInv, [Next]_vars PROVE ProjectionInv'
  OBVIOUS
<1>0. TypeOK /\ TypeOK' /\ OrderInv /\ ReachInv /\ RowsInv
  BY NextType DEF ProjectionInv
<1>t. /\ now \in Nat /\ asked \in Nat
      /\ \A s \in Sources : fetched[s].at \in Nat
  BY <1>0 DEF TypeOK
<1>1. CASE Tick
  <2>1. /\ now' = now + 1 /\ UNCHANGED <<pc, asked, forecast, fetched>>
        /\ pc \notin {"store", "prune"}
    BY <1>1 DEF Tick, poll, hist
  <2>2. OrderInv'
    BY <1>0, <1>t, <2>1 DEF OrderInv
  <2> QED
    BY <1>0, <1>t, <2>1, <2>2, OrderSuffices
<1>2. ASSUME NEW p \in Sources \cup {None}, Start(p) PROVE ProjectionInv'
  <2>1. /\ UNCHANGED <<now, forecast, fetched>> /\ asked' = now
        /\ pc' \in {"off", "fetch"}
    BY <1>2 DEF Start, FirstStep
  <2>2. OrderInv'
    BY <1>0, <1>t, <2>1 DEF OrderInv
  <2> QED
    BY <1>0, <1>t, <2>1, <2>2, OrderSuffices
<1>3. CASE Crash
  <2>1. UNCHANGED <<now, forecast, fetched>> /\ pc' = "down"
    BY <1>3 DEF Crash, hist
  <2>2. OrderInv'
    BY <1>0, <2>1 DEF OrderInv
  <2> QED
    BY <1>0, <1>t, <2>1, <2>2, OrderSuffices
<1>4. CASE FetchReturns
  <2>1. /\ UNCHANGED <<now, provider, asked, forecast, fetched>>
        /\ pc = "fetch" /\ pc' = "store" /\ fetchedAt' = now
    BY <1>4 DEF FetchReturns, hist
  <2>2. \E t \in asked..now : pts' \subseteq Points(provider, t)
    BY <1>4 DEF FetchReturns, Parsed
  <2>3. OrderInv'
    BY <1>0, <2>1 DEF OrderInv
  <2>4. ReachInv'
    BY <1>0, <2>1, <2>2 DEF ReachInv, LastPoint, Points
  <2>5. RowsInv'
    BY <1>0, <2>1 DEF RowsInv, Shown, Whole
  <2> QED
    BY <1>0, <2>3, <2>4, <2>5 DEF ProjectionInv
<1>5. CASE FetchFails \/ Store(FALSE) \/ Prune(FALSE)
  <2>1. UNCHANGED <<now, forecast, fetched>> /\ pc' = "sleep"
    BY <1>5 DEF FetchFails, Fails, Store, UpsertForecast, Prune, Sleep
  <2>2. OrderInv'
    BY <1>0, <2>1 DEF OrderInv
  <2> QED
    BY <1>0, <1>t, <2>1, <2>2, OrderSuffices
<1>6. CASE Store(TRUE)
  BY <1>0, <1>6, StoreProjection
<1>7. CASE Prune(TRUE)
  BY <1>0, <1>7, PruneProjection
<1>8. CASE Wake
  <2>1. UNCHANGED <<now, forecast, fetched>> /\ pc' = "fetch" /\ asked' = now
    BY <1>8 DEF Wake, hist
  <2>2. OrderInv'
    BY <1>0, <1>t, <2>1 DEF OrderInv
  <2> QED
    BY <1>0, <1>t, <2>1, <2>2, OrderSuffices
<1>9. CASE UNCHANGED vars
  BY <1>0, <1>9 DEF vars, poll, hist, ProjectionInv, OrderInv, ReachInv, RowsInv,
                    Shown, LastPoint, Whole, Points
<1> QED
  BY <1>1, <1>2, <1>3, <1>4, <1>5, <1>6, <1>7, <1>8, <1>9 DEF Next

\* In the hours of the last stored fetch a client is shown that fetch, and nothing else
\* when it was whole, for all lengths of the series and whatever parts of fetches are
\* missing.
THEOREM LastFetchIsShown == Spec => []LastFetchShown
<1>1. ASSUME ProjectionInv, NEW s \in Sources
      PROVE  {r \in Answer(s) : r.ts \in fetched[s].pts}
                = [source : {s}, fetched_at : {fetched[s].at},
                   ts : {u \in fetched[s].pts : now <= u /\ u < now + Week}]
  <2> DEFINE week == {u \in fetched[s].pts : now <= u /\ u < now + Week}
             shown == [source : {s}, fetched_at : {fetched[s].at}, ts : week]
  <2>1. ASSUME NEW r \in Answer(s), r.ts \in fetched[s].pts PROVE r \in shown
    <3>1. r \in Row /\ r.source = s /\ r.ts \in week /\ r.fetched_at = fetched[s].at
      BY <1>1, <2>1 DEF Answer, StoredForecast, ProjectionInv, RowsInv, TypeOK
    <3> HIDE DEF week
    <3> QED
      BY <3>1 DEF Row
  <2>2. ASSUME NEW r \in shown PROVE r \in Answer(s) /\ r.ts \in fetched[s].pts
    <3>1. r = Shown(s, r.ts) /\ r.ts \in week
      BY DEF Shown
    <3>2. Shown(s, r.ts) \in forecast
      BY <1>1, <3>1 DEF ProjectionInv, RowsInv
    <3> QED
      BY <3>1, <3>2 DEF Answer, StoredForecast, Shown
  <2> QED
    BY <2>1, <2>2
<1>2. ASSUME ProjectionInv, NEW s \in Sources, Whole(s), NEW r \in Answer(s)
      PROVE  r.ts \in fetched[s].pts
  BY <1>2 DEF Answer, StoredForecast, ProjectionInv, RowsInv
<1>3. ProjectionInv => LastFetchShown
  BY <1>1, <1>2 DEF LastFetchShown
<1> QED
  BY <1>3, InitProjection, NextProjection, PTL DEF Spec

-----------------------------------------------------------------------------
(***************************************************************************)
(* After a change of provider.                                             *)
(***************************************************************************)
\* No row lies further ahead than a series made now, and none of another provider
\* further than one made when it was replaced.
BoundInv ==
    /\ lastPrune <= now /\ providerSince <= now
    /\ pc = "store" => \A u \in pts : 0 <= u
    /\ \A r \in forecast : 0 <= r.ts /\ r.ts < now + Span[r.source]
    /\ \A r \in forecast : r.source # provider => r.ts < providerSince + Span[r.source]

\* The primary key of the table.
KeyInv == \A q, r \in forecast : q.source = r.source /\ q.ts = r.ts => q = r

\* Once rows were pruned under the present provider, a fetch of it is stored that is
\* not older than the cut-off.
StoredInv ==
    /\ pc = "prune" => fetched[provider].at = fetchedAt
    /\ lastPrune > providerSince \/ pc = "prune" =>
          /\ provider \in Sources
          /\ lastPrune <= fetched[provider].at

\* What other providers left before the cut-off is gone, and nothing else is.
PruneInv ==
    /\ lastPrune > providerSince =>
          \A r \in forecast : r.source # provider => lastPrune <= r.ts
    /\ \A s \in Sources : \A u \in fetched[s].pts : lastPrune <= u => Shown(s, u) \in forecast

HealInv == BoundInv /\ KeyInv /\ StoredInv /\ PruneInv

LEMMA InitHeal == Init => HealInv
  BY DEF Init, HealInv, BoundInv, KeyInv, StoredInv, PruneInv

\* A step that leaves the table, the fetches and the provider alone.
LEMMA HealSuffices ==
    ASSUME ProjectionInv, HealInv, now' \in Nat, now <= now',
           UNCHANGED <<forecast, fetched, provider, providerSince, lastPrune>>,
           pc' \notin {"store", "prune"}
    PROVE  HealInv'
<1>1. BoundInv'
  <2>1. \A r \in forecast : /\ r.ts \in Int /\ r.source \in Sources
                            /\ Span[r.source] \in Nat
    BY DEF ProjectionInv, TypeOK, Row
  <2> QED
    BY <2>1 DEF HealInv, BoundInv, ProjectionInv, TypeOK
<1>2. KeyInv'
  BY DEF HealInv, KeyInv
<1>3. StoredInv'
  BY DEF HealInv, StoredInv
<1>4. PruneInv'
  BY DEF HealInv, PruneInv, Shown
<1> QED
  BY <1>1, <1>2, <1>3, <1>4 DEF HealInv

\* A new provider: all rows were pruned, and fetched, before it.
LEMMA StartHeal ==
    ASSUME ProjectionInv, HealInv, NEW p \in Sources \cup {None}, Start(p)
    PROVE  HealInv'
<1>1. /\ UNCHANGED <<now, forecast, fetched, lastPrune, pts>> /\ provider' = p
      /\ pc' \in {"off", "fetch"}
      /\ providerSince' = IF p = provider THEN providerSince ELSE now
  BY DEF Start, FirstStep
<1>2. CASE p = provider
  BY <1>1, <1>2, HealSuffices DEF ProjectionInv, TypeOK
<1>3. CASE p # provider
  <2>1. providerSince' = now
    BY <1>1, <1>3
  <2>2. BoundInv'
    BY <1>1, <2>1 DEF HealInv, BoundInv, ProjectionInv, TypeOK
  <2>3. KeyInv'
    BY <1>1 DEF HealInv, KeyInv
  <2>4. ~(lastPrune' > providerSince')
    BY <1>1, <2>1 DEF HealInv, BoundInv, ProjectionInv, TypeOK
  <2>5. StoredInv'
    BY <1>1, <2>4 DEF StoredInv
  <2>6. PruneInv'
    BY <1>1, <2>4 DEF HealInv, PruneInv, Shown
  <2> QED
    BY <2>2, <2>3, <2>5, <2>6 DEF HealInv
<1> QED
  BY <1>2, <1>3

\* A whole series of p stored at time t holds every hour from t on, as far
\* as one does that was made at the start of its day and of the fetch.
Covers(p, t, points) ==
    \A u \in Int : t <= u /\ u <= t - FetchMax - Align[p] + Span[p] => u \in points

\* A series starts within its alignment before it was made, and not before time 0.
LEMMA PointsCover ==
    ASSUME NEW p \in Sources, NEW t \in Nat, NEW s \in Nat, NEW a \in Nat,
           a <= t, t <= s, s <= a + FetchMax
    PROVE  /\ \A u \in Points(p, t) : 0 <= u
           /\ Covers(p, s, Points(p, t))
<1>1. Align[p] \in Nat \ {0} /\ Span[p] \in Nat
  OBVIOUS
<1>2. t % Align[p] \in Int /\ 0 <= t % Align[p] /\ t % Align[p] < Align[p]
  BY <1>1, Division
<1>3. t % Align[p] <= t
  BY <1>1
<1>4. ASSUME NEW u \in Int, s <= u, u <= s - FetchMax - Align[p] + Span[p]
      PROVE  u \in Points(p, t)
  BY <1>1, <1>2, <1>4 DEF Points
<1> QED
  BY <1>1, <1>2, <1>3, <1>4 DEF Points, Covers

LEMMA ReturnsHeal ==
    ASSUME ProjectionInv, HealInv, TypeOK', FetchReturns
    PROVE  HealInv'
<1>1. /\ UNCHANGED <<now, provider, forecast, fetched, providerSince, lastPrune>>
      /\ pc = "fetch" /\ pc' = "store"
  BY DEF FetchReturns, hist
<1>2. PICK t \in asked..now : pts' \subseteq Points(provider, t)
  BY DEF FetchReturns, Parsed
<1>3. provider \in Sources /\ t \in Nat /\ FetchMax \in Nat
  BY <1>1 DEF ProjectionInv, TypeOK
<1>4. \A u \in pts' : 0 <= u
  BY <1>2, <1>3, PointsCover
<1>5. BoundInv'
  BY <1>1, <1>4 DEF HealInv, BoundInv
<1>6. KeyInv' /\ PruneInv'
  BY <1>1 DEF HealInv, KeyInv, PruneInv, Shown
<1>7. StoredInv'
  BY <1>1, <1>4 DEF HealInv, StoredInv
<1> QED
  BY <1>5, <1>6, <1>7 DEF HealInv

\* The fetch replaces the rows it has the hours of.
LEMMA StoreHeal ==
    ASSUME ProjectionInv, HealInv, TypeOK', Store(TRUE) PROVE HealInv'
<1> DEFINE new  == [pts |-> pts, at |-> fetchedAt]
           old  == {r \in forecast : r.source # provider \/ r.ts \notin pts}
           rows == [source : {provider}, ts : pts, fetched_at : {now}]
<1>1. /\ provider \in Sources /\ now \in Nat /\ pts \subseteq Int
      /\ lastPrune \in Int /\ providerSince \in Nat
      /\ Span[provider] \in Nat /\ Align[provider] \in Nat
  BY DEF Store, ProjectionInv, TypeOK
<1>2. /\ pc = "store" /\ pc' = "prune" /\ fetchedAt = now
      /\ UNCHANGED <<now, provider, pts, fetchedAt, providerSince, lastPrune>>
      /\ fetched' = [fetched EXCEPT ![provider] = new]
      /\ forecast' = old \cup rows
  BY DEF Store, UpsertForecast, ProjectionInv, OrderInv
<1>3. /\ fetched'[provider].pts = pts /\ fetched'[provider].at = now
      /\ \A s \in Sources \ {provider} : fetched'[s] = fetched[s]
  BY <1>1, <1>2 DEF ProjectionInv, TypeOK
<1>4. ASSUME NEW r \in rows
      PROVE  /\ r.source = provider /\ r.ts \in pts /\ r.fetched_at = now
             /\ r.ts \in Int /\ 0 <= r.ts /\ r.ts < now + Span[provider]
  <2>1. r.source = provider /\ r.ts \in pts /\ r.fetched_at = now
    OBVIOUS
  <2>2. r.ts \in Int /\ 0 <= r.ts /\ r.ts <= LastPoint(provider, now)
    <3>1. PICK t \in asked..now : pts \subseteq Points(provider, t)
      BY <1>2 DEF ProjectionInv, ReachInv
    <3>2. t \in Nat /\ t <= now
      BY <1>1 DEF ProjectionInv, TypeOK
    <3>3. r.ts \in Int /\ r.ts <= LastPoint(provider, t)
      BY <1>1, <2>1, <3>1, <3>2, PointsRange
    <3>4. 0 <= r.ts
      BY <1>2, <2>1 DEF HealInv, BoundInv
    <3> QED
      BY <1>1, <3>2, <3>3, <3>4, LastPointMonotone
  <2>3. now % Align[provider] \in Int /\ 0 <= now % Align[provider]
    BY <1>1, Division
  <2> QED
    BY <1>1, <2>1, <2>2, <2>3 DEF LastPoint
<1>5. \A r \in old : r \in forecast /\ (r.source # provider \/ r.ts \notin pts)
  OBVIOUS
<1> HIDE DEF old, rows
<1>6. BoundInv'
  <2>1. ASSUME NEW r \in forecast'
        PROVE  0 <= r.ts /\ r.ts < now + Span[r.source]
    BY <1>2, <1>4, <1>5 DEF HealInv, BoundInv
  <2>2. ASSUME NEW r \in forecast', r.source # provider
        PROVE  r.ts < providerSince + Span[r.source]
    BY <1>2, <1>4, <1>5, <2>2 DEF HealInv, BoundInv
  <2> QED
    BY <1>2, <2>1, <2>2 DEF HealInv, BoundInv
<1>7. KeyInv'
  <2>1. ASSUME NEW q \in rows, NEW r \in rows, q.ts = r.ts PROVE q = r
    BY <2>1 DEF rows
  <2> QED
    BY <1>2, <1>4, <1>5, <2>1 DEF HealInv, KeyInv
<1>8. StoredInv'
  BY <1>1, <1>2, <1>3 DEF HealInv, BoundInv, StoredInv
<1>9. PruneInv'
  <2>1. ASSUME lastPrune > providerSince, NEW r \in forecast', r.source # provider
        PROVE  lastPrune <= r.ts
    BY <1>2, <1>4, <1>5, <2>1 DEF HealInv, PruneInv
  <2>2. ASSUME NEW s \in Sources, NEW u \in fetched'[s].pts, lastPrune <= u
        PROVE  [source |-> s, ts |-> u, fetched_at |-> fetched'[s].at] \in forecast'
    <3>1. CASE s = provider
      BY <1>2, <1>3, <2>2, <3>1 DEF rows
    <3>2. CASE s # provider
      <4>1. Shown(s, u) \in forecast /\ Shown(s, u).source # provider
        BY <1>3, <2>2, <3>2 DEF HealInv, PruneInv, Shown
      <4> QED
        BY <1>2, <1>3, <3>2, <4>1 DEF Shown, old
    <3> QED
      BY <3>1, <3>2
  <2> QED
    BY <1>2, <2>1, <2>2 DEF PruneInv, Shown
<1> QED
  BY <1>6, <1>7, <1>8, <1>9 DEF HealInv

LEMMA PruneHeal ==
    ASSUME ProjectionInv, HealInv, TypeOK', Prune(TRUE) PROVE HealInv'
<1>1. /\ pc = "prune" /\ pc' = "sleep" /\ fetchedAt = now
      /\ UNCHANGED <<now, provider, fetched, providerSince>>
      /\ forecast' = {r \in forecast : r.ts >= now}
      /\ lastPrune' = now /\ now \in Nat
  BY DEF Prune, Sleep, PruneForecast, ProjectionInv, OrderInv, TypeOK
<1>2. BoundInv' /\ KeyInv'
  BY <1>1 DEF HealInv, BoundInv, KeyInv
<1>3. StoredInv'
  BY <1>1 DEF HealInv, StoredInv
<1>4. ASSUME NEW s \in Sources, NEW u \in fetched[s].pts, now <= u
      PROVE  Shown(s, u) \in forecast'
  <2>1. Shown(s, u) \in forecast /\ Shown(s, u).ts = u /\ u \in Int
    BY <1>4 DEF ProjectionInv, RowsInv, TypeOK, Shown
  <2> QED
    BY <1>1, <1>4, <2>1
<1>5. PruneInv'
  BY <1>1, <1>4 DEF PruneInv, Shown, ProjectionInv, TypeOK, Row
<1> QED
  BY <1>2, <1>3, <1>5 DEF HealInv

LEMMA NextHeal == ProjectionInv /\ HealInv /\ [Next]_vars => HealInv'
<1> SUFFICES ASSUME ProjectionInv, HealInv, [Next]_vars PROVE HealInv'
  OBVIOUS
<1>0. TypeOK' /\ now \in Nat
  BY NextType DEF ProjectionInv, TypeOK
<1>1. CASE Tick \/ Crash \/ FetchFails \/ Store(FALSE) \/ Prune(FALSE) \/ Wake
  <2>1. /\ now' \in {now, now + 1} /\ pc' \notin {"store", "prune"}
        /\ UNCHANGED <<forecast, fetched, provider, providerSince, lastPrune>>
    BY <1>1 DEF Tick, Crash, FetchFails, Fails, Store, UpsertForecast, Prune, Wake,
                Sleep, poll, hist
  <2> QED
    BY <1>0, <2>1, HealSuffices
<1>2. ASSUME NEW p \in Sources \cup {None}, Start(p) PROVE HealInv'
  BY <1>2, StartHeal
<1>3. CASE FetchReturns
  BY <1>0, <1>3, ReturnsHeal
<1>4. CASE Store(TRUE)
  BY <1>0, <1>4, StoreHeal
<1>5. CASE Prune(TRUE)
  BY <1>0, <1>5, PruneHeal
<1>6. CASE UNCHANGED vars
  BY <1>6 DEF vars, poll, hist, HealInv, BoundInv, KeyInv, StoredInv, PruneInv,
              Shown
<1> QED
  BY <1>1, <1>2, <1>3, <1>4, <1>5, <1>6 DEF Next

\* Rows with different hours in a range of n hours are at most n.
LEMMA RowsInRange ==
    ASSUME NEW R \in SUBSET Row, NEW a \in Int, NEW b \in Int,
           \A q, r \in R : q.ts = r.ts => q = r,
           \A r \in R : a <= r.ts /\ r.ts <= b
    PROVE  /\ IsFiniteSet(R)
           /\ Cardinality(R) \in Nat
           /\ Cardinality(R) <= IF a > b THEN 0 ELSE b - a + 1
<1> DEFINE hour == [r \in R |-> r.ts]
<1>1. \A r \in R : r.ts \in a..b
  BY DEF Row
<1>2. hour \in [R -> a..b]
  BY <1>1
<1>3. \A q, r \in R : hour[q] = hour[r] => q = r
  OBVIOUS
<1> HIDE DEF hour
<1>4. hour \in Injection(R, a..b)
  BY <1>2, <1>3 DEF Injection, IsInjective
<1>5. IsFiniteSet(a..b) /\ Cardinality(a..b) = IF a > b THEN 0 ELSE b - a + 1
  BY FS_Interval
<1>6. IsFiniteSet(R) /\ Cardinality(R) <= Cardinality(a..b)
  BY <1>4, <1>5, FS_Injection
<1> QED
  BY <1>5, <1>6, FS_CardinalityType

\* A finite set of rows with one for each of the hours a..b has at least as many.
LEMMA RowsCoverRange ==
    ASSUME NEW R, IsFiniteSet(R), NEW a \in Int, NEW b \in Int, a <= b,
           \A u \in a..b : \E r \in R : r.ts = u
    PROVE  Cardinality(R) >= b - a + 1
<1> DEFINE row == [u \in a..b |-> CHOOSE r \in R : r.ts = u]
<1>1. \A u \in a..b : row[u] \in R /\ row[u].ts = u
  OBVIOUS
<1>2. row \in [a..b -> R]
  BY <1>1
<1> HIDE DEF row
<1>3. \A u, v \in a..b : row[u] = row[v] => u = v
  BY <1>1
<1>4. row \in Injection(a..b, R)
  BY <1>2, <1>3 DEF Injection, IsInjective
<1>5. Cardinality(a..b) <= Cardinality(R)
  BY <1>4, FS_Injection
<1>6. Cardinality(a..b) = b - a + 1
  BY FS_Interval
<1>7. Cardinality(R) \in Nat
  BY FS_CardinalityType
<1> QED
  BY <1>5, <1>6, <1>7

RowsOf(s) == {r \in forecast : r.source = s}

LEMMA CountType ==
    ASSUME ProjectionInv, HealInv, NEW s \in Sources
    PROVE  IsFiniteSet(RowsOf(s)) /\ Count(s) \in Nat
<1>1. /\ RowsOf(s) \in SUBSET Row
      /\ \A q, r \in RowsOf(s) : q.ts = r.ts => q = r
  BY DEF RowsOf, ProjectionInv, TypeOK, HealInv, KeyInv
<1>2. now \in Nat /\ Span[s] \in Nat /\ now + Span[s] \in Int
  BY DEF ProjectionInv, TypeOK
<1>3. ASSUME NEW r \in RowsOf(s) PROVE 0 <= r.ts /\ r.ts <= now + Span[s]
  <2>1. 0 <= r.ts /\ r.ts < now + Span[s] /\ r.ts \in Int
    BY <1>1 DEF RowsOf, HealInv, BoundInv, Row
  <2> QED
    BY <1>2, <2>1
<1> QED
  BY <1>1, <1>2, <1>3, RowsInRange DEF Count, RowsOf

\* Of a whole series of the present provider, what was ahead of its day's start and the
\* fetch is still there.
LEMMA WholeCounts ==
    ASSUME ProjectionInv, HealInv, provider \in Sources, Whole(provider),
           lastPrune >= providerSince + HealTime(provider)
    PROVE  /\ Count(provider) \in Nat
           /\ Count(provider) >= Span[provider] - FetchMax - Align[provider] + 1
<1> DEFINE p == provider
           at == fetched[p].at
           end == at - FetchMax - Align[p] + Span[p]
<1>1. /\ at \in Nat /\ now \in Nat /\ lastPrune \in Int /\ providerSince \in Nat
      /\ Span[p] \in Nat /\ Align[p] \in Nat \ {0}
      /\ FetchMax \in Nat /\ Span[p] >= Align[p] + FetchMax
  BY SeriesAssumption DEF ProjectionInv, TypeOK
<1>2. lastPrune >= providerSince + Align[p] + FetchMax
  BY <1>1 DEF HealTime
<1>3. lastPrune <= at /\ Covers(p, at, fetched[p].pts)
  <2>1. PICK w \in 0..at : at <= w + FetchMax /\ fetched[p].pts = Points(p, w)
    BY DEF Whole
  <2>2. Covers(p, at, Points(p, w))
    BY <1>1, <2>1, PointsCover
  <2> QED
    BY <1>1, <1>2, <2>1, <2>2 DEF HealInv, StoredInv
<1>4. IsFiniteSet(RowsOf(p)) /\ Cardinality(RowsOf(p)) \in Nat
  BY CountType DEF Count, RowsOf
<1>5. at \in Int /\ end \in Int /\ at <= end
  BY <1>1
<1>6. ASSUME NEW u \in at..end PROVE \E r \in RowsOf(p) : r.ts = u
  <2>1. u \in fetched[p].pts /\ lastPrune <= u
    BY <1>1, <1>3 DEF Covers
  <2>2. Shown(p, u) \in forecast
    BY <2>1 DEF HealInv, PruneInv
  <2> QED
    BY <2>2 DEF RowsOf, Shown
<1> HIDE DEF at, end
<1>7. Cardinality(RowsOf(p)) >= end - at + 1
  BY <1>4, <1>5, <1>6, RowsCoverRange
<1> QED
  BY <1>1, <1>4, <1>7 DEF end, Count, RowsOf

\* What other providers left in the table spans less than the last fetch of the
\* present one, if that is a whole series.
LEMMA Outnumbers ==
    ASSUME ProjectionInv, HealInv, provider \in Sources, Whole(provider),
           \A s \in Sources : lastPrune >= providerSince + HealTime(s),
           NEW t \in Sources \ {provider}
    PROVE  /\ Count(t) \in Int /\ Count(provider) \in Int
           /\ Count(t) < Count(provider)
<1> DEFINE p == provider
<1>1. /\ now \in Nat /\ lastPrune \in Int /\ providerSince \in Nat
      /\ Span[p] \in Nat /\ Align[p] \in Nat \ {0} /\ Span[t] \in Nat
      /\ FetchMax \in Nat /\ Span[p] >= Align[p] + FetchMax
  BY SeriesAssumption DEF ProjectionInv, TypeOK
<1>2. /\ lastPrune >= providerSince + Align[p] + FetchMax
      /\ lastPrune >= providerSince + Span[t] - Span[p] + Align[p] + FetchMax
  BY <1>1 DEF HealTime
<1>3. \A s \in Sources : RowsOf(s) \in SUBSET Row
                         /\ \A q, r \in RowsOf(s) : q.ts = r.ts => q = r
  BY DEF RowsOf, ProjectionInv, TypeOK, HealInv, KeyInv
<1>4. /\ Count(t) \in Nat
      /\ Count(t) <= IF lastPrune > providerSince + Span[t] - 1 THEN 0
                     ELSE providerSince + Span[t] - lastPrune
  <2>1. \A r \in RowsOf(t) : lastPrune <= r.ts /\ r.ts <= providerSince + Span[t] - 1
    <3>1. ASSUME NEW r \in RowsOf(t)
          PROVE  lastPrune <= r.ts /\ r.ts < providerSince + Span[t]
      BY <1>1, <1>2 DEF RowsOf, HealInv, PruneInv, BoundInv
    <3>2. \A r \in RowsOf(t) : r.ts \in Int
      BY <1>3 DEF Row
    <3> QED
      BY <1>1, <3>1, <3>2
  <2>2. /\ Cardinality(RowsOf(t)) \in Nat
        /\ Cardinality(RowsOf(t)) <=
              IF lastPrune > providerSince + Span[t] - 1 THEN 0
              ELSE (providerSince + Span[t] - 1) - lastPrune + 1
    <3> DEFINE b == providerSince + Span[t] - 1
    <3>1. b \in Int /\ \A r \in RowsOf(t) : lastPrune <= r.ts /\ r.ts <= b
      BY <1>1, <2>1
    <3> HIDE DEF b
    <3>2. /\ Cardinality(RowsOf(t)) \in Nat
          /\ Cardinality(RowsOf(t)) <= IF lastPrune > b THEN 0 ELSE b - lastPrune + 1
      BY <1>1, <1>3, <3>1, RowsInRange
    <3> QED
      BY <3>2 DEF b
  <2> QED
    BY <1>1, <2>2 DEF Count, RowsOf
<1>5. Count(p) \in Nat /\ Count(p) >= Span[p] - FetchMax - Align[p] + 1
  BY WholeCounts
<1> QED
  BY <1>1, <1>2, <1>4, <1>5

\* Rows of other providers that are older than the switch by a whole series are gone.
LEMMA OthersGone ==
    ASSUME ProjectionInv, HealInv,
           \A s \in Sources : lastPrune >= providerSince + Span[s],
           NEW t \in Sources \ {provider}
    PROVE  Count(t) = 0
<1>1. lastPrune \in Int /\ providerSince \in Nat /\ Span[t] \in Nat \ {0}
  BY DEF ProjectionInv, TypeOK
<1>2. lastPrune > providerSince /\ lastPrune >= providerSince + Span[t]
  BY <1>1
<1>3. ASSUME NEW r \in RowsOf(t) PROVE FALSE
  <2>1. lastPrune <= r.ts /\ r.ts < providerSince + Span[t] /\ r.ts \in Int
    BY <1>2, <1>3 DEF RowsOf, HealInv, PruneInv, BoundInv, ProjectionInv, TypeOK, Row
  <2> QED
    BY <1>1, <1>2, <2>1
<1>4. RowsOf(t) = {}
  BY <1>3
<1> QED
  BY <1>4, FS_EmptySet DEF Count, RowsOf

\* After a change of provider, once rows were pruned late enough, the query without
\* a source is answered with the configured provider alone, for all lengths of the
\* two series: at once where a whole series is stored, else when the last row that the
\* other provider can have left is past.
THEOREM Heals == Spec => []SwitchHeals
<1>1. ASSUME ProjectionInv, HealInv, provider # None, Whole(provider),
             \A s \in Sources : lastPrune >= providerSince + HealTime(s)
      PROVE  DefaultSources = {provider}
  <2>1. provider \in Sources
    BY <1>1 DEF ProjectionInv, TypeOK
  <2>2. Count(provider) \in Nat
    BY <1>1, <2>1, CountType
  <2>3. ASSUME NEW t \in Sources \ {provider}
        PROVE  /\ Count(t) \in Int
               /\ Count(t) < Count(provider)
    BY <1>1, <2>1, Outnumbers
  <2>4. ASSUME NEW t \in DefaultSources, t # provider PROVE FALSE
    BY <2>1, <2>2, <2>3, <2>4 DEF DefaultSources
  <2>5. 0 < Count(provider)
    <3>1. /\ Span[provider] \in Nat /\ Align[provider] \in Nat /\ FetchMax \in Nat
          /\ Span[provider] >= Align[provider] + FetchMax
      BY <2>1, SeriesAssumption
    <3> QED
      BY <1>1, <2>1, <2>2, <3>1, WholeCounts
  <2>6. \A t \in Sources : Count(t) <= Count(provider)
    BY <2>2, <2>3
  <2> QED
    BY <2>1, <2>4, <2>5, <2>6 DEF DefaultSources
<1>2. ASSUME ProjectionInv, HealInv,
             \A s \in Sources : lastPrune >= providerSince + Span[s]
      PROVE  DefaultSources \subseteq {provider}
  BY <1>2, OthersGone DEF DefaultSources
<1>3. ProjectionInv /\ HealInv => SwitchHeals
  BY <1>1, <1>2 DEF SwitchHeals
<1>4. ProjectionInv /\ HealInv /\ [Next]_vars => (ProjectionInv /\ HealInv)'
  BY NextProjection, NextHeal
<1> QED
  BY <1>3, <1>4, InitProjection, InitHeal, PTL DEF Spec

-----------------------------------------------------------------------------
(***************************************************************************)
(* The table implements the outlook.                                       *)
(***************************************************************************)
SpeaksOf(f, s, u) == f.source = s /\ u \in f.pts

\* A row is of the newest fetch that speaks of its hour, and of every hour to come
\* there is one.
LogInv ==
    /\ \A f \in log : f.at <= fetched[f.source].at
    /\ \A r \in forecast : \E f \in log : SpeaksOf(f, r.source, r.ts) /\ f.at = r.fetched_at
    /\ \A r \in forecast : \A g \in log :
          SpeaksOf(g, r.source, r.ts) => g.at <= r.fetched_at
    /\ \A f \in log : \A u \in f.pts :
          now <= u /\ (\A g \in log : SpeaksOf(g, f.source, u) => g.at <= f.at)
             => [source |-> f.source, ts |-> u, fetched_at |-> f.at] \in forecast

\* A fetch is stored: it is the newest, so its word is taken on every hour it has.
LEMMA StoreLog ==
    ASSUME ProjectionInv, LogInv, Store(TRUE) PROVE LogInv'
<1> DEFINE new == [source |-> provider, pts |-> pts, at |-> now]
<1>1. /\ provider \in Sources /\ now \in Nat /\ now' = now
      /\ log' = log \cup {new}
      /\ fetched' = [fetched EXCEPT ![provider] = [pts |-> pts, at |-> now]]
      /\ forecast' = {r \in forecast : r.source # provider \/ r.ts \notin pts}
              \cup [source : {provider}, ts : pts, fetched_at : {now}]
  BY DEF Store, UpsertForecast, ProjectionInv, TypeOK, OrderInv
<1>2. /\ fetched'[provider].at = now
      /\ \A s \in Sources \ {provider} : fetched'[s] = fetched[s]
      /\ \A s \in Sources : fetched[s].at \in Nat /\ fetched[s].at <= now
  BY <1>1 DEF ProjectionInv, TypeOK, OrderInv
<1>3. \A f \in log : f.source \in Sources /\ f.at \in Nat /\ f.at <= fetched[f.source].at
  BY DEF ProjectionInv, TypeOK, Fetch, LogInv
<1>4. \A f \in log' : f.at \in Nat /\ f.at <= now
  BY <1>1, <1>2, <1>3
<1>5. ASSUME NEW f \in log' PROVE f.at <= fetched'[f.source].at
  <2>1. CASE f.source = provider
    BY <1>2, <1>4, <2>1
  <2>2. CASE f \in log /\ f.source # provider
    BY <1>2, <1>3, <2>2
  <2> QED
    BY <1>1, <2>1, <2>2
<1>6. ASSUME NEW r \in forecast'
      PROVE  /\ \E f \in log' : SpeaksOf(f, r.source, r.ts) /\ f.at = r.fetched_at
             /\ \A g \in log' : SpeaksOf(g, r.source, r.ts) => g.at <= r.fetched_at
  <2>1. CASE r \in [source : {provider}, ts : pts, fetched_at : {now}]
    <3>1. SpeaksOf(new, r.source, r.ts) /\ new.at = r.fetched_at /\ r.fetched_at = now
      BY <2>1 DEF SpeaksOf
    <3> QED
      BY <1>1, <1>4, <3>1
  <2>2. CASE r \in forecast /\ ~SpeaksOf(new, r.source, r.ts)
    BY <1>1, <2>2 DEF LogInv
  <2> QED
    BY <1>1, <2>1, <2>2 DEF SpeaksOf
<1>7. ASSUME NEW f \in log', NEW u \in f.pts, now <= u,
             \A g \in log' : SpeaksOf(g, f.source, u) => g.at <= f.at
      PROVE  [source |-> f.source, ts |-> u, fetched_at |-> f.at] \in forecast'
  <2>1. CASE SpeaksOf(new, f.source, u)
    <3>1. now <= f.at
      BY <1>1, <1>7, <2>1
    <3>2. f.at = now /\ f.source = provider /\ u \in pts
      BY <1>1, <1>4, <2>1, <3>1 DEF SpeaksOf
    <3> QED
      BY <1>1, <3>2
  <2>2. CASE ~SpeaksOf(new, f.source, u)
    <3>1. f \in log
      BY <1>1, <2>2 DEF SpeaksOf
    <3>2. [source |-> f.source, ts |-> u, fetched_at |-> f.at] \in forecast
      BY <1>1, <1>7, <3>1 DEF LogInv
    <3> QED
      BY <1>1, <2>2, <3>2 DEF SpeaksOf
  <2> QED
    BY <2>1, <2>2
<1> QED
  BY <1>1, <1>5, <1>6, <1>7 DEF LogInv, SpeaksOf

LEMMA NextLog == ProjectionInv /\ LogInv /\ [Next]_vars => LogInv'
<1> SUFFICES ASSUME ProjectionInv, LogInv, [Next]_vars PROVE LogInv'
  OBVIOUS
<1>0. /\ now \in Nat
      /\ \A f \in log : f.pts \subseteq Int
  BY DEF ProjectionInv, TypeOK, Fetch
<1>1. CASE Store(TRUE)
  BY <1>1, StoreLog
<1>2. CASE Prune(TRUE)
  <2>1. /\ UNCHANGED <<now, log, fetched>>
        /\ forecast' = {r \in forecast : r.ts >= now}
    BY <1>2 DEF Prune, PruneForecast, ProjectionInv, OrderInv
  <2>2. ASSUME NEW f \in log, NEW u \in f.pts, now <= u,
               \A g \in log : SpeaksOf(g, f.source, u) => g.at <= f.at
        PROVE  [source |-> f.source, ts |-> u, fetched_at |-> f.at] \in forecast'
    <3>1. [source |-> f.source, ts |-> u, fetched_at |-> f.at] \in forecast /\ u >= now
      BY <1>0, <2>2 DEF LogInv
    <3> QED
      BY <2>1, <3>1
  <2> QED
    BY <2>1, <2>2 DEF LogInv, SpeaksOf
<1>3. CASE ~Store(TRUE) /\ ~Prune(TRUE)
  <2>1. UNCHANGED <<log, fetched, forecast>> /\ now' \in {now, now + 1}
    BY <1>3 DEF Next, Tick, Start, Crash, FetchReturns, FetchFails, Fails, Store,
                UpsertForecast, Prune, Wake, vars, hist
  <2>2. \A f \in log : \A u \in f.pts : now' <= u => now <= u
    BY <1>0, <2>1
  <2> QED
    BY <2>1, <2>2 DEF LogInv, SpeaksOf
<1> QED
  BY <1>1, <1>2, <1>3

\* The rows of s that are not past.
Ahead(s) == {r \in forecast : r.source = s /\ now <= r.ts}

\* The table, seen without what is past, is what the outlook shows.
NewestInv == \A s \in Sources : Ahead(s) = Overlay!Newest(s)

LEMMA LogNewest == TypeOK /\ LogInv => NewestInv
<1> SUFFICES ASSUME TypeOK, LogInv, NEW s \in Sources PROVE Ahead(s) = Overlay!Newest(s)
  BY DEF NewestInv
<1>1. ASSUME NEW r \in Ahead(s) PROVE r \in Overlay!Newest(s)
  <2>1. r \in forecast /\ r \in Row /\ r.source = s /\ now <= r.ts
    BY DEF Ahead, TypeOK
  <2>2. PICK f \in log : SpeaksOf(f, s, r.ts) /\ f.at = r.fetched_at
    BY <2>1 DEF LogInv
  <2>3. r.ts \in Overlay!Hours(f, s)
    BY <2>1, <2>2 DEF Overlay!Hours, Overlay!SpeaksOf, SpeaksOf, LogInv
  <2>4. r \in [source : {s}, ts : Overlay!Hours(f, s), fetched_at : {f.at}]
    BY <2>1, <2>2, <2>3 DEF Row
  <2> QED
    BY <2>2, <2>4 DEF Overlay!Newest, SpeaksOf
<1>2. ASSUME NEW r \in Overlay!Newest(s) PROVE r \in Ahead(s)
  <2>1. PICK f \in log :
          f.source = s /\ r \in [source : {s}, ts : Overlay!Hours(f, s), fetched_at : {f.at}]
    BY DEF Overlay!Newest
  <2>2. r.ts \in f.pts /\ now <= r.ts /\ \A g \in log : SpeaksOf(g, s, r.ts) => g.at <= f.at
    BY <2>1 DEF Overlay!Hours, Overlay!SpeaksOf, SpeaksOf
  <2>3. r = [source |-> f.source, ts |-> r.ts, fetched_at |-> f.at]
    BY <2>1
  <2> QED
    BY <2>1, <2>2, <2>3 DEF LogInv, Ahead
<1> QED
  BY <1>1, <1>2

LEMMA OutlookStep ==
    /\ TypeOK /\ OrderInv /\ NewestInv /\ NewestInv'
    /\ [Next]_vars
    => [Overlay!Next]_Overlay!vars
<1> SUFFICES ASSUME TypeOK, OrderInv, NewestInv, NewestInv', [Next]_vars
             PROVE  Overlay!Next \/ UNCHANGED Overlay!vars
  OBVIOUS
<1>1. [s \in Sources |-> Ahead(s)]' = [s \in Sources |-> Overlay!Newest(s)']
  BY DEF NewestInv
<1>2. CASE Tick
  BY <1>1, <1>2 DEF Tick, hist, Overlay!Next, Overlay!Pass, Ahead
<1>3. CASE Store(TRUE)
  <2>1. /\ now' = now
        /\ log' = log \cup {[source |-> provider, pts |-> pts, at |-> now]}
    BY <1>3 DEF Store, OrderInv
  <2>2. Overlay!Hear
    BY <2>1 DEF Overlay!Hear
  <2> QED
    BY <1>1, <2>2 DEF Overlay!Next, Ahead
<1>4. CASE ~Tick /\ ~Store(TRUE)
  <2>1. UNCHANGED <<now, log>>
    BY <1>4 DEF Next, Start, Crash, FetchReturns, FetchFails, Fails, Store,
                Prune, Wake, vars, hist
  <2>2. \A s \in Sources : Overlay!Newest(s)' = Overlay!Newest(s)
    BY <2>1 DEF Overlay!Newest, Overlay!Hours, Overlay!SpeaksOf
  <2>3. [s \in Sources |-> Ahead(s)]' = [s \in Sources |-> Ahead(s)]
    BY <2>2 DEF NewestInv
  <2> QED
    BY <2>1, <2>3 DEF Overlay!vars, Ahead
<1> QED
  BY <1>2, <1>3, <1>4

\* The table implements the outlook, for all waits, providers, series, partial answers,
\* failures and crashes: of every hour ahead it shows the newest word that any stored
\* fetch of the source has on it, and nothing where none has.
THEOREM Implementation == Spec => ImplementsOutlook
<1>1. Init => LogInv
  BY DEF Init, LogInv
<1>2. Init => Overlay!Init
  <2> SUFFICES ASSUME Init PROVE Overlay!Init
    OBVIOUS
  <2>1. now = 0 /\ log = {}
        /\ \A s \in Sources : {r \in forecast : r.source = s /\ now <= r.ts} = {}
    BY DEF Init
  <2> QED
    BY <2>1 DEF Overlay!Init
<1>3. ProjectionInv => TypeOK /\ OrderInv
  BY DEF ProjectionInv
<1> QED
  BY <1>1, <1>2, <1>3, InitProjection, NextProjection, NextLog, LogNewest, OutlookStep, PTL
     DEF Spec, Overlay!Spec, ImplementsOutlook
=============================================================================
