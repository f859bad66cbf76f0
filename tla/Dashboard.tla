------------------------------ MODULE Dashboard ------------------------------
(***************************************************************************)
(* The dashboard page (dashboard.html): units and range are selected by    *)
(* the user; loads are started by a selection and once a minute; their     *)
(* requests carry the selection of the moment they are sent and are        *)
(* answered in any order, those of one load among those of another.  The   *)
(* script is single-threaded: the handling of an answer up to its next     *)
(* await, rendering included, is one step.                                 *)
(*                                                                         *)
(* Of an answer only the units and the range it was asked for are kept.    *)
(***************************************************************************)
EXTENDS Naturals, FiniteSets

CONSTANTS
    None,           \* nothing fetched, nothing drawn, no range in the request
    Units, Ranges,
    ShortRanges,    \* ranges of at most 48 hours
    Requests,       \* requests made; the page makes all of AllRequests
    MaxLate, MaxActs, MaxFailures    \* bounds, see Start, Act and Answer

Kinds       == {"current", "summary", "lightning", "charts"}
AllRequests == {"now", "today", "summary", "lightning",
                "history", "forecast", "sparks"}
Ranged      == {"summary", "lightning", "history"}
TileParts   == {"now", "today", "forecast", "sparks"}

ASSUME DashboardAssumption ==
    /\ None \notin Units /\ None \notin Ranges
    /\ ShortRanges \subseteq Ranges
    /\ Requests \subseteq AllRequests
    /\ MaxLate \in Nat /\ MaxActs \in Nat /\ MaxFailures \in Nat

VARIABLES
    units, range,    \* state.units, state.range
    loads,           \* calls of loadCurrent, loadSummary, ... that await answers
    data,            \* state.current, state.today, state.history, ...
    page,            \* what is drawn
    acts, failures   \* counters for the bounds

vars == <<units, range, loads, data, page, acts, failures>>

Query == [units : Units, range : Ranges \cup {None}]
Load  == [kind : Kinds, units : Units, range : Ranges, late : BOOLEAN,
          pending : (SUBSET Requests) \ {{}}, got : BOOLEAN]

TypeOK ==
    /\ units \in Units /\ range \in Ranges
    /\ loads \subseteq Load
    /\ data \in [AllRequests -> Query \cup {None}]
    /\ page \in [tiles  : [TileParts -> Query \cup {None}],
                 hilo   : Query \cup {None},
                 cards  : [of : Query \cup {None}, label : Ranges \cup {None}],
                 bolts  : Query \cup {None},
                 charts : [history : Query \cup {None}, forecast : Query \cup {None},
                           range : Ranges \cup {None}]]
    /\ acts \in 0..MaxActs /\ failures \in 0..MaxFailures

-----------------------------------------------------------------------------
\* The requests a load sends, all before its first await.
Sends(kind) == Requests \cap
    CASE kind = "current"   -> {"now", "today"}
      [] kind = "summary"   -> {"summary"}
      [] kind = "lightning" -> {"lightning"}
      [] kind = "charts"    -> {"history", "forecast", "sparks"}

\* Loads of these kinds with the selection u, r.
Fresh(kinds, u, r) ==
    {[kind |-> k, units |-> u, range |-> r, late |-> FALSE,
      pending |-> Sends(k), got |-> FALSE] : k \in {j \in kinds : Sends(j) # {}}}

\* Bound: when loads are started, at most MaxLate earlier ones are unanswered.
\* (Late loads that cannot be told apart are one.)
Start(kinds, u, r) ==
    /\ Cardinality(loads) <= MaxLate
    /\ loads' = {[l EXCEPT !.late = TRUE] : l \in loads} \cup Fresh(kinds, u, r)

\* init() ends in setUnits, hence in the first refreshAll.
Init ==
    /\ units \in Units /\ range \in Ranges
    /\ loads = Fresh(Kinds, units, range)
    /\ data = [p \in AllRequests |-> None]
    /\ page = [tiles  |-> [p \in TileParts |-> None],
               hilo   |-> None,
               cards  |-> [of |-> None, label |-> None],
               bolts  |-> None,
               charts |-> [history |-> None, forecast |-> None, range |-> None]]
    /\ acts = 0 /\ failures = 0

Act == acts < MaxActs /\ acts' = acts + 1

\* refreshAll
SetUnits(u) ==
    /\ Act
    /\ units' = u
    /\ Start(Kinds, u, range)
    /\ UNCHANGED <<range, data, page, failures>>

\* rangeSel.onchange
SetRange(r) ==
    /\ Act
    /\ r # range
    /\ range' = r
    /\ Start({"summary", "lightning", "charts"}, units, r)
    /\ UNCHANGED <<units, data, page, failures>>

LiveKindsNoSummary ==    \* deliberate bug: a wrong summary stays
    IF range \in ShortRanges THEN Kinds \ {"summary"} ELSE {"current", "lightning"}

\* The charts of long ranges are left alone.
LiveKinds == IF range \in ShortRanges THEN Kinds ELSE Kinds \ {"charts"}

\* Every minute.
RefreshLive ==
    /\ Start(LiveKinds, units, range)
    /\ UNCHANGED <<units, range, data, page, acts, failures>>

-----------------------------------------------------------------------------
\* What the answer to p was asked for.
Asked(l, p) ==
    [units |-> l.units, range |-> IF p \in Ranged THEN l.range ELSE None]

\* The cached state after the answer to p: a failed request keeps the last good
\* answer, a failed forecast leaves none.  The current reading is assigned when
\* the whole load is answered.
Cached(l, p, ok) ==
    IF p = "now" THEN data
    ELSE [data EXCEPT ![p] = IF ok THEN Asked(l, p)
                             ELSE IF p = "forecast" THEN None ELSE @]

Tiles(d) == [p \in TileParts |-> d[p]]    \* renderTiles, renderOffset

\* loadCurrent, after its Promise.all: without a reading nothing is drawn.  The day's
\* high and low (renderHilo) are drawn here only, the day's rain with the tiles.
DrawCurrent(d, good) ==
    IF good THEN [page EXCEPT !.tiles = Tiles(d), !.hilo = d["today"]] ELSE page

\* loadSummary: the label is the range selected by now.
DrawSummary(d, good) ==
    IF good THEN [page EXCEPT !.cards = [of |-> d["summary"], label |-> range]]
    ELSE page

DrawLightning(d, good) ==
    IF good THEN [page EXCEPT !.bolts = d["lightning"]] ELSE page

\* loadCharts: no tiles before a reading, no charts before a history.
DrawCharts(d) ==
    [page EXCEPT !.tiles  = IF d["now"] # None THEN Tiles(d) ELSE @,
                 !.charts = IF d["history"] = None THEN @
                            ELSE [history  |-> d["history"],
                                  forecast |-> d["forecast"], range |-> range]]

Draw(kind, d, good) ==
    CASE kind = "current"   -> DrawCurrent(d, good)
      [] kind = "summary"   -> DrawSummary(d, good)
      [] kind = "lightning" -> DrawLightning(d, good)
      [] kind = "charts"    -> DrawCharts(d)

CompletesUnlessLate(l, p) ==    \* deliberate bug: an overtaken load draws nothing
    l.pending = {p} /\ ~l.late

\* Promise.all: the load goes on once everything it awaits is answered.
Completes(l, p) == l.pending = {p}

LeftForEver(l, p, good) ==    \* deliberate bug: an answered load goes on waiting
    {[l EXCEPT !.pending = @ \ {p}, !.got = good]}

\* What is left of a load after the answer to p; `got` says that the reading,
\* the summary or the strikes have come.
Left(l, p, good) ==
    IF l.pending = {p} THEN {}
    ELSE {[l EXCEPT !.pending = @ \ {p}, !.got = good]}

\* One of the requests of l is answered, or fails: no connection, a status other
\* than 200, an answer cut short.  Bound: MaxFailures.
Answer(l, p, ok) ==
    LET good == l.got \/ (ok /\ p \in {"now", "summary", "lightning"})
        d0   == Cached(l, p, ok)
        d    == IF Completes(l, p) /\ l.kind = "current" /\ good
                THEN [d0 EXCEPT !["now"] = Asked(l, "now")] ELSE d0
    IN  /\ ok \/ failures < MaxFailures
        /\ failures' = IF ok THEN failures ELSE failures + 1
        /\ loads' = (loads \ {l}) \cup Left(l, p, good)
        /\ data' = d
        /\ page' = IF Completes(l, p) THEN Draw(l.kind, d, good) ELSE page
        /\ UNCHANGED <<units, range, acts>>

Answered == \E l \in loads : \E p \in l.pending : Answer(l, p, TRUE)
Failed   == \E l \in loads : \E p \in l.pending : Answer(l, p, FALSE)

Next ==
    \/ \E u \in Units : SetUnits(u)
    \/ \E r \in Ranges : SetRange(r)
    \/ RefreshLive
    \/ Answered \/ Failed

Spec == Init /\ [][Next]_vars

\* setInterval fires for ever, and a server that is asked answers.
FairSpec == Spec /\ WF_vars(RefreshLive) /\ WF_vars(Answered)

-----------------------------------------------------------------------------
(***************************************************************************)
(* Properties                                                              *)
(***************************************************************************)

\* What was fetched for the charts is what they show, unless a load that
\* fetched a part of it is still waiting for the rest; and with no load under
\* way their axis is that of the selected range.  However the answers of
\* overlapping loads interleave and whichever of them fail, none is fetched and
\* then left undrawn (a 7 or 30 day chart would stay that way).
FetchedIsDrawn ==
    data["history"] # None =>
        /\ (\A l \in loads : l.kind = "charts" => l.pending = Sends("charts"))
              => /\ page.charts.history = data["history"]
                 /\ page.charts.forecast = data["forecast"]
        /\ (\A l \in loads : l.kind # "charts") => page.charts.range = range

\* The inductive invariant behind it: a load awaits requests of its own.
PageInv ==
    /\ TypeOK
    /\ \A l \in loads : l.pending \subseteq Sends(l.kind)
    /\ data["history"] # None => "history" \in Requests
    /\ FetchedIsDrawn

\* The page is about the selection: readings, cards and feed always, with the
\* cards labelled as the range they are of, and the charts of ranges the minute
\* refreshes.
ShowsSelection(u, r) ==
    /\ \A p \in {"now", "today"} \cap Requests : page.tiles[p] = [units |-> u, range |-> None]
    /\ "today" \in Requests => page.hilo = [units |-> u, range |-> None]
    /\ "summary" \in Requests =>
          page.cards = [of |-> [units |-> u, range |-> r], label |-> r]
    /\ "lightning" \in Requests => page.bolts = [units |-> u, range |-> r]
    /\ r \in ShortRanges =>
          page.charts = [history  |-> [units |-> u, range |-> r],
                         forecast |-> [units |-> u, range |-> None],
                         range    |-> r]

\* An answer to an old selection may come late and replace the one for the new,
\* and the cards may be labelled with a range they are not of; once the user
\* leaves the selection alone the page comes to show it and stays so.
Settles ==
    \A u \in Units, r \in Ranges :
        <>[](units = u /\ range = r) => <>[]ShowsSelection(u, r)
=============================================================================
