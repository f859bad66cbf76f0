-------------------------- MODULE Dashboard_proofs --------------------------
(***************************************************************************)
(* Proofs about Dashboard: whatever loads overlap, in whatever order their *)
(* answers come and whichever of them fail, nothing is fetched for the     *)
(* charts and left undrawn, for any units, ranges and requests.            *)
(***************************************************************************)
EXTENDS Dashboard, TLAPS

USE DashboardAssumption

\* The requests of different loads differ.
LEMMA SendsApart ==
    /\ \A kind \in Kinds : Sends(kind) \subseteq Requests
    /\ Sends("charts") = Requests \cap {"history", "forecast", "sparks"}
    /\ \A kind \in Kinds \ {"charts"} :
          "history" \notin Sends(kind) /\ "forecast" \notin Sends(kind)
  BY DEF Sends, Kinds

\* Loads that are started are well formed, and none of their requests is answered.
LEMMA FreshLoads ==
    ASSUME NEW kinds \in SUBSET Kinds, NEW u \in Units, NEW r \in Ranges
    PROVE  /\ Fresh(kinds, u, r) \subseteq Load
           /\ \A l \in Fresh(kinds, u, r) : l.pending = Sends(l.kind)
           /\ "charts" \in kinds /\ Sends("charts") # {} =>
                 \E l \in Fresh(kinds, u, r) : l.kind = "charts"
<1> DEFINE new(k) == [kind |-> k, units |-> u, range |-> r, late |-> FALSE,
                      pending |-> Sends(k), got |-> FALSE]
<1>1. Fresh(kinds, u, r) = {new(k) : k \in {j \in kinds : Sends(j) # {}}}
  BY DEF Fresh
<1>2. ASSUME NEW k \in kinds, Sends(k) # {}
      PROVE  new(k) \in Load /\ new(k).pending = Sends(new(k).kind)
  BY <1>2, SendsApart DEF Load
<1>3. new("charts").kind = "charts"
  OBVIOUS
<1> HIDE DEF new
<1> QED
  BY <1>1, <1>2, <1>3

\* A start of loads keeps those under way and adds unanswered ones.
LEMMA StartKeeps ==
    ASSUME PageInv, NEW kinds \in SUBSET Kinds, NEW u \in Units, NEW r \in Ranges,
           Start(kinds, u, r)
    PROVE  /\ loads' \subseteq Load
           /\ \A l \in loads' : l.pending \subseteq Sends(l.kind)
           /\ \A l \in loads : \E m \in loads' : m.kind = l.kind /\ m.pending = l.pending
           /\ "charts" \in kinds /\ Sends("charts") # {} =>
                 \E l \in loads' : l.kind = "charts"
<1>1. loads' = {[l EXCEPT !.late = TRUE] : l \in loads} \cup Fresh(kinds, u, r)
  BY DEF Start
<1>2. \A l \in loads : l \in Load /\ l.pending \subseteq Sends(l.kind)
  BY DEF PageInv, TypeOK
<1> DEFINE late(l) == [l EXCEPT !.late = TRUE]
<1>3. ASSUME NEW l \in loads
      PROVE  late(l) \in Load /\ late(l).kind = l.kind /\ late(l).pending = l.pending
  BY <1>2 DEF Load
<1>4. loads' = {late(l) : l \in loads} \cup Fresh(kinds, u, r)
  BY <1>1
<1> HIDE DEF late
<1>5. loads' \subseteq Load
  BY <1>3, <1>4, FreshLoads
<1>6. ASSUME NEW m \in loads' PROVE m.pending \subseteq Sends(m.kind)
  <2>1. CASE m \in Fresh(kinds, u, r)
    BY <2>1, FreshLoads
  <2>2. ASSUME NEW l \in loads, m = late(l) PROVE m.pending \subseteq Sends(m.kind)
    <3>1. m.kind = l.kind /\ m.pending = l.pending
      BY <1>3, <2>2
    <3> QED
      BY <1>2, <3>1
  <2> QED
    BY <1>4, <2>1, <2>2
<1>7. \A l \in loads : \E m \in loads' : m.kind = l.kind /\ m.pending = l.pending
  BY <1>3, <1>4
<1> QED
  BY <1>4, <1>5, <1>6, <1>7, FreshLoads

LEMMA InitInv == Init => PageInv
<1> SUFFICES ASSUME Init PROVE PageInv
  OBVIOUS
<1>1. loads \subseteq Load /\ \A l \in loads : l.pending = Sends(l.kind)
  BY FreshLoads DEF Init
<1>2. data["history"] = None
  BY DEF Init, AllRequests
<1>3. TypeOK
  BY <1>1 DEF Init, TypeOK, Query
<1> QED
  BY <1>1, <1>2, <1>3 DEF PageInv, FetchedIsDrawn

\* Starting loads, with the selection u, r from now on, keeps the invariant; a
\* change of range loads the charts.
LEMMA StartInv ==
    ASSUME PageInv, NEW kinds \in SUBSET Kinds, NEW u \in Units, NEW r \in Ranges,
           Start(kinds, u, r), units' = u, range' = r,
           r = range \/ "charts" \in kinds,
           acts' \in 0..MaxActs, UNCHANGED <<data, page, failures>>
    PROVE  PageInv'
<1>1. TypeOK'
  BY StartKeeps DEF PageInv, TypeOK
<1>2. \A l \in loads' : l.pending \subseteq Sends(l.kind)
  BY StartKeeps
<1>3. (data["history"] # None => "history" \in Requests)'
  BY DEF PageInv
<1>4. FetchedIsDrawn'
  <2> SUFFICES ASSUME data["history"] # None
               PROVE  /\ (\A l \in loads' : l.kind = "charts" => l.pending = Sends("charts"))
                            => /\ page.charts.history = data["history"]
                               /\ page.charts.forecast = data["forecast"]
                      /\ (\A l \in loads' : l.kind # "charts") => page.charts.range = r
    BY DEF FetchedIsDrawn
  <2>1. Sends("charts") # {}
    BY SendsApart DEF PageInv
  <2>2. (\A l \in loads' : l.kind = "charts" => l.pending = Sends("charts"))
           => (\A l \in loads : l.kind = "charts" => l.pending = Sends("charts"))
    BY StartKeeps
  <2>3. (\A l \in loads' : l.kind # "charts") =>
           r = range /\ (\A l \in loads : l.kind # "charts")
    BY <2>1, StartKeeps
  <2> QED
    BY <2>2, <2>3 DEF PageInv, FetchedIsDrawn
<1> QED
  BY <1>1, <1>2, <1>3, <1>4 DEF PageInv

-----------------------------------------------------------------------------
\* What an answer puts into the cached state.
LEMMA CachedType ==
    ASSUME TypeOK, NEW l \in loads, NEW p \in l.pending, NEW ok \in BOOLEAN
    PROVE  /\ p \in AllRequests /\ p \in Requests
           /\ Asked(l, p) \in Query
           /\ Asked(l, "now") \in Query
           /\ Cached(l, p, ok) \in [AllRequests -> Query \cup {None}]
           /\ p \notin {"history", "forecast"} =>
                 /\ Cached(l, p, ok)["history"] = data["history"]
                 /\ Cached(l, p, ok)["forecast"] = data["forecast"]
           /\ p # "history" => Cached(l, p, ok)["history"] = data["history"]
<1>1. l \in Load
  BY DEF TypeOK
<1>2. p \in AllRequests /\ p \in Requests
  BY <1>1 DEF Load
<1>3. Asked(l, p) \in Query /\ Asked(l, "now") \in Query
  BY <1>1 DEF Asked, Load, Query
<1>4. data \in [AllRequests -> Query \cup {None}]
  BY DEF TypeOK
<1> QED
  BY <1>2, <1>3, <1>4 DEF Cached, AllRequests

\* What is drawn is typed, and the load of the charts draws what is cached.
LEMMA DrawType ==
    ASSUME TypeOK, NEW kind \in Kinds, NEW good \in BOOLEAN,
           NEW d \in [AllRequests -> Query \cup {None}]
    PROVE  /\ Draw(kind, d, good) \in
                 [tiles  : [TileParts -> Query \cup {None}],
                  hilo   : Query \cup {None},
                  cards  : [of : Query \cup {None}, label : Ranges \cup {None}],
                  bolts  : Query \cup {None},
                  charts : [history : Query \cup {None}, forecast : Query \cup {None},
                            range : Ranges \cup {None}]]
           /\ kind = "charts" /\ d["history"] # None =>
                 Draw(kind, d, good).charts = [history  |-> d["history"],
                                               forecast |-> d["forecast"],
                                               range    |-> range]
<1>1. Tiles(d) \in [TileParts -> Query \cup {None}]
  BY DEF Tiles, TileParts, AllRequests
<1>2. /\ d["history"] \in Query \cup {None} /\ d["forecast"] \in Query \cup {None}
      /\ d["summary"] \in Query \cup {None} /\ d["lightning"] \in Query \cup {None}
      /\ d["today"] \in Query \cup {None}
  BY DEF AllRequests
<1>3. CASE kind = "current"
  BY <1>1, <1>2, <1>3 DEF TypeOK, Draw, DrawCurrent
<1>4. CASE kind = "summary"
  BY <1>2, <1>4 DEF TypeOK, Draw, DrawSummary
<1>5. CASE kind = "lightning"
  BY <1>2, <1>5 DEF TypeOK, Draw, DrawLightning
<1>6. CASE kind = "charts"
  <2>1. Draw(kind, d, good) = DrawCharts(d)
    BY <1>6 DEF Draw
  <2>2. DrawCharts(d).charts = IF d["history"] = None THEN page.charts
                               ELSE [history  |-> d["history"],
                                     forecast |-> d["forecast"], range |-> range]
    BY DEF TypeOK, DrawCharts
  <2>3. DrawCharts(d) \in [tiles  : [TileParts -> Query \cup {None}],
                           hilo   : Query \cup {None},
                           cards  : [of : Query \cup {None}, label : Ranges \cup {None}],
                           bolts  : Query \cup {None},
                           charts : [history : Query \cup {None},
                                     forecast : Query \cup {None},
                                     range : Ranges \cup {None}]]
    BY <1>1, <1>2 DEF TypeOK, DrawCharts
  <2> QED
    BY <1>6, <2>1, <2>2, <2>3
<1> QED
  BY <1>3, <1>4, <1>5, <1>6 DEF Kinds

\* Other loads leave the charts alone.
LEMMA DrawElsewhere ==
    ASSUME TypeOK, NEW kind \in Kinds, kind # "charts", NEW good, NEW d
    PROVE  Draw(kind, d, good).charts = page.charts
<1>1. CASE kind = "current"
  BY <1>1 DEF TypeOK, Draw, DrawCurrent
<1>2. CASE kind = "summary"
  BY <1>2 DEF TypeOK, Draw, DrawSummary
<1>3. CASE kind = "lightning"
  BY <1>3 DEF TypeOK, Draw, DrawLightning
<1> QED
  BY <1>1, <1>2, <1>3 DEF Kinds

\* What is left of a load.
LEMMA LeftType ==
    ASSUME TypeOK, NEW l \in loads, NEW p \in l.pending, NEW good \in BOOLEAN
    PROVE  /\ Left(l, p, good) \subseteq Load
           /\ \A m \in Left(l, p, good) :
                 m.kind = l.kind /\ m.pending = l.pending \ {p}
           /\ l.pending # {p} => \E m \in Left(l, p, good) : TRUE
<1>1. l \in Load
  BY DEF TypeOK
<1>2. CASE l.pending = {p}
  BY <1>2 DEF Left
<1>3. CASE l.pending # {p}
  <2> DEFINE m == [l EXCEPT !.pending = @ \ {p}, !.got = good]
  <2>1. Left(l, p, good) = {m}
    BY <1>3 DEF Left
  <2>2. l.pending \ {p} \in (SUBSET Requests) \ {{}}
    BY <1>1, <1>3 DEF Load
  <2>3. m \in Load /\ m.kind = l.kind /\ m.pending = l.pending \ {p}
    BY <1>1, <2>2 DEF Load
  <2> HIDE DEF m
  <2> QED
    BY <2>1, <2>3, <1>3
<1> QED
  BY <1>2, <1>3

\* An answer, good or failed, keeps the invariant.
LEMMA AnswerInv ==
    ASSUME PageInv, NEW l \in loads, NEW p \in l.pending, NEW ok \in BOOLEAN,
           Answer(l, p, ok)
    PROVE  PageInv'
<1> DEFINE good == l.got \/ (ok /\ p \in {"now", "summary", "lightning"})
           d0 == Cached(l, p, ok)
           d  == IF Completes(l, p) /\ l.kind = "current" /\ good
                 THEN [d0 EXCEPT !["now"] = Asked(l, "now")] ELSE d0
<1>1. /\ failures' \in 0..MaxFailures
      /\ loads' = (loads \ {l}) \cup Left(l, p, good)
      /\ data' = d
      /\ page' = IF Completes(l, p) THEN Draw(l.kind, d, good) ELSE page
      /\ UNCHANGED <<units, range, acts>>
  BY DEF Answer, PageInv, TypeOK
<1>2. /\ TypeOK /\ l \in Load /\ good \in BOOLEAN /\ l.kind \in Kinds
      /\ l.pending \subseteq Sends(l.kind)
  BY DEF PageInv, TypeOK, Load
<1>3. /\ d \in [AllRequests -> Query \cup {None}]
      /\ d["history"] = d0["history"] /\ d["forecast"] = d0["forecast"]
  BY <1>2, CachedType DEF AllRequests
<1> HIDE DEF d, d0, good
<1>4. TypeOK'
  BY <1>1, <1>2, <1>3, LeftType, DrawType DEF TypeOK
<1>5. \A m \in loads' : m.pending \subseteq Sends(m.kind)
  BY <1>1, <1>2, LeftType DEF PageInv
<1>6. (data["history"] # None => "history" \in Requests)'
  BY <1>1, <1>2, <1>3, CachedType DEF PageInv, d0
<1>7. FetchedIsDrawn'
  <2>1. CASE l.kind # "charts"
    <3>1. p \notin {"history", "forecast"}
      BY <1>2, <2>1, SendsApart
    <3>2. /\ data'["history"] = data["history"]
          /\ data'["forecast"] = data["forecast"]
      BY <1>1, <1>2, <1>3, <3>1, CachedType DEF d0
    <3>3. page'.charts = page.charts /\ range' = range
      <4>1. Draw(l.kind, d, good).charts = page.charts
        BY <1>2, <2>1, DrawElsewhere
      <4> QED
        BY <1>1, <4>1
    <3>4. \A m \in loads : m.kind = "charts" => m \in loads'
      BY <1>1, <2>1
    <3> QED
      BY <3>2, <3>3, <3>4 DEF PageInv, FetchedIsDrawn
  <2>2. CASE l.kind = "charts" /\ l.pending # {p}
    <3>1. PICK m \in Left(l, p, good) : m.kind = "charts" /\ m.pending = l.pending \ {p}
      BY <1>2, <2>2, LeftType
    <3>2. m \in loads' /\ m.pending # Sends("charts")
      BY <1>1, <1>2, <2>2, <3>1
    <3> QED
      BY <3>1, <3>2 DEF FetchedIsDrawn
  <2>3. CASE l.kind = "charts" /\ l.pending = {p}
    <3>1. page' = Draw("charts", d, good) /\ data' = d /\ range' = range
      BY <1>1, <2>3 DEF Completes
    <3>2. data'["history"] # None =>
             page'.charts = [history |-> data'["history"],
                             forecast |-> data'["forecast"], range |-> range']
      BY <1>2, <1>3, <3>1, DrawType DEF Kinds
    <3> QED
      BY <3>2 DEF FetchedIsDrawn
  <2> QED
    BY <2>1, <2>2, <2>3
<1> QED
  BY <1>4, <1>5, <1>6, <1>7 DEF PageInv

LEMMA InvStep == PageInv /\ [Next]_vars => PageInv'
<1> SUFFICES ASSUME PageInv, [Next]_vars PROVE PageInv'
  OBVIOUS
<1>t. units \in Units /\ range \in Ranges /\ acts \in 0..MaxActs
  BY DEF PageInv, TypeOK
<1>1. ASSUME NEW u \in Units, SetUnits(u) PROVE PageInv'
  <2>1. /\ Kinds \in SUBSET Kinds /\ "charts" \in Kinds
        /\ Start(Kinds, u, range) /\ units' = u /\ range' = range
        /\ acts' \in 0..MaxActs /\ UNCHANGED <<data, page, failures>>
    BY <1>1, <1>t DEF SetUnits, Act, Kinds
  <2> QED
    BY <1>t, <2>1, StartInv
<1>2. ASSUME NEW r \in Ranges, SetRange(r) PROVE PageInv'
  <2> DEFINE kinds == {"summary", "lightning", "charts"}
  <2>1. /\ kinds \in SUBSET Kinds /\ "charts" \in kinds
        /\ Start(kinds, units, r) /\ units' = units /\ range' = r
        /\ acts' \in 0..MaxActs /\ UNCHANGED <<data, page, failures>>
    BY <1>2, <1>t DEF SetRange, Act, Kinds
  <2> HIDE DEF kinds
  <2> QED
    BY <1>t, <2>1, StartInv
<1>3. CASE RefreshLive
  <2>1. /\ LiveKinds \in SUBSET Kinds
        /\ Start(LiveKinds, units, range) /\ units' = units /\ range' = range
        /\ acts' \in 0..MaxActs /\ UNCHANGED <<data, page, failures>>
    BY <1>3, <1>t DEF RefreshLive, LiveKinds
  <2> QED
    BY <1>t, <2>1, StartInv
<1>4. CASE Answered
  BY <1>4, AnswerInv DEF Answered
<1>5. CASE Failed
  BY <1>5, AnswerInv DEF Failed
<1>6. CASE UNCHANGED vars
  BY <1>6 DEF vars, PageInv, TypeOK, FetchedIsDrawn
<1> QED
  BY <1>1, <1>2, <1>3, <1>4, <1>5, <1>6 DEF Next

\* The page's variables stay well formed, with every load awaiting its own.
THEOREM Invariance == Spec => []PageInv
<1> QED
  BY InitInv, InvStep, PTL DEF Spec

\* loadCharts never fetches a history or a forecast that is then not drawn, and
\* never leaves the axis of another range behind.
THEOREM NothingIsLeftUndrawn == Spec => []FetchedIsDrawn
<1>1. PageInv => FetchedIsDrawn
  BY DEF PageInv
<1> QED
  BY <1>1, Invariance, PTL
=============================================================================
