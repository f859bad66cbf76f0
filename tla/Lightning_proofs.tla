-------------------------- MODULE Lightning_proofs --------------------------
(***************************************************************************)
(* Proofs about Lightning: the inductive invariant behind the hand-over    *)
(* from the interrupt routine to the poll, and from it that a raised line  *)
(* is never forgotten and that a strike is stored once, for every number   *)
(* of events; and that no limit hides the newest event of a range.         *)
(***************************************************************************)
EXTENDS Lightning, FiniteSetTheorems, TLAPS

USE LightningAssumption

\* The inductive invariant holds initially.
LEMMA InitInv == Init => StrikeInv
<1> SUFFICES ASSUME Init PROVE StrikeInv
  OBVIOUS
<1> USE DEF Init
<1>1. TypeOK
  BY DEF TypeOK, Message
<1>2. NeverDeaf /\ ChipInv /\ PollInv /\ SentInv
  BY DEF NeverDeaf, ChipInv, PollInv, SentInv, Sent, Reading, Reported
<1> QED
  BY <1>1, <1>2 DEF StrikeInv

\* Every step keeps the variables in their types.
LEMMA TypeStep == TypeOK /\ Next => TypeOK'
<1> SUFFICES ASSUME TypeOK, Next PROVE TypeOK'
  OBVIOUS
<1> USE DEF TypeOK, Message, chip, server
<1>1. CASE Tick
  BY <1>1 DEF Tick
<1>2. ASSUME NEW kind \in {"strike", "other"}, Detect(kind) PROVE TypeOK'
  <2>1. /\ events' = events + 1 /\ line' = TRUE
        /\ cause' = [id |-> events', kind |-> kind] \/ cause' = cause
        /\ storm' = events' \/ storm' = storm
        /\ flag' \in BOOLEAN
        /\ UNCHANGED <<now, pc, ev, server, missed>>
    BY <1>2 DEF Detect
  <2>2. cause' = None \/ cause' \in Event
    BY <2>1 DEF Event
  <2> QED
    BY <2>1, <2>2
<1>3. CASE Attach
  BY <1>3 DEF Attach
<1>4. CASE Poll
  BY <1>4 DEF Poll
<1>5. CASE ReadInterruptReg
  BY <1>5 DEF ReadInterruptReg, Reported, Event
<1>6. CASE DistanceToStorm
  BY <1>6 DEF DistanceToStorm
<1>7. CASE LightningEnergy
  BY <1>7 DEF LightningEnergy
<1>8. ASSUME NEW connected \in BOOLEAN, NEW ts \in {0, now},
             PublishLightning(connected, ts)
      PROVE  TypeOK'
  BY <1>8 DEF PublishLightning
<1>9. CASE Lose
  BY <1>9 DEF Lose
<1>10. ASSUME NEW m \in flight, NEW ok \in BOOLEAN, OnLightning(m, ok)
       PROVE  TypeOK'
  BY <1>10 DEF OnLightning
<1> QED
  BY <1>1, <1>2, <1>3, <1>4, <1>5, <1>6, <1>7, <1>8, <1>9, <1>10
     DEF Next, PollLightning

\* The inductive invariant is kept by every step.
LEMMA InvStep == StrikeInv /\ [Next]_vars => StrikeInv'
<1> SUFFICES ASSUME StrikeInv, [Next]_vars PROVE StrikeInv'
  OBVIOUS
<1>0. CASE UNCHANGED vars
  BY <1>0 DEF vars, chip, server, StrikeInv, TypeOK, NeverDeaf, ChipInv, PollInv, SentInv,
     Sent, Reading, Reported
<1> SUFFICES ASSUME Next PROVE StrikeInv'
  BY <1>0
<1>a. TypeOK /\ TypeOK'
  BY TypeStep DEF StrikeInv
<1>b. NeverDeaf /\ ChipInv /\ PollInv /\ SentInv
  BY DEF StrikeInv
<1> SUFFICES (NeverDeaf /\ ChipInv /\ PollInv /\ SentInv)'
  BY <1>a DEF StrikeInv
<1> USE <1>a, <1>b DEF TypeOK, Message, Event, chip, server
<1> USE DEF NeverDeaf, ChipInv, PollInv, SentInv, Sent, Reading, Reported
<1>1. CASE Tick
  BY <1>1 DEF Tick
<1>2. ASSUME NEW kind \in {"strike", "other"}, Detect(kind)
      PROVE  (NeverDeaf /\ ChipInv /\ PollInv /\ SentInv)'
  <2>1. /\ events' = events + 1 /\ line' = TRUE
        /\ flag' = (flag \/ (~line /\ pc # "setup"))
        /\ storm' = IF kind = "strike" THEN events' ELSE storm
        /\ UNCHANGED <<now, pc, ev, server, missed>>
    BY <1>2 DEF Detect
  <2>2. \/ cause' = [id |-> events', kind |-> kind]
        \/ cause # None /\ cause' = cause
    BY <1>2 DEF Detect
  <2>3. storm <= storm' /\ storm' <= events'
    BY <2>1
  <2>4. NeverDeaf'
    BY <2>1
  <2>5. ChipInv'
    <3>1. CASE cause' = [id |-> events', kind |-> kind]
      <4>1. cause'.id = events' /\ cause'.kind = kind
        BY <3>1
      <4>2. events' \in 1..events' /\ (kind = "strike" => events' <= storm')
        BY <2>1
      <4> QED
        BY <2>3, <4>1, <4>2
    <3>2. CASE cause # None /\ cause' = cause
      BY <2>1, <2>3, <3>2
    <3> QED
      BY <2>2, <3>1, <3>2
  <2>6. PollInv'
    BY <2>1, <2>2, <2>3
  <2>7. SentInv'
    BY <2>1, <2>2
  <2> QED
    BY <2>4, <2>5, <2>6, <2>7
<1>3. CASE Attach
  BY <1>3 DEF Attach
<1>4. CASE Poll
  BY <1>4 DEF Poll
<1>5. CASE ReadInterruptReg
  BY <1>5 DEF ReadInterruptReg
<1>6. CASE DistanceToStorm
  BY <1>6 DEF DistanceToStorm
<1>7. CASE LightningEnergy
  BY <1>7 DEF LightningEnergy
<1>8. ASSUME NEW connected \in BOOLEAN, NEW ts \in {0, now},
             PublishLightning(connected, ts)
      PROVE  (NeverDeaf /\ ChipInv /\ PollInv /\ SentInv)'
  <2> DEFINE sent == [ev EXCEPT !.ts = ts]
  <2>1. /\ sent.event = ev.event /\ sent.distance = ev.distance
        /\ sent.energy = ev.energy
    OBVIOUS
  <2>2. /\ pc = "publish" /\ pc' = "idle"
        /\ flight' = IF connected THEN flight \cup {sent} ELSE flight
        /\ UNCHANGED <<now, chip, flag, ev, table, missed>>
    BY <1>8 DEF PublishLightning
  <2>3. NeverDeaf' /\ ChipInv' /\ PollInv'
    BY <2>2
  <2>4. SentInv'
    BY <2>1, <2>2
  <2> QED
    BY <2>3, <2>4
<1>9. CASE Lose
  BY <1>9 DEF Lose
<1>10. ASSUME NEW m \in flight, NEW ok \in BOOLEAN, OnLightning(m, ok)
       PROVE  (NeverDeaf /\ ChipInv /\ PollInv /\ SentInv)'
  <2>1. /\ (flight \cup table)' \subseteq flight \cup table
        /\ UNCHANGED <<now, chip, pc, flag, ev, missed>>
    BY <1>10 DEF OnLightning
  <2> QED
    BY <2>1
<1> QED
  BY <1>1, <1>2, <1>3, <1>4, <1>5, <1>6, <1>7, <1>8, <1>9, <1>10
     DEF Next, PollLightning

\* The invariant of the interrupt, the poll and the messages holds throughout.
THEOREM Invariance == Spec => []StrikeInv
<1> QED
  BY InitInv, InvStep, PTL DEF Spec

\* Whatever the order of events and polls, a line that was not raised before the
\* interrupt was attached leaves the flag up or a poll on its way to the register:
\* onLightningIRQ and pollLightning lose no interrupt between them.
THEOREM InterruptsAreNotLost == Spec => []NeverDeaf
<1>1. StrikeInv => NeverDeaf
  BY DEF StrikeInv
<1> QED
  BY <1>1, Invariance, PTL

\* No strike is stored twice, and none with the distance or the energy of an
\* earlier one.
THEOREM StrikesAreStoredOnce == Spec => []StrikesStoredOnce
<1>1. StrikeInv => StrikesStoredOnce
  BY DEF StrikeInv, SentInv, Sent, StrikesStoredOnce
<1> QED
  BY <1>1, Invariance, PTL

-----------------------------------------------------------------------------
\* A limit is positive and does not exceed the maximum, or is the default.
LEMMA LimitPositive ==
    ASSUME NEW limit \in Limits
    PROVE  LimitParam(limit) \in Nat \ {0}
  BY DEF LimitParam

\* The newest event of a range is in every answer, or one as recent is.
LEMMA NewestIsShown ==
    ASSUME TypeOK, NEW span \in Spans, NEW limit \in Limits,
           NEW m \in table, m.ts >= now - span, m.ts < now,
           NEW S \in ApiLightning(span, limit)
    PROVE  \E s \in S : s.ts >= m.ts
<1> DEFINE rows == {r \in table : r.ts >= now - span /\ r.ts < now}
<1>1. m \in rows
  OBVIOUS
<1>2. /\ S \subseteq rows
      /\ S # rows => Cardinality(S) = LimitParam(limit)
      /\ \A r \in S, s \in rows \ S : s.ts <= r.ts
  BY DEF ApiLightning, LightningEvents
<1>3. CASE m \in S
  <2>1. m.ts \in Nat
    BY DEF TypeOK, Message
  <2> QED
    BY <1>3, <2>1
<1>4. CASE m \notin S
  <2>1. S # {}
    <3>1. Cardinality({}) = 0
      BY FS_EmptySet
    <3> QED
      BY <1>1, <1>2, <1>4, <3>1, LimitPositive
  <2>2. PICK s \in S : TRUE
    BY <2>1
  <2>3. m.ts <= s.ts
    BY <1>1, <1>2, <1>4, <2>2
  <2>4. m.ts \in Nat /\ s.ts \in Nat
    BY <1>2, <2>2 DEF TypeOK, Message
  <2> QED
    BY <2>2, <2>3, <2>4
<1> QED
  BY <1>3, <1>4

\* No limit a client sends hides the newest lightning event of its range.
THEOREM NewestStrikeIsShown == Spec => []RecentStrikeShown
<1>1. StrikeInv => RecentStrikeShown
  BY NewestIsShown DEF StrikeInv, RecentStrikeShown
<1> QED
  BY <1>1, Invariance, PTL

-----------------------------------------------------------------------------
(***************************************************************************)
(* The way of a strike implements the strike log.                          *)
(***************************************************************************)
\* Not only while it is read: what the register holds is newer than what was last read.
PickedInv ==
    /\ ev.event <= events
    /\ cause # None => ev.event < cause.id

LEMMA NextPicked == StrikeInv /\ PickedInv /\ [Next]_vars => PickedInv'
<1> SUFFICES ASSUME StrikeInv, PickedInv, [Next]_vars PROVE PickedInv'
  OBVIOUS
<1> USE DEF PickedInv
<1>0. TypeOK /\ ChipInv
  BY DEF StrikeInv
<1>1. ASSUME NEW kind \in {"strike", "other"}, Detect(kind) PROVE PickedInv'
  <2>1. /\ events' = events + 1 /\ events \in Nat /\ ev' = ev /\ ev.event \in Nat
        /\ cause' = [id |-> events', kind |-> kind] \/ (cause # None /\ cause' = cause)
    BY <1>0, <1>1 DEF Detect, TypeOK, Message
  <2>2. CASE cause' = [id |-> events', kind |-> kind]
    <3>1. cause'.id = events + 1
      BY <2>1, <2>2
    <3> QED
      BY <2>1, <3>1
  <2> QED
    BY <2>1, <2>2
<1>2. CASE ReadInterruptReg
  BY <1>0, <1>2 DEF ReadInterruptReg, Reported, ChipInv, TypeOK, Message
<1>3. CASE DistanceToStorm \/ LightningEnergy
  BY <1>0, <1>3 DEF DistanceToStorm, LightningEnergy, chip, TypeOK, Message
<1>4. CASE \/ Tick \/ Attach \/ Poll \/ Lose
           \/ \E connected \in BOOLEAN, ts \in {0, now} : PublishLightning(connected, ts)
           \/ \E m \in flight, ok \in BOOLEAN : OnLightning(m, ok)
           \/ UNCHANGED vars
  <2>1. UNCHANGED <<events, cause, ev>>
    BY <1>4 DEF Tick, Attach, Poll, Lose, PublishLightning, OnLightning, vars, chip
  <2> QED
    BY <2>1
<1> QED
  BY <1>1, <1>2, <1>3, <1>4 DEF Next, PollLightning

\* A message that is published reports the event just read, with values of its time.
LEMMA SendStrike ==
    ASSUME StrikeInv, NEW connected \in BOOLEAN, NEW ts \in {0, now},
           PublishLightning(connected, ts)
    PROVE  Strikes!Send
<1> DEFINE sent == [ev EXCEPT !.ts = ts]
<1>1. /\ pc = "publish" /\ pc' = "idle"
      /\ flight' = IF connected THEN flight \cup {sent} ELSE flight
      /\ UNCHANGED <<events, ev, table>>
  BY DEF PublishLightning, chip
<1>2. Reading /\ ~Reading'
  BY <1>1 DEF Reading
<1>3. Strikes!Reports(sent)
  <2>1. /\ sent.event = ev.event /\ sent.distance = ev.distance
        /\ sent.energy = ev.energy
    BY DEF StrikeInv, TypeOK, Message
  <2>2. /\ ev.event <= ev.distance /\ ev.distance <= ev.energy /\ ev.energy <= events
    BY <1>1 DEF StrikeInv, PollInv, ChipInv, TypeOK, Message
  <2> QED
    BY <2>1, <2>2 DEF Strikes!Reports
<1>4. \A m \in flight' \ flight : m = sent
  BY <1>1
<1>5. \A m \in flight' \ flight : Strikes!Reports(m)
  BY <1>3, <1>4
<1> QED
  BY <1>1, <1>2, <1>4, <1>5 DEF Strikes!Send

\* Every step of the chip, the firmware and the server is one of the log, or none.
LEMMA StrikeStep == StrikeInv /\ PickedInv /\ [Next]_vars => [Strikes!Next]_Strikes!vars
<1> SUFFICES ASSUME StrikeInv, PickedInv, [Next]_vars
             PROVE  Strikes!Next \/ UNCHANGED Strikes!vars
  OBVIOUS
<1>0. TypeOK /\ ChipInv
  BY DEF StrikeInv
<1>1. ASSUME NEW kind \in {"strike", "other"}, Detect(kind) PROVE Strikes!Occur
  BY <1>1 DEF Detect, Strikes!Occur, Reading, server
<1>2. ASSUME ReadInterruptReg PROVE Strikes!PickUp \/ UNCHANGED Strikes!vars
  <2>1. pc = "read" /\ UNCHANGED <<events, flight, table>>
    BY <1>2 DEF ReadInterruptReg, server
  <2>2. CASE Reported(cause)
    <3>1. /\ ev' = [ev EXCEPT !.event = cause.id] /\ pc' = "distance"
          /\ cause # None
      BY <1>2, <2>2 DEF ReadInterruptReg, Reported
    <3>2. ev'.event = cause.id
      BY <1>0, <3>1 DEF TypeOK, Message
    <3>3. cause.id \in ev.event + 1 .. events
      BY <1>0, <3>1 DEF ChipInv, PickedInv, TypeOK, Message
    <3> QED
      BY <2>1, <3>1, <3>2, <3>3 DEF Strikes!PickUp, Reading
  <2>3. CASE ~Reported(cause)
    BY <1>2, <2>1, <2>3 DEF ReadInterruptReg, Reading, Strikes!vars
  <2> QED
    BY <2>2, <2>3
<1>3. CASE Lose
  BY <1>3 DEF Lose, chip, Reading, Strikes!Lose, Strikes!Next
<1>4. ASSUME NEW m \in flight, NEW ok \in BOOLEAN, OnLightning(m, ok)
      PROVE  Strikes!Next
  <2>1. /\ flight' = flight \ {m} /\ table' = IF ok THEN table \cup {m} ELSE table
        /\ UNCHANGED <<events, ev, Reading>>
    BY <1>4 DEF OnLightning, chip, Reading
  <2>2. CASE ok
    BY <2>1, <2>2 DEF Strikes!Deliver, Strikes!Next
  <2>3. CASE ~ok
    BY <2>1, <2>3 DEF Strikes!Lose, Strikes!Next
  <2> QED
    BY <2>2, <2>3
<1>5. CASE Tick \/ Attach \/ Poll \/ DistanceToStorm \/ LightningEnergy \/ UNCHANGED vars
  <2>1. UNCHANGED <<events, flight, table, Reading, ev.event>>
    BY <1>0, <1>5 DEF Tick, Attach, Poll, DistanceToStorm, LightningEnergy, vars, chip,
                      server, Reading, TypeOK, Message
  <2> QED
    BY <2>1 DEF Strikes!vars
<1> QED
  BY <1>1, <1>2, <1>3, <1>4, <1>5, SendStrike DEF Next, PollLightning, Strikes!Next

\* Chip, firmware, network and server implement the strike log, for every number of
\* events: no interleaving of the chip with a poll picks an event up twice or out of
\* order, or reports one with values older than it.
THEOREM Implementation == Spec => ImplementsStrikeLog
<1>1. Init => PickedInv /\ Strikes!Init
  BY DEF Init, PickedInv, Strikes!Init, Reading
<1>2. StrikeInv /\ PickedInv /\ [Next]_vars => (StrikeInv /\ PickedInv)'
  BY InvStep, NextPicked
<1> QED
  BY <1>1, <1>2, InitInv, StrikeStep, PTL
     DEF Spec, Strikes!Spec, ImplementsStrikeLog
=============================================================================
