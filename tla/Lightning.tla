------------------------------ MODULE Lightning ------------------------------
(***************************************************************************)
(* A lightning strike on its way to the dashboard: the AS3935 raises its   *)
(* interrupt line, the interrupt routine sets a flag, a later pass of the  *)
(* firmware loop polls the flag and reads the chip, register by register,  *)
(* the message is published, and the server stores it and answers          *)
(* GET /api/lightning (firmware sensors.cpp, main.cpp, wifi_mqtt.cpp;      *)
(* server ingest, store and web).                                          *)
(*                                                                         *)
(* Events of the chip are numbered.  A message carries the number of the   *)
(* event it reports and, as its distance and energy, the numbers of the    *)
(* strikes whose values the chip's registers held when they were read.     *)
(***************************************************************************)
EXTENDS Integers, FiniteSets

CONSTANTS
    None,                    \* no event, or a limit that is no number
    DefaultLimit, MaxLimit,  \* of the events in one answer: 100 and 1000
    Limits, Spans,           \* `limit` and length of the range of a request
    MaxEvents, MaxNow        \* bounds on counters

ASSUME LightningAssumption ==
    /\ None \notin Int
    /\ DefaultLimit \in Nat \ {0} /\ MaxLimit \in Nat \ {0}
    /\ Limits \subseteq Int \cup {None}
    /\ Spans \subseteq Nat
    /\ MaxEvents \in Nat /\ MaxNow \in Nat

VARIABLES
    now,      \* time, on both sides
    events,   \* events of the chip so far
    line,     \* the interrupt pin is high
    cause,    \* interrupt register: the event and its kind, or None
    storm,    \* distance and energy registers: the strike they speak of
    pc,       \* where the firmware is in pollLightning
    flag,     \* lightningFlag
    ev,       \* the event being read
    flight,   \* messages published and not yet delivered
    table,    \* table lightning
    missed    \* the line was high when the interrupt was attached

chip   == <<events, line, cause, storm>>
server == <<flight, table>>
vars   == <<now, chip, pc, flag, ev, server, missed>>

Event   == [id : Nat, kind : {"strike", "other"}]
Message == [event : Nat, distance : Nat, energy : Nat, ts : Nat]

TypeOK ==
    /\ now \in Nat /\ events \in Nat /\ storm \in Nat
    /\ line \in BOOLEAN /\ flag \in BOOLEAN /\ missed \in BOOLEAN
    /\ (cause = None \/ cause \in Event)
    /\ pc \in {"setup", "idle", "read", "distance", "energy", "publish"}
    /\ ev \in Message
    /\ flight \subseteq Message /\ table \subseteq Message

-----------------------------------------------------------------------------
\* begin(): the chip runs before the interrupt is attached.
Init ==
    /\ now = 0
    /\ events = 0 /\ line = FALSE /\ cause = None /\ storm = 0
    /\ pc = "setup"
    /\ flag = FALSE
    /\ ev = [event |-> 0, distance |-> 0, energy |-> 0, ts |-> 0]
    /\ flight = {} /\ table = {}
    /\ missed = FALSE

Tick ==
    /\ now < MaxNow
    /\ now' = now + 1
    /\ UNCHANGED <<chip, pc, flag, ev, server, missed>>

\* The chip detects a strike, a disturber or noise.  It holds one event: while
\* one is pending the next replaces it, or is not reported.  The line rises
\* once, and stays up until the register is read.
Detect(kind) ==
    /\ events < MaxEvents
    /\ events' = events + 1
    /\ line' = TRUE
    /\ \/ cause' = [id |-> events', kind |-> kind]
       \/ cause # None /\ UNCHANGED cause
    /\ storm' = IF kind = "strike" THEN events' ELSE storm
    /\ flag' = (flag \/ (~line /\ pc # "setup"))   \* onLightningIRQ, RISING
    /\ UNCHANGED <<now, pc, ev, server, missed>>

\* attachInterrupt(..., RISING): a line that is already high makes no edge.
Attach ==
    /\ pc = "setup"
    /\ pc' = "idle"
    /\ missed' = line
    /\ UNCHANGED <<now, chip, flag, ev, server>>

\* pollLightning returns false unless the flag is set.
Poll ==
    /\ pc = "idle"
    /\ flag
    /\ flag' = FALSE
    /\ pc' = "read"
    /\ UNCHANGED <<now, chip, ev, server, missed>>

ReportedAny(reg) == reg # None      \* deliberate bug: the kind is not looked at

\* Only strikes are reported.
Reported(reg) == reg # None /\ reg.kind = "strike"

\* Reading the interrupt register clears it, and lowers the line.
ReadInterruptReg ==
    /\ pc = "read"
    /\ cause' = None
    /\ line' = FALSE
    /\ IF Reported(cause)
       THEN pc' = "distance" /\ ev' = [ev EXCEPT !.event = cause.id]
       ELSE pc' = "idle" /\ UNCHANGED ev
    /\ UNCHANGED <<now, events, storm, flag, server, missed>>

\* Deliberate bug: the flag is cleared once the register was read.
DistanceThenClear ==
    /\ pc = "distance"
    /\ pc' = "energy"
    /\ ev' = [ev EXCEPT !.distance = storm]
    /\ flag' = FALSE
    /\ UNCHANGED <<now, chip, server, missed>>

DistanceToStorm ==
    /\ pc = "distance"
    /\ pc' = "energy"
    /\ ev' = [ev EXCEPT !.distance = storm]
    /\ UNCHANGED <<now, chip, flag, server, missed>>

LightningEnergy ==
    /\ pc = "energy"
    /\ pc' = "publish"
    /\ ev' = [ev EXCEPT !.energy = storm]
    /\ UNCHANGED <<now, chip, flag, server, missed>>

\* loop() stamps the event with the clock, which may still be at its epoch,
\* and publishes it at QoS 0; without a connection it is dropped.
PublishLightning(connected, ts) ==
    /\ pc = "publish"
    /\ pc' = "idle"
    /\ flight' = IF connected THEN flight \cup {[ev EXCEPT !.ts = ts]} ELSE flight
    /\ UNCHANGED <<now, chip, flag, ev, table, missed>>

\* A broken connection loses what is on the way.
Lose ==
    /\ flight # {}
    /\ flight' \in SUBSET flight
    /\ UNCHANGED <<now, chip, pc, flag, ev, table, missed>>

\* onLightning; InsertLightning may fail, which is logged.
OnLightning(m, ok) ==
    /\ flight' = flight \ {m}
    /\ table' = IF ok THEN table \cup {m} ELSE table
    /\ UNCHANGED <<now, chip, pc, flag, ev, missed>>

PollLightning ==
    \/ Poll \/ ReadInterruptReg \/ DistanceToStorm \/ LightningEnergy
    \/ \E connected \in BOOLEAN, ts \in {0, now} : PublishLightning(connected, ts)

Next ==
    \/ Tick
    \/ \E kind \in {"strike", "other"} : Detect(kind)
    \/ Attach
    \/ PollLightning
    \/ Lose
    \/ \E m \in flight, ok \in BOOLEAN : OnLightning(m, ok)

Spec == Init /\ [][Next]_vars

\* loop() is called for ever.
FairSpec == Spec /\ WF_vars(PollLightning)

-----------------------------------------------------------------------------
LimitUnchecked(limit) ==    \* deliberate bug: LIMIT 0
    IF limit = None THEN DefaultLimit
    ELSE IF limit > MaxLimit THEN MaxLimit ELSE limit

\* limitParam: the default unless a positive number is given, which is capped.
LimitParam(limit) ==
    IF limit = None THEN DefaultLimit
    ELSE IF limit <= 0 THEN DefaultLimit
    ELSE IF limit > MaxLimit THEN MaxLimit ELSE limit

\* ... ORDER BY ts DESC LIMIT ?: any of these sets of rows.
LightningEvents(from, to, limit) ==
    LET rows == {m \in table : m.ts >= from /\ m.ts < to}
    IN  {S \in SUBSET rows :
            /\ Cardinality(S) <= limit
            /\ S # rows => Cardinality(S) = limit
            /\ \A r \in S, s \in rows \ S : s.ts <= r.ts}

\* GET /api/lightning for the last `span`.
ApiLightning(span, limit) == LightningEvents(now - span, now, LimitParam(limit))

-----------------------------------------------------------------------------
(***************************************************************************)
(* Properties                                                              *)
(***************************************************************************)

\* A raised line is never forgotten: the flag is up or a poll is about to read
\* the register.  An event during a poll, at any point of it, leaves one of the
\* two; otherwise the line would stay high, no edge would come again and the
\* sensor would be silent until a reset.  The one exception is a line that was
\* high already when the interrupt was attached.
NeverDeaf == line /\ pc # "setup" /\ ~missed => flag \/ pc = "read"

\* A strike is stored at most once, and what is stored is a strike's report:
\* its distance and energy are those of that strike or of one that came while
\* it was being read, never of an earlier one.
StrikesStoredOnce ==
    /\ \A m \in table, n \in table : m.event = n.event => m = n
    /\ \A m \in table : m.event \in 1..events
    /\ \A m \in table : m.event <= m.distance /\ m.distance <= m.energy

\* The inductive invariant behind both: events are numbered upwards, the chip
\* holds one at most, and those in a message, in the poll and in the register
\* follow each other.
Sent == flight \cup table
Reading == pc \in {"distance", "energy", "publish"}

ChipInv ==
    /\ storm <= events
    /\ cause # None => cause.id \in 1..events
    /\ Reported(cause) => cause.id <= storm

PollInv ==
    /\ Reading => ev.event \in 1..storm
    /\ Reading /\ cause # None => ev.event < cause.id
    /\ pc \in {"energy", "publish"} => ev.event <= ev.distance /\ ev.distance <= storm
    /\ pc = "publish" => ev.distance <= ev.energy /\ ev.energy <= storm

SentInv ==
    /\ \A m \in Sent, n \in Sent : m.event = n.event => m = n
    /\ \A m \in Sent : /\ m.event \in 1..events
                       /\ m.event <= m.distance /\ m.distance <= m.energy
                       /\ cause # None => m.event < cause.id
                       /\ Reading => m.event < ev.event

StrikeInv ==
    /\ TypeOK
    /\ NeverDeaf
    /\ ChipInv
    /\ PollInv
    /\ SentInv

\* Whatever limit a client asks for, the newest events are the ones it gets:
\* with an event in the range the answer is not empty and holds one at least as
\* recent, so the page's "lightning within 30 minutes" is not fooled by a limit
\* (dashboard.html asks for 20 events and scans them).
RecentStrikeShown ==
    \A span \in Spans, limit \in Limits :
        \A m \in {r \in table : r.ts >= now - span /\ r.ts < now} :
            \A S \in ApiLightning(span, limit) : \E s \in S : s.ts >= m.ts

\* The way from the chip to the table implements the log: whatever the interrupt, the
\* poll and the chip do to each other, an event is picked up at most once and in order,
\* is reported at most once, with values no older than it, and stays once it is stored.
Strikes == INSTANCE StrikeLog WITH
              seen <- events, picked <- ev.event, open <- Reading,
              way <- flight, log <- table
ImplementsStrikeLog == Strikes!Spec

\* Every raised line is read by a later pass, unless it was raised before the
\* interrupt was attached.
InterruptServed == (line /\ pc # "setup" /\ ~missed) ~> ~line
=============================================================================
