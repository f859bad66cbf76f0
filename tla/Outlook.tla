------------------------------- MODULE Outlook -------------------------------
(***************************************************************************)
(* What the forecast overlay promises, without the poller, its failures    *)
(* and the rows of its table: whatever fetch is heard is remembered, and   *)
(* of every hour that is not past the newest word is shown, as long as no  *)
(* other fetch says something of it.                                       *)
(***************************************************************************)
EXTENDS Integers

CONSTANT Sources

VARIABLES
    now,
    heard,   \* all fetches: their source, their points and when they were made
    shown    \* source -> its hours that are not past, with the fetch they are of

vars == <<now, heard, shown>>

SpeaksOf(f, s, u) == f.source = s /\ u \in f.pts

\* The hours of which f has the newest word.
Hours(f, s) ==
    {u \in f.pts : now <= u /\ \A g \in heard : SpeaksOf(g, s, u) => g.at <= f.at}

Newest(s) ==
    UNION {[source : {s}, ts : Hours(f, s), fetched_at : {f.at}] :
              f \in {g \in heard : g.source = s}}

Init == now = 0 /\ heard = {} /\ shown = [s \in Sources |-> {}]

Pass == now' = now + 1 /\ UNCHANGED heard

Hear ==
    /\ UNCHANGED now
    /\ \E f \in heard' : f.at = now /\ heard' = heard \cup {f}

Next == (Pass \/ Hear) /\ shown' = [s \in Sources |-> Newest(s)']

Spec == Init /\ [][Next]_vars
=============================================================================
