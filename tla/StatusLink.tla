------------------------------ MODULE StatusLink ------------------------------
(***************************************************************************)
(* The status of the station on its way from the firmware's network module *)
(* (firmware/src/net/wifi_mqtt.cpp) through the MQTT broker to the         *)
(* server's station_status table (server/internal/ingest).  The node       *)
(* publishes a retained "online" message when it connects and once more    *)
(* when its clock is set, and leaves a retained "offline" will with the    *)
(* broker.  Power, WiFi, broker and server fail independently.             *)
(*                                                                         *)
(* The broker is not part of the repository: it is modelled as MQTT 3.1.1  *)
(* prescribes for the options both clients use (QoS 0 publishes, a QoS 1   *)
(* will, one client id per node, a persistent session for the server).     *)
(***************************************************************************)
EXTENDS Integers, Sequences, SequencesExt

CONSTANTS
    MaxBoots,       \* bound on power-ups of the node
    MaxFaults       \* bound on power losses, link losses and crashes

ASSUME StatusLinkAssumption == MaxBoots \in Nat /\ MaxFaults \in Nat

VARIABLES
    \* the node
    power,          \* it runs
    boot,           \* how many times it has been powered up
    wifi,           \* WiFi.status() = WL_CONNECTED
    synced,         \* SNTP has set the clock since power-up
    bootIso,        \* g_bootIso holds the real boot time
    statusFinalized,\* g_statusFinalized
    connected,      \* mqtt.connected(): what the node believes
    \* the broker
    brokerUp,
    tcp,            \* the node's connection really carries data
    toBroker,       \* messages on that connection
    sessions,       \* sessions of the node, each with its will
    retained,       \* the retained message of the status topic
    queued,         \* kept for the server's session while it is away
    \* the server
    serverConnected,
    subscribed,     \* the session of wtwlt-server holds the subscriptions
    resubscribe,    \* OnConnect has still to subscribe on this connection
    toServer,       \* messages on the server's connection
    unacked,        \* handled, but not known by the broker to be
    status,         \* the row of station_status
    eventTimes,     \* the kinds of `ts` in table readings
    \* what the properties need to remember
    faults,
    willLost,       \* the broker crashed with the will of the last session
    upsertFailed    \* the last status message handled was not stored

node    == <<power, boot, wifi, synced, bootIso, statusFinalized, connected>>
broker  == <<brokerUp, tcp, toBroker, sessions, retained, queued>>
server  == <<serverConnected, subscribed, resubscribe, toServer, unacked,
             status, eventTimes>>
hist    == <<faults, willLost, upsertFailed>>
vars    == <<node, broker, server, hist>>

\* A status message: the power-up that made it, and whether its boot_ts is the
\* time of that power-up or the epoch string, which names none.
Message == [online : BOOLEAN, boot : Nat, epoch : BOOLEAN, qos : {0, 1}]
None    == [online |-> FALSE, boot |-> 0, epoch |-> TRUE, qos |-> 2]

LinkTypeOK ==
    /\ power \in BOOLEAN /\ wifi \in BOOLEAN /\ synced \in BOOLEAN
    /\ bootIso \in BOOLEAN /\ statusFinalized \in BOOLEAN /\ connected \in BOOLEAN
    /\ boot \in Nat
    /\ brokerUp \in BOOLEAN /\ tcp \in BOOLEAN
    /\ toBroker \in Seq(Message)
    /\ sessions \in SUBSET [client : Nat, will : Message]
    /\ retained \in Message \cup {None}

TypeOK ==
    /\ LinkTypeOK
    /\ queued \in Seq(Message)
    /\ serverConnected \in BOOLEAN /\ subscribed \in BOOLEAN
    /\ resubscribe \in BOOLEAN
    /\ toServer \in Seq(Message) /\ unacked \in Seq(Message)
    /\ status \in Message \cup {None}
    /\ eventTimes \subseteq {"epoch", "clock", "arrival"}
    /\ faults \in Nat /\ willLost \in BOOLEAN /\ upsertFailed \in BOOLEAN

-----------------------------------------------------------------------------
(* Firmware *)

Fault == faults < MaxFaults /\ faults' = faults + 1

Init ==
    /\ power = FALSE /\ boot = 0 /\ wifi = FALSE /\ synced = FALSE
    /\ bootIso = FALSE /\ statusFinalized = FALSE /\ connected = FALSE
    /\ brokerUp = TRUE /\ tcp = FALSE /\ toBroker = <<>> /\ sessions = {}
    /\ retained = None /\ queued = <<>>
    /\ serverConnected = FALSE /\ subscribed = FALSE /\ resubscribe = FALSE
    /\ toServer = <<>> /\ unacked = <<>>
    /\ status = None /\ eventTimes = {}
    /\ faults = 0 /\ willLost = FALSE /\ upsertFailed = FALSE

\* Power-up: every static is reset.
PowerUp ==
    /\ ~power
    /\ boot < MaxBoots
    /\ power' = TRUE
    /\ boot' = boot + 1
    /\ synced' = FALSE /\ bootIso' = FALSE
    /\ statusFinalized' = FALSE /\ connected' = FALSE
    /\ UNCHANGED <<wifi, broker, server, hist>>

\* The connection is gone without a word to either end: what is on it is lost.
CutConnection == tcp' = FALSE /\ toBroker' = <<>>

PowerLoss ==
    /\ power
    /\ Fault
    /\ power' = FALSE
    /\ wifi' = FALSE
    /\ connected' = FALSE
    /\ CutConnection
    /\ UNCHANGED <<boot, synced, bootIso, statusFinalized, brokerUp, sessions,
                   retained, queued, server, willLost, upsertFailed>>

\* The network drops the connection; the node may keep WiFi or lose it.
LinkLoss ==
    /\ wifi
    /\ Fault
    /\ wifi' \in BOOLEAN
    /\ CutConnection
    /\ UNCHANGED <<power, boot, synced, bootIso, statusFinalized, connected,
                   brokerUp, sessions, retained, queued, server, willLost, upsertFailed>>

\* ensureWifi(), called on every pass until WiFi is up.
EnsureWifi ==
    /\ power
    /\ ~wifi
    /\ wifi' = TRUE
    /\ UNCHANGED <<power, boot, synced, bootIso, statusFinalized, connected,
                   broker, server, hist>>

\* configTime() has started SNTP; an answer sets the clock.
SntpSync ==
    /\ power /\ wifi /\ ~synced
    /\ synced' = TRUE
    /\ UNCHANGED <<power, boot, wifi, bootIso, statusFinalized, connected,
                   broker, server, hist>>

\* Deliberate bug: the boot time is not looked for again once connected.
UpdateBootIsoNever == bootIso' = bootIso

\* updateBootIso(): the boot time is known once the clock is set.
UpdateBootIso == bootIso' = (bootIso \/ synced)

\* Deliberate bug: the will is built like the status that follows it.
StatusAlwaysOnline(online) ==
    [online |-> TRUE, boot |-> boot, epoch |-> ~bootIso',
     qos |-> IF online THEN 0 ELSE 1]

\* buildStatus() with bootTs(), after updateBootIso(): the cached boot time, or
\* the epoch string.
Status(online) ==
    [online |-> online, boot |-> boot, epoch |-> ~bootIso',
     qos |-> IF online THEN 0 ELSE 1]

\* publishStatus(online): a QoS 0 publish on the connection; what is written to
\* a dead connection is lost, and the result is not looked at.
PublishStatus(stream, live) ==
    IF live THEN Append(stream, Status(TRUE)) ELSE stream

\* Deliberate bug: a random client id for every power-up.
ClientIdPerBoot == boot
ClientId == 0       \* STATION_ID

-----------------------------------------------------------------------------
(* Broker *)

\* Messages the broker publishes, in order, on the retained status topic.
Retain(ms) == retained' = IF ms = <<>> THEN retained ELSE Last(ms)

\* ... and routes to the server: at once when it is connected; when only its
\* session is there, QoS 1 messages are queued and QoS 0 ones dropped.
QoS1(ms) ==
    LET kept[i \in 0..Len(ms)] ==
            IF i = 0 THEN <<>>
            ELSE IF ms[i].qos = 1 THEN Append(kept[i-1], ms[i]) ELSE kept[i-1]
    IN  kept[Len(ms)]

Route(ms) ==
    /\ Retain(ms)
    /\ toServer' = IF serverConnected /\ subscribed THEN toServer \o ms
                                                    ELSE toServer
    /\ queued' = IF ~serverConnected /\ subscribed THEN queued \o QoS1(ms)
                                                   ELSE queued

\* Messages of the node that reach the broker one at a time.
BrokerReceive ==
    /\ brokerUp /\ tcp
    /\ toBroker # <<>>
    /\ toBroker' = Tail(toBroker)
    /\ Route(<<Head(toBroker)>>)
    /\ UNCHANGED <<node, brokerUp, tcp, sessions, serverConnected, subscribed,
                   resubscribe, unacked, status, eventTimes, hist>>

\* Keep-alive runs out on a connection that carries nothing: the will is
\* published.
BrokerDetect(s) ==
    /\ brokerUp
    /\ s \in sessions
    /\ ~(tcp /\ s.client = ClientId)
    /\ sessions' = sessions \ {s}
    /\ Route(<<s.will>>)
    /\ UNCHANGED <<node, brokerUp, tcp, toBroker, serverConnected, subscribed,
                   resubscribe, unacked, status, eventTimes, hist>>

\* The will of a client's old session, if it has one.
WillOf(old) == IF old = {} THEN <<>> ELSE <<(CHOOSE s \in old : TRUE).will>>

\* mqttConnect() while WiFi is up, from begin() or from loop() when the backoff
\* has passed.  The broker closes an older session of the same client, which
\* publishes its will, before it accepts the new one.
MqttConnect ==
    /\ power /\ wifi /\ ~connected
    /\ UpdateBootIso
    /\ IF brokerUp
       THEN LET old == {s \in sessions : s.client = ClientId}
                new == [client |-> ClientId, will |-> Status(FALSE)]
            IN  /\ connected' = TRUE
                /\ tcp' = TRUE
                /\ sessions' = (sessions \ old) \cup {new}
                /\ Route(WillOf(old))
                /\ toBroker' = PublishStatus(<<>>, TRUE)
                /\ willLost' = FALSE
       ELSE UNCHANGED <<connected, tcp, sessions, retained, queued, toServer,
                        toBroker, willLost>>
    /\ UNCHANGED <<power, boot, wifi, synced, statusFinalized, brokerUp,
                   serverConnected, subscribed, resubscribe, unacked, status,
                   eventTimes, faults, upsertFailed>>

\* loop() while connected: once the boot time is known, the status is published
\* again and the matter is settled, whether or not the publish got through.
FinalizeStatus ==
    /\ power /\ connected
    /\ synced \/ bootIso
    /\ ~statusFinalized
    /\ UpdateBootIso
    /\ statusFinalized' = TRUE
    /\ toBroker' = PublishStatus(toBroker, tcp)
    /\ UNCHANGED <<power, boot, wifi, synced, connected, brokerUp, tcp,
                   sessions, retained, queued, server, hist>>

\* mqtt.connected() finds the connection dead.
NodeDetect ==
    /\ power /\ connected /\ ~tcp
    /\ connected' = FALSE
    /\ UNCHANGED <<power, boot, wifi, synced, bootIso, statusFinalized,
                   broker, server, hist>>

\* The server's connection ends; what was not acknowledged is sent again, and
\* QoS 0 messages on the way are lost.
DropServer ==
    /\ serverConnected' = FALSE
    /\ resubscribe' = FALSE
    /\ toServer' = <<>>
    /\ unacked' = <<>>
    /\ queued' = unacked \o QoS1(toServer) \o queued

\* The broker goes down.  Retained messages and the server's session are on
\* its disk; connections, and the wills that go with them, are lost.
BrokerCrash ==
    /\ brokerUp
    /\ Fault
    /\ brokerUp' = FALSE
    /\ CutConnection
    /\ sessions' = {}
    /\ willLost' = (willLost \/ sessions # {})
    /\ DropServer
    /\ UNCHANGED <<node, retained, subscribed, status, eventTimes, upsertFailed>>

BrokerStart ==
    /\ ~brokerUp
    /\ brokerUp' = TRUE
    /\ UNCHANGED <<node, tcp, toBroker, sessions, retained, queued, server,
                   hist>>

-----------------------------------------------------------------------------
(* Server *)

\* The paho client connects (ConnectRetry, AutoReconnect; CleanSession(false)):
\* the broker sends what it has queued, and the OnConnect handler is due.
ServerConnect ==
    /\ brokerUp /\ ~serverConnected
    /\ serverConnected' = TRUE
    /\ resubscribe' = TRUE
    /\ toServer' = queued
    /\ queued' = <<>>
    /\ UNCHANGED <<node, brokerUp, tcp, toBroker, sessions, retained, subscribed,
                   unacked, status, eventTimes, hist>>

\* Deliberate bug: subscribe only when the session does not exist yet.
SubscribeOnce ==
    /\ serverConnected /\ resubscribe
    /\ resubscribe' = FALSE
    /\ subscribed' = TRUE
    /\ toServer' = IF retained = None \/ subscribed THEN toServer
                                                    ELSE Append(toServer, retained)
    /\ UNCHANGED <<node, broker, serverConnected, unacked, status, eventTimes,
                   hist>>

\* Deliberate bug: an answer though nothing is retained.
SubscribeUnchecked ==
    /\ serverConnected /\ resubscribe
    /\ resubscribe' = FALSE
    /\ subscribed' = TRUE
    /\ toServer' = Append(toServer, retained)
    /\ UNCHANGED <<node, broker, serverConnected, unacked, status, eventTimes,
                   hist>>

\* subscribe(), on every connection: the broker answers with the retained
\* message.
Subscribe ==
    /\ serverConnected /\ resubscribe
    /\ resubscribe' = FALSE
    /\ subscribed' = TRUE
    /\ toServer' = IF retained = None THEN toServer
                                      ELSE Append(toServer, retained)
    /\ UNCHANGED <<node, broker, serverConnected, unacked, status, eventTimes,
                   hist>>

\* UpsertStatus: the row is what the last message said.  The statement may fail
\* (the database is busy, the disk is full); the error is only logged.
UpsertStatus(m, ok) ==
    /\ upsertFailed' = ~ok
    /\ IF ok THEN status' = m /\ UNCHANGED faults
             ELSE Fault /\ UNCHANGED status

\* onStatus: messages are handled one at a time in the order they come, and
\* acknowledged whether or not they were stored.
OnStatus(ok) ==
    /\ serverConnected
    /\ toServer # <<>>
    /\ UpsertStatus(Head(toServer), ok)
    /\ toServer' = Tail(toServer)
    /\ unacked' = unacked \o QoS1(<<Head(toServer)>>)
    /\ UNCHANGED <<node, broker, serverConnected, subscribed, resubscribe,
                   eventTimes, willLost>>

\* Acknowledgements reach the broker.
Acknowledge ==
    /\ unacked # <<>>
    /\ unacked' = <<>>
    /\ UNCHANGED <<node, broker, serverConnected, subscribed, resubscribe,
                   toServer, status, eventTimes, hist>>

\* The server process stops, or its connection is lost.
ServerLoss ==
    /\ serverConnected
    /\ Fault
    /\ DropServer
    /\ UNCHANGED <<node, brokerUp, tcp, toBroker, sessions, retained,
                   subscribed, status, eventTimes, willLost, upsertFailed>>

-----------------------------------------------------------------------------
(* Timestamps of readings *)

\* isoNow(): the clock, or the epoch string before SNTP has set it.
IsoNow == IF synced THEN "clock" ELSE "epoch"

\* model.EventTime: a timestamp that parses is taken as it is.
EventTime(ts) == IF ts = "" THEN "arrival" ELSE ts

\* publishReadings to onReadings: a QoS 0 message that arrives only when every
\* hop is up.
DeliverReading ==
    /\ power /\ connected /\ tcp
    /\ brokerUp /\ serverConnected /\ subscribed
    /\ eventTimes' = eventTimes \cup {EventTime(IsoNow)}
    /\ UNCHANGED <<node, broker, serverConnected, subscribed, resubscribe,
                   toServer, unacked, status, hist>>

-----------------------------------------------------------------------------
Node   == EnsureWifi \/ SntpSync \/ MqttConnect \/ FinalizeStatus \/ NodeDetect
Broker == BrokerReceive \/ (\E s \in sessions : BrokerDetect(s)) \/ BrokerStart
HandleStatus == \E ok \in BOOLEAN : OnStatus(ok)
Server == ServerConnect \/ Subscribe \/ HandleStatus \/ Acknowledge
Faults == PowerLoss \/ LinkLoss \/ BrokerCrash \/ ServerLoss

Next == PowerUp \/ Node \/ Broker \/ Server \/ Faults \/ DeliverReading

Spec == Init /\ [][Next]_vars

\* loop() runs for ever and retries; the broker serves its connections; the
\* paho client reconnects and handles what arrives.  Faults and power-ups are
\* not fair.
Fairness ==
    /\ WF_vars(EnsureWifi) /\ WF_vars(SntpSync) /\ WF_vars(MqttConnect)
    /\ WF_vars(FinalizeStatus) /\ WF_vars(NodeDetect)
    /\ WF_vars(Broker) /\ WF_vars(ServerConnect)
    /\ WF_vars(Subscribe) /\ WF_vars(HandleStatus)

FairSpec == Spec /\ Fairness

-----------------------------------------------------------------------------
(***************************************************************************)
(* Properties                                                              *)
(***************************************************************************)

\* The inductive invariant: the node's view and the broker's agree as far as
\* they must.  A live connection is one the node believes in and the broker has
\* the one session for, with a will of this power-up; a settled status had a
\* real boot time; every will and every message names no later power-up.
LinkInv ==
    /\ LinkTypeOK
    /\ connected => power
    /\ tcp => connected /\ brokerUp
    /\ statusFinalized => bootIso
    /\ ~brokerUp => sessions = {} /\ ~serverConnected
    /\ ~serverConnected => toServer = <<>> /\ unacked = <<>> /\ ~resubscribe
    /\ \A s \in sessions : s.client = ClientId /\ ~s.will.online
    /\ \A s, t \in sessions : s = t
    /\ tcp => \E s \in sessions : s.will.boot = boot
    /\ ~tcp => toBroker = <<>>
    /\ \A i \in DOMAIN toBroker : toBroker[i].online /\ toBroker[i].boot = boot
    /\ \A s \in sessions : retained.boot <= s.will.boot /\ s.will.boot <= boot
    /\ retained.boot <= boot

\* Once the server has resubscribed and handled what was sent to it, its row is
\* the broker's retained status, whatever was dropped, queued, sent twice or
\* overtaken while it was away: wifi_mqtt.cpp publishes with QoS 0, so only the
\* subscription on every OnConnect (ingest.go) brings the row back in line.  An
\* upsert that fails is the exception: nothing stores that message again.
StatusIsRetained ==
    serverConnected /\ subscribed /\ ~resubscribe /\ retained # None
        => IF toServer # <<>> THEN Last(toServer) = retained
                              ELSE status = retained \/ upsertFailed

\* While the node is really connected and the broker has taken what it sent,
\* the retained status says online: no will of an earlier connection, detected
\* late, overwrites it.
RetainedFollowsNode ==
    tcp /\ toBroker = <<>> => retained.online /\ retained.boot = boot

\* The retained status never goes back to one of an earlier power-up, though the
\* wills of several may still be with the broker.
BootOrder == [][retained.boot <= retained'.boot]_vars

\* The link, seen as a board: only the node itself, really connected, turns its
\* status to online and only for the present power-up; no will does while it is
\* connected; and no message that is queued, overtaken or sent again shows a
\* power-up that the topic has not named.
SeenAs(m) == [online |-> m.online, boot |-> m.boot]
Board == INSTANCE StatusBoard WITH
            live <- tcp, board <- SeenAs(retained), row <- SeenAs(status)
ImplementsBoard == Board!Spec

\* A node that stays up is eventually shown online with its real boot time,
\* though a publish may be lost while loop() takes the matter as settled, unless
\* the last upsert failed.
EventuallyOnline ==
    <>[]power
        => <>[](\/ upsertFailed
                \/ status.online /\ status.boot = boot /\ ~status.epoch)

\* A node that stays down is eventually shown offline, unless the broker
\* crashed with its will or the last upsert failed.
EventuallyOffline ==
    <>[]~power => <>[](~status.online \/ willLost \/ upsertFailed)

\* README.md: "the server stamps arrival time if the node's clock isn't set".
ServerStampsArrival == "epoch" \notin eventTimes
=============================================================================
