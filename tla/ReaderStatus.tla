---------------------------- MODULE ReaderStatus ----------------------------
(***************************************************************************)
(* Whether the kiosk says "card reader not available": the way of the      *)
(* reader's status from nfc-cardreader/bridge.py over the broker and       *)
(* coffee/management/commands/mqtt_listener.py into the NfcReaderStatus    *)
(* row, while readers are pulled out, processes and the broker restart and *)
(* the database is stopped or replaced.                                    *)
(*                                                                         *)
(* Abstractions.  TRUE is "online".  The bridge has two threads: main()    *)
(* (`bridge`) and paho's network loop, which runs _on_connect              *)
(* (`callback`).  Paho keeps a QoS 1 message until the broker has it; the  *)
(* order of publishing is the order of arrival.  The retry and check       *)
(* intervals are left out: either may run whenever the loop comes round.   *)
(* Card events share the connections but no state and are left out.        *)
(***************************************************************************)
EXTENDS Naturals, Sequences

CONSTANTS
  NONE,       \* no message, no row, nothing to write
  \* bounds of the environment, not of the program:
  MaxPlugs,   \* times the reader is plugged in or pulled out
  MaxFaults   \* crashes, restarts, lost connections, database outages and replacements

ASSUME NoneAssumption == NONE \notin BOOLEAN
ASSUME BoundAssumption == MaxPlugs \in Nat /\ MaxFaults \in Nat

VARIABLES
  plugged,     \* pcscd lists a reader
  \* the bridge
  bridge,      \* where main() stands
  lastStatus,  \* MqttPublisher._last_status
  callback,    \* how far _on_connect is: "idle", "called", "read" or "stored"
  seen,        \* ... and the status it has read
  outgoing,    \* published, not at the broker yet
  link,        \* its connection to the broker
  \* the broker
  broker,      \* up
  will,        \* a session of the bridge is dead and the broker has not noticed
  retained,    \* <MQTT_TOPIC>/status
  \* the listener
  listener,    \* "down", "apart", "connected"
  subscribed,  \* the broker has its connection
  inbox,       \* sent to it, not received yet
  pending, known,
  \* the database
  dbUp, row,
  \* the environment's bounds
  plugs, faults,
  \* history
  overtaken,   \* main() set a status after _on_connect had read the one before it
  replaced     \* the row was replaced since the listener last wrote or checked it

bridgeVars   == <<bridge, lastStatus, callback, seen, outgoing, overtaken>>
brokerVars   == <<broker, will, retained>>
listenerVars == <<listener, pending, known>>
database     == <<dbUp, row, replaced>>
wires        == <<link, subscribed, inbox>>
budget       == <<plugs, faults>>
vars         == <<plugged, bridgeVars, brokerVars, listenerVars, database, wires, budget>>

-----------------------------------------------------------------------------
Values == BOOLEAN \cup {NONE}

BridgeStart ==
  /\ bridge' = "starting" /\ lastStatus' = FALSE /\ callback' = "idle" /\ seen' = FALSE
  /\ outgoing' = <<>> /\ overtaken' = FALSE

Init ==
  /\ plugged \in BOOLEAN
  /\ bridge = "starting" /\ lastStatus = FALSE /\ callback = "idle" /\ seen = FALSE
  /\ outgoing = <<>> /\ link = FALSE /\ overtaken = FALSE
  /\ broker = TRUE /\ will = FALSE /\ retained = NONE
  /\ listener = "apart" /\ subscribed = FALSE /\ inbox = <<>> /\ pending = NONE /\ known = NONE
  /\ dbUp = TRUE /\ row \in Values /\ replaced = FALSE
  /\ plugs = 0 /\ faults = 0

-----------------------------------------------------------------------------
(* The bridge: main(), wait_for_reader(), run_session().                   *)

\* publish_status() stores the status before it publishes it
Sets(from, to, online) ==
  /\ bridge = from /\ bridge' = to
  /\ lastStatus' = online
  /\ overtaken' = (callback \in {"read", "stored"})
  /\ UNCHANGED <<plugged, callback, seen, outgoing, brokerVars, listenerVars, database, wires, budget>>

Publishes(from, to, online) ==
  /\ bridge = from /\ bridge' = to
  /\ outgoing' = Append(outgoing, online)
  /\ UNCHANGED <<plugged, lastStatus, callback, seen, overtaken, brokerVars, listenerVars, database,
                 wires, budget>>

FindReader  == plugged /\ Sets("waiting", "found", TRUE)
SayOnline   == Publishes("found", "session", TRUE)
LoseReader  == ~plugged /\ Sets("session", "lost", FALSE)
SayOffline  == Publishes("lost", "waiting", FALSE)

\* _connect() and paho's reconnects; a session of before is taken over first
Connect ==
  /\ bridge # "down" /\ broker /\ ~link /\ ~will /\ callback = "idle"
  /\ link' = TRUE /\ callback' = "called"
  /\ bridge' = IF bridge = "starting" THEN "waiting" ELSE bridge
  /\ UNCHANGED <<plugged, lastStatus, seen, outgoing, overtaken, brokerVars, listenerVars, database,
                 subscribed, inbox, budget>>

\* Mutant: "blindly claiming online again"
OnConnectClaims ==
  /\ callback = "called" /\ callback' = "read" /\ seen' = TRUE
  /\ UNCHANGED <<plugged, bridge, lastStatus, outgoing, overtaken, brokerVars, listenerVars, database,
                 wires, budget>>

\* _on_connect() calls publish_status() with the status it reads ...
OnConnectReads ==
  /\ callback = "called" /\ callback' = "read" /\ seen' = lastStatus
  /\ UNCHANGED <<plugged, bridge, lastStatus, outgoing, overtaken, brokerVars, listenerVars, database,
                 wires, budget>>

\* ... which stores it again ...
OnConnectSets ==
  /\ callback = "read" /\ callback' = "stored"
  /\ lastStatus' = seen
  /\ UNCHANGED <<plugged, bridge, seen, outgoing, overtaken, brokerVars, listenerVars, database,
                 wires, budget>>

\* ... and publishes it
OnConnectPublishes ==
  /\ callback = "stored" /\ callback' = "idle"
  /\ outgoing' = Append(outgoing, seen)
  /\ UNCHANGED <<plugged, bridge, lastStatus, seen, overtaken, brokerVars, listenerVars, database, wires,
                 budget>>

\* entrypoint.sh: restart: unless-stopped
BridgeStarts ==
  /\ bridge = "down" /\ BridgeStart
  /\ UNCHANGED <<plugged, brokerVars, listenerVars, database, wires, budget>>

-----------------------------------------------------------------------------
(* The broker: one retained message, and the bridge's last will.           *)

Forward(online) ==
  /\ retained' = online
  /\ inbox' = IF subscribed THEN Append(inbox, online) ELSE inbox

StatusArrives ==
  /\ link /\ outgoing # <<>>
  /\ Forward(Head(outgoing)) /\ outgoing' = Tail(outgoing)
  /\ UNCHANGED <<plugged, bridge, lastStatus, callback, seen, overtaken, broker, will, listenerVars,
                 database, link, subscribed, budget>>

WillFires ==
  /\ broker /\ will /\ will' = FALSE
  /\ Forward(FALSE)
  /\ UNCHANGED <<plugged, bridgeVars, broker, listenerVars, database, link, subscribed, budget>>

BrokerStarts ==
  /\ ~broker /\ broker' = TRUE
  /\ UNCHANGED <<plugged, bridgeVars, will, retained, listenerVars, database, wires, budget>>

-----------------------------------------------------------------------------
(* The listener: class ReaderStatus and the loop in Command.handle().      *)

\* flush() with something to write: kept until the write succeeds
Attempt(online) ==
  /\ row' = IF dbUp THEN online ELSE row
  /\ pending' = IF dbUp THEN NONE ELSE online
  /\ replaced' = (replaced /\ ~dbUp)

\* set()
Set(online) == known' = online /\ Attempt(online)

ListenerConnects ==
  /\ listener = "apart" /\ broker
  /\ listener' = "connected" /\ subscribed' = TRUE
  /\ inbox' = IF retained = NONE THEN <<>> ELSE <<retained>>
  /\ UNCHANGED <<plugged, bridgeVars, brokerVars, pending, known, database, link, budget>>

\* connect() raises OSError: no broker
ListenerFindsNoBroker ==
  /\ listener = "apart" /\ ~broker
  /\ Set(FALSE)
  /\ UNCHANGED <<plugged, bridgeVars, brokerVars, listener, dbUp, wires, budget>>

\* Mutant: what the old connection still held is handled on the next one.
ListenerKeepsInbox ==
  /\ listener = "connected" /\ ~subscribed
  /\ listener' = "apart"
  /\ Set(FALSE)
  /\ UNCHANGED <<plugged, bridgeVars, brokerVars, dbUp, link, subscribed, inbox, budget>>

\* on_disconnect(), then the OSError of the loop: it can no longer vouch for the bridge
ListenerNotices ==
  /\ listener = "connected" /\ ~subscribed
  /\ listener' = "apart" /\ inbox' = <<>>
  /\ Set(FALSE)
  /\ UNCHANGED <<plugged, bridgeVars, brokerVars, dbUp, link, subscribed, budget>>

\* on_message()
ListenerReceives ==
  /\ listener = "connected" /\ inbox # <<>>
  /\ inbox' = Tail(inbox)
  /\ Set(Head(inbox))
  /\ UNCHANGED <<plugged, bridgeVars, brokerVars, listener, dbUp, link, subscribed, budget>>

FlushRetries ==
  /\ listener = "connected" /\ pending # NONE
  /\ Attempt(pending)
  /\ UNCHANGED <<plugged, bridgeVars, brokerVars, listener, known, dbUp, wires, budget>>

\* Mutant: only a row that is gone is written again, not an old one.
CheckOnlyGone ==
  /\ listener = "connected" /\ pending = NONE /\ known # NONE /\ dbUp
  /\ row = NONE
  /\ Set(known)
  /\ UNCHANGED <<plugged, bridgeVars, brokerVars, listener, dbUp, wires, budget>>

\* _check(): a row that is gone or old is written again
FlushChecks ==
  /\ listener = "connected" /\ pending = NONE /\ known # NONE /\ dbUp
  /\ row # known
  /\ Set(known)
  /\ UNCHANGED <<plugged, bridgeVars, brokerVars, listener, dbUp, wires, budget>>

ListenerStarts ==
  /\ listener = "down" /\ listener' = "apart"
  /\ UNCHANGED <<plugged, bridgeVars, brokerVars, pending, known, database, wires, budget>>

-----------------------------------------------------------------------------
(* People, Docker and the dashboard.                                       *)

Plug ==
  /\ plugs < MaxPlugs /\ plugs' = plugs + 1
  /\ plugged' = ~plugged
  /\ UNCHANGED <<bridgeVars, brokerVars, listenerVars, database, wires, faults>>

Fault == faults < MaxFaults /\ faults' = faults + 1 /\ UNCHANGED <<plugged, plugs>>

\* pcscd stuck or dead: the container restarts
BridgeDies ==
  /\ Fault /\ bridge # "down"
  /\ bridge' = "down" /\ lastStatus' = FALSE /\ callback' = "idle" /\ seen' = FALSE
  /\ outgoing' = <<>> /\ overtaken' = FALSE
  /\ link' = FALSE /\ will' = (will \/ link)
  /\ UNCHANGED <<broker, retained, listenerVars, database, subscribed, inbox>>

LinkDrops ==
  /\ Fault /\ link
  /\ link' = FALSE /\ will' = TRUE
  /\ UNCHANGED <<bridgeVars, broker, retained, listenerVars, database, subscribed, inbox>>

\* mosquitto.conf: persistence false
BrokerStops ==
  /\ Fault /\ broker
  /\ broker' = FALSE /\ will' = FALSE /\ retained' = NONE
  /\ link' = FALSE /\ subscribed' = FALSE
  /\ UNCHANGED <<bridgeVars, listenerVars, database, inbox>>

ListenerDrops ==
  /\ Fault /\ subscribed
  /\ subscribed' = FALSE
  /\ UNCHANGED <<bridgeVars, brokerVars, listenerVars, database, link, inbox>>

ListenerDies ==
  /\ Fault /\ listener # "down"
  /\ listener' = "down" /\ pending' = NONE /\ known' = NONE
  /\ subscribed' = FALSE /\ inbox' = <<>>
  /\ UNCHANGED <<bridgeVars, brokerVars, database, link>>

DatabaseStops ==
  /\ Fault /\ dbUp
  /\ dbUp' = FALSE
  /\ UNCHANGED <<bridgeVars, brokerVars, listenerVars, row, replaced, wires>>

DatabaseStarts ==
  /\ ~dbUp /\ dbUp' = TRUE
  /\ UNCHANGED <<plugged, bridgeVars, brokerVars, listenerVars, row, replaced, wires, budget>>

\* a restore, an import: the row of another time, or none
DatabaseReplaced ==
  /\ Fault /\ dbUp
  /\ row' \in Values /\ replaced' = TRUE
  /\ UNCHANGED <<bridgeVars, brokerVars, listenerVars, dbUp, wires>>

Bridge   == FindReader \/ SayOnline \/ LoseReader \/ SayOffline \/ BridgeStarts
Network  == Connect \/ OnConnectReads \/ OnConnectSets \/ OnConnectPublishes
Broker   == StatusArrives \/ WillFires \/ BrokerStarts
Listener == ListenerConnects \/ ListenerFindsNoBroker \/ ListenerNotices \/ ListenerReceives
            \/ FlushRetries \/ FlushChecks \/ ListenerStarts
Faults   == BridgeDies \/ LinkDrops \/ BrokerStops \/ ListenerDrops \/ ListenerDies
            \/ DatabaseStops \/ DatabaseReplaced

Next == Bridge \/ Network \/ Broker \/ Listener \/ DatabaseStarts \/ Plug \/ Faults

Spec == Init /\ [][Next]_vars

\* Docker starts again what died, both clients keep reconnecting, the loops go round.
FairSpec ==
  Spec /\ WF_vars(Bridge) /\ WF_vars(Network) /\ WF_vars(Broker) /\ WF_vars(Listener)
       /\ WF_vars(FlushRetries) /\ WF_vars(DatabaseStarts)

-----------------------------------------------------------------------------
(* Properties.                                                             *)

BridgeTyped ==
  /\ bridge \in {"down", "starting", "waiting", "found", "session", "lost"}
  /\ lastStatus \in BOOLEAN /\ seen \in BOOLEAN
  /\ callback \in {"idle", "called", "read", "stored"}
  /\ outgoing \in Seq(BOOLEAN) /\ overtaken \in BOOLEAN
BrokerTyped ==
  /\ broker \in BOOLEAN /\ retained \in Values
  /\ will \in BOOLEAN /\ link \in BOOLEAN /\ (will => ~link)
ListenerTyped ==
  /\ listener \in {"down", "apart", "connected"}
  /\ subscribed \in BOOLEAN /\ inbox \in Seq(BOOLEAN)
  /\ listener # "connected" => inbox = <<>> /\ ~subscribed
StatusTyped ==
  /\ pending \in Values /\ known \in Values /\ row \in Values
  /\ known = NONE => pending = NONE
RestTyped ==
  /\ plugged \in BOOLEAN /\ dbUp \in BOOLEAN /\ replaced \in BOOLEAN
  /\ plugs \in Nat /\ faults \in Nat
TypeOK == BridgeTyped /\ BrokerTyped /\ ListenerTyped /\ StatusTyped /\ RestTyped

\* Nothing is under way between the reader and the listener.
AtRest ==
  /\ bridge = IF plugged THEN "session" ELSE "waiting"
  /\ link /\ callback = "idle" /\ outgoing = <<>>
  /\ listener = "connected" /\ subscribed /\ inbox = <<>>

Shown == row = TRUE

\* Whatever was restarted, cut or pulled out before, in whatever order the two connections came
\* back: once all messages are through and written, the kiosk says of the reader what is true.
\* (Not when the bridge's two threads overtook each other, see RepublishesReality.)
Settled == AtRest /\ pending = NONE /\ ~replaced /\ ~overtaken => Shown = plugged

\* ... and it gets there by itself: "not available" with a working reader does not stay, neither
\* after a database that was down nor after one that was replaced (class ReaderStatus).
ReaderShown == <>[](overtaken \/ Shown = plugged)

=============================================================================
