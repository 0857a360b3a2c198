--------------------------- MODULE MqttConnection ---------------------------
(***************************************************************************)
(* The MQTT client of src/mqtt_app.c: which broker it uses (the endpoint   *)
(* from the discovery server, from NVS, or the default), how               *)
(* mqtt_connection_maintenance starts, restarts and reconnects it, what    *)
(* its events do to the flags, and the app's topics it is subscribed to    *)
(* under the hardware id and under the unit's serial number.               *)
(*                                                                         *)
(* Three tasks meet here: mqtt_task, which runs the maintenance every      *)
(* 200 ms, the client's own task, which calls the event handler, and the   *)
(* unit task, which asks for the subscriptions when the unit is found.     *)
(* A handler runs as one step; the maintenance is cut where it waits for   *)
(* the network or writes to flash.  Time is relative: a retry or the       *)
(* hourly discovery is pending or due.                                     *)
(***************************************************************************)
EXTENDS Integers, FiniteSets

CONSTANTS
    Brokers, Home,     \* the brokers, and the one of MQTT_DEFAULT_HOST
    Serials,           \* serial numbers that the image may hold
    FailThreshold,     \* MQTT_DISCOVERY_FAIL_THRESHOLD
    MaxNews,           \* bound on the changes of the announced endpoint
    MaxSerials,        \* bound on the changes of the serial number in the image
    MaxFaults          \* bound on outages, restarts, failed calls

NoName == "none"
HwId == "hw"

ASSUME MqttAssumption ==
    /\ Home \in Brokers /\ NoName \notin Brokers \cup Serials /\ HwId \notin Serials
    /\ FailThreshold \in Nat \ {0}
    /\ {MaxNews, MaxSerials, MaxFaults} \subseteq Nat

VARIABLES
    client,                        \* the handle, by what its task is doing; "none" is NULL
    s_mqtt_started, s_mqtt_connected, is_mqtt_ready,
    s_subscribe_counter,
    s_mqtt_consecutive_failures,   \* counted up to the threshold
    retry,                         \* s_next_mqtt_retry_tick: "none", "pending" or "past"
    hour,                          \* an hour has passed since s_last_discovery_tick
    s_selected_endpoint, s_active_endpoint,
    stored,                        \* the endpoint's keys in NVS
    pc, reason,                    \* mqtt_connection_maintenance
    s_active_serial, s_last_serial_subscribed, s_hw_id_subscribed,
    serial,                        \* SerialString in the image
    topics, acks,                  \* at the broker: topics subscribed; SUBACKs on their way
    Wifi_Connected_Flag, served, announced, up,
    early, unheeded,               \* history, for the properties
    news, changes, outages, losses

flags == <<s_mqtt_started, s_mqtt_connected, is_mqtt_ready, s_subscribe_counter>>
backoff == <<s_mqtt_consecutive_failures, retry>>
endpoints == <<s_selected_endpoint, s_active_endpoint>>
names == <<s_active_serial, s_last_serial_subscribed, s_hw_id_subscribed, topics, acks, unheeded>>
maintenance == <<pc, reason, hour, stored>>
network == <<Wifi_Connected_Flag, served, announced, up>>
bounds == <<news, changes, outages, losses>>
vars == <<client, flags, backoff, endpoints, names, maintenance, network, serial, early, bounds>>

-----------------------------------------------------------------------------
\* A broker's account has the broker's name; the default endpoint has none.
Endpoint(b, u) == [host |-> b, user |-> u]
Endpoints == [host : Brokers, user : Brokers \cup {NoName}]
Default == Endpoint(Home, NoName)
Announcements == {e \in Endpoints : e.user \in {e.host, NoName}}
NothingStored == Endpoint(NoName, NoName)

\* LoadMqttEndpointFromNvs, else the default.
LoadedOrDefault == IF stored.host = NoName THEN Default ELSE stored

Init ==
    /\ client = "none" /\ s_mqtt_started = FALSE
    /\ s_mqtt_connected = FALSE /\ is_mqtt_ready = FALSE /\ s_subscribe_counter = 0
    /\ s_mqtt_consecutive_failures = 0 /\ retry = "none" /\ hour = FALSE
    /\ stored \in {NothingStored} \cup {e \in Endpoints : e.user = e.host}
    /\ s_selected_endpoint = LoadedOrDefault /\ s_active_endpoint = NothingStored
    /\ pc = "rest" /\ reason = "none"
    /\ serial = NoName /\ s_active_serial = NoName
    /\ s_last_serial_subscribed = NoName /\ s_hw_id_subscribed = FALSE
    /\ topics = {} /\ acks = 0
    /\ Wifi_Connected_Flag = FALSE /\ served = TRUE
    /\ announced \in {e \in Announcements : e.user # NoName} /\ up = Brokers
    /\ early = FALSE /\ unheeded = FALSE
    /\ news = 0 /\ changes = 0 /\ outages = 0 /\ losses = 0

MayFail == outages + losses < MaxFaults
Loss == MayFail /\ losses' = losses + 1 /\ UNCHANGED <<news, changes, outages>>
Outage == MayFail /\ outages' = outages + 1 /\ UNCHANGED <<news, changes, losses>>

-----------------------------------------------------------------------------
(* Subscriptions *)

\* mqtt_update_active_serial_from_eeprom by a caller that does nothing more.
Notice ==
    /\ s_active_serial' = serial
    /\ unheeded' = (unheeded \/ serial # s_active_serial)

\* mqtt_refresh_app_subscriptions, from the serial number in the image and what is
\* taken for subscribed; that the client is not connected, and subscribes to nothing,
\* goes unnoticed.  A topic stands for the two of an identity, with a SUBACK each.
Refresh(number, hwSubscribed, last, connected) ==
    LET old == {last} \ {NoName, number}
        new == (IF hwSubscribed THEN {} ELSE {HwId}) \cup ({number} \ {NoName, last})
    IN  /\ s_active_serial' = number /\ unheeded' = FALSE
        /\ s_hw_id_subscribed' = TRUE /\ s_last_serial_subscribed' = number
        /\ topics' = IF connected THEN (topics \ old) \cup new ELSE topics
        /\ acks' = IF connected THEN acks + 2 * Cardinality(new) ELSE acks

RefreshNow == Refresh(serial, s_hw_id_subscribed, s_last_serial_subscribed, client = "connected")

NoticeOnly == Notice /\ UNCHANGED <<s_last_serial_subscribed, s_hw_id_subscribed, topics, acks>>

\* The unit task, when the unit is found.
mqtt_subscribe_app_topics ==
    /\ \/ client = "none" /\ NoticeOnly
       \/ client # "none" /\ RefreshNow
    /\ UNCHANGED <<client, flags, backoff, endpoints, maintenance, network, serial, early, bounds>>

-----------------------------------------------------------------------------
(* mqtt_connection_maintenance, in mqtt_task *)

Failed ==
    /\ s_mqtt_consecutive_failures' =
           IF s_mqtt_consecutive_failures = FailThreshold THEN FailThreshold
           ELSE s_mqtt_consecutive_failures + 1
    /\ retry' = "pending"   \* mqtt_compute_next_retry

Goto(next, why) == pc' = next /\ reason' = why /\ UNCHANGED <<hour, stored>>
Rest == Goto("rest", "none")

frame == <<client, flags, backoff, endpoints, network, serial, early, bounds>>

Off ==
    /\ ~Wifi_Connected_Flag
    /\ NoticeOnly /\ Rest

\* Mutant: the first start waits for the time of a retry.
NotStartedYet ==
    /\ Wifi_Connected_Flag /\ ~s_mqtt_started
    /\ NoticeOnly
    /\ IF retry = "past" THEN Goto("discover", "initial-start") ELSE Rest

NotStarted ==
    /\ Wifi_Connected_Flag /\ ~s_mqtt_started
    /\ NoticeOnly /\ Goto("discover", "initial-start")

Working ==
    /\ Wifi_Connected_Flag /\ s_mqtt_started /\ (is_mqtt_ready \/ s_mqtt_connected)
    /\ IF serial # s_active_serial THEN RefreshNow ELSE NoticeOnly
    /\ IF hour THEN Goto("discover", "periodic-refresh") ELSE Rest

\* The retry is due: discovery is tried again when it is due too, or after failures.
Broken ==
    /\ Wifi_Connected_Flag /\ s_mqtt_started /\ ~is_mqtt_ready /\ ~s_mqtt_connected
    /\ NoticeOnly
    /\ \/ retry = "pending" /\ Rest
       \/ /\ retry # "pending" /\ (hour \/ s_mqtt_consecutive_failures = FailThreshold)
          /\ Goto("discover", "reconnect")
       \/ /\ retry # "pending" /\ ~hour /\ s_mqtt_consecutive_failures < FailThreshold
          /\ Goto("reconnect", "none")

Maintain ==
    /\ pc = "rest"
    /\ Off \/ NotStarted \/ Working \/ Broken
    /\ UNCHANGED frame

\* What follows a discovery.
AfterDiscovery(updated, selected) ==
    \/ /\ reason = "initial-start" \/ (updated /\ selected # s_active_endpoint)
       /\ pc' = "start" /\ reason' = "none"
    \/ /\ reason # "initial-start" /\ ~(updated /\ selected # s_active_endpoint)
       /\ pc' = (IF reason = "reconnect" THEN "reconnect" ELSE "rest") /\ reason' = "none"

\* mqtt_try_endpoint_discovery up to the commits.  An answer without credentials
\* keeps those in use, whichever broker they were for.
Fetched == IF announced.user # NoName THEN announced
           ELSE Endpoint(announced.host, s_selected_endpoint.user)

Discover ==
    /\ pc = "discover"
    /\ \/ /\ ~Wifi_Connected_Flag
          /\ AfterDiscovery(FALSE, s_selected_endpoint)
          /\ UNCHANGED <<s_selected_endpoint, hour, bounds>>
       \/ /\ Wifi_Connected_Flag /\ served
          /\ s_selected_endpoint' = Fetched
          /\ pc' = "save_host" /\ hour' = FALSE
          /\ UNCHANGED <<reason, bounds>>
       \/ /\ Wifi_Connected_Flag
          /\ IF served THEN Loss ELSE UNCHANGED bounds
          /\ s_selected_endpoint' = LoadedOrDefault
          /\ AfterDiscovery(FALSE, LoadedOrDefault)
          /\ hour' = FALSE
    /\ UNCHANGED <<client, flags, backoff, s_active_endpoint, stored, names, network, serial, early>>

\* SaveMqttEndpointToNvs: key after key, here the host's and the account's.
SaveHost ==
    /\ pc = "save_host"
    /\ \/ /\ stored' = [stored EXCEPT !.host = s_selected_endpoint.host]
          /\ pc' = "save_user"
          /\ UNCHANGED <<reason, bounds>>
       \/ /\ Loss /\ AfterDiscovery(TRUE, s_selected_endpoint)
          /\ UNCHANGED stored
    /\ UNCHANGED <<client, flags, backoff, endpoints, names, hour, network, serial, early>>

\* Mutant: the account is not saved.
SaveNoUser ==
    /\ pc = "save_user"
    /\ AfterDiscovery(TRUE, s_selected_endpoint)
    /\ UNCHANGED <<client, flags, backoff, endpoints, names, hour, stored, network, serial, early, bounds>>

SaveUser ==
    /\ pc = "save_user"
    /\ \/ stored' = s_selected_endpoint /\ UNCHANGED bounds
       \/ Loss /\ UNCHANGED stored
    /\ AfterDiscovery(TRUE, s_selected_endpoint)
    /\ UNCHANGED <<client, flags, backoff, endpoints, names, hour, network, serial, early>>

\* Mutant: a client that could not be started counts as started.
StartAnyway ==
    /\ pc = "start"
    /\ topics' = {} /\ acks' = 0 /\ early' = FALSE
    /\ \/ /\ client' = "connecting"
          /\ s_active_endpoint' = s_selected_endpoint
          /\ Goto("started", "none")
          /\ UNCHANGED <<backoff, bounds>>
       \/ /\ Loss /\ client' = "none"
          /\ Failed /\ Rest
          /\ UNCHANGED s_active_endpoint
    /\ UNCHANGED <<s_mqtt_started, s_mqtt_connected, is_mqtt_ready, s_subscribe_counter, s_selected_endpoint,
                   s_active_serial, s_last_serial_subscribed, s_hw_id_subscribed, unheeded,
                   network, serial>>

\* mqtt_app_start_with_endpoint: the old client is gone without an event.
Start ==
    /\ pc = "start"
    /\ topics' = {} /\ acks' = 0 /\ early' = FALSE
    /\ \/ /\ client' = "connecting"
          /\ s_active_endpoint' = s_selected_endpoint
          /\ Goto("started", "none")
          /\ UNCHANGED <<s_mqtt_started, backoff, bounds>>
       \/ /\ Loss /\ client' = "none" /\ s_mqtt_started' = FALSE
          /\ Failed /\ Rest
          /\ UNCHANGED s_active_endpoint
    /\ UNCHANGED <<s_mqtt_connected, is_mqtt_ready, s_subscribe_counter, s_selected_endpoint,
                   s_active_serial, s_last_serial_subscribed, s_hw_id_subscribed, unheeded,
                   network, serial>>

\* Mutant: the flag of the client before is kept.
StartedKeepingFlag ==
    /\ pc = "started" /\ Rest
    /\ s_mqtt_started' = TRUE
    /\ UNCHANGED <<client, s_mqtt_connected, is_mqtt_ready, s_subscribe_counter, backoff, endpoints,
                   names, network, serial, early, bounds>>

\* The client may have connected since.
Started ==
    /\ pc = "started" /\ Rest
    /\ s_mqtt_started' = TRUE /\ s_mqtt_connected' = FALSE
    /\ UNCHANGED <<client, is_mqtt_ready, s_subscribe_counter, backoff, endpoints, names, network,
                   serial, early, bounds>>

\* esp_mqtt_client_reconnect, which only a client that waits obeys.
Reconnect ==
    /\ pc = "reconnect" /\ Rest
    /\ \/ client = "waiting" /\ client' = "connecting" /\ UNCHANGED backoff
       \/ client # "waiting" /\ Failed /\ UNCHANGED client
    /\ UNCHANGED <<flags, endpoints, names, network, serial, early, bounds>>

mqtt_connection_maintenance ==
    Maintain \/ Discover \/ SaveHost \/ SaveUser \/ Start \/ Started \/ Reconnect

-----------------------------------------------------------------------------
(* The client's task and mqtt_event_handler *)

Reachable == /\ Wifi_Connected_Flag /\ s_active_endpoint.host \in up
             /\ \/ s_active_endpoint.user = s_active_endpoint.host
                \/ s_active_endpoint = Default

\* Mutant: what the connection before was subscribed to is taken for subscribed.
OnConnectedAgain ==
    /\ client = "connecting" /\ Reachable
    /\ client' = "connected"
    /\ s_mqtt_connected' = TRUE
    /\ s_mqtt_consecutive_failures' = 0 /\ retry' = "none"
    /\ Refresh(serial, s_hw_id_subscribed, s_last_serial_subscribed, TRUE)
    /\ early' = (pc = "started")
    /\ UNCHANGED <<s_mqtt_started, is_mqtt_ready, s_subscribe_counter, endpoints, maintenance,
                   network, serial, bounds>>

\* MQTT_EVENT_CONNECTED
OnConnected ==
    /\ client = "connecting" /\ Reachable
    /\ client' = "connected"
    /\ s_mqtt_connected' = TRUE
    /\ s_mqtt_consecutive_failures' = 0 /\ retry' = "none"
    /\ Refresh(serial, FALSE, NoName, TRUE)
    /\ early' = (pc = "started")
    /\ UNCHANGED <<s_mqtt_started, is_mqtt_ready, s_subscribe_counter, endpoints, maintenance,
                   network, serial, bounds>>

Broke == /\ is_mqtt_ready' = FALSE /\ s_subscribe_counter' = 0 /\ s_mqtt_connected' = FALSE
         /\ UNCHANGED s_mqtt_started
         /\ Failed

\* MQTT_EVENT_ERROR: the attempt failed, or the connection broke.
OnError ==
    /\ client \in {"connecting", "connected"}
    /\ IF Reachable THEN Loss ELSE UNCHANGED bounds
    /\ client' = "failing" /\ topics' = {} /\ acks' = 0 /\ early' = FALSE
    /\ Broke /\ Notice
    /\ UNCHANGED <<endpoints, s_last_serial_subscribed, s_hw_id_subscribed, maintenance, network,
                   serial>>

\* MQTT_EVENT_DISCONNECTED follows; the failure counts twice.
OnDisconnected ==
    /\ client = "failing" /\ client' = "waiting"
    /\ Broke /\ NoticeOnly
    /\ UNCHANGED <<endpoints, maintenance, network, serial, early, bounds>>

\* Mutant: the serial number's topics are waited for as well.
OnSubscribedAll ==
    /\ client = "connected" /\ acks > 0 /\ acks' = acks - 1
    /\ \/ s_subscribe_counter = 3 /\ is_mqtt_ready' = TRUE /\ s_subscribe_counter' = 0
       \/ /\ s_subscribe_counter # 3 /\ s_subscribe_counter' = s_subscribe_counter + 1
          /\ UNCHANGED is_mqtt_ready
    /\ Notice
    /\ UNCHANGED <<client, s_mqtt_started, s_mqtt_connected, backoff, endpoints,
                   s_last_serial_subscribed, s_hw_id_subscribed, topics,
                   maintenance, network, serial, early, bounds>>

\* MQTT_EVENT_SUBSCRIBED: after two the client is ready.
OnSubscribed ==
    /\ client = "connected" /\ acks > 0 /\ acks' = acks - 1
    /\ \/ s_subscribe_counter = 1 /\ is_mqtt_ready' = TRUE /\ s_subscribe_counter' = 0
       \/ /\ s_subscribe_counter # 1 /\ s_subscribe_counter' = s_subscribe_counter + 1
          /\ UNCHANGED is_mqtt_ready
    /\ Notice
    /\ UNCHANGED <<client, s_mqtt_started, s_mqtt_connected, backoff, endpoints,
                   s_last_serial_subscribed, s_hw_id_subscribed, topics,
                   maintenance, network, serial, early, bounds>>

\* Another event, data from the app among them.
OnOther ==
    /\ client = "connected" /\ NoticeOnly
    /\ UNCHANGED <<client, flags, backoff, endpoints, maintenance, network, serial, early, bounds>>

\* MQTT_EVENT_DATA with an image whose serial number is another.
OnImage(number) ==
    /\ client = "connected" /\ topics # {}
    /\ number # serial /\ serial' = number
    /\ changes < MaxSerials /\ changes' = changes + 1
    /\ Refresh(number, s_hw_id_subscribed, s_last_serial_subscribed, TRUE)
    /\ UNCHANGED <<client, flags, backoff, endpoints, maintenance, network, early,
                   news, outages, losses>>

mqtt_event_handler == OnConnected \/ OnError \/ OnDisconnected \/ OnSubscribed

-----------------------------------------------------------------------------
(* Time, the network, and the rest of the module *)

internals == <<client, flags, endpoints, names, pc, reason, stored, early>>

RetryTick ==
    /\ retry = "pending" /\ retry' = "past"
    /\ UNCHANGED <<internals, s_mqtt_consecutive_failures, hour, network, serial, bounds>>

HourPasses ==
    /\ ~hour /\ hour' = TRUE
    /\ UNCHANGED <<internals, backoff, network, serial, bounds>>

outside == <<internals, backoff, hour>>

\* Another image comes from the unit or over BLE.
SerialChanges(number) ==
    /\ number # serial /\ serial' = number
    /\ changes < MaxSerials /\ changes' = changes + 1
    /\ UNCHANGED <<outside, network, news, outages, losses>>

WifiUp ==
    /\ ~Wifi_Connected_Flag /\ Wifi_Connected_Flag' = TRUE
    /\ UNCHANGED <<outside, served, announced, up, serial, bounds>>

WifiDown ==
    /\ Wifi_Connected_Flag /\ Wifi_Connected_Flag' = FALSE /\ Outage
    /\ UNCHANGED <<outside, served, announced, up, serial>>

ServerUp ==
    /\ ~served /\ served' = TRUE
    /\ UNCHANGED <<outside, Wifi_Connected_Flag, announced, up, serial, bounds>>

ServerDown ==
    /\ served /\ served' = FALSE /\ Outage
    /\ UNCHANGED <<outside, Wifi_Connected_Flag, announced, up, serial>>

BrokerUp(b) ==
    /\ b \notin up /\ up' = up \cup {b}
    /\ UNCHANGED <<outside, Wifi_Connected_Flag, served, announced, serial, bounds>>

BrokerDown(b) ==
    /\ b \in up /\ up' = up \ {b} /\ Outage
    /\ UNCHANGED <<outside, Wifi_Connected_Flag, served, announced, serial>>

Announce(e) ==
    /\ e # announced /\ announced' = e
    /\ news < MaxNews /\ news' = news + 1
    /\ UNCHANGED <<outside, Wifi_Connected_Flag, served, up, serial, changes, outages, losses>>

\* The program restarts, amid a save as well.
Restart ==
    /\ Outage
    /\ client' = "none" /\ s_mqtt_started' = FALSE
    /\ s_mqtt_connected' = FALSE /\ is_mqtt_ready' = FALSE /\ s_subscribe_counter' = 0
    /\ s_mqtt_consecutive_failures' = 0 /\ retry' = "none" /\ hour' = FALSE
    /\ s_selected_endpoint' = LoadedOrDefault /\ s_active_endpoint' = NothingStored
    /\ pc' = "rest" /\ reason' = "none"
    /\ serial' = NoName /\ s_active_serial' = NoName
    /\ s_last_serial_subscribed' = NoName /\ s_hw_id_subscribed' = FALSE
    /\ topics' = {} /\ acks' = 0
    /\ Wifi_Connected_Flag' = FALSE
    /\ early' = FALSE /\ unheeded' = FALSE
    /\ UNCHANGED <<stored, served, announced, up>>

Environment ==
    \/ RetryTick \/ HourPasses \/ WifiUp \/ WifiDown \/ ServerUp \/ ServerDown \/ Restart
    \/ \E b \in Brokers : BrokerUp(b) \/ BrokerDown(b)
    \/ \E e \in Announcements : Announce(e)
    \/ \E number \in Serials \cup {NoName} : SerialChanges(number) \/ OnImage(number)

Next == \/ mqtt_connection_maintenance \/ mqtt_subscribe_app_topics
        \/ mqtt_event_handler \/ OnOther \/ Environment

Spec == Init /\ [][Next]_vars

\* The task and the client's task run, time passes; nothing is assumed of the network.
FairSpec == /\ Spec
            /\ WF_vars(mqtt_connection_maintenance)
            /\ WF_vars(mqtt_event_handler)
            /\ WF_vars(RetryTick) /\ WF_vars(HourPasses)

-----------------------------------------------------------------------------
(* Properties *)

\* Every variable has its type, and at rest a started client exists.
TypeOK ==
    /\ client \in {"none", "connecting", "connected", "failing", "waiting"}
    /\ {s_mqtt_started, s_mqtt_connected, is_mqtt_ready, hour, s_hw_id_subscribed,
        Wifi_Connected_Flag, served, early, unheeded} \subseteq BOOLEAN
    /\ s_subscribe_counter \in {0, 1}
    /\ s_mqtt_consecutive_failures \in 0..FailThreshold
    /\ retry \in {"none", "pending", "past"}
    /\ s_selected_endpoint \in Endpoints
    /\ s_active_endpoint \in Endpoints \cup {NothingStored}
    /\ stored \in Endpoints \cup {Endpoint(b, NoName) : b \in Brokers \cup {NoName}}
    /\ pc \in {"rest", "discover", "save_host", "save_user", "start", "started", "reconnect"}
    /\ reason \in {"none", "initial-start", "periodic-refresh", "reconnect"}
    /\ {serial, s_active_serial, s_last_serial_subscribed} \subseteq Serials \cup {NoName}
    /\ topics \subseteq Serials \cup {HwId} /\ acks \in Nat
    /\ announced \in Announcements /\ up \subseteq Brokers
    /\ s_mqtt_started /\ pc # "started" => client # "none"

\* The endpoint in use is the one that a restart would use, whether discovery
\* answered or failed, unless a commit failed (mqtt_app.c:513-542).
SelectedIsStored ==
    pc \notin {"save_host", "save_user"} /\ losses = 0 => s_selected_endpoint = LoadedOrDefault

\* s_mqtt_connected, which the app's status and every log message depend on, is
\* true exactly while the client is connected, unless it connected before its start
\* had returned (mqtt_app.c:984).
FlagIsTrue ==
    pc = "rest" /\ s_mqtt_started /\ ~early => (s_mqtt_connected <=> client = "connected")

\* A connected client is subscribed under the hardware id and under the serial number
\* in the image and no other, as soon as the maintenance has seen it, unless the
\* change was seen first by a task that does nothing about it (mqtt_app.c:828, 996).
TopicsFollowSerial ==
    client = "connected" /\ s_active_serial = serial /\ ~unheeded
        => topics = {HwId} \cup ({serial} \ {NoName})

\* A connected client whose subscriptions are all acknowledged is ready, in whatever
\* order clients and subscriptions followed each other (mqtt_app.c:870).
AcknowledgedIsReady == client = "connected" /\ acks = 0 => is_mqtt_ready

\* Once Wi-Fi, the discovery server and the broker that it announces with an account
\* stay up, the module gets to be connected to that broker and stays, whatever it
\* holds in NVS, and whichever broker it used before (mqtt_app.c:990).
ReachesAnnounced ==
    <>[](Wifi_Connected_Flag /\ served /\ announced.host \in up /\ announced.user # NoName)
        => <>[](client = "connected" /\ s_active_endpoint = announced)
=============================================================================
