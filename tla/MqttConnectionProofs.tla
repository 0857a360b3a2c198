------------------------ MODULE MqttConnectionProofs ------------------------
(***************************************************************************)
(* Proofs about MqttConnection for every value of its constants that       *)
(* satisfies MqttAssumption: the types, and that the endpoint in use is    *)
(* the stored one, the flag tells the truth, the subscriptions follow the  *)
(* serial number, and a client whose subscriptions are acknowledged is     *)
(* ready.  Each has an invariant of its own, of one or two facts more.     *)
(***************************************************************************)
EXTENDS MqttConnection, FiniteSetTheorems, TLAPS

LEMMA Constants ==
    /\ Home \in Brokers /\ NoName \notin Brokers /\ NoName \notin Serials /\ HwId \notin Serials
    /\ FailThreshold \in Nat \ {0}
BY MqttAssumption

-----------------------------------------------------------------------------
(* Types *)

Booleans ==
    /\ s_mqtt_started \in BOOLEAN /\ s_mqtt_connected \in BOOLEAN /\ is_mqtt_ready \in BOOLEAN
    /\ hour \in BOOLEAN /\ s_hw_id_subscribed \in BOOLEAN /\ Wifi_Connected_Flag \in BOOLEAN
    /\ served \in BOOLEAN /\ early \in BOOLEAN /\ unheeded \in BOOLEAN

Places ==
    /\ client \in {"none", "connecting", "connected", "failing", "waiting"}
    /\ pc \in {"rest", "discover", "save_host", "save_user", "start", "started", "reconnect"}
    /\ reason \in {"none", "initial-start", "periodic-refresh", "reconnect"}
    /\ retry \in {"none", "pending", "past"}
    /\ s_subscribe_counter \in {0, 1}
    /\ s_mqtt_consecutive_failures \in 0..FailThreshold

Ends ==
    /\ s_selected_endpoint \in Endpoints
    /\ s_active_endpoint \in Endpoints \cup {NothingStored}
    /\ stored \in Endpoints \cup {NothingStored}
    /\ announced \in Announcements /\ up \subseteq Brokers

Names ==
    /\ serial \in Serials \cup {NoName} /\ s_active_serial \in Serials \cup {NoName}
    /\ s_last_serial_subscribed \in Serials \cup {NoName}
    /\ topics \subseteq Serials \cup {HwId} /\ acks \in Nat

\* A client exists from its start on.
HandleInv == s_mqtt_started \/ pc = "started" => client # "none"

TypeInv == Booleans /\ Places /\ Ends /\ Names /\ HandleInv

\* What is stored is a whole endpoint or none.
LEMMA StoredParts ==
    Endpoints \cup {NothingStored} \subseteq Endpoints \cup {Endpoint(b, NoName) : b \in Brokers \cup {NoName}}
BY DEF NothingStored, Endpoint, Endpoints

LEMMA TypeParts == TypeInv => TypeOK
<1> SUFFICES ASSUME TypeInv PROVE TypeOK
  OBVIOUS
<1>1. {s_mqtt_started, s_mqtt_connected, is_mqtt_ready, hour, s_hw_id_subscribed,
       Wifi_Connected_Flag, served, early, unheeded} \subseteq BOOLEAN
  BY Zenon DEF TypeInv, Booleans
<1>2. {serial, s_active_serial, s_last_serial_subscribed} \subseteq Serials \cup {NoName}
  BY DEF TypeInv, Names
<1>3. stored \in Endpoints \cup {Endpoint(b, NoName) : b \in Brokers \cup {NoName}}
  BY StoredParts DEF TypeInv, Ends
<1> QED BY <1>1, <1>2, <1>3, Zenon DEF TypeInv, TypeOK, Places, Ends, Names, HandleInv

\* A restart finds an endpoint.
LEMMA LoadedType == Ends => LoadedOrDefault \in Endpoints
BY Constants DEF Ends, LoadedOrDefault, Default, Endpoint, Endpoints, NothingStored

\* An answer of the discovery server is an endpoint.
LEMMA FetchedType == Ends => Fetched \in Endpoints
BY DEF Ends, Fetched, Endpoint, Endpoints, Announcements

\* The topics that a refresh asks for, one SUBACK for each of two.
LEMMA NewTopics ==
    ASSUME NEW number, NEW last, NEW hw \in BOOLEAN
    PROVE  LET new == (IF hw THEN {} ELSE {HwId}) \cup ({number} \ {NoName, last})
           IN  Cardinality(new) \in Nat /\ (~hw => Cardinality(new) > 0)
<1> DEFINE new == (IF hw THEN {} ELSE {HwId}) \cup ({number} \ {NoName, last})
<1>1. IsFiniteSet({HwId, number})
  <2>1. IsFiniteSet({HwId})
    BY FS_Singleton
  <2>2. IsFiniteSet({HwId} \cup {number})
    BY <2>1, FS_AddElement
  <2>3. {HwId, number} = {HwId} \cup {number}
    OBVIOUS
  <2> QED BY <2>2, <2>3
<1>2. new \subseteq {HwId, number}
  OBVIOUS
<1>3. IsFiniteSet(new)
  BY <1>1, <1>2, FS_Subset
<1>4. Cardinality(new) \in Nat
  BY <1>3, FS_CardinalityType
<1>5. ~hw => Cardinality(new) > 0
  <2>1. ~hw => new # {}
    OBVIOUS
  <2> QED BY <1>3, <1>4, <2>1, FS_EmptySet
<1> QED BY <1>4, <1>5

LEMMA RefreshType ==
    ASSUME Names, NEW number \in Serials \cup {NoName}, NEW hw \in BOOLEAN,
           NEW last \in Serials \cup {NoName}, NEW on \in BOOLEAN, Refresh(number, hw, last, on)
    PROVE  /\ s_active_serial' \in Serials \cup {NoName}
           /\ s_last_serial_subscribed' \in Serials \cup {NoName}
           /\ topics' \subseteq Serials \cup {HwId} /\ acks' \in Nat
           /\ unheeded' \in BOOLEAN /\ s_hw_id_subscribed' \in BOOLEAN
<1> DEFINE old == {last} \ {NoName, number}
           new == (IF hw THEN {} ELSE {HwId}) \cup ({number} \ {NoName, last})
<1>1. Cardinality(new) \in Nat
  BY NewTopics
<1>2. new \subseteq Serials \cup {HwId}
  OBVIOUS
<1> HIDE DEF new, old
<1>3. topics' = IF on THEN (topics \ old) \cup new ELSE topics
  BY DEF Refresh, new, old
<1>4. acks' = IF on THEN acks + 2 * Cardinality(new) ELSE acks
  BY DEF Refresh, new
<1>5. topics' \subseteq Serials \cup {HwId}
  BY <1>2, <1>3 DEF Names
<1>6. acks' \in Nat
  BY <1>1, <1>4 DEF Names
<1>7. unheeded' = FALSE /\ s_hw_id_subscribed' = TRUE
      /\ s_active_serial' = number /\ s_last_serial_subscribed' = number
  BY DEF Refresh
<1> QED BY <1>5, <1>6, <1>7

LEMMA InitType == Init => TypeInv
<1> SUFFICES ASSUME Init PROVE TypeInv
  OBVIOUS
<1>1. Booleans
  BY Zenon DEF Init, Booleans
<1>2. Places
  BY Constants DEF Init, Places
<1>3. Ends
  <2>1. stored \in Endpoints \cup {NothingStored} /\ announced \in Announcements /\ up \subseteq Brokers
    BY DEF Init
  <2>2. LoadedOrDefault \in Endpoints
    BY <2>1, Constants DEF LoadedOrDefault, Default, Endpoint, Endpoints, NothingStored
  <2> QED BY <2>1, <2>2 DEF Init, Ends
<1>4. Names
  BY DEF Init, Names
<1>5. HandleInv
  BY DEF Init, HandleInv
<1> QED BY <1>1, <1>2, <1>3, <1>4, <1>5 DEF TypeInv

\* What each group of variables is changed by.
LEMMA NextBooleans == TypeInv /\ [Next]_vars => Booleans'
<1> SUFFICES ASSUME TypeInv, [Next]_vars PROVE Booleans'
  OBVIOUS
<1> USE DEF flags, backoff, endpoints, names, maintenance, network, bounds, frame, internals, outside
<1>1. Booleans /\ Names
  BY DEF TypeInv
<1>2. ASSUME Notice PROVE unheeded' \in BOOLEAN
  BY <1>1, <1>2, Zenon DEF Booleans, Notice
<1>3. ASSUME RefreshNow PROVE unheeded' \in BOOLEAN /\ s_hw_id_subscribed' \in BOOLEAN
  BY <1>3, Zenon DEF RefreshNow, Refresh
<1>4. CASE mqtt_subscribe_app_topics
  BY <1>1, <1>2, <1>3, <1>4, Zenon DEF mqtt_subscribe_app_topics, NoticeOnly, Booleans
<1>5. CASE Maintain
  <2>1. unheeded' \in BOOLEAN /\ s_hw_id_subscribed' \in BOOLEAN
    <3>1. (Notice /\ UNCHANGED s_hw_id_subscribed) \/ RefreshNow
      BY <1>5, Zenon DEF Maintain, Off, NotStarted, Working, Broken, NoticeOnly
    <3> QED BY <1>1, <1>2, <1>3, <3>1, Zenon DEF Booleans
  <2>2. UNCHANGED hour
    BY <1>5, Zenon DEF Maintain, Off, NotStarted, Working, Broken, Rest, Goto
  <2> QED BY <1>1, <1>5, <2>1, <2>2, Zenon DEF Maintain, Booleans
<1>6. CASE Discover
  <2>1. hour' \in BOOLEAN
    BY <1>1, <1>6, Zenon DEF Discover, Booleans
  <2> QED BY <1>1, <1>6, <2>1, Zenon DEF Discover, Booleans
<1>7. CASE SaveHost
  BY <1>1, <1>7, Zenon DEF SaveHost, Booleans
<1>8. CASE SaveUser
  BY <1>1, <1>8, Zenon DEF SaveUser, Booleans
<1>9. CASE Start
  BY <1>1, <1>9, Zenon DEF Start, Goto, Rest, Booleans
<1>10. CASE Started
  BY <1>1, <1>10, Zenon DEF Started, Goto, Rest, Booleans
<1>11. CASE Reconnect
  BY <1>1, <1>11, Zenon DEF Reconnect, Goto, Rest, Booleans
<1>12. CASE OnConnected
  <2>1. unheeded' \in BOOLEAN /\ s_hw_id_subscribed' \in BOOLEAN
    BY <1>12, Zenon DEF OnConnected, Refresh
  <2>2. early' \in BOOLEAN
    BY <1>12, Zenon DEF OnConnected
  <2> QED BY <1>1, <1>12, <2>1, <2>2, Zenon DEF OnConnected, Booleans
<1>13. CASE OnError
  BY <1>1, <1>2, <1>13, Zenon DEF OnError, Broke, Booleans
<1>14. CASE OnDisconnected
  BY <1>1, <1>2, <1>14, Zenon DEF OnDisconnected, Broke, NoticeOnly, Booleans
<1>15. CASE OnSubscribed
  BY <1>1, <1>2, <1>15, Zenon DEF OnSubscribed, Booleans
<1>16. CASE OnOther
  BY <1>1, <1>2, <1>16, Zenon DEF OnOther, NoticeOnly, Booleans
<1>17. CASE RetryTick
  BY <1>1, <1>17, Zenon DEF RetryTick, Booleans
<1>18. CASE HourPasses
  BY <1>1, <1>18, Zenon DEF HourPasses, Booleans
<1>19. CASE WifiUp
  BY <1>1, <1>19, Zenon DEF WifiUp, Booleans
<1>20. CASE WifiDown
  BY <1>1, <1>20, Zenon DEF WifiDown, Booleans
<1>21. CASE ServerUp
  BY <1>1, <1>21, Zenon DEF ServerUp, Booleans
<1>22. CASE ServerDown
  BY <1>1, <1>22, Zenon DEF ServerDown, Booleans
<1>23. CASE Restart
  BY <1>1, <1>23, Zenon DEF Restart, Booleans
<1>24. ASSUME NEW b \in Brokers, BrokerUp(b) \/ BrokerDown(b) PROVE Booleans'
  BY <1>1, <1>24, Zenon DEF BrokerUp, BrokerDown, Booleans
<1>25. ASSUME NEW e \in Announcements, Announce(e) PROVE Booleans'
  BY <1>1, <1>25, Zenon DEF Announce, Booleans
<1>26. ASSUME NEW number \in Serials \cup {NoName}, SerialChanges(number) PROVE Booleans'
  BY <1>1, <1>26, Zenon DEF SerialChanges, Booleans
<1>27. ASSUME NEW number \in Serials \cup {NoName}, OnImage(number) PROVE Booleans'
  <2>1. unheeded' \in BOOLEAN /\ s_hw_id_subscribed' \in BOOLEAN
    BY <1>27, Zenon DEF OnImage, Refresh
  <2> QED BY <1>1, <1>27, <2>1, Zenon DEF OnImage, Booleans
<1>28. CASE UNCHANGED vars
  BY <1>1, <1>28, Zenon DEF vars, Booleans
<1> QED
  BY <1>4, <1>5, <1>6, <1>7, <1>8, <1>9, <1>10, <1>11, <1>12, <1>13, <1>14, <1>15, <1>16, <1>17, <1>18,
     <1>19, <1>20, <1>21, <1>22, <1>23, <1>24, <1>25, <1>26, <1>27, <1>28
     DEF Next, mqtt_connection_maintenance, mqtt_event_handler, Environment

LEMMA NextPlaces == TypeInv /\ [Next]_vars => Places'
<1> SUFFICES ASSUME TypeInv, [Next]_vars PROVE Places'
  OBVIOUS
<1> USE Constants DEF flags, backoff, endpoints, names, maintenance, network, bounds, frame, internals, outside
<1>1. Places
  BY DEF TypeInv
<1>2. ASSUME Failed PROVE retry' = "pending" /\ s_mqtt_consecutive_failures' \in 0..FailThreshold
  BY <1>1, <1>2 DEF Failed, Places
<1>3. ASSUME NEW updated, NEW selected, AfterDiscovery(updated, selected)
      PROVE  pc' \in {"start", "reconnect", "rest"} /\ reason' = "none"
  BY <1>3 DEF AfterDiscovery
<1>4. CASE mqtt_subscribe_app_topics
  BY <1>1, <1>4 DEF mqtt_subscribe_app_topics, Places
<1>5. CASE Maintain
  BY <1>1, <1>5 DEF Maintain, Off, NotStarted, Working, Broken, Rest, Goto, Places
<1>6. CASE Discover
  BY <1>1, <1>3, <1>6 DEF Discover, Places
<1>7. CASE SaveHost
  BY <1>1, <1>3, <1>7 DEF SaveHost, Places
<1>8. CASE SaveUser
  BY <1>1, <1>3, <1>8 DEF SaveUser, Places
<1>9. CASE Start
  BY <1>1, <1>2, <1>9 DEF Start, Rest, Goto, Places
<1>10. CASE Started
  BY <1>1, <1>10 DEF Started, Rest, Goto, Places
<1>11. CASE Reconnect
  BY <1>1, <1>2, <1>11 DEF Reconnect, Rest, Goto, Places
<1>12. CASE OnConnected
  BY <1>1, <1>12 DEF OnConnected, Places
<1>13. CASE OnError
  BY <1>1, <1>2, <1>13 DEF OnError, Broke, Places
<1>14. CASE OnDisconnected
  BY <1>1, <1>2, <1>14 DEF OnDisconnected, Broke, Places
<1>15. CASE OnSubscribed
  BY <1>1, <1>15 DEF OnSubscribed, Places
<1>16. CASE Restart
  BY <1>1, <1>16 DEF Restart, Places
<1>17. CASE RetryTick
  BY <1>1, <1>17 DEF RetryTick, Places
<1>18. CASE UNCHANGED <<client, pc, reason, retry, s_subscribe_counter, s_mqtt_consecutive_failures>>
  BY <1>1, <1>18 DEF Places
<1> QED
  BY <1>4, <1>5, <1>6, <1>7, <1>8, <1>9, <1>10, <1>11, <1>12, <1>13, <1>14, <1>15, <1>16, <1>17, <1>18
     DEF Next, mqtt_connection_maintenance, mqtt_event_handler, Environment, OnOther, HourPasses, WifiUp,
         WifiDown, ServerUp, ServerDown, BrokerUp, BrokerDown, Announce, SerialChanges, OnImage, vars

LEMMA NextEnds == TypeInv /\ [Next]_vars => Ends'
<1> SUFFICES ASSUME TypeInv, [Next]_vars PROVE Ends'
  OBVIOUS
<1> USE DEF flags, backoff, endpoints, names, maintenance, network, bounds, frame, internals, outside
<1>1. Ends /\ LoadedOrDefault \in Endpoints /\ Fetched \in Endpoints
  BY LoadedType, FetchedType DEF TypeInv
<1>2. CASE Discover
  BY <1>1, <1>2 DEF Discover, Ends
<1>3. CASE SaveHost
  <2>1. stored' \in Endpoints \cup {NothingStored}
    <3>1. CASE stored' = stored
      BY <1>1, <3>1 DEF Ends
    <3>2. CASE stored' = [stored EXCEPT !.host = s_selected_endpoint.host]
      BY <1>1, <3>2 DEF Ends, Endpoints, NothingStored, Endpoint
    <3> QED BY <1>3, <3>1, <3>2 DEF SaveHost
  <2> QED BY <1>1, <1>3, <2>1 DEF SaveHost, Ends
<1>4. CASE SaveUser
  BY <1>1, <1>4 DEF SaveUser, Ends
<1>5. CASE Start
  BY <1>1, <1>5 DEF Start, Rest, Goto, Ends
<1>6. CASE Restart
  BY <1>1, <1>6 DEF Restart, Ends
<1>7. ASSUME NEW b \in Brokers, BrokerUp(b) \/ BrokerDown(b) PROVE Ends'
  BY <1>1, <1>7 DEF BrokerUp, BrokerDown, Ends
<1>8. ASSUME NEW e \in Announcements, Announce(e) PROVE Ends'
  BY <1>1, <1>8 DEF Announce, Ends
<1>9. CASE UNCHANGED <<endpoints, stored, announced, up>>
  BY <1>1, <1>9 DEF Ends
<1> QED
  BY <1>2, <1>3, <1>4, <1>5, <1>6, <1>7, <1>8, <1>9
     DEF Next, mqtt_connection_maintenance, mqtt_event_handler, Environment, mqtt_subscribe_app_topics,
         Maintain, Off, NotStarted, Working, Broken, Rest, Goto, Started, Reconnect, OnConnected, OnError,
         OnDisconnected, OnSubscribed, OnOther, RetryTick, HourPasses, WifiUp, WifiDown, ServerUp, ServerDown,
         SerialChanges, OnImage, vars

LEMMA NextNames == TypeInv /\ [Next]_vars => Names'
<1> SUFFICES ASSUME TypeInv, [Next]_vars PROVE Names'
  OBVIOUS
<1> USE DEF flags, backoff, endpoints, names, maintenance, network, bounds, frame, internals, outside
<1>1. Names /\ s_hw_id_subscribed \in BOOLEAN /\ (client = "connected") \in BOOLEAN
  BY DEF TypeInv, Booleans
<1>2. ASSUME Notice, UNCHANGED <<serial, s_last_serial_subscribed, topics, acks>> PROVE Names'
  BY <1>1, <1>2 DEF Notice, Names
<1>3. ASSUME RefreshNow, UNCHANGED serial PROVE Names'
  <2>1. serial \in Serials \cup {NoName} /\ s_last_serial_subscribed \in Serials \cup {NoName}
    BY <1>1 DEF Names
  <2>2. Refresh(serial, s_hw_id_subscribed, s_last_serial_subscribed, client = "connected")
    BY <1>3 DEF RefreshNow
  <2> QED BY <1>1, <1>3, <2>1, <2>2, RefreshType DEF Names
<1>4. CASE mqtt_subscribe_app_topics
  BY <1>2, <1>3, <1>4 DEF mqtt_subscribe_app_topics, NoticeOnly
<1>5. CASE Maintain
  BY <1>2, <1>3, <1>5 DEF Maintain, Off, NotStarted, Working, Broken, NoticeOnly
<1>6. CASE Start
  BY <1>1, <1>6 DEF Start, Rest, Goto, Names
<1>7. CASE OnConnected
  <2>1. serial \in Serials \cup {NoName} /\ NoName \in Serials \cup {NoName}
    BY <1>1 DEF Names
  <2>2. Refresh(serial, FALSE, NoName, TRUE) /\ serial' = serial
    BY <1>7 DEF OnConnected
  <2> QED BY <1>1, <2>1, <2>2, RefreshType DEF Names
<1>8. CASE OnError
  BY <1>1, <1>8 DEF OnError, Notice, Names
<1>9. CASE OnDisconnected \/ OnOther
  BY <1>2, <1>9 DEF OnDisconnected, OnOther, NoticeOnly
<1>10. CASE OnSubscribed
  BY <1>1, <1>10 DEF OnSubscribed, Notice, Names
<1>11. CASE Restart
  BY <1>11 DEF Restart, Names
<1>12. ASSUME NEW number \in Serials \cup {NoName}, SerialChanges(number) PROVE Names'
  BY <1>1, <1>12 DEF SerialChanges, Names
<1>13. ASSUME NEW number \in Serials \cup {NoName}, OnImage(number) PROVE Names'
  <2>1. s_last_serial_subscribed \in Serials \cup {NoName}
    BY <1>1 DEF Names
  <2>2. Refresh(number, s_hw_id_subscribed, s_last_serial_subscribed, TRUE) /\ serial' = number
    BY <1>13 DEF OnImage
  <2> QED BY <1>1, <2>1, <2>2, RefreshType DEF Names
<1>14. CASE UNCHANGED <<names, serial>>
  BY <1>1, <1>14 DEF Names
<1> QED
  BY <1>4, <1>5, <1>6, <1>7, <1>8, <1>9, <1>10, <1>11, <1>12, <1>13, <1>14
     DEF Next, mqtt_connection_maintenance, mqtt_event_handler, Environment, Discover, SaveHost, SaveUser,
         Started, Reconnect, RetryTick, HourPasses, WifiUp, WifiDown, ServerUp, ServerDown,
         BrokerUp, BrokerDown, Announce, vars

LEMMA NextHandle == TypeInv /\ [Next]_vars => HandleInv'
<1> SUFFICES ASSUME TypeInv, [Next]_vars PROVE HandleInv'
  OBVIOUS
<1> USE DEF flags, backoff, endpoints, names, maintenance, network, bounds, frame, internals, outside
<1>1. HandleInv
  BY DEF TypeInv
<1>2. CASE Start
  BY <1>2 DEF Start, Rest, Goto, HandleInv
<1>3. CASE Started
  BY <1>1, <1>3 DEF Started, Rest, Goto, HandleInv
<1>4. CASE Restart
  BY <1>4 DEF Restart, HandleInv
<1>5. CASE OnConnected \/ OnError \/ OnDisconnected
  BY <1>5 DEF OnConnected, OnError, OnDisconnected, HandleInv
<1>6. CASE Reconnect
  BY <1>1, <1>6 DEF Reconnect, Rest, Goto, HandleInv
<1>7. CASE UNCHANGED <<client, s_mqtt_started>> /\ pc' # "started"
  BY <1>1, <1>7 DEF HandleInv
<1>8. CASE UNCHANGED <<client, s_mqtt_started, pc>>
  BY <1>1, <1>8 DEF HandleInv
<1> QED
  BY <1>2, <1>3, <1>4, <1>5, <1>6, <1>7, <1>8
     DEF Next, mqtt_connection_maintenance, mqtt_event_handler, Environment, mqtt_subscribe_app_topics,
         Maintain, Off, NotStarted, Working, Broken, Rest, Goto, Discover, SaveHost, SaveUser, AfterDiscovery,
         OnSubscribed, OnOther, RetryTick, HourPasses, WifiUp, WifiDown, ServerUp, ServerDown,
         BrokerUp, BrokerDown, Announce, SerialChanges, OnImage, vars

LEMMA NextType == TypeInv /\ [Next]_vars => TypeInv'
BY NextBooleans, NextPlaces, NextEnds, NextNames, NextHandle DEF TypeInv

LEMMA Typed == Spec => []TypeInv
BY InitType, NextType, PTL DEF Spec

\* Every variable has its type, and a client that counts as started exists.
THEOREM TypeCorrect == Spec => []TypeOK
BY Typed, TypeParts, PTL

-----------------------------------------------------------------------------
(* The endpoint *)

\* Amid a save the host is stored and the account is not.
EndpointInv ==
    losses = 0 =>
        /\ pc \notin {"save_host", "save_user"} => s_selected_endpoint = LoadedOrDefault
        /\ pc = "save_user" => stored.host = s_selected_endpoint.host

LEMMA NextEndpoint == TypeInv /\ EndpointInv /\ losses \in Nat /\ [Next]_vars => EndpointInv' /\ losses' \in Nat
<1> SUFFICES ASSUME TypeInv, EndpointInv, losses \in Nat, [Next]_vars PROVE EndpointInv' /\ losses' \in Nat
  OBVIOUS
<1> USE DEF flags, backoff, endpoints, names, maintenance, network, bounds, frame, internals, outside
<1>1. Ends
  BY DEF TypeInv
<1>2. ASSUME Loss PROVE losses' \in Nat /\ losses' # 0
  BY <1>2 DEF Loss
<1>3. ASSUME Outage PROVE losses' = losses
  BY <1>3 DEF Outage
<1>4. ASSUME NEW updated, NEW selected, AfterDiscovery(updated, selected)
      PROVE  pc' \notin {"save_host", "save_user"}
  BY <1>4 DEF AfterDiscovery
<1>5. ASSUME UNCHANGED <<s_selected_endpoint, stored>>, losses' = losses, pc' \in {pc} \cup {"rest", "discover",
             "start", "started", "reconnect"}, pc \notin {"save_host", "save_user"} \/ pc' = pc
      PROVE  EndpointInv' /\ losses' \in Nat
  BY <1>5 DEF EndpointInv, LoadedOrDefault
<1>6. CASE Discover
  <2>1. pc = "discover"
    BY <1>6 DEF Discover
  <2>2. CASE UNCHANGED <<s_selected_endpoint, stored, losses>> /\ pc' \notin {"save_host", "save_user"}
    BY <2>1, <2>2 DEF EndpointInv, LoadedOrDefault
  <2>3. CASE pc' = "save_host" /\ losses' = losses
    BY <2>3 DEF EndpointInv
  <2>4. CASE s_selected_endpoint' = LoadedOrDefault /\ UNCHANGED stored /\ pc' \notin {"save_host", "save_user"}
             /\ losses' \in Nat
    BY <2>4 DEF EndpointInv, LoadedOrDefault
  <2> QED BY <1>2, <1>4, <1>6, <2>2, <2>3, <2>4 DEF Discover
<1>7. CASE SaveHost
  <2>1. CASE stored' = [stored EXCEPT !.host = s_selected_endpoint.host] /\ pc' = "save_user"
             /\ UNCHANGED <<losses, s_selected_endpoint>>
    <3>1. stored'.host = s_selected_endpoint.host
      BY <1>1, <2>1 DEF Ends, Endpoints, NothingStored, Endpoint
    <3> QED BY <2>1, <3>1 DEF EndpointInv
  <2>2. CASE losses' # 0 /\ losses' \in Nat
    BY <2>2 DEF EndpointInv
  <2> QED BY <1>2, <1>7, <2>1, <2>2 DEF SaveHost
<1>8. CASE SaveUser
  <2>1. CASE stored' = s_selected_endpoint /\ UNCHANGED <<losses, s_selected_endpoint>>
    <3>1. s_selected_endpoint.host # NoName
      BY <1>1, Constants DEF Ends, Endpoints
    <3>2. pc' \notin {"save_host", "save_user"}
      BY <1>4, <1>8 DEF SaveUser
    <3> QED BY <2>1, <3>1, <3>2 DEF EndpointInv, LoadedOrDefault
  <2>2. CASE losses' # 0 /\ losses' \in Nat
    BY <2>2 DEF EndpointInv
  <2> QED BY <1>2, <1>8, <2>1, <2>2 DEF SaveUser
<1>9. CASE Start
  <2>1. CASE losses' # 0 /\ losses' \in Nat
    BY <2>1 DEF EndpointInv
  <2>2. CASE losses' = losses /\ pc' = "started" /\ UNCHANGED <<s_selected_endpoint, stored>> /\ pc = "start"
    BY <1>5, <2>2
  <2> QED BY <1>2, <1>9, <2>1, <2>2 DEF Start, Goto, Rest
<1>10. CASE Restart
  BY <1>3, <1>10 DEF Restart, EndpointInv, LoadedOrDefault
<1>11. CASE OnError
  <2>1. CASE losses' # 0 /\ losses' \in Nat
    BY <2>1 DEF EndpointInv
  <2>2. CASE losses' = losses
    BY <1>5, <1>11, <2>2 DEF OnError
  <2> QED BY <1>2, <1>11, <2>1, <2>2 DEF OnError
<1>12. CASE Maintain
  BY <1>5, <1>12 DEF Maintain, Off, NotStarted, Working, Broken, Rest, Goto
<1>13. CASE Started \/ Reconnect
  BY <1>5, <1>13 DEF Started, Reconnect, Rest, Goto
<1>14. CASE UNCHANGED <<s_selected_endpoint, stored, losses, pc>>
  BY <1>5, <1>14
<1> QED
  BY <1>3, <1>6, <1>7, <1>8, <1>9, <1>10, <1>11, <1>12, <1>13, <1>14
     DEF Next, mqtt_connection_maintenance, mqtt_event_handler, Environment, mqtt_subscribe_app_topics,
         OnConnected, OnDisconnected, OnSubscribed, OnOther, RetryTick, HourPasses, WifiUp, WifiDown, ServerUp,
         ServerDown, BrokerUp, BrokerDown, Announce, SerialChanges, OnImage, vars

\* The endpoint in use is the one a restart would use, unless a commit failed
\* (mqtt_app.c:513-542).
THEOREM EndpointIsStored == Spec => []SelectedIsStored
<1> DEFINE Counted == losses \in Nat
           Inv == EndpointInv /\ Counted
<1>1. Init => Inv
  BY DEF Init, EndpointInv
<1>2. TypeInv /\ Inv /\ [Next]_vars => Inv'
  BY NextEndpoint
<1>3. Inv => SelectedIsStored
  BY DEF EndpointInv, SelectedIsStored
<1> HIDE DEF Inv
<1> QED BY <1>1, <1>2, <1>3, Typed, PTL DEF Spec

-----------------------------------------------------------------------------
(* The flag *)

\* A client that connects before its start has returned is known as such.
FlagInv ==
    /\ s_mqtt_started /\ pc # "started" /\ ~early => (s_mqtt_connected <=> client = "connected")
    /\ pc = "started" /\ client = "connected" => early

LEMMA NextFlag == TypeInv /\ FlagInv /\ [Next]_vars => FlagInv'
<1> SUFFICES ASSUME TypeInv, FlagInv, [Next]_vars PROVE FlagInv'
  OBVIOUS
<1> USE DEF flags, backoff, endpoints, names, maintenance, network, bounds, frame, internals, outside
<1>1. CASE Start
  BY <1>1 DEF Start, Goto, Rest, FlagInv
<1>2. CASE Started
  BY <1>2 DEF Started, Goto, Rest, FlagInv
<1>3. CASE Reconnect
  BY <1>3 DEF Reconnect, Goto, Rest, FlagInv
<1>4. CASE Restart
  BY <1>4 DEF Restart, FlagInv
<1>5. CASE OnConnected
  BY <1>5 DEF OnConnected, FlagInv
<1>6. CASE OnError \/ OnDisconnected
  BY <1>6 DEF OnError, OnDisconnected, Broke, FlagInv
<1>7. CASE UNCHANGED <<client, s_mqtt_started, s_mqtt_connected, early>> /\ pc # "started" /\ pc' # "started"
  BY <1>7 DEF FlagInv
<1>8. CASE UNCHANGED <<client, s_mqtt_started, s_mqtt_connected, early, pc>>
  BY <1>8 DEF FlagInv
<1> QED
  BY <1>1, <1>2, <1>3, <1>4, <1>5, <1>6, <1>7, <1>8
     DEF Next, mqtt_connection_maintenance, mqtt_event_handler, Environment, mqtt_subscribe_app_topics,
         Maintain, Off, NotStarted, Working, Broken, Rest, Goto, Discover, SaveHost, SaveUser, AfterDiscovery,
         OnSubscribed, OnOther, RetryTick, HourPasses, WifiUp, WifiDown, ServerUp, ServerDown,
         BrokerUp, BrokerDown, Announce, SerialChanges, OnImage, vars

\* The flag tells whether the client is connected, unless it connected before its
\* start had returned (mqtt_app.c:984).
THEOREM FlagTellsTruth == Spec => []FlagIsTrue
<1>1. Init => FlagInv
  BY DEF Init, FlagInv
<1>2. FlagInv => FlagIsTrue
  BY DEF FlagInv, FlagIsTrue
<1> QED BY <1>1, <1>2, NextFlag, Typed, PTL DEF Spec

-----------------------------------------------------------------------------
(* The subscriptions *)

\* What is taken for subscribed is subscribed, and is the serial number seen last.
TopicsInv ==
    client = "connected" =>
        /\ s_hw_id_subscribed
        /\ topics = {HwId} \cup ({s_last_serial_subscribed} \ {NoName})
        /\ ~unheeded => s_last_serial_subscribed = s_active_serial

\* A client that is not connected is subscribed to nothing.
NoneInv == client # "connected" => topics = {}

\* A client that is not ready has SUBACKs to come.
AcksInv == client = "connected" /\ ~is_mqtt_ready => acks + s_subscribe_counter >= 2

LEMMA RefreshTopics ==
    ASSUME Names, NEW number \in Serials \cup {NoName}, NEW hw \in BOOLEAN,
           NEW last \in Serials \cup {NoName}, Refresh(number, hw, last, TRUE),
           hw => topics = {HwId} \cup ({last} \ {NoName}),
           ~hw => topics \subseteq {} /\ last = NoName
    PROVE  /\ s_hw_id_subscribed' /\ s_last_serial_subscribed' = s_active_serial'
           /\ topics' = {HwId} \cup ({s_last_serial_subscribed'} \ {NoName})
           /\ acks' >= acks /\ (~hw => acks' >= 2)
<1> DEFINE old == {last} \ {NoName, number}
           new == (IF hw THEN {} ELSE {HwId}) \cup ({number} \ {NoName, last})
<1>1. Cardinality(new) \in Nat /\ (~hw => Cardinality(new) > 0)
  BY NewTopics
<1>2. topics' = (topics \ old) \cup new
  BY DEF Refresh
<1>3. acks' = acks + 2 * Cardinality(new)
  BY DEF Refresh
<1>4. s_hw_id_subscribed' /\ s_last_serial_subscribed' = number /\ s_active_serial' = number
  BY DEF Refresh
<1>5. (topics \ old) \cup new = {HwId} \cup ({number} \ {NoName})
  <2>1. HwId # last /\ HwId # number /\ HwId # NoName
    BY Constants DEF HwId, NoName
  <2> QED BY <2>1
<1> HIDE DEF new
<1>6. acks' >= acks /\ (~hw => acks' >= 2)
  BY <1>1, <1>3 DEF Names
<1> QED BY <1>2, <1>4, <1>5, <1>6

LEMMA NextNone == NoneInv /\ [Next]_vars => NoneInv'
<1> SUFFICES ASSUME NoneInv, [Next]_vars PROVE NoneInv'
  OBVIOUS
<1> USE DEF flags, backoff, endpoints, names, maintenance, network, bounds, frame, internals, outside
<1>1. CASE topics' = {}
  BY <1>1 DEF NoneInv
<1>2. CASE client' = "connected"
  BY <1>2 DEF NoneInv
<1>3. CASE UNCHANGED <<client, topics>>
  BY <1>3 DEF NoneInv
<1>4. ASSUME RefreshNow, UNCHANGED client PROVE NoneInv'
  <2>1. CASE client = "connected"
    BY <1>2, <1>4, <2>1
  <2>2. CASE client # "connected"
    BY <1>3, <1>4, <2>2 DEF RefreshNow, Refresh
  <2> QED BY <2>1, <2>2
<1>5. CASE mqtt_subscribe_app_topics
  BY <1>3, <1>4, <1>5 DEF mqtt_subscribe_app_topics, NoticeOnly
<1>6. CASE Maintain
  BY <1>3, <1>4, <1>6 DEF Maintain, Off, NotStarted, Working, Broken, NoticeOnly
<1>7. CASE Reconnect \/ OnDisconnected
  BY <1>7 DEF Reconnect, OnDisconnected, NoticeOnly, NoneInv
<1>8. CASE OnSubscribed \/ OnOther \/ \E number \in Serials \cup {NoName} : OnImage(number)
  BY <1>8, <1>2 DEF OnSubscribed, OnOther, OnImage
<1> QED
  BY <1>1, <1>2, <1>3, <1>5, <1>6, <1>7, <1>8
     DEF Next, mqtt_connection_maintenance, mqtt_event_handler, Environment, Discover, SaveHost, SaveUser,
         Start, Started, OnConnected, OnError, RetryTick, HourPasses, WifiUp, WifiDown, ServerUp,
         ServerDown, BrokerUp, BrokerDown, Announce, SerialChanges, Restart, vars

\* More SUBACKs to come are still enough.
LEMMA EnoughAcks ==
    ASSUME NEW a \in Nat, NEW b \in Nat, NEW c \in Nat, a >= c, c + b >= 2
    PROVE  a + b >= 2
OBVIOUS

LEMMA MoreAcks ==
    ASSUME NEW a \in Nat, NEW b \in Nat, a >= 2
    PROVE  a + b >= 2
OBVIOUS

LEMMA NextTopics ==
    TypeInv /\ NoneInv /\ TopicsInv /\ AcksInv /\ [Next]_vars => TopicsInv' /\ AcksInv'
<1> SUFFICES ASSUME TypeInv, NoneInv, TopicsInv, AcksInv, [Next]_vars PROVE TopicsInv' /\ AcksInv'
  OBVIOUS
<1> USE DEF flags, backoff, endpoints, names, maintenance, network, bounds, frame, internals, outside
<1>1. Names /\ s_hw_id_subscribed \in BOOLEAN /\ s_subscribe_counter \in {0, 1} /\ acks \in Nat
  BY DEF TypeInv, Booleans, Names, Places
<1>2. serial \in Serials \cup {NoName} /\ s_last_serial_subscribed \in Serials \cup {NoName}
      /\ NoName \in Serials \cup {NoName}
  BY <1>1 DEF Names
<1>3. ASSUME NoticeOnly, UNCHANGED <<client, is_mqtt_ready, s_subscribe_counter>>
      PROVE  TopicsInv' /\ AcksInv'
  BY <1>3 DEF NoticeOnly, Notice, TopicsInv, AcksInv
<1>4. ASSUME NEW number \in Serials \cup {NoName},
             Refresh(number, s_hw_id_subscribed, s_last_serial_subscribed, TRUE),
             client = "connected", UNCHANGED <<client, is_mqtt_ready, s_subscribe_counter>>
      PROVE  TopicsInv' /\ AcksInv'
  <2>1. s_hw_id_subscribed /\ topics = {HwId} \cup ({s_last_serial_subscribed} \ {NoName})
    BY <1>4 DEF TopicsInv
  <2>2. /\ s_hw_id_subscribed' /\ s_last_serial_subscribed' = s_active_serial'
        /\ topics' = {HwId} \cup ({s_last_serial_subscribed'} \ {NoName})
        /\ acks' >= acks
    BY <1>1, <1>2, <1>4, <2>1, RefreshTopics
  <2>3. acks' \in Nat
    BY <1>1, <1>2, <1>4, RefreshType
  <2>4. AcksInv'
    <3>1. SUFFICES ASSUME ~is_mqtt_ready' PROVE acks' + s_subscribe_counter' >= 2
      BY DEF AcksInv
    <3>2. ~is_mqtt_ready /\ client = "connected"
      BY <1>4, <3>1
    <3>3. acks + s_subscribe_counter >= 2
      BY <3>2 DEF AcksInv
    <3>4. s_subscribe_counter' = s_subscribe_counter /\ s_subscribe_counter \in Nat /\ acks \in Nat
      BY <1>1, <1>4
    <3>5. acks' >= acks
      BY <2>2
    <3>6. acks' + s_subscribe_counter >= 2
      BY <2>3, <3>3, <3>4, <3>5, EnoughAcks
    <3> QED BY <3>4, <3>6
  <2> QED BY <2>2, <2>4 DEF TopicsInv
<1>5. ASSUME RefreshNow, UNCHANGED <<client, is_mqtt_ready, s_subscribe_counter>>
      PROVE  TopicsInv' /\ AcksInv'
  <2>1. CASE client = "connected"
    <3>1. Refresh(serial, s_hw_id_subscribed, s_last_serial_subscribed, TRUE)
      BY <1>5, <2>1 DEF RefreshNow
    <3> QED BY <1>2, <1>4, <1>5, <2>1, <3>1
  <2>2. CASE client # "connected"
    BY <1>5, <2>2 DEF TopicsInv, AcksInv
  <2> QED BY <2>1, <2>2
<1>6. CASE mqtt_subscribe_app_topics
  BY <1>3, <1>5, <1>6 DEF mqtt_subscribe_app_topics
<1>7. CASE Maintain
  BY <1>3, <1>5, <1>7 DEF Maintain, Off, NotStarted, Working, Broken
<1>8. CASE OnConnected
  <2>1. Refresh(serial, FALSE, NoName, TRUE) /\ UNCHANGED <<is_mqtt_ready, s_subscribe_counter>>
    BY <1>8 DEF OnConnected
  <2>2. acks' \in Nat
    BY <1>1, <1>2, <2>1, RefreshType
  <2>3. topics = {}
    BY <1>8 DEF OnConnected, NoneInv
  <2>4. /\ s_hw_id_subscribed' /\ s_last_serial_subscribed' = s_active_serial'
        /\ topics' = {HwId} \cup ({s_last_serial_subscribed'} \ {NoName})
        /\ acks' >= 2
    BY <1>1, <1>2, <2>1, <2>3, RefreshTopics
  <2>5. s_subscribe_counter' \in Nat
    BY <1>1, <2>1
  <2>6. acks' >= 2
    BY <2>4
  <2>7. acks' + s_subscribe_counter' >= 2
    BY <2>2, <2>5, <2>6, MoreAcks
  <2> QED BY <2>4, <2>7 DEF TopicsInv, AcksInv
<1>9. CASE OnSubscribed
  <2>1. TopicsInv'
    BY <1>9 DEF OnSubscribed, Notice, TopicsInv
  <2>2. CASE is_mqtt_ready'
    <3>1. AcksInv'
      BY <2>2, Zenon DEF AcksInv
    <3> QED BY <2>1, <3>1
  <2>3. CASE ~is_mqtt_ready' /\ s_subscribe_counter = 0
    <3>1. ~is_mqtt_ready /\ client = "connected" /\ acks' = acks - 1 /\ s_subscribe_counter' = 1
      BY <1>9, <2>3 DEF OnSubscribed
    <3>2. acks >= 2
      BY <1>1, <2>3, <3>1 DEF AcksInv
    <3>3. acks \in Nat /\ acks' = acks - 1 /\ s_subscribe_counter' = 1
      BY <1>1, <3>1
    <3>4. acks' + s_subscribe_counter' >= 2
      BY <3>2, <3>3
    <3> QED BY <2>1, <3>4 DEF AcksInv
  <2> QED BY <1>1, <1>9, <2>1, <2>2, <2>3 DEF OnSubscribed
<1>10. CASE OnOther
  BY <1>3, <1>10 DEF OnOther
<1>11. ASSUME NEW number \in Serials \cup {NoName}, OnImage(number) PROVE TopicsInv' /\ AcksInv'
  BY <1>4, <1>11 DEF OnImage
<1>12. CASE client' # "connected"
  BY <1>12 DEF TopicsInv, AcksInv
<1>13. CASE UNCHANGED <<client, is_mqtt_ready, s_subscribe_counter, names>>
  BY <1>13 DEF TopicsInv, AcksInv
<1> QED
  BY <1>6, <1>7, <1>8, <1>9, <1>10, <1>11, <1>12, <1>13
     DEF Next, mqtt_connection_maintenance, mqtt_event_handler, Environment, Discover, SaveHost, SaveUser,
         Start, Started, Reconnect, OnError, OnDisconnected, RetryTick, HourPasses, WifiUp, WifiDown, ServerUp,
         ServerDown, BrokerUp, BrokerDown, Announce, SerialChanges, Restart, vars

SubscriptionInv == NoneInv /\ TopicsInv /\ AcksInv

LEMMA Subscribed == Spec => []SubscriptionInv
<1>1. Init => SubscriptionInv
  BY DEF Init, SubscriptionInv, NoneInv, TopicsInv, AcksInv
<1>2. TypeInv /\ SubscriptionInv /\ [Next]_vars => SubscriptionInv'
  BY NextNone, NextTopics DEF SubscriptionInv
<1> QED BY <1>1, <1>2, Typed, PTL DEF Spec

\* A connected client is subscribed under the hardware id and under the serial
\* number that the maintenance has seen and no other (mqtt_app.c:828, 996).
THEOREM SubscriptionsFollow == Spec => []TopicsFollowSerial
<1>1. SubscriptionInv => TopicsFollowSerial
  BY DEF SubscriptionInv, TopicsInv, TopicsFollowSerial
<1> QED BY <1>1, Subscribed, PTL

\* A client whose subscriptions are all acknowledged is ready (mqtt_app.c:870).
THEOREM ReadyWhenAcknowledged == Spec => []AcknowledgedIsReady
<1>1. TypeInv /\ SubscriptionInv => AcknowledgedIsReady
  <2> SUFFICES ASSUME TypeInv, SubscriptionInv, client = "connected", acks = 0, ~is_mqtt_ready
               PROVE  FALSE
    BY DEF AcknowledgedIsReady
  <2>1. acks + s_subscribe_counter >= 2
    BY DEF SubscriptionInv, AcksInv
  <2>2. s_subscribe_counter \in {0, 1}
    BY DEF TypeInv, Places
  <2> QED BY <2>1, <2>2
<1> QED BY <1>1, Subscribed, Typed, PTL
=============================================================================
