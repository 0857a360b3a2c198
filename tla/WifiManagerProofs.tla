-------------------------- MODULE WifiManagerProofs --------------------------
(***************************************************************************)
(* Proofs about WifiManager for every value of its constants that          *)
(* satisfies WifiAssumption: the types and the limits of the queue and of  *)
(* the packets, that the last request wins, that the radio uses what NVS   *)
(* holds, and that the status tells what packets there are.                *)
(***************************************************************************)
EXTENDS WifiManager, SequenceTheorems, TLAPS

-----------------------------------------------------------------------------
(* The invariants *)

Requests == [cred : Pairs, persist_to_nvs : BOOLEAN, id : Nat]

FlagTypes ==
    /\ linked \in BOOLEAN /\ s_prov_timer \in BOOLEAN /\ joining \in BOOLEAN
    /\ bits \in BOOLEAN /\ Wifi_Connected_Flag \in BOOLEAN /\ raced \in BOOLEAN

\* The packets and what the app reads.
PacketTypes ==
    /\ ssid_packet \in Strings \cup {<<>>} /\ password_packet \in Strings \cup {<<>>}
    /\ s_prov_status_value \in {"IDLE", "WAIT_SSID", "WAIT_PASSWORD", "READY", "APPLYING", "DONE",
                                "ERROR", "BOOTING", "RUNTIME_READY"}

\* The credentials in their four places, and those of the station.
CredTypes ==
    /\ WIFI_SSID \in Strings /\ WIFI_PASSWORD \in Strings
    /\ wifi_ssid \in Strings /\ wifi_pass \in Strings
    /\ station \in Pairs \cup {Nowhere}
    /\ up \subseteq Networks

\* What was sent; a request is sent only when both packets are there.
SentTypes ==
    /\ sent \in Pairs \cup {Nowhere}
    /\ ble.at = "send" => ssid_packet # <<>> /\ password_packet # <<>>

\* The callback, and the request that it makes room for.
Callbacks == [at : {"idle", "send", "drop", "resend"}, cloud : BOOLEAN,
              request : Requests \cup {NoRequest}]
BleRecord(b) ==
    /\ b \in Callbacks
    /\ b.at \in {"drop", "resend"} => b.request \in Requests /\ b.request.persist_to_nvs

BleTypes == BleRecord(ble)

\* The requests in the queue and in the task.
RequestTypes ==
    /\ s_wifi_req_queue \in Seq(Requests) /\ Len(s_wifi_req_queue) <= QueueLen
    /\ latest \in Requests \cup {NoRequest}
    /\ pc \in {"drain", "apply", "nvs_ssid", "nvs_pass", "copy"} => latest \in Requests
    /\ pc \in {"boot", "idle", "drain", "apply", "nvs_ssid", "nvs_pass", "copy", "try", "wait"}
    /\ s_wifi_request_counter \in Nat /\ newest \in Nat /\ taken \in Nat

\* The attempts.
RetryTypes == retry \in 0..MaxRetry - 1

Types == FlagTypes /\ PacketTypes /\ CredTypes /\ SentTypes /\ BleTypes /\ RequestTypes /\ RetryTypes

\* The newest request is the last of the queue; with an empty queue it is the one that the
\* task took last, unless a sender has just made room.
NewestInv ==
    /\ s_wifi_req_queue # <<>> => newest = s_wifi_req_queue[Len(s_wifi_req_queue)].id
    /\ s_wifi_req_queue = <<>> /\ ble.at # "resend" =>
          newest = IF pc = "drain" THEN latest.id ELSE taken

Stored == Pair(wifi_ssid, wifi_pass)
Shared == Pair(WIFI_SSID, WIFI_PASSWORD)

\* The start-up's request is what NVS holds, and nothing is saved before it is done with.
BootInv ==
    /\ pc = "boot" /\ ~raced => Shared = Stored
    /\ \A i \in 1..Len(s_wifi_req_queue) :
          ~s_wifi_req_queue[i].persist_to_nvs =>
              /\ pc \in {"idle", "drain"}
              /\ ~raced => s_wifi_req_queue[i].cred = Stored
    /\ pc \in {"drain", "apply", "copy"} /\ ~raced /\ ~latest.persist_to_nvs => latest.cred = Stored
    /\ pc \in {"nvs_ssid", "nvs_pass"} => latest.persist_to_nvs

\* What NVS, the shared pair and the station have to do with each other at each step
\* of the task.
StoredInv ==
    /\ pc = "boot" => station = Nowhere
    /\ losses = 0 /\ ~raced /\ pc \in {"idle", "drain", "apply", "wait"} =>
          station \in {Nowhere, Stored}
    /\ pc = "nvs_pass" => wifi_ssid = latest.cred.ssid
    /\ losses = 0 /\ pc = "copy" /\ latest.persist_to_nvs => latest.cred = Stored
    /\ pc = "try" /\ losses = 0 => station = Nowhere
    /\ pc \in {"try", "wait"} /\ ~raced /\ losses = 0 => Shared = Stored
    /\ losses \in Nat

IInv == Types /\ NewestInv /\ BootInv /\ StoredInv /\ StatusMatches

-----------------------------------------------------------------------------
(* Lemmas *)

\* A string is a sequence of at most MaxLength fragments, and is not empty.
LEMMA StringIsSeq ==
    ASSUME NEW s
    PROVE  s \in Strings <=> s \in Seq(Networks) /\ Len(s) \in 1..MaxLength
<1>1. ASSUME s \in Strings PROVE s \in Seq(Networks) /\ Len(s) \in 1..MaxLength
  <2>1. PICK k \in 1..MaxLength : s \in [1..k -> Networks]
    BY <1>1 DEF Strings
  <2>2. k \in Nat /\ Len(s) = k
    BY <2>1, WifiAssumption
  <2> QED
    BY <2>1, <2>2
<1>2. ASSUME s \in Seq(Networks), Len(s) \in 1..MaxLength PROVE s \in Strings
  <2>1. s \in [1..Len(s) -> Networks]
    BY <1>2
  <2> QED
    BY <2>1, <1>2 DEF Strings
<1> QED
  BY <1>1, <1>2

LEMMA NotEmpty == <<>> \notin Strings
<1>1. Len(<<>>) = 0
  OBVIOUS
<1> QED
  BY <1>1, StringIsSeq, WifiAssumption

\* A fragment appended to a packet that is not full (ble.c:74).
LEMMA Longer ==
    ASSUME NEW s \in Strings \cup {<<>>}, Len(s) < MaxLength, NEW n \in Networks
    PROVE  Append(s, n) \in Strings /\ Append(s, n) # <<>>
<1>1. s \in Seq(Networks) /\ Len(s) \in Nat
  <2>1. CASE s \in Strings
    BY <2>1, StringIsSeq
  <2>2. CASE s = <<>>
    BY <2>2
  <2> QED
    BY <2>1, <2>2
<1>2. Append(s, n) \in Seq(Networks) /\ Len(Append(s, n)) = Len(s) + 1
  BY <1>1
<1>3. Append(s, n) \in Strings
  <2>1. Len(Append(s, n)) \in 1..MaxLength
    BY <1>1, <1>2, WifiAssumption
  <2> QED
    BY <1>2, <2>1, StringIsSeq
<1> QED
  BY <1>3, NotEmpty

LEMMA PairIsPair ==
    ASSUME NEW s \in Strings, NEW p \in Strings
    PROVE  /\ Pair(s, p) \in Pairs /\ Pair(s, p) # Nowhere
           /\ Pair(s, p).ssid = s /\ Pair(s, p).pass = p
<1>1. s # <<>>
  BY NotEmpty
<1> QED
  BY <1>1 DEF Pair, Pairs, Nowhere

\* What comes of the queue when a request is taken out or put in.
LEMMA Queues ==
    ASSUME NEW q \in Seq(Requests), NEW r \in Requests
    PROVE  /\ Append(q, r) \in Seq(Requests) /\ Append(q, r) # <<>>
           /\ Len(Append(q, r)) = Len(q) + 1
           /\ Append(q, r)[Len(Append(q, r))] = r
           /\ \A i \in 1..Len(Append(q, r)) :
                 \/ i \in 1..Len(q) /\ Append(q, r)[i] = q[i]
                 \/ Append(q, r)[i] = r
           /\ Len(q) \in Nat
OBVIOUS

LEMMA Taking ==
    ASSUME NEW q \in Seq(Requests), q # <<>>
    PROVE  /\ Head(q) = q[1] /\ Head(q) \in Requests
           /\ Tail(q) \in Seq(Requests) /\ Len(Tail(q)) = Len(q) - 1 /\ Len(q) \in Nat \ {0}
           /\ \A i \in 1..Len(Tail(q)) : i + 1 \in 1..Len(q) /\ Tail(q)[i] = q[i + 1]
           /\ Tail(q) = <<>> => q[Len(q)] = Head(q)
           /\ Tail(q) # <<>> => Tail(q)[Len(Tail(q))] = q[Len(q)]
<1>1. Len(q) \in Nat \ {0} /\ Head(q) = q[1] /\ Head(q) \in Requests
  OBVIOUS
<1>2. Tail(q) \in Seq(Requests) /\ Len(Tail(q)) = Len(q) - 1
  BY <1>1
<1>3. \A i \in 1..Len(Tail(q)) : i + 1 \in 1..Len(q) /\ Tail(q)[i] = q[i + 1]
  BY <1>1, <1>2
<1>4. Tail(q) = <<>> => Len(q) = 1
  BY <1>1, <1>2
<1>5. Tail(q) # <<>> => Len(Tail(q)) \in 1..Len(Tail(q))
  BY <1>1, <1>2
<1>6. Tail(q) # <<>> => Tail(q)[Len(Tail(q))] = q[Len(q)]
  BY <1>1, <1>2, <1>3, <1>5
<1> QED
  BY <1>1, <1>2, <1>3, <1>4, <1>6

-----------------------------------------------------------------------------
(* The types *)

LEMMA InitTypes == Init => Types
<1> SUFFICES ASSUME Init PROVE Types
  OBVIOUS
<1>1. <<Home>> \in Strings
  <2>1. <<Home>> \in Seq(Networks) /\ Len(<<Home>>) \in 1..MaxLength
    BY WifiAssumption
  <2> QED
    BY <2>1, StringIsSeq
<1>2. FlagTypes
  BY DEF Init, FlagTypes
<1>3. PacketTypes /\ CredTypes /\ SentTypes
  BY <1>1 DEF Init, PacketTypes, CredTypes, SentTypes, Idle
<1>4. BleTypes /\ RequestTypes
  <2>1. s_wifi_req_queue \in Seq(Requests) /\ Len(s_wifi_req_queue) = 0
    BY DEF Init
  <2> QED
    BY <2>1, WifiAssumption DEF Init, RequestTypes, BleTypes, BleRecord, Callbacks, Idle
<1>5. RetryTypes
  BY WifiAssumption DEF Init, RetryTypes
<1> QED
  BY <1>2, <1>3, <1>4, <1>5 DEF Types

LEMMA TimerIsFlag ==
    ASSUME NEW status, SetProvStatus(status)
    PROVE  s_prov_timer' \in BOOLEAN
<1>1. s_prov_timer' = (status \in {"WAIT_SSID", "WAIT_PASSWORD", "READY"})
  BY DEF SetProvStatus
<1> QED
  BY <1>1, SMT

LEMMA RacedIsFlag ==
    ASSUME raced' = (raced \/ Exposed)
    PROVE  raced' \in BOOLEAN
BY Zenon

LEMMA FlagStep == FlagTypes /\ [Next]_vars => FlagTypes'
<1> SUFFICES ASSUME FlagTypes, [Next]_vars PROVE FlagTypes'
  OBVIOUS
<1> USE DEF prov, packets, globals, queue, task, nvs, radio, bounds, others, FlagTypes
<1>1. CASE AppConnects \/ AppDisconnects \/ WriteConnect \/ WriteOther
  BY <1>1, TimerIsFlag DEF AppConnects, AppDisconnects, WriteConnect, WriteOther
<1>2. ASSUME NEW n \in Networks, WriteSsid(n) \/ WritePassword(n) PROVE FlagTypes'
  BY <1>2, TimerIsFlag, RacedIsFlag DEF WriteSsid, WritePassword
<1>3. CASE Enqueue
  BY <1>3, TimerIsFlag DEF Enqueue, Send, Drop, Resend, Return
<1>4. CASE Copy
  <2>1. raced' \in BOOLEAN
    BY <1>4, Zenon DEF Copy
  <2> QED
    BY <1>4, <2>1 DEF Copy, RadioOff
<1>5. CASE mqtt_task /\ ~Copy
  BY <1>5 DEF mqtt_task, Boot, Receive, Drain, DrainEnd, Apply, StoreSsid, StorePassword, Try,
              WaitDone, WaitTimeout, RadioOff
<1>6. CASE Environment
  BY <1>6, TimerIsFlag DEF Environment, ProvTimeout, SetRuntimeReady, GotIp, StaDisconnected, Restart,
                           NetworkUp, NetworkDown, RadioOff
<1>7. CASE UNCHANGED vars
  BY <1>7 DEF vars
<1> QED
  BY <1>1, <1>2, <1>3, <1>4, <1>5, <1>6, <1>7 DEF Next, App

LEMMA PacketStep == PacketTypes /\ [Next]_vars => PacketTypes'
<1> SUFFICES ASSUME PacketTypes, [Next]_vars PROVE PacketTypes'
  OBVIOUS
<1> USE DEF prov, packets, globals, queue, task, nvs, radio, bounds, others, PacketTypes
<1>1. CASE AppConnects \/ AppDisconnects \/ WriteConnect \/ WriteOther
  BY <1>1 DEF AppConnects, AppDisconnects, WriteConnect, WriteOther, SetProvStatus
<1>2. ASSUME NEW n \in Networks, WriteSsid(n) PROVE PacketTypes'
  <2>1. Len(ssid_packet) < MaxLength => Append(ssid_packet, n) \in Strings
    BY Longer
  <2> QED
    BY <1>2, <2>1 DEF WriteSsid, SetProvStatus
<1>3. ASSUME NEW n \in Networks, WritePassword(n) PROVE PacketTypes'
  <2>1. Len(password_packet) < MaxLength => Append(password_packet, n) \in Strings
    BY Longer
  <2> QED
    BY <1>3, <2>1 DEF WritePassword, SetProvStatus
<1>4. CASE Enqueue
  BY <1>4 DEF Enqueue, Send, Drop, Resend, Return, SetProvStatus
<1>5. CASE mqtt_task
  BY <1>5 DEF mqtt_task, Boot, Receive, Drain, DrainEnd, Apply, StoreSsid, StorePassword, Copy, Try,
              WaitDone, WaitTimeout
<1>6. CASE Environment
  BY <1>6 DEF Environment, ProvTimeout, SetRuntimeReady, GotIp, StaDisconnected, Restart, NetworkUp,
              NetworkDown, SetProvStatus
<1>7. CASE UNCHANGED vars
  BY <1>7 DEF vars
<1> QED
  BY <1>1, <1>2, <1>3, <1>4, <1>5, <1>6, <1>7 DEF Next, App

LEMMA SentStep == PacketTypes /\ SentTypes /\ BleTypes /\ [Next]_vars => SentTypes'
<1> SUFFICES ASSUME PacketTypes, SentTypes, BleTypes, [Next]_vars PROVE SentTypes'
  OBVIOUS
<1> USE DEF prov, packets, globals, queue, task, nvs, radio, bounds, others, SentTypes, Idle
<1>1. CASE AppConnects \/ AppDisconnects \/ WriteConnect \/ WriteOther
  BY <1>1 DEF AppConnects, AppDisconnects, WriteConnect, WriteOther
<1>2. ASSUME NEW n \in Networks, WriteSsid(n) PROVE SentTypes'
  <2>1. Len(ssid_packet) < MaxLength => Append(ssid_packet, n) # <<>>
    BY Longer DEF PacketTypes
  <2> QED
    BY <1>2, <2>1 DEF WriteSsid, AppWrites
<1>3. ASSUME NEW n \in Networks, WritePassword(n) PROVE SentTypes'
  <2>1. Len(password_packet) < MaxLength => Append(password_packet, n) # <<>>
    BY Longer DEF PacketTypes
  <2> QED
    BY <1>3, <2>1 DEF WritePassword, AppWrites
<1>4. CASE Send
  <2>1. Pair(ssid_packet, password_packet) \in Pairs
    BY <1>4, PairIsPair DEF Send, PacketTypes
  <2> QED
    <3>1. sent' = Pair(ssid_packet, password_packet)
      BY <1>4 DEF Send
    <3>2. CASE ble' = Idle
      BY <2>1, <3>1, <3>2
    <3>3. CASE ble' # Idle
      <4>1. PICK r : ble' = [ble EXCEPT !.at = "drop", !.request = r]
        BY <1>4, <3>3 DEF Send, Return
      <4>2. ble'.at = "drop"
        BY <4>1 DEF BleTypes, BleRecord, Callbacks
      <4> QED
        BY <2>1, <3>1, <4>2
    <3> QED
      BY <3>2, <3>3
<1>5. CASE Drop \/ Resend
  BY <1>5 DEF Drop, Resend, Return, BleTypes, BleRecord, Callbacks
<1>6. CASE mqtt_task
  BY <1>6 DEF mqtt_task, Boot, Receive, Drain, DrainEnd, Apply, StoreSsid, StorePassword, Copy, Try,
              WaitDone, WaitTimeout
<1>7. CASE Environment
  BY <1>7 DEF Environment, ProvTimeout, SetRuntimeReady, GotIp, StaDisconnected, Restart, NetworkUp,
              NetworkDown, Nowhere
<1>8. CASE UNCHANGED vars
  BY <1>8 DEF vars
<1> QED
  BY <1>1, <1>2, <1>3, <1>4, <1>5, <1>6, <1>7, <1>8 DEF Next, App, Enqueue

LEMMA CredStep == PacketTypes /\ CredTypes /\ RequestTypes /\ [Next]_vars => CredTypes'
<1> SUFFICES ASSUME PacketTypes, CredTypes, RequestTypes, [Next]_vars PROVE CredTypes'
  OBVIOUS
<1> USE DEF prov, packets, globals, queue, task, nvs, radio, bounds, others, CredTypes
<1>1. CASE AppConnects \/ AppDisconnects \/ WriteConnect \/ WriteOther
  BY <1>1 DEF AppConnects, AppDisconnects, WriteConnect, WriteOther
<1>2. ASSUME NEW n \in Networks, WriteSsid(n) PROVE CredTypes'
  <2>1. Len(ssid_packet) < MaxLength => Append(ssid_packet, n) \in Strings
    BY Longer DEF PacketTypes
  <2> QED
    BY <1>2, <2>1 DEF WriteSsid
<1>3. ASSUME NEW n \in Networks, WritePassword(n) PROVE CredTypes'
  <2>1. Len(password_packet) < MaxLength => Append(password_packet, n) \in Strings
    BY Longer DEF PacketTypes
  <2> QED
    BY <1>3, <2>1 DEF WritePassword
<1>4. CASE Enqueue
  BY <1>4 DEF Enqueue, Send, Drop, Resend
<1>5. CASE Boot \/ Receive \/ Drain \/ DrainEnd \/ Apply \/ WaitDone \/ WaitTimeout
  BY <1>5 DEF Boot, Receive, Drain, DrainEnd, Apply, WaitDone, WaitTimeout, RadioOff
<1>6. CASE StoreSsid \/ StorePassword \/ Copy
  <2>1. latest.cred.ssid \in Strings /\ latest.cred.pass \in Strings
    BY <1>6 DEF StoreSsid, StorePassword, Copy, RequestTypes, Requests, Pairs
  <2> QED
    BY <1>6, <2>1 DEF StoreSsid, StorePassword, Copy, RadioOff
<1>7. CASE Try
  <2>1. Pair(WIFI_SSID, WIFI_PASSWORD) \in Pairs
    BY PairIsPair
  <2> QED
    BY <1>7, <2>1 DEF Try
<1>8. CASE Environment
  BY <1>8 DEF Environment, ProvTimeout, SetRuntimeReady, GotIp, StaDisconnected, Restart, NetworkUp,
              NetworkDown, RadioOff
<1>9. CASE UNCHANGED vars
  BY <1>9 DEF vars
<1> QED
  BY <1>1, <1>2, <1>3, <1>4, <1>5, <1>6, <1>7, <1>8, <1>9 DEF Next, App, mqtt_task

LEMMA RetryStep == RetryTypes /\ [Next]_vars => RetryTypes'
<1> SUFFICES ASSUME RetryTypes, [Next]_vars PROVE RetryTypes'
  OBVIOUS
<1> USE DEF prov, packets, globals, queue, task, nvs, radio, bounds, others, RetryTypes
<1>1. ASSUME \/ Returns \/ NextTry \/ \E next : GoesOn(next) \/ UNCHANGED retry
      PROVE  RetryTypes'
  <2>1. MaxRetry \in Nat \ {0}
    BY WifiAssumption
  <2> QED
    BY <1>1, <2>1 DEF Returns, NextTry, GoesOn
<1>2. CASE App \/ Enqueue
  BY <1>1, <1>2 DEF App, AppConnects, AppDisconnects, WriteConnect, WriteOther, WriteSsid,
                    WritePassword, Enqueue, Send, Drop, Resend
<1>3. CASE mqtt_task
  BY <1>1, <1>3 DEF mqtt_task, Boot, Receive, Drain, DrainEnd, Apply, StoreSsid, StorePassword, Copy,
                    Try, WaitDone, WaitTimeout
<1>4. CASE Restart
  BY <1>4, WifiAssumption DEF Restart
<1>5. CASE Environment /\ ~Restart
  BY <1>1, <1>5 DEF Environment, ProvTimeout, SetRuntimeReady, GotIp, StaDisconnected, NetworkUp,
                    NetworkDown
<1>6. CASE UNCHANGED vars
  BY <1>6 DEF vars
<1> QED
  BY <1>2, <1>3, <1>4, <1>5, <1>6 DEF Next

LEMMA IdleRecords ==
    /\ BleRecord(Idle)
    /\ BleRecord([Idle EXCEPT !.at = "send"])
    /\ BleRecord([Idle EXCEPT !.at = "send", !.cloud = TRUE])
<1>1. BleRecord(Idle)
  BY DEF BleRecord, Callbacks, Idle
<1>2. BleRecord([Idle EXCEPT !.at = "send"])
  BY DEF BleRecord, Callbacks, Idle
<1>3. BleRecord([Idle EXCEPT !.at = "send", !.cloud = TRUE])
  BY DEF BleRecord, Callbacks, Idle
<1> QED
  BY <1>1, <1>2, <1>3

LEMMA RoomRecord ==
    ASSUME BleRecord(ble), NEW r \in Requests, r.persist_to_nvs
    PROVE  BleRecord([ble EXCEPT !.at = "drop", !.request = r])
BY DEF BleRecord, Callbacks

LEMMA AgainRecord ==
    ASSUME BleRecord(ble), ble.at = "drop"
    PROVE  BleRecord([ble EXCEPT !.at = "resend"])
BY DEF BleRecord, Callbacks

\* The request that is made of the shared pair.
LEMMA RequestIsRequest ==
    ASSUME CredTypes, NEW persist \in BOOLEAN, NEW id \in Nat
    PROVE  /\ Request(persist, id) \in Requests
           /\ Request(persist, id).cred = Shared /\ Request(persist, id).id = id
           /\ Request(persist, id).persist_to_nvs = persist
<1>1. Pair(WIFI_SSID, WIFI_PASSWORD) \in Pairs
  BY PairIsPair DEF CredTypes
<1> QED
  BY <1>1 DEF Request, Requests, Shared

LEMMA NextId ==
    ASSUME RequestTypes
    PROVE  s_wifi_request_counter + 1 \in Nat
<1>1. s_wifi_request_counter \in Nat
  BY DEF RequestTypes
<1> QED
  BY <1>1

\* A request is put into the queue, in the place of the oldest when it is full.
LEMMA PutIn ==
    ASSUME NEW q \in Seq(Requests), Len(q) <= QueueLen, NEW r \in Requests
    PROVE  /\ Len(q) < QueueLen =>
                 Append(q, r) \in Seq(Requests) /\ Len(Append(q, r)) <= QueueLen
           /\ ~(Len(q) < QueueLen) =>
                 /\ q # <<>> /\ Tail(q) \in Seq(Requests) /\ Append(Tail(q), r) \in Seq(Requests)
                 /\ Len(Append(Tail(q), r)) <= QueueLen
<1>1. QueueLen \in Nat \ {0} /\ Len(q) \in Nat
  BY WifiAssumption
<1>2. CASE Len(q) < QueueLen
  BY <1>1, <1>2, Queues
<1>3. CASE ~(Len(q) < QueueLen)
  <2>1. q # <<>>
    BY <1>1, <1>3
  <2>2. Tail(q) \in Seq(Requests) /\ Len(Tail(q)) = Len(q) - 1
    BY <2>1, Taking
  <2>3. Append(Tail(q), r) \in Seq(Requests) /\ Len(Append(Tail(q), r)) = Len(q) - 1 + 1
    BY <2>2, Queues
  <2> QED
    BY <1>1, <1>3, <2>1, <2>2, <2>3
<1> QED
  BY <1>2, <1>3

LEMMA TakeOut ==
    ASSUME NEW q \in Seq(Requests), q # <<>>, Len(q) <= QueueLen
    PROVE  Tail(q) \in Seq(Requests) /\ Len(Tail(q)) <= QueueLen
<1>1. QueueLen \in Nat \ {0} /\ Len(q) \in Nat
  BY WifiAssumption
<1>2. Tail(q) \in Seq(Requests) /\ Len(Tail(q)) = Len(q) - 1
  BY Taking
<1> QED
  BY <1>1, <1>2

LEMMA BleStep == CredTypes /\ RequestTypes /\ BleTypes /\ [Next]_vars => BleTypes'
<1> SUFFICES ASSUME CredTypes, RequestTypes, BleTypes, [Next]_vars PROVE BleTypes'
  OBVIOUS
<1> USE DEF prov, packets, globals, queue, task, nvs, radio, bounds, others
<1>1. CASE \/ ble' = ble \/ ble' = Idle \/ ble' = [Idle EXCEPT !.at = "send"]
           \/ ble' = [Idle EXCEPT !.at = "send", !.cloud = TRUE]
  BY <1>1, IdleRecords, Zenon DEF BleTypes
<1>2. CASE App
  BY <1>1, <1>2 DEF App, AppConnects, AppDisconnects, WriteConnect, WriteOther, WriteSsid, WritePassword
<1>3. CASE Send
  <2>1. \/ ble' = Idle
        \/ ble' = [ble EXCEPT !.at = "drop", !.request = Request(TRUE, s_wifi_request_counter + 1)]
    BY <1>3 DEF Send, Return
  <2>2. /\ Request(TRUE, s_wifi_request_counter + 1) \in Requests
        /\ Request(TRUE, s_wifi_request_counter + 1).persist_to_nvs
    BY NextId, RequestIsRequest
  <2> QED
    BY <1>1, <2>1, <2>2, RoomRecord, Zenon DEF BleTypes
<1>4. CASE Drop
  <2>1. ble' = [ble EXCEPT !.at = "resend"] /\ ble.at = "drop" /\ ble.request \in Requests
    BY <1>4 DEF Drop, BleTypes, BleRecord, Callbacks
  <2> QED
    BY <2>1, AgainRecord, Zenon DEF BleTypes
<1>5. CASE Resend
  BY <1>1, <1>5 DEF Resend, Return
<1>6. CASE mqtt_task
  BY <1>1, <1>6 DEF mqtt_task, Boot, Receive, Drain, DrainEnd, Apply, StoreSsid, StorePassword, Copy,
                    Try, WaitDone, WaitTimeout
<1>7. CASE Environment
  BY <1>1, <1>7 DEF Environment, ProvTimeout, SetRuntimeReady, GotIp, StaDisconnected, Restart,
                    NetworkUp, NetworkDown
<1>8. CASE UNCHANGED vars
  BY <1>1, <1>8 DEF vars
<1> QED
  BY <1>2, <1>3, <1>4, <1>5, <1>6, <1>7, <1>8 DEF Next, Enqueue

LEMMA RequestStep == CredTypes /\ BleTypes /\ RequestTypes /\ [Next]_vars => RequestTypes'
<1> SUFFICES ASSUME CredTypes, BleTypes, RequestTypes, [Next]_vars PROVE RequestTypes'
  OBVIOUS
<1> USE DEF prov, packets, globals, queue, task, nvs, radio, bounds, others
<1>0. QueueLen \in Nat \ {0}
  BY WifiAssumption
<1> DEFINE TaskTypes == /\ latest' \in Requests \cup {NoRequest}
                        /\ pc' \in {"drain", "apply", "nvs_ssid", "nvs_pass", "copy"}
                              => latest' \in Requests
                        /\ pc' \in {"boot", "idle", "drain", "apply", "nvs_ssid", "nvs_pass", "copy",
                                    "try", "wait"}
           QueueTypes == s_wifi_req_queue' \in Seq(Requests) /\ Len(s_wifi_req_queue') <= QueueLen
           Counters == s_wifi_request_counter' \in Nat /\ newest' \in Nat /\ taken' \in Nat
<1>1. SUFFICES TaskTypes /\ QueueTypes /\ Counters
  BY DEF RequestTypes
<1>2. CASE UNCHANGED <<queue, task>>
  BY <1>2 DEF RequestTypes
<1>3. CASE App \/ (Environment /\ ~Restart)
  BY <1>2, <1>3 DEF App, AppConnects, AppDisconnects, WriteConnect, WriteOther, WriteSsid,
      WritePassword, Environment, ProvTimeout, SetRuntimeReady, GotIp, StaDisconnected, NetworkUp,
      NetworkDown
<1>4. CASE Restart
  BY <1>0, <1>4 DEF Restart
<1>5. CASE Send \/ Boot
  <2> DEFINE id == s_wifi_request_counter + 1
  <2>1. id \in Nat /\ s_wifi_request_counter' = id
    BY <1>5, NextId DEF Send, Boot
  <2>2. Request(TRUE, id) \in Requests /\ Request(FALSE, id) \in Requests /\ Request(TRUE, id).id = id
    BY <2>1, RequestIsRequest
  <2>3. s_wifi_req_queue \in Seq(Requests) /\ Len(s_wifi_req_queue) <= QueueLen
    BY DEF RequestTypes
  <2>4. CASE Send
    <3>1. \/ UNCHANGED <<s_wifi_req_queue, newest>>
          \/ /\ newest' = id /\ Len(s_wifi_req_queue) < QueueLen
             /\ s_wifi_req_queue' = Append(s_wifi_req_queue, Request(TRUE, id))
      BY <2>1, <2>2, <2>4 DEF Send
    <3>2. QueueTypes
      BY <2>2, <2>3, <3>1, PutIn
    <3>3. TaskTypes /\ Counters
      BY <2>1, <2>4, <3>1 DEF Send, RequestTypes
    <3> QED
      BY <3>2, <3>3
  <2>5. CASE Boot
    <3>1. \/ /\ Len(s_wifi_req_queue) < QueueLen
             /\ s_wifi_req_queue' = Append(s_wifi_req_queue, Request(FALSE, id))
          \/ /\ ~(Len(s_wifi_req_queue) < QueueLen)
             /\ s_wifi_req_queue' = Append(Tail(s_wifi_req_queue), Request(FALSE, id))
      BY <2>1, <2>5 DEF Boot
    <3>2. QueueTypes
      BY <2>2, <2>3, <3>1, PutIn
    <3>3. TaskTypes /\ Counters
      BY <2>1, <2>5 DEF Boot, RequestTypes
    <3> QED
      BY <3>2, <3>3
  <2> QED
    BY <1>5, <2>4, <2>5
<1>6. CASE Drop \/ Resend
  <2>1. ble.request \in Requests /\ ble.request.id \in Nat
    BY <1>6 DEF Drop, Resend, BleTypes, BleRecord, Callbacks, Requests
  <2>2. s_wifi_req_queue \in Seq(Requests) /\ Len(s_wifi_req_queue) <= QueueLen
    BY DEF RequestTypes
  <2>3. QueueTypes
    <3>1. CASE Drop
      <4>1. \/ s_wifi_req_queue' = s_wifi_req_queue
            \/ s_wifi_req_queue # <<>> /\ s_wifi_req_queue' = Tail(s_wifi_req_queue)
        BY <3>1 DEF Drop
      <4> QED
        BY <2>2, <4>1, TakeOut
    <3>2. CASE Resend
      <4>1. \/ s_wifi_req_queue' = s_wifi_req_queue
            \/ /\ Len(s_wifi_req_queue) < QueueLen
               /\ s_wifi_req_queue' = Append(s_wifi_req_queue, ble.request)
        BY <3>2 DEF Resend
      <4> QED
        BY <2>1, <2>2, <4>1, PutIn
    <3> QED
      BY <1>6, <3>1, <3>2
  <2>4. TaskTypes /\ Counters
    BY <1>6, <2>1 DEF Drop, Resend, RequestTypes
  <2> QED
    BY <2>3, <2>4
<1>7. CASE Receive \/ Drain
  <2>1. /\ s_wifi_req_queue \in Seq(Requests) /\ s_wifi_req_queue # <<>>
        /\ Len(s_wifi_req_queue) <= QueueLen
    BY <1>7 DEF Receive, Drain, RequestTypes
  <2>2. /\ s_wifi_req_queue' = Tail(s_wifi_req_queue) /\ latest' = Head(s_wifi_req_queue)
        /\ pc' = "drain" /\ UNCHANGED <<s_wifi_request_counter, newest, taken>>
    BY <1>7 DEF Receive, Drain
  <2>3. QueueTypes
    BY <2>1, <2>2, TakeOut
  <2>4. latest' \in Requests
    BY <2>1, <2>2, Taking
  <2> QED
    BY <2>2, <2>3, <2>4 DEF RequestTypes
<1>8. CASE DrainEnd
  <2>1. latest.id \in Nat
    BY <1>8 DEF DrainEnd, RequestTypes, Requests
  <2> QED
    BY <1>8, <2>1 DEF DrainEnd, RequestTypes
<1>9. CASE Apply \/ StoreSsid \/ StorePassword \/ Copy \/ Try \/ WaitDone \/ WaitTimeout
  <2>1. UNCHANGED queue /\ UNCHANGED taken
    BY <1>9 DEF Apply, StoreSsid, StorePassword, Copy, Try, WaitDone, WaitTimeout
  <2>2. TaskTypes
    BY <1>9 DEF Apply, StoreSsid, StorePassword, Copy, Try, WaitDone, WaitTimeout, Returns, GoesOn,
                NextTry, RequestTypes
  <2> QED
    BY <2>1, <2>2 DEF RequestTypes
<1>10. CASE UNCHANGED vars
  BY <1>2, <1>10 DEF vars
<1> QED
  BY <1>3, <1>4, <1>5, <1>6, <1>7, <1>8, <1>9, <1>10 DEF Next, Enqueue, mqtt_task

LEMMA TypesStep == Types /\ [Next]_vars => Types'
BY FlagStep, PacketStep, CredStep, SentStep, BleStep, RequestStep, RetryStep DEF Types

-----------------------------------------------------------------------------
(* The last request wins *)

LEMMA NewestStep == Types /\ NewestInv /\ [Next]_vars => NewestInv'
<1> SUFFICES ASSUME CredTypes, BleTypes, RequestTypes, NewestInv, [Next]_vars PROVE NewestInv'
  BY DEF Types
<1> USE DEF prov, packets, globals, queue, task, nvs, radio, bounds, others
<1> DEFINE q == s_wifi_req_queue
<1>1. QueueLen \in Nat \ {0} /\ q \in Seq(Requests) /\ Len(q) <= QueueLen
  BY WifiAssumption DEF RequestTypes
<1>2. CASE /\ UNCHANGED <<s_wifi_req_queue, newest, pc, latest, taken>>
           /\ ble.at = "resend" => ble'.at = "resend"
  BY <1>2 DEF NewestInv
<1>3. CASE App
  <2>1. ble' = ble \/ ble.at = "idle"
    BY <1>3 DEF App, AppConnects, AppDisconnects, WriteConnect, WriteOther, WriteSsid, WritePassword,
                AppWrites
  <2>2. UNCHANGED <<s_wifi_req_queue, newest, pc, latest, taken>>
    BY <1>3 DEF App, AppConnects, AppDisconnects, WriteConnect, WriteOther, WriteSsid, WritePassword
  <2> QED
    BY <1>2, <2>1, <2>2
<1>4. CASE Environment /\ ~Restart
  BY <1>2, <1>4 DEF Environment, ProvTimeout, SetRuntimeReady, GotIp, StaDisconnected, NetworkUp,
                    NetworkDown
<1>5. CASE Restart
  BY <1>5 DEF Restart, NewestInv
<1>6. ASSUME NEW r \in Requests, NEW p \in Seq(Requests),
             q' = Append(p, r), newest' = r.id
      PROVE  NewestInv'
  BY <1>6, Queues DEF NewestInv
<1>7. CASE Send
  <2> DEFINE id == s_wifi_request_counter + 1
  <2>1. Request(TRUE, id) \in Requests /\ Request(TRUE, id).id = id
    BY NextId, RequestIsRequest
  <2>2. \/ q' = Append(q, Request(TRUE, id)) /\ newest' = id
        \/ UNCHANGED <<s_wifi_req_queue, newest, pc, latest, taken>>
    BY <1>7, <2>1 DEF Send
  <2>3. ble.at # "resend"
    BY <1>7 DEF Send
  <2> QED
    BY <1>1, <1>2, <1>6, <2>1, <2>2, <2>3
<1>8. CASE Drop
  <2>1. ble'.at = "resend" /\ ble.at # "resend" /\ UNCHANGED newest
    BY <1>8 DEF Drop, BleTypes, BleRecord, Callbacks
  <2>2. q' = q \/ (q # <<>> /\ q' = Tail(q))
    BY <1>8 DEF Drop
  <2>3. q' # <<>> => q # <<>> /\ q'[Len(q')] = q[Len(q)]
    BY <1>1, <2>2, Taking
  <2> QED
    BY <2>1, <2>3 DEF NewestInv
<1>9. CASE Resend
  <2>1. ble.request \in Requests
    BY <1>9 DEF Resend, BleTypes, BleRecord, Callbacks
  <2>2. CASE q' = Append(q, ble.request) /\ newest' = ble.request.id
    BY <1>1, <1>6, <2>1, <2>2
  <2>3. CASE Len(q) = QueueLen /\ q' = q /\ newest' = newest
    <3>1. q # <<>>
      BY <1>1, <2>3
    <3> QED
      BY <2>3, <3>1 DEF NewestInv
  <2> QED
    BY <1>9, <2>2, <2>3 DEF Resend
<1>10. CASE Boot
  <2> DEFINE id == s_wifi_request_counter + 1
  <2>1. Request(FALSE, id) \in Requests /\ Request(FALSE, id).id = id
    BY NextId, RequestIsRequest
  <2>2. PICK p : q' = Append(p, Request(FALSE, id)) /\ p = IF Len(q) < QueueLen THEN q ELSE Tail(q)
    BY <1>10 DEF Boot
  <2>3. p \in Seq(Requests)
    BY <1>1, <2>1, <2>2, PutIn
  <2>4. newest' = id
    BY <1>10 DEF Boot
  <2> QED
    BY <1>6, <2>1, <2>2, <2>3, <2>4
<1>11. CASE Receive \/ Drain
  <2>1. /\ q # <<>> /\ q' = Tail(q) /\ latest' = Head(q) /\ pc' = "drain" /\ UNCHANGED newest
    BY <1>11 DEF Receive, Drain
  <2>2. newest = q[Len(q)].id
    BY <2>1 DEF NewestInv
  <2>3. /\ q' = <<>> => q[Len(q)] = latest'
        /\ q' # <<>> => q'[Len(q')] = q[Len(q)]
    BY <1>1, <2>1, Taking
  <2> QED
    BY <2>1, <2>2, <2>3 DEF NewestInv
<1>12. CASE DrainEnd
  BY <1>12 DEF DrainEnd, NewestInv
<1>13. CASE Apply \/ StoreSsid \/ StorePassword \/ Copy \/ Try \/ WaitDone \/ WaitTimeout
  <2>1. UNCHANGED <<s_wifi_req_queue, newest, taken, ble>>
    BY <1>13 DEF Apply, StoreSsid, StorePassword, Copy, Try, WaitDone, WaitTimeout
  <2>2. pc # "drain" /\ pc' # "drain"
    BY <1>13 DEF Apply, StoreSsid, StorePassword, Copy, Try, WaitDone, WaitTimeout, Returns, GoesOn,
                 NextTry
  <2> QED
    BY <2>1, <2>2 DEF NewestInv
<1>14. CASE UNCHANGED vars
  BY <1>2, <1>14 DEF vars
<1> QED
  BY <1>3, <1>4, <1>5, <1>7, <1>8, <1>9, <1>10, <1>11, <1>12, <1>13, <1>14 DEF Next, Enqueue, mqtt_task

-----------------------------------------------------------------------------
(* The status tells what packets there are *)

LEMMA StatusStep == Types /\ StatusMatches /\ [Next]_vars => StatusMatches'
<1> SUFFICES ASSUME PacketTypes, StatusMatches, [Next]_vars PROVE StatusMatches'
  BY DEF Types
<1> USE DEF prov, packets, globals, queue, task, nvs, radio, bounds, others, StatusMatches, SetProvStatus
<1>1. CASE AppConnects \/ AppDisconnects \/ WriteConnect \/ WriteOther
  BY <1>1 DEF AppConnects, AppDisconnects, WriteConnect, WriteOther
<1>2. ASSUME NEW n \in Networks, WriteSsid(n) PROVE StatusMatches'
  <2>1. Len(ssid_packet) < MaxLength => Append(ssid_packet, n) # <<>>
    BY Longer DEF PacketTypes
  <2> QED
    BY <1>2, <2>1 DEF WriteSsid
<1>3. ASSUME NEW n \in Networks, WritePassword(n) PROVE StatusMatches'
  <2>1. Len(password_packet) < MaxLength => Append(password_packet, n) # <<>>
    BY Longer DEF PacketTypes
  <2> QED
    BY <1>3, <2>1 DEF WritePassword
<1>4. CASE Enqueue
  BY <1>4 DEF Enqueue, Send, Drop, Resend, Return
<1>5. CASE mqtt_task
  BY <1>5 DEF mqtt_task, Boot, Receive, Drain, DrainEnd, Apply, StoreSsid, StorePassword, Copy, Try,
              WaitDone, WaitTimeout
<1>6. CASE Environment
  BY <1>6 DEF Environment, ProvTimeout, SetRuntimeReady, GotIp, StaDisconnected, Restart, NetworkUp,
              NetworkDown
<1>7. CASE UNCHANGED vars
  BY <1>7 DEF vars
<1> QED
  BY <1>1, <1>2, <1>3, <1>4, <1>5, <1>6, <1>7 DEF Next, App

-----------------------------------------------------------------------------
(* NVS, the shared pair and the station *)

\* The app changes the shared pair alone, and where the task will read it, raced tells.
LEMMA AppFrame ==
    ASSUME App
    PROVE  /\ UNCHANGED <<s_wifi_req_queue, pc, latest, wifi_ssid, wifi_pass, station, losses>>
           /\ ~raced' => ~raced
           /\ ~raced' /\ pc \in {"boot", "try", "wait"} => UNCHANGED globals
<1> USE DEF prov, packets, globals, queue, task, nvs, radio, bounds, others
<1>1. CASE AppConnects \/ AppDisconnects \/ WriteConnect \/ WriteOther
  BY <1>1 DEF AppConnects, AppDisconnects, WriteConnect, WriteOther
<1>2. ASSUME NEW n \in Networks, WriteSsid(n) \/ WritePassword(n)
      PROVE  /\ UNCHANGED <<s_wifi_req_queue, pc, latest, wifi_ssid, wifi_pass, station, losses>>
             /\ ~raced' => ~raced
             /\ ~raced' /\ pc \in {"boot", "try", "wait"} => UNCHANGED globals
  <2>1. UNCHANGED <<s_wifi_req_queue, pc, latest, wifi_ssid, wifi_pass, station, losses>>
    BY <1>2 DEF WriteSsid, WritePassword
  <2>2. raced' = (raced \/ Exposed) \/ (raced' = raced /\ UNCHANGED globals)
    BY <1>2 DEF WriteSsid, WritePassword
  <2>3. pc \in {"boot", "try", "wait"} => Exposed
    BY DEF Exposed
  <2>4. ~raced' => ~raced
    BY <2>2, Zenon
  <2>5. ~raced' /\ Exposed => UNCHANGED globals
    BY <2>2, Zenon DEF globals
  <2> QED
    BY <2>1, <2>3, <2>4, <2>5, Zenon
<1> QED
  BY <1>1, <1>2 DEF App

\* The callback's own steps change the queue alone.
LEMMA EnqueueFrame ==
    ASSUME Enqueue
    PROVE  UNCHANGED <<globals, pc, latest, wifi_ssid, wifi_pass, station, losses, raced>>
BY DEF Enqueue, Send, Drop, Resend, prov, packets, globals, queue, task, nvs, radio, bounds

\* The world changes none of it but the count of failed calls.
LEMMA WorldFrame ==
    ASSUME Environment, ~Restart, losses \in Nat
    PROVE  /\ UNCHANGED <<s_wifi_req_queue, globals, pc, latest, wifi_ssid, wifi_pass, station, raced>>
           /\ losses' \in Nat /\ (losses' = 0 => losses = 0)
<1>1. losses' = losses \/ losses' = losses + 1
  BY DEF Environment, ProvTimeout, SetRuntimeReady, GotIp, StaDisconnected, NetworkUp, NetworkDown,
         Loss, prov, packets, globals, queue, task, nvs, radio, bounds, others
<1>2. UNCHANGED <<s_wifi_req_queue, globals, pc, latest, wifi_ssid, wifi_pass, station, raced>>
  BY DEF Environment, ProvTimeout, SetRuntimeReady, GotIp, StaDisconnected, NetworkUp, NetworkDown,
         prov, packets, globals, queue, task, nvs, radio, bounds, others
<1>3. losses' \in Nat /\ (losses' = 0 => losses = 0)
  BY <1>1
<1> QED
  BY <1>2, <1>3

LEMMA BootStep == Types /\ BootInv /\ StoredInv /\ [Next]_vars => BootInv'
<1> SUFFICES ASSUME CredTypes, BleTypes, RequestTypes, BootInv, StoredInv, [Next]_vars
             PROVE  BootInv'
  BY DEF Types
<1> USE DEF prov, packets, globals, queue, task, nvs, radio, bounds, others
<1> DEFINE q == s_wifi_req_queue
           OfBoot(r) == ~r.persist_to_nvs => /\ pc \in {"idle", "drain"}
                                             /\ ~raced => r.cred = Stored
<1>1. /\ QueueLen \in Nat \ {0} /\ q \in Seq(Requests) /\ Len(q) <= QueueLen
      /\ \A i \in 1..Len(q) : OfBoot(q[i])
  BY WifiAssumption DEF RequestTypes, BootInv
<1>2. CASE UNCHANGED <<pc, latest, wifi_ssid, wifi_pass>>
           /\ (~raced' => ~raced)
           /\ (~raced' /\ pc = "boot" => UNCHANGED globals)
           /\ \A i \in 1..Len(q') : q'[i].persist_to_nvs \/ \E j \in 1..Len(q) : q'[i] = q[j]
  BY <1>1, <1>2 DEF BootInv, Stored, Shared
<1>3. CASE App
  BY <1>2, <1>3, AppFrame
<1>4. CASE Environment /\ ~Restart
  BY <1>2, <1>4, WorldFrame DEF StoredInv
<1>5. CASE Restart
  BY <1>5 DEF Restart, BootInv, Stored, Shared
<1>6. CASE Enqueue
  <2>1. \/ q' = q
        \/ q # <<>> /\ q' = Tail(q)
        \/ \E r \in Requests : r.persist_to_nvs /\ q' = Append(q, r)
    <3>1. CASE Send
      <4>1. /\ Request(TRUE, s_wifi_request_counter + 1) \in Requests
            /\ Request(TRUE, s_wifi_request_counter + 1).persist_to_nvs
        BY NextId, RequestIsRequest
      <4> QED
        BY <3>1, <4>1 DEF Send
    <3>2. CASE Drop
      BY <3>2 DEF Drop
    <3>3. CASE Resend
      BY <3>3 DEF Resend, BleTypes, BleRecord, Callbacks
    <3> QED
      BY <1>6, <3>1, <3>2, <3>3 DEF Enqueue
  <2>2. \A i \in 1..Len(q') : q'[i].persist_to_nvs \/ \E j \in 1..Len(q) : q'[i] = q[j]
    <3>1. CASE q' = q
      BY <3>1
    <3>2. CASE q # <<>> /\ q' = Tail(q)
      BY <1>1, <3>2, Taking
    <3>3. ASSUME NEW r \in Requests, r.persist_to_nvs, q' = Append(q, r)
          PROVE  \A i \in 1..Len(q') : q'[i].persist_to_nvs \/ \E j \in 1..Len(q) : q'[i] = q[j]
      <4>1. \A i \in 1..Len(q') : (i \in 1..Len(q) /\ q'[i] = q[i]) \/ q'[i] = r
        BY <1>1, <3>3, Queues
      <4> QED
        BY <3>3, <4>1
    <3> QED
      BY <2>1, <3>1, <3>2, <3>3
  <2> QED
    BY <1>2, <1>6, <2>2, EnqueueFrame
<1>7. CASE Boot
  <2> DEFINE r == Request(FALSE, s_wifi_request_counter + 1)
  <2>1. r \in Requests /\ r.cred = Shared
    BY NextId, RequestIsRequest
  <2>2. PICK p : q' = Append(p, r) /\ p = IF Len(q) < QueueLen THEN q ELSE Tail(q)
    BY <1>7 DEF Boot
  <2>3. p \in Seq(Requests) /\ \A i \in 1..Len(p) : \E j \in 1..Len(q) : p[i] = q[j]
    BY <1>1, <2>1, <2>2, PutIn, Taking
  <2>4. /\ pc = "boot" /\ pc' = "idle"
        /\ UNCHANGED <<WIFI_SSID, WIFI_PASSWORD, wifi_ssid, wifi_pass, raced>>
    BY <1>7 DEF Boot
  <2>5. \A i \in 1..Len(p) : p[i].persist_to_nvs
    BY <1>1, <2>3, <2>4
  <2>6. ~raced' => r.cred = Stored'
    BY <2>1, <2>4 DEF BootInv, Stored
  <2>7. \A i \in 1..Len(q') : q'[i].persist_to_nvs \/ q'[i] = r
    <3>1. \A i \in 1..Len(q') : (i \in 1..Len(p) /\ q'[i] = p[i]) \/ q'[i] = r
      BY <2>1, <2>2, <2>3, Queues
    <3> QED
      BY <2>5, <3>1
  <2> QED
    BY <2>4, <2>6, <2>7 DEF BootInv
<1>8. CASE Receive \/ Drain
  <2>1. /\ q # <<>> /\ q' = Tail(q) /\ latest' = Head(q) /\ pc' = "drain" /\ pc \in {"idle", "drain"}
        /\ UNCHANGED <<WIFI_SSID, WIFI_PASSWORD, wifi_ssid, wifi_pass, raced>>
    BY <1>8 DEF Receive, Drain
  <2>2. \A i \in 1..Len(q') : \E j \in 1..Len(q) : q'[i] = q[j]
    BY <1>1, <2>1, Taking
  <2>3. latest' = q[1] /\ 1 \in 1..Len(q)
    BY <1>1, <2>1, Taking
  <2> QED
    BY <1>1, <2>1, <2>2, <2>3 DEF BootInv, Stored
<1>9. CASE DrainEnd
  <2>1. Len(q') = 0
    BY <1>9 DEF DrainEnd
  <2> QED
    BY <1>9, <2>1 DEF DrainEnd, BootInv, Stored
<1>10. CASE Apply \/ StoreSsid \/ StorePassword \/ Copy \/ Try \/ WaitDone \/ WaitTimeout
  <2>1. q' = q /\ pc \in {"apply", "nvs_ssid", "nvs_pass", "copy", "try", "wait"}
    BY <1>10 DEF Apply, StoreSsid, StorePassword, Copy, Try, WaitDone, WaitTimeout
  <2>2. \A i \in 1..Len(q') : q'[i].persist_to_nvs
    BY <1>1, <2>1
  <2>3. pc' \notin {"boot", "drain", "apply"}
    BY <1>10 DEF Apply, StoreSsid, StorePassword, Copy, Try, WaitDone, WaitTimeout, Returns, GoesOn,
                 NextTry
  <2>4. pc' = "copy" /\ ~raced' /\ ~latest'.persist_to_nvs => latest'.cred = Stored'
    BY <1>10 DEF Apply, StoreSsid, StorePassword, Copy, Try, WaitDone, WaitTimeout, Returns, GoesOn,
                 NextTry, BootInv, Stored
  <2>5. pc' \in {"nvs_ssid", "nvs_pass"} => latest'.persist_to_nvs
    BY <1>10 DEF Apply, StoreSsid, StorePassword, Copy, Try, WaitDone, WaitTimeout, Returns, GoesOn,
                 NextTry, BootInv
  <2> QED
    BY <2>2, <2>3, <2>4, <2>5 DEF BootInv
<1>11. CASE UNCHANGED vars
  BY <1>2, <1>11 DEF vars
<1> QED
  BY <1>3, <1>4, <1>5, <1>6, <1>7, <1>8, <1>9, <1>10, <1>11 DEF Next, mqtt_task

LEMMA StoredStep == Types /\ BootInv /\ StoredInv /\ [Next]_vars => StoredInv'
<1> SUFFICES ASSUME CredTypes, BleTypes, RequestTypes, BootInv, StoredInv, [Next]_vars
             PROVE  StoredInv'
  BY DEF Types
<1> USE DEF prov, packets, globals, queue, task, nvs, radio, bounds, others
<1>1. CASE /\ UNCHANGED <<pc, latest, wifi_ssid, wifi_pass, station>>
           /\ losses' \in Nat /\ (losses' = 0 => losses = 0)
           /\ ~raced' => ~raced
           /\ ~raced' /\ pc \in {"try", "wait"} => UNCHANGED globals
  BY <1>1 DEF StoredInv, Stored, Shared
<1>2. CASE App
  BY <1>1, <1>2, AppFrame DEF StoredInv
<1>3. CASE Enqueue
  BY <1>1, <1>3, EnqueueFrame DEF StoredInv
<1>4. CASE Environment /\ ~Restart
  BY <1>1, <1>4, WorldFrame DEF StoredInv
<1>5. CASE Restart
  BY <1>5 DEF Restart, RadioOff, StoredInv
<1>6. CASE Boot
  BY <1>6 DEF Boot, StoredInv
<1>7. CASE Receive \/ Drain \/ DrainEnd
  BY <1>7 DEF Receive, Drain, DrainEnd, StoredInv, Stored
<1>8. CASE Apply
  BY <1>8 DEF Apply, Returns, GoesOn, StoredInv, BootInv, Stored
<1>9. losses' = losses + 1 => losses' \in Nat /\ losses' # 0
  BY DEF StoredInv
<1>10. CASE StoreSsid
  BY <1>9, <1>10 DEF StoreSsid, Loss, Returns, GoesOn, StoredInv
<1>11. CASE StorePassword
  BY <1>9, <1>11, PairIsPair DEF StorePassword, Loss, Returns, GoesOn, StoredInv, Stored, Pair,
                                 RequestTypes, Requests, Pairs
<1>12. CASE Copy
  <2>1. latest.cred \in Pairs
    BY <1>12 DEF Copy, RequestTypes, Requests
  <2>2. Shared' = latest.cred
    BY <1>12, <2>1 DEF Copy, Shared, Pair, Pairs
  <2>3. ~raced' /\ losses = 0 => latest.cred = Stored
    BY <1>12 DEF Copy, StoredInv, BootInv
  <2> QED
    BY <1>12, <2>2, <2>3 DEF Copy, GoesOn, RadioOff, StoredInv, Stored
<1>13. CASE Try
  BY <1>9, <1>13 DEF Try, Loss, NextTry, Returns, GoesOn, StoredInv, Stored, Shared
<1>14. CASE WaitDone \/ WaitTimeout
  BY <1>14 DEF WaitDone, WaitTimeout, RadioOff, NextTry, Returns, StoredInv, Stored, Shared
<1>15. CASE UNCHANGED vars
  BY <1>1, <1>15 DEF vars, StoredInv
<1> QED
  BY <1>2, <1>3, <1>4, <1>5, <1>6, <1>7, <1>8, <1>10, <1>11, <1>12, <1>13, <1>14, <1>15
     DEF Next, mqtt_task

-----------------------------------------------------------------------------
(* The theorems *)

LEMMA InitInv == Init => IInv
<1> SUFFICES ASSUME Init PROVE IInv
  OBVIOUS
<1>1. Types
  BY InitTypes
<1>2. NewestInv /\ StatusMatches
  BY DEF Init, NewestInv, StatusMatches
<1>3. BootInv
  <2>1. Len(s_wifi_req_queue) = 0
    BY DEF Init
  <2> QED
    BY <2>1 DEF Init, BootInv, Stored, Shared
<1>4. StoredInv
  BY DEF Init, StoredInv
<1> QED
  BY <1>1, <1>2, <1>3, <1>4 DEF IInv

LEMMA Inv == Spec => []IInv
<1>1. IInv /\ [Next]_vars => IInv'
  BY TypesStep, NewestStep, StatusStep, BootStep, StoredStep DEF IInv
<1> QED
  BY <1>1, InitInv, PTL DEF Spec

\* Type correctness, with the limits of the queue, of the packets and of the attempts.
THEOREM TypeCorrect == Spec => []TypeOK
<1>1. ASSUME IInv PROVE TypeOK
  <2>1. FlagTypes /\ PacketTypes /\ CredTypes /\ SentTypes /\ BleTypes /\ RequestTypes /\ RetryTypes
    BY <1>1 DEF IInv, Types
  <2>2. {linked, s_prov_timer, joining, bits, Wifi_Connected_Flag, raced} \subseteq BOOLEAN
    BY <2>1 DEF FlagTypes
  <2>3. \A i \in 1..Len(s_wifi_req_queue) : s_wifi_req_queue[i].cred \in Pairs
    <3>1. s_wifi_req_queue \in Seq(Requests)
      BY <2>1 DEF RequestTypes
    <3>2. \A i \in 1..Len(s_wifi_req_queue) : s_wifi_req_queue[i] \in Requests
      BY <3>1
    <3> QED
      BY <3>2 DEF Requests
  <2>4. latest.cred \in Pairs \cup {Nowhere}
    BY <2>1 DEF RequestTypes, Requests, NoRequest
  <2>5. ble.at \in {"idle", "send", "drop", "resend"} /\ ble.cloud \in BOOLEAN
    BY <2>1 DEF BleTypes, BleRecord, Callbacks
  <2>6. retry \in Nat /\ retry <= MaxRetry
    BY <2>1, WifiAssumption DEF RetryTypes
  <2> QED
    BY <2>1, <2>2, <2>3, <2>4, <2>5, <2>6 DEF PacketTypes, CredTypes, SentTypes, RequestTypes, TypeOK
<1> QED
  BY <1>1, Inv, PTL

\* The mailbox loses only what is out of date (mqtt_app.c:583, 1148).
THEOREM LastWins == Spec => []LatestWins
<1>1. IInv => LatestWins
  BY DEF IInv, NewestInv, LatestWins
<1> QED
  BY <1>1, Inv, PTL

\* The radio of a task at rest uses what NVS holds (mqtt_app.c:1083, 1095, 1103).
THEOREM StationStored == Spec => []StationIsStored
<1>1. IInv => StationIsStored
  BY DEF IInv, StoredInv, StationIsStored, Stored
<1> QED
  BY <1>1, Inv, PTL

\* The status agrees with the packets (ble.c:596).
THEOREM StatusTrue == Spec => []StatusMatches
<1>1. IInv => StatusMatches
  BY DEF IInv
<1> QED
  BY <1>1, Inv, PTL
=============================================================================
