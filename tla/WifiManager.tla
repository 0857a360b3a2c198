----------------------------- MODULE WifiManager -----------------------------
(***************************************************************************)
(* Wi-Fi credentials from the app to the radio: the provisioning writes,   *)
(* status and timer of src/ble.c, the request queue and apply_wifi_request *)
(* of src/mqtt_app.c, wifi_connect and its events of src/wifi_connect.c,   *)
(* and the two keys of NVS.                                                *)
(*                                                                         *)
(* A name or a password is a sequence of fragments, a fragment what one    *)
(* BLE write carries: the one of network n is <<n>>, and anything else,    *)
(* appended by a second write, belongs to no network.  The BLE callback,   *)
(* the timer callback and the task run on two cores and share the          *)
(* variables WIFI_SSID and WIFI_PASSWORD.                                  *)
(***************************************************************************)
EXTENDS Integers, Sequences

CONSTANTS
    Networks,
    Home,            \* what NVS holds at first, or the default for a key it does not hold
    MaxLength,       \* MAX_SSID_LENGTH and MAX_PASSWORD_LENGTH, in fragments
    QueueLen,        \* WIFI_REQ_QUEUE_LEN
    MaxRetry,        \* WIFI_MAX_RETRY
    MaxWrites,       \* bound on the app's writes of an SSID or a password
    MaxFaults        \* bound on outages, restarts, failed NVS writes and failed calls of the radio

ASSUME WifiAssumption ==
    /\ Home \in Networks
    /\ {MaxLength, QueueLen, MaxRetry} \subseteq Nat \ {0}
    /\ {MaxWrites, MaxFaults} \subseteq Nat

VARIABLES
    linked,                         \* an app is connected over BLE
    ssid_packet, password_packet,   \* what it wrote; empty is NULL
    s_prov_status_value, s_prov_timer,
    ble,                            \* the callback: where it is, what for, its request
    WIFI_SSID, WIFI_PASSWORD,
    s_wifi_req_queue, s_wifi_request_counter,
    pc, latest, retry,              \* mqtt_task
    wifi_ssid, wifi_pass,           \* NVS
    station,                        \* what the radio was started with, or none
    joining, bits,                  \* esp_wifi_connect was called; GOT_IPV4_BIT
    Wifi_Connected_Flag,
    up,                             \* the networks in reach
    newest, taken,                  \* history: the last request queued, and applied
    sent, raced,                    \* history, for the properties
    writes, outages, restarts, losses

packets == <<ssid_packet, password_packet>>
prov == <<linked, packets, s_prov_status_value, s_prov_timer>>
globals == <<WIFI_SSID, WIFI_PASSWORD>>
queue == <<s_wifi_req_queue, s_wifi_request_counter, newest>>
task == <<pc, latest, retry, taken>>
nvs == <<wifi_ssid, wifi_pass>>
radio == <<station, joining, bits, Wifi_Connected_Flag>>
bounds == <<writes, outages, restarts, losses>>
vars == <<prov, ble, globals, queue, task, nvs, radio, up, sent, raced, bounds>>

-----------------------------------------------------------------------------
Strings == UNION {[1..k -> Networks] : k \in 1..MaxLength}
Pair(s, p) == [ssid |-> s, pass |-> p]
Pairs == [ssid : Strings, pass : Strings]
Nowhere == [ssid |-> <<>>, pass |-> <<>>]
Of(n) == Pair(<<n>>, <<n>>)

Request(persist, id) == [cred |-> Pair(WIFI_SSID, WIFI_PASSWORD), persist_to_nvs |-> persist, id |-> id]
NoRequest == [cred |-> Nowhere, persist_to_nvs |-> FALSE, id |-> 0]
Idle == [at |-> "idle", cloud |-> FALSE, request |-> NoRequest]

Init ==
    /\ linked = FALSE /\ ssid_packet = <<>> /\ password_packet = <<>>
    /\ s_prov_status_value = "IDLE" /\ s_prov_timer = FALSE
    /\ ble = Idle
    /\ WIFI_SSID = <<Home>> /\ WIFI_PASSWORD = <<Home>>
    /\ s_wifi_req_queue = <<>> /\ s_wifi_request_counter = 0
    /\ pc = "boot" /\ latest = NoRequest /\ retry = 0
    /\ wifi_ssid = <<Home>> /\ wifi_pass = <<Home>>
    /\ station = Nowhere /\ joining = FALSE /\ bits = FALSE /\ Wifi_Connected_Flag = FALSE
    /\ up \in SUBSET Networks
    /\ newest = 0 /\ taken = 0 /\ sent = Nowhere /\ raced = FALSE
    /\ writes = 0 /\ outages = 0 /\ restarts = 0 /\ losses = 0

MayFail == outages + restarts + losses < MaxFaults
Loss == MayFail /\ losses' = losses + 1

-----------------------------------------------------------------------------
(* The BLE callback *)

\* ble_set_prov_status: waiting for the app starts the timer, all else stops it.
SetProvStatus(status) ==
    /\ s_prov_status_value' = status
    /\ s_prov_timer' = (status \in {"WAIT_SSID", "WAIT_PASSWORD", "READY"})

others == <<queue, task, nvs, radio, up, sent, outages, restarts, losses>>

AppConnects ==
    /\ ~linked /\ linked' = TRUE
    /\ s_prov_timer' = TRUE
    /\ UNCHANGED <<packets, s_prov_status_value, ble, globals, others, raced, writes>>

\* Mutant: the packets are kept for the next app.
AppDisconnectsKeeping ==
    /\ linked /\ ble.at = "idle" /\ linked' = FALSE
    /\ SetProvStatus("WAIT_SSID")
    /\ UNCHANGED <<packets, ble, globals, others, raced, writes>>

AppDisconnects ==
    /\ linked /\ ble.at = "idle" /\ linked' = FALSE
    /\ ssid_packet' = <<>> /\ password_packet' = <<>>
    /\ SetProvStatus("WAIT_SSID")
    /\ UNCHANGED <<ble, globals, others, raced, writes>>

AppWrites ==
    /\ linked /\ ble.at = "idle"
    /\ writes < MaxWrites /\ writes' = writes + 1

\* While the task is in one of these places it will still read the shared pair.
Exposed == pc \in {"boot", "try", "wait"}

\* A write of the SSID.  The second of two is appended to the first, or both
\* are thrown away when that is too long.
WriteSsid(n) ==
    /\ AppWrites
    /\ \/ /\ Len(ssid_packet) < MaxLength
          /\ ssid_packet' = Append(ssid_packet, n)
          /\ WIFI_SSID' = ssid_packet'
          /\ raced' = (raced \/ Exposed)
          /\ \/ /\ password_packet # <<>>
                /\ SetProvStatus("READY")
                /\ ble' = [Idle EXCEPT !.at = "send"]
             \/ /\ password_packet = <<>>
                /\ SetProvStatus("WAIT_PASSWORD")
                /\ UNCHANGED ble
       \/ /\ Len(ssid_packet) = MaxLength
          /\ ssid_packet' = <<>>
          /\ SetProvStatus("ERROR")
          /\ UNCHANGED <<WIFI_SSID, ble, raced>>
    /\ UNCHANGED <<linked, password_packet, WIFI_PASSWORD, others>>

WritePassword(n) ==
    /\ AppWrites
    /\ \/ /\ Len(password_packet) < MaxLength
          /\ password_packet' = Append(password_packet, n)
          /\ WIFI_PASSWORD' = password_packet'
          /\ raced' = (raced \/ Exposed)
          /\ \/ /\ ssid_packet # <<>>
                /\ SetProvStatus("READY")
                /\ ble' = [Idle EXCEPT !.at = "send"]
             \/ /\ ssid_packet = <<>>
                /\ SetProvStatus("WAIT_SSID")
                /\ UNCHANGED ble
       \/ /\ Len(password_packet) = MaxLength
          /\ password_packet' = <<>>
          /\ SetProvStatus("ERROR")
          /\ UNCHANGED <<WIFI_PASSWORD, ble, raced>>
    /\ UNCHANGED <<linked, ssid_packet, WIFI_SSID, others>>

\* A write of "connect to cloud".
WriteConnect ==
    /\ linked /\ ble.at = "idle"
    /\ \/ /\ ssid_packet = <<>> \/ password_packet = <<>>
          /\ SetProvStatus("ERROR")
          /\ UNCHANGED ble
       \/ /\ ssid_packet # <<>> /\ password_packet # <<>>
          /\ SetProvStatus("APPLYING")
          /\ ble' = [Idle EXCEPT !.at = "send", !.cloud = TRUE]
    /\ UNCHANGED <<linked, packets, globals, others, raced, writes>>

\* A write of another characteristic only starts the timer.
WriteOther ==
    /\ linked /\ ble.at = "idle"
    /\ s_prov_timer' = TRUE
    /\ UNCHANGED <<linked, packets, s_prov_status_value, ble, globals,
                   others, raced, writes>>

\* The callback returns; "connect to cloud" reports what became of the request.
Return(queued) ==
    /\ ble' = Idle
    /\ \/ /\ ble.cloud /\ queued
          /\ SetProvStatus("DONE")
          /\ ssid_packet' = <<>> /\ password_packet' = <<>>
       \/ ble.cloud /\ ~queued /\ SetProvStatus("ERROR") /\ UNCHANGED packets
       \/ ~ble.cloud /\ UNCHANGED <<packets, s_prov_status_value, s_prov_timer>>
    /\ UNCHANGED linked

\* mqtt_enqueue_wifi_credentials: when the queue is full its oldest request makes
\* room.
Send ==
    /\ ble.at = "send"
    /\ s_wifi_request_counter' = s_wifi_request_counter + 1
    /\ sent' = Pair(ssid_packet, password_packet)
    /\ LET request == Request(TRUE, s_wifi_request_counter')
       IN  \/ /\ Len(s_wifi_req_queue) < QueueLen
              /\ s_wifi_req_queue' = Append(s_wifi_req_queue, request)
              /\ newest' = request.id
              /\ Return(TRUE)
           \/ /\ Len(s_wifi_req_queue) = QueueLen
              /\ ble' = [ble EXCEPT !.at = "drop", !.request = request]
              /\ UNCHANGED <<s_wifi_req_queue, newest, prov>>
    /\ UNCHANGED <<globals, task, nvs, radio, up, raced, bounds>>

Drop ==
    /\ ble.at = "drop"
    /\ ble' = [ble EXCEPT !.at = "resend"]
    /\ s_wifi_req_queue' = IF s_wifi_req_queue = <<>> THEN <<>> ELSE Tail(s_wifi_req_queue)
    /\ UNCHANGED <<prov, globals, s_wifi_request_counter, newest, task, nvs, radio, up, sent,
                   raced, bounds>>

Resend ==
    /\ ble.at = "resend"
    /\ \/ /\ Len(s_wifi_req_queue) < QueueLen
          /\ s_wifi_req_queue' = Append(s_wifi_req_queue, ble.request)
          /\ newest' = ble.request.id
          /\ Return(TRUE)
       \/ /\ Len(s_wifi_req_queue) = QueueLen
          /\ UNCHANGED <<s_wifi_req_queue, newest>>
          /\ Return(FALSE)
    /\ UNCHANGED <<globals, s_wifi_request_counter, task, nvs, radio, up, sent, raced, bounds>>

Enqueue == Send \/ Drop \/ Resend

\* ble_prov_timeout_callback, 90 s after the timer was last started.
ProvTimeout ==
    /\ s_prov_timer /\ ble.at = "idle"
    /\ ssid_packet' = <<>> /\ password_packet' = <<>>
    /\ SetProvStatus("ERROR")
    /\ UNCHANGED <<linked, ble, globals, others, raced, writes>>

\* ble_set_runtime_ready, from the unit task: TRUE once it has read the image,
\* FALSE when it starts or fails (UnitLink).
SetRuntimeReady(ready) ==
    /\ SetProvStatus(IF ready THEN "RUNTIME_READY" ELSE "BOOTING")
    /\ UNCHANGED <<linked, packets, ble, globals, others, raced, writes>>

-----------------------------------------------------------------------------
(* mqtt_task *)

\* Mutant: no room is made in a full queue.
BootOverfull ==
    /\ pc = "boot" /\ pc' = "idle"
    /\ s_wifi_request_counter' = s_wifi_request_counter + 1
    /\ newest' = s_wifi_request_counter'
    /\ s_wifi_req_queue' = Append(s_wifi_req_queue, Request(FALSE, s_wifi_request_counter'))
    /\ UNCHANGED <<prov, ble, globals, latest, retry, taken, nvs, radio, up, sent, raced, bounds>>

\* The pair that NVS gave at start-up is applied first, and not saved again.
Boot ==
    /\ pc = "boot" /\ pc' = "idle"
    /\ s_wifi_request_counter' = s_wifi_request_counter + 1
    /\ newest' = s_wifi_request_counter'
    /\ s_wifi_req_queue' =
           Append(IF Len(s_wifi_req_queue) < QueueLen THEN s_wifi_req_queue ELSE Tail(s_wifi_req_queue),
                  Request(FALSE, s_wifi_request_counter'))
    /\ UNCHANGED <<prov, ble, globals, latest, retry, taken, nvs, radio, up, sent, raced, bounds>>

\* A request is taken out, and all others after it: the last one counts.
Receive ==
    /\ pc = "idle" /\ s_wifi_req_queue # <<>>
    /\ latest' = Head(s_wifi_req_queue) /\ s_wifi_req_queue' = Tail(s_wifi_req_queue)
    /\ pc' = "drain"
    /\ UNCHANGED <<prov, ble, globals, s_wifi_request_counter, newest, retry, taken, nvs, radio,
                   up, sent, raced, bounds>>

\* Mutant: the first one counts.
DrainKeepingFirst ==
    /\ pc = "drain" /\ s_wifi_req_queue # <<>>
    /\ s_wifi_req_queue' = Tail(s_wifi_req_queue)
    /\ UNCHANGED <<prov, ble, globals, s_wifi_request_counter, newest, task, nvs, radio,
                   up, sent, raced, bounds>>

Drain ==
    /\ pc = "drain" /\ s_wifi_req_queue # <<>>
    /\ latest' = Head(s_wifi_req_queue) /\ s_wifi_req_queue' = Tail(s_wifi_req_queue)
    /\ UNCHANGED <<prov, ble, globals, s_wifi_request_counter, newest, pc, retry, taken, nvs, radio,
                   up, sent, raced, bounds>>

DrainEnd ==
    /\ pc = "drain" /\ s_wifi_req_queue = <<>>
    /\ pc' = "apply" /\ taken' = latest.id
    /\ UNCHANGED <<prov, ble, globals, queue, latest, retry, nvs, radio, up, sent, raced, bounds>>

\* apply_wifi_request returns; its request and its count of attempts are locals.
Returns == pc' = "idle" /\ latest' = NoRequest /\ retry' = 0

GoesOn(next) == pc' = next /\ UNCHANGED <<latest, retry>>

\* apply_wifi_request: nothing is done for the pair that is in use.
InUse == Wifi_Connected_Flag /\ Pair(WIFI_SSID, WIFI_PASSWORD) = latest.cred

Apply ==
    /\ pc = "apply"
    /\ \/ InUse /\ Returns
       \/ ~InUse /\ latest.persist_to_nvs /\ GoesOn("nvs_ssid")
       \/ ~InUse /\ ~latest.persist_to_nvs /\ GoesOn("copy")
    /\ UNCHANGED <<prov, ble, globals, queue, taken, nvs, radio, up, sent, raced, bounds>>

StoreSsid ==
    /\ pc = "nvs_ssid"
    /\ \/ wifi_ssid' = latest.cred.ssid /\ GoesOn("nvs_pass") /\ UNCHANGED losses
       \/ Loss /\ Returns /\ UNCHANGED wifi_ssid
    /\ UNCHANGED <<prov, ble, globals, queue, taken, wifi_pass, radio, up, sent, raced,
                   writes, outages, restarts>>

\* Mutant: the password is not saved.
StoreSsidOnly ==
    /\ pc = "nvs_pass" /\ GoesOn("copy")
    /\ UNCHANGED <<prov, ble, globals, queue, taken, nvs, radio, up, sent, raced, bounds>>

StorePassword ==
    /\ pc = "nvs_pass"
    /\ \/ wifi_pass' = latest.cred.pass /\ GoesOn("copy") /\ UNCHANGED losses
       \/ Loss /\ Returns /\ UNCHANGED wifi_pass
    /\ UNCHANGED <<prov, ble, globals, queue, taken, wifi_ssid, radio, up, sent, raced,
                   writes, outages, restarts>>

RadioOff == station' = Nowhere /\ joining' = FALSE /\ bits' = FALSE /\ Wifi_Connected_Flag' = FALSE

\* The shared pair is set to the request's, and wifi_disconnect.
Copy ==
    /\ pc = "copy" /\ GoesOn("try")
    /\ WIFI_SSID' = latest.cred.ssid /\ WIFI_PASSWORD' = latest.cred.pass
    /\ raced' = (raced /\ ~latest.persist_to_nvs)
    /\ RadioOff
    /\ UNCHANGED <<prov, ble, queue, taken, nvs, up, sent, bounds>>

NextTry ==
    \/ retry + 1 < MaxRetry /\ pc' = "try" /\ retry' = retry + 1 /\ UNCHANGED latest
    \/ retry + 1 = MaxRetry /\ Returns

\* wifi_connect up to its wait, with the shared pair; the radio may fail to start.
Try ==
    /\ pc = "try"
    /\ \/ /\ station' = Pair(WIFI_SSID, WIFI_PASSWORD)
          /\ joining' = TRUE /\ bits' = FALSE
          /\ GoesOn("wait")
          /\ UNCHANGED <<Wifi_Connected_Flag, losses>>
       \/ Loss /\ NextTry /\ UNCHANGED radio
    /\ UNCHANGED <<prov, ble, globals, queue, taken, nvs, up, sent, raced,
                   writes, outages, restarts>>

WaitDone ==
    /\ pc = "wait" /\ bits
    /\ bits' = FALSE /\ Returns
    /\ UNCHANGED <<prov, ble, globals, queue, taken, nvs, station, joining,
                   Wifi_Connected_Flag, up, sent, raced, bounds>>

\* Mutant: the attempts are not counted.
WaitTimeoutUncounted ==
    /\ pc = "wait" /\ ~bits
    /\ RadioOff
    /\ GoesOn("try")
    /\ UNCHANGED <<prov, ble, globals, queue, taken, nvs, up, sent, raced, bounds>>

\* 30 s passed.
WaitTimeout ==
    /\ pc = "wait" /\ ~bits
    /\ RadioOff
    /\ NextTry
    /\ UNCHANGED <<prov, ble, globals, queue, taken, nvs, up, sent, raced, bounds>>

mqtt_task == \/ Boot \/ Receive \/ Drain \/ DrainEnd \/ Apply \/ StoreSsid \/ StorePassword
             \/ Copy \/ Try \/ WaitDone \/ WaitTimeout

-----------------------------------------------------------------------------
(* The events of the station, and what happens around the module *)

InReach == \E n \in up : station = Of(n)

GotIp ==
    /\ joining /\ InReach
    /\ joining' = FALSE /\ bits' = TRUE /\ Wifi_Connected_Flag' = TRUE
    /\ UNCHANGED <<prov, ble, globals, queue, task, nvs, station, up, sent, raced, bounds>>

\* Mutant: nothing asks the radio to join again.
StaDisconnectedForGood ==
    /\ station # Nowhere /\ ~joining /\ ~InReach
    /\ Wifi_Connected_Flag' = FALSE
    /\ UNCHANGED <<prov, ble, globals, queue, task, nvs, station, joining, bits, up, sent, raced, bounds>>

\* on_wifi_disconnect joins again, which may fail.
StaDisconnected ==
    /\ station # Nowhere /\ ~joining /\ ~InReach
    /\ Wifi_Connected_Flag' = FALSE
    /\ \/ joining' = TRUE /\ UNCHANGED losses
       \/ Loss /\ joining' = FALSE
    /\ UNCHANGED <<prov, ble, globals, queue, task, nvs, station, bits, up, sent, raced,
                   writes, outages, restarts>>

NetworkUp(n) ==
    /\ n \notin up /\ up' = up \cup {n}
    /\ UNCHANGED <<prov, ble, globals, queue, task, nvs, radio, sent, raced, bounds>>

NetworkDown(n) ==
    /\ n \in up /\ up' = up \ {n}
    /\ MayFail /\ outages' = outages + 1
    /\ UNCHANGED <<prov, ble, globals, queue, task, nvs, radio, sent, raced, writes, restarts, losses>>

\* A restart at any moment: app_main reads the two keys.
Restart ==
    /\ MayFail /\ restarts' = restarts + 1
    /\ linked' = FALSE /\ ssid_packet' = <<>> /\ password_packet' = <<>>
    /\ s_prov_status_value' = "IDLE" /\ s_prov_timer' = FALSE
    /\ ble' = Idle
    /\ WIFI_SSID' = wifi_ssid /\ WIFI_PASSWORD' = wifi_pass
    /\ s_wifi_req_queue' = <<>> /\ s_wifi_request_counter' = 0 /\ newest' = 0
    /\ pc' = "boot" /\ latest' = NoRequest /\ retry' = 0 /\ taken' = 0
    /\ RadioOff
    /\ sent' = Nowhere /\ raced' = FALSE
    /\ UNCHANGED <<nvs, up, writes, outages, losses>>

App == \/ AppConnects \/ AppDisconnects \/ WriteConnect \/ WriteOther
       \/ \E n \in Networks : WriteSsid(n) \/ WritePassword(n)

Environment == \/ ProvTimeout \/ \E ready \in BOOLEAN : SetRuntimeReady(ready)
               \/ GotIp \/ StaDisconnected \/ Restart
               \/ \E n \in Networks : NetworkUp(n) \/ NetworkDown(n)

Next == App \/ Enqueue \/ mqtt_task \/ Environment

Spec == Init /\ [][Next]_vars

\* The task runs for ever; a radio that is joining a network in reach gets an
\* address, and reports a network that it lost.
FairSpec == Spec /\ WF_vars(mqtt_task) /\ WF_vars(GotIp \/ StaDisconnected)

-----------------------------------------------------------------------------
(* Properties *)

\* Every variable has its type; the queue and the packets are within their limits.
TypeOK ==
    /\ {linked, s_prov_timer, joining, bits, Wifi_Connected_Flag, raced} \subseteq BOOLEAN
    /\ {ssid_packet, password_packet} \subseteq Strings \cup {<<>>}
    /\ s_prov_status_value \in {"IDLE", "WAIT_SSID", "WAIT_PASSWORD", "READY", "APPLYING", "DONE",
                                "ERROR", "BOOTING", "RUNTIME_READY"}
    /\ ble.at \in {"idle", "send", "drop", "resend"} /\ ble.cloud \in BOOLEAN
    /\ {WIFI_SSID, WIFI_PASSWORD, wifi_ssid, wifi_pass} \subseteq Strings
    /\ Len(s_wifi_req_queue) <= QueueLen
    /\ \A i \in 1..Len(s_wifi_req_queue) : s_wifi_req_queue[i].cred \in Pairs
    /\ {s_wifi_request_counter, newest, taken, retry} \subseteq Nat /\ retry <= MaxRetry
    /\ pc \in {"boot", "idle", "drain", "apply", "nvs_ssid", "nvs_pass", "copy", "try", "wait"}
    /\ {latest.cred, station, sent} \subseteq Pairs \cup {Nowhere}
    /\ up \subseteq Networks

\* The mailbox loses only what is out of date: when it is empty and no sender is
\* making room in it, the request that was taken last is the one queued last
\* (mqtt_app.c:583, 1148).
LatestWins ==
    s_wifi_req_queue = <<>> /\ pc # "drain" /\ ble.at \notin {"drop", "resend"} => taken = newest

\* The radio, when it is on and the task rests, uses the pair that the next start
\* will use, unless a commit or a start of the radio failed or the app wrote while
\* the task was reading the shared pair (mqtt_app.c:1083, 1095, 1103).
StationIsStored ==
    pc = "idle" /\ station # Nowhere /\ ~raced /\ losses = 0 => station = Pair(wifi_ssid, wifi_pass)

\* The status that the app reads agrees with the packets that the module holds, at
\* every write, overflow, timeout, disconnection and report of the unit task.
StatusMatches ==
    /\ s_prov_status_value \in {"READY", "APPLYING"} => ssid_packet # <<>> /\ password_packet # <<>>
    /\ s_prov_status_value = "WAIT_SSID" => ssid_packet = <<>>
    /\ s_prov_status_value = "WAIT_PASSWORD" => ssid_packet # <<>> /\ password_packet = <<>>
    /\ s_prov_status_value = "DONE" => ssid_packet = <<>> /\ password_packet = <<>>

\* Every request is done with, on an absent network too: the task comes back to its
\* queue (mqtt_app.c:1101).
TaskReturns == []<>(pc = "idle")

\* A module whose network comes back and stays is connected again, without a
\* request, unless the call to join failed (wifi_connect.c:141).
Reconnects == <>[](InReach /\ losses = 0) => <>[]Wifi_Connected_Flag

\* Once the task rests, NVS holds the pair that the app sent last (README, chapter 9:
\* "salvate in NVS").
ProvisionedIsSaved ==
    pc = "idle" /\ s_wifi_req_queue = <<>> /\ ble.at = "idle" /\ ~raced /\ losses = 0 /\ sent # Nowhere
        => Pair(wifi_ssid, wifi_pass) = sent
=============================================================================
