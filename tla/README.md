# Formal model of the Avensys Wi-Fi/BLE module

The firmware in `src/` runs on an ESP32 that sits between a ventilation unit
(serial line), an app (Bluetooth LE), a broker (MQTT over Wi-Fi) and two HTTP
servers. This directory holds TLA+ modules of its control logic, the TLC
configurations that check them, and theorems about them that TLAPS proves.
Unqualified line numbers below are of the files in `src/src/`.

## 1. Inventory

| Component | State it keeps | Operations | Talks to |
|---|---|---|---|
| Unit link, `unit_comm.c` | `WBM_Com_State`, `currentState`, time stamps, retries, `Eeprom_Data_received`, `s_runtime_ready` | `Unit_event_task`, `Connect_To_Unit` | the unit over the UART; BLE (ready status) |
| EEPROM image, `unit_comm.c`, `ble.c`, `mqtt_app.c` | `gRDEeprom`, `s_ext_*_Cnt`, `Read_Eeprom_Request_Index` | the parsers, the dispatcher of request bits, the app's writes | shared by the unit task and the BLE and MQTT callbacks, without a lock |
| Serial frames, `WBM_Serial.c` | `buff_ser1`, message length | `Read_Message`, `Write_Message`, `Com_SendRequest_*` | unit link, UART driver |
| UART driver, `Uart1.c` | one-frame receive cache, `s_rx_available` | `uart_event_task`, `Uart1_RxClaim`, `Uart_Write` | ESP-IDF driver task |
| Unit firmware, `main.c` 319-466, 600-631; `unit_comm.c` 638-754 | `/spiffs/firmware.bin`, `f`, `Buffer_Test` and its counters, two flags | `Unit_Update_task`, `_http1_event_handler`, the bootloader states | HTTP server; started by OTA, MQTT and the unit task |
| OTA of the module, `main.c` 44-300, 468-598 | NVS keys `ota_fail_ver`, `ota_fail_cnt`, boot partition | `ota_boot_task`, `check_update_task` | HTTP server, NVS |
| BLE GATT server, `ble.c` | packets of SSID and password, provisioning status, timer, long-write buffer | write events, connect and disconnect, timeout | Wi-Fi request queue, image |
| Wi-Fi manager, `mqtt_app.c` 562-598, 1064-1165; `wifi_connect.c` | request queue, `WIFI_SSID`, `WIFI_PASSWORD`, NVS keys, `Wifi_Connected_Flag`, event group | enqueue, apply, connect, disconnect, station events | BLE, MQTT, OTA |
| MQTT connection, `mqtt_app.c` 223-546, 600-1062 | client, started, connected and ready flags, failures, retry tick, endpoint, subscriptions | maintenance loop, event handler, endpoint discovery | Wi-Fi manager, image, unit update |
| LEDs and GPIO, `gpio_api.c`, `main.c` 633-739 | blink counters | 1 ms timer callback | reads the others' flags |
| Start-up, `main.c` 780-873, `ble_app.c` | none of its own | `app_main` | starts the tasks |

What is hard, and what makes each component correct:

* **Unit link.** Three senders (two timers and the dispatcher) share a half-duplex
  line with a one-frame cache; answers carry no number and are matched by
  position while connecting; seven waits have their timeouts. Correct means: they
  speak in turns; "ready" is told to the app only with a complete image; no wait
  hangs; the search goes on until something is heard; a dead unit is noticed.
* **EEPROM image.** The image is a cache of the unit's memory, kept coherent by
  change counters that wrap, and written by two callbacks on another core. Correct
  means: a stale section is known to be stale; an app's write reaches the unit; no
  half-erased image is sent; image and unit agree again in the end.
* **Unit firmware.** A download may start from four places while the unit waits
  for the file; the file survives restarts that happen in the middle of it. Correct
  means: but for a race that the code leaves open between the test of a flag and its
  setting, downloads and transfers exclude each other; the file is one answer's body; the
  unit is sent the file, all of it but for the last three bytes at most; a new version replaces an old one.
* **OTA.** Two NVS keys committed one after the other, restarts in between,
  versions published in any order. Correct means: no endless retries, nothing
  given up that did not fail, nothing older installed.
* **BLE provisioning, Wi-Fi manager.** Packets arrive in any order and overwrite
  the globals that the applying task reads; the queue conflates; credentials are
  two NVS keys; provisioning has a timer. Correct means: the last request wins and
  is saved; the pair in use and the pair in NVS were sent together; the status
  follows the provisioning.
* **MQTT connection.** Events of the client race with the task that starts it.
  Correct means: a broken connection is retried with growing delays and a
  working one is left alone; the subscriptions are those of the active serial.
* **UART driver.** A frame may come in pieces, and while the cache is being read, by
  two tasks without a lock, and the next question may be asked with pieces still unread. Correct
  means: until an answer is spoilt, the one to the last question is delivered, once or not at
  all; afterwards, still none after a later one; an answer that comes whole, and not together
  with another, is delivered.
* **Long writes.** The parts of a value come one by one; a connection breaks between
  them. Correct means: the image is what was written last, and never a mixture.

`PROJECT.json` lists the hazards at their lines, with the properties that cover them.

## 2. Modules

| Module | Models | Proofs |
|---|---|---|
| `UnitLink` | the unit link in every state but the transfer of a file, in discrete time | `UnitLinkProofs` |
| `EepromSync` | the image while the link is up: polls, reads, writes, both callbacks | `EepromSyncProofs` |
| `EepromStart` | the handshake that fills the image, composed with `EepromSync` | `EepromSyncProofs` |
| `WriteBack` | abstract: a write-back cache of the unit's memory | `EepromSyncProofs` (the refinement) |
| `UnitUpdate` | download, storage and transfer of the unit's firmware, with restarts | `UnitUpdateProofs` |
| `OtaGate` | the module's own update and its failure count in NVS | `OtaGateProofs` |
| `WifiManager` | Wi-Fi credentials from the app to the radio and to NVS, with restarts | `WifiManagerProofs` |
| `MqttConnection` | the MQTT client: broker, retries, flags, subscriptions | `MqttConnectionProofs` |
| `UartRx` | the receive path: driver ring and queue, cache, claim, copy | `UartRxProofs` |
| `FrameLine` | abstract: what the unit task is promised of the line | `UartRxProofs` (the refinement) |
| `LongWrite` | writes of the EEPROM characteristic, in one piece or in parts | `LongWriteProofs` |

How they fit together: `UartRx` implements `FrameLine`. What `FrameLine` promises while no answer was
spoilt (one question at a time, its answer once or not at all) is the line that `UnitLink` and
`EepromSync` take for granted; their own faults lose or spoil answers as a whole, and what
`FrameLine` still promises after an answer was cut in pieces is weaker than that.
`EepromSync` in turn implements `WriteBack`, from a write or change that begins at rest until the next clash.
`EepromStart` extends `EepromSync` by the states that come before its own. `UnitUpdate` is what
`UnitLink` does in its bootloader states and what `MqttConnection`'s events start. `LongWrite`
decides which writes reach the image at which `EepromSync`'s writers begin, and
`WifiManager` sets the flag on which `MqttConnection` and `UnitUpdate` depend.

Each module is run directly: its `.cfg` files give the constants their values.
Names are those of the code wherever TLA+ allows it.

### UnitLink

An action per case of `Connect_To_Unit` and per part of the `WBM_Connected` loop.
A time stamp is modelled by its age, which `Tick` increases and which stops at
`Timeout`. A frame is its kind: the section it answers, garbage (header, length or
checksum wrong), or the banner of the unit's bootloader. The environment answers
within `ReplyWithin` ticks, loses or spoils up to `MaxFaults` frames, dies, or enters its
bootloader. `gRDEeprom` records, per area of the image, which answer its bytes were
copied from; `HWSetting` overlays `Configuration`, as its addresses do.
`stall` bounds how long the task is kept from running (`MaxStall`), which is what the
timing assumption of the module is about; the code has no such bound of its own, but
its task runs every tick and its longest delay in the loop is far below a second.

### EepromSync

The loop of `WBM_Connected`: `Ask` (a timer runs out), `Answered` with one action per
parser, `Merge` (the parsers' `|=`), `Dispatch` (reads before writes, lowest bit first)
and `Clear` (`&= ~bit`). The app's write erases the image, fills it and sets its bits
one by one. `Read_Eeprom_Request_Index` is a set of bits; with `Torn`, each `|=` and `&=` is a
load and a store between which others may run. With `Overlap` FALSE the app and the
unit's panel keep still while a write is going on. `clashed` is a history variable: a write or a change
began while something was still to be written or read, a payload came with counters that are
not the unit's, or a task loaded the request word while another was about to store it. A write or
change that begins at rest starts anew. A section's contents are who made
them and when; its counter wraps at `CntMod`. The request bits 0x10-0x200, which
nothing in the code sets, are left out, and so is the connected timeout, which
`UnitLink` shows never to run out.

`WriteBack` is what the image, the two sets of counters and the request word amount to where writes and
changes take turns. From a clash on it promises nothing, until cache and memory agree again with nothing to do
and a write or change begins from there. Its state: places that are dirty (saved by the app, not written yet) or stale (changed by the unit,
not read yet). In `EepromSync` these are no variables. A section is dirty from its bit, left to be set or set, to the
write request on the line; it is stale from a counter that differs from the last poll's, over its read
bit, to the answer. An image that is erased and not filled yet still counts for what it was, so that
the memset and memcpy of a write are one `Save`. A refused write or a lost answer gives up the section
it is about and no other.

### EepromStart

The states of the handshake that fill the image: `HandshakeAnswer` and `SectionRead` read the
sections one by one, `PollParsed` compares the counters of a poll with the image's, `MarkSet`
sets the bits that follow from it, `Seeded` copies the image's counters to the polls'. The
writers and the unit of `EepromSync` run meanwhile, as the callbacks do not ask whether the link
is up. Once `currentState` is "up" the steps are those of `EepromSync`. Retries and the search
are left to `UnitLink`: a handshake whose answer is lost ends for good here, so the run does
not check for deadlock. One assumption is about timing: the BLE event that creates the
attribute table (ble.c:845) zeroes the image and reports "not ready", and is taken to come
before the handshake begins, which nothing but the duration of the start-up ensures.

### UnitUpdate

One action per HTTP event of the download, and one per step of the bootloader states.
The file is a sequence of chunks of 512 bytes, what one DATA event carries: the
version number is in the third. A file that is open for writing when the program
restarts keeps any beginning. The client may end a broken body with FINISH or ERROR.
An access through a null handle disables the step (the program would panic, which
`Reset` covers). Sending a chunk stands for its blocks of 16 bytes; of the last one only whole words
are filled in (unit_comm.c:730), so that the file's last bytes, three at most, may go out as zeros (`Clipped`).
No event looks at the HTTP status: the body of an error answer (`ErrorPage`) is compared, stored and sent
like an image.

The two flags are tested in one step and set in a later one, as in the code: `Spawn` tests both and
`Start`, of the new task, sets the first; `CheckNoUpdate` tests the first and `Claim` sets the second.
`marred` is a history variable of what spoils the files. "race": a task passed a test that
another had already decided to make fail, so that a download and the transfer, or two downloads,
share `f`. "recheck": a check began after another one of the same run had buffered a
chunk. "stub": a comparison with a file that was cut off before its version number, which is
then never replaced (main.c:367, as version 0 also means that nothing is to be compared). When two tasks share
`f`, a file whose handle is overwritten counts as written, and a null handle stops the task
instead of the program; so after a race only `TypeOK` is claimed, which needs neither.

### OtaGate

`check_update_task` with a step for each NVS commit, any of which may fail (the code
ignores the result) or be cut off by a restart; both are counted in `losses`. A version is
a number in the order of `ota_compare_versions`. `streak` is a history variable: the version
that failed last and how often in a row.

### WifiManager

Three kinds of actors share the pair `WIFI_SSID`, `WIFI_PASSWORD`. The BLE callback: an
action per characteristic does the packet, the shared copy and the status; if a request
follows, `Send`, `Drop` and `Resend` are the calls of the queue, and the last of them returns
(`Return`, with DONE or ERROR for "connect to cloud"). `mqtt_task`: `Boot`, the two receiving loops, and
`apply_wifi_request` with a step for the test, each NVS commit, the copy, each attempt and
its end. The events of the station. A name or password is a sequence of fragments,
each what one BLE write carries; a radio started with network n's own fragment twice
gets an address while n is in reach. `linked` is the app's connection, `newest` and `taken` the
request queued and taken last, `sent` what the app wrote for its last request, and `raced`
says that it wrote while the task was about to read the pair, without a saved request since.
Left out: `malloc` failing, the delays (cooldown, backoff between attempts), which only
slow the task down, and `s_wifi_manager_state`, which nothing reads. BLE callbacks run
one after another, and the provisioning timer, restarted or stopped by the callback, does
not run out while one is at work.

### MqttConnection

`mqtt_connection_maintenance`, called every 200 ms, is cut where it waits for the network or
commits to flash: `pc` and `reason` say where it is and why. Its branches are `Off`, `NotStarted`,
`Working` and `Broken`; `Discover` asks the discovery server, `SaveHost` and `SaveUser` are the
commits, `Start` and `Started` the start of a client before and after the call, in between which the
client's task may already be connected. The event handler has an action per event. `Refresh`
compares the hardware id and the serial number with what is subscribed. Time is relative: a
retry is none, pending or past (`RetryTick`), and an hour has or has not passed (`HourPasses`). Two
history variables name the places where the code is known to be off: `early` (the client
connected before its start returned, and line 984 clears the flag) and `unheeded` (a
task that only logs noticed the new serial number first). An endpoint is a host and a
user; port and TLS go with the host, the password with the user. The failures are counted
up to the threshold. A discovery that announces no account keeps the account of the broker
used before, which the premise of `ReachesAnnounced` excludes. Left out: the messages that are
published, `last_error`, the LED, the download task that some events start
(`UnitUpdate`, `Spawn`), and the delay of a first start, which the code ignores.

### UartRx and FrameLine

`Ask` is a question of the handshake, or of the timers and the dispatcher; `AskAgain` is the search,
which asks anew when nothing was accepted in time; `Connected` ends the handshake. `UnitAnswers` puts
an answer on the line, one after another, whatever is still unread. `Isr` is the driver: it moves bytes into its
ring and an event into its queue, and `IsrOverflow` loses some. `uart_event_task` takes an
event and publishes the count of its bytes at once (`Data`), then zeroes the cache (`Clear`), then copies
the bytes (`Copy`), as the two tasks share them without a lock. `Read_Message` polls, reads
the count (`RxClaim`), sets it to 0 (`RxClaimed`), and copies byte by byte at a later call. `Judge` accepts a
frame that was copied whole. The handshake waits on after anything else; the connected task
does not (unit_comm.c:260): `Eeprom_Data_received` is cleared, and the next question may be asked while
the rest of the answer is still under way, in the cache, or claimed. A byte is known by its frame and its place.

`FrameLine` is the promise, with four variables: the answers are numbered as they are `sent`, `line`
is the one that may still be delivered, `got` are those delivered, and `spoilt` says that the promise is
the weaker one. `Send`, `Deliver` and `Spoil` are its steps; once spoilt, `DeliverLate` may deliver any answer
that is not before one already delivered, the same again included; `Renew` is the search asking anew. `UartRx` implements it
with `line <- Pending`, the last answer unless it was accepted. History variables of `UartRx`: `spoilt` (an answer was cut or overrun, or the
ring slipped), `slipped` (the ring keeps bytes whose event was dropped, Uart1.c:72), and `harmed`, the
answers that need not be taken: cut, overrun, flushed or read out of step, overwritten by the
next event, or their own event lost because it came while a count was being claimed
(Uart1.c:167). `Deaf` is an event that filled
the cache (WBM_Serial.c:156): its count modulo the cache's size is 0, nothing is copied, and the claim
is never used up.

Two assumptions are about timing. `vTaskDelay` lasts at least until the
receive task, which has the higher priority, has stored the bytes whose count it has published (Uart1.c:58); without it TLC shows
the answer before accepted a second time. And a unit that has not answered within `TimeoutMilliseconds`
does not answer that question later (`AskAgain`). The two texts that `Read_Message` accepts
wherever they stand are left out.

### LongWrite

An action per callback: a write in one piece, a part, execution, cancellation, connection,
disconnection. The app sends the parts of one value in order. The image records per part
the write it came from, so a mixture shows. `cut` is the history of a connection that
broke while the buffer held parts, which the disconnect event does not free. What the
unit task does with the image meanwhile is in `EepromSync`.

## 3. Runs

| Run | Checks | Bounds and why they are enough |
|---|---|---|
| `unit_link` | `TypeOK`, `InTurns`, `ReadyMeansImageRead`, `VerdictFinal`, `HandshakeEnds`, `SearchGoesOn`, `CleanLineConnects` | One tick is a second, so the periods 1, 4, 5 and 15 s are the code's own. One fault already reaches every timeout at every stage; the unit may die or restart at any moment. 36,644 states. |
| `unit_link_dead` | `DeadUnitIsNoticed` is violated | finding, below |
| `eeprom_sync` | `TypeOK`, `WritesBack`, `WriteLands`, `CatchesUp` | Three sections, one without a counter, two writes, one change (before the first poll, told by it or not, or later), one broken, lost or refused answer, counters that wrap at 3. Writes and changes do not overlap: this is the liveness the code does have. So this run has no clash; `WritesBack` with clashes, for any overlaps and torn updates, is the theorem `CachesTheUnit`. 165,000 states. |
| `eeprom_start` | `StaleIsKnownOnceUp`, `NotBlanked` | One counted section and one without a counter, one write, two changes, one spoilt, refused or lost answer, everything overlapping at any moment of the handshake and after, the request word updated by separate loads and stores: a change before, while and after the section is read, and between the poll and the link coming up. Several sections that change at once are in the theorem `StaleKnownOnceUp`. 569,000 states. |
| `unit_update` | `TypeOK`, `NoUpdateInBootloader`, `StoredIsServed`, `CheckStores`, `UnitIsServed` | Two tasks, three checks in each run of the program, two versions and an error page, four chunks (one more than is buffered), two restarts and two faults: a file cut off, replaced, and cut off again; every pair of creators, with every race of the flags; a check before and after every transfer. The constraint `Explored` follows a race to a second fault or restart, and until two bodies mix; past one only `TypeOK` is claimed, which the theorem `TypeCorrect` shows for all of it. 1,360,000 states. |
| `unit_update_recheck` | `SentIsServed` is violated | finding, below; one task, no fault and no restart, so that nothing else can be the cause |
| `wifi_manager` | `TypeOK`, `LatestWins`, `StationIsStored`, `StatusMatches`, `TaskReturns`, `Reconnects` | Two networks, two writes of an SSID or password and any of "connect to cloud", a queue of one, packets of one fragment, two attempts: the queue overflows, a packet overflows, the boot request meets the app's, and one outage, restart or failed call falls anywhere. 600,000 states. |
| `wifi_unsaved` | `ProvisionedIsSaved` is violated | finding, below |
| `ota_gate` | `TypeOK`, `GivesUp`, `SkipEarned`, `RolloutEnds` | The code's three retries, three versions published in any order, two losses: a loss at each of the two commits of one failure. |
| `mqtt_connection` | `TypeOK`, `SelectedIsStored`, `FlagIsTrue`, `TopicsFollowSerial`, `AcknowledgedIsReady`, `ReachesAnnounced` | Two brokers, one of them the default, with and without an account, one change of what is announced and of the serial number, the code's threshold of three failures, and one outage, restart or failed call. A failed connection counts twice, once for each of its two events, so that with three the reconnect without a discovery is taken too, after the first failure. 483,000 states. |
| `uart_rx` | `TypeOK`, `DeliversInTurn`, `WholeAnswerTaken` | A cache of three bytes and the same number for `RX_BUFFER_SIZE`, the modulus of `Read_Message` (both are 128 in the code; the driver's own ring, 1024 there, is not bounded), answers of one to four bytes (shorter, as long as, and longer than the cache), four answers, two of them cut or overrun: a leftover, the answer that is asked for over it, one more delivered in its place, and one to follow. 406,000 states. |
| `long_write` | `TypeOK`, `ImageIsWhole`, `ImageIsNewestUncut` | An image of three parts (first, middle, last), another characteristic of one, four writes, one failed allocation. 6,400 states. |

Every property of a passing run has a mutant in the module, a defect of the kind the
code could have, under which TLC finds the property violated.

What the runs show where the code and what is said of it differ:

1. **A dead unit is not noticed** (`unit_comm.c:150`, 167). The timers refresh the time
   stamp of the 15 s timeout whether or not anything was answered. After the first lost
   answer `Eeprom_Data_received` stays true and nothing is sent any more either.
2. **The second check of one run stores foreign bytes** (`main.c:404`), as `Data_Counter`
   is never reset.
3. **Credentials sent to a connected module are not saved** (`mqtt_app.c:1069`): the callback has
   already written them over the pair that the request is compared with, so the request looks
   unchanged. The status still becomes DONE.

Three more defects bound what the passing runs can claim. Each is found by TLC when the named
premise is taken away:

* **An app's write may be overwritten by a read** (`unit_comm.c:892`) that was asked for
  before it, as reads are dispatched first and answers are copied at once. `WriteLands` fails in
  `eeprom_sync` with `Overlap` TRUE; to `WritesBack` it is a clash.
* **An app's write made while the handshake reads is lost in part** (`unit_comm.c:517`): the sections
  still to be read are copied over it, and these bytes are then written back to the unit. So
  `WriteLands` is not stated of `EepromStart`.
* **A connection that breaks amid a long write spoils the next one** (`ble.c:823`): its parts stay
  in the buffer under their handle, so that a long write of another characteristic may be
  executed as the image's, or the image's dropped. `ImageIsNewest` fails without `cut`.

More is known without a run of its own. The properties name it as their exceptions: with `Torn` TRUE `WriteLands` fails, as unlocked
updates of the request word on two cores drop a write (`unit_comm.c:272`); the banner of
the unit's bootloader is served only if it comes during the search (`unit_comm.c:445`); a download may
start while the unit is being served, or a second one while one is running, when two tasks meet
between the test of a flag and its setting (`main.c:605`, `unit_comm.c:639`, "race" in `marred`: `NoUpdateInBootloader`
and `StoredIsServed` fail without it); the page of an HTTP error replaces the stored image and is sent
to the unit (`main.c:365-433`, `Page`); up to three last bytes of the image are sent as
zeros (`unit_comm.c:730`, `Clipped`); a file cut off before its version number is never
replaced (`main.c:367`, "stub" in `marred`); the flag of an early connection is cleared
(`mqtt_app.c:984`, `early`), and a new serial number may go unheeded (`mqtt_app.c:810`); a reader that claimed a
full cache is deaf until the next start (`WBM_Serial.c:156`, theorem `DeafForEver`), and after an
overflow the ring may be one answer ahead of its events until another overflow (`Uart1.c:72`, `slipped`); after an answer that
came in pieces the connected link stays one question ahead, and an answer as long as the leftover that
is being claimed is delivered twice (`unit_comm.c:260-266`, `DeliverLate`); an answer whose event comes while
a count is being claimed is lost (`Uart1.c:167`, `harmed`). `src/README.md:140`
also promises that an image written in chunks is reassembled under a stream timeout; the code
has only direct and long writes, so there is nothing to model.

## 4. Fairness

* `UnitLink`: the unit task's steps and the clock go on, and a unit that runs answers in
  time. The clock may not run ahead of the task by more than `MaxStall`. Nothing
  is assumed of faults, deaths and the bootloader.
* `EepromSync`: weak fairness of the unit task and of the unit's answers. Polls are
  asked for again and again (strong fairness of `Ask("poll")` when nothing is outstanding: the
  timer is periodic while debug requests may come first), and a callback that began
  a write finishes it. No fairness for panel changes, writes and faults.
* `UnitUpdate`: both tasks are scheduled; a unit that owes an acknowledgement sends it or
  it is lost, which is a fault.
* `OtaGate`: the module is started again whenever a check has ended, since there is one
  check per start; Wi-Fi and the server's answer are not missing for ever
  (strong fairness). An installation may fail every time.
* `WifiManager`: `mqtt_task` runs on; a radio that is joining a network in
  reach gets an address, and one that lost its network reports it. Nothing is assumed of the app, the
  unit task, the timer and the access points.
* `MqttConnection`: `mqtt_task`'s maintenance and the client's task run on, and time passes. Nothing
  is assumed of networks, servers, brokers and the unit task.
* `UartRx`: `uart_event_task` and `Unit_event_task` run on, and the driver passes on the bytes that are on the
  line (weak fairness of `Isr`). The unit need not answer, and no question need be asked.
* `EepromStart` and `LongWrite` check safety only: no handshake and no write need ever end. That
  the image catches up once it was read is `CatchesUp`, whose initial states include a change
  after the handshake's reads, told by its poll or not.

## 5. Theorems

All are proved for every value of the constants that satisfies the named assumptions.

| Theorem | Says | Argument |
|---|---|---|
| `UnitLinkProofs!TypeCorrect` | types; a connected task knows its mode | inductive by itself |
| `UnitLinkProofs!OutcomeIsFinal` | `VerdictFinal` | `TimersInv`: the timeout's age is at most the polling age plus `MaxStall`, and the polling age restarts within `PollOff`; `TimingAssumption` then keeps the timeout out of reach |
| `UnitLinkProofs!SpeakInTurns` | `InTurns` | `TurnInv`: in the states that send the line is quiet; while searching the request's age is the timeout's, so a retry comes after the answer |
| `UnitLinkProofs!ReadyImage` | `ReadyMeansImageRead` | `ImageInv`: what the line holds belongs to the section being read, and all earlier sections are in place, or the answer was lost and the handshake fails |
| `EepromSyncProofs!TypeCorrect` | types; one request outstanding at most | in parts, one per prover |
| `EepromSyncProofs!StaleAlwaysKnown` | `StaleIsKnown` | `PhaseInv` (marks only while merging or clearing), `QuietInv` (until an app writes only the task touches the word, and a counter is ahead of the poll's by the changes since), `KnownInv` (a stale section, a stale answer and a bit being cleared are each known) |
| `EepromSyncProofs!CachesTheUnit` | `WritesBack`: `EepromSync` implements `WriteBack`, with any overlaps and torn updates | `CalmInv`, which holds until a clash and again from a write or change that begins at rest (`RestIsCalm`): one task at a time updates the word, one app writes, and none asks for a section while the image is erased (`Whole`, `OneWriter`, `Still`); requests and answers are up to date (`UpToDate`); a bit is set once and only the one that was sent is cleared (`BitInv`); what is still to be written has moved no counter, so it is not read (`Untouched`). Every step then maps to one of the cache's or a stutter, faults included; every other one maps to `Disturbed` |
| `EepromSyncProofs!StaysCoherent` | what is neither dirty nor stale is the unit's, from a start at rest until the next clash and until something is lost; the same constants | `WriteBack`'s own invariant, through the refinement |
| `EepromSyncProofs!NeverBlanked` | `NotBlanked` | `BlankInv`: while no image was filled no write is asked for, not in a task's loaded copy of the word either; so while one write was begun, what is sent and what the unit holds was never erased |
| `EepromSyncProofs!StaleKnownOnceUp`, `NeverBlankedFromStart` | `StaleIsKnownOnceUp`, `NotBlanked` of `EepromStart` | `StartInv`: until the link is up (`ConnInv`) a section that was read is the unit's or its counter is not the image's, and the rest is still to be read; seeding the polls' counters turns this into the invariants of `EepromSync`, which hold from then on |
| `UnitUpdateProofs!TypeCorrect` | types; `Data_Counter` stays at three for each check | `TypeInv`: what the running comparison and the checks that have none yet may still count is part of the bound (`Counted`), the buffer has room for the rest (`Compared`), and every chunk that comes is of an image (`Served`) |
| `UnitUpdateProofs!DownloadsKeptOut` | `NoUpdateInBootloader`, for any meeting of the tasks | `ExclInv`, until a race: a running download shows its flag or has yet to, is the only one, and keeps the unit task at its test |
| `UnitUpdateProofs!StoredServed`, `CheckLeaves` | `StoredIsServed`, `CheckStores`, for any meeting of the tasks | All until a race (`UnlessRace`). `StoreInv`, until a second check of one run: a download writes the image as far as it was served, leaves the file alone, or has that much in the buffer (`DownloadInv`); without faults a file is whole, or has the version that made the check keep it (`CheckInv`). `SentInv`: what was sent is the beginning of the file, as far as its handle has moved, but for the last bytes. Both rest on `ExclInv`, as a file must not be written while it is sent |
| `OtaGateProofs!TypeCorrect` | types; nothing older becomes bootable | what is being tried is newer than what runs |
| `OtaGateProofs!VersionsGivenUp` | `GivesUp` | `Counted`: the streak is at most what NVS books for that version plus the losses, and one more while a failure is being booked |
| `OtaGateProofs!SkipsEarned` | `SkipEarned` | `Booking`: without losses NVS and the streak agree, but for the failure or clearing under way |
| `WifiManagerProofs!TypeCorrect` | types; the limits of queue, packets, attempts | in parts: flags, packets, credentials, callback, requests, attempts |
| `WifiManagerProofs!LastWins` | `LatestWins` | `NewestInv`: the newest request is the last of the queue, or, with an empty queue, the task's; but for a sender that has just made room, which then puts its own in |
| `WifiManagerProofs!StationStored` | `StationIsStored` | `BootInv`: the start-up's request is what NVS holds and nothing is saved before it is done with; `StoredInv`: what NVS, the shared pair and the station have to do with each other at each step of the task |
| `WifiManagerProofs!StatusTrue` | `StatusMatches` | inductive given the types |
| `MqttConnectionProofs!TypeCorrect` | types; a started client exists | in parts |
| `MqttConnectionProofs!EndpointIsStored` | `SelectedIsStored` | `EndpointInv`: what each commit still has to write is known at the place where the maintenance stands |
| `MqttConnectionProofs!FlagTellsTruth` | `FlagIsTrue` | `FlagInv`: the same at every place of the maintenance |
| `MqttConnectionProofs!SubscriptionsFollow` | `TopicsFollowSerial` | `NoneInv`, `TopicsInv`: the memory of what is subscribed outlives the connection, the topics do not |
| `MqttConnectionProofs!ReadyWhenAcknowledged` | `AcknowledgedIsReady` | `AcksInv`: what is outstanding and what was counted are two together until the client is ready |
| `UartRxProofs!TypeCorrect` | types; the receive task never waits for bytes that are not there | `QueueInv`: the events count the bytes of the ring from its start |
| `UartRxProofs!Implements` | `DeliversInTurn`: `UartRx` implements `FrameLine`, with questions asked over leftovers, cut answers and overflows | Always: a claim is used up from its start (`ClaimInv`), and the bytes on their way, from ring to copy, never go back to an earlier answer, nor before one that was accepted (`FlowInv`); so nothing is accepted after a later answer, whatever was spoilt. Until an answer is spoilt, or the reader deaf: nothing is under way, or only the answer to the question asked last, in exactly one of wire, ring, cache, claim and copy (`TurnInv`). Every step maps to `Send`, `Deliver`, `DeliverLate`, `Spoil`, `Renew` or a stutter |
| `UartRxProofs!InTurn` | answers are delivered in order, whatever is spoilt, and none twice until one is | `FrameLine`'s own invariant, through the refinement |
| `UartRxProofs!DeafForEver` | a deaf reader stays deaf | the claim is neither used up nor replaced |
| `LongWriteProofs!TypeCorrect` | types; the length stays below what was sent | room is kept for the parts still to come |
| `LongWriteProofs!WholeImage`, `NewestImage` | `ImageIsWhole`, `ImageIsNewestUncut` | `BufferInv`: until a connection breaks, the buffer is that of the write under way, and its last `prepare_len` parts are of that write; so a length of a whole image means a whole image |

None of these invariants is inductive as it stands: each speaks of the states in which
the property is visible, and the strengthening says what must hold on the way there.

Only model-checked is liveness (`HandshakeEnds`, `SearchGoesOn`, `CleanLineConnects`, `WriteLands`, `CatchesUp`,
`UnitIsServed`, `RolloutEnds`, `TaskReturns`, `Reconnects`, `ReachesAnnounced`, `WholeAnswerTaken`), of which the
safety half is proved where there is one: that what `WriteLands` and `CatchesUp` wait for cannot
be dropped or overtaken is `CachesTheUnit`. The proof
system has no rules here for fairness and ENABLED, for induction over data, or for
RECURSIVE operators, none of which the modules declare.

## 6. What the model leaves out

* Byte layouts, checksums, JSON, topics, logging and the blink patterns of the LEDs.
* `Millis()` wrapping after 49.7 days, for which the test at `unit_comm.c:171` is
  wrong for a moment: `VerdictFinal` does not hold across it.
* Frames that answer no request (noise that passes the checksum), and the two texts that
  `Read_Message` accepts wherever they stand.
* A restart of the unit while the link is up, in `EepromSync`.
* Events of the HTTP client other than whole buffers of 512 bytes.
* Packets of several fragments within their limit: a second write of the same half overflows in
  the run's bounds, while the module appends it (`MaxLength`).
* Pairing and advertising, which are calls of the stack without state of the program's own; a
  client that breaks the order of the parts of a long write.
* What a call on a destroyed MQTT client or on a deleted event group does.
* LEDs and GPIO: patterns computed from flags that other modules model. The start-up of
  `app_main` is a list of calls; what it reads from NVS is `WifiManager`'s `Restart`.
* `build/`, `sdkconfig`, certificates; `lib/` and `test/` are placeholders.

## 7. What could come next

1. A narrower notion of a clash: `clashed` gives up the whole image, where often only one section is concerned (a
   read of a place that is being written), and asks for rest before anything is promised again.
2. An abstract mailbox that holds one request, which the queue of `WifiManager` implements when it
   is not being made room in.
3. The composition of `UnitUpdate`'s transfer with `UartRx`, whose acknowledgements have no frame.
