------------------------------ MODULE UnitLink ------------------------------
(***************************************************************************)
(* The serial link between the Wi-Fi/BLE module and the ventilation unit:  *)
(* Unit_event_task and Connect_To_Unit of src/unit_comm.c.  The task first *)
(* searches for the unit, then reads the six EEPROM sections one by one,   *)
(* polls once and stays connected.  Every wait is bounded by the clock.    *)
(*                                                                         *)
(* Time is counted in ticks; an age is Millis() minus the time stamp the   *)
(* code keeps, and stops growing at Timeout.  A frame is only its kind:    *)
(* what the sections contain is the business of module EepromSync.         *)
(***************************************************************************)
EXTENDS Integers, Sequences

CONSTANTS
    PollOn,       \* PollingBase_PowerOn_Serial_Milliseconds
    PollOff,      \* PollingBase_PowerOff_Milliseconds
    DebugPeriod,  \* PollingDebugData_Milliseconds
    Timeout,      \* TimeoutMilliseconds
    ReplyWithin,  \* a unit that answers does so within this many ticks
    MaxStall,     \* ticks the task may lose between two of its steps
    MaxFaults     \* bound on lost and corrupted frames

ASSUME ConstantsAssumption ==
    /\ {PollOn, PollOff, DebugPeriod, Timeout} \subseteq Nat \ {0}
    /\ {ReplyWithin, MaxStall, MaxFaults} \subseteq Nat
    /\ PollOn <= PollOff

\* The scheduling the link relies on: a late answer never meets a retry, and
\* the task is never kept from running for most of the 15 s.
ASSUME TimingAssumption ==
    /\ ReplyWithin + MaxStall < Timeout
    /\ PollOff + 2 * MaxStall <= Timeout

VARIABLES
    WBM_Com_State, currentState, section,
    foundComLink, retriesCounter, RunningMode,
    Eeprom_Data_received,   \* a request was sent and not answered
    Bootloader_Mode,
    s_runtime_ready,        \* what ble.c tells the app
    gRDEeprom,              \* per area, the frame its bytes were copied from
    globalAge, pollAge, debugAge,
    pc,                     \* where the loop of the WBM_Connected case stands
    stall,                  \* ticks since the task last ran
    unit, wire, inbox, faults

link == <<WBM_Com_State, currentState, section, foundComLink, retriesCounter>>
timers == <<globalAge, pollAge, debugAge>>
shown == <<s_runtime_ready, gRDEeprom, RunningMode>>
env == <<unit, wire, inbox, faults>>
vars == <<link, timers, shown, Eeprom_Data_received, Bootloader_Mode, pc, stall, env>>

-----------------------------------------------------------------------------
\* The order in which the sections are read while connecting.  Configuration
\* and HWSetting are the same bytes of the image (protocol_Serial.h:318,334).
ReadOrder == <<"Info", "Configuration", "SettingPar", "SetTemp", "DayProg", "HWSetting">>
Area(i) == IF i = 6 THEN ReadOrder[2] ELSE ReadOrder[i]
Areas == {Area(i) : i \in 1..6}

Request == {"poll", "debug", "eeprom"} \cup {ReadOrder[i] : i \in 1..6}
\* What the UART hands to Read_Message: the answer to a request, a frame that
\* fails the header, length or checksum test, or the "Bootloader" banner.
Frame == Request \cup {"garbage", "bootloader"}
NoFrame == "none"

ConnectStates == {"Init", "LinkConnecting", "TrySerialLink", "LinkConnected",
                  "ReadEeprom", "PollingBase", "Connected", "Bootloader_State"}

Init ==
    /\ WBM_Com_State = "WBM_initialize"
    /\ currentState = "Init" /\ section = 1
    /\ foundComLink = FALSE /\ retriesCounter = 0
    /\ RunningMode = "Initializing"
    /\ Eeprom_Data_received = FALSE
    /\ Bootloader_Mode = FALSE
    /\ s_runtime_ready = FALSE
    /\ gRDEeprom = [a \in Areas |-> NoFrame]
    /\ globalAge = 0 /\ pollAge = 0 /\ debugAge = 0
    /\ pc = "top" /\ stall = 0
    /\ unit = "running" /\ wire = <<>> /\ inbox = NoFrame /\ faults = 0

-----------------------------------------------------------------------------
(* The task *)

\* Com_SendRequest_*: the request is on the wire, its answer still to come;
\* with nobody at the other end it is gone.
Send(k) == wire' = IF unit = "running" THEN Append(wire, [kind |-> k, age |-> 0]) ELSE wire

\* A wait of Connect_To_Unit or of the connected loop has run out.
\* Mutant: a timeout shorter than the unit's answering time.
TimedOutTooSoon == globalAge >= 1

TimedOut == globalAge >= Timeout

\* The task runs one step of its loop.
Runs == stall' = 0

Communicating(s) == WBM_Com_State = "WBM_Communicating" /\ currentState = s

Initialize ==
    /\ WBM_Com_State = "WBM_initialize"
    /\ WBM_Com_State' = "WBM_Communicating"
    /\ currentState' = "Init"
    /\ s_runtime_ready' = FALSE
    /\ Runs
    /\ UNCHANGED <<section, foundComLink, retriesCounter, gRDEeprom, RunningMode,
                   timers, Eeprom_Data_received, Bootloader_Mode, pc, env>>

ConnectInit ==
    /\ Communicating("Init")
    /\ globalAge' = 0
    /\ currentState' = "LinkConnecting"
    /\ retriesCounter' = 0
    /\ Runs
    /\ UNCHANGED <<WBM_Com_State, section, foundComLink, pollAge, debugAge, shown,
                   Eeprom_Data_received, Bootloader_Mode, pc, env>>

\* Two polls at most per round, none once the link was found.
\* Mutant: the link flag is tested the wrong way round.
MayProbeWhenFound == retriesCounter < 2 /\ foundComLink

MayProbe == retriesCounter < 2 /\ ~foundComLink

LinkConnecting ==
    /\ Communicating("LinkConnecting")
    /\ IF MayProbe
       THEN /\ Send("poll")
            /\ retriesCounter' = retriesCounter + 1
            /\ globalAge' = 0
       ELSE UNCHANGED <<wire, retriesCounter, globalAge>>
    /\ currentState' = "TrySerialLink"
    /\ Runs
    /\ UNCHANGED <<WBM_Com_State, section, foundComLink, pollAge, debugAge, shown,
                   Eeprom_Data_received, Bootloader_Mode, pc, unit, inbox, faults>>

\* After the second silent poll the UART is set up again and the search
\* restarts; WBM_Error is left within the same step (unit_comm.c:427-432).
\* Mutant: the last line of that branch is missing.
TrySerialLinkGivesUp ==
    /\ Communicating("TrySerialLink")
    /\ TimedOut
    /\ IF retriesCounter = 2
       THEN /\ WBM_Com_State' = "WBM_Error"
            /\ retriesCounter' = 0 /\ currentState' = "Init"
            /\ UNCHANGED globalAge
       ELSE /\ globalAge' = 0 /\ currentState' = "LinkConnecting"
            /\ UNCHANGED <<WBM_Com_State, retriesCounter>>
    /\ Runs
    /\ UNCHANGED <<section, foundComLink, pollAge, debugAge, shown,
                   Eeprom_Data_received, Bootloader_Mode, pc, env>>

TrySerialLinkTimeout ==
    /\ Communicating("TrySerialLink")
    /\ TimedOut
    /\ \/ /\ retriesCounter = 2
          /\ retriesCounter' = 0
          /\ currentState' = "Init"
          /\ UNCHANGED globalAge
       \/ /\ retriesCounter # 2
          /\ globalAge' = 0
          /\ currentState' = "LinkConnecting"
          /\ UNCHANGED retriesCounter
    /\ Runs
    /\ UNCHANGED <<WBM_Com_State, section, foundComLink, pollAge, debugAge, shown,
                   Eeprom_Data_received, Bootloader_Mode, pc, env>>

\* Read_Message takes the cached frame; a banner also latches Bootloader_Mode.
TakeFrame ==
    /\ inbox' = NoFrame
    /\ Bootloader_Mode' = (Bootloader_Mode \/ inbox = "bootloader")
    /\ UNCHANGED <<unit, wire, faults>>

\* val_ret > RUN_DOWNLOAD: a whole frame, of whatever kind.
GotMessage == inbox \notin {NoFrame, "garbage"}

\* The banner is tested after the answer and wins over it.
TrySerialLinkRead ==
    /\ Communicating("TrySerialLink")
    /\ ~TimedOut
    /\ TakeFrame
    /\ currentState' = IF Bootloader_Mode' THEN "Bootloader_State"
                       ELSE IF GotMessage THEN "LinkConnected" ELSE "TrySerialLink"
    /\ Runs
    /\ UNCHANGED <<WBM_Com_State, section, foundComLink, retriesCounter, timers, shown,
                   Eeprom_Data_received, pc>>

LinkConnected ==
    /\ Communicating("LinkConnected")
    /\ foundComLink' = TRUE
    /\ Send(ReadOrder[1])
    /\ currentState' = "ReadEeprom" /\ section' = 1
    /\ globalAge' = 0
    /\ Runs
    /\ UNCHANGED <<WBM_Com_State, retriesCounter, pollAge, debugAge, shown,
                   Eeprom_Data_received, Bootloader_Mode, pc, unit, inbox, faults>>

\* The wait for an answer while connecting: WBM_Error, and nothing leaves it.
\* Mutant: the wait is prolonged instead.
AnswerTimeoutProlonged ==
    /\ Communicating("ReadEeprom") \/ Communicating("PollingBase")
    /\ TimedOut
    /\ globalAge' = 0
    /\ Runs
    /\ UNCHANGED <<link, pollAge, debugAge, shown, Eeprom_Data_received,
                   Bootloader_Mode, pc, env>>

AnswerTimeout ==
    /\ Communicating("ReadEeprom") \/ Communicating("PollingBase")
    /\ TimedOut
    /\ WBM_Com_State' = "WBM_Error"
    /\ retriesCounter' = 0
    /\ Runs
    /\ UNCHANGED <<currentState, section, foundComLink, timers, shown,
                   Eeprom_Data_received, Bootloader_Mode, pc, env>>

\* A step of the connecting wait that finds no whole frame.
AnswerAwaited ==
    /\ Communicating("ReadEeprom") \/ Communicating("PollingBase")
    /\ ~TimedOut /\ ~GotMessage
    /\ TakeFrame
    /\ Runs
    /\ UNCHANGED <<link, timers, shown, Eeprom_Data_received, pc>>

\* The bytes go to the section that is being waited for: neither the command
\* nor the start address of the frame is looked at.
ReadEepromReply ==
    /\ Communicating("ReadEeprom")
    /\ ~TimedOut /\ GotMessage
    /\ inbox' = NoFrame
    /\ Bootloader_Mode' = (Bootloader_Mode \/ inbox = "bootloader")
    /\ gRDEeprom' = [gRDEeprom EXCEPT ![Area(section)] = inbox]
    /\ \/ /\ section < 6
          /\ Send(ReadOrder[section + 1])
          /\ section' = section + 1
          /\ UNCHANGED currentState
       \/ /\ section = 6
          /\ Send("poll")
          /\ currentState' = "PollingBase"
          /\ UNCHANGED section
    /\ globalAge' = 0
    /\ Runs
    /\ UNCHANGED <<WBM_Com_State, foundComLink, retriesCounter, pollAge, debugAge,
                   RunningMode, s_runtime_ready, Eeprom_Data_received, pc, unit, faults>>

PollingBaseReply ==
    /\ Communicating("PollingBase")
    /\ ~TimedOut /\ GotMessage
    /\ TakeFrame
    /\ currentState' = "Connected"
    /\ globalAge' = 0
    /\ Runs
    /\ UNCHANGED <<WBM_Com_State, section, foundComLink, retriesCounter, pollAge, debugAge,
                   shown, Eeprom_Data_received, pc>>

\* The running mode is decided here, from Set_Power_ON, and never again.
\* Mutant: it is not decided.
EnterConnectedNoMode ==
    /\ Communicating("Connected")
    /\ pollAge' = 0 /\ debugAge' = 0
    /\ WBM_Com_State' = "WBM_Connected"
    /\ s_runtime_ready' = TRUE
    /\ pc' = "top" /\ Runs
    /\ UNCHANGED <<currentState, section, foundComLink, retriesCounter, globalAge,
                   gRDEeprom, RunningMode, Eeprom_Data_received, Bootloader_Mode, env>>

EnterConnected ==
    /\ Communicating("Connected")
    /\ RunningMode' \in {"PowerOff", "Running"}
    /\ pollAge' = 0 /\ debugAge' = 0
    /\ WBM_Com_State' = "WBM_Connected"
    /\ s_runtime_ready' = TRUE
    /\ pc' = "top" /\ Runs
    /\ UNCHANGED <<currentState, section, foundComLink, retriesCounter, globalAge,
                   gRDEeprom, Eeprom_Data_received, Bootloader_Mode, env>>

-----------------------------------------------------------------------------
(* The loop of the WBM_Connected case: timers, timeout, message, dispatch. *)

Connected(p) == WBM_Com_State = "WBM_Connected" /\ pc = p

DebugDue == RunningMode = "Running" /\ debugAge >= DebugPeriod
PollDue == pollAge >= IF RunningMode = "PowerOff" THEN PollOff ELSE PollOn

\* The request is sent only when none is outstanding ...
\* Mutant: it is sent in any case.
AskAnyway(k) == Send(k) /\ Eeprom_Data_received' = TRUE

AskIfFree(k) ==
    /\ IF Eeprom_Data_received THEN UNCHANGED wire ELSE Send(k)
    /\ Eeprom_Data_received' = TRUE

\* ... but its timer and the timeout's time stamp are refreshed in any case.
\* Mutant: the time stamp is left to the answers.
KeepGlobalTimeout == UNCHANGED globalAge

RefreshGlobalTimeout == globalAge' = 0

ConnectedTimers ==
    /\ Connected("top")
    /\ \/ /\ DebugDue
          /\ AskIfFree("debug")
          /\ debugAge' = 0 /\ pollAge' = 0 /\ RefreshGlobalTimeout
       \/ /\ ~DebugDue /\ PollDue
          /\ AskIfFree("poll")
          /\ pollAge' = 0 /\ RefreshGlobalTimeout
          /\ UNCHANGED debugAge
       \/ /\ ~DebugDue /\ ~PollDue
          /\ UNCHANGED <<timers, wire, Eeprom_Data_received>>
    /\ pc' = "timeout" /\ Runs
    /\ UNCHANGED <<link, shown, Bootloader_Mode, unit, inbox, faults>>

ConnectedTimeout ==
    /\ Connected("timeout")
    /\ IF TimedOut
       THEN /\ WBM_Com_State' = "WBM_Error"
            /\ retriesCounter' = 0
            /\ Eeprom_Data_received' = FALSE
       ELSE UNCHANGED <<WBM_Com_State, retriesCounter, Eeprom_Data_received>>
    /\ pc' = "read" /\ Runs
    /\ UNCHANGED <<currentState, section, foundComLink, timers, shown, Bootloader_Mode, env>>

\* A polling, debug or EEPROM answer ends the wait, and so does a broken
\* frame; the banner does not.
EndsWait == inbox \in Request \cup {"garbage"}

\* Read_Message, and then the dispatch of Read_Eeprom_Request_Index, which
\* sends at most one EEPROM request when none is outstanding any more.
ConnectedRead ==
    /\ Connected("read")
    /\ inbox' = NoFrame
    /\ Bootloader_Mode' = (Bootloader_Mode \/ inbox = "bootloader")
    /\ globalAge' = IF GotMessage THEN 0 ELSE globalAge
    /\ LET waiting == Eeprom_Data_received /\ ~EndsWait
       IN  \/ /\ Eeprom_Data_received' = waiting
              /\ UNCHANGED wire
           \/ /\ ~waiting
              /\ Send("eeprom")
              /\ Eeprom_Data_received' = TRUE
    /\ pc' = "top" /\ Runs
    /\ UNCHANGED <<link, pollAge, debugAge, shown, unit, faults>>

ErrorLoop ==
    /\ WBM_Com_State = "WBM_Error"
    /\ s_runtime_ready' = FALSE
    /\ Runs
    /\ UNCHANGED <<link, timers, gRDEeprom, RunningMode, Eeprom_Data_received,
                   Bootloader_Mode, pc, env>>

Unit_event_task ==
    \/ Initialize \/ ConnectInit \/ LinkConnecting
    \/ TrySerialLinkTimeout \/ TrySerialLinkRead \/ LinkConnected
    \/ AnswerTimeout \/ AnswerAwaited \/ ReadEepromReply \/ PollingBaseReply
    \/ EnterConnected
    \/ ConnectedTimers \/ ConnectedTimeout \/ ConnectedRead
    \/ ErrorLoop

-----------------------------------------------------------------------------
(* The clock, the unit and the line *)

Older(age) == IF age < Timeout THEN age + 1 ELSE age

\* The task is not delayed for ever, and an answer is not overdue.  A task
\* that serves the bootloader is outside this module.
MayTick ==
    /\ stall < MaxStall \/ currentState = "Bootloader_State"
    /\ \A i \in 1..Len(wire) : wire[i].age < ReplyWithin

\* The poll and debug time stamps are set when the link is entered and only
\* read in the connected loop.
Tick ==
    /\ MayTick
    /\ stall' = IF stall < MaxStall THEN stall + 1 ELSE stall
    /\ globalAge' = Older(globalAge)
    /\ IF WBM_Com_State = "WBM_Connected"
       THEN pollAge' = Older(pollAge) /\ debugAge' = Older(debugAge)
       ELSE UNCHANGED <<pollAge, debugAge>>
    /\ wire' = [i \in 1..Len(wire) |-> [wire[i] EXCEPT !.age = @ + 1]]
    /\ UNCHANGED <<link, shown, Eeprom_Data_received, Bootloader_Mode, pc, unit, inbox, faults>>

task == <<link, timers, shown, Eeprom_Data_received, Bootloader_Mode, pc, stall>>

\* The unit answers the oldest request.  The UART cache holds one frame: a
\* new one replaces it (Uart1.c:50-65).
UnitReplies ==
    /\ unit = "running" /\ wire # <<>>
    /\ inbox' = Head(wire).kind
    /\ wire' = Tail(wire)
    /\ UNCHANGED <<task, unit, faults>>

\* The request or its answer is lost, or the answer arrives broken.
LineFault ==
    /\ faults < MaxFaults /\ wire # <<>>
    /\ inbox' \in {inbox, "garbage"}
    /\ wire' = Tail(wire)
    /\ faults' = faults + 1
    /\ UNCHANGED <<task, unit>>

\* The unit is switched off or breaks: it never answers again.
UnitDies ==
    /\ unit = "running"
    /\ unit' = "dead" /\ wire' = <<>>
    /\ UNCHANGED <<task, inbox, faults>>

\* The unit restarts into its bootloader and says so once.
UnitEntersBootloader ==
    /\ unit = "running"
    /\ unit' = "bootloader" /\ inbox' = "bootloader" /\ wire' = <<>>
    /\ UNCHANGED <<task, faults>>

Environment == Tick \/ UnitReplies \/ LineFault \/ UnitDies \/ UnitEntersBootloader

Next == Unit_event_task \/ Environment

Spec == Init /\ [][Next]_vars

\* The scheduler runs the task (vTaskDelay(1) in its loop), time passes, a
\* running unit answers.  Faults, death and the bootloader need not happen.
Fairness ==
    /\ WF_vars(Unit_event_task) /\ WF_vars(Tick)
    /\ WF_vars(UnitReplies)
FairSpec == Spec /\ Fairness

-----------------------------------------------------------------------------
(* Properties *)

\* Every variable has its type, and a connected task knows its running mode,
\* on which both request timers depend (unit_comm.c:135,154).
TypeOK ==
    /\ WBM_Com_State \in {"WBM_initialize", "WBM_Communicating", "WBM_Connected", "WBM_Error"}
    /\ currentState \in ConnectStates /\ section \in 1..6
    /\ foundComLink \in BOOLEAN /\ retriesCounter \in 0..2
    /\ RunningMode \in {"Initializing", "PowerOff", "Running"}
    /\ WBM_Com_State = "WBM_Connected" => RunningMode # "Initializing"
    /\ Eeprom_Data_received \in BOOLEAN /\ Bootloader_Mode \in BOOLEAN
    /\ s_runtime_ready \in BOOLEAN
    /\ gRDEeprom \in [Areas -> Frame \cup {NoFrame}]
    /\ globalAge \in 0..Timeout /\ pollAge \in 0..Timeout /\ debugAge \in 0..Timeout
    /\ pc \in {"top", "timeout", "read"} /\ stall \in 0..MaxStall
    /\ unit \in {"running", "dead", "bootloader"}
    /\ wire \in Seq([kind : Request, age : 0..ReplyWithin])
    /\ inbox \in Frame \cup {NoFrame} /\ faults \in 0..MaxFaults

\* The task and the unit speak in turns: a request is never on the wire
\* together with another one or with an unread answer, although retries, the
\* two timers and the dispatcher all send.  In the connected loop whatever is
\* outstanding is known to be so (Eeprom_Data_received).
InTurns ==
    /\ Len(wire) <= 1
    /\ wire # <<>> => inbox = NoFrame
    /\ (WBM_Com_State = "WBM_Connected" /\ (wire # <<>> \/ inbox \in Request))
          => Eeprom_Data_received

\* The app is told that the device is ready only when every byte of the
\* image came from the section it belongs to, although the answers are
\* matched with the sections by position alone (unit_comm.c:460-591).
ReadyMeansImageRead ==
    s_runtime_ready =>
        /\ WBM_Com_State = "WBM_Connected"
        /\ \A i \in {1, 3, 4, 5, 6} : gRDEeprom[Area(i)] = ReadOrder[i]

\* The outcome of connecting is final.  WBM_Error has no way out, and a
\* connected task never times out: the two request timers refresh the
\* timeout's time stamp whether or not the unit answers (unit_comm.c:150,167),
\* so lines 171-178 are never executed while the task is scheduled.
VerdictFinal ==
    [][(WBM_Com_State \in {"WBM_Connected", "WBM_Error"})
          => WBM_Com_State' = WBM_Com_State]_vars

\* No wait of the handshake hangs: once the unit was heard, the task ends up
\* connected or in WBM_Error, whatever the line loses (unit_comm.c:460-607).
HandshakeEnds == foundComLink ~> WBM_Com_State \in {"WBM_Connected", "WBM_Error"}

\* Until a unit or a bootloader is heard the task goes on probing, through
\* any number of rounds of two polls (unit_comm.c:408-439).
SearchGoesOn ==
    []<>(currentState = "LinkConnecting" \/ foundComLink \/ currentState = "Bootloader_State")

\* A running unit on a line without faults is connected to.
CleanLineConnects ==
    (<>[](unit = "running" /\ faults = 0)) => <>(WBM_Com_State = "WBM_Connected")

\* What the comment at unit_comm.c:173 says of the 15 s timeout of the
\* connected loop: "no connection with Unit board after Timeout".
DeadUnitIsNoticed ==
    (WBM_Com_State = "WBM_Connected" /\ unit = "dead") ~> (WBM_Com_State = "WBM_Error")
=============================================================================
