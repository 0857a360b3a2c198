----------------------------- MODULE EepromStart -----------------------------
(***************************************************************************)
(* How the image of EepromSync comes about: the states of Connect_To_Unit  *)
(* (src/unit_comm.c) that read every section once, compare the counters of *)
(* a poll with those of the image, and seed the counters of the polls,     *)
(* while the callbacks may write the image as at any other time: neither   *)
(* asks whether the link is up.                                            *)
(*                                                                         *)
(* Before WBM_Connected only the steps of this module are the unit task's; *)
(* afterwards those of EepromSync are.  Retries, timeouts and the search   *)
(* for the unit are in UnitLink: here the handshake succeeds or is given   *)
(* up.  Configuration, which is read too, is overlaid by HWSetting.        *)
(***************************************************************************)
EXTENDS EepromSync

VARIABLES
    currentState,   \* of Connect_To_Unit; "up" and "down" are WBM_Connected, WBM_Error
    toRead          \* the sections still to be read, in the order of their numbers

handshake == <<currentState, toRead>>
allVars == <<vars, handshake>>

-----------------------------------------------------------------------------
InitStart ==
    /\ currentState = "ReadEeprom" /\ toRead = Sections
    /\ Read_Eeprom_Request_Index = {} /\ Eeprom_Data_received = FALSE
    /\ gRDEeprom = [s \in Sections |-> Blank] /\ cntUpdate = [s \in Counted |-> 0]
    /\ s_ext_cnt = [s \in Counted |-> 0]
    /\ pc = "connecting" /\ marks = {}
    /\ busy = {} /\ loaded = [t \in Tasks |-> {}]
    /\ app = [a \in Apps |-> [at |-> "idle", left |-> {}]] /\ writes = 0
    /\ unitData = [s \in Sections |-> ByUnit(0)] /\ unitCnt \in [Counted -> Cnt]
    /\ changes = 0 /\ faults = 0 /\ wire = None /\ inbox = None /\ clashed = FALSE

Asked(s) == currentState = "ReadEeprom" /\ s \in toRead /\ \A o \in toRead : s <= o

\* The unit answers the request of the present state ...
HandshakeAnswer ==
    /\ inbox = None
    /\ \/ \E s \in toRead :
             /\ Asked(s)
             /\ inbox' = [kind |-> "read", sec |-> s, data |-> unitData[s],
                          cnt |-> IF s \in Counted THEN unitCnt[s] ELSE 0]
       \/ /\ currentState = "PollingBase"
          /\ inbox' = [kind |-> "poll", cnts |-> unitCnt]
    /\ UNCHANGED <<word, image, loop, apps, unit, wire, faults, handshake>>

\* ... which copies it over the image, and the section's counter with it.
SectionRead ==
    /\ currentState = "ReadEeprom" /\ inbox.kind = "read"
    /\ gRDEeprom' = [gRDEeprom EXCEPT ![inbox.sec] = inbox.data]
    /\ cntUpdate' = [s \in Counted |-> IF s = inbox.sec THEN inbox.cnt ELSE cntUpdate[s]]
    /\ toRead' = toRead \ {inbox.sec} /\ inbox' = None
    /\ currentState' = IF toRead' = {} THEN "PollingBase" ELSE "ReadEeprom"
    /\ UNCHANGED <<word, loop, apps, unit, wire, faults>>

\* Mutant: the counters are seeded from the poll, which nothing is compared with.
PollSeeds ==
    /\ currentState = "PollingBase" /\ inbox.kind = "poll"
    /\ s_ext_cnt' = inbox.cnts
    /\ inbox' = None
    /\ currentState' = "up" /\ pc' = "timers"
    /\ UNCHANGED <<word, image, Eeprom_Data_received, marks, apps, unit, wire, faults, toRead>>

\* WBM_Polling_Base_Data_Parse seeds the counters from the image and looks for changes
\* since the sections were read.
PollParsed ==
    /\ currentState = "PollingBase" /\ inbox.kind = "poll"
    /\ marks' = {Read(s) : s \in {c \in Counted : inbox.cnts[c] # cntUpdate[c]}}
    /\ inbox' = None
    /\ currentState' = "Connected"
    /\ UNCHANGED <<word, image, Eeprom_Data_received, s_ext_cnt, pc, apps, unit, wire, faults, toRead>>

\* The bits of these, one after the other.
MarkSet ==
    /\ currentState = "Connected"
    /\ \/ /\ marks # {} /\ Load("task")
          /\ UNCHANGED marks
       \/ \E m \in marks :
             /\ \A o \in marks : m.sec <= o.sec
             /\ Store("task", loaded["task"] \cup {m})
             /\ marks' = marks \ {m}
    /\ UNCHANGED <<image, Eeprom_Data_received, s_ext_cnt, pc, apps, unit, line, handshake>>

\* unit_comm_seed_external_counters, again from the image.
Seeded ==
    /\ currentState = "Connected" /\ marks = {}
    /\ s_ext_cnt' = cntUpdate
    /\ currentState' = "up" /\ pc' = "timers"
    /\ UNCHANGED <<word, image, Eeprom_Data_received, marks, apps, unit, line, toRead>>

\* No answer, or a broken one: the timeout ends the handshake for good.
HandshakeFails ==
    /\ currentState \in {"ReadEeprom", "PollingBase"} /\ inbox = None
    /\ faults < MaxFaults /\ faults' = faults + 1
    /\ currentState' = "down"
    /\ UNCHANGED <<word, image, loop, apps, unit, wire, inbox, toRead>>

Connect_To_Unit == SectionRead \/ PollParsed \/ MarkSet \/ Seeded

NextStart ==
    \/ Connect_To_Unit \/ HandshakeAnswer \/ HandshakeFails
    \/ Next /\ UNCHANGED handshake

SpecStart == InitStart /\ [][NextStart]_allVars

-----------------------------------------------------------------------------
(* Properties *)

\* When the link comes up the image is whole, of the unit's sections and at most one
\* write's, and from then on a section that the unit changed is known to be stale, also
\* one changed while the others were read (unit_comm.c:598-627).
StaleIsKnownOnceUp ==
    currentState = "up" =>
        /\ Idle /\ writes <= 1 => \A s \in Sections : gRDEeprom[s] # Blank
        /\ StaleIsKnown
=============================================================================
