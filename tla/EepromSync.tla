----------------------------- MODULE EepromSync -----------------------------
(***************************************************************************)
(* The image of the unit's EEPROM while the link is up: the WBM_Connected  *)
(* case of Unit_event_task and the parsers it calls (src/unit_comm.c), and *)
(* the writes the app makes into the image over BLE or MQTT (src/ble.c,    *)
(* src/mqtt_app.c).                                                        *)
(*                                                                         *)
(* The unit counts the changes of most sections.  A poll answer whose      *)
(* counters differ from those seen last asks for the section to be read    *)
(* again; an app's write replaces the whole image and asks for every       *)
(* section to be written.  The requests are bits of a 16-bit word that     *)
(* three tasks modify with |= and &= and without a lock.                   *)
(*                                                                         *)
(* A section's contents are only who made them and when.  The link's       *)
(* timeout is left out: it never fires (UnitLink, VerdictFinal).           *)
(***************************************************************************)
EXTENDS Integers, FiniteSets

CONSTANTS
    Sections,    \* the sections, numbered in the order of their bits
    Counted,     \* those with a change counter; EEepromSection_HWSetting has none
    Apps,        \* the writers: the BLE and the MQTT callback
    CntMod,      \* a counter is a byte: it wraps at 256
    Overlap,     \* may an app write, or the unit change, while a write is going on?
    Torn,        \* may an |= or &= be interleaved with another task's?
    MaxWrites, MaxChanges, MaxFaults   \* bounds on app writes, unit changes, bad answers

ASSUME SectionsAssumption == Sections \subseteq Nat /\ Counted \subseteq Sections
ASSUME BoundsAssumption ==
    /\ {MaxWrites, MaxChanges, MaxFaults} \subseteq Nat
    /\ Overlap \in BOOLEAN /\ Torn \in BOOLEAN
    /\ "task" \notin Apps

\* A section changes less often between two polls than its counter has values.
ASSUME CounterAssumption == CntMod \in Nat /\ MaxChanges < CntMod

VARIABLES
    Read_Eeprom_Request_Index,   \* the bits that are set
    Eeprom_Data_received,
    gRDEeprom, cntUpdate,        \* the image: the sections and the counters in them
    s_ext_cnt,                   \* the counters of the last poll answer
    pc, marks,                   \* the loop, and the bits it is about to set or clear
    busy, loaded,                \* who is amid an |= or &=, and the word each has loaded
    app,                         \* per writer: where it is, its bits still to be set
    writes,                      \* app writes so far
    clashed,                     \* history: writes and changes did not take turns
    unitData, unitCnt, changes, faults, wire, inbox

image == <<gRDEeprom, cntUpdate>>
loop == <<Eeprom_Data_received, s_ext_cnt, pc, marks>>
apps == <<app, writes>>
unit == <<unitData, unitCnt, changes>>
line == <<wire, inbox, faults>>
request == <<Read_Eeprom_Request_Index, busy, loaded>>
word == <<request, clashed>>
vars == <<word, image, loop, apps, unit, line>>

-----------------------------------------------------------------------------
Data == [by : {"unit", "app", "blank"}, n : Nat]
ByUnit(n) == [by |-> "unit", n |-> n]
ByApp(n) == [by |-> "app", n |-> n]
Blank == [by |-> "blank", n |-> 0]

Cnt == 0..(CntMod - 1)
NextCnt(c) == IF c = CntMod - 1 THEN 0 ELSE c + 1

Read(s) == [op |-> "read", sec |-> s]
Write(s) == [op |-> "write", sec |-> s]
Bits == {Read(s) : s \in Counted} \cup {Write(s) : s \in Sections}
AllWrites == {Write(s) : s \in Sections}

None == [kind |-> "none"]
Requests == [kind : {"poll", "debug"}] \cup [kind : {"read"}, sec : Counted]
              \cup [kind : {"write"}, sec : Sections, data : Data]
Answers == [kind : {"poll", "write"}, cnts : [Counted -> Cnt]]
              \cup [kind : {"read"}, sec : Counted, data : Data, cnt : Cnt]
              \cup [kind : {"debug", "garbage"}]
Tasks == {"task"} \cup Apps

\* The link has just come up.  A section may have been changed after it was
\* read and before this; the poll that ended the search tells of some of these
\* changes, whose bits are set, but the counters are taken from the image.
Init ==
    \E early \in SUBSET Counted : \E told \in SUBSET early :
        /\ changes = (IF early = {} THEN 0 ELSE 1) /\ changes <= MaxChanges
        /\ Read_Eeprom_Request_Index = {Read(s) : s \in told}
        /\ Eeprom_Data_received = FALSE
        /\ gRDEeprom = [s \in Sections |-> ByUnit(0)]
        /\ unitData = [s \in Sections |-> IF s \in early THEN ByUnit(1) ELSE ByUnit(0)]
        /\ cntUpdate \in [Counted -> Cnt]
        /\ unitCnt = [s \in Counted |-> IF s \in early THEN NextCnt(cntUpdate[s]) ELSE cntUpdate[s]]
        /\ s_ext_cnt = cntUpdate
        /\ pc = "timers" /\ marks = {}
        /\ busy = {} /\ loaded = [t \in Tasks |-> {}]
        /\ app = [a \in Apps |-> [at |-> "idle", left |-> {}]] /\ writes = 0
        /\ wire = None /\ inbox = None /\ faults = 0 /\ clashed = FALSE

-----------------------------------------------------------------------------
(* The request word *)

\* Index |= bits and Index &= ~bits are a load and a store.  Where the build
\* keeps them apart another task's store may come between.
Load(t) ==
    /\ t \notin busy
    /\ Torn \/ busy = {}
    /\ busy' = busy \cup {t}
    /\ loaded' = [loaded EXCEPT ![t] = Read_Eeprom_Request_Index]
    /\ clashed' = (clashed \/ busy # {})
    /\ UNCHANGED Read_Eeprom_Request_Index

Store(t, bits) ==
    /\ t \in busy
    /\ Read_Eeprom_Request_Index' = bits
    /\ busy' = busy \ {t}
    /\ loaded' = [loaded EXCEPT ![t] = {}]
    /\ UNCHANGED clashed

-----------------------------------------------------------------------------
(* The task *)

\* Polling base or debug data, when the timer has run out and nothing is
\* outstanding; the request is dropped otherwise.
Ask(k) ==
    /\ pc = "timers"
    /\ IF Eeprom_Data_received THEN UNCHANGED wire ELSE wire' = [kind |-> k]
    /\ Eeprom_Data_received' = TRUE
    /\ pc' = "read"
    /\ UNCHANGED <<word, image, s_ext_cnt, marks, apps, unit, inbox, faults>>

NoTimer ==
    /\ pc = "timers" /\ pc' = "read"
    /\ UNCHANGED <<word, image, Eeprom_Data_received, s_ext_cnt, marks, apps, unit, line>>

\* Read_Message finds nothing.
NoMessage ==
    /\ pc = "read" /\ inbox = None
    /\ pc' = "dispatch"
    /\ UNCHANGED <<word, image, Eeprom_Data_received, s_ext_cnt, marks, apps, unit, line>>

Answered(k) ==
    /\ pc = "read" /\ inbox.kind = k
    /\ inbox' = None
    /\ Eeprom_Data_received' = FALSE
    /\ pc' = "merge"
    /\ UNCHANGED <<word, apps, unit, wire, faults>>

\* WBM_Polling_Base_Data_Parse: a counter that is not the one seen last asks
\* for its section.
\* Mutant: only a counter that has grown does, so a wrap goes unnoticed.
Grown(cnts) == {Read(s) : s \in {c \in Counted : cnts[c] > s_ext_cnt[c]}}

Outdated(cnts) == {Read(s) : s \in {c \in Counted : cnts[c] # s_ext_cnt[c]}}

PollingBaseParse ==
    /\ Answered("poll")
    /\ marks' = Outdated(inbox.cnts)
    /\ s_ext_cnt' = inbox.cnts
    /\ UNCHANGED image

\* WBM_Read_Eeprom_Data_Parse
ReadEepromParse ==
    /\ Answered("read")
    /\ gRDEeprom' = [gRDEeprom EXCEPT ![inbox.sec] = inbox.data]
    /\ cntUpdate' = [cntUpdate EXCEPT ![inbox.sec] = inbox.cnt]
    /\ UNCHANGED <<s_ext_cnt, marks>>

\* WBM_Write_Eeprom_Data_Parse: the unit's verdict is only logged.
WriteEepromParse ==
    /\ Answered("write")
    /\ marks' = {Read(s) : s \in {c \in Counted : inbox.cnts[c] # cntUpdate[c]}}
    /\ cntUpdate' = inbox.cnts
    /\ UNCHANGED <<gRDEeprom, s_ext_cnt>>

\* Debug data concern no section, and a broken answer only ends the wait.
OtherParse ==
    /\ Answered("debug") \/ Answered("garbage")
    /\ UNCHANGED <<image, s_ext_cnt, marks>>

\* The parsers set one bit after the other.
Merge ==
    /\ pc = "merge"
    /\ \/ /\ marks = {} /\ pc' = "dispatch"
          /\ UNCHANGED <<word, marks>>
       \/ /\ marks # {} /\ Load("task")
          /\ UNCHANGED <<pc, marks>>
       \/ \E m \in marks :
             /\ \A o \in marks : m.sec <= o.sec
             /\ Store("task", loaded["task"] \cup {m})
             /\ marks' = marks \ {m}
             /\ UNCHANGED pc
    /\ UNCHANGED <<image, Eeprom_Data_received, s_ext_cnt, apps, unit, line>>

\* The chain of ifs: reads before writes, each in the order of the bits.
First(b) ==
    \A o \in Read_Eeprom_Request_Index :
        IF b.op = o.op THEN b.sec <= o.sec ELSE b.op = "read"

\* The request leaves with what the image holds at this moment ...
\* Mutant: every read asks for the first section.
SendFirstSection(b) ==
    wire' = IF b.op = "read" THEN [kind |-> "read", sec |-> CHOOSE s \in Counted : \A o \in Counted : s <= o]
            ELSE [kind |-> "write", sec |-> b.sec, data |-> gRDEeprom[b.sec]]

SendSection(b) ==
    wire' = IF b.op = "read" THEN [kind |-> "read", sec |-> b.sec]
            ELSE [kind |-> "write", sec |-> b.sec, data |-> gRDEeprom[b.sec]]

DispatchIdle ==
    /\ pc = "dispatch"
    /\ Read_Eeprom_Request_Index = {} \/ Eeprom_Data_received
    /\ pc' = "timers"
    /\ UNCHANGED <<word, image, Eeprom_Data_received, s_ext_cnt, marks, apps, unit, line>>

\* Mutant: the outstanding request is not looked at.
DispatchAnyway ==
    /\ pc = "dispatch"
    /\ \E b \in Read_Eeprom_Request_Index : First(b) /\ SendSection(b) /\ marks' = {b}
    /\ Eeprom_Data_received' = TRUE
    /\ pc' = "clear"
    /\ UNCHANGED <<word, image, s_ext_cnt, apps, unit, inbox, faults>>

Dispatch ==
    /\ pc = "dispatch"
    /\ ~Eeprom_Data_received
    /\ \E b \in Read_Eeprom_Request_Index : First(b) /\ SendSection(b) /\ marks' = {b}
    /\ Eeprom_Data_received' = TRUE
    /\ pc' = "clear"
    /\ UNCHANGED <<word, image, s_ext_cnt, apps, unit, inbox, faults>>

\* ... and its bit is cleared afterwards.
\* Mutant: the whole word is cleared.
ClearedAll(bits) == {}

Cleared(bits) == bits \ marks

Clear ==
    /\ pc = "clear"
    /\ \/ /\ Load("task")
          /\ UNCHANGED <<pc, marks>>
       \/ /\ Store("task", Cleared(loaded["task"]))
          /\ pc' = "timers" /\ marks' = {}
    /\ UNCHANGED <<image, Eeprom_Data_received, s_ext_cnt, apps, unit, line>>

Unit_event_task ==
    \/ \E k \in {"poll", "debug"} : Ask(k)
    \/ NoTimer \/ NoMessage
    \/ PollingBaseParse \/ ReadEepromParse \/ WriteEepromParse \/ OtherParse
    \/ Merge \/ DispatchIdle \/ Dispatch \/ Clear

-----------------------------------------------------------------------------
(* The writers *)

Idle == \A a \in Apps : app[a].at = "idle"

\* Nothing is going on between the image and the unit.
AtRest ==
    /\ Idle /\ Read_Eeprom_Request_Index = {} /\ marks = {}
    /\ {wire.kind, inbox.kind} \subseteq {"none", "poll", "debug"}
    /\ gRDEeprom = unitData /\ s_ext_cnt = unitCnt /\ cntUpdate = unitCnt
    /\ inbox.kind = "poll" => inbox.cnts = unitCnt

\* Mutant: the writes are asked for before the image is filled.
AppErasesAndAsks(a) ==
    /\ app[a].at = "idle" /\ writes < MaxWrites
    /\ Overlap \/ AtRest
    /\ gRDEeprom' = [s \in Sections |-> Blank]
    /\ cntUpdate' = [s \in Counted |-> 0]
    /\ app' = [app EXCEPT ![a] = [at |-> "copy", left |-> {}]]
    /\ Read_Eeprom_Request_Index' = AllWrites
    /\ clashed' = ~AtRest
    /\ UNCHANGED <<busy, loaded, loop, writes, unit, line>>

\* memset of the image ...
AppErases(a) ==
    /\ app[a].at = "idle" /\ writes < MaxWrites
    /\ Overlap \/ AtRest
    /\ gRDEeprom' = [s \in Sections |-> Blank]
    /\ cntUpdate' = [s \in Counted |-> 0]
    /\ app' = [app EXCEPT ![a] = [at |-> "copy", left |-> {}]]
    /\ clashed' = ~AtRest
    /\ UNCHANGED <<request, loop, writes, unit, line>>

\* ... memcpy of the payload over it.  The counters in it are those the app
\* read with the sections it edited: the unit's, or older ones.
AppCopies(a) ==
    /\ app[a].at = "copy"
    /\ writes' = writes + 1
    /\ gRDEeprom' = [s \in Sections |-> ByApp(writes')]
    /\ cntUpdate' \in IF Overlap THEN [Counted -> Cnt] ELSE {unitCnt}
    /\ app' = [app EXCEPT ![a] = [at |-> "bits", left |-> AllWrites]]
    /\ clashed' = (clashed \/ cntUpdate' # unitCnt)
    /\ UNCHANGED <<request, loop, unit, line>>

\* The five |=, of which the compiler may join successive ones.
AppLoads(a) ==
    /\ app[a].at = "bits" /\ Load(a)
    /\ UNCHANGED <<image, loop, apps, unit, line>>

AppStores(a) ==
    /\ app[a].at = "bits"
    /\ \E g \in SUBSET app[a].left \ {{}} :
          /\ \A b \in g, o \in app[a].left \ g : b.sec < o.sec
          /\ Store(a, loaded[a] \cup g)
          /\ LET left == app[a].left \ g
             IN  app' = [app EXCEPT ![a] =
                            [at |-> IF left = {} THEN "idle" ELSE "bits", left |-> left]]
    /\ UNCHANGED <<image, loop, writes, unit, line>>

AppSteps(a) == AppErases(a) \/ AppCopies(a) \/ AppLoads(a) \/ AppStores(a)

-----------------------------------------------------------------------------
(* The unit and the line *)

\* A section is changed at the unit's own panel, and counted.
UnitChanges(s) ==
    /\ changes < MaxChanges
    /\ Overlap \/ AtRest
    /\ changes' = changes + 1
    /\ unitData' = [unitData EXCEPT ![s] = ByUnit(changes')]
    /\ unitCnt' = [unitCnt EXCEPT ![s] = NextCnt(@)]
    /\ clashed' = ~AtRest
    /\ UNCHANGED <<request, image, loop, apps, line>>

\* The unit answers; a write changes the section and is counted.
UnitAnswers ==
    /\ wire # None /\ wire' = None
    /\ \/ /\ wire.kind = "poll"
          /\ inbox' = [kind |-> "poll", cnts |-> unitCnt]
          /\ UNCHANGED unit
       \/ /\ wire.kind = "debug"
          /\ inbox' = [kind |-> "debug"]
          /\ UNCHANGED unit
       \/ /\ wire.kind = "read"
          /\ inbox' = [kind |-> "read", sec |-> wire.sec, data |-> unitData[wire.sec],
                       cnt |-> unitCnt[wire.sec]]
          /\ UNCHANGED unit
       \/ /\ wire.kind = "write"
          /\ unitData' = [unitData EXCEPT ![wire.sec] = wire.data]
          /\ unitCnt' = [c \in Counted |-> IF c = wire.sec THEN NextCnt(unitCnt[c]) ELSE unitCnt[c]]
          /\ inbox' = [kind |-> "write", cnts |-> unitCnt']
          /\ UNCHANGED changes
    /\ UNCHANGED <<word, image, loop, apps, faults>>

\* The unit refuses the write, and says so ...
UnitRefuses ==
    /\ faults < MaxFaults /\ wire.kind = "write"
    /\ inbox' = [kind |-> "write", cnts |-> unitCnt]
    /\ wire' = None /\ faults' = faults + 1
    /\ UNCHANGED <<word, image, loop, apps, unit>>

\* ... or the request or its answer is broken or lost on the line.
LineFault ==
    /\ faults < MaxFaults /\ wire # None
    /\ inbox' \in {None, [kind |-> "garbage"]}
    /\ wire' = None /\ faults' = faults + 1
    /\ UNCHANGED <<word, image, loop, apps, unit>>

Environment ==
    \/ \E s \in Counted : UnitChanges(s)
    \/ UnitAnswers \/ UnitRefuses \/ LineFault

Next == Unit_event_task \/ (\E a \in Apps : AppSteps(a)) \/ Environment

Spec == Init /\ [][Next]_vars

\* The task is scheduled, its polling timer runs out again and again while
\* nothing is outstanding, a callback that started runs to its end, the unit
\* answers.  No app need write, no section need change.
Fairness ==
    /\ WF_vars(Unit_event_task)
    /\ SF_vars(~Eeprom_Data_received /\ Ask("poll"))
    /\ \A a \in Apps : SF_vars(AppCopies(a) \/ AppLoads(a) \/ AppStores(a))
    /\ WF_vars(UnitAnswers)
FairSpec == Spec /\ Fairness

-----------------------------------------------------------------------------
(* Properties *)

\* Every variable has its type, and at most one request is outstanding: it is on
\* the line or its answer waits to be read, and Eeprom_Data_received says so.
TypeOK ==
    /\ Read_Eeprom_Request_Index \subseteq Bits
    /\ Eeprom_Data_received \in BOOLEAN
    /\ gRDEeprom \in [Sections -> Data] /\ cntUpdate \in [Counted -> Cnt]
    /\ s_ext_cnt \in [Counted -> Cnt]
    /\ pc \in {"timers", "read", "merge", "dispatch", "clear"} /\ marks \subseteq Bits
    /\ busy \subseteq Tasks /\ loaded \in [Tasks -> SUBSET Bits]
    /\ app \in [Apps -> [at : {"idle", "copy", "bits"}, left : SUBSET AllWrites]]
    /\ unitData \in [Sections -> Data] /\ unitCnt \in [Counted -> Cnt]
    /\ writes \in Nat /\ changes \in 0..MaxChanges /\ clashed \in BOOLEAN
    /\ faults \in 0..MaxFaults
    /\ wire \in Requests \cup {None} /\ inbox \in Answers \cup {None}
    /\ (wire # None \/ inbox # None) => Eeprom_Data_received
    /\ wire = None \/ inbox = None

\* A section of the image that is not what the unit holds is known to be so:
\* its counter has moved since the last poll, or its read bit is set or about
\* to be, or it is being read.  Only a fault or an app's write may break this.
Fetching(s) ==
    \/ Read(s) \in Read_Eeprom_Request_Index
    \/ pc = "merge" /\ Read(s) \in marks
    \/ wire.kind = "read" /\ wire.sec = s
    \/ inbox.kind = "read" /\ inbox.sec = s /\ inbox.data = unitData[s]

StaleIsKnown ==
    (writes = 0 /\ Idle /\ faults = 0) =>
        \A s \in Counted :
            gRDEeprom[s] # unitData[s] => unitCnt[s] # s_ext_cnt[s] \/ Fetching(s)

\* The image as a write-back cache.  An app has saved to it once it has filled it; until
\* then it still counts for what it was.  A section is to be written from its bit, left
\* or set, to the request; it is to be read from a counter that has moved to the answer.
Erased == \E a \in Apps : app[a].at = "copy"
Left(s) == \E a \in Apps : app[a].at = "bits" /\ Write(s) \in app[a].left

ToBeWritten(s) ==
    \/ Left(s)
    \/ Write(s) \in Read_Eeprom_Request_Index /\ ~(pc = "clear" /\ Write(s) \in marks)
    \/ wire.kind = "write" /\ wire.sec = s

ToBeRead(s) ==
    \/ unitCnt[s] # s_ext_cnt[s]
    \/ Read(s) \in Read_Eeprom_Request_Index /\ ~(pc = "clear" /\ Read(s) \in marks)
    \/ pc = "merge" /\ Read(s) \in marks
    \/ wire.kind = "read" /\ wire.sec = s
    \/ inbox.kind = "read" /\ inbox.sec = s

Cached == IF Erased THEN unitData ELSE gRDEeprom
Dirty == {s \in Sections : ToBeWritten(s)}
Stale == {s \in Counted : ToBeRead(s)}

Cache == INSTANCE WriteBack WITH
    Places <- Sections, Values <- Data,
    memory <- unitData, cache <- Cached, dirty <- Dirty, stale <- Stale, lost <- faults,
    clash <- clashed

\* From a write or a change that begins at rest until the next that does not, or whose bits
\* or counters another interferes with, image, counters and request bits implement that cache
\* (unit_comm.c:266-383, 837-940): an app's write reaches the unit section by section with
\* the bytes the app wrote, no read takes back what is still to be written, a change is known
\* until it is read, and no section is ever forgotten but the one whose request or answer is
\* lost.
WritesBack == Cache!Spec

\* While only one write is made no blank byte is sent to the unit, although the
\* image it is sent from is erased before it is filled (ble.c:180-187).
Started == writes + Cardinality({a \in Apps : app[a].at = "copy"})

NotBlanked ==
    Started <= 1 => /\ \A s \in Sections : unitData[s] # Blank
                    /\ wire.kind = "write" => wire.data # Blank

\* README.md:143: once an app's write is in the image, the bits set for it have it
\* written to the unit: every section of the unit gets to hold what the app wrote, as
\* long as no request or answer is broken, lost or refused.
WriteLands ==
    \A n \in 1..MaxWrites : \A s \in Sections :
        (writes = n /\ \E a \in Apps : app[a].at = "bits") ~> (faults = 0 => unitData[s] = ByApp(n))

\* The image and its counters catch up with the unit, whoever changed it
\* (unit_comm.c:837-867, 909-938): the reads that answers ask for never go on
\* for ever, and never stop too early, as long as none of them is broken or lost.
CatchesUp ==
    <>[](faults = 0 => /\ \A s \in Counted : gRDEeprom[s] = unitData[s]
                       /\ cntUpdate = unitCnt)
=============================================================================
