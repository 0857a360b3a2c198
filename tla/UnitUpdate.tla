----------------------------- MODULE UnitUpdate -----------------------------
(***************************************************************************)
(* The unit's firmware: Unit_Update_task and _http1_event_handler of       *)
(* src/main.c download it from the server into /spiffs/firmware.bin, and   *)
(* the Bootloader states of Connect_To_Unit (src/unit_comm.c) send that    *)
(* file to a unit that is in its bootloader.  The two share the handle f   *)
(* and exclude each other by two flags.                                    *)
(*                                                                         *)
(* A file is a sequence of chunks, a chunk what one DATA event carries.    *)
(* Events are whole buffers of 512 bytes: the version number, at byte 1172,*)
(* comes with the third one.  Sending a chunk stands for sending its       *)
(* blocks of 16 bytes.  A handler runs as one step.  When two tasks share  *)
(* the handle, a file whose handle is overwritten counts as written.       *)
(***************************************************************************)
EXTENDS Integers, SequencesExt

CONSTANTS
    Tasks,       \* instances of Unit_Update_task
    LastVersion, \* the server publishes versions 1..LastVersion one after the other
    Chunks,      \* chunks of an image
    MaxChecks,   \* downloads started between two restarts
    MaxResets, MaxFaults

ASSUME UpdateAssumption ==
    /\ LastVersion \in Nat \ {0} /\ Chunks \in Nat /\ Chunks >= 3
    /\ {MaxChecks, MaxResets, MaxFaults} \subseteq Nat

VARIABLES
    disk,                  \* /spiffs/firmware.bin
    f,                     \* the shared file handle
    File_opened,
    Firmware_version,      \* of the stored file, 0 when it need not be compared
    Buffer_Test, Pointer,  \* three chunks, and where the next one goes
    Load_Counter, Data_Counter,
    Unit_Update_task_Flag, Bootloader_State_Flag,
    task,                  \* per instance: where it is, what it is served, next chunk
    currentState, boot,    \* of the unit task, and where it stands in Bootloader_State
    Filesize, sent,        \* what was announced and sent to the unit
    ack,                   \* the unit owes an acknowledgement, or one was received
    server, checks, resets, faults,
    marred                 \* history: what spoils the files, see below

\* "recheck" is in marred when a check began after another one of the same run had
\* counted what it buffered, "stub" when the stored file was cut off before its
\* version, and "race" when a task passed the test of a flag that another had
\* already decided to set.
Marks == {"recheck", "stub", "race"}

http == <<File_opened, Firmware_version, Buffer_Test, Pointer, Load_Counter, Data_Counter>>
flags == <<Unit_Update_task_Flag, Bootloader_State_Flag>>
transfer == <<currentState, boot, Filesize, sent, ack>>
vars == <<disk, f, http, flags, task, transfer, server, checks, resets, faults, marred>>

-----------------------------------------------------------------------------
Versions == 1..LastVersion
\* The body of an error answer is treated like an image: no status is looked at.
Page == LastVersion + 1
Bodies == Versions \cup {Page}
\* Zeros in the buffer, or the bytes that follow it in memory.
Junk == [v |-> 0, n |-> 0]
Chunk == [v : 0..Page, n : 0..Chunks]
\* A chunk whose last bytes, three at most, are sent as zeros.
Clipped(c) == [c EXCEPT !.n = 0]
Image(v) == [n \in 1..Chunks |-> [v |-> v, n |-> n]]
NoFile == <<Junk>>   \* fopen fails; no file begins with zeros

\* Bytes 1172 and 1173 of Buffer_Test.
VersionIn(buf) == buf[3].v

Null == [mode |-> "null", at |-> 0]
Opened(m) == [mode |-> m, at |-> 0]

Absent == [pc |-> "none", v |-> 0, n |-> 0]
Empty == [i \in 1..3 |-> Junk]

Init ==
    /\ f = Null /\ File_opened = FALSE /\ Firmware_version = 0
    /\ Buffer_Test = Empty /\ Pointer = 1 /\ Load_Counter = 0 /\ Data_Counter = 0
    /\ Unit_Update_task_Flag = FALSE /\ Bootloader_State_Flag = FALSE
    /\ task = [t \in Tasks |-> Absent] /\ checks = 0
    /\ currentState = "TrySerialLink" /\ boot = "check"
    /\ Filesize = 0 /\ sent = <<>> /\ ack = "none"
    /\ server = 1 /\ disk \in {NoFile, Image(1)}   \* none yet, or an earlier check's
    /\ resets = 0 /\ faults = 0 /\ marred = {}

\* A file cannot be opened, a connection breaks, an acknowledgement is lost.
Fault == faults < MaxFaults /\ faults' = faults + 1
NoFault == UNCHANGED faults

-----------------------------------------------------------------------------
(* Unit_Update_task *)

\* A task that was created has yet to set its flag.
Undeclared == \E t \in Tasks : task[t].pc = "created"

\* Started by the OTA check's end, a connected or failed MQTT client, or the
\* 24 h timer of the connected loop, each after the same test of the flags.
Spawn(t) ==
    /\ task[t].pc = "none" /\ checks < MaxChecks
    /\ ~Unit_Update_task_Flag /\ ~Bootloader_State_Flag
    /\ task' = [task EXCEPT ![t].pc = "created"]
    /\ checks' = checks + 1
    /\ marred' = marred \cup (IF Data_Counter > 0 THEN {"recheck"} ELSE {})
                        \cup (IF boot = "claim" \/ Undeclared THEN {"race"} ELSE {})
    /\ UNCHANGED <<disk, f, http, flags, transfer, server, resets, faults>>

Start(t) ==
    /\ task[t].pc = "created"
    /\ Unit_Update_task_Flag' = TRUE
    /\ task' = [task EXCEPT ![t].pc = "connecting"]
    /\ UNCHANGED <<disk, f, http, Bootloader_State_Flag, transfer, server, checks, resets, faults, marred>>

\* HTTP_EVENT_ON_CONNECTED: a new file is created, or the version of the
\* stored one is read for a comparison.
OnConnected(t) ==
    /\ task[t].pc = "connecting"
    /\ task' = [task EXCEPT ![t] = [pc |-> "body", v |-> server, n |-> 1]]
    /\ \/ /\ disk = NoFile
          /\ \/ disk' = <<>> /\ f' = Opened("w") /\ File_opened' = TRUE /\ NoFault
             \/ UNCHANGED disk /\ f' = Null /\ File_opened' = FALSE /\ Fault
          /\ Firmware_version' = 0
          /\ UNCHANGED <<Buffer_Test, Pointer, Filesize, marred>>
       \/ /\ disk # NoFile
          /\ Firmware_version' =
                VersionIn([i \in 1..3 |-> IF i <= Len(disk) THEN disk[i] ELSE Buffer_Test[i]])
          /\ Buffer_Test' = Empty /\ Pointer' = 1
          /\ Filesize' = 0
          /\ marred' = IF Len(disk) < 3 THEN marred \cup {"stub"} ELSE marred
          /\ f' = Null /\ File_opened' = FALSE
          /\ UNCHANGED disk /\ NoFault
    /\ UNCHANGED <<Load_Counter, Data_Counter, flags, currentState, boot, sent, ack,
                   server, checks, resets>>

\* The third buffered chunk holds the version: the stored file is kept when it
\* is the same, and replaced, starting with what was buffered, when it is not.
\* Mutant: the counter is not reset when the file is kept.
CompareKeepsCount ==
    IF VersionIn(Buffer_Test') = Firmware_version
    THEN /\ Load_Counter' = Load_Counter + 1
         /\ UNCHANGED <<disk, f, File_opened>> /\ NoFault
    ELSE /\ Load_Counter' = 0
         /\ disk' = [i \in 1..Data_Counter' |-> IF i <= 3 THEN Buffer_Test'[i] ELSE Junk]
         /\ f' = Opened("w") /\ File_opened' = TRUE /\ NoFault

\* Mutant: what was buffered is not written.
CompareDropsBuffer ==
    IF VersionIn(Buffer_Test') = Firmware_version
    THEN Load_Counter' = 0 /\ UNCHANGED <<disk, f, File_opened>> /\ NoFault
    ELSE /\ Load_Counter' = 0
         /\ disk' = <<>> /\ f' = Opened("w") /\ File_opened' = TRUE /\ NoFault

\* Mutant: the versions are compared the wrong way round.
CompareOrder ==
    IF VersionIn(Buffer_Test') >= Firmware_version
    THEN Load_Counter' = 0 /\ UNCHANGED <<disk, f, File_opened>> /\ NoFault
    ELSE /\ Load_Counter' = 0
         /\ disk' = [i \in 1..Data_Counter' |-> IF i <= 3 THEN Buffer_Test'[i] ELSE Junk]
         /\ f' = Opened("w") /\ File_opened' = TRUE /\ NoFault

Compare ==
    /\ Load_Counter' = 0
    /\ \/ /\ VersionIn(Buffer_Test') = Firmware_version
          /\ UNCHANGED <<disk, f, File_opened>> /\ NoFault
       \/ /\ VersionIn(Buffer_Test') # Firmware_version
          /\ \/ /\ disk' = [i \in 1..Data_Counter' |-> IF i <= 3 THEN Buffer_Test'[i] ELSE Junk]
                /\ f' = Opened("w") /\ File_opened' = TRUE /\ NoFault
             \/ disk' = NoFile /\ f' = Null /\ File_opened' = FALSE /\ Fault

\* HTTP_EVENT_ON_DATA
OnData(t) ==
    /\ task[t].pc = "body" /\ task[t].n <= Chunks
    /\ task' = [task EXCEPT ![t].n = @ + 1]
    /\ LET chunk == [v |-> task[t].v, n |-> task[t].n]
       IN  \/ /\ Firmware_version # 0
              /\ Buffer_Test' = [Buffer_Test EXCEPT ![Pointer] = chunk]
              /\ Pointer' = Pointer + 1
              /\ Data_Counter' = Data_Counter + 1
              /\ \/ /\ Load_Counter + 1 = 3
                    /\ Compare
                    /\ Firmware_version' = 0
                 \/ /\ Load_Counter + 1 # 3
                    /\ Load_Counter' = Load_Counter + 1
                    /\ UNCHANGED <<disk, f, File_opened, Firmware_version>> /\ NoFault
           \/ /\ Firmware_version = 0
              /\ File_opened => f.mode # "null"
              /\ disk' = IF File_opened /\ f.mode = "w" THEN Append(disk, chunk) ELSE disk
              /\ UNCHANGED <<f, http, faults>>
    /\ UNCHANGED <<flags, transfer, server, checks, resets, marred>>

\* HTTP_EVENT_ON_FINISH, after the last chunk or when the server breaks off.  An
\* error page has any length.
OnFinish(t) ==
    /\ task[t].pc = "body"
    /\ IF task[t].n > Chunks \/ task[t].v = Page THEN NoFault ELSE Fault
    /\ \/ /\ File_opened
          /\ f.mode # "null" /\ f' = Null
          /\ File_opened' = FALSE /\ Firmware_version' = 0
       \/ ~File_opened /\ UNCHANGED <<f, File_opened, Firmware_version>>
    /\ task' = [task EXCEPT ![t].pc = "closing"]
    /\ UNCHANGED <<disk, Buffer_Test, Pointer, Load_Counter, Data_Counter, flags,
                   transfer, server, checks, resets, marred>>

\* HTTP_EVENT_ERROR: what was being written is removed, but not closed.
OnError(t) ==
    /\ task[t].pc \in {"connecting", "body"}
    /\ Fault
    /\ \/ /\ File_opened
          /\ File_opened' = FALSE /\ Load_Counter' = 0 /\ Firmware_version' = 0
          /\ disk' = NoFile
          /\ f' = IF f.mode = "w" THEN Opened("removed") ELSE f
       \/ ~File_opened /\ UNCHANGED <<disk, f, File_opened, Load_Counter, Firmware_version>>
    /\ task' = [task EXCEPT ![t].pc = "closing"]
    /\ UNCHANGED <<Buffer_Test, Pointer, Data_Counter, flags, transfer, server, checks, resets, marred>>

End(t) ==
    /\ task[t].pc = "closing"
    /\ Unit_Update_task_Flag' = FALSE
    /\ task' = [task EXCEPT ![t] = Absent]
    /\ UNCHANGED <<disk, f, http, Bootloader_State_Flag, transfer, server, checks, resets, faults,
                   marred>>

Unit_Update_task(t) ==
    Start(t) \/ OnConnected(t) \/ OnData(t) \/ OnFinish(t) \/ OnError(t) \/ End(t)

-----------------------------------------------------------------------------
(* The unit task *)

downloads == <<disk, http, task, server, checks, resets>>

\* The unit's banner is heard during the search (UnitLink, TrySerialLinkRead).
HearBanner ==
    /\ currentState = "TrySerialLink"
    /\ currentState' = "Bootloader_State"
    /\ UNCHANGED <<downloads, f, flags, boot, Filesize, sent, ack, faults, marred>>

\* Bootloader_State waits for a download to end ...
\* Mutant: it does not.
CheckNothing ==
    /\ currentState = "Bootloader_State" /\ boot = "check"
    /\ boot' = "claim"
    /\ marred' = IF Undeclared THEN marred \cup {"race"} ELSE marred
    /\ UNCHANGED <<downloads, f, flags, currentState, Filesize, sent, ack, faults>>

CheckNoUpdate ==
    /\ currentState = "Bootloader_State" /\ boot = "check"
    /\ ~Unit_Update_task_Flag
    /\ boot' = "claim"
    /\ marred' = IF Undeclared THEN marred \cup {"race"} ELSE marred
    /\ UNCHANGED <<downloads, f, flags, currentState, Filesize, sent, ack, faults>>

\* ... then forbids them ...
Claim ==
    /\ currentState = "Bootloader_State" /\ boot = "claim"
    /\ Bootloader_State_Flag' = TRUE
    /\ boot' = "open"
    /\ UNCHANGED <<downloads, f, Unit_Update_task_Flag, currentState, Filesize, sent, ack, faults,
                   marred>>

\* ... and, 50 ms later, announces the file, or a size of 0 without one.
OpenFile ==
    /\ currentState = "Bootloader_State" /\ boot = "open"
    /\ \/ /\ disk # NoFile
          /\ f' = Opened("r") /\ Filesize' = Len(disk)
          /\ currentState' = "Bootloader_State1" /\ NoFault
       \/ /\ f' = Null /\ Filesize' = 0
          /\ currentState' = "Bootloader_State_end"
          /\ IF disk = NoFile THEN NoFault ELSE Fault
    /\ ack' = "owed"
    /\ UNCHANGED <<downloads, flags, boot, sent, marred>>

\* One fread: nothing can be read from a handle opened for writing.
Block == IF f.mode = "r" /\ f.at < Len(disk) THEN disk[f.at + 1] ELSE Junk

\* Bootloader_State1: an acknowledgement asks for the next block.
\* Mutant: the last block is taken for one of many.
SendNextNeverEnds ==
    /\ currentState = "Bootloader_State1" /\ ack = "received"
    /\ f.mode # "null"
    /\ Filesize - Len(sent) > 0
    /\ sent' = Append(sent, Block) /\ ack' = "owed"
    /\ f' = [f EXCEPT !.at = @ + 1]
    /\ UNCHANGED <<downloads, flags, currentState, boot, Filesize, faults, marred>>

\* Of the last block only whole words are filled in, the rest is sent as zeros.
SendNext ==
    /\ currentState = "Bootloader_State1" /\ ack = "received"
    /\ f.mode # "null"
    /\ \/ /\ Filesize - Len(sent) > 1
          /\ sent' = Append(sent, Block) /\ ack' = "owed"
          /\ f' = [f EXCEPT !.at = @ + 1]
          /\ UNCHANGED currentState
       \/ /\ Filesize - Len(sent) = 1
          /\ \E last \in {Block, Clipped(Block)} : sent' = Append(sent, last)
          /\ ack' = "owed"
          /\ f' = Null
          /\ currentState' = "Bootloader_State_end"
       \/ /\ Filesize - Len(sent) = 0
          /\ ack' = "none"
          /\ UNCHANGED <<sent, f, currentState>>
    /\ UNCHANGED <<downloads, flags, boot, Filesize, faults, marred>>

Connect_To_Unit == CheckNoUpdate \/ Claim \/ OpenFile \/ SendNext

-----------------------------------------------------------------------------
(* The unit, the server, the power supply *)

others == <<disk, f, http, flags, task, currentState, boot, Filesize, sent, checks, marred>>

UnitAcks ==
    /\ ack = "owed"
    /\ \/ ack' = "received" /\ NoFault
       \/ ack' = "none" /\ Fault
    /\ UNCHANGED <<others, server, resets>>

\* The server answers with an error.
ErrorPage ==
    /\ Fault
    /\ \E t \in Tasks :
          /\ task[t].pc = "body" /\ task[t].n = 1 /\ task[t].v # Page
          /\ task' = [task EXCEPT ![t].v = Page]
    /\ UNCHANGED <<disk, f, http, flags, transfer, server, checks, resets, marred>>

Publish ==
    /\ server < LastVersion
    /\ server' = server + 1
    /\ UNCHANGED <<others, ack, resets, faults>>

\* The power fails or the program panics.  Of a file that is still open for
\* writing the flash may have any beginning.
Reset ==
    /\ resets < MaxResets /\ resets' = resets + 1
    /\ \E n \in 0..Len(disk) :
          /\ f.mode # "w" => n = Len(disk)
          /\ disk' = IF disk = NoFile THEN NoFile ELSE SubSeq(disk, 1, n)
    /\ f' = Null /\ File_opened' = FALSE /\ Firmware_version' = 0
    /\ Buffer_Test' = Empty /\ Pointer' = 1 /\ Load_Counter' = 0 /\ Data_Counter' = 0
    /\ Unit_Update_task_Flag' = FALSE /\ Bootloader_State_Flag' = FALSE
    /\ task' = [t \in Tasks |-> Absent] /\ checks' = 0
    /\ currentState' = "TrySerialLink" /\ boot' = "check"
    /\ Filesize' = 0 /\ sent' = <<>> /\ ack' = "none"
    /\ UNCHANGED <<server, faults, marred>>

Environment == UnitAcks \/ ErrorPage \/ Publish \/ Reset

Next ==
    \/ \E t \in Tasks : Spawn(t) \/ Unit_Update_task(t)
    \/ HearBanner \/ Connect_To_Unit \/ Environment

Spec == Init /\ [][Next]_vars

\* Both tasks are scheduled, the server and the unit answer.
Fairness ==
    /\ \A t \in Tasks : WF_vars(Unit_Update_task(t))
    /\ WF_vars(Connect_To_Unit)
    /\ WF_vars(UnitAcks)
FairSpec == Spec /\ Fairness

\* A bound for TLC, no part of the specification: what follows a race, of which the
\* properties below promise only types, is left at a second fault or restart and when
\* the bodies of two downloads mix.
Explored ==
    "race" \in marred =>
        /\ resets + faults < 2
        /\ \A t, u \in Tasks : task[t].pc = "body" /\ task[u].pc = "body" => t = u

-----------------------------------------------------------------------------
(* Properties *)

Running(t) == task[t].pc # "none"

\* Every variable has its type; no chunk is buffered beyond Buffer_Test.
TypeOK ==
    /\ disk \in Seq(Chunk)
    /\ f \in [mode : {"null", "r", "w", "removed"}, at : Nat]
    /\ File_opened \in BOOLEAN /\ Firmware_version \in 0..Page
    /\ Buffer_Test \in [1..3 -> Chunk] /\ Pointer \in 1..4
    /\ Load_Counter \in 0..2 /\ Data_Counter \in 0..(3 * MaxChecks)
    /\ Unit_Update_task_Flag \in BOOLEAN /\ Bootloader_State_Flag \in BOOLEAN
    /\ task \in [Tasks -> [pc : {"none", "created", "connecting", "body", "closing"},
                           v : 0..Page, n : 0..(Chunks + 1)]]
    /\ currentState \in {"TrySerialLink", "Bootloader_State", "Bootloader_State1",
                         "Bootloader_State_end"}
    /\ boot \in {"check", "claim", "open"}
    /\ Filesize \in Nat /\ sent \in Seq(Chunk) /\ ack \in {"none", "owed", "received"}
    /\ server \in Versions
    /\ checks \in 0..MaxChecks /\ resets \in 0..MaxResets /\ faults \in 0..MaxFaults
    /\ marred \subseteq Marks

\* The comment at unit_comm.c:641: "here we are in bootloader upgrade mode, so no
\* update is allowed from server".  The flags keep downloads out until two tasks
\* meet between a test and the setting it leads to: Unit_Update_task_Flag is set by
\* the new task (main.c:605), not by the one that tests and creates it, and
\* Bootloader_State_Flag a line after the test (unit_comm.c:639-641).
NoUpdateInBootloader ==
    "race" \notin marred => (Bootloader_State_Flag => \A t \in Tasks : ~Running(t))

\* The unit was sent the beginning of a file, the last bytes of which may be zeros
\* instead: unit_comm.c:730 fills in whole words only.
IsSent(s, file) ==
    /\ Len(s) <= Len(file)
    /\ \A i \in 1..Len(s) : s[i] = file[i] \/ (i = Len(file) /\ s[i] = Clipped(file[i]))

\* Whatever is stored is the beginning of one answer's body, an image or the page of
\* an error, and what the unit was sent the beginning of what is stored, all of it at
\* the end.
FileIsServed ==
    /\ disk # NoFile => \E v \in Bodies : IsPrefix(disk, Image(v))
    /\ sent # <<>> => IsSent(sent, disk)
    /\ currentState = "Bootloader_State_end" => Len(sent) = Filesize

\* README.md:172: the file is downloaded from the server and sent to the unit in its
\* bootloader.  Even while no two tasks share the handle it is not.
SentIsServed == "race" \notin marred => FileIsServed

\* It is until a check begins after an earlier one of the same run has buffered a
\* chunk: no restart, no error, no error page and no check after one that buffered
\* nothing mixes two bodies (main.c:319-457).
StoredIsServed == marred \cap {"recheck", "race"} = {} => FileIsServed

\* A check without errors leaves the version that the server had when it answered,
\* whatever was stored before, and all of it unless a restart cut off a file of the
\* same version; a file that was cut off before its version number stays
\* (main.c:331-457).
CheckStores ==
    \A t \in Tasks :
        (task[t].pc = "closing" /\ faults = 0 /\ marred = {}) =>
            /\ IsPrefix(disk, Image(task[t].v)) /\ Len(disk) >= 3
            /\ resets = 0 => disk = Image(task[t].v)

\* A unit in its bootloader is answered, whatever downloads are going on, and
\* the transfer of a file that is not empty ends, unless an acknowledgement is
\* lost, the program restarts, or two tasks that met at the flags share the
\* handle (unit_comm.c:638-750).
UnitIsServed ==
    (currentState = "Bootloader_State") ~>
        (\/ currentState = "Bootloader_State_end" \/ faults > 0
         \/ currentState = "Bootloader_State1" /\ Filesize = 0
         \/ currentState = "TrySerialLink" \/ "race" \in marred)
=============================================================================
