-------------------------- MODULE UnitUpdateProofs --------------------------
(***************************************************************************)
(* What is proved of UnitUpdate for any number of download tasks, images   *)
(* of any length and any bounds: the types; and, until two tasks meet      *)
(* between the test of a flag and the setting it leads to, that the flags  *)
(* keep downloads and the transfer to the unit apart, that the stored file *)
(* is one answer's, that the unit is sent this file, and that a check      *)
(* leaves what the server had.                                             *)
(***************************************************************************)
EXTENDS UnitUpdate, FiniteSetTheorems, SequenceTheorems, TLAPS

Places == {"none", "created", "connecting", "body", "closing"}

-----------------------------------------------------------------------------
(* Chunks, images and beginnings of images *)

\* A table of n entries is a sequence of that length.
LEMMA Table ==
    ASSUME NEW S, NEW n \in Nat, NEW s \in [1..n -> S] PROVE s \in Seq(S) /\ Len(s) = n
<1>1. s \in Seq(S)
  BY SeqDef
<1>2. 1..Len(s) = 1..n /\ Len(s) \in Nat
  BY <1>1, LenProperties
<1> QED
  BY <1>1, <1>2

\* A sequence is the beginning of another one that agrees with it as far as it goes.
LEMMA PrefixAt ==
    ASSUME NEW S, NEW s \in Seq(S), NEW t \in Seq(S)
    PROVE  IsPrefix(s, t) <=> Len(s) <= Len(t) /\ \A i \in 1..Len(s) : s[i] = t[i]
<1>1. Len(s) \in Nat /\ Len(t) \in Nat /\ SubSeq(s, 1, Len(s)) = s
  BY LenProperties, SubSeqFull
<1>2. ASSUME Len(s) <= Len(t)
      PROVE  /\ SubSeq(t, 1, Len(s)) \in Seq(S)
             /\ Len(SubSeq(t, 1, Len(s))) = Len(s)
             /\ \A i \in 1..Len(s) : SubSeq(t, 1, Len(s))[i] = t[i]
  <2>1. \A i \in 1..Len(s) : t[i] \in S
    BY <1>1, <1>2, ElementOfSeq
  <2> QED
    BY <1>1, <2>1, SubSeqProperties
<1>3. ASSUME Len(s) <= Len(t)
      PROVE  SubSeq(t, 1, Len(s)) = s <=> \A i \in 1..Len(s) : s[i] = t[i]
  <2>1. ASSUME \A i \in 1..Len(s) : s[i] = t[i] PROVE SubSeq(t, 1, Len(s)) = s
    BY <1>2, <1>3, <2>1, SeqEqual
  <2> QED
    BY <2>1, <1>2, <1>3
<1> QED
  BY <1>1, <1>3 DEF IsPrefix

LEMMA NothingIsPrefix == ASSUME NEW S, NEW t \in Seq(S) PROVE IsPrefix(<<>>, t)
<1>1. <<>> \in Seq(S) /\ Len(<<>>) = 0 /\ Len(t) \in Nat
  BY EmptySeq, LenProperties
<1>2. ASSUME NEW s \in Seq(S), Len(s) = 0 PROVE IsPrefix(s, t)
  <2>1. Len(s) <= Len(t) /\ \A i \in 1..Len(s) : s[i] = t[i]
    BY <1>1, <1>2
  <2> QED
    BY <2>1, PrefixAt
<1> QED
  BY <1>1, <1>2

LEMMA ImageAt ==
    ASSUME NEW v \in Bodies
    PROVE  /\ Image(v) \in Seq(Chunk) /\ Len(Image(v)) = Chunks
           /\ \A i \in 1..Chunks : Image(v)[i] = [v |-> v, n |-> i]
<1>1. Chunks \in Nat
  BY UpdateAssumption
<1>2. Image(v) \in [1..Chunks -> Chunk]
  BY UpdateAssumption DEF Image, Chunk, Bodies, Versions, Page
<1>3. \A i \in 1..Chunks : Image(v)[i] = [v |-> v, n |-> i]
  BY DEF Image
<1> QED
  BY <1>1, <1>2, <1>3, Table

\* The first chunk tells that no file is stored.
LEMMA PageType == Page \in Nat
BY UpdateAssumption DEF Page

LEMMA JunkType == Junk \in Chunk
BY UpdateAssumption DEF Junk, Chunk, Page

LEMMA NoFileAt == NoFile \in Seq(Chunk) /\ Len(NoFile) = 1 /\ NoFile[1] = Junk
BY JunkType DEF NoFile

\* What an image begins with is a file.
LEMMA PrefixIsFile ==
    ASSUME NEW v \in Bodies, NEW s \in Seq(Chunk), IsPrefix(s, Image(v)) PROVE s # NoFile
<1>1. ASSUME s = NoFile PROVE FALSE
  <2>1. Image(v) \in Seq(Chunk)
    BY ImageAt
  <2>2. \A i \in 1..Len(s) : s[i] = Image(v)[i]
    BY <2>1, PrefixAt
  <2>3. Image(v)[1] = Junk
    BY <1>1, <2>2, NoFileAt
  <2>4. Image(v)[1] = [v |-> v, n |-> 1]
    BY ImageAt, UpdateAssumption
  <2> QED
    BY <2>3, <2>4, UpdateAssumption DEF Junk, Bodies, Versions, Page
<1> QED
  BY <1>1

-----------------------------------------------------------------------------
(* Types *)

\* TypeOK, a group of variables at a time; Data_Counter is bounded below.
FileType ==
    /\ disk \in Seq(Chunk)
    /\ f \in [mode : {"null", "r", "w", "removed"}, at : Nat]
    /\ Buffer_Test \in [1..3 -> Chunk]

HttpType ==
    /\ File_opened \in BOOLEAN /\ Firmware_version \in 0..Page
    /\ Pointer \in 1..4 /\ Load_Counter \in 0..2 /\ Data_Counter \in Nat

TaskType ==
    /\ Unit_Update_task_Flag \in BOOLEAN /\ Bootloader_State_Flag \in BOOLEAN
    /\ task \in [Tasks -> [pc : Places, v : 0..Page, n : 0..(Chunks + 1)]]

TransferType ==
    /\ currentState \in {"TrySerialLink", "Bootloader_State", "Bootloader_State1",
                         "Bootloader_State_end"}
    /\ boot \in {"check", "claim", "open"}
    /\ Filesize \in Nat /\ sent \in Seq(Chunk) /\ ack \in {"none", "owed", "received"}

CountType ==
    /\ server \in Versions
    /\ checks \in 0..MaxChecks /\ resets \in 0..MaxResets /\ faults \in 0..MaxFaults
    /\ marred \subseteq Marks

\* Every chunk that arrives belongs to an image.
Served ==
    \A t \in Tasks : task[t].pc = "body" => task[t].v \in Bodies /\ task[t].n \in 1..(Chunks + 1)

\* While versions are compared, no file is open and the buffer has room for the rest.
Compared ==
    /\ File_opened => Firmware_version = 0
    /\ Firmware_version # 0 => Pointer <= Load_Counter + 1

\* Each download buffers three chunks at most: those that are still to come are
\* counted, for a running comparison and for the tasks that have none yet.
Pending == {t \in Tasks : task[t].pc \in {"created", "connecting"}}
ToCome == IF Firmware_version = 0 THEN 0 ELSE 3 - Load_Counter
Counted ==
    /\ IsFiniteSet(Pending)
    /\ Data_Counter + ToCome + 3 * Cardinality(Pending) <= 3 * checks

TypeInv ==
    FileType /\ HttpType /\ TaskType /\ TransferType /\ CountType /\ Served /\ Compared /\ Counted

LEMMA TypeParts ==
    ASSUME TypeInv PROVE TypeOK
<1>1. Cardinality(Pending) \in Nat
  BY FS_CardinalityType DEF TypeInv, Counted
<1>2. Data_Counter \in 0..(3 * MaxChecks)
  BY <1>1, UpdateAssumption DEF TypeInv, Counted, HttpType, CountType, ToCome
<1> QED
  BY <1>2 DEF TypeInv, FileType, HttpType, TaskType, TransferType, CountType, Places, TypeOK

\* What a chunk read from a file or the buffer has as its version.
LEMMA ChunkVersion == \A c \in Chunk : c.v \in 0..Page
BY DEF Chunk

\* At a start nothing is open, counted or under way.
Fresh ==
    /\ File_opened = FALSE /\ Firmware_version = 0
    /\ Pointer = 1 /\ Load_Counter = 0 /\ Data_Counter = 0
    /\ task = [t \in Tasks |-> Absent] /\ checks = 0

LEMMA FreshType == Fresh => HttpType /\ Served /\ Compared /\ Counted
<1> SUFFICES ASSUME Fresh PROVE HttpType /\ Served /\ Compared /\ Counted
  OBVIOUS
<1> USE DEF Fresh
<1>1. \A t \in Tasks : task[t].pc = "none"
  BY DEF Absent
<1>2. Pending = {}
  BY <1>1 DEF Pending
<1>3. Counted
  BY <1>2, FS_EmptySet DEF Counted, ToCome
<1>4. File_opened \in BOOLEAN
  BY Zenon
<1>5. HttpType
  BY <1>4, UpdateAssumption DEF HttpType, Page
<1> QED
  BY <1>1, <1>3, <1>5 DEF Served, Compared

LEMMA InitType == Init => TypeInv
<1> SUFFICES ASSUME Init PROVE TypeInv
  OBVIOUS
<1>1. HttpType /\ Served /\ Compared /\ Counted
  BY FreshType DEF Init, Fresh
<1>2. disk \in Seq(Chunk) /\ server \in Versions
  BY NoFileAt, ImageAt, UpdateAssumption DEF Init, Versions, Bodies
<1>3. FileType
  BY <1>2, JunkType DEF Init, FileType, Null, Empty
<1>4. TaskType
  <2>1. Unit_Update_task_Flag \in BOOLEAN /\ Bootloader_State_Flag \in BOOLEAN
    BY Zenon DEF Init
  <2> QED
    BY <2>1, UpdateAssumption DEF Init, TaskType, Absent, Places, Page
<1>5. TransferType
  BY EmptySeq DEF Init, TransferType
<1>6. CountType
  BY <1>2, UpdateAssumption DEF Init, CountType
<1> QED
  BY <1>1, <1>3, <1>4, <1>5, <1>6 DEF TypeInv

\* What a step adds to or takes from the pending downloads.
LEMMA PendingOne ==
    ASSUME IsFiniteSet(Pending), NEW t \in Tasks
    PROVE  /\ Cardinality(Pending) \in Nat
           /\ Pending' = Pending \cup {t} =>
                 IsFiniteSet(Pending') /\ Cardinality(Pending') \in Nat
                 /\ Cardinality(Pending') <= Cardinality(Pending) + 1
           /\ t \in Pending /\ Pending' = Pending \ {t} =>
                 IsFiniteSet(Pending') /\ Cardinality(Pending') = Cardinality(Pending) - 1
<1>1. Cardinality(Pending) \in Nat
  BY FS_CardinalityType
<1>2. IsFiniteSet(Pending \cup {t})
      /\ Cardinality(Pending \cup {t}) =
            IF t \in Pending THEN Cardinality(Pending) ELSE Cardinality(Pending) + 1
  BY FS_AddElement
<1>3. t \in Pending => IsFiniteSet(Pending \ {t})
                       /\ Cardinality(Pending \ {t}) = Cardinality(Pending) - 1
  BY FS_RemoveElement
<1> QED
  BY <1>1, <1>2, <1>3

\* A download that begins is counted with three chunks to come.
LEMMA SpawnType ==
    ASSUME TypeInv, NEW t \in Tasks, Spawn(t) PROVE TypeInv'
<1>1. /\ task' = [task EXCEPT ![t].pc = "created"] /\ checks' = checks + 1
      /\ checks < MaxChecks /\ task[t].pc = "none"
      /\ marred' \subseteq marred \cup {"recheck", "race"}
      /\ UNCHANGED <<disk, f, http, flags, transfer, server, resets, faults>>
  BY DEF Spawn
<1>2. FileType' /\ HttpType' /\ TransferType' /\ Compared'
  BY <1>1 DEF TypeInv, FileType, HttpType, TransferType, Compared, http, transfer
<1>3. TaskType' /\ Served'
  BY <1>1 DEF TypeInv, TaskType, Served, Places, flags
<1>4. CountType'
  BY <1>1, UpdateAssumption DEF TypeInv, CountType, Marks
<1>5. Pending' = Pending \cup {t}
  BY <1>1 DEF Pending, TypeInv, TaskType
<1>6. Counted'
  <2>1. /\ IsFiniteSet(Pending') /\ Cardinality(Pending) \in Nat /\ Cardinality(Pending') \in Nat
        /\ Cardinality(Pending') <= Cardinality(Pending) + 1
    BY <1>5, PendingOne DEF TypeInv, Counted
  <2>2. Data_Counter' = Data_Counter /\ ToCome' = ToCome
    BY <1>1 DEF ToCome, http
  <2>3. Data_Counter \in Nat /\ ToCome \in Nat /\ checks \in Nat
    BY UpdateAssumption DEF TypeInv, HttpType, CountType, ToCome
  <2> QED
    BY <1>1, <2>1, <2>2, <2>3 DEF TypeInv, Counted
<1> QED
  BY <1>2, <1>3, <1>4, <1>6 DEF TypeInv

LEMMA StartType ==
    ASSUME TypeInv, NEW t \in Tasks, Start(t) PROVE TypeInv'
<1>1. /\ task' = [task EXCEPT ![t].pc = "connecting"] /\ task[t].pc = "created"
      /\ Unit_Update_task_Flag' = TRUE
      /\ UNCHANGED <<disk, f, http, Bootloader_State_Flag, transfer, server, checks, resets,
                     faults, marred>>
  BY DEF Start
<1>2. FileType' /\ HttpType' /\ TransferType' /\ Compared' /\ CountType'
  BY <1>1 DEF TypeInv, FileType, HttpType, TransferType, Compared, CountType, http, transfer
<1>3. TaskType' /\ Served'
  BY <1>1 DEF TypeInv, TaskType, Served, Places
<1>4. Pending' = Pending
  BY <1>1 DEF Pending, TypeInv, TaskType
<1>5. Counted'
  BY <1>1, <1>4 DEF TypeInv, Counted, ToCome, http
<1> QED
  BY <1>2, <1>3, <1>5 DEF TypeInv

\* An answered download has its three chunks to come, if it compares at all.
LEMMA ConnectedType ==
    ASSUME TypeInv, NEW t \in Tasks, OnConnected(t) PROVE TypeInv'
<1>1. /\ task' = [task EXCEPT ![t] = [pc |-> "body", v |-> server, n |-> 1]]
      /\ task[t].pc = "connecting"
      /\ UNCHANGED <<Load_Counter, Data_Counter, flags, currentState, boot, sent, ack,
                     server, checks, resets>>
  BY DEF OnConnected
<1>2. /\ Pointer' \in {Pointer, 1} /\ (Firmware_version' # 0 => Pointer' = 1)
      /\ (File_opened' => Firmware_version' = 0)
      /\ Filesize' \in {Filesize, 0}
      /\ marred' \subseteq marred \cup {"stub"}
      /\ faults' \in 0..MaxFaults
  BY UpdateAssumption DEF OnConnected, Fault, NoFault, TypeInv, CountType
<1>3. /\ disk' \in Seq(Chunk) /\ Buffer_Test' \in [1..3 -> Chunk]
      /\ f' \in [mode : {"null", "r", "w", "removed"}, at : Nat]
  <2>1. disk' \in {disk, <<>>} /\ Buffer_Test' \in {Buffer_Test, Empty}
        /\ f' \in {Null, Opened("w")}
    BY DEF OnConnected
  <2>2. Empty \in [1..3 -> Chunk]
    BY JunkType DEF Empty
  <2>3. f' \in [mode : {"null", "r", "w", "removed"}, at : Nat]
    BY <2>1 DEF Null, Opened
  <2>4. <<>> \in Seq(Chunk) /\ disk \in Seq(Chunk) /\ Buffer_Test \in [1..3 -> Chunk]
    BY EmptySeq DEF TypeInv, FileType
  <2> QED
    BY <2>1, <2>2, <2>3, <2>4
<1>4. Firmware_version' \in 0..Page
  <2>1. ASSUME NEW i \in 1..3
        PROVE  (IF i <= Len(disk) THEN disk[i] ELSE Buffer_Test[i]) \in Chunk
    BY ElementOfSeq, LenProperties DEF TypeInv, FileType
  <2> QED
    BY <2>1, ChunkVersion, PageType DEF OnConnected, VersionIn
<1>5. FileType' /\ HttpType' /\ Compared'
  <2>1. File_opened' \in BOOLEAN
    BY Zenon DEF OnConnected
  <2> QED
    BY <1>1, <1>2, <1>3, <1>4, <2>1, PageType DEF TypeInv, FileType, HttpType, Compared
<1>6. TransferType'
  BY <1>1, <1>2 DEF TypeInv, TransferType
<1>7. CountType'
  BY <1>1, <1>2, UpdateAssumption DEF TypeInv, CountType, Marks
<1>8. TaskType' /\ Served'
  BY <1>1, UpdateAssumption DEF TypeInv, TaskType, CountType, Served, Places, flags, Versions,
                                Bodies, Page
<1>9. Counted'
  <2>1. t \in Pending /\ Pending' = Pending \ {t}
    BY <1>1 DEF Pending, TypeInv, TaskType
  <2>2. 0 <= ToCome /\ ToCome <= 3 /\ 0 <= ToCome' /\ ToCome' <= 3 /\ ToCome \in Int /\ ToCome' \in Int
    BY <1>1 DEF ToCome, TypeInv, HttpType
  <2>3. /\ IsFiniteSet(Pending') /\ Cardinality(Pending) \in Nat
        /\ Cardinality(Pending') = Cardinality(Pending) - 1
    BY <2>1, PendingOne DEF TypeInv, Counted
  <2>4. Data_Counter \in Nat /\ checks \in Nat
    BY UpdateAssumption DEF TypeInv, HttpType, CountType
  <2> QED
    BY <1>1, <2>2, <2>3, <2>4 DEF TypeInv, Counted
<1> QED
  BY <1>5, <1>6, <1>7, <1>8, <1>9 DEF TypeInv

\* A handler of a running download leaves the tasks' types and their number alone.
LEMMA BodyTask ==
    ASSUME TypeInv, NEW t \in Tasks, task[t].pc \in {"connecting", "body"},
           \/ task[t].pc = "body" /\ task[t].n <= Chunks
              /\ task' = [task EXCEPT ![t].n = @ + 1]
           \/ task' = [task EXCEPT ![t].pc = "closing"],
           UNCHANGED flags
    PROVE  TaskType' /\ Served'
<1>1. UNCHANGED <<Unit_Update_task_Flag, Bootloader_State_Flag>>
  BY DEF flags
<1>2. CASE task[t].pc = "body" /\ task[t].n <= Chunks /\ task' = [task EXCEPT ![t].n = @ + 1]
  <2>1. task[t].n \in 1..Chunks /\ task[t].n + 1 \in 1..(Chunks + 1)
    BY <1>2, UpdateAssumption DEF TypeInv, Served
  <2>2. task' \in [Tasks -> [pc : Places, v : 0..Page, n : 0..(Chunks + 1)]]
    BY <1>2, <2>1, UpdateAssumption DEF TypeInv, TaskType
  <2>3. Served'
    BY <1>2, <2>1 DEF TypeInv, TaskType, Served
  <2> QED
    BY <1>1, <2>2, <2>3 DEF TypeInv, TaskType
<1>3. CASE task' = [task EXCEPT ![t].pc = "closing"]
  BY <1>1, <1>3 DEF TypeInv, TaskType, Served, Places
<1> QED
  BY <1>2, <1>3

\* Three chunks are compared, and what replaces a file begins with them.
LEMMA CompareType ==
    ASSUME TypeInv, Compare, Buffer_Test' \in [1..3 -> Chunk], Data_Counter' \in Nat
    PROVE  FileType' /\ Load_Counter' = 0 /\ File_opened' \in BOOLEAN /\ faults' \in 0..MaxFaults
<1>1. [i \in 1..Data_Counter' |-> IF i <= 3 THEN Buffer_Test'[i] ELSE Junk] \in Seq(Chunk)
  <2>1. \A i \in 1..Data_Counter' : (IF i <= 3 THEN Buffer_Test'[i] ELSE Junk) \in Chunk
    BY JunkType
  <2>2. [i \in 1..Data_Counter' |-> IF i <= 3 THEN Buffer_Test'[i] ELSE Junk]
           \in [1..Data_Counter' -> Chunk]
    BY <2>1
  <2> QED
    BY <2>2, Table
<1>2. disk' \in Seq(Chunk)
  BY <1>1, NoFileAt DEF Compare, TypeInv, FileType
<1>3. f' \in [mode : {"null", "r", "w", "removed"}, at : Nat]
  BY DEF Compare, TypeInv, FileType, Null, Opened
<1>4. File_opened' \in BOOLEAN
  BY Zenon DEF Compare, TypeInv, HttpType
<1>5. faults' \in 0..MaxFaults
  BY UpdateAssumption DEF Compare, Fault, NoFault, TypeInv, CountType
<1> QED
  BY <1>2, <1>3, <1>4, <1>5 DEF Compare, FileType

\* A chunk is buffered or written, and each one that is buffered was still to come.
LEMMA DataType ==
    ASSUME TypeInv, NEW t \in Tasks, OnData(t) PROVE TypeInv'
<1> DEFINE chunk == [v |-> task[t].v, n |-> task[t].n]
<1>1. /\ task[t].pc = "body" /\ task[t].n <= Chunks
      /\ task' = [task EXCEPT ![t].n = @ + 1]
      /\ UNCHANGED <<flags, transfer, server, checks, resets, marred>>
  BY DEF OnData
<1>2. chunk \in Chunk
  BY <1>1, UpdateAssumption DEF TypeInv, Served, Chunk, Bodies, Versions, Page
<1>3. TaskType' /\ Served'
  BY <1>1, BodyTask
<1>4. TransferType'
  BY <1>1 DEF TypeInv, TransferType, transfer
<1>5. Pending' = Pending
  BY <1>1 DEF Pending, TypeInv, TaskType
<1>6. CASE /\ Firmware_version # 0
           /\ Buffer_Test' = [Buffer_Test EXCEPT ![Pointer] = chunk]
           /\ Pointer' = Pointer + 1
           /\ Data_Counter' = Data_Counter + 1
           /\ \/ /\ Load_Counter + 1 = 3
                 /\ Compare
                 /\ Firmware_version' = 0
              \/ /\ Load_Counter + 1 # 3
                 /\ Load_Counter' = Load_Counter + 1
                 /\ UNCHANGED <<disk, f, File_opened, Firmware_version>> /\ NoFault
  <2>1. Pointer \in 1..3 /\ Pointer' \in 1..4 /\ Data_Counter' \in Nat /\ ToCome = 3 - Load_Counter
    BY <1>6 DEF TypeInv, HttpType, Compared, ToCome
  <2>2. Buffer_Test' \in [1..3 -> Chunk]
    BY <1>2, <1>6, <2>1 DEF TypeInv, FileType
  <2>3. CASE Load_Counter + 1 = 3 /\ Compare /\ Firmware_version' = 0
    <3>1. FileType' /\ Load_Counter' = 0 /\ File_opened' \in BOOLEAN /\ faults' \in 0..MaxFaults
      BY <2>1, <2>2, <2>3, CompareType
    <3>2. HttpType' /\ Compared'
      BY <2>1, <2>3, <3>1, UpdateAssumption DEF HttpType, Compared, Page
    <3>3. CountType'
      BY <1>1, <3>1 DEF TypeInv, CountType
    <3>4. Data_Counter' + ToCome' = Data_Counter + ToCome
      BY <1>6, <2>1, <2>3 DEF ToCome, TypeInv, HttpType
    <3>5. Counted'
      BY <1>1, <1>5, <3>4 DEF TypeInv, Counted
    <3> QED
      BY <1>3, <1>4, <3>1, <3>2, <3>3, <3>5 DEF TypeInv
  <2>4. CASE /\ Load_Counter + 1 # 3
             /\ Load_Counter' = Load_Counter + 1
             /\ UNCHANGED <<disk, f, File_opened, Firmware_version, faults>>
    <3>1. FileType'
      BY <2>2, <2>4 DEF TypeInv, FileType
    <3>2. HttpType' /\ Compared'
      BY <1>6, <2>1, <2>4 DEF TypeInv, HttpType, Compared
    <3>3. CountType'
      BY <1>1, <2>4 DEF TypeInv, CountType
    <3>4. Data_Counter' + ToCome' = Data_Counter + ToCome
      BY <1>6, <2>1, <2>4 DEF ToCome, TypeInv, HttpType
    <3>5. Counted'
      BY <1>1, <1>5, <3>4 DEF TypeInv, Counted
    <3> QED
      BY <1>3, <1>4, <3>1, <3>2, <3>3, <3>5 DEF TypeInv
  <2> QED
    BY <1>6, <2>3, <2>4 DEF NoFault
<1>7. CASE /\ Firmware_version = 0
           /\ disk' = IF File_opened /\ f.mode = "w" THEN Append(disk, chunk) ELSE disk
           /\ UNCHANGED <<f, http, faults>>
  <2>1. disk' \in Seq(Chunk)
    BY <1>2, <1>7, AppendProperties DEF TypeInv, FileType
  <2>2. FileType' /\ HttpType' /\ Compared' /\ CountType'
    BY <1>1, <1>7, <2>1 DEF TypeInv, FileType, HttpType, Compared, CountType, http
  <2>3. Counted'
    BY <1>1, <1>5, <1>7 DEF TypeInv, Counted, ToCome, http
  <2> QED
    BY <1>3, <1>4, <2>2, <2>3 DEF TypeInv
<1> QED
  BY <1>6, <1>7 DEF OnData

\* A finished or broken download counts no more chunks than it did.
LEMMA FinishType ==
    ASSUME TypeInv, NEW t \in Tasks, OnFinish(t) \/ OnError(t) PROVE TypeInv'
<1>1. /\ task' = [task EXCEPT ![t].pc = "closing"]
      /\ task[t].pc \in {"connecting", "body"}
      /\ UNCHANGED <<Buffer_Test, Pointer, Data_Counter, flags, transfer, server, checks, resets,
                     marred>>
  BY DEF OnFinish, OnError
<1>2. TaskType' /\ Served'
  BY <1>1, BodyTask
<1>3. TransferType'
  BY <1>1 DEF TypeInv, TransferType, transfer
<1>4. CountType'
  <2>1. faults' \in 0..MaxFaults
    BY UpdateAssumption DEF OnFinish, OnError, Fault, NoFault, TypeInv, CountType
  <2> QED
    BY <1>1, <2>1 DEF TypeInv, CountType
<1>5. FileType'
  <2>1. disk' \in {disk, NoFile} /\ f' \in {f, Null, Opened("removed")}
    BY DEF OnFinish, OnError
  <2>2. {f, Null, Opened("removed")} \subseteq [mode : {"null", "r", "w", "removed"}, at : Nat]
    BY DEF TypeInv, FileType, Null, Opened
  <2> QED
    BY <1>1, <2>1, <2>2, NoFileAt DEF TypeInv, FileType
<1>6. \/ Firmware_version' = 0 /\ Load_Counter' \in {0, Load_Counter} /\ File_opened' = FALSE
      \/ UNCHANGED <<Firmware_version, Load_Counter, File_opened>>
  BY DEF OnFinish, OnError
<1>7. HttpType' /\ Compared'
  <2>1. CASE Firmware_version' = 0 /\ Load_Counter' \in {0, Load_Counter} /\ File_opened' = FALSE
    <3>1. File_opened' \in BOOLEAN
      BY <2>1, Zenon
    <3> QED
      BY <1>1, <2>1, <3>1, UpdateAssumption DEF TypeInv, HttpType, Compared, Page
  <2>2. CASE UNCHANGED <<Firmware_version, Load_Counter, File_opened>>
    BY <1>1, <2>2 DEF TypeInv, HttpType, Compared
  <2> QED
    BY <1>6, <2>1, <2>2
<1>8. Counted'
  <2>1. \/ t \in Pending /\ Pending' = Pending \ {t}
        \/ Pending' = Pending
    BY <1>1 DEF Pending, TypeInv, TaskType
  <2>2. /\ IsFiniteSet(Pending') /\ Cardinality(Pending) \in Nat /\ Cardinality(Pending') \in Nat
        /\ Cardinality(Pending') <= Cardinality(Pending)
    <3>1. IsFiniteSet(Pending) /\ Cardinality(Pending) \in Nat
      BY FS_CardinalityType DEF TypeInv, Counted
    <3>2. CASE Pending' = Pending
      BY <3>1, <3>2
    <3>3. CASE t \in Pending /\ Pending' = Pending \ {t}
      <4>1. /\ IsFiniteSet(Pending \ {t})
            /\ Cardinality(Pending \ {t}) = Cardinality(Pending) - 1
            /\ Cardinality(Pending \ {t}) \in Nat
        BY <3>1, <3>3, FS_RemoveElement, FS_CardinalityType
      <4> QED
        BY <3>1, <3>3, <4>1
    <3> QED
      BY <2>1, <3>2, <3>3
  <2>3. ToCome \in Nat /\ ToCome' \in Nat /\ ToCome' <= ToCome
    BY <1>6 DEF TypeInv, HttpType, ToCome
  <2>4. Data_Counter \in Nat /\ checks \in Nat
    BY UpdateAssumption DEF TypeInv, HttpType, CountType
  <2> QED
    BY <1>1, <2>2, <2>3, <2>4 DEF TypeInv, Counted
<1> QED
  BY <1>2, <1>3, <1>4, <1>5, <1>7, <1>8 DEF TypeInv

LEMMA EndType ==
    ASSUME TypeInv, NEW t \in Tasks, End(t) PROVE TypeInv'
<1>1. /\ task' = [task EXCEPT ![t] = Absent] /\ task[t].pc = "closing"
      /\ Unit_Update_task_Flag' = FALSE
      /\ UNCHANGED <<disk, f, http, Bootloader_State_Flag, transfer, server, checks, resets, faults,
                     marred>>
  BY DEF End
<1>2. FileType' /\ HttpType' /\ TransferType' /\ Compared' /\ CountType'
  BY <1>1 DEF TypeInv, FileType, HttpType, TransferType, Compared, CountType, http, transfer
<1>3. TaskType' /\ Served'
  <2>1. Absent \in [pc : Places, v : 0..Page, n : 0..(Chunks + 1)]
    BY UpdateAssumption DEF Absent, Places, Page
  <2>2. TaskType'
    BY <1>1, <2>1 DEF TypeInv, TaskType
  <2>3. Served'
    BY <1>1 DEF TypeInv, TaskType, Served, Absent
  <2> QED
    BY <2>2, <2>3
<1>4. Pending' = Pending
  BY <1>1 DEF Pending, TypeInv, TaskType, Absent
<1>5. Counted'
  BY <1>1, <1>4 DEF TypeInv, Counted, ToCome, http
<1> QED
  BY <1>2, <1>3, <1>5 DEF TypeInv

\* What the unit task sends is read from the file, or is what the buffer holds.
LEMMA UnitTaskType ==
    ASSUME TypeInv, HearBanner \/ Connect_To_Unit PROVE TypeInv'
<1>1. UNCHANGED <<downloads, Unit_Update_task_Flag>>
  BY DEF HearBanner, Connect_To_Unit, CheckNoUpdate, Claim, OpenFile, SendNext, flags
<1>2. HttpType' /\ Served' /\ Compared' /\ Counted'
  <2>1. Pending' = Pending /\ ToCome' = ToCome
    BY <1>1 DEF Pending, ToCome, downloads, http
  <2> QED
    BY <1>1, <2>1 DEF TypeInv, HttpType, Served, Compared, Counted, downloads, http
<1>3. Bootloader_State_Flag' \in {Bootloader_State_Flag, TRUE}
  BY Zenon DEF HearBanner, Connect_To_Unit, CheckNoUpdate, Claim, OpenFile, SendNext, flags
<1>4. TaskType'
  BY <1>1, <1>3 DEF TypeInv, TaskType, downloads
<1>5. CountType'
  <2>1. faults' \in 0..MaxFaults
    BY UpdateAssumption DEF HearBanner, Connect_To_Unit, CheckNoUpdate, Claim, OpenFile, SendNext,
                            Fault, NoFault, TypeInv, CountType
  <2>2. marred' \subseteq marred \cup {"race"}
    BY DEF HearBanner, Connect_To_Unit, CheckNoUpdate, Claim, OpenFile, SendNext
  <2> QED
    BY <1>1, <2>1, <2>2 DEF TypeInv, CountType, downloads, Marks
<1>6. f' \in [mode : {"null", "r", "w", "removed"}, at : Nat]
  <2>1. f' \in {f, Null, Opened("r"), [f EXCEPT !.at = @ + 1]}
    BY DEF HearBanner, Connect_To_Unit, CheckNoUpdate, Claim, OpenFile, SendNext
  <2> QED
    BY <2>1 DEF TypeInv, FileType, Null, Opened
<1>7. FileType'
  BY <1>1, <1>6 DEF TypeInv, FileType, downloads, http
<1>8. TransferType'
  <2>1. CASE HearBanner \/ CheckNoUpdate \/ Claim
    BY <2>1 DEF HearBanner, CheckNoUpdate, Claim, TypeInv, TransferType
  <2>2. CASE OpenFile
    BY <2>2, LenProperties DEF OpenFile, TypeInv, FileType, TransferType
  <2>3. CASE SendNext
    <3>1. Block \in Chunk /\ Clipped(Block) \in Chunk
      <4>1. Block \in Chunk
        BY JunkType, ElementOfSeq, LenProperties DEF Block, TypeInv, FileType
      <4> QED
        BY <4>1, UpdateAssumption DEF Clipped, Chunk
    <3>2. {Append(sent, Block), Append(sent, Clipped(Block))} \subseteq Seq(Chunk)
      BY <3>1, AppendProperties DEF TypeInv, TransferType
    <3>3. sent' \in {sent, Append(sent, Block), Append(sent, Clipped(Block))}
          /\ ack' \in {"owed", "none"}
          /\ currentState' \in {currentState, "Bootloader_State_end"}
          /\ UNCHANGED <<boot, Filesize>>
      BY <2>3 DEF SendNext
    <3> QED
      BY <3>2, <3>3 DEF TypeInv, TransferType
  <2> QED
    BY <2>1, <2>2, <2>3 DEF Connect_To_Unit
<1> QED
  BY <1>2, <1>4, <1>5, <1>7, <1>8 DEF TypeInv

LEMMA EnvironmentType ==
    ASSUME TypeInv, Environment PROVE TypeInv'
<1>1. CASE UnitAcks
  <2>1. /\ UNCHANGED <<others, server, resets>> /\ faults' \in 0..MaxFaults
        /\ ack' \in {"received", "none"}
    BY <1>1, UpdateAssumption DEF UnitAcks, Fault, NoFault, TypeInv, CountType
  <2>2. Pending' = Pending /\ ToCome' = ToCome
    BY <2>1 DEF Pending, ToCome, others, http
  <2> QED
    BY <2>1, <2>2 DEF TypeInv, FileType, HttpType, TaskType, TransferType, CountType, Served,
                      Compared, Counted, others, http, flags
<1>2. CASE Publish
  <2>1. server' \in Versions /\ UNCHANGED <<others, ack, resets, faults>>
    BY <1>2, UpdateAssumption DEF Publish, TypeInv, CountType, Versions
  <2>2. Pending' = Pending /\ ToCome' = ToCome
    BY <2>1 DEF Pending, ToCome, others, http
  <2> QED
    BY <2>1, <2>2 DEF TypeInv, FileType, HttpType, TaskType, TransferType, CountType, Served,
                      Compared, Counted, others, http, flags
<1>3. CASE Reset
  <2>1. disk' \in Seq(Chunk)
    <3>1. PICK n \in 0..Len(disk) : disk' = IF disk = NoFile THEN NoFile ELSE SubSeq(disk, 1, n)
      BY <1>3 DEF Reset
    <3>2. disk \in Seq(Chunk) /\ Len(disk) \in Nat
      BY LenProperties DEF TypeInv, FileType
    <3>3. \A i \in 1..n : disk[i] \in Chunk
      BY <3>1, <3>2, ElementOfSeq
    <3>4. SubSeq(disk, 1, n) \in Seq(Chunk)
      BY <3>2, <3>3, SubSeqProperties
    <3> QED
      BY <3>1, <3>4, NoFileAt
  <2>2. FileType'
    BY <1>3, <2>1, JunkType DEF Reset, FileType, Null, Empty
  <2>3. HttpType' /\ Served' /\ Compared' /\ Counted'
    <3>1. Fresh'
      BY <1>3 DEF Reset, Fresh
    <3>2. (Fresh => HttpType /\ Served /\ Compared /\ Counted)'
      BY FreshType, PTL
    <3> QED
      BY <3>1, <3>2
  <2>4. TaskType'
    <3>1. Unit_Update_task_Flag' \in BOOLEAN /\ Bootloader_State_Flag' \in BOOLEAN
      BY <1>3, Zenon DEF Reset
    <3> QED
      BY <1>3, <3>1, UpdateAssumption DEF Reset, TaskType, Absent, Places, Page
  <2>5. TransferType'
    BY <1>3, EmptySeq DEF Reset, TransferType
  <2>6. CountType'
    BY <1>3, UpdateAssumption DEF Reset, TypeInv, CountType
  <2> QED
    BY <2>2, <2>3, <2>4, <2>5, <2>6 DEF TypeInv
<1>4. CASE ErrorPage
  <2>1. /\ UNCHANGED <<disk, f, http, flags, transfer, server, checks, resets, marred>>
        /\ faults' \in 0..MaxFaults
    BY <1>4, UpdateAssumption DEF ErrorPage, Fault, TypeInv, CountType
  <2>2. PICK t \in Tasks : task[t].pc = "body" /\ task' = [task EXCEPT ![t].v = Page]
    BY <1>4 DEF ErrorPage
  <2>3. Pending' = Pending /\ ToCome' = ToCome
    BY <2>1, <2>2 DEF Pending, ToCome, http, TypeInv, TaskType
  <2>4. TaskType' /\ Served'
    BY <2>1, <2>2, UpdateAssumption DEF TypeInv, TaskType, Served, flags, Bodies, Page
  <2> QED
    BY <2>1, <2>3, <2>4 DEF TypeInv, FileType, HttpType, TransferType, CountType, Compared,
                            Counted, http, transfer
<1> QED
  BY <1>1, <1>2, <1>3, <1>4 DEF Environment

LEMMA NextType == TypeInv /\ [Next]_vars => TypeInv'
<1> SUFFICES ASSUME TypeInv, [Next]_vars PROVE TypeInv'
  OBVIOUS
<1>1. ASSUME NEW t \in Tasks, Spawn(t) \/ Unit_Update_task(t) PROVE TypeInv'
  BY <1>1, SpawnType, StartType, ConnectedType, DataType, FinishType, EndType DEF Unit_Update_task
<1>2. CASE HearBanner \/ Connect_To_Unit
  BY <1>2, UnitTaskType
<1>3. CASE Environment
  BY <1>3, EnvironmentType
<1>4. CASE UNCHANGED vars
  <2>1. Pending' = Pending /\ ToCome' = ToCome
    BY <1>4 DEF Pending, ToCome, vars, http
  <2> QED
    BY <1>4, <2>1 DEF TypeInv, FileType, HttpType, TaskType, TransferType, CountType, Served,
                      Compared, Counted, vars, http, flags, transfer
<1> QED
  BY <1>1, <1>2, <1>3, <1>4 DEF Next

\* No chunk is written beyond Buffer_Test and no download counts more than three, for
\* any number of tasks, whether or not they act on a flag at once: Pointer is reset
\* by each answer, Load_Counter only when three chunks were compared or a file that
\* was being written is removed (main.c:361-405).
THEOREM TypeCorrect == Spec => []TypeOK
BY InitType, NextType, TypeParts, PTL DEF Spec

-----------------------------------------------------------------------------
(* Downloads and the transfer exclude each other *)

\* A running task shows: its flag is set, or it was just created.
Shown == \A t \in Tasks : Running(t) => Unit_Update_task_Flag \/ task[t].pc = "created"

\* There is one at most.
Single == \A t, u \in Tasks : Running(t) /\ Running(u) => t = u

\* Once the unit task has passed its test there is none.
Kept ==
    /\ boot = "open" <=> Bootloader_State_Flag
    /\ boot # "check" => \A t \in Tasks : ~Running(t)

\* They hold until two tasks meet at the flags.
ExclInv == Shown /\ Single /\ Kept

\* The program starts without downloads and outside the bootloader states.
LEMMA InitExcl == Init => ExclInv
<1> SUFFICES ASSUME Init PROVE ExclInv
  OBVIOUS
<1>1. /\ task = [t \in Tasks |-> Absent] /\ boot = "check"
      /\ Unit_Update_task_Flag = FALSE /\ Bootloader_State_Flag = FALSE
  BY DEF Init
<1>2. \A t \in Tasks : ~Running(t)
  BY <1>1 DEF Running, Absent
<1> QED
  BY <1>1, <1>2 DEF ExclInv, Shown, Single, Kept

\* Without a race a task is created only when none is running and the unit task has
\* not begun.
LEMMA SpawnExcl ==
    ASSUME TypeInv, ExclInv, NEW t \in Tasks, Spawn(t), "race" \notin marred' PROVE ExclInv'
<1>1. boot # "claim" /\ \A u \in Tasks : task[u].pc # "created"
  BY DEF Spawn, Undeclared
<1>2. \A u \in Tasks : ~Running(u)
  BY <1>1 DEF Spawn, ExclInv, Shown
<1>3. boot = "check"
  BY <1>1 DEF Spawn, ExclInv, Kept, TypeInv, TransferType
<1>4. \A u \in Tasks : u # t => ~Running(u)'
  BY <1>2 DEF Spawn, TypeInv, TaskType, Running
<1>5. task'[t].pc = "created"
  BY DEF Spawn, TypeInv, TaskType
<1> QED
  BY <1>3, <1>4, <1>5 DEF Spawn, ExclInv, Shown, Single, Kept, Running, flags, transfer

\* A step of a running task leaves the others alone; its end clears its flag.
LEMMA TaskExcl ==
    ASSUME TypeInv, ExclInv, NEW t \in Tasks, Unit_Update_task(t) PROVE ExclInv'
<1>1. Running(t)
  BY DEF Unit_Update_task, Start, OnConnected, OnData, OnFinish, OnError, End, Running
<1>2. boot = "check" /\ ~Bootloader_State_Flag
  BY <1>1 DEF ExclInv, Kept
<1>3. \A u \in Tasks : u # t => ~Running(u)
  BY <1>1 DEF ExclInv, Single
<1>4. UNCHANGED <<boot, Bootloader_State_Flag>>
  BY DEF Unit_Update_task, Start, OnConnected, OnData, OnFinish, OnError, End, flags, transfer
<1>5. \A u \in Tasks : u # t => task'[u] = task[u]
  BY DEF Unit_Update_task, Start, OnConnected, OnData, OnFinish, OnError, End, TypeInv, TaskType
<1>6. \A u \in Tasks : u # t => ~Running(u)'
  BY <1>3, <1>5 DEF Running
<1>7. Running(t)' => Unit_Update_task_Flag'
  <2>1. CASE Start(t)
    BY <2>1 DEF Start
  <2>2. CASE OnConnected(t) \/ OnData(t) \/ OnFinish(t) \/ OnError(t)
    <3>1. Unit_Update_task_Flag
      BY <2>2, <1>1 DEF OnConnected, OnData, OnFinish, OnError, ExclInv, Shown
    <3> QED
      BY <2>2, <3>1 DEF OnConnected, OnData, OnFinish, OnError, flags
  <2>3. CASE End(t)
    BY <2>3 DEF End, TypeInv, TaskType, Absent, Running
  <2> QED
    BY <2>1, <2>2, <2>3 DEF Unit_Update_task
<1> QED
  BY <1>2, <1>4, <1>6, <1>7 DEF ExclInv, Shown, Single, Kept

\* The unit task goes on only when no download is running.
LEMMA ConnectExcl ==
    ASSUME ExclInv, HearBanner \/ Connect_To_Unit, "race" \notin marred' PROVE ExclInv'
<1>1. CASE CheckNoUpdate
  <2>1. \A t \in Tasks : ~Running(t)
    BY <1>1 DEF CheckNoUpdate, Undeclared, ExclInv, Shown
  <2> QED
    BY <1>1, <2>1 DEF CheckNoUpdate, ExclInv, Shown, Single, Kept, Running, downloads, flags
<1>2. CASE Claim
  BY <1>2 DEF Claim, ExclInv, Shown, Single, Kept, Running, downloads
<1>3. CASE HearBanner \/ OpenFile \/ SendNext
  BY <1>3 DEF HearBanner, OpenFile, SendNext, ExclInv, Shown, Single, Kept, Running, downloads, flags
<1> QED
  BY <1>1, <1>2, <1>3 DEF Connect_To_Unit

\* A restart ends every download and every transfer.
LEMMA EnvironmentExcl ==
    ASSUME TypeInv, ExclInv, Environment PROVE ExclInv'
<1>1. CASE UnitAcks \/ Publish
  BY <1>1 DEF UnitAcks, Publish, ExclInv, Shown, Single, Kept, Running, others, flags
<1>2. CASE Reset
  <2>1. /\ task' = [t \in Tasks |-> Absent] /\ boot' = "check"
        /\ Unit_Update_task_Flag' = FALSE /\ Bootloader_State_Flag' = FALSE
    BY <1>2 DEF Reset
  <2>2. \A t \in Tasks : ~Running(t)'
    BY <2>1 DEF Running, Absent
  <2> QED
    BY <2>1, <2>2 DEF ExclInv, Shown, Single, Kept
<1>3. CASE ErrorPage
  <2>1. \A u \in Tasks : task'[u].pc = task[u].pc
    BY <1>3 DEF ErrorPage, TypeInv, TaskType
  <2> QED
    BY <1>3, <2>1 DEF ErrorPage, ExclInv, Shown, Single, Kept, Running, flags, transfer
<1> QED
  BY <1>1, <1>2, <1>3 DEF Environment

LEMMA NextExcl ==
    ASSUME TypeInv, ExclInv, [Next]_vars, "race" \notin marred' PROVE ExclInv'
<1>1. CASE \E t \in Tasks : Spawn(t)
  BY <1>1, SpawnExcl
<1>2. CASE \E t \in Tasks : Unit_Update_task(t)
  BY <1>2, TaskExcl
<1>3. CASE HearBanner \/ Connect_To_Unit
  BY <1>3, ConnectExcl
<1>4. CASE Environment
  BY <1>4, EnvironmentExcl
<1>5. CASE UNCHANGED vars
  BY <1>5 DEF vars, ExclInv, Shown, Single, Kept, Running, flags, transfer
<1> QED
  BY <1>1, <1>2, <1>3, <1>4, <1>5 DEF Next

\* What has spoiled the files once is not forgotten.
LEMMA MarksStay == [Next]_vars => marred \subseteq marred'
BY DEF Next, Spawn, Unit_Update_task, Start, OnConnected, OnData, OnFinish, OnError, End,
       HearBanner, Connect_To_Unit, CheckNoUpdate, Claim, OpenFile, SendNext, Environment,
       UnitAcks, ErrorPage, Publish, Reset, others, vars

\* Unit_Update_task_Flag and Bootloader_State_Flag keep a download and a transfer
\* apart, for any number of tasks that start downloads, until a task passes the test
\* of one while another has passed a test and not set its own yet (main.c:306, 605,
\* unit_comm.c:639-641).
THEOREM DownloadsKeptOut == Spec => []NoUpdateInBootloader
<1> DEFINE Inv == TypeInv /\ ("race" \notin marred => ExclInv)
<1>1. Init => Inv
  BY InitType, InitExcl
<1>2. Inv /\ [Next]_vars => Inv'
  BY NextType, NextExcl, MarksStay
<1>3. Inv => NoUpdateInBootloader
  BY DEF ExclInv, Kept, NoUpdateInBootloader
<1> QED
  BY <1>1, <1>2, <1>3, PTL DEF Spec

-----------------------------------------------------------------------------
(* What is stored and what is sent *)

\* Until a chunk is buffered no comparison has begun.
Unbuffered == Load_Counter = 0 /\ Buffer_Test = Empty

\* A download that is under way writes the image it is served as far as it has come ...
Writing(t) ==
    /\ File_opened /\ f.mode = "w" /\ Firmware_version = 0
    /\ Len(disk) = task[t].n - 1 /\ IsPrefix(disk, Image(task[t].v))

\* ... or leaves the stored file as it is ...
Skipping == ~File_opened /\ Firmware_version = 0

\* ... or has that much of the image in its buffer.
Buffering(t) ==
    /\ ~File_opened /\ Firmware_version # 0 /\ disk # NoFile
    /\ task[t].n <= 3 /\ Pointer = task[t].n
    /\ Load_Counter = task[t].n - 1 /\ Data_Counter = task[t].n - 1
    /\ \A i \in 1..(task[t].n - 1) : Buffer_Test[i] = Image(task[t].v)[i]

Stored == disk # NoFile => \E v \in Bodies : IsPrefix(disk, Image(v))

DownloadInv ==
    /\ Stored
    /\ Data_Counter = 0 => Unbuffered
    /\ File_opened => \E t \in Tasks : task[t].pc = "body"
    /\ \A t \in Pending : Data_Counter = 0
    /\ \A t \in Tasks : task[t].pc = "body" => Writing(t) \/ Skipping \/ Buffering(t)

\* Without an error, a file that was not cut off is kept for its version or replaced.
Whole == disk = NoFile \/ \E v \in Bodies : disk = Image(v)
Same(t) == task[t].v \in Bodies /\ IsPrefix(disk, Image(task[t].v)) /\ Len(disk) >= 3

Judged(t) ==
    /\ task[t].pc = "body" => task[t].v # Page
    /\ task[t].pc = "body" /\ Firmware_version # 0 =>
          Len(disk) >= 3 /\ Firmware_version = disk[3].v
    /\ task[t].pc = "body" /\ Skipping => Same(t)
    /\ task[t].pc = "closing" => ~File_opened /\ Same(t)

CheckInv ==
    faults = 0 /\ marred = {} =>
        /\ resets = 0 /\ ~File_opened => Whole
        /\ \A t \in Tasks : Judged(t)

\* Both hold until a check begins after another one has buffered a chunk.
StoreInv == "recheck" \notin marred => DownloadInv /\ CheckInv

\* The unit was sent the beginning of the file, as far as the handle has moved.
SentInv ==
    /\ currentState = "TrySerialLink" => boot = "check"
    /\ boot # "open" => currentState \in {"TrySerialLink", "Bootloader_State"}
    /\ currentState \in {"TrySerialLink", "Bootloader_State"} => sent = <<>>
    /\ sent # <<>> => IsSent(sent, disk)
    /\ currentState = "Bootloader_State1" =>
          f.mode = "r" /\ f.at = Len(sent) /\ Filesize = Len(disk) /\ Len(sent) <= Filesize
    /\ currentState = "Bootloader_State_end" => Len(sent) = Filesize

SafeInv == TypeInv /\ ExclInv /\ StoreInv /\ SentInv

\* All of it but the types is given up when two tasks meet at the flags.
UnlessRace == TypeInv /\ ("race" \notin marred => SafeInv)

\* A sequence that an element is appended to remains the beginning of another one
\* that has this element at this place.
LEMMA PrefixGrows ==
    ASSUME NEW S, NEW s \in Seq(S), NEW t \in Seq(S), IsPrefix(s, t),
           Len(s) < Len(t), NEW e, e = t[Len(s) + 1]
    PROVE  IsPrefix(Append(s, e), t) /\ Len(Append(s, e)) = Len(s) + 1
           /\ Append(s, e) # <<>>
<1>1. Len(s) \in Nat /\ Len(t) \in Nat
  BY LenProperties
<1>2. e \in S
  BY <1>1, ElementOfSeq
<1>3. /\ Append(s, e) \in Seq(S) /\ Len(Append(s, e)) = Len(s) + 1
      /\ \A i \in 1..Len(s) : Append(s, e)[i] = s[i]
      /\ Append(s, e)[Len(s) + 1] = e
  BY <1>1, <1>2, AppendProperties
<1>4. \A i \in 1..Len(s) : s[i] = t[i]
  BY PrefixAt
<1>5. \A i \in 1..(Len(s) + 1) : Append(s, e)[i] = t[i]
  BY <1>1, <1>3, <1>4
<1>6. Append(s, e) # <<>>
  BY <1>1, <1>3, EmptySeq
<1>7. ASSUME NEW u \in Seq(S), Len(u) = Len(s) + 1, \A i \in 1..(Len(s) + 1) : u[i] = t[i]
      PROVE  IsPrefix(u, t)
  BY <1>1, <1>7, PrefixAt
<1> QED
  BY <1>3, <1>5, <1>6, <1>7

\* The same for what was sent, the last element of which may be clipped.
LEMMA SentGrows ==
    ASSUME NEW S, NEW s \in Seq(S), NEW t \in Seq(S), IsSent(s, t), NEW e \in S,
           Len(s) < Len(t),
           e = t[Len(s) + 1] \/ (Len(s) + 1 = Len(t) /\ e = Clipped(t[Len(s) + 1]))
    PROVE  IsSent(Append(s, e), t) /\ Len(Append(s, e)) = Len(s) + 1
           /\ Append(s, e) # <<>>
<1>1. Len(s) \in Nat /\ Len(t) \in Nat
  BY LenProperties
<1>3. /\ Append(s, e) \in Seq(S) /\ Len(Append(s, e)) = Len(s) + 1
      /\ \A i \in 1..Len(s) : Append(s, e)[i] = s[i]
      /\ Append(s, e)[Len(s) + 1] = e
  BY <1>1, AppendProperties
<1>4. \A i \in 1..Len(s) : s[i] = t[i]
  BY <1>1 DEF IsSent
<1>5. Append(s, e) # <<>>
  BY <1>1, <1>3, EmptySeq
<1>6. ASSUME NEW u \in Seq(S), Len(u) = Len(s) + 1, \A i \in 1..Len(s) : u[i] = s[i],
             u[Len(s) + 1] = e
      PROVE  IsSent(u, t)
  <2>1. ASSUME NEW i \in 1..Len(u)
        PROVE  u[i] = t[i] \/ (i = Len(t) /\ u[i] = Clipped(t[i]))
    <3>1. CASE i = Len(s) + 1
      BY <1>6, <3>1
    <3>2. CASE i # Len(s) + 1
      BY <1>1, <1>4, <1>6, <3>2
    <3> QED
      BY <3>1, <3>2
  <2> QED
    BY <1>1, <1>6, <2>1 DEF IsSent
<1> QED
  BY <1>3, <1>5, <1>6

\* The beginning of a beginning is one.
LEMMA PrefixCut ==
    ASSUME NEW S, NEW s \in Seq(S), NEW t \in Seq(S), IsPrefix(s, t), NEW n \in 0..Len(s)
    PROVE  IsPrefix(SubSeq(s, 1, n), t)
<1>1. Len(s) \in Nat /\ Len(t) \in Nat
  BY LenProperties
<1>2. \A i \in 1..n : s[i] \in S
  BY <1>1, ElementOfSeq
<1>3. /\ SubSeq(s, 1, n) \in Seq(S) /\ Len(SubSeq(s, 1, n)) = n
      /\ \A i \in 1..n : SubSeq(s, 1, n)[i] = s[i]
  BY <1>1, <1>2, SubSeqProperties
<1>4. Len(s) <= Len(t) /\ \A i \in 1..Len(s) : s[i] = t[i]
  BY PrefixAt
<1>5. ASSUME NEW r \in Seq(S), Len(r) <= Len(t), \A i \in 1..Len(r) : r[i] = t[i]
      PROVE  IsPrefix(r, t)
  BY <1>5, PrefixAt
<1>6. Len(SubSeq(s, 1, n)) <= Len(t)
  BY <1>1, <1>3, <1>4
<1>7. \A i \in 1..Len(SubSeq(s, 1, n)) : SubSeq(s, 1, n)[i] = t[i]
  BY <1>1, <1>3, <1>4
<1> QED
  BY <1>3, <1>5, <1>6, <1>7

\* An image begins with nothing, and with all of it.
LEMMA ImagePrefixes ==
    ASSUME NEW v \in Bodies
    PROVE  /\ IsPrefix(<<>>, Image(v)) /\ IsPrefix(Image(v), Image(v))
           /\ \A s \in Seq(Chunk) : IsPrefix(s, Image(v)) /\ Len(s) >= Chunks => s = Image(v)
<1>1. Image(v) \in Seq(Chunk) /\ Len(Image(v)) = Chunks /\ Chunks \in Nat
  BY ImageAt, UpdateAssumption
<1>2. IsPrefix(<<>>, Image(v))
  BY <1>1, NothingIsPrefix
<1>3. IsPrefix(Image(v), Image(v))
  BY <1>1, PrefixAt
<1>4. ASSUME NEW s \in Seq(Chunk), IsPrefix(s, Image(v)), Len(s) >= Chunks
      PROVE  s = Image(v)
  <2>1. Len(s) \in Nat /\ Len(s) <= Chunks /\ \A i \in 1..Len(s) : s[i] = Image(v)[i]
    BY <1>1, <1>4, LenProperties, PrefixAt
  <2> QED
    BY <1>1, <1>4, <2>1, SeqEqual
<1> QED
  BY <1>2, <1>3, <1>4

\* The version number of a stored file that is long enough is that of its image.
LEMMA StoredVersion ==
    ASSUME NEW v \in Bodies, NEW s \in Seq(Chunk), IsPrefix(s, Image(v)), Len(s) >= 3
    PROVE  s[3].v = v
<1>1. s[3] = Image(v)[3]
  BY ImageAt, LenProperties, PrefixAt
<1>2. Image(v)[3] = [v |-> v, n |-> 3]
  BY ImageAt, UpdateAssumption
<1> QED
  BY <1>1, <1>2

-----------------------------------------------------------------------------
\* A step of the only download that is running, which may write files and the
\* comparison's variables, keeps what was sent to the unit: nothing.
LEMMA DownloadSent ==
    ASSUME SentInv, boot = "check", UNCHANGED <<currentState, boot, sent>> PROVE SentInv'
<1>1. currentState \in {"TrySerialLink", "Bootloader_State"} /\ sent = <<>>
  BY DEF SentInv
<1> QED
  BY <1>1 DEF SentInv

\* While one download runs, only that one does, and the unit task waits for it.
LEMMA Lone ==
    ASSUME ExclInv, NEW t \in Tasks, Running(t)
    PROVE  boot = "check" /\ \A u \in Tasks : u # t => ~Running(u)
BY DEF ExclInv, Single, Kept

LEMMA InitSafe == Init => SafeInv
<1> SUFFICES ASSUME Init PROVE SafeInv
  OBVIOUS
<1>1. TypeInv /\ ExclInv
  BY InitType, InitExcl
<1>2. SentInv
  BY DEF Init, SentInv
<1>3. \A t \in Tasks : task[t].pc = "none"
  BY DEF Init, Absent
<1>4. 1 \in Bodies
  BY UpdateAssumption DEF Versions, Bodies
<1>5. Stored /\ Whole
  BY <1>4, ImagePrefixes DEF Init, Stored, Whole
<1>6. Unbuffered
  BY DEF Init, Unbuffered
<1>7. DownloadInv
  BY <1>3, <1>5, <1>6 DEF Init, DownloadInv, Pending
<1>8. CheckInv
  BY <1>3, <1>5 DEF CheckInv, Judged
<1> QED
  BY <1>1, <1>2, <1>7, <1>8 DEF SafeInv, StoreInv

\* A download that begins before anything was buffered finds no file open.
LEMMA SpawnSafe ==
    ASSUME SafeInv, NEW t \in Tasks, Spawn(t) PROVE StoreInv' /\ SentInv'
<1>1. /\ task' = [task EXCEPT ![t].pc = "created"]
      /\ task[t].pc = "none"
      /\ marred \subseteq marred'
      /\ UNCHANGED <<disk, f, http, flags, transfer, server, resets, faults>>
  BY DEF Spawn
<1>2. SentInv'
  BY <1>1 DEF SafeInv, SentInv, transfer
<1>3. ASSUME "recheck" \notin marred' PROVE DownloadInv' /\ CheckInv'
  <2>1. Data_Counter = 0
    BY <1>3 DEF Spawn, SafeInv, TypeInv, HttpType
  <2>2. DownloadInv /\ CheckInv
    BY <1>1, <1>3 DEF SafeInv, StoreInv
  <2>3. /\ task'[t].pc = "created"
        /\ \A u \in Tasks : u # t => task'[u] = task[u]
    BY <1>1 DEF SafeInv, TypeInv, TaskType
  <2>4. (Unbuffered <=> Unbuffered') /\ (Stored <=> Stored') /\ (Whole <=> Whole')
    BY <1>1 DEF Unbuffered, Stored, Whole, http
  <2>5. DownloadInv'
    <3>1. \A u \in Tasks : task'[u].pc = "body" =>
             task[u].pc = "body"
             /\ (Writing(u) \/ Skipping \/ Buffering(u) => Writing(u)' \/ Skipping' \/ Buffering(u)')
      BY <1>1, <2>3 DEF Writing, Skipping, Buffering, http
    <3>2. (\E u \in Tasks : task[u].pc = "body") => \E u \in Tasks : task'[u].pc = "body"
      BY <1>1, <2>3
    <3> QED
      BY <1>1, <2>1, <2>2, <2>4, <3>1, <3>2 DEF DownloadInv, http
  <2>6. CheckInv'
    <3>1. ASSUME NEW u \in Tasks, Judged(u) PROVE Judged(u)'
      <4>1. CASE u = t
        BY <2>3, <4>1 DEF Judged
      <4>2. CASE u # t
        BY <1>1, <2>3, <3>1, <4>2 DEF Judged, Skipping, Same, http
      <4> QED
        BY <4>1, <4>2
    <3> QED
      BY <1>1, <2>2, <2>4, <3>1 DEF CheckInv, http
  <2> QED
    BY <2>5, <2>6
<1> QED
  BY <1>2, <1>3 DEF StoreInv

LEMMA StartSafe ==
    ASSUME SafeInv, NEW t \in Tasks, Start(t) PROVE StoreInv' /\ SentInv'
<1>1. /\ task' = [task EXCEPT ![t].pc = "connecting"] /\ task[t].pc = "created"
      /\ UNCHANGED <<disk, f, http, transfer, server, checks, resets, faults, marred>>
  BY DEF Start
<1>2. SentInv'
  BY <1>1 DEF SafeInv, SentInv, transfer
<1>3. ASSUME "recheck" \notin marred' PROVE DownloadInv' /\ CheckInv'
  <2>1. DownloadInv /\ CheckInv
    BY <1>1, <1>3 DEF SafeInv, StoreInv
  <2>2. Running(t) /\ t \in Pending
    BY <1>1 DEF Running, Pending
  <2>3. Data_Counter = 0 /\ Unbuffered /\ ~File_opened
    BY <1>1, <2>1, <2>2, Lone DEF DownloadInv, Running, SafeInv
  <2>4. Unbuffered' /\ Stored' /\ (Whole <=> Whole')
    BY <1>1, <2>1, <2>3 DEF Unbuffered, Stored, Whole, DownloadInv, http
  <2>5. \A u \in Tasks : task'[u].pc \notin {"body", "closing"}
    BY <1>1, <2>2, Lone DEF Running, SafeInv, TypeInv, TaskType
  <2>6. DownloadInv'
    BY <1>1, <2>1, <2>3, <2>4, <2>5 DEF DownloadInv, http
  <2>7. CheckInv'
    BY <1>1, <2>1, <2>4, <2>5 DEF CheckInv, Judged, http
  <2> QED
    BY <2>6, <2>7
<1> QED
  BY <1>2, <1>3 DEF StoreInv

\* A new file is empty, a stored one is compared or, when it was cut off too
\* early, kept.
LEMMA ConnectedSafe ==
    ASSUME SafeInv, NEW t \in Tasks, OnConnected(t) PROVE StoreInv' /\ SentInv'
<1>1. /\ task' = [task EXCEPT ![t] = [pc |-> "body", v |-> server, n |-> 1]]
      /\ task[t].pc = "connecting"
      /\ marred \subseteq marred'
      /\ UNCHANGED <<Load_Counter, Data_Counter, flags, currentState, boot, sent, ack,
                     server, checks, resets>>
  BY DEF OnConnected
<1>2. Running(t) /\ t \in Pending
  BY <1>1 DEF Running, Pending
<1>3. SentInv'
  BY <1>1, <1>2, Lone, DownloadSent DEF SafeInv
<1>4. ASSUME "recheck" \notin marred' PROVE DownloadInv' /\ CheckInv'
  <2>1. DownloadInv /\ CheckInv
    BY <1>1, <1>4 DEF SafeInv, StoreInv
  <2>2. Data_Counter = 0 /\ Unbuffered /\ ~File_opened
    BY <1>1, <1>2, <2>1, Lone DEF DownloadInv, Running, SafeInv
  <2>3. /\ task'[t] = [pc |-> "body", v |-> server, n |-> 1]
        /\ \A u \in Tasks : u # t => task'[u].pc = "none"
    BY <1>1, <1>2, Lone DEF Running, SafeInv, TypeInv, TaskType
  <2>4. server \in Versions /\ disk \in Seq(Chunk)
    BY DEF SafeInv, TypeInv, CountType, FileType
  <2>5. Pending' = {}
    BY <2>3 DEF Pending
  <2>6. ASSUME Stored', Writing(t)' \/ Skipping' \/ Buffering(t)' PROVE DownloadInv'
    <3>1. Unbuffered'
      BY <1>1, <2>2 DEF OnConnected, Unbuffered
    <3> QED
      BY <1>1, <2>3, <2>5, <2>6, <3>1 DEF DownloadInv
  <2>7. CASE disk = NoFile /\ disk' = <<>> /\ f' = Opened("w") /\ File_opened' = TRUE
             /\ Firmware_version' = 0
    <3>1. IsPrefix(<<>>, Image(server)) /\ Len(<<>>) = 0
      BY <2>4, ImagePrefixes DEF Bodies
    <3>2. Writing(t)' /\ Stored'
      BY <2>3, <2>4, <2>7, <3>1 DEF Writing, Stored, Opened, Bodies
    <3>3. CheckInv'
      BY <2>3, <2>4, <2>7, UpdateAssumption DEF CheckInv, Judged, Skipping, Versions, Page
    <3> QED
      BY <2>6, <3>2, <3>3
  <2>8. CASE UNCHANGED disk /\ File_opened' = FALSE /\ Fault /\ Firmware_version' = 0
    <3>1. Skipping' /\ Stored'
      BY <2>1, <2>8 DEF Skipping, Stored, DownloadInv
    <3>2. faults' # 0
      BY <2>8 DEF Fault, SafeInv, TypeInv, CountType
    <3> QED
      BY <2>6, <3>1, <3>2 DEF CheckInv
  <2>9. CASE /\ disk # NoFile /\ UNCHANGED disk /\ File_opened' = FALSE
             /\ Firmware_version' =
                   VersionIn([i \in 1..3 |-> IF i <= Len(disk) THEN disk[i] ELSE Buffer_Test[i]])
             /\ Pointer' = 1
             /\ marred' = IF Len(disk) < 3 THEN marred \cup {"stub"} ELSE marred
             /\ NoFault
    <3>1. Skipping' \/ Buffering(t)'
      BY <1>1, <2>2, <2>3, <2>9 DEF Skipping, Buffering, Unbuffered
    <3>2. Stored' /\ (Whole <=> Whole')
      BY <2>1, <2>9 DEF Stored, Whole, DownloadInv
    <3>3. ASSUME faults' = 0, marred' = {}
          PROVE  (resets' = 0 => Whole') /\ Judged(t)'
      <4>1. Len(disk) >= 3 /\ marred = {} /\ faults = 0
        <5>1. Len(disk) \in Nat
          BY <2>4, LenProperties
        <5>2. ~(Len(disk) < 3)
          BY <2>9, <3>3
        <5> QED
          BY <1>1, <2>9, <3>3, <5>1, <5>2 DEF NoFault
      <4>2. Firmware_version' = disk[3].v
        BY <2>9, <4>1 DEF VersionIn
      <4>3. PICK v \in Bodies : IsPrefix(disk, Image(v))
        BY <2>1, <2>9 DEF DownloadInv, Stored
      <4>4. Firmware_version' # 0
        BY <2>4, <4>1, <4>2, <4>3, StoredVersion, UpdateAssumption DEF Bodies, Versions, Page
      <4>5. resets' = 0 => Whole'
        BY <1>1, <2>1, <2>2, <3>2, <4>1 DEF CheckInv
      <4>6. server # Page
        BY <2>4, UpdateAssumption DEF Versions, Page
      <4> QED
        BY <2>3, <2>9, <4>1, <4>2, <4>4, <4>5, <4>6 DEF Judged, Skipping
    <3>4. \A u \in Tasks : u # t => Judged(u)'
      BY <2>3 DEF Judged
    <3>5. CheckInv'
      BY <3>3, <3>4 DEF CheckInv
    <3> QED
      BY <2>6, <3>1, <3>2, <3>5
  <2> QED
    BY <2>7, <2>8, <2>9 DEF OnConnected
<1> QED
  BY <1>3, <1>4 DEF StoreInv

\* A chunk goes where the next one of the image belongs, in the file or in the
\* buffer; the third one decides for the image that is served.
LEMMA DataSafe ==
    ASSUME SafeInv, NEW t \in Tasks, OnData(t) PROVE StoreInv' /\ SentInv'
<1> DEFINE v == task[t].v
           n == task[t].n
           chunk == [v |-> v, n |-> n]
<1>1. /\ task[t].pc = "body" /\ n <= Chunks
      /\ task' = [task EXCEPT ![t].n = @ + 1]
      /\ UNCHANGED <<flags, transfer, server, checks, resets, marred>>
  BY DEF OnData
<1>2. Running(t)
  BY <1>1 DEF Running
<1>3. SentInv'
  BY <1>1, <1>2, Lone, DownloadSent DEF SafeInv, transfer
<1>4. v \in Bodies /\ n \in 1..Chunks
  BY <1>1, UpdateAssumption DEF SafeInv, TypeInv, Served
<1>5. /\ task'[t].pc = "body" /\ task'[t].v = v /\ task'[t].n = n + 1
      /\ \A u \in Tasks : u # t => task'[u].pc = "none"
  BY <1>1, <1>2, Lone DEF Running, SafeInv, TypeInv, TaskType
<1>6. Pending' = {} /\ \A u \in Tasks : u # t => Judged(u)'
  BY <1>5 DEF Pending, Judged
<1>7. Image(v)[n] = chunk /\ Len(Image(v)) = Chunks /\ Image(v) \in Seq(Chunk) /\ Chunks >= 3
  BY <1>4, ImageAt, UpdateAssumption
<1>8. ASSUME "recheck" \notin marred' PROVE DownloadInv' /\ CheckInv'
  <2>1. DownloadInv /\ CheckInv
    BY <1>1, <1>8 DEF SafeInv, StoreInv
  <2>2. /\ faults' = 0 /\ marred' = {} => faults = 0 /\ marred = {}
        /\ Data_Counter' = 0 => Unbuffered'
    <3>1. faults' = 0 => faults = 0
      BY DEF OnData, Compare, Fault, NoFault, SafeInv, TypeInv, CountType
    <3>2. Data_Counter' = 0 => UNCHANGED http
      BY DEF OnData, SafeInv, TypeInv, HttpType
    <3> QED
      BY <1>1, <2>1, <3>1, <3>2 DEF DownloadInv, Unbuffered, http
  <2>3. disk \in Seq(Chunk) /\ Len(disk) \in Nat /\ Load_Counter \in 0..2
    BY LenProperties DEF SafeInv, TypeInv, FileType, HttpType
  <2>4. ASSUME Writing(t)' PROVE DownloadInv' /\ CheckInv'
    <3>1. Stored'
      BY <1>4, <1>5, <2>4 DEF Writing, Stored
    <3>2. DownloadInv'
      BY <1>1, <1>5, <1>6, <2>2, <2>4, <3>1 DEF DownloadInv
    <3>3. CheckInv'
      BY <1>1, <1>5, <1>6, <2>1, <2>2, <2>4 DEF Writing, CheckInv, Judged, Skipping
    <3> QED
      BY <3>2, <3>3
  <2>5. ASSUME Stored', Skipping' \/ Buffering(t)',
               faults' = 0 /\ marred' = {} => (resets' = 0 => Whole') /\ Judged(t)'
        PROVE  DownloadInv' /\ CheckInv'
    <3>1. DownloadInv'
      BY <1>1, <1>5, <1>6, <2>2, <2>5 DEF DownloadInv
    <3>2. CheckInv'
      BY <1>6, <2>5 DEF CheckInv
    <3> QED
      BY <3>1, <3>2
  <2>6. CASE Writing(t)
    <3>1. disk' = Append(disk, chunk) /\ UNCHANGED <<f, http, faults>>
      BY <2>6 DEF OnData, Writing
    <3>2. Len(disk) = n - 1 /\ IsPrefix(disk, Image(v))
      BY <2>6 DEF Writing
    <3>3. IsPrefix(Append(disk, chunk), Image(v)) /\ Len(Append(disk, chunk)) = n
      <4>1. Len(disk) < Len(Image(v)) /\ chunk = Image(v)[Len(disk) + 1]
            /\ Len(disk) + 1 = n
        BY <1>4, <1>7, <2>3, <3>2
      <4> HIDE DEF chunk
      <4> QED
        BY <1>7, <2>3, <3>2, <4>1, PrefixGrows
    <3>4. Writing(t)'
      BY <1>4, <1>5, <2>6, <3>1, <3>3 DEF Writing, http
    <3> QED
      BY <2>4, <3>4
  <2>7. CASE Skipping
    <3>1. UNCHANGED <<disk, http, faults>>
      BY <2>7 DEF OnData, Skipping
    <3>2. Skipping' /\ Stored' /\ (Whole <=> Whole') /\ (Same(t) => Same(t)')
      BY <1>5, <2>1, <2>7, <3>1 DEF Skipping, Stored, Whole, Same, DownloadInv, http
    <3>3. faults' = 0 /\ marred' = {} => (resets' = 0 => Whole') /\ Judged(t)'
      BY <1>1, <1>5, <2>1, <2>7, <3>1, <3>2 DEF CheckInv, Judged, Skipping, http
    <3> QED
      BY <2>5, <3>2, <3>3
  <2>8. CASE Buffering(t)
    <3>1. /\ Firmware_version # 0 /\ ~File_opened /\ disk # NoFile
          /\ n <= 3 /\ Pointer = n /\ Load_Counter = n - 1 /\ Data_Counter = n - 1
          /\ \A i \in 1..(n - 1) : Buffer_Test[i] = Image(v)[i]
      BY <2>8 DEF Buffering
    <3>2. /\ Buffer_Test' = [Buffer_Test EXCEPT ![Pointer] = chunk]
          /\ Pointer' = Pointer + 1
          /\ Data_Counter' = Data_Counter + 1
          /\ \/ Load_Counter + 1 = 3 /\ Compare /\ Firmware_version' = 0
             \/ /\ Load_Counter + 1 # 3
                /\ Load_Counter' = Load_Counter + 1
                /\ UNCHANGED <<disk, f, File_opened, Firmware_version>> /\ NoFault
      BY <3>1 DEF OnData
    <3>3. \A i \in 1..n : Buffer_Test'[i] = Image(v)[i]
      <4>1. Buffer_Test \in [1..3 -> Chunk] /\ n \in 1..3
        BY <1>4, <3>1 DEF SafeInv, TypeInv, FileType
      <4>2. Buffer_Test'[n] = chunk /\ \A i \in 1..3 : i # n => Buffer_Test'[i] = Buffer_Test[i]
        BY <3>1, <3>2, <4>1
      <4> QED
        BY <1>7, <3>1, <4>1, <4>2
    <3>4. PICK w \in Bodies : IsPrefix(disk, Image(w))
      BY <2>1, <3>1 DEF DownloadInv, Stored
    <3>5. CASE /\ Load_Counter + 1 # 3
               /\ Load_Counter' = Load_Counter + 1
               /\ UNCHANGED <<disk, f, File_opened, Firmware_version>> /\ NoFault
      <4>1. Buffering(t)'
        BY <1>4, <1>5, <3>1, <3>2, <3>3, <3>5 DEF Buffering
      <4>2. Stored' /\ (Whole <=> Whole')
        BY <2>1, <3>5 DEF Stored, Whole, DownloadInv
      <4>3. faults' = 0 /\ marred' = {} => (resets' = 0 => Whole') /\ Judged(t)'
        BY <1>1, <1>5, <2>1, <3>1, <3>5, <4>2 DEF CheckInv, Judged, Skipping, NoFault
      <4> QED
        BY <2>5, <4>1, <4>2, <4>3
    <3>6. CASE Load_Counter + 1 = 3 /\ Compare /\ Firmware_version' = 0
      <4>1. n = 3 /\ Data_Counter' = 3
        BY <1>4, <3>1, <3>2, <3>6
      <4>2. VersionIn(Buffer_Test') = v
        BY <1>4, <1>7, <3>3, <4>1, ImageAt DEF VersionIn
      <4>3. CASE v = Firmware_version /\ UNCHANGED <<disk, f, File_opened>> /\ NoFault
        <5>1. Skipping' /\ Stored' /\ (Whole <=> Whole')
          BY <2>1, <3>1, <3>6, <4>3 DEF Skipping, Stored, Whole, DownloadInv
        <5>2. ASSUME faults' = 0, marred' = {} PROVE (resets' = 0 => Whole') /\ Judged(t)'
          <6>1. Len(disk) >= 3 /\ Firmware_version = disk[3].v /\ (resets = 0 => Whole)
            BY <1>1, <2>1, <3>1, <4>3, <5>2 DEF CheckInv, Judged, NoFault
          <6>4. v # Page
            BY <1>1, <2>1, <2>2, <5>2 DEF CheckInv, Judged
          <6>2. w = v
            BY <2>3, <3>4, <4>3, <6>1, StoredVersion
          <6>3. Same(t)'
            BY <1>5, <3>4, <4>3, <6>1, <6>2 DEF Same
          <6> QED
            BY <1>1, <1>5, <3>6, <5>1, <6>1, <6>3, <6>4 DEF Judged
        <5> QED
          BY <2>5, <5>1, <5>2
      <4>4. CASE /\ disk' = [i \in 1..Data_Counter' |-> IF i <= 3 THEN Buffer_Test'[i] ELSE Junk]
                 /\ f' = Opened("w") /\ File_opened' = TRUE
        <5>1. disk' \in [1..3 -> Chunk] /\ \A i \in 1..3 : disk'[i] = Image(v)[i]
          BY <1>7, <3>3, <4>1, <4>4, ElementOfSeq
        <5>2. disk' \in Seq(Chunk) /\ Len(disk') = 3
          <6>1. disk' \in [1..Data_Counter' -> Chunk] /\ Data_Counter' \in Nat
            BY <4>1, <5>1
          <6>2. disk' \in Seq(Chunk) /\ Len(disk') = Data_Counter'
            BY <6>1, Table
          <6> QED
            BY <4>1, <6>2
        <5>3. IsPrefix(disk', Image(v))
          BY <1>7, <5>1, <5>2, PrefixAt
        <5>4. Writing(t)'
          BY <1>5, <3>6, <4>1, <4>4, <5>2, <5>3 DEF Writing, Opened
        <5> QED
          BY <2>4, <5>4
      <4>5. CASE disk' = NoFile /\ File_opened' = FALSE /\ Fault
        <5>1. faults' # 0
          BY <4>5 DEF Fault, SafeInv, TypeInv, CountType
        <5>2. Skipping' /\ Stored'
          BY <3>6, <4>5 DEF Skipping, Stored
        <5> QED
          BY <2>5, <5>1, <5>2
      <4> QED
        BY <3>6, <4>2, <4>3, <4>4, <4>5 DEF Compare
    <3> QED
      BY <3>2, <3>5, <3>6
  <2> QED
    BY <1>1, <2>1, <2>6, <2>7, <2>8 DEF DownloadInv
<1> QED
  BY <1>3, <1>8 DEF StoreInv

\* At the end of an image all of it is stored, or the file of its version was kept.
LEMMA FinishSafe ==
    ASSUME SafeInv, NEW t \in Tasks, OnFinish(t) PROVE StoreInv' /\ SentInv'
<1> DEFINE v == task[t].v
           n == task[t].n
<1>1. /\ task' = [task EXCEPT ![t].pc = "closing"] /\ task[t].pc = "body"
      /\ (IF n > Chunks \/ v = Page THEN NoFault ELSE Fault)
      /\ UNCHANGED <<disk, Buffer_Test, Pointer, Load_Counter, Data_Counter, transfer, server,
                     checks, resets, marred>>
  BY DEF OnFinish
<1>2. Running(t)
  BY <1>1 DEF Running
<1>3. SentInv'
  BY <1>1, <1>2, Lone, DownloadSent DEF SafeInv, transfer
<1>4. v \in Bodies /\ n \in 1..(Chunks + 1) /\ Chunks \in Nat /\ Chunks >= 3
  BY <1>1, UpdateAssumption DEF SafeInv, TypeInv, Served
<1>5. /\ task'[t].pc = "closing" /\ task'[t].v = v
      /\ \A u \in Tasks : u # t => task'[u].pc = "none"
  BY <1>1, <1>2, Lone DEF Running, SafeInv, TypeInv, TaskType
<1>6. ASSUME "recheck" \notin marred' PROVE DownloadInv' /\ CheckInv'
  <2>1. DownloadInv /\ CheckInv
    BY <1>1, <1>6 DEF SafeInv, StoreInv
  <2>2. DownloadInv'
    <3>1. Pending' = {} /\ \A u \in Tasks : task'[u].pc # "body"
      BY <1>2, <1>5 DEF Pending
    <3>2. ~File_opened' /\ (Unbuffered <=> Unbuffered')
      BY <1>1 DEF OnFinish, Unbuffered
    <3> QED
      BY <1>1, <2>1, <3>1, <3>2 DEF DownloadInv, Stored
  <2>3. ASSUME faults' = 0, marred' = {}
        PROVE  ~File_opened' /\ Same(t)' /\ (resets' = 0 => Whole')
    <3>1. n = Chunks + 1 /\ UNCHANGED faults
      <4>1. faults \in Nat
        BY UpdateAssumption DEF SafeInv, TypeInv, CountType
      <4>2. UNCHANGED faults /\ (n > Chunks \/ v = Page)
        BY <1>1, <2>3, <4>1 DEF Fault, NoFault
      <4>3. v # Page
        BY <1>1, <2>1, <2>3, <4>2 DEF CheckInv, Judged
      <4> QED
        BY <1>4, <4>2, <4>3
    <3>2. disk \in Seq(Chunk)
      BY DEF SafeInv, TypeInv, FileType
    <3>3. CASE Writing(t)
      <4>1. disk = Image(v) /\ Len(disk) = Chunks
        BY <1>4, <3>1, <3>2, <3>3, ImagePrefixes DEF Writing
      <4>2. Same(t)' /\ Whole'
        BY <1>1, <1>4, <1>5, <4>1, ImagePrefixes DEF Same, Whole
      <4>3. ~File_opened'
        BY <3>3 DEF OnFinish, Writing
      <4> QED
        BY <4>2, <4>3
    <3>4. CASE Skipping
      <4>1. Same(t) /\ (resets = 0 => Whole) /\ ~File_opened
        BY <1>1, <2>1, <2>3, <3>1, <3>4 DEF CheckInv, Judged, Skipping
      <4>2. Same(t)' /\ (Whole <=> Whole')
        BY <1>1, <1>5, <4>1 DEF Same, Whole
      <4>3. ~File_opened'
        BY <4>1 DEF OnFinish
      <4> QED
        BY <1>1, <4>1, <4>2, <4>3
    <3>5. ~Buffering(t)
      BY <1>4, <3>1 DEF Buffering
    <3> QED
      BY <1>1, <2>1, <3>3, <3>4, <3>5 DEF DownloadInv
  <2>4. CheckInv'
    BY <1>5, <2>3 DEF CheckInv, Judged
  <2> QED
    BY <2>2, <2>4
<1> QED
  BY <1>3, <1>6 DEF StoreInv

\* After an error there is no file, or the one there was.
LEMMA ErrorSafe ==
    ASSUME SafeInv, NEW t \in Tasks, OnError(t) PROVE StoreInv' /\ SentInv'
<1>1. /\ task' = [task EXCEPT ![t].pc = "closing"] /\ task[t].pc \in {"connecting", "body"}
      /\ faults' = faults + 1 /\ disk' \in {disk, NoFile}
      /\ UNCHANGED <<transfer, Buffer_Test, Data_Counter, marred>>
  BY DEF OnError, Fault
<1>2. Running(t)
  BY <1>1 DEF Running
<1>3. SentInv'
  BY <1>1, <1>2, Lone, DownloadSent DEF SafeInv, transfer
<1>4. /\ task'[t].pc = "closing"
      /\ \A u \in Tasks : u # t => task'[u].pc = "none"
  BY <1>1, <1>2, Lone DEF Running, SafeInv, TypeInv, TaskType
<1>5. ASSUME "recheck" \notin marred' PROVE DownloadInv' /\ CheckInv'
  <2>1. DownloadInv
    BY <1>1, <1>5 DEF SafeInv, StoreInv
  <2>2. Pending' = {} /\ \A u \in Tasks : task'[u].pc # "body"
    BY <1>2, <1>4 DEF Pending
  <2>3. Stored' /\ ~File_opened' /\ (Unbuffered => Unbuffered')
    BY <1>1, <2>1 DEF OnError, DownloadInv, Stored, Unbuffered
  <2>4. faults' # 0
    BY <1>1 DEF SafeInv, TypeInv, CountType
  <2> QED
    BY <1>1, <2>1, <2>2, <2>3, <2>4 DEF DownloadInv, CheckInv
<1> QED
  BY <1>3, <1>5 DEF StoreInv

LEMMA EndSafe ==
    ASSUME SafeInv, NEW t \in Tasks, End(t) PROVE StoreInv' /\ SentInv'
<1>1. /\ task' = [task EXCEPT ![t] = Absent] /\ task[t].pc = "closing"
      /\ UNCHANGED <<disk, f, http, transfer, server, checks, resets, faults, marred>>
  BY DEF End
<1>2. SentInv'
  BY <1>1 DEF SafeInv, SentInv, transfer
<1>3. Running(t)
  BY <1>1 DEF Running
<1>4. \A u \in Tasks : task'[u].pc = "none"
  BY <1>1, <1>3, Lone DEF Running, Absent, SafeInv, TypeInv, TaskType
<1>5. ASSUME "recheck" \notin marred' PROVE DownloadInv' /\ CheckInv'
  <2>1. DownloadInv /\ CheckInv
    BY <1>1, <1>5 DEF SafeInv, StoreInv
  <2>2. Stored' /\ (Whole <=> Whole') /\ (Unbuffered <=> Unbuffered')
    BY <1>1, <2>1 DEF Stored, Whole, Unbuffered, DownloadInv, http
  <2>3. ~File_opened
    BY <1>1, <1>3, <2>1, Lone DEF DownloadInv, Running, SafeInv
  <2>4. DownloadInv'
    BY <1>1, <1>4, <2>1, <2>2, <2>3 DEF DownloadInv, Pending, http
  <2>5. CheckInv'
    BY <1>1, <1>4, <2>1, <2>2 DEF CheckInv, Judged, http
  <2> QED
    BY <2>4, <2>5
<1> QED
  BY <1>2, <1>5 DEF StoreInv

\* The handle that the unit task reads from stands where the transfer has come to.
LEMMA UnitTaskSafe ==
    ASSUME SafeInv, HearBanner \/ Connect_To_Unit PROVE StoreInv' /\ SentInv'
<1>1. UNCHANGED downloads /\ marred' \in {marred, marred \cup {"race"}}
  BY DEF HearBanner, Connect_To_Unit, CheckNoUpdate, Claim, OpenFile, SendNext
<1>2. UNCHANGED f \/ boot = "open"
  BY DEF HearBanner, Connect_To_Unit, CheckNoUpdate, Claim, OpenFile, SendNext, SafeInv, SentInv
<1>3. faults' = 0 => UNCHANGED faults
  BY DEF HearBanner, Connect_To_Unit, CheckNoUpdate, Claim, OpenFile, SendNext, Fault, NoFault,
         SafeInv, TypeInv, CountType
<1>4. StoreInv'
  <2>1. ASSUME DownloadInv PROVE DownloadInv'
    <3>1. (Stored <=> Stored') /\ (Unbuffered <=> Unbuffered') /\ (Skipping <=> Skipping')
          /\ \A t \in Tasks : Buffering(t) <=> Buffering(t)'
      BY <1>1 DEF Stored, Unbuffered, Skipping, Buffering, downloads, http
    <3>2. \A t \in Tasks : task[t].pc = "body" => (Writing(t) <=> Writing(t)')
      BY <1>1, <1>2, Lone DEF Writing, Running, SafeInv, downloads, http
    <3> QED
      BY <1>1, <2>1, <3>1, <3>2 DEF DownloadInv, Pending, downloads, http
  <2>2. ASSUME CheckInv PROVE CheckInv'
    BY <1>1, <1>3, <2>2 DEF CheckInv, Judged, Whole, Same, Skipping, downloads, http
  <2> QED
    BY <1>1, <2>1, <2>2 DEF SafeInv, StoreInv, downloads
<1>5. SentInv'
  <2>1. CASE HearBanner \/ CheckNoUpdate \/ Claim
    BY <1>1, <2>1 DEF HearBanner, CheckNoUpdate, Claim, SafeInv, SentInv, downloads
  <2>2. CASE OpenFile
    <3>1. Len(disk) \in Nat /\ Len(<<>>) = 0
      BY LenProperties, EmptySeq DEF SafeInv, TypeInv, FileType
    <3> QED
      BY <1>1, <2>2, <3>1 DEF OpenFile, SafeInv, SentInv, Opened, Null, downloads
  <2>3. CASE SendNext
    <3>1. /\ currentState = "Bootloader_State1" /\ boot = "open"
          /\ f.mode = "r" /\ f.at = Len(sent) /\ Filesize = Len(disk) /\ Len(sent) <= Filesize
          /\ UNCHANGED <<disk, boot, Filesize>>
      BY <1>1, <2>3 DEF SendNext, SafeInv, SentInv, downloads
    <3>2. disk \in Seq(Chunk) /\ sent \in Seq(Chunk) /\ Len(disk) \in Nat /\ Len(sent) \in Nat
      BY LenProperties DEF SafeInv, TypeInv, FileType, TransferType
    <3>3. IsSent(sent, disk)
      <4>1. CASE sent # <<>>
        BY <4>1 DEF SafeInv, SentInv
      <4>2. CASE sent = <<>>
        <5>1. Len(sent) = 0
          BY <4>2, EmptySeq
        <5> QED
          BY <3>2, <5>1 DEF IsSent
      <4> QED
        BY <4>1, <4>2
    <3>4. ASSUME Len(sent) < Len(disk), NEW last,
                 last = Block \/ (Len(sent) + 1 = Len(disk) /\ last = Clipped(Block))
          PROVE  /\ IsSent(Append(sent, last), disk)
                 /\ Len(Append(sent, last)) = Len(sent) + 1
      <4>1. Block = disk[Len(sent) + 1]
        BY <3>1, <3>4 DEF Block
      <4>2. Block \in Chunk
        BY <3>2, <3>4, <4>1, ElementOfSeq
      <4>3. last \in Chunk
        BY <3>4, <4>2, UpdateAssumption DEF Clipped, Chunk
      <4> QED
        BY <3>2, <3>3, <3>4, <4>1, <4>3, SentGrows
    <3>5. CASE /\ Filesize - Len(sent) > 1
               /\ sent' = Append(sent, Block)
               /\ f' = [f EXCEPT !.at = @ + 1]
               /\ UNCHANGED currentState
      <4>1. f' = [mode |-> "r", at |-> Len(sent) + 1]
        BY <3>1, <3>5 DEF SafeInv, TypeInv, FileType
      <4>2. IsSent(sent', disk) /\ Len(sent') = Len(sent) + 1
        BY <3>1, <3>2, <3>4, <3>5
      <4> QED
        BY <3>1, <3>2, <3>5, <4>1, <4>2 DEF SentInv
    <3>6. CASE /\ Filesize - Len(sent) = 1
               /\ \E last \in {Block, Clipped(Block)} : sent' = Append(sent, last)
               /\ currentState' = "Bootloader_State_end"
      <4>1. IsSent(sent', disk) /\ Len(sent') = Len(sent) + 1
        BY <3>1, <3>2, <3>4, <3>6
      <4> QED
        BY <3>1, <3>2, <3>6, <4>1 DEF SentInv
    <3>7. CASE UNCHANGED <<sent, f, currentState>>
      BY <3>1, <3>7 DEF SafeInv, SentInv
    <3> QED
      BY <2>3, <3>5, <3>6, <3>7 DEF SendNext
  <2> QED
    BY <2>1, <2>2, <2>3 DEF Connect_To_Unit
<1> QED
  BY <1>4, <1>5

\* A restart keeps a beginning of the file.
LEMMA EnvironmentSafe ==
    ASSUME SafeInv, Environment PROVE StoreInv' /\ SentInv'
<1>1. CASE UnitAcks \/ Publish
  <2>1. /\ UNCHANGED <<others, resets>> /\ (faults' = 0 => UNCHANGED faults)
    BY <1>1 DEF UnitAcks, Publish, Fault, NoFault, SafeInv, TypeInv, CountType
  <2>2. DownloadInv => DownloadInv'
    BY <2>1 DEF DownloadInv, Stored, Unbuffered, Pending, Writing, Skipping, Buffering, others, http
  <2>3. CheckInv => CheckInv'
    BY <2>1 DEF CheckInv, Judged, Whole, Same, Skipping, others, http
  <2>4. SentInv'
    BY <2>1 DEF SafeInv, SentInv, others
  <2> QED
    BY <2>1, <2>2, <2>3, <2>4 DEF SafeInv, StoreInv, others
<1>2. CASE Reset
  <2>1. \A t \in Tasks : task'[t].pc = "none"
    BY <1>2 DEF Reset, Absent
  <2>2. SentInv'
    BY <1>2 DEF Reset, SentInv
  <2>3. ASSUME Stored PROVE Stored'
    <3>1. CASE disk = NoFile
      BY <1>2, <3>1 DEF Reset, Stored
    <3>2. CASE disk # NoFile
      <4>1. PICK n \in 0..Len(disk) : disk' = SubSeq(disk, 1, n)
        BY <1>2, <3>2 DEF Reset
      <4>2. PICK v \in Bodies : IsPrefix(disk, Image(v))
        BY <2>3, <3>2 DEF Stored
      <4>3. disk \in Seq(Chunk)
        BY DEF SafeInv, TypeInv, FileType
      <4>4. IsPrefix(SubSeq(disk, 1, n), Image(v))
        BY <4>2, <4>3, ImageAt, PrefixCut
      <4> QED
        BY <4>1, <4>4 DEF Stored
    <3> QED
      BY <3>1, <3>2
  <2>4. ASSUME DownloadInv PROVE DownloadInv'
    <3>1. Unbuffered' /\ Stored' /\ ~File_opened'
      BY <1>2, <2>3, <2>4 DEF Reset, Unbuffered, DownloadInv
    <3> QED
      BY <2>1, <3>1 DEF DownloadInv, Pending
  <2>5. ASSUME CheckInv PROVE CheckInv'
    <3>1. resets' # 0
      BY <1>2 DEF Reset, SafeInv, TypeInv, CountType
    <3> QED
      BY <2>1, <3>1 DEF CheckInv, Judged
  <2> QED
    BY <1>2, <2>2, <2>4, <2>5 DEF Reset, SafeInv, StoreInv
<1>3. CASE ErrorPage
  <2>1. /\ faults' = faults + 1
        /\ UNCHANGED <<disk, f, http, flags, transfer, server, checks, resets, marred>>
    BY <1>3 DEF ErrorPage, Fault
  <2>2. PICK t \in Tasks : /\ task[t].pc = "body" /\ task[t].n = 1
                           /\ task' = [task EXCEPT ![t].v = Page]
    BY <1>3 DEF ErrorPage
  <2>3. SentInv'
    BY <2>1 DEF SafeInv, SentInv, transfer
  <2>4. /\ task'[t].pc = "body" /\ task'[t].n = 1 /\ task'[t].v = Page
        /\ \A u \in Tasks : task'[u].pc = task[u].pc /\ (task[u].pc = "body" => u = t)
    BY <2>2, Lone DEF Running, SafeInv, TypeInv, TaskType
  <2>5. ASSUME DownloadInv PROVE DownloadInv'
    <3>1. /\ (Stored <=> Stored') /\ (Unbuffered <=> Unbuffered') /\ (Skipping <=> Skipping')
          /\ Pending' = Pending
      BY <2>1, <2>4 DEF Stored, Unbuffered, Skipping, Pending, http
    <3>2. Writing(t) => Writing(t)'
      <4>1. Page \in Bodies /\ Image(Page) \in Seq(Chunk)
        BY ImageAt DEF Bodies
      <4>2. ASSUME Len(disk) = 0 PROVE disk = <<>>
        BY <4>2, EmptySeq DEF SafeInv, TypeInv, FileType
      <4>3. IsPrefix(<<>>, Image(Page))
        BY <4>1, NothingIsPrefix
      <4> QED
        BY <2>1, <2>2, <2>4, <4>2, <4>3 DEF Writing, http
    <3>3. Buffering(t) => Buffering(t)'
      BY <2>1, <2>2, <2>4 DEF Buffering, http
    <3> QED
      BY <2>1, <2>4, <2>5, <3>1, <3>2, <3>3 DEF DownloadInv, http
  <2>6. CheckInv'
    BY <2>1 DEF CheckInv, SafeInv, TypeInv, CountType
  <2> QED
    BY <2>1, <2>3, <2>5, <2>6 DEF SafeInv, StoreInv
<1> QED
  BY <1>1, <1>2, <1>3 DEF Environment

LEMMA NextSafe ==
    ASSUME SafeInv, [Next]_vars, "race" \notin marred' PROVE SafeInv'
<1>1. TypeInv' /\ ExclInv'
  BY NextType, NextExcl DEF SafeInv
<1>2. ASSUME NEW t \in Tasks, Spawn(t) \/ Unit_Update_task(t) PROVE StoreInv' /\ SentInv'
  BY <1>2, SpawnSafe, StartSafe, ConnectedSafe, DataSafe, FinishSafe, ErrorSafe, EndSafe
     DEF Unit_Update_task
<1>3. CASE HearBanner \/ Connect_To_Unit
  BY <1>1, <1>3, UnitTaskSafe DEF SafeInv
<1>4. CASE Environment
  BY <1>1, <1>4, EnvironmentSafe DEF SafeInv
<1>5. CASE UNCHANGED vars
  <2>1. StoreInv'
    BY <1>5 DEF SafeInv, StoreInv, DownloadInv, Stored, Unbuffered, Pending, Writing, Skipping,
                Buffering, CheckInv, Judged, Whole, Same, vars, http
  <2>2. SentInv'
    BY <1>5 DEF SafeInv, SentInv, vars, transfer
  <2> QED
    BY <1>1, <2>1, <2>2 DEF SafeInv
<1> QED
  BY <1>1, <1>2, <1>3, <1>4, <1>5 DEF SafeInv, Next

LEMMA AlwaysSafe == Spec => []UnlessRace
<1>1. Init => UnlessRace
  BY InitSafe DEF UnlessRace, SafeInv
<1>2. UnlessRace /\ [Next]_vars => UnlessRace'
  BY NextType, NextSafe, MarksStay DEF UnlessRace
<1> QED
  BY <1>1, <1>2, PTL DEF Spec

\* Whatever the server publishes or answers meanwhile, wherever a download breaks off
\* and whenever the power fails: what is stored is the beginning of one answer's body,
\* and what the unit was sent the beginning of what is stored, but for three last
\* bytes, for images of any length, until a check begins after another of the same run
\* has buffered a chunk or two tasks meet at the flags (main.c:319-457,
\* unit_comm.c:638-750).
THEOREM StoredServed == Spec => []StoredIsServed
<1>1. UnlessRace => StoredIsServed
  BY DEF UnlessRace, SafeInv, StoreInv, SentInv, DownloadInv, Stored, StoredIsServed, FileIsServed
<1> QED
  BY AlwaysSafe, <1>1, PTL

\* A check, if nothing fails and nothing was buffered before it, ends with the version
\* that the server had when it answered, whole if no restart cut a file off
\* (main.c:361-457).
THEOREM CheckLeaves == Spec => []CheckStores
<1>1. UnlessRace => CheckStores
  <2> SUFFICES ASSUME UnlessRace, NEW t \in Tasks, task[t].pc = "closing", faults = 0, marred = {}
               PROVE  /\ IsPrefix(disk, Image(task[t].v)) /\ Len(disk) >= 3
                      /\ resets = 0 => disk = Image(task[t].v)
    BY DEF CheckStores
  <2>1. Same(t) /\ (resets = 0 => Whole) /\ disk \in Seq(Chunk)
    BY DEF UnlessRace, SafeInv, StoreInv, CheckInv, Judged, TypeInv, FileType
  <2>2. ASSUME resets = 0 PROVE disk = Image(task[t].v)
    <3>1. disk # NoFile
      <4>1. Len(NoFile) = 1
        BY NoFileAt
      <4>2. Len(disk) \in Nat /\ Len(disk) >= 3
        BY <2>1, LenProperties DEF Same
      <4> QED
        BY <4>1, <4>2
    <3>2. PICK v \in Bodies : disk = Image(v)
      BY <2>1, <2>2, <3>1 DEF Whole
    <3>3. Len(disk) >= Chunks
      BY <3>2, ImageAt, UpdateAssumption
    <3> QED
      BY <2>1, <3>3, ImagePrefixes DEF Same
  <2> QED
    BY <2>1, <2>2 DEF Same
<1> QED
  BY AlwaysSafe, <1>1, PTL
=============================================================================
