--------------------------- MODULE LongWriteProofs ---------------------------
(***************************************************************************)
(* Proofs about LongWrite for every value of its constants that satisfies  *)
(* LongWriteAssumption: the types, and that without a connection broken    *)
(* amid a long write the image is whole and is the one the app wrote last. *)
(* The reason is BufferInv: until then the buffer belongs to the write     *)
(* under way, and its last prepare_len parts are of that write.            *)
(***************************************************************************)
EXTENDS LongWrite, TLAPS

-----------------------------------------------------------------------------
(* The invariants *)

Handles == Others \cup {Eeprom}
LongWrites == [handle : Handles, id : 1..writes, sent : 0..ImageParts]

\* TypeOK, and the room that the parts still to come have below the bound of the length.
Types ==
    /\ prepare_buf \in {NoBuf} \cup [Image -> Junk..MaxWrites]
    /\ prepare_len \in Nat
    /\ prepare_len + (IF long = NoWrite THEN 0 ELSE ImageParts - long.sent)
          <= ImageParts * writes
    /\ prepare_handle \in Handles \cup {"none"}
    /\ gRDEeprom \in [Image -> Junk..MaxWrites]
    /\ connected \in BOOLEAN /\ cut \in BOOLEAN
    /\ long = NoWrite \/ (long \in LongWrites /\ long.sent <= Size(long.handle))
    /\ newest \in 0..writes /\ writes \in 0..MaxWrites /\ faults \in 0..MaxFaults

\* The buffer is that of the write under way.
BufferInv ==
    /\ long = NoWrite => prepare_buf = NoBuf
    /\ prepare_buf # NoBuf =>
          /\ prepare_handle = long.handle
          /\ prepare_len <= long.sent
          /\ \A p \in Image : p \in (long.sent - prepare_len + 1)..long.sent
                                => prepare_buf[p] = long.id
    /\ faults = 0 /\ long # NoWrite =>
          IF prepare_buf = NoBuf THEN long.sent = 0 ELSE prepare_len = long.sent

IInv == Types /\ (~cut => BufferInv /\ Whole /\ ImageIsNewest)

-----------------------------------------------------------------------------
(* Lemmas *)

\* A buffer is never NULL (ble.c:660).
LEMMA BufferIsNotNull ==
    ASSUME NEW f \in [Image -> Junk..MaxWrites]
    PROVE  f # NoBuf
<1>1. 1 \in DOMAIN f
  BY LongWriteAssumption DEF Image
<1>2. DOMAIN NoBuf = {}
  BY DEF NoBuf
<1> QED
  BY <1>1, <1>2

\* A value has at least one part and at most those of an image.
LEMMA SizeBounds ==
    ASSUME NEW h \in Handles
    PROVE  Size(h) \in 1..ImageParts
BY LongWriteAssumption DEF Size, Handles

\* What a long write is.
LEMMA LongFields ==
    ASSUME Types, long # NoWrite
    PROVE  /\ long.handle \in Handles /\ long.id \in 1..writes /\ long.sent \in 0..ImageParts
           /\ long.sent <= Size(long.handle)
           /\ long = [handle |-> long.handle, id |-> long.id, sent |-> long.sent]
BY DEF Types, LongWrites

\* One more write makes room for its parts.
LEMMA MoreRoom ==
    ASSUME NEW n \in Nat
    PROVE  ImageParts * (n + 1) = ImageParts * n + ImageParts /\ ImageParts * n \in Nat
BY LongWriteAssumption

LEMMA InitInv == Init => IInv
<1> SUFFICES ASSUME Init PROVE IInv
  OBVIOUS
<1>1. All(0) \in [Image -> Junk..MaxWrites]
  BY LongWriteAssumption DEF All, Junk
<1>2. Types
  <2>1. ImageParts * writes \in Nat
    BY MoreRoom DEF Init
  <2>2. prepare_len + (IF long = NoWrite THEN 0 ELSE ImageParts - long.sent)
          <= ImageParts * writes
    BY <2>1 DEF Init
  <2>3. gRDEeprom \in [Image -> Junk..MaxWrites] /\ prepare_buf = NoBuf /\ long = NoWrite
    BY <1>1 DEF Init
  <2>4. /\ prepare_len \in Nat /\ prepare_handle = "none"
        /\ newest \in 0..writes /\ writes \in 0..MaxWrites /\ faults \in 0..MaxFaults
    BY LongWriteAssumption DEF Init
  <2>5. connected \in BOOLEAN /\ cut \in BOOLEAN
    BY DEF Init
  <2> QED
    BY <2>2, <2>3, <2>4, <2>5 DEF Types
<1>3. BufferInv
  BY DEF Init, BufferInv
<1>4. Whole /\ ImageIsNewest
  BY LongWriteAssumption DEF Init, Whole, ImageIsNewest
<1> QED
  BY <1>2, <1>3, <1>4 DEF IInv

LEMMA TypesGiveTypeOK == Types => TypeOK
<1> SUFFICES ASSUME Types PROVE TypeOK
  OBVIOUS
<1>1. prepare_len \in 0..(ImageParts * writes)
  <2>1. ImageParts * writes \in Nat
    BY MoreRoom DEF Types
  <2>2. CASE long = NoWrite
    BY <2>1, <2>2 DEF Types
  <2>3. CASE long # NoWrite
    BY <2>1, <2>3, LongFields, LongWriteAssumption DEF Types
  <2> QED
    BY <2>2, <2>3
<1> QED
  BY <1>1 DEF Types, TypeOK, LongWrites, Handles

-----------------------------------------------------------------------------
(* The steps *)

LEMMA BeginsInv ==
    ASSUME IInv, NEW h \in Handles, Begins(h)
    PROVE  IInv'
<1> USE DEF Begins, env
<1>1. long' # NoWrite /\ long'.handle = h /\ long'.sent = 0 /\ long'.id = writes + 1
  BY LongWriteAssumption DEF NoWrite, IInv, Types
<1>2. Types'
  <2>1. (prepare_len + (IF long = NoWrite THEN 0 ELSE ImageParts - long.sent)
          <= ImageParts * writes)'
    BY <1>1, MoreRoom, LongWriteAssumption DEF IInv, Types
  <2>2. long' \in LongWrites' /\ long'.sent <= Size(long'.handle)
    BY <1>1, SizeBounds, LongWriteAssumption DEF LongWrites, IInv, Types
  <2>3. newest' \in 0..writes' /\ writes' \in 0..MaxWrites
    BY LongWriteAssumption DEF IInv, Types
  <2> QED
    BY <2>1, <2>2, <2>3 DEF IInv, Types
<1>3. ASSUME ~cut' PROVE (BufferInv /\ Whole /\ ImageIsNewest)'
  BY <1>1, <1>3 DEF IInv, BufferInv, Whole, ImageIsNewest, Image, All
<1> QED
  BY <1>2, <1>3 DEF IInv

LEMMA ConnectInv ==
    ASSUME IInv, Connect
    PROVE  IInv'
BY DEF Connect, env, bounds, IInv, Types, LongWrites, BufferInv, Whole, ImageIsNewest

LEMMA DisconnectInv ==
    ASSUME IInv, Disconnect
    PROVE  IInv'
<1> USE DEF Disconnect, env, bounds
<1>1. Types'
  <2>1. (prepare_len + (IF long = NoWrite THEN 0 ELSE ImageParts - long.sent)
          <= ImageParts * writes)'
    <3>1. ImageParts * writes \in Nat
      BY MoreRoom DEF IInv, Types
    <3>2. CASE long = NoWrite
      BY <3>1, <3>2 DEF IInv, Types
    <3>3. CASE long # NoWrite
      BY <3>1, <3>3, LongFields, LongWriteAssumption DEF IInv, Types
    <3> QED
      BY <3>2, <3>3
  <2> QED
    BY <2>1 DEF IInv, Types
<1>2. ASSUME ~cut' PROVE (BufferInv /\ Whole /\ ImageIsNewest)'
  BY <1>2 DEF IInv, BufferInv, Whole, ImageIsNewest
<1> QED
  BY <1>1, <1>2 DEF IInv

LEMMA DirectWriteInv ==
    ASSUME IInv, DirectWrite
    PROVE  IInv'
<1> USE DEF DirectWrite, env
<1>1. writes' \in 0..MaxWrites /\ writes' = writes + 1 /\ writes \in Nat
  BY LongWriteAssumption DEF IInv, Types
<1>2. Types'
  <2>1. (prepare_len + (IF long = NoWrite THEN 0 ELSE ImageParts - long.sent)
          <= ImageParts * writes)'
    <3>1. ImageParts * writes' = ImageParts * writes + ImageParts /\ ImageParts * writes \in Nat
      BY <1>1, MoreRoom
    <3>2. CASE long = NoWrite
      BY <3>1, <3>2, LongWriteAssumption DEF IInv, Types
    <3>3. CASE long # NoWrite
      BY <3>1, <3>3, LongFields, LongWriteAssumption DEF IInv, Types
    <3> QED
      BY <3>2, <3>3
  <2>2. gRDEeprom' \in [Image -> Junk..MaxWrites]
    BY <1>1, LongWriteAssumption DEF All, Junk
  <2>3. long' = NoWrite \/ (long' \in LongWrites' /\ long'.sent <= Size(long'.handle))
    BY <1>1 DEF IInv, Types, LongWrites
  <2> QED
    BY <1>1, <2>1, <2>2, <2>3 DEF IInv, Types
<1>3. ASSUME ~cut' PROVE (BufferInv /\ Whole /\ ImageIsNewest)'
  BY <1>1, <1>3 DEF IInv, BufferInv, Whole, ImageIsNewest, All
<1> QED
  BY <1>2, <1>3 DEF IInv

LEMMA PrepareInv ==
    ASSUME IInv, prepare_write_event_env
    PROVE  IInv'
<1> DEFINE s == long.sent
<1>1. /\ long # NoWrite /\ s < Size(long.handle)
      /\ long' = [long EXCEPT !.sent = s + 1]
      /\ FirstPart(s + 1) \/ NextPart(s + 1)
      /\ UNCHANGED <<gRDEeprom, connected, newest, cut, writes>>
  <2>1. long # NoWrite /\ long' = [long EXCEPT !.sent = s + 1]
    BY DEF prepare_write_event_env
  <2>2. long'.sent = s + 1
    BY <2>1, LongFields DEF IInv
  <2> QED
    BY <2>1, <2>2 DEF prepare_write_event_env
<1>2. /\ long.handle \in Handles /\ long.id \in 1..writes /\ s \in 0..ImageParts
      /\ s + 1 \in Image
      /\ long' = [handle |-> long.handle, id |-> long.id, sent |-> s + 1]
  BY <1>1, LongFields, SizeBounds, LongWriteAssumption DEF IInv, Image
<1>3. /\ long' # NoWrite /\ long'.sent = s + 1 /\ long'.id = long.id
      /\ long'.handle = long.handle
  BY <1>2 DEF NoWrite
<1>4. /\ long' \in LongWrites' /\ long'.sent <= Size(long'.handle)
  <2>1. s + 1 \in 0..ImageParts /\ s + 1 <= Size(long.handle)
    BY <1>1, <1>2, SizeBounds DEF Image
  <2> QED
    BY <1>1, <1>2, <1>3, <2>1 DEF LongWrites
<1>5. long.id \in Junk..MaxWrites /\ All(Junk) \in [Image -> Junk..MaxWrites]
  BY <1>2, LongWriteAssumption DEF IInv, Types, All, Junk
<1>6. CASE FirstPart(s + 1) /\ faults' = faults
  <2>1. /\ prepare_buf = NoBuf /\ prepare_handle' = long.handle /\ prepare_len' = 1
        /\ prepare_buf' = [All(Junk) EXCEPT ![s + 1] = long.id]
    BY <1>6 DEF FirstPart, IInv, Types
  <2>2. prepare_buf' \in [Image -> Junk..MaxWrites] /\ prepare_buf'[s + 1] = long.id
    BY <1>2, <1>5, <2>1
  <2>3. prepare_buf' # NoBuf
    BY <2>2, BufferIsNotNull
  <2>4. (prepare_len + (IF long = NoWrite THEN 0 ELSE ImageParts - long.sent)
          <= ImageParts * writes)'
    BY <1>1, <1>2, <1>3, <2>1, LongWriteAssumption DEF IInv, Types
  <2>5. Types'
    BY <1>1, <1>2, <1>4, <1>6, <2>1, <2>2, <2>4 DEF IInv, Types
  <2>6. ASSUME ~cut' PROVE (BufferInv /\ Whole /\ ImageIsNewest)'
    <3>1. BufferInv'
      BY <1>1, <1>2, <1>3, <1>6, <2>1, <2>2, <2>3, <2>6 DEF IInv, BufferInv, Image
    <3>2. (Whole /\ ImageIsNewest)'
      BY <1>1, <1>6, <2>6 DEF IInv, Whole, ImageIsNewest
    <3> QED
      BY <3>1, <3>2
  <2> QED
    BY <2>5, <2>6 DEF IInv
<1>7. CASE FirstPart(s + 1) /\ faults' # faults
  <2>1. /\ prepare_buf = NoBuf /\ prepare_buf' = NoBuf /\ prepare_handle' = long.handle
        /\ prepare_len' = 0 /\ faults' = faults + 1 /\ faults' \in 1..MaxFaults
    BY <1>7, LongWriteAssumption DEF FirstPart, IInv, Types
  <2>2. (prepare_len + (IF long = NoWrite THEN 0 ELSE ImageParts - long.sent)
          <= ImageParts * writes)'
    BY <1>1, <1>2, <1>3, <2>1, LongWriteAssumption DEF IInv, Types
  <2>3. Types'
    BY <1>1, <1>2, <1>4, <2>1, <2>2 DEF IInv, Types
  <2>4. ASSUME ~cut' PROVE (BufferInv /\ Whole /\ ImageIsNewest)'
    BY <1>1, <1>3, <2>1, <2>4 DEF IInv, BufferInv, Whole, ImageIsNewest
  <2> QED
    BY <2>3, <2>4 DEF IInv
<1>8. CASE NextPart(s + 1)
  <2>1. /\ prepare_buf # NoBuf /\ prepare_buf \in [Image -> Junk..MaxWrites]
        /\ prepare_buf' = [prepare_buf EXCEPT ![s + 1] = long.id]
        /\ prepare_len' = prepare_len + 1 /\ UNCHANGED <<prepare_handle, faults>>
    BY <1>8 DEF NextPart, IInv, Types
  <2>2. /\ prepare_buf' \in [Image -> Junk..MaxWrites] /\ prepare_buf'[s + 1] = long.id
        /\ \A p \in Image : p # s + 1 => prepare_buf'[p] = prepare_buf[p]
    BY <1>2, <1>5, <2>1
  <2>3. prepare_buf' # NoBuf
    BY <2>2, BufferIsNotNull
  <2>4. (prepare_len + (IF long = NoWrite THEN 0 ELSE ImageParts - long.sent)
          <= ImageParts * writes)'
    BY <1>1, <1>2, <1>3, <2>1, MoreRoom, LongWriteAssumption DEF IInv, Types
  <2>5. Types'
    BY <1>1, <1>2, <1>4, <2>1, <2>2, <2>4 DEF IInv, Types
  <2>6. ASSUME ~cut' PROVE (BufferInv /\ Whole /\ ImageIsNewest)'
    <3>1. BufferInv
      BY <1>1, <2>6 DEF IInv
    <3>2. ASSUME NEW p \in Image, p \in (s + 2 - prepare_len')..(s + 1)
          PROVE  prepare_buf'[p] = long.id
      <4>1. CASE p = s + 1
        BY <2>2, <4>1
      <4>2. CASE p # s + 1
        <5>1. p \in (s - prepare_len + 1)..s
          BY <1>2, <2>1, <3>2, <4>2 DEF IInv, Types, Image
        <5> QED
          BY <5>1, <2>1, <2>2, <3>1, <4>2 DEF BufferInv
      <4> QED
        BY <4>1, <4>2
    <3>3. prepare_len <= s /\ prepare_handle = long.handle /\ (faults = 0 => prepare_len = s)
      BY <1>1, <2>1, <3>1 DEF BufferInv
    <3>4. prepare_len' <= s + 1 /\ (faults' = 0 => prepare_len' = s + 1)
      BY <1>2, <2>1, <3>3 DEF IInv, Types
    <3>5. BufferInv'
      <4>1. (long # NoWrite /\ prepare_buf # NoBuf)'
        BY <1>3, <2>3
      <4>2. \A p \in Image : p \in (long'.sent - prepare_len' + 1)..long'.sent
                                => prepare_buf'[p] = long'.id
        <5> SUFFICES ASSUME NEW p \in Image, p \in (long'.sent - prepare_len' + 1)..long'.sent
                     PROVE  prepare_buf'[p] = long'.id
          OBVIOUS
        <5>1. s \in Nat /\ prepare_len' \in Nat /\ long'.sent = s + 1
          BY <1>2, <1>3, <2>1, LongWriteAssumption DEF IInv, Types
        <5> QED
          BY <1>3, <3>2, <5>1
      <4> QED
        BY <1>3, <2>1, <3>3, <3>4, <4>1, <4>2 DEF BufferInv, Image
    <3>6. (Whole /\ ImageIsNewest)'
      BY <1>1, <2>1, <2>6 DEF IInv, Whole, ImageIsNewest
    <3> QED
      BY <3>5, <3>6
  <2> QED
    BY <2>5, <2>6 DEF IInv
<1> QED
  BY <1>1, <1>6, <1>7, <1>8

LEMMA FreedTypes ==
    ASSUME IInv, long # NoWrite, long' = NoWrite, FreeBuf,
           gRDEeprom' \in [Image -> Junk..MaxWrites], newest' \in 0..writes,
           UNCHANGED <<connected, cut, writes, faults>>
    PROVE  Types' /\ BufferInv'
<1>1. (prepare_len + (IF long = NoWrite THEN 0 ELSE ImageParts - long.sent)
          <= ImageParts * writes)'
  <2>1. ImageParts * writes \in Nat
    BY MoreRoom DEF IInv, Types
  <2> QED
    BY <2>1 DEF FreeBuf
<1> QED
  BY <1>1 DEF FreeBuf, IInv, Types, BufferInv

LEMMA ExecuteInv ==
    ASSUME IInv, Execute
    PROVE  IInv'
<1>1. /\ long # NoWrite /\ long.sent = Size(long.handle) /\ long' = NoWrite
      /\ newest' = IF long.handle = Eeprom THEN long.id ELSE newest
      /\ Apply /\ FreeBuf /\ UNCHANGED <<connected, cut, writes, faults>>
  BY DEF Execute, bounds
<1>2. /\ long.handle \in Handles /\ long.id \in 1..writes /\ long.sent \in 1..ImageParts
  BY <1>1, LongFields, SizeBounds DEF IInv
<1>3. gRDEeprom' \in [Image -> Junk..MaxWrites] /\ newest' \in 0..writes
  BY <1>1, <1>2 DEF Apply, IInv, Types
<1>4. Types' /\ BufferInv'
  BY <1>1, <1>3, FreedTypes
<1>5. ASSUME ~cut' PROVE (Whole /\ ImageIsNewest)'
  <2>1. BufferInv /\ Whole /\ ImageIsNewest /\ prepare_len \in Nat
    BY <1>1, <1>5 DEF IInv, Types
  <2>2. CASE prepare_buf # NoBuf /\ prepare_handle = Eeprom /\ prepare_len >= ImageParts
    <3>1. gRDEeprom' = prepare_buf /\ long.handle = Eeprom /\ newest' = long.id
      BY <1>1, <2>1, <2>2 DEF Apply, BufferInv
    <3>2. prepare_len = ImageParts /\ long.sent = ImageParts
      BY <1>2, <2>1, <2>2, LongWriteAssumption DEF BufferInv
    <3>3. \A p \in Image : p \in (long.sent - prepare_len + 1)..long.sent
      BY <3>2, LongWriteAssumption DEF Image
    <3>4. \A p \in Image : prepare_buf[p] = long.id
      BY <2>1, <2>2, <3>3 DEF BufferInv
    <3>5. gRDEeprom' = All(long.id)
      BY <1>3, <3>1, <3>4 DEF All
    <3>6. long.id \in 0..MaxWrites
      BY <1>2, LongWriteAssumption DEF IInv, Types
    <3> QED
      BY <3>1, <3>5, <3>6 DEF Whole, ImageIsNewest, All
  <2>3. CASE ~(prepare_buf # NoBuf /\ prepare_handle = Eeprom /\ prepare_len >= ImageParts)
    <3>1. gRDEeprom' = gRDEeprom
      BY <1>1, <2>3 DEF Apply
    <3>2. ASSUME faults = 0 PROVE long.handle # Eeprom
      <4>1. prepare_buf # NoBuf /\ prepare_handle = long.handle /\ prepare_len = long.sent
        BY <1>1, <1>2, <2>1, <3>2 DEF BufferInv
      <4> QED
        BY <1>1, <2>1, <2>3, <4>1, LongWriteAssumption DEF Size
    <3> QED
      BY <1>1, <2>1, <3>1, <3>2 DEF Whole, ImageIsNewest, All
  <2> QED
    BY <2>2, <2>3
<1> QED
  BY <1>4, <1>5 DEF IInv

LEMMA CancelInv ==
    ASSUME IInv, Cancel
    PROVE  IInv'
<1>1. /\ long # NoWrite /\ long' = NoWrite /\ FreeBuf
      /\ UNCHANGED <<gRDEeprom, connected, newest, cut, writes, faults>>
  BY DEF Cancel, bounds
<1>2. Types' /\ BufferInv'
  BY <1>1, FreedTypes DEF IInv, Types
<1>3. ASSUME ~cut' PROVE (Whole /\ ImageIsNewest)'
  BY <1>1, <1>3 DEF IInv, Whole, ImageIsNewest
<1> QED
  BY <1>2, <1>3 DEF IInv

LEMMA NextInv == IInv /\ [Next]_vars => IInv'
<1> SUFFICES ASSUME IInv, [Next]_vars PROVE IInv'
  OBVIOUS
<1>1. CASE Next
  BY <1>1, ConnectInv, DisconnectInv, DirectWriteInv, BeginsInv, PrepareInv, ExecuteInv,
     CancelInv DEF Next, Handles
<1>2. CASE UNCHANGED vars
  BY <1>2 DEF vars, env, bounds, IInv, Types, LongWrites, BufferInv, Whole, ImageIsNewest
<1> QED
  BY <1>1, <1>2

-----------------------------------------------------------------------------
(* The theorems *)

LEMMA Inv == Spec => []IInv
BY InitInv, NextInv, PTL DEF Spec

\* Type correctness, with the length of the collected parts below what the app sent.
THEOREM TypeCorrect == Spec => []TypeOK
<1>1. IInv => TypeOK
  BY TypesGiveTypeOK DEF IInv
<1> QED
  BY <1>1, Inv, PTL

\* Without a connection broken amid a long write the image is never made of two writes,
\* whatever allocations fail (ble.c:658-727).
THEOREM WholeImage == Spec => []ImageIsWhole
<1>1. IInv => ImageIsWhole
  BY DEF IInv, ImageIsWhole
<1> QED
  BY <1>1, Inv, PTL

\* Without such a break and without a failed allocation the image is the one that the
\* app wrote last (README.md:141).
THEOREM NewestImage == Spec => []ImageIsNewestUncut
<1>1. IInv => ImageIsNewestUncut
  BY DEF IInv, ImageIsNewestUncut
<1> QED
  BY <1>1, Inv, PTL
=============================================================================
