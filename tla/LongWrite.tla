------------------------------ MODULE LongWrite ------------------------------
(***************************************************************************)
(* Writes of the EEPROM characteristic over Bluetooth (src/ble.c): in one  *)
(* piece, or as a long write, whose parts prepare_write_event_env collects *)
(* in a buffer until exec_write_event_env applies or drops them.  There is *)
(* one buffer for all characteristics and all connections.                 *)
(*                                                                         *)
(* The app sends the parts of one value in order and executes or cancels   *)
(* the write; the connection may break at any time, of which the buffer is *)
(* told nothing.  Callbacks run one after another.  What the unit task and *)
(* the request bits do with the image is in EepromSync.                    *)
(***************************************************************************)
EXTENDS Integers

CONSTANTS
    ImageParts,   \* parts of an image in a long write; fewer are too short
    Others,       \* other characteristics that are written so
    OtherParts,   \* parts of their values
    MaxWrites,    \* bound on the app's writes
    MaxFaults     \* bound on failing allocations

Eeprom == "eeprom"

ASSUME LongWriteAssumption ==
    /\ {ImageParts, OtherParts} \subseteq Nat \ {0} /\ OtherParts <= ImageParts
    /\ {Eeprom, "none"} \cap Others = {}
    /\ {MaxWrites, MaxFaults} \subseteq Nat

VARIABLES
    prepare_buf, prepare_len, prepare_handle,   \* prepare_write_env
    gRDEeprom,      \* per part, the write it is from; 0 is the unit's
    connected,
    long,           \* the long write under way: its handle, its number, the parts sent
    newest,         \* history: the write of the image that the app completed last
    cut,            \* history: a connection broke amid a long write
    writes, faults

env == <<prepare_buf, prepare_len, prepare_handle>>
bounds == <<writes, faults>>
vars == <<env, gRDEeprom, connected, long, newest, cut, bounds>>

-----------------------------------------------------------------------------
Image == 1..ImageParts
Junk == -1                            \* what malloc left in the buffer
NoBuf == <<>>                         \* NULL
All(w) == [p \in Image |-> w]
NoWrite == [handle |-> "none", id |-> 0, sent |-> 0]
Size(h) == IF h = Eeprom THEN ImageParts ELSE OtherParts

Init ==
    /\ prepare_buf = NoBuf /\ prepare_len = 0 /\ prepare_handle = "none"
    /\ gRDEeprom = All(0) /\ newest = 0
    /\ connected = FALSE /\ long = NoWrite /\ cut = FALSE
    /\ writes = 0 /\ faults = 0

-----------------------------------------------------------------------------
(* The app *)

Connect ==
    /\ ~connected /\ connected' = TRUE
    /\ UNCHANGED <<env, gRDEeprom, long, newest, cut, bounds>>

Begins(h) ==
    /\ connected /\ long = NoWrite
    /\ writes < MaxWrites /\ writes' = writes + 1
    /\ long' = [handle |-> h, id |-> writes', sent |-> 0]
    /\ UNCHANGED <<env, gRDEeprom, connected, newest, cut, faults>>

-----------------------------------------------------------------------------
(* The events *)

\* ESP_GATTS_DISCONNECT_EVT
Disconnect ==
    /\ connected /\ connected' = FALSE
    /\ long' = NoWrite
    /\ cut' = (cut \/ prepare_buf # NoBuf)
    /\ UNCHANGED <<env, gRDEeprom, newest, bounds>>

\* handle_write_event: the image in one piece.
DirectWrite ==
    /\ connected
    /\ writes < MaxWrites /\ writes' = writes + 1
    /\ gRDEeprom' = All(writes') /\ newest' = writes'
    /\ UNCHANGED <<env, connected, long, cut, faults>>

\* The first part allocates the buffer and tells whose it is.  The stack answers the
\* app by itself, so that the app does not learn of a failure.
FirstPart(at) ==
    /\ prepare_buf = NoBuf
    /\ prepare_handle' = long.handle
    /\ \/ /\ prepare_buf' = [All(Junk) EXCEPT ![at] = long.id]
          /\ prepare_len' = 1
          /\ UNCHANGED faults
       \/ /\ faults < MaxFaults /\ faults' = faults + 1
          /\ prepare_len' = 0
          /\ UNCHANGED prepare_buf

\* Mutant: the end of the part is added instead of its length.
NextPartEnd(at) ==
    /\ prepare_buf # NoBuf
    /\ prepare_buf' = [prepare_buf EXCEPT ![at] = long.id]
    /\ prepare_len' = prepare_len + at
    /\ UNCHANGED <<prepare_handle, faults>>

NextPart(at) ==
    /\ prepare_buf # NoBuf
    /\ prepare_buf' = [prepare_buf EXCEPT ![at] = long.id]
    /\ prepare_len' = prepare_len + 1
    /\ UNCHANGED <<prepare_handle, faults>>

prepare_write_event_env ==
    /\ long # NoWrite /\ long.sent < Size(long.handle)
    /\ long' = [long EXCEPT !.sent = @ + 1]
    /\ FirstPart(long'.sent) \/ NextPart(long'.sent)
    /\ UNCHANGED <<gRDEeprom, connected, newest, cut, writes>>

\* Mutant: the buffer stays for the next write.
KeepBuf == UNCHANGED env

FreeBuf == prepare_buf' = NoBuf /\ prepare_len' = 0 /\ prepare_handle' = "none"

\* Mutant: whatever came is taken for a whole image.
ApplyAny ==
    IF prepare_buf # NoBuf /\ prepare_handle = Eeprom
    THEN gRDEeprom' = prepare_buf ELSE UNCHANGED gRDEeprom

\* ble_apply_eeprom_payload, when the length is an image's.
Apply ==
    IF prepare_buf # NoBuf /\ prepare_handle = Eeprom /\ prepare_len >= ImageParts
    THEN gRDEeprom' = prepare_buf ELSE UNCHANGED gRDEeprom

Execute ==
    /\ long # NoWrite /\ long.sent = Size(long.handle) /\ long' = NoWrite
    /\ newest' = IF long.handle = Eeprom THEN long.id ELSE newest
    /\ Apply /\ FreeBuf
    /\ UNCHANGED <<connected, cut, bounds>>

Cancel ==
    /\ long # NoWrite /\ long' = NoWrite
    /\ FreeBuf
    /\ UNCHANGED <<gRDEeprom, connected, newest, cut, bounds>>

Next ==
    \/ Connect \/ Disconnect \/ DirectWrite
    \/ \E h \in Others \cup {Eeprom} : Begins(h)
    \/ prepare_write_event_env \/ Execute \/ Cancel

Spec == Init /\ [][Next]_vars

-----------------------------------------------------------------------------
(* Properties *)

\* Type correctness.  The length is counted with what broken connections left in the
\* buffer, yet never exceeds what the app sent (ble.c:699).
TypeOK ==
    /\ prepare_buf \in {NoBuf} \cup [Image -> Junk..MaxWrites]
    /\ prepare_len \in 0..(ImageParts * writes)
    /\ prepare_handle \in Others \cup {Eeprom, "none"}
    /\ gRDEeprom \in [Image -> Junk..MaxWrites]
    /\ connected \in BOOLEAN /\ cut \in BOOLEAN
    /\ \/ long = NoWrite
       \/ long \in [handle : Others \cup {Eeprom}, id : 1..writes, sent : 0..ImageParts]
    /\ newest \in 0..writes /\ writes \in 0..MaxWrites /\ faults \in 0..MaxFaults

\* The image is never made of two writes, nor of what was in the buffer before, unless
\* a connection broke amid a long write (ble.c:658-727).
Whole == \E w \in 0..MaxWrites : gRDEeprom = All(w)
ImageIsWhole == ~cut => Whole

\* README.md:141 promises that a long write is applied: the image is what the app wrote
\* last, whatever was begun, cancelled or cut before.
ImageIsNewest == faults = 0 => gRDEeprom = All(newest)
ImageIsNewestUncut == ~cut => ImageIsNewest
=============================================================================
