------------------------------- MODULE UartRx -------------------------------
(***************************************************************************)
(* How an answer of the unit gets from the line to the unit task: the UART *)
(* driver's ring buffer and event queue, uart_event_task and its cache of  *)
(* one event (src/Uart1.c), and Read_Message, which claims the cache at    *)
(* one call and copies it at the next (src/WBM_Serial.c).  The two tasks   *)
(* run on two cores and share s_rx_available and s_rx_cache without a      *)
(* lock.                                                                   *)
(*                                                                         *)
(* A byte is known by its frame and its place; a frame is accepted when    *)
(* it was copied whole, which is what header, length and checksum say.     *)
(* Two texts are accepted too, wherever they stand in what was copied;     *)
(* they are left to UnitLink.  The unit answers what it is asked, one      *)
(* question after the other; the unit task asks when an answer was         *)
(* accepted, and, once connected, also when something else was read: then  *)
(* pieces of an answer, and whole answers, may still be under way.         *)
(***************************************************************************)
EXTENDS Integers, Sequences

CONSTANTS
    UART1_RX_CACHE_SIZE,
    RX_BUFFER_SIZE,
    Lengths,      \* of frames; bursts of noise are frames that may be longer
    MaxFrames,    \* bound on the answers
    MaxFaults     \* bound on the answers cut in pieces and the overflows

ASSUME UartAssumption ==
    /\ {UART1_RX_CACHE_SIZE, RX_BUFFER_SIZE} \subseteq Nat \ {0}
    /\ UART1_RX_CACHE_SIZE <= RX_BUFFER_SIZE   \* both are 128
    /\ Lengths \subseteq Nat \ {0} /\ {MaxFrames, MaxFaults} \subseteq Nat

VARIABLES
    wire,                    \* what is still to come of the frame being sent
    ring, Uart1_Queue,       \* the driver's bytes and events
    rx, dtmp,                \* uart_event_task: where it is, what it read
    s_rx_available, s_rx_cache,
    WBM_Com_State,
    Eeprom_Data_received,    \* a question is not answered; in the handshake, the state waits
    rd, taken,               \* Read_Message: where it is, what Uart1_RxClaim will return
    s_rx_claim_len, s_rx_claim_pos,
    rx_buf_tail, left, buff_ser1,   \* its count, what is still to be copied, the copy
    owed,                    \* the questions the unit has still to answer
    sent, got,               \* history: the answers sent, and those accepted
    slipped,                 \* history: the ring keeps bytes whose event was dropped
    spoilt,                  \* history: an answer was cut or overrun, or the ring slipped
    harmed,                  \* history: the answers that need not be taken
    faults

driver == <<wire, ring, Uart1_Queue>>
cache == <<s_rx_available, s_rx_cache>>
receiver == <<rx, dtmp>>
asking == <<WBM_Com_State, Eeprom_Data_received, owed>>
claim == <<s_rx_claim_len, s_rx_claim_pos>>
reader == <<rd, taken, claim, rx_buf_tail, left, buff_ser1>>
line == <<slipped, spoilt, harmed, faults>>
vars == <<driver, receiver, cache, asking, reader, sent, got, line>>

-----------------------------------------------------------------------------
Zero == [frame |-> 0, at |-> 0, of |-> 0]
Frame(n, len) == [i \in 1..len |-> [frame |-> n, at |-> i, of |-> len]]
Zeros == [i \in 1..UART1_RX_CACHE_SIZE |-> Zero]
FramesOf(s) == {s[i].frame : i \in 1..Len(s)} \ {0}
Take(s, k) == SubSeq(s, 1, k)
Drop(s, k) == SubSeq(s, k + 1, Len(s))
Uncut(k) == k   \* a mutant of AtMostCache
AtMostCache(k) == IF k > UART1_RX_CACHE_SIZE THEN UART1_RX_CACHE_SIZE ELSE k

Overflowed == 0   \* the event UART_FIFO_OVF; another event is its count of bytes

Init ==
    /\ wire = <<>> /\ ring = <<>> /\ Uart1_Queue = <<>>
    /\ rx = "wait" /\ dtmp = <<>>
    /\ s_rx_available = 0 /\ s_rx_cache = Zeros
    /\ rd = "delay" /\ taken = 0
    /\ s_rx_claim_len = 0 /\ s_rx_claim_pos = 0
    /\ rx_buf_tail = 0 /\ left = 0 /\ buff_ser1 = <<>>
    /\ WBM_Com_State = "WBM_Communicating" /\ Eeprom_Data_received = FALSE /\ owed = 0
    /\ sent = 0 /\ got = <<>>
    /\ slipped = FALSE /\ spoilt = FALSE /\ harmed = {} /\ faults = 0

-----------------------------------------------------------------------------
(* The questions, and the unit *)

Claimed == s_rx_claim_len - s_rx_claim_pos

\* An event that fills the cache is claimed and never taken: its count is the one at
\* which Read_Message counts from 0 again.
Deaf == Claimed = RX_BUFFER_SIZE

\* uart_read_bytes would wait for bytes that were flushed.
Starved == Uart1_Queue # <<>> /\ Len(ring) < Head(Uart1_Queue)

\* The next question of the handshake, or of the timers and the dispatcher.
Ask ==
    /\ rd = "delay" /\ ~Eeprom_Data_received /\ sent + owed < MaxFrames
    /\ Eeprom_Data_received' = TRUE /\ owed' = owed + 1
    /\ UNCHANGED <<driver, receiver, cache, WBM_Com_State, reader, sent, got, line>>

\* The search: nothing was accepted in TimeoutMilliseconds, in which all that came was
\* read; a unit that has not answered by then does not.
AskAgain ==
    /\ WBM_Com_State = "WBM_Communicating" /\ Eeprom_Data_received /\ got = <<>> /\ sent < MaxFrames
    /\ wire = <<>> /\ Uart1_Queue = <<>> /\ rx = "wait" /\ rd = "delay"
    /\ Deaf \/ (s_rx_available = 0 /\ Claimed = 0)
    /\ owed' = 1
    /\ spoilt' = (spoilt /\ ring # <<>>)
    /\ UNCHANGED <<driver, receiver, cache, WBM_Com_State, Eeprom_Data_received, reader, sent, got,
                   slipped, harmed, faults>>

\* The last section was read.
Connected ==
    /\ rd = "delay" /\ WBM_Com_State = "WBM_Communicating" /\ got # <<>> /\ ~Eeprom_Data_received
    /\ WBM_Com_State' = "WBM_Connected"
    /\ UNCHANGED <<driver, receiver, cache, Eeprom_Data_received, owed, reader, sent, got, line>>

UnitAnswers(len) ==
    /\ owed > 0 /\ wire = <<>>
    /\ owed' = owed - 1 /\ sent' = sent + 1
    /\ wire' = Frame(sent', len)
    /\ UNCHANGED <<ring, Uart1_Queue, receiver, cache, WBM_Com_State, Eeprom_Data_received, reader, got, line>>

-----------------------------------------------------------------------------
(* The driver *)

Harm == /\ faults < MaxFaults /\ faults' = faults + 1
        /\ spoilt' = TRUE
        /\ harmed' = harmed \cup {sent}

\* The driver's interrupt: an event for what has come, the whole frame as a rule.
Isr(k) ==
    /\ k \in 1..Len(wire)
    /\ wire' = Drop(wire, k)
    /\ ring' = ring \o Take(wire, k)
    /\ Uart1_Queue' = Append(Uart1_Queue, k)
    /\ IF k < Len(wire) THEN Harm
       ELSE /\ harmed' = IF slipped THEN harmed \cup {sent} ELSE harmed
            /\ UNCHANGED <<spoilt, faults>>
    /\ UNCHANGED <<receiver, cache, asking, reader, sent, got, slipped>>

\* The interrupt is late, k bytes are lost, and the event says so.
IsrOverflow(k) ==
    /\ k \in 1..Len(wire) /\ Harm
    /\ wire' = Drop(wire, k)
    /\ Uart1_Queue' = Append(Uart1_Queue, Overflowed)
    /\ UNCHANGED <<ring, receiver, cache, asking, reader, sent, got, slipped>>

-----------------------------------------------------------------------------
(* uart_event_task *)

\* UART_DATA: the count is published before the bytes are.  What the cache still held
\* for the reader is lost, and so is an event whose count Uart1_RxClaim will set to 0.
Data ==
    /\ rx = "wait" /\ Uart1_Queue # <<>> /\ Head(Uart1_Queue) # Overflowed
    /\ LET size == Head(Uart1_Queue)
       IN  /\ Len(ring) >= size
           /\ dtmp' = Take(ring, AtMostCache(size)) /\ ring' = Drop(ring, size)
           /\ s_rx_available' = AtMostCache(size)
    /\ Uart1_Queue' = Tail(Uart1_Queue)
    /\ rx' = "clear"
    /\ harmed' = harmed \cup (IF s_rx_available # 0 \/ Claimed # 0 THEN FramesOf(s_rx_cache) ELSE {})
                      \cup (IF rd = "claim" THEN FramesOf(dtmp') ELSE {})
    /\ UNCHANGED <<wire, s_rx_cache, asking, reader, sent, got, slipped, spoilt, faults>>

Clear ==
    /\ rx = "clear" /\ rx' = "copy"
    /\ s_rx_cache' = Zeros
    /\ UNCHANGED <<driver, dtmp, s_rx_available, asking, reader, sent, got, line>>

Copy ==
    /\ rx = "copy" /\ rx' = "wait"
    /\ s_rx_cache' = [i \in 1..UART1_RX_CACHE_SIZE |-> IF i <= Len(dtmp) THEN dtmp[i] ELSE s_rx_cache[i]]
    /\ dtmp' = <<>>
    /\ UNCHANGED <<driver, s_rx_available, asking, reader, sent, got, line>>

\* UART_FIFO_OVF, UART_BUFFER_FULL: what an interrupt adds between the two calls
\* stays in the ring without an event.
FlushInput ==
    /\ rx = "wait" /\ Uart1_Queue # <<>> /\ Head(Uart1_Queue) = Overflowed
    /\ rx' = "reset"
    /\ Uart1_Queue' = Tail(Uart1_Queue) /\ ring' = <<>>
    /\ harmed' = harmed \cup FramesOf(ring)
    /\ UNCHANGED <<wire, dtmp, cache, asking, reader, sent, got, slipped, spoilt, faults>>

\* A mutant of QueueReset: the events stay.
QueueKept ==
    /\ rx = "reset" /\ rx' = "wait"
    /\ UNCHANGED <<driver, dtmp, cache, asking, reader, sent, got, line>>

QueueReset ==
    /\ rx = "reset" /\ rx' = "wait"
    /\ Uart1_Queue' = <<>>
    /\ slipped' = (ring # <<>>) /\ spoilt' = (spoilt \/ ring # <<>>)
    /\ harmed' = harmed \cup FramesOf(ring)
    /\ UNCHANGED <<wire, ring, dtmp, cache, asking, reader, sent, got, faults>>

uart_event_task == Data \/ Clear \/ Copy \/ FlushInput \/ QueueReset

-----------------------------------------------------------------------------
(* Read_Message *)

\* Between two calls the unit task sleeps for a tick, and in a tick uart_event_task
\* (priority 12, the unit task has 2) ends the write it was at.
vTaskDelay ==
    /\ rd = "delay" /\ rx # "clear" /\ rx # "copy"
    /\ WBM_Com_State = "WBM_Connected" \/ Eeprom_Data_received   \* the handshake asks, then reads
    /\ rd' = "poll"
    /\ UNCHANGED <<driver, receiver, cache, asking, taken, claim, rx_buf_tail, left, buff_ser1, sent, got, line>>

\* Nothing is claimed and nothing has come: BUFFER_RX_EMPY.
Nothing ==
    /\ rd = "poll" /\ Claimed = 0 /\ s_rx_available = 0
    /\ rd' = "delay"
    /\ UNCHANGED <<driver, receiver, cache, asking, taken, claim, rx_buf_tail, left, buff_ser1, sent, got, line>>

\* Uart1_RxClaim reads the count ...
RxClaim ==
    /\ rd = "poll" /\ Claimed = 0 /\ s_rx_available # 0
    /\ rd' = "claim" /\ taken' = s_rx_available
    /\ UNCHANGED <<driver, receiver, cache, asking, claim, rx_buf_tail, left, buff_ser1, sent, got, line>>

\* A mutant of RxClaimed: the count stays.
RxCopied ==
    /\ rd = "claim" /\ rd' = "delay"
    /\ s_rx_claim_len' = taken /\ s_rx_claim_pos' = 0 /\ rx_buf_tail' = taken /\ taken' = 0
    /\ UNCHANGED <<driver, receiver, cache, asking, left, buff_ser1, sent, got, line>>

\* ... and sets it to 0, then Read_Message returns to be called again.
RxClaimed ==
    /\ rd = "claim" /\ rd' = "delay"
    /\ s_rx_available' = 0
    /\ s_rx_claim_len' = taken /\ s_rx_claim_pos' = 0 /\ rx_buf_tail' = taken /\ taken' = 0
    /\ UNCHANGED <<driver, receiver, s_rx_cache, asking, left, buff_ser1, sent, got, line>>

\* The count is not the one seen before: more bytes may come.
Wait ==
    /\ rd = "poll" /\ Claimed > 0 /\ Claimed # rx_buf_tail
    /\ rx_buf_tail' = Claimed
    /\ rd' = "delay"
    /\ UNCHANGED <<driver, receiver, cache, asking, taken, claim, left, buff_ser1, sent, got, line>>

Download ==
    /\ rd = "poll" /\ Claimed > 0 /\ Claimed = rx_buf_tail
    /\ left' = rx_buf_tail % RX_BUFFER_SIZE
    /\ rx_buf_tail' = 0 /\ buff_ser1' = <<>>
    /\ rd' = "read"
    /\ UNCHANGED <<driver, receiver, cache, asking, taken, claim, sent, got, line>>

\* Serial_read, from a cache that uart_event_task may be writing.
ReadByte ==
    /\ rd = "read" /\ left > 0
    /\ left' = left - 1
    /\ buff_ser1' = Append(buff_ser1, s_rx_cache[s_rx_claim_pos + 1])
    /\ \/ /\ s_rx_claim_pos + 1 < s_rx_claim_len
          /\ s_rx_claim_pos' = s_rx_claim_pos + 1 /\ UNCHANGED s_rx_claim_len
       \/ /\ s_rx_claim_pos + 1 >= s_rx_claim_len
          /\ s_rx_claim_pos' = 0 /\ s_rx_claim_len' = 0
    /\ UNCHANGED <<driver, receiver, cache, asking, rd, taken, rx_buf_tail, sent, got, line>>

\* Header, length and checksum.
Whole(buf) == buf # <<>> /\ buf = Frame(buf[1].frame, Len(buf))

\* The handshake waits on after anything else; the connected task does not, though an
\* answer may be under way.
Judge ==
    /\ rd = "read" /\ left = 0 /\ rd' = "delay"
    /\ IF Whole(buff_ser1)
       THEN got' = Append(got, buff_ser1[1].frame) /\ Eeprom_Data_received' = FALSE
       ELSE /\ got' = got
            /\ Eeprom_Data_received' = (WBM_Com_State # "WBM_Connected" /\ Eeprom_Data_received)
    /\ buff_ser1' = <<>>
    /\ UNCHANGED <<driver, receiver, cache, WBM_Com_State, owed, taken, claim, rx_buf_tail, left, sent, line>>

Read_Message == vTaskDelay \/ Nothing \/ RxClaim \/ RxClaimed \/ Wait \/ Download \/ ReadByte \/ Judge

Unit_event_task == Ask \/ AskAgain \/ Connected \/ Read_Message

Next ==
    \/ \E len \in Lengths : UnitAnswers(len)
    \/ \E k \in 1..Len(wire) : Isr(k) \/ IsrOverflow(k)
    \/ uart_event_task \/ Unit_event_task

Spec == Init /\ [][Next]_vars

\* Both tasks run, and the driver passes on what has come.
FairSpec == /\ Spec
            /\ WF_vars(uart_event_task) /\ WF_vars(Unit_event_task)
            /\ WF_vars(\E k \in 1..Len(wire) : Isr(k))

-----------------------------------------------------------------------------
(* Properties *)

\* Every variable has its type, the count is remembered only with a claim, and the
\* driver never waits for bytes that do not come.
Bytes == [frame : 0..MaxFrames, at : Nat, of : Nat]

TypeOK ==
    /\ {wire, ring, dtmp, s_rx_cache, buff_ser1} \subseteq Seq(Bytes)
    /\ Uart1_Queue \in Seq(Nat)
    /\ rx \in {"wait", "clear", "copy", "reset"} /\ rd \in {"delay", "poll", "claim", "read"}
    /\ WBM_Com_State \in {"WBM_Communicating", "WBM_Connected"} /\ Eeprom_Data_received \in BOOLEAN
    /\ {s_rx_available, taken, s_rx_claim_len, s_rx_claim_pos, rx_buf_tail, left}
           \subseteq 0..UART1_RX_CACHE_SIZE
    /\ Len(s_rx_cache) = UART1_RX_CACHE_SIZE
    /\ {slipped, spoilt} \subseteq BOOLEAN /\ harmed \subseteq 1..MaxFrames
    /\ sent \in 0..MaxFrames /\ owed \in 0..MaxFrames /\ faults \in 0..MaxFaults
    /\ Claimed = 0 => rx_buf_tail = 0
    /\ rx # "reset" => ~Starved

\* The unit task is given the answer to its question, once or not at all and never an
\* earlier one, until an answer comes in pieces or the ring slips; then an answer may
\* be given to it again, but still none that was sent before one it was given
\* (unit_comm.c:260, Uart1.c:157, WBM_Serial.c:132).
Pending == IF sent = 0 \/ sent \in {got[i] : i \in 1..Len(got)} THEN 0 ELSE sent
Promise == INSTANCE FrameLine WITH line <- Pending
DeliversInTurn == Promise!Spec

\* An answer is accepted, whatever happened before it, unless the reader is deaf or the
\* answer itself is harmed: it comes in pieces, it is overrun, flushed or read out of
\* step, or another event comes before it is read or its own while a count is being
\* claimed.
WholeAnswerTaken ==
    \A n \in 1..MaxFrames :
        (sent = n) ~> (n \in {got[i] : i \in 1..Len(got)} \/ n \in harmed \/ Deaf)
=============================================================================
