---------------------------- MODULE UartRxProofs ----------------------------
(***************************************************************************)
(* Proofs about UartRx for every value of its constants that satisfies     *)
(* UartAssumption: the types, that a deaf reader stays deaf, and that the  *)
(* driver and Read_Message implement FrameLine.  The invariants, in the    *)
(* order in which each needs the ones before it: the claim and the copy,   *)
(* the events and the bytes they count, the order of the answers along the *)
(* buffers, whatever happens to them, and the one place of the one answer  *)
(* that is under way while none was spoilt.                                *)
(***************************************************************************)
EXTENDS UartRx, SequenceTheorems, TLAPS

-----------------------------------------------------------------------------
(* The invariants *)

\* TypeOK without what the other invariants say.
BufferTypes ==
    /\ wire \in Seq(Bytes) /\ ring \in Seq(Bytes) /\ dtmp \in Seq(Bytes)
    /\ s_rx_cache \in Seq(Bytes) /\ buff_ser1 \in Seq(Bytes)
    /\ Uart1_Queue \in Seq(Nat) /\ got \in Seq(Nat)
    /\ Len(s_rx_cache) = UART1_RX_CACHE_SIZE

StateTypes ==
    /\ rx \in {"wait", "clear", "copy", "reset"} /\ rd \in {"delay", "poll", "claim", "read"}
    /\ WBM_Com_State \in {"WBM_Communicating", "WBM_Connected"} /\ Eeprom_Data_received \in BOOLEAN
    /\ s_rx_available \in 0..UART1_RX_CACHE_SIZE /\ taken \in 0..UART1_RX_CACHE_SIZE
    /\ s_rx_claim_len \in 0..UART1_RX_CACHE_SIZE /\ s_rx_claim_pos \in 0..UART1_RX_CACHE_SIZE
    /\ rx_buf_tail \in 0..UART1_RX_CACHE_SIZE /\ left \in 0..UART1_RX_CACHE_SIZE
    /\ sent \in 0..MaxFrames /\ owed \in 0..MaxFrames

HistoryTypes ==
    /\ slipped \in BOOLEAN /\ spoilt \in BOOLEAN /\ harmed \subseteq 1..MaxFrames
    /\ faults \in 0..MaxFaults

Types == BufferTypes /\ StateTypes /\ HistoryTypes

\* No more is asked than the bound allows.
AskInv == sent + owed <= MaxFrames

\* A claim is used up from its start, by the copy that it was counted for.
ClaimInv ==
    /\ s_rx_claim_pos <= s_rx_claim_len
    /\ rd # "read" => s_rx_claim_pos = 0
    /\ Claimed = 0 => rx_buf_tail = 0
    /\ IF rd = "claim" THEN Claimed = 0 /\ taken > 0 ELSE taken = 0
    /\ rd = "read" =>
          /\ rx_buf_tail = 0
          /\ IF Deaf THEN left = 0 /\ buff_ser1 = <<>> ELSE left = Claimed
          /\ left > 0 => s_rx_claim_pos = Len(buff_ser1)
          /\ left = 0 => s_rx_claim_pos = 0

\* The events count the bytes of the ring, from its start.
Counts(cut, q, n) ==
    /\ cut \in [0..Len(q) -> 0..n]
    /\ cut[0] = 0
    /\ \A i \in 1..Len(q) : cut[i] = cut[i - 1] + q[i]
    /\ \A i, j \in 0..Len(q) : i <= j => cut[i] <= cut[j]

QueueInv ==
    rx # "reset" =>
        \E cut \in [0..Len(Uart1_Queue) -> 0..Len(ring)] :
            /\ Counts(cut, Uart1_Queue, Len(ring))
            /\ ~slipped => cut[Len(Uart1_Queue)] = Len(ring)

\* A byte is of an answer that was sent, or none.
Known(s) == \A i \in 1..Len(s) : s[i].frame \in 0..sent /\ (s[i].frame = 0 => s[i].at = 0)

\* No byte of s is of a later answer than a byte of t, ...
Upto(s, t) ==
    \A i \in 1..Len(s), j \in 1..Len(t) : t[j].frame # 0 => s[i].frame <= t[j].frame

\* ... or than a byte of t as far along or farther.
Along(s, t) ==
    \A i \in 1..Len(s), j \in 1..Len(t) : i <= j /\ t[j].frame # 0 => s[i].frame <= t[j].frame

\* No byte of s is of an earlier answer than one that was accepted.
Fresh(s) == \A g \in 1..Len(got), i \in 1..Len(s) : s[i].frame # 0 => got[g] <= s[i].frame

\* Ring, event, cache and copy hold the answers in the order in which they were sent.
FlowInv ==
    /\ \A i \in 1..Len(wire) : sent > 0 /\ wire[i].frame = sent
    /\ Known(ring) /\ Known(dtmp) /\ Known(s_rx_cache) /\ Known(buff_ser1)
    /\ Along(ring, ring) /\ Along(dtmp, dtmp) /\ Along(s_rx_cache, s_rx_cache)
    /\ Upto(dtmp, ring) /\ Upto(s_rx_cache, ring) /\ Upto(s_rx_cache, dtmp)
    /\ Upto(buff_ser1, ring) /\ Upto(buff_ser1, dtmp) /\ Along(buff_ser1, s_rx_cache)
    /\ Fresh(ring) /\ Fresh(dtmp) /\ Fresh(s_rx_cache) /\ Fresh(buff_ser1)
    /\ rx = "copy" => \A i \in 1..Len(s_rx_cache) : s_rx_cache[i].frame = 0
    /\ rx \in {"wait", "reset"} => dtmp = <<>>
    /\ \A g \in 1..Len(got) : got[g] \in 1..sent

\* Bytes of the answer sent last, or none.
Current(s) == \A i \in 1..Len(s) : s[i].frame \in {0, sent}

Accepted == sent \in {got[i] : i \in 1..Len(got)}
Resting == s_rx_available = 0 /\ Claimed = 0 /\ rd \in {"delay", "poll"}
Drained == wire = <<>> /\ ring = <<>> /\ Uart1_Queue = <<>>
Written == rx = "wait" \/ (rx = "clear" /\ Current(dtmp)) \/ (rx = "copy" /\ Current(dtmp))

\* Where the one answer is that may be under way: with the unit, or nowhere, ...
AtRest == /\ Drained /\ Resting /\ rx = "wait"
          /\ owed = 0 \/ (owed = 1 /\ Eeprom_Data_received)

\* ... on the line, in the ring as one event, in the cache, claimed, being copied.
OnWire == Resting /\ rx = "wait" /\ wire # <<>> /\ ring = <<>> /\ Uart1_Queue = <<>>
InRing == Resting /\ rx = "wait" /\ wire = <<>> /\ ring # <<>> /\ Uart1_Queue = <<Len(ring)>> /\ Current(ring)
InCache == /\ Drained /\ s_rx_available # 0 /\ Claimed = 0 /\ rd \in {"delay", "poll", "claim"}
           /\ Written /\ (rx = "clear" \/ Current(s_rx_cache))
InClaim == /\ Drained /\ s_rx_available = 0 /\ Claimed # 0 /\ rd \in {"delay", "poll"}
           /\ Written /\ (rx = "clear" \/ Current(s_rx_cache))
           /\ rd = "poll" => rx = "wait"
InCopy == Drained /\ s_rx_available = 0 /\ rd = "read" /\ rx = "wait" /\ Current(s_rx_cache) /\ Current(buff_ser1)

UnderWay == owed = 0 /\ Eeprom_Data_received /\ ~Accepted /\ sent > 0

TurnInv == AtRest \/ (UnderWay /\ (OnWire \/ InRing \/ InCache \/ InClaim \/ InCopy))

IInv ==
    /\ Types /\ AskInv /\ ClaimInv /\ QueueInv /\ FlowInv
    /\ ~spoilt /\ ~Deaf => TurnInv

-----------------------------------------------------------------------------
(* Constants, sequences *)

LEMMA Constants ==
    /\ UART1_RX_CACHE_SIZE \in Nat \ {0} /\ RX_BUFFER_SIZE \in Nat \ {0}
    /\ UART1_RX_CACHE_SIZE <= RX_BUFFER_SIZE
    /\ Lengths \subseteq Nat \ {0} /\ MaxFrames \in Nat /\ MaxFaults \in Nat
BY UartAssumption

\* The two ends of a sequence.
LEMMA TakeDrop ==
    ASSUME NEW S, NEW s \in Seq(S), NEW k \in 0..Len(s)
    PROVE  /\ Take(s, k) \in Seq(S) /\ Len(Take(s, k)) = k
           /\ \A i \in 1..k : Take(s, k)[i] = s[i]
           /\ Drop(s, k) \in Seq(S) /\ Len(Drop(s, k)) = Len(s) - k
           /\ \A i \in 1..Len(s) - k : Drop(s, k)[i] = s[i + k]
<1>1. Len(s) \in Nat /\ k \in Nat /\ k <= Len(s)
  BY LenProperties
<1>2. \A i \in 1..Len(s) : s[i] \in S
  BY ElementOfSeq
<1>3. /\ SubSeq(s, 1, k) \in Seq(S)
      /\ Len(SubSeq(s, 1, k)) = IF 1 <= k THEN k - 1 + 1 ELSE 0
      /\ \A i \in 1..k - 1 + 1 : SubSeq(s, 1, k)[i] = s[1 + i - 1]
  <2>1. \A i \in 1..k : s[i] \in S
    BY <1>1, <1>2
  <2> QED BY <1>1, <2>1, SubSeqProperties
<1>4. /\ SubSeq(s, k + 1, Len(s)) \in Seq(S)
      /\ Len(SubSeq(s, k + 1, Len(s))) = IF k + 1 <= Len(s) THEN Len(s) - (k + 1) + 1 ELSE 0
      /\ \A i \in 1..Len(s) - (k + 1) + 1 : SubSeq(s, k + 1, Len(s))[i] = s[k + 1 + i - 1]
  <2>1. \A i \in k + 1..Len(s) : s[i] \in S
    BY <1>1, <1>2
  <2>2. k + 1 \in Int /\ Len(s) \in Int
    BY <1>1
  <2> QED BY <2>1, <2>2, SubSeqProperties
<1>5. Take(s, k) \in Seq(S) /\ Len(Take(s, k)) = k /\ \A i \in 1..k : Take(s, k)[i] = s[i]
  BY <1>1, <1>3 DEF Take
<1>6. /\ Drop(s, k) \in Seq(S) /\ Len(Drop(s, k)) = Len(s) - k
      /\ \A i \in 1..Len(s) - k : Drop(s, k)[i] = s[i + k]
  BY <1>1, <1>4 DEF Drop
<1> QED BY <1>5, <1>6

-----------------------------------------------------------------------------
(* Types, the first answer, the claim *)

LEMMA Remainder ==
    ASSUME NEW a \in Nat, NEW b \in Nat \ {0}, a <= b
    PROVE  a % b = IF a = b THEN 0 ELSE a
OBVIOUS

\* A queue element is taken with the queue not empty.
LEMMA QueueHead ==
    ASSUME Types, Uart1_Queue # <<>>
    PROVE  /\ Head(Uart1_Queue) \in Nat /\ Head(Uart1_Queue) = Uart1_Queue[1]
           /\ Tail(Uart1_Queue) \in Seq(Nat) /\ Len(Tail(Uart1_Queue)) = Len(Uart1_Queue) - 1
           /\ \A i \in 1..Len(Tail(Uart1_Queue)) : Tail(Uart1_Queue)[i] = Uart1_Queue[i + 1]
           /\ Len(Uart1_Queue) \in Nat \ {0}
<1>1. Uart1_Queue \in Seq(Nat)
  BY DEF Types, BufferTypes
<1>2. Head(Uart1_Queue) = Uart1_Queue[1]
  BY <1>1
<1>3. Len(Uart1_Queue) \in Nat \ {0}
  BY <1>1, EmptySeq
<1> QED BY <1>1, <1>2, <1>3, HeadTailProperties

\* The frames of a sequence of bytes.
LEMMA FramesBound == ASSUME NEW s \in Seq(Bytes) PROVE FramesOf(s) \subseteq 1..MaxFrames
<1>1. \A i \in 1..Len(s) : s[i] \in Bytes
  BY ElementOfSeq
<1>2. \A i \in 1..Len(s) : s[i].frame \in 0..MaxFrames
  BY <1>1 DEF Bytes
<1> QED BY <1>2, Constants DEF FramesOf

\* An empty cache.
LEMMA ZerosType ==
    /\ Zeros \in Seq(Bytes) /\ Len(Zeros) = UART1_RX_CACHE_SIZE
    /\ \A i \in 1..Len(Zeros) : Zeros[i].frame = 0 /\ Zeros[i].at = 0
<1>1. Zero \in Bytes /\ Zero.frame = 0 /\ Zero.at = 0
  BY Constants DEF Zero, Bytes
<1> QED BY <1>1, Constants DEF Zeros

\* Every step keeps the types: the buffers ...
LEMMA NextBuffers == Types /\ AskInv /\ ClaimInv /\ [Next]_vars => BufferTypes'
<1> SUFFICES ASSUME Types, AskInv, ClaimInv, [Next]_vars PROVE BufferTypes'
  OBVIOUS
<1> USE DEF driver, cache, receiver, claim, asking, reader, line
<1>0. BufferTypes
  BY DEF Types, BufferTypes
<1>1. ASSUME NEW len \in Lengths, UnitAnswers(len) PROVE BufferTypes'
  <2>1. Frame(sent', len) \in Seq(Bytes)
    <3>1. len \in Nat /\ sent' \in 0..MaxFrames
      BY <1>1, Constants DEF UnitAnswers, Types, StateTypes, AskInv
    <3> QED BY <3>1 DEF Frame, Bytes
  <2> QED BY <1>0, <1>1, <2>1 DEF UnitAnswers, BufferTypes
<1>2. ASSUME NEW k \in 1..Len(wire), Isr(k) PROVE BufferTypes'
  <2>1. wire \in Seq(Bytes) /\ ring \in Seq(Bytes) /\ Uart1_Queue \in Seq(Nat) /\ k \in 0..Len(wire)
    BY <1>0, LenProperties DEF BufferTypes
  <2>2. Take(wire, k) \in Seq(Bytes) /\ Drop(wire, k) \in Seq(Bytes)
    BY <2>1, TakeDrop
  <2>3. ring \o Take(wire, k) \in Seq(Bytes) /\ Append(Uart1_Queue, k) \in Seq(Nat)
    BY <2>1, <2>2, ConcatProperties, AppendProperties
  <2> QED BY <1>0, <1>2, <2>2, <2>3 DEF Isr, BufferTypes
<1>3. ASSUME NEW k \in 1..Len(wire), IsrOverflow(k) PROVE BufferTypes'
  <2>1. wire \in Seq(Bytes) /\ Uart1_Queue \in Seq(Nat) /\ k \in 0..Len(wire)
    BY <1>0, LenProperties DEF BufferTypes
  <2>2. Drop(wire, k) \in Seq(Bytes) /\ Append(Uart1_Queue, Overflowed) \in Seq(Nat)
    BY <2>1, TakeDrop, AppendProperties DEF Overflowed
  <2> QED BY <1>0, <1>3, <2>2 DEF IsrOverflow, BufferTypes
<1>4. CASE Data
  <2>1. ring \in Seq(Bytes) /\ Len(ring) \in Nat
    BY <1>0, LenProperties DEF BufferTypes
  <2>2. Head(Uart1_Queue) \in 0..Len(ring) /\ Tail(Uart1_Queue) \in Seq(Nat)
    BY <1>4, <2>1, QueueHead DEF Data
  <2>3. AtMostCache(Head(Uart1_Queue)) \in 0..Len(ring)
    BY <2>1, <2>2, Constants DEF AtMostCache
  <2>4. Take(ring, AtMostCache(Head(Uart1_Queue))) \in Seq(Bytes)
    BY <2>1, <2>3, TakeDrop
  <2>5. Drop(ring, Head(Uart1_Queue)) \in Seq(Bytes)
    BY <2>1, <2>2, TakeDrop
  <2> QED BY <1>0, <1>4, <2>2, <2>4, <2>5 DEF Data, BufferTypes
<1>5. CASE Clear
  BY <1>0, <1>5, ZerosType DEF Clear, BufferTypes
<1>6. CASE Copy
  <2>1. \A i \in 1..UART1_RX_CACHE_SIZE :
            (IF i <= Len(dtmp) THEN dtmp[i] ELSE s_rx_cache[i]) \in Bytes
    <3>1. Len(dtmp) \in Nat /\ Len(s_rx_cache) = UART1_RX_CACHE_SIZE
      BY <1>0, LenProperties DEF BufferTypes
    <3>2. /\ \A i \in 1..Len(dtmp) : dtmp[i] \in Bytes
          /\ \A i \in 1..Len(s_rx_cache) : s_rx_cache[i] \in Bytes
      BY <1>0, ElementOfSeq DEF BufferTypes
    <3> QED BY <3>1, <3>2, Constants
  <2>2. s_rx_cache' \in Seq(Bytes) /\ Len(s_rx_cache') = UART1_RX_CACHE_SIZE
    BY <1>6, <2>1, Constants DEF Copy
  <2> QED BY <1>0, <1>6, <2>2 DEF Copy, BufferTypes
<1>7. CASE FlushInput
  BY <1>0, <1>7, QueueHead DEF FlushInput, BufferTypes
<1>8. CASE QueueReset
  BY <1>0, <1>8 DEF QueueReset, BufferTypes
<1>9. CASE ReadByte
  <2>1. s_rx_claim_pos + 1 \in 1..Len(s_rx_cache)
    BY <1>9, Constants DEF ReadByte, ClaimInv, Claimed, Deaf, Types, StateTypes, BufferTypes
  <2>2. Append(buff_ser1, s_rx_cache[s_rx_claim_pos + 1]) \in Seq(Bytes)
    BY <1>0, <2>1, ElementOfSeq, AppendProperties DEF BufferTypes
  <2> QED BY <1>0, <1>9, <2>2 DEF ReadByte, BufferTypes
<1>10. CASE Judge
  <2>1. got' \in Seq(Nat)
    <3>1. CASE Whole(buff_ser1)
      <4>1. buff_ser1 \in Seq(Bytes) /\ Len(buff_ser1) \in Nat \ {0}
        BY <1>0, <3>1, EmptySeq, LenProperties DEF Whole, BufferTypes
      <4>2. buff_ser1[1] \in Bytes
        BY <4>1, ElementOfSeq
      <4>3. buff_ser1[1].frame \in Nat
        BY <4>2, Constants DEF Bytes
      <4>4. got \in Seq(Nat) /\ got' = Append(got, buff_ser1[1].frame)
        BY <1>0, <1>10, <3>1 DEF Judge, BufferTypes
      <4> QED BY <4>3, <4>4, AppendProperties
    <3>2. CASE ~Whole(buff_ser1)
      BY <1>0, <1>10, <3>2 DEF Judge, BufferTypes
    <3> QED BY <3>1, <3>2
  <2> QED BY <1>0, <1>10, <2>1 DEF Judge, BufferTypes
<1>11. CASE Download
  BY <1>0, <1>11 DEF Download, BufferTypes
<1>12. CASE UNCHANGED <<driver, dtmp, s_rx_cache, buff_ser1, got>>
  BY <1>0, <1>12 DEF BufferTypes
<1> QED
  BY <1>1, <1>2, <1>3, <1>4, <1>5, <1>6, <1>7, <1>8, <1>9, <1>10, <1>11, <1>12
     DEF Next, uart_event_task, Unit_event_task, Read_Message, Ask, AskAgain, Connected, vTaskDelay, Nothing,
         RxClaim, RxClaimed, Wait, vars

\* ... where the tasks are and what they count ...
LEMMA NextState == Types /\ AskInv /\ ClaimInv /\ [Next]_vars => StateTypes' /\ AskInv'
<1> SUFFICES ASSUME Types, AskInv, ClaimInv, [Next]_vars PROVE StateTypes' /\ AskInv'
  OBVIOUS
<1> USE Constants DEF driver, cache, receiver, claim, asking, reader, line
<1>0. StateTypes /\ AskInv
  BY DEF Types, BufferTypes
<1>1. ASSUME NEW len \in Lengths, UnitAnswers(len) PROVE StateTypes' /\ AskInv'
  BY <1>0, <1>1 DEF UnitAnswers, StateTypes, AskInv
<1>2. CASE Ask
  BY <1>0, <1>2 DEF Ask, StateTypes, AskInv
<1>3. CASE AskAgain
  BY <1>0, <1>3 DEF AskAgain, StateTypes, AskInv
<1>4. CASE Connected
  BY <1>0, <1>4 DEF Connected, StateTypes, AskInv
<1>5. CASE Data
  <2>1. AtMostCache(Head(Uart1_Queue)) \in 0..UART1_RX_CACHE_SIZE
    BY <1>5, QueueHead DEF Data, AtMostCache
  <2> QED BY <1>0, <1>5, <2>1 DEF Data, StateTypes, AskInv
<1>6. CASE Clear \/ Copy \/ FlushInput \/ QueueReset
  BY <1>0, <1>6 DEF Clear, Copy, FlushInput, QueueReset, StateTypes, AskInv
<1>7. CASE vTaskDelay \/ Nothing \/ RxClaim \/ RxClaimed
  BY <1>0, <1>7 DEF vTaskDelay, Nothing, RxClaim, RxClaimed, StateTypes, AskInv
<1>8. CASE Wait
  BY <1>0, <1>8 DEF Wait, Claimed, StateTypes, AskInv
<1>9. CASE Download
  <2>1. rx_buf_tail % RX_BUFFER_SIZE \in 0..UART1_RX_CACHE_SIZE
    <3>1. rx_buf_tail \in Nat /\ rx_buf_tail <= RX_BUFFER_SIZE
      BY <1>0 DEF StateTypes
    <3>2. rx_buf_tail % RX_BUFFER_SIZE = IF rx_buf_tail = RX_BUFFER_SIZE THEN 0 ELSE rx_buf_tail
      BY <3>1, Remainder
    <3> QED BY <1>0, <3>2 DEF StateTypes
  <2> QED BY <1>0, <1>9, <2>1 DEF Download, StateTypes, AskInv
<1>10. CASE ReadByte
  <2>1. s_rx_claim_pos + 1 \in 1..UART1_RX_CACHE_SIZE
    BY <1>0, <1>10 DEF ReadByte, ClaimInv, Claimed, Deaf, StateTypes
  <2> QED BY <1>0, <1>10, <2>1 DEF ReadByte, StateTypes, AskInv
<1>11. CASE Judge
  BY <1>0, <1>11 DEF Judge, StateTypes, AskInv
<1>12. CASE \E k \in 1..Len(wire) : Isr(k) \/ IsrOverflow(k)
  BY <1>0, <1>12 DEF Isr, IsrOverflow, StateTypes, AskInv
<1>13. CASE UNCHANGED vars
  BY <1>0, <1>13 DEF vars, StateTypes, AskInv
<1> QED
  BY <1>1, <1>2, <1>3, <1>4, <1>5, <1>6, <1>7, <1>8, <1>9, <1>10, <1>11, <1>12, <1>13
     DEF Next, uart_event_task, Unit_event_task, Read_Message

\* ... and the history.
LEMMA NextHistory == Types /\ FlowInv /\ BufferTypes' /\ [Next]_vars => HistoryTypes'
<1> SUFFICES ASSUME Types, FlowInv, BufferTypes', [Next]_vars PROVE HistoryTypes'
  OBVIOUS
<1> USE DEF driver, cache, receiver, claim, asking, reader, line
<1>0. HistoryTypes
  BY DEF Types, BufferTypes
<1>1. ASSUME NEW k \in 1..Len(wire), Isr(k) \/ IsrOverflow(k) PROVE HistoryTypes'
  <2>1. sent \in 1..MaxFrames
    <3>1. sent > 0
      BY DEF FlowInv
    <3> QED BY <3>1 DEF Types, StateTypes
  <2>2. slipped' = slipped /\ (Harm \/ (harmed' \subseteq harmed \cup {sent} /\ UNCHANGED <<spoilt, faults>>))
    BY <1>1 DEF Isr, IsrOverflow
  <2>3. /\ harmed' \subseteq harmed \cup {sent} /\ spoilt' \in {spoilt, TRUE}
        /\ faults' = faults \/ (faults < MaxFaults /\ faults' = faults + 1)
    BY <2>2 DEF Harm
  <2>4. harmed' \subseteq 1..MaxFrames
    BY <1>0, <2>1, <2>3 DEF HistoryTypes
  <2>5. faults' \in 0..MaxFaults
    BY <1>0, <2>3, Constants DEF HistoryTypes
  <2>6. slipped' \in BOOLEAN /\ spoilt' \in BOOLEAN
    BY <1>0, <2>2, <2>3 DEF HistoryTypes
  <2> QED BY <2>4, <2>5, <2>6 DEF HistoryTypes
<1>2. CASE Data
  <2>1. FramesOf(s_rx_cache) \subseteq 1..MaxFrames /\ FramesOf(dtmp') \subseteq 1..MaxFrames
    BY FramesBound DEF Types, BufferTypes
  <2>2. harmed' \subseteq harmed \cup FramesOf(s_rx_cache) \cup FramesOf(dtmp')
    BY <1>2 DEF Data
  <2>3. UNCHANGED <<slipped, spoilt, faults>>
    BY <1>2 DEF Data
  <2> QED BY <1>0, <2>1, <2>2, <2>3 DEF HistoryTypes
<1>3. CASE FlushInput \/ QueueReset
  <2>1. FramesOf(ring) \subseteq 1..MaxFrames
    BY FramesBound DEF Types, BufferTypes
  <2> QED BY <1>0, <1>3, <2>1 DEF FlushInput, QueueReset, HistoryTypes
<1>4. CASE AskAgain
  BY <1>0, <1>4 DEF AskAgain, HistoryTypes
<1>5. CASE UNCHANGED line
  BY <1>0, <1>5 DEF HistoryTypes
<1> QED
  BY <1>1, <1>2, <1>3, <1>4, <1>5
     DEF Next, uart_event_task, Unit_event_task, Read_Message, Ask, Connected, UnitAnswers, Clear, Copy,
         vTaskDelay, Nothing, RxClaim, RxClaimed, Wait, Download, ReadByte, Judge, vars

LEMMA InitIInv == Init => IInv
<1> SUFFICES ASSUME Init PROVE IInv
  OBVIOUS
<1>2. <<>> \in Seq(Bytes) /\ <<>> \in Seq(Nat) /\ Len(<<>>) = 0
  OBVIOUS
<1>3. Types
  <2>1. BufferTypes
    BY <1>2, ZerosType DEF Init, BufferTypes
  <2>2. StateTypes
    <3>1. /\ rx = "wait" /\ rd = "delay" /\ WBM_Com_State = "WBM_Communicating" /\ Eeprom_Data_received = FALSE
          /\ s_rx_available = 0 /\ taken = 0 /\ s_rx_claim_len = 0 /\ s_rx_claim_pos = 0
          /\ rx_buf_tail = 0 /\ left = 0 /\ sent = 0 /\ owed = 0
      BY DEF Init
    <3>2. 0 \in 0..UART1_RX_CACHE_SIZE /\ 0 \in 0..MaxFrames
      BY Constants
    <3> QED BY <3>1, <3>2 DEF StateTypes
  <2>3. HistoryTypes
    <3>1. slipped = FALSE /\ spoilt = FALSE /\ harmed = {} /\ faults = 0
      BY DEF Init
    <3>2. 0 \in 0..MaxFaults
      BY Constants
    <3> QED BY <3>1, <3>2 DEF HistoryTypes
  <2> QED BY <2>1, <2>2, <2>3 DEF Types
<1>4. ClaimInv /\ AskInv
  BY Constants DEF Init, ClaimInv, Claimed, AskInv
<1>5. QueueInv
  <2> DEFINE c == [i \in 0..0 |-> 0]
  <2>1. Len(Uart1_Queue) = 0 /\ Len(ring) = 0
    BY <1>2 DEF Init
  <2>2. c \in [0..0 -> 0..0] /\ c[0] = 0
    OBVIOUS
  <2>3. Counts(c, Uart1_Queue, Len(ring)) /\ c[Len(Uart1_Queue)] = Len(ring)
    BY <2>1, <2>2 DEF Counts
  <2> QED BY <2>1, <2>2, <2>3 DEF QueueInv
<1>6. FlowInv
  <2>1. /\ wire = <<>> /\ ring = <<>> /\ dtmp = <<>> /\ buff_ser1 = <<>> /\ got = <<>> /\ rx = "wait" /\ sent = 0
        /\ \A i \in 1..Len(s_rx_cache) : s_rx_cache[i].frame = 0 /\ s_rx_cache[i].at = 0
    BY ZerosType DEF Init
  <2> QED BY <1>2, <2>1 DEF FlowInv, Known, Along, Upto, Fresh
<1>7. TurnInv
  BY DEF Init, TurnInv, AtRest, Drained, Resting, Claimed
<1> QED BY <1>3, <1>4, <1>5, <1>6, <1>7 DEF IInv

\* Every step keeps the claim's shape, and a claim as long as the reader's modulus.
LEMMA NextClaim == Types /\ ClaimInv /\ [Next]_vars => ClaimInv' /\ (Deaf => Deaf')
<1> SUFFICES ASSUME Types, ClaimInv, [Next]_vars PROVE ClaimInv' /\ (Deaf => Deaf')
  OBVIOUS
<1> USE Constants DEF driver, cache, receiver, claim, asking, reader, line, Types, BufferTypes, StateTypes, ClaimInv, Claimed, Deaf
<1>1. ASSUME UNCHANGED reader PROVE ClaimInv' /\ (Deaf => Deaf')
  BY <1>1
<1>2. CASE vTaskDelay
  BY <1>2 DEF vTaskDelay
<1>3. CASE Nothing
  BY <1>3 DEF Nothing
<1>4. CASE RxClaim
  BY <1>4 DEF RxClaim
<1>5. CASE RxClaimed
  BY <1>5 DEF RxClaimed
<1>6. CASE Wait
  BY <1>6 DEF Wait
<1>7. CASE Download
  <2>1. rx_buf_tail \in Nat /\ rx_buf_tail <= RX_BUFFER_SIZE
    OBVIOUS
  <2>2. left' = IF rx_buf_tail = RX_BUFFER_SIZE THEN 0 ELSE rx_buf_tail
    <3>1. rx_buf_tail % RX_BUFFER_SIZE = IF rx_buf_tail = RX_BUFFER_SIZE THEN 0 ELSE rx_buf_tail
      BY <2>1, Remainder
    <3> QED BY <1>7, <3>1 DEF Download
  <2> QED BY <1>7, <2>2 DEF Download
<1>8. CASE ReadByte
  <2>1. Len(buff_ser1') = Len(buff_ser1) + 1 /\ Len(buff_ser1) \in Nat
    <3>1. s_rx_claim_pos + 1 \in 1..Len(s_rx_cache)
      BY <1>8 DEF ReadByte
    <3>2. s_rx_cache[s_rx_claim_pos + 1] \in Bytes
      BY <3>1, ElementOfSeq
    <3> QED BY <1>8, <3>2, AppendProperties, LenProperties DEF ReadByte
  <2>2. ~Deaf /\ left = s_rx_claim_len - s_rx_claim_pos /\ left > 0
    BY <1>8 DEF ReadByte
  <2>3. CASE s_rx_claim_pos + 1 < s_rx_claim_len
    BY <1>8, <2>1, <2>2, <2>3 DEF ReadByte
  <2>4. CASE s_rx_claim_pos + 1 >= s_rx_claim_len
    BY <1>8, <2>1, <2>2, <2>4 DEF ReadByte
  <2> QED BY <1>8, <2>3, <2>4 DEF ReadByte
<1>9. CASE Judge
  BY <1>9 DEF Judge
<1> QED
  <2>1. \/ UNCHANGED reader
        \/ Read_Message
    BY DEF Next, uart_event_task, Unit_event_task, Ask, AskAgain, Connected, UnitAnswers, Isr, IsrOverflow,
           Data, Clear, Copy, FlushInput, QueueReset, vars
  <2> QED BY <1>1, <1>2, <1>3, <1>4, <1>5, <1>6, <1>7, <1>8, <1>9, <2>1 DEF Read_Message

-----------------------------------------------------------------------------
(* The events and the bytes *)

\* An event that comes last adds its bytes.
LEMMA CountsAppend ==
    ASSUME NEW q \in Seq(Nat), NEW n \in Nat, NEW k \in Nat, NEW cut, Counts(cut, q, n)
    PROVE  \E c : Counts(c, Append(q, k), n + k) /\ c[Len(q) + 1] = cut[Len(q)] + k
<1> DEFINE c == [i \in 0..Len(q) + 1 |-> IF i <= Len(q) THEN cut[i] ELSE cut[Len(q)] + k]
<1>1. Len(q) \in Nat /\ \A i \in 1..Len(q) : q[i] \in Nat
  BY LenProperties, ElementOfSeq
<1>2. /\ Len(Append(q, k)) = Len(q) + 1
      /\ \A i \in 1..Len(q) : Append(q, k)[i] = q[i]
      /\ Append(q, k)[Len(q) + 1] = k
  BY AppendProperties
<1>3. \A i \in 0..Len(q) : cut[i] \in 0..n
  BY DEF Counts
<1>4. c \in [0..Len(q) + 1 -> 0..n + k] /\ c[Len(q) + 1] = cut[Len(q)] + k /\ c[0] = 0
  BY <1>1, <1>3 DEF Counts
<1>5. ASSUME NEW i \in 1..Len(q) + 1 PROVE c[i] = c[i - 1] + Append(q, k)[i]
  <2>1. CASE i <= Len(q)
    BY <1>1, <1>2, <1>3, <2>1 DEF Counts
  <2>2. CASE i = Len(q) + 1
    <3>1. c[i] = cut[Len(q)] + k /\ c[i - 1] = cut[Len(q)]
      BY <1>1, <2>2
    <3>2. Append(q, k)[i] = k
      BY <1>2, <2>2
    <3> QED BY <3>1, <3>2
  <2>3. i <= Len(q) \/ i = Len(q) + 1
    BY <1>1
  <2> QED BY <2>1, <2>2, <2>3
<1>6. ASSUME NEW i \in 0..Len(q) + 1, NEW j \in 0..Len(q) + 1, i <= j PROVE c[i] <= c[j]
  <2>1. \A l, m \in 0..Len(q) : l <= m => cut[l] <= cut[m]
    BY DEF Counts
  <2>2. CASE j <= Len(q)
    BY <1>1, <1>6, <2>1, <2>2
  <2>3. CASE j = Len(q) + 1 /\ i <= Len(q)
    <3>1. cut[i] <= cut[Len(q)] /\ cut[i] \in Nat /\ cut[Len(q)] \in Nat
      BY <1>1, <1>3, <2>1, <2>3
    <3> QED BY <1>1, <2>3, <3>1
  <2>4. CASE i = Len(q) + 1 /\ j = Len(q) + 1
    BY <1>1, <1>3, <2>4
  <2> QED BY <1>1, <1>6, <2>2, <2>3, <2>4
<1>7. Counts(c, Append(q, k), n + k)
  BY <1>2, <1>4, <1>5, <1>6 DEF Counts
<1> QED BY <1>4, <1>7

\* An event that is taken first takes its bytes away.
LEMMA CountsTail ==
    ASSUME NEW q \in Seq(Nat), q # <<>>, NEW n \in Nat, NEW cut, Counts(cut, q, n)
    PROVE  /\ Head(q) <= n
           /\ \E c \in [0..Len(Tail(q)) -> 0..n - Head(q)] :
                 /\ Counts(c, Tail(q), n - Head(q))
                 /\ c[Len(Tail(q))] = cut[Len(q)] - Head(q)
<1> DEFINE t == Tail(q)
           h == Head(q)
           c == [i \in 0..Len(t) |-> cut[i + 1] - h]
<1>1. Len(q) \in Nat \ {0} /\ \A i \in 1..Len(q) : q[i] \in Nat
  BY EmptySeq, ElementOfSeq
<1>2. Len(t) = Len(q) - 1 /\ \A i \in 1..Len(t) : t[i] = q[i + 1]
  BY HeadTailProperties
<1>3. h = q[1] /\ h \in Nat
  BY <1>1
<1> HIDE DEF t, h
<1>4. \A i \in 0..Len(q) : cut[i] \in 0..n
  BY DEF Counts
<1>5. cut[0] = 0 /\ \A i \in 1..Len(q) : cut[i] = cut[i - 1] + q[i]
  BY DEF Counts
<1>6. \A l, m \in 0..Len(q) : l <= m => cut[l] <= cut[m]
  BY DEF Counts
<1>7. cut[1] = h
  BY <1>1, <1>3, <1>5
<1>8. \A i \in 1..Len(q) : cut[i] >= h
  BY <1>1, <1>6, <1>7
<1>9. h <= n
  BY <1>1, <1>4, <1>7
<1>10. c \in [0..Len(t) -> 0..n - h]
  <2>1. \A i \in 0..Len(t) : i + 1 \in 1..Len(q)
    BY <1>1, <1>2
  <2>2. \A i \in 0..Len(t) : cut[i + 1] - h \in 0..n - h
    <3> SUFFICES ASSUME NEW i \in 0..Len(t) PROVE cut[i + 1] - h \in 0..n - h
      OBVIOUS
    <3>1. cut[i + 1] \in 0..n /\ cut[i + 1] >= h
      BY <1>1, <1>4, <1>8, <2>1
    <3> QED BY <1>3, <3>1
  <2> QED BY <2>2
<1>11. c[0] = 0 /\ c[Len(t)] = cut[Len(q)] - h
  BY <1>1, <1>2, <1>3, <1>7
<1>12. ASSUME NEW i \in 1..Len(t) PROVE c[i] = c[i - 1] + t[i]
  <2>1. c[i] = cut[i + 1] - h /\ c[i - 1] = cut[i] - h
    BY <1>1, <1>2
  <2>2. cut[i + 1] = cut[i] + q[i + 1]
    BY <1>1, <1>2, <1>5
  <2>3. t[i] = q[i + 1] /\ q[i + 1] \in Nat /\ cut[i] \in Nat
    <3>1. i \in 0..Len(q) /\ i + 1 \in 1..Len(q)
      BY <1>1, <1>2
    <3> QED BY <1>1, <1>2, <1>4, <3>1
  <2> HIDE DEF c
  <2>4. \A a, b \in Nat : (a + b) - h = (a - h) + b
    BY <1>3
  <2>5. (cut[i] + t[i]) - h = (cut[i] - h) + t[i]
    BY <2>3, <2>4
  <2>6. c[i] = (cut[i] + t[i]) - h
    BY <2>1, <2>2, <2>3
  <2> QED BY <2>1, <2>5, <2>6
<1>13. ASSUME NEW i \in 0..Len(t), NEW j \in 0..Len(t), i <= j PROVE c[i] <= c[j]
  <2>1. cut[i + 1] <= cut[j + 1] /\ cut[i + 1] \in Nat /\ cut[j + 1] \in Nat
    <3>1. i + 1 \in 0..Len(q) /\ j + 1 \in 0..Len(q) /\ i + 1 <= j + 1
      BY <1>1, <1>2, <1>13
    <3> QED BY <1>4, <1>6, <3>1
  <2> QED BY <1>3, <2>1
<1>14. Counts(c, t, n - h)
  BY <1>10, <1>11, <1>12, <1>13 DEF Counts
<1> QED BY <1>9, <1>10, <1>11, <1>14 DEF t, h

\* While no reset is under way the driver has the bytes of each event.
LEMMA NotStarved == Types /\ QueueInv /\ rx # "reset" => ~Starved
<1> SUFFICES ASSUME Types, QueueInv, rx # "reset", Uart1_Queue # <<>> PROVE Head(Uart1_Queue) <= Len(ring)
  <2>1. Len(ring) \in Nat
    BY LenProperties DEF Types, BufferTypes
  <2>2. Starved => Uart1_Queue # <<>> /\ Len(ring) < Head(Uart1_Queue)
    BY DEF Starved
  <2>3. Uart1_Queue # <<>> /\ Types => Head(Uart1_Queue) \in Nat
    BY QueueHead
  <2> QED BY <2>1, <2>2, <2>3
<1>1. PICK cut : Counts(cut, Uart1_Queue, Len(ring))
  BY DEF QueueInv
<1>2. Len(ring) \in Nat /\ Uart1_Queue \in Seq(Nat)
  BY LenProperties DEF Types, BufferTypes
<1> QED BY <1>1, <1>2, CountsTail

\* Every step keeps events and bytes together.
LEMMA NextQueue == Types /\ QueueInv /\ [Next]_vars => QueueInv'
<1> SUFFICES ASSUME Types, QueueInv, [Next]_vars, rx' # "reset"
             PROVE  \E cut \in [0..Len(Uart1_Queue') -> 0..Len(ring')] :
                        /\ Counts(cut, Uart1_Queue', Len(ring'))
                        /\ ~slipped' => cut[Len(Uart1_Queue')] = Len(ring')
  BY DEF QueueInv, Counts
<1> USE DEF driver, cache, receiver, claim, asking, reader, line
<1>0. Len(ring) \in Nat /\ Len(Uart1_Queue) \in Nat /\ Uart1_Queue \in Seq(Nat)
  BY LenProperties DEF Types, BufferTypes
<1>1. ASSUME rx # "reset"
      PROVE  \E cut \in [0..Len(Uart1_Queue) -> 0..Len(ring)] :
                /\ Counts(cut, Uart1_Queue, Len(ring))
                /\ ~slipped => cut[Len(Uart1_Queue)] = Len(ring)
  BY <1>1 DEF QueueInv
<1>2. ASSUME NEW k \in 1..Len(wire), Isr(k)
      PROVE  /\ Uart1_Queue' = Append(Uart1_Queue, k) /\ k \in Nat
             /\ Len(ring') = Len(ring) + k /\ UNCHANGED <<slipped, rx>>
  <2>1. wire \in Seq(Bytes) /\ ring \in Seq(Bytes) /\ Len(wire) \in Nat
    BY LenProperties DEF Types, BufferTypes
  <2>2. Take(wire, k) \in Seq(Bytes) /\ Len(Take(wire, k)) = k
    BY <2>1, TakeDrop
  <2>3. Len(ring \o Take(wire, k)) = Len(ring) + k
    BY <2>1, <2>2, ConcatProperties
  <2> QED BY <1>2, <2>1, <2>3 DEF Isr
<1>3. ASSUME NEW k \in 1..Len(wire), IsrOverflow(k)
      PROVE  Uart1_Queue' = Append(Uart1_Queue, 0) /\ UNCHANGED <<ring, slipped, rx>>
  BY <1>3 DEF IsrOverflow, Overflowed
<1>4. ASSUME NEW k \in Nat, Uart1_Queue' = Append(Uart1_Queue, k), Len(ring') = Len(ring) + k,
             UNCHANGED <<slipped, rx>>
      PROVE  \E cut \in [0..Len(Uart1_Queue') -> 0..Len(ring')] :
                /\ Counts(cut, Uart1_Queue', Len(ring'))
                /\ ~slipped' => cut[Len(Uart1_Queue')] = Len(ring')
  <2>1. PICK cut \in [0..Len(Uart1_Queue) -> 0..Len(ring)] :
            /\ Counts(cut, Uart1_Queue, Len(ring))
            /\ ~slipped => cut[Len(Uart1_Queue)] = Len(ring)
    BY <1>1, <1>4
  <2>2. PICK c : /\ Counts(c, Append(Uart1_Queue, k), Len(ring) + k)
                 /\ c[Len(Uart1_Queue) + 1] = cut[Len(Uart1_Queue)] + k
    <3>1. Counts(cut, Uart1_Queue, Len(ring))
      BY <2>1
    <3>2. k \in Nat /\ Len(ring) \in Nat /\ Uart1_Queue \in Seq(Nat)
      BY <1>0
    <3>3. \A q \in Seq(Nat), n, m \in Nat : \A f :
              Counts(f, q, n) =>
                  \E c : Counts(c, Append(q, m), n + m) /\ c[Len(q) + 1] = f[Len(q)] + m
      BY CountsAppend
    <3> QED BY <3>1, <3>2, <3>3
  <2>3. Len(Uart1_Queue') = Len(Uart1_Queue) + 1
    BY <1>0, <1>4, AppendProperties
  <2>4. Counts(c, Uart1_Queue', Len(ring'))
    BY <1>4, <2>2
  <2>5. ~slipped' => c[Len(Uart1_Queue')] = Len(ring')
    BY <1>4, <2>1, <2>2, <2>3
  <2> QED BY <2>4, <2>5 DEF Counts
<1>5. CASE Data
  <2> DEFINE h == Head(Uart1_Queue)
  <2>1. PICK cut \in [0..Len(Uart1_Queue) -> 0..Len(ring)] :
            /\ Counts(cut, Uart1_Queue, Len(ring))
            /\ ~slipped => cut[Len(Uart1_Queue)] = Len(ring)
    BY <1>1, <1>5 DEF Data
  <2>2. /\ h <= Len(ring)
        /\ \E c \in [0..Len(Tail(Uart1_Queue)) -> 0..Len(ring) - h] :
              /\ Counts(c, Tail(Uart1_Queue), Len(ring) - h)
              /\ c[Len(Tail(Uart1_Queue))] = cut[Len(Uart1_Queue)] - h
    BY <1>0, <1>5, <2>1, CountsTail DEF Data
  <2>3. h \in 0..Len(ring)
    BY <1>0, <1>5, <2>2, QueueHead DEF Data
  <2>4. Len(ring') = Len(ring) - h /\ Uart1_Queue' = Tail(Uart1_Queue) /\ slipped' = slipped
    <3>1. ring \in Seq(Bytes)
      BY DEF Types, BufferTypes
    <3> QED BY <1>5, <2>3, <3>1, TakeDrop DEF Data
  <2> QED BY <2>1, <2>2, <2>4
<1>6. CASE FlushInput
  BY <1>6 DEF FlushInput
<1>7. CASE QueueReset
  <2> DEFINE c == [i \in 0..0 |-> 0]
  <2>1. Uart1_Queue' = <<>> /\ Len(Uart1_Queue') = 0 /\ ring' = ring
    BY <1>7 DEF QueueReset
  <2>2. c \in [0..0 -> 0..Len(ring)] /\ c[0] = 0
    BY <1>0
  <2>3. Counts(c, Uart1_Queue', Len(ring'))
    BY <2>1, <2>2 DEF Counts
  <2>4. ~slipped' => Len(ring') = 0
    BY <1>7 DEF QueueReset
  <2> QED BY <2>1, <2>2, <2>3, <2>4
<1>8. ASSUME UNCHANGED <<ring, Uart1_Queue, slipped>>, rx # "reset"
      PROVE  \E cut \in [0..Len(Uart1_Queue') -> 0..Len(ring')] :
                /\ Counts(cut, Uart1_Queue', Len(ring'))
                /\ ~slipped' => cut[Len(Uart1_Queue')] = Len(ring')
  BY <1>1, <1>8
<1> QED
  <2>1. \/ \E k \in 1..Len(wire) : Isr(k) \/ IsrOverflow(k)
        \/ Data \/ FlushInput \/ QueueReset
        \/ UNCHANGED <<ring, Uart1_Queue, slipped>> /\ rx # "reset"
    BY DEF Next, uart_event_task, Unit_event_task, Ask, AskAgain, Connected, Read_Message, UnitAnswers,
           Clear, Copy,
           vTaskDelay, Nothing, RxClaim, RxClaimed, Wait, Download, ReadByte, Judge, vars
  <2>2. ASSUME NEW k \in 1..Len(wire), IsrOverflow(k) PROVE Len(ring') = Len(ring) + 0
    BY <1>0, <1>3, <2>2
  <2> QED BY <1>2, <1>3, <1>4, <1>5, <1>6, <1>7, <1>8, <2>1, <2>2

LEMMA DropEnds == ASSUME NEW S, NEW s \in Seq(S) PROVE Drop(s, 0) = s /\ Drop(s, Len(s)) = <<>>
<1>1. Len(s) \in Nat
  BY LenProperties
<1>2. SubSeq(s, 1, Len(s)) = s
  BY SubSeqFull
<1>3. SubSeq(s, Len(s) + 1, Len(s)) = <<>>
  BY <1>1, SubSeqEmpty
<1> QED BY <1>1, <1>2, <1>3 DEF Drop

-----------------------------------------------------------------------------
(* The order of the answers *)

\* What Data reads is the beginning of the ring.
LEMMA DataTakes ==
    ASSUME Types, QueueInv, Data
    PROVE  /\ Head(Uart1_Queue) \in 1..Len(ring)
           /\ AtMostCache(Head(Uart1_Queue)) \in 1..Head(Uart1_Queue)
           /\ Len(dtmp') = AtMostCache(Head(Uart1_Queue))
           /\ \A i \in 1..Len(dtmp') : dtmp'[i] = ring[i] /\ i \in 1..Len(ring)
           /\ Len(ring') = Len(ring) - Head(Uart1_Queue)
           /\ \A i \in 1..Len(ring') :
                 /\ ring'[i] = ring[i + Head(Uart1_Queue)]
                 /\ i + Head(Uart1_Queue) \in 1..Len(ring)
<1>1. ring \in Seq(Bytes) /\ Len(ring) \in Nat
  BY LenProperties DEF Types, BufferTypes
<1>2. Head(Uart1_Queue) \in 1..Len(ring)
  BY <1>1, QueueHead DEF Data, Overflowed
<1>3. AtMostCache(Head(Uart1_Queue)) \in 1..Head(Uart1_Queue)
  BY <1>1, <1>2, Constants DEF AtMostCache
<1>4. dtmp' = Take(ring, AtMostCache(Head(Uart1_Queue))) /\ ring' = Drop(ring, Head(Uart1_Queue))
  BY DEF Data
<1>5. Head(Uart1_Queue) \in 0..Len(ring) /\ AtMostCache(Head(Uart1_Queue)) \in 0..Len(ring)
  BY <1>1, <1>2, <1>3
<1>6. /\ Len(dtmp') = AtMostCache(Head(Uart1_Queue))
      /\ \A i \in 1..AtMostCache(Head(Uart1_Queue)) : dtmp'[i] = ring[i]
  BY <1>1, <1>4, <1>5, TakeDrop
<1>7. /\ Len(ring') = Len(ring) - Head(Uart1_Queue)
      /\ \A i \in 1..Len(ring) - Head(Uart1_Queue) : ring'[i] = ring[i + Head(Uart1_Queue)]
  BY <1>1, <1>4, <1>5, TakeDrop
<1> QED BY <1>1, <1>2, <1>3, <1>6, <1>7

\* The interrupt moves bytes of the answer sent last.
LEMMA IsrMoves ==
    ASSUME Types, FlowInv, NEW k \in 1..Len(wire), Isr(k)
    PROVE  /\ sent > 0
           /\ Len(ring') = Len(ring) + k
           /\ \A i \in 1..Len(ring') : IF i <= Len(ring) THEN ring'[i] = ring[i] ELSE ring'[i].frame = sent
           /\ \A i \in 1..Len(wire') : wire'[i].frame = sent
<1>1. wire \in Seq(Bytes) /\ ring \in Seq(Bytes) /\ Len(wire) \in Nat /\ Len(ring) \in Nat /\ k \in 0..Len(wire)
  BY LenProperties DEF Types, BufferTypes
<1>2. ring' = ring \o Take(wire, k) /\ wire' = Drop(wire, k)
  BY DEF Isr
<1>3. /\ Take(wire, k) \in Seq(Bytes) /\ Len(Take(wire, k)) = k
      /\ \A i \in 1..k : Take(wire, k)[i] = wire[i]
      /\ Len(Drop(wire, k)) = Len(wire) - k
      /\ \A i \in 1..Len(wire) - k : Drop(wire, k)[i] = wire[i + k]
  BY <1>1, TakeDrop
<1>4. /\ Len(ring \o Take(wire, k)) = Len(ring) + k
      /\ \A i \in 1..Len(ring) + k :
            (ring \o Take(wire, k))[i] = IF i <= Len(ring) THEN ring[i] ELSE Take(wire, k)[i - Len(ring)]
  <2> DEFINE t == Take(wire, k)
  <2>1. t \in Seq(Bytes) /\ Len(t) = k /\ ring \in Seq(Bytes)
    BY <1>1, <1>3
  <2> HIDE DEF t
  <2>2. /\ Len(ring \o t) = Len(ring) + Len(t)
        /\ \A i \in 1..Len(ring) + Len(t) : (ring \o t)[i] = IF i <= Len(ring) THEN ring[i] ELSE t[i - Len(ring)]
    BY <2>1, ConcatProperties
  <2> QED BY <2>1, <2>2 DEF t
<1>5. sent > 0 /\ \A i \in 1..Len(wire) : wire[i].frame = sent
  BY DEF FlowInv
<1>6. ASSUME NEW i \in 1..Len(ring')
      PROVE  IF i <= Len(ring) THEN ring'[i] = ring[i] ELSE ring'[i].frame = sent
  <2>1. CASE i <= Len(ring)
    BY <1>2, <1>4, <1>6, <2>1
  <2>2. CASE ~(i <= Len(ring))
    <3>1. i - Len(ring) \in 1..k /\ i \in 1..Len(ring) + k
      BY <1>1, <1>2, <1>4, <1>6, <2>2
    <3>2. ring'[i] = wire[i - Len(ring)] /\ i - Len(ring) \in 1..Len(wire)
      BY <1>1, <1>2, <1>3, <1>4, <2>2, <3>1
    <3> QED BY <1>5, <2>2, <3>2
  <2> QED BY <2>1, <2>2
<1>7. ASSUME NEW i \in 1..Len(wire') PROVE wire'[i].frame = sent
  <2>1. i \in 1..Len(wire) - k /\ i + k \in 1..Len(wire)
    BY <1>1, <1>2, <1>3
  <2> QED BY <1>2, <1>3, <1>5, <2>1
<1> QED BY <1>2, <1>4, <1>5, <1>6, <1>7

\* One more byte is copied.
LEMMA ReadMoves ==
    ASSUME Types, ClaimInv, ReadByte
    PROVE  /\ s_rx_claim_pos = Len(buff_ser1) /\ s_rx_claim_pos + 1 \in 1..Len(s_rx_cache)
           /\ Len(buff_ser1') = s_rx_claim_pos + 1
           /\ \A i \in 1..s_rx_claim_pos : buff_ser1'[i] = buff_ser1[i] /\ i \in 1..Len(buff_ser1)
           /\ buff_ser1'[s_rx_claim_pos + 1] = s_rx_cache[s_rx_claim_pos + 1]
<1>1. s_rx_claim_pos + 1 \in 1..Len(s_rx_cache) /\ s_rx_claim_pos = Len(buff_ser1)
  BY Constants DEF ReadByte, ClaimInv, Claimed, Deaf, Types, StateTypes, BufferTypes
<1>2. s_rx_cache[s_rx_claim_pos + 1] \in Bytes /\ buff_ser1 \in Seq(Bytes)
  BY <1>1, ElementOfSeq DEF Types, BufferTypes
<1>3. buff_ser1' = Append(buff_ser1, s_rx_cache[s_rx_claim_pos + 1])
  BY DEF ReadByte
<1>4. /\ Len(buff_ser1') = Len(buff_ser1) + 1 /\ Len(buff_ser1) \in Nat
      /\ \A i \in 1..Len(buff_ser1) : buff_ser1'[i] = buff_ser1[i]
      /\ buff_ser1'[Len(buff_ser1) + 1] = s_rx_cache[s_rx_claim_pos + 1]
  BY <1>2, <1>3, AppendProperties, LenProperties
<1> QED BY <1>1, <1>4

\* Frame numbers and places are numbers.
LEMMA Numbers ==
    ASSUME Types
    PROVE  /\ sent \in Nat
           /\ \A i \in 1..Len(ring) : ring[i].frame \in Nat
           /\ \A i \in 1..Len(dtmp) : dtmp[i].frame \in Nat
           /\ \A i \in 1..Len(s_rx_cache) : s_rx_cache[i].frame \in Nat
           /\ \A i \in 1..Len(buff_ser1) : buff_ser1[i].frame \in Nat
           /\ Len(ring) \in Nat /\ Len(dtmp) \in Nat /\ Len(s_rx_cache) \in Nat /\ Len(buff_ser1) \in Nat
           /\ Len(got) \in Nat /\ \A g \in 1..Len(got) : got[g] \in Nat
<1>1. ASSUME NEW s \in Seq(Bytes) PROVE Len(s) \in Nat /\ \A i \in 1..Len(s) : s[i].frame \in Nat
  <2>1. Len(s) \in Nat /\ \A i \in 1..Len(s) : s[i] \in Bytes
    BY ElementOfSeq, LenProperties
  <2>2. \A b \in Bytes : b.frame \in Nat
    BY Constants DEF Bytes
  <2> QED BY <2>1, <2>2
<1>2. Len(got) \in Nat /\ \A g \in 1..Len(got) : got[g] \in Nat
  BY ElementOfSeq, LenProperties DEF Types, BufferTypes
<1>3. sent \in Nat
  BY Constants DEF Types, StateTypes
<1> QED BY <1>1, <1>2, <1>3 DEF Types, BufferTypes

\* A whole copy is of an answer that was sent, no earlier than one that was accepted.
LEMMA Judgement ==
    ASSUME Types, FlowInv, Whole(buff_ser1)
    PROVE  /\ Len(buff_ser1) \in Nat \ {0} /\ buff_ser1[1].frame \in 1..sent
           /\ \A g \in 1..Len(got) : got[g] <= buff_ser1[1].frame
<1>1. Len(buff_ser1) \in Nat \ {0}
  BY EmptySeq, LenProperties DEF Whole, Types, BufferTypes
<1>2. buff_ser1[1].at = 1
  <2>1. buff_ser1[1] = [frame |-> buff_ser1[1].frame, at |-> 1, of |-> Len(buff_ser1)]
    BY <1>1 DEF Whole, Frame
  <2> QED BY <2>1
<1>3. buff_ser1[1].frame \in 0..sent /\ buff_ser1[1].frame # 0
  BY <1>1, <1>2 DEF FlowInv, Known
<1>4. sent \in Nat
  BY Numbers
<1>5. \A g \in 1..Len(got) : got[g] <= buff_ser1[1].frame
  BY <1>1, <1>3 DEF FlowInv, Fresh
<1> QED BY <1>1, <1>3, <1>4, <1>5

\* Every step keeps the order.
LEMMA NextFlow == Types /\ BufferTypes' /\ ClaimInv /\ QueueInv /\ FlowInv /\ [Next]_vars => FlowInv'
<1> SUFFICES ASSUME Types, BufferTypes', ClaimInv, QueueInv, FlowInv, [Next]_vars PROVE FlowInv'
  OBVIOUS
<1> USE DEF driver, cache, receiver, claim, asking, reader, line
<1>0. /\ sent \in Nat
      /\ \A i \in 1..Len(ring) : ring[i].frame \in Nat
      /\ \A i \in 1..Len(dtmp) : dtmp[i].frame \in Nat
      /\ \A i \in 1..Len(s_rx_cache) : s_rx_cache[i].frame \in Nat
      /\ \A i \in 1..Len(buff_ser1) : buff_ser1[i].frame \in Nat
      /\ Len(ring) \in Nat /\ Len(dtmp) \in Nat /\ Len(s_rx_cache) \in Nat /\ Len(buff_ser1) \in Nat
      /\ Len(got) \in Nat /\ \A g \in 1..Len(got) : got[g] \in Nat
  BY Numbers
<1>1. ASSUME NEW len \in Lengths, UnitAnswers(len) PROVE FlowInv'
  <2>1. sent' = sent + 1 /\ UNCHANGED <<ring, dtmp, s_rx_cache, buff_ser1, got, rx>>
    BY <1>1 DEF UnitAnswers
  <2>2. \A i \in 1..Len(wire') : wire'[i].frame = sent'
    <3>1. wire' = Frame(sent', len) /\ len \in Nat
      BY <1>1, Constants DEF UnitAnswers
    <3> QED BY <3>1 DEF Frame
  <2>3. Known(ring)' /\ Known(dtmp)' /\ Known(s_rx_cache)' /\ Known(buff_ser1)'
    <3>1. 0..sent \subseteq 0..sent'
      BY <1>0, <2>1
    <3>2. Known(ring) /\ Known(dtmp) /\ Known(s_rx_cache) /\ Known(buff_ser1)
      BY DEF FlowInv
    <3>3. Known(ring)' /\ Known(dtmp)'
      BY <2>1, <3>1, <3>2 DEF Known
    <3>4. Known(s_rx_cache)' /\ Known(buff_ser1)'
      BY <2>1, <3>1, <3>2 DEF Known
    <3> QED BY <3>3, <3>4
  <2>4. \A g \in 1..Len(got') : got'[g] \in 1..sent'
    BY <1>0, <2>1 DEF FlowInv
  <2>5. /\ Along(ring, ring)' /\ Along(dtmp, dtmp)' /\ Along(s_rx_cache, s_rx_cache)'
        /\ Upto(dtmp, ring)' /\ Upto(s_rx_cache, ring)' /\ Upto(s_rx_cache, dtmp)'
        /\ Upto(buff_ser1, ring)' /\ Upto(buff_ser1, dtmp)' /\ Along(buff_ser1, s_rx_cache)'
        /\ Fresh(ring)' /\ Fresh(dtmp)' /\ Fresh(s_rx_cache)' /\ Fresh(buff_ser1)'
    BY <2>1 DEF FlowInv, Along, Upto, Fresh
  <2>6. /\ rx' = "copy" => \A i \in 1..Len(s_rx_cache') : s_rx_cache'[i].frame = 0
        /\ rx' \in {"wait", "reset"} => dtmp' = <<>>
    BY <2>1 DEF FlowInv
  <2> QED BY <1>0, <2>1, <2>2, <2>3, <2>4, <2>5, <2>6 DEF FlowInv
<1>2. ASSUME NEW k \in 1..Len(wire), Isr(k) PROVE FlowInv'
  <2>1. /\ sent > 0 /\ Len(ring') = Len(ring) + k /\ k \in Nat
        /\ \A i \in 1..Len(ring') : IF i <= Len(ring) THEN ring'[i] = ring[i] ELSE ring'[i].frame = sent
        /\ \A i \in 1..Len(wire') : wire'[i].frame = sent
    BY <1>2, IsrMoves
  <2>2. UNCHANGED <<sent, dtmp, s_rx_cache, buff_ser1, got, rx>>
    BY <1>2 DEF Isr
  <2>3. /\ \A i \in 1..Len(ring) : ring[i].frame <= sent
        /\ \A i \in 1..Len(dtmp) : dtmp[i].frame <= sent
        /\ \A i \in 1..Len(s_rx_cache) : s_rx_cache[i].frame <= sent
        /\ \A i \in 1..Len(buff_ser1) : buff_ser1[i].frame <= sent
        /\ \A g \in 1..Len(got) : got[g] <= sent
    BY <1>0 DEF FlowInv, Known
  <2>4. Known(ring)'
    <3>1. ASSUME NEW i \in 1..Len(ring')
          PROVE  ring'[i].frame \in 0..sent /\ (ring'[i].frame = 0 => ring'[i].at = 0)
      <4>1. CASE i <= Len(ring)
        <5>1. i \in 1..Len(ring) /\ ring'[i] = ring[i]
          BY <1>0, <2>1, <3>1, <4>1
        <5> QED BY <5>1 DEF FlowInv, Known
      <4>2. CASE ~(i <= Len(ring))
        <5>1. ring'[i].frame = sent
          BY <2>1, <4>2
        <5> QED BY <1>0, <2>1, <5>1
      <4> QED BY <4>1, <4>2
    <3> QED BY <2>2, <3>1 DEF Known
  <2>5. Along(ring, ring)'
    <3>1. ASSUME NEW i \in 1..Len(ring'), NEW j \in 1..Len(ring'), i <= j, ring'[j].frame # 0
          PROVE  ring'[i].frame <= ring'[j].frame
      <4>1. CASE j <= Len(ring)
        <5>1. i \in 1..Len(ring) /\ j \in 1..Len(ring) /\ ring'[i] = ring[i] /\ ring'[j] = ring[j]
          BY <1>0, <2>1, <3>1, <4>1
        <5> QED BY <3>1, <5>1 DEF FlowInv, Along
      <4>2. CASE ~(j <= Len(ring))
        <5>1. ring'[j].frame = sent
          BY <2>1, <4>2
        <5>2. ring'[i].frame <= sent
          <6>1. CASE i <= Len(ring)
            BY <1>0, <2>1, <2>3, <6>1
          <6>2. CASE ~(i <= Len(ring))
            BY <1>0, <2>1, <6>2
          <6> QED BY <6>1, <6>2
        <5> QED BY <5>1, <5>2
      <4> QED BY <4>1, <4>2
    <3> QED BY <3>1 DEF Along
  <2>6. \A j \in 1..Len(ring') : (j \in 1..Len(ring) /\ ring'[j] = ring[j]) \/ ring'[j].frame = sent
    BY <1>0, <2>1
  <2>7. Upto(dtmp, ring)' /\ Upto(s_rx_cache, ring)' /\ Upto(buff_ser1, ring)' /\ Fresh(ring)'
    <3>1. Upto(dtmp, ring)'
      BY <2>2, <2>3, <2>6 DEF FlowInv, Upto
    <3>2. Upto(s_rx_cache, ring)'
      BY <2>2, <2>3, <2>6 DEF FlowInv, Upto
    <3>3. Upto(buff_ser1, ring)'
      BY <2>2, <2>3, <2>6 DEF FlowInv, Upto
    <3>4. Fresh(ring)'
      BY <2>2, <2>3, <2>6 DEF FlowInv, Fresh
    <3> QED BY <3>1, <3>2, <3>3, <3>4
  <2>8. /\ Known(dtmp)' /\ Known(s_rx_cache)' /\ Known(buff_ser1)'
        /\ Along(dtmp, dtmp)' /\ Along(s_rx_cache, s_rx_cache)' /\ Along(buff_ser1, s_rx_cache)'
        /\ Upto(s_rx_cache, dtmp)' /\ Upto(buff_ser1, dtmp)'
        /\ Fresh(dtmp)' /\ Fresh(s_rx_cache)' /\ Fresh(buff_ser1)'
    BY <2>2 DEF FlowInv, Known, Along, Upto, Fresh
  <2>9. /\ rx' = "copy" => \A i \in 1..Len(s_rx_cache') : s_rx_cache'[i].frame = 0
        /\ rx' \in {"wait", "reset"} => dtmp' = <<>>
        /\ \A g \in 1..Len(got') : got'[g] \in 1..sent'
    BY <2>2 DEF FlowInv
  <2> QED BY <2>1, <2>2, <2>4, <2>5, <2>7, <2>8, <2>9 DEF FlowInv
<1>3. ASSUME NEW k \in 1..Len(wire), IsrOverflow(k) PROVE FlowInv'
  <2>1. UNCHANGED <<sent, ring, dtmp, s_rx_cache, buff_ser1, got, rx>>
    BY <1>3 DEF IsrOverflow
  <2>2. sent > 0 /\ \A i \in 1..Len(wire') : wire'[i].frame = sent
    <3>1. wire \in Seq(Bytes) /\ Len(wire) \in Nat /\ k \in 0..Len(wire) /\ wire' = Drop(wire, k)
      BY <1>3, LenProperties DEF Types, BufferTypes, IsrOverflow
    <3>2. /\ Len(wire') = Len(wire) - k
          /\ \A i \in 1..Len(wire) - k : wire'[i] = wire[i + k]
      BY <3>1, TakeDrop
    <3>3. \A i \in 1..Len(wire') : wire'[i] = wire[i + k] /\ i + k \in 1..Len(wire)
      BY <3>1, <3>2
    <3>4. sent > 0 /\ \A i \in 1..Len(wire) : wire[i].frame = sent
      BY DEF FlowInv
    <3> QED BY <3>3, <3>4
  <2>3. /\ Known(ring)' /\ Known(dtmp)' /\ Known(s_rx_cache)' /\ Known(buff_ser1)'
        /\ Along(ring, ring)' /\ Along(dtmp, dtmp)' /\ Along(s_rx_cache, s_rx_cache)'
        /\ Upto(dtmp, ring)' /\ Upto(s_rx_cache, ring)' /\ Upto(s_rx_cache, dtmp)'
        /\ Upto(buff_ser1, ring)' /\ Upto(buff_ser1, dtmp)' /\ Along(buff_ser1, s_rx_cache)'
        /\ Fresh(ring)' /\ Fresh(dtmp)' /\ Fresh(s_rx_cache)' /\ Fresh(buff_ser1)'
    BY <2>1 DEF FlowInv, Known, Along, Upto, Fresh
  <2>4. /\ rx' = "copy" => \A i \in 1..Len(s_rx_cache') : s_rx_cache'[i].frame = 0
        /\ rx' \in {"wait", "reset"} => dtmp' = <<>>
        /\ \A g \in 1..Len(got') : got'[g] \in 1..sent'
    BY <2>1 DEF FlowInv
  <2> QED BY <2>1, <2>2, <2>3, <2>4 DEF FlowInv
<1>4. CASE Data
  <2> DEFINE h == Head(Uart1_Queue)
  <2>1. /\ h \in 1..Len(ring) /\ Len(dtmp') \in 1..h
        /\ \A i \in 1..Len(dtmp') : dtmp'[i] = ring[i] /\ i \in 1..Len(ring)
        /\ Len(ring') = Len(ring) - h
        /\ \A i \in 1..Len(ring') : ring'[i] = ring[i + h] /\ i + h \in 1..Len(ring)
    BY <1>4, DataTakes
  <2>10. /\ \A j \in 1..Len(dtmp') : \E l \in 1..Len(ring) : dtmp'[j] = ring[l]
         /\ \A j \in 1..Len(ring') : \E l \in 1..Len(ring) : ring'[j] = ring[l]
    BY <2>1
  <2>2. UNCHANGED <<wire, sent, s_rx_cache, buff_ser1, got>> /\ rx' = "clear"
    BY <1>4 DEF Data
  <2> HIDE DEF h
  <2>3. Known(ring)' /\ Known(dtmp)'
    <3>1. \A l \in 1..Len(ring) : ring[l].frame \in 0..sent /\ (ring[l].frame = 0 => ring[l].at = 0)
      BY DEF FlowInv, Known
    <3>2. Known(ring)'
      BY <2>2, <2>10, <3>1 DEF Known
    <3>3. Known(dtmp)'
      BY <2>2, <2>10, <3>1 DEF Known
    <3> QED BY <3>2, <3>3
  <2>4. Along(ring, ring)' /\ Along(dtmp, dtmp)'
    <3>1. ASSUME NEW i \in 1..Len(ring'), NEW j \in 1..Len(ring'), i <= j, ring'[j].frame # 0
          PROVE  ring'[i].frame <= ring'[j].frame
      <4>1. i + h \in 1..Len(ring) /\ j + h \in 1..Len(ring) /\ ring'[i] = ring[i + h] /\ ring'[j] = ring[j + h]
        BY <2>1
      <4>2. i + h <= j + h
        BY <1>0, <2>1, <3>1
      <4> QED BY <3>1, <4>1, <4>2 DEF FlowInv, Along
    <3>2. ASSUME NEW i \in 1..Len(dtmp'), NEW j \in 1..Len(dtmp'), i <= j, dtmp'[j].frame # 0
          PROVE  dtmp'[i].frame <= dtmp'[j].frame
      <4>1. i \in 1..Len(ring) /\ j \in 1..Len(ring) /\ dtmp'[i] = ring[i] /\ dtmp'[j] = ring[j]
        BY <2>1
      <4> QED BY <3>2, <4>1 DEF FlowInv, Along
    <3> QED BY <3>1, <3>2 DEF Along
  <2>5. Upto(dtmp, ring)'
    <3>1. ASSUME NEW i \in 1..Len(dtmp'), NEW j \in 1..Len(ring'), ring'[j].frame # 0
          PROVE  dtmp'[i].frame <= ring'[j].frame
      <4>1. i <= j + h /\ i \in 1..Len(ring) /\ j + h \in 1..Len(ring)
        BY <1>0, <2>1
      <4>2. ring[i].frame <= ring[j + h].frame
        BY <2>1, <3>1, <4>1 DEF FlowInv, Along
      <4> QED BY <2>1, <4>2
    <3> QED BY <3>1 DEF Upto
  <2>6. Upto(s_rx_cache, ring)' /\ Upto(s_rx_cache, dtmp)' /\ Upto(buff_ser1, ring)' /\ Upto(buff_ser1, dtmp)'
    <3>1. /\ \A i \in 1..Len(s_rx_cache), l \in 1..Len(ring) :
                 ring[l].frame # 0 => s_rx_cache[i].frame <= ring[l].frame
          /\ \A i \in 1..Len(buff_ser1), l \in 1..Len(ring) :
                 ring[l].frame # 0 => buff_ser1[i].frame <= ring[l].frame
      BY DEF FlowInv, Upto
    <3>2. ASSUME NEW t, \A j \in 1..Len(t) : \E l \in 1..Len(ring) : t[j] = ring[l]
          PROVE  Upto(s_rx_cache, t) /\ Upto(buff_ser1, t)
      BY <3>1, <3>2 DEF Upto
    <3>3. Upto(s_rx_cache, ring') /\ Upto(buff_ser1, ring') /\ Upto(s_rx_cache, dtmp') /\ Upto(buff_ser1, dtmp')
      BY <2>10, <3>2
    <3> QED BY <2>2, <3>3 DEF Upto
  <2>7. Fresh(ring)' /\ Fresh(dtmp)'
    <3>1. \A g \in 1..Len(got), l \in 1..Len(ring) : ring[l].frame # 0 => got[g] <= ring[l].frame
      BY DEF FlowInv, Fresh
    <3>2. ASSUME NEW t, \A j \in 1..Len(t) : \E l \in 1..Len(ring) : t[j] = ring[l]
          PROVE  \A g \in 1..Len(got), j \in 1..Len(t) : t[j].frame # 0 => got[g] <= t[j].frame
      BY <3>1, <3>2
    <3> QED BY <2>2, <2>10, <3>2 DEF Fresh
  <2>8. /\ Known(s_rx_cache)' /\ Known(buff_ser1)'
        /\ Along(s_rx_cache, s_rx_cache)' /\ Along(buff_ser1, s_rx_cache)'
        /\ Fresh(s_rx_cache)' /\ Fresh(buff_ser1)'
    BY <2>2 DEF FlowInv, Known, Along, Fresh
  <2>9. /\ \A i \in 1..Len(wire') : sent' > 0 /\ wire'[i].frame = sent'
        /\ \A g \in 1..Len(got') : got'[g] \in 1..sent'
    BY <2>2 DEF FlowInv
  <2> QED BY <2>2, <2>3, <2>4, <2>5, <2>6, <2>7, <2>8, <2>9 DEF FlowInv
<1>5. CASE Clear
  <2>1. /\ UNCHANGED <<wire, sent, ring, dtmp, buff_ser1, got>> /\ rx' = "copy" /\ s_rx_cache' = Zeros
    BY <1>5 DEF Clear
  <2>2. \A i \in 1..Len(s_rx_cache') : s_rx_cache'[i].frame = 0 /\ s_rx_cache'[i].at = 0
    BY <2>1, ZerosType
  <2>3. /\ Known(s_rx_cache)' /\ Along(s_rx_cache, s_rx_cache)' /\ Along(buff_ser1, s_rx_cache)'
        /\ Fresh(s_rx_cache)'
    <3>1. 0 \in 0..sent
      BY <1>0
    <3>2. Known(s_rx_cache)'
      BY <2>1, <2>2, <3>1 DEF Known
    <3>3. Along(s_rx_cache, s_rx_cache)' /\ Along(buff_ser1, s_rx_cache)' /\ Fresh(s_rx_cache)'
      BY <2>1, <2>2 DEF Along, Fresh
    <3> QED BY <3>2, <3>3
  <2>4. Upto(s_rx_cache, ring)' /\ Upto(s_rx_cache, dtmp)'
    <3>1. \A i \in 1..Len(ring) : 0 <= ring[i].frame
      BY <1>0
    <3>2. \A i \in 1..Len(dtmp) : 0 <= dtmp[i].frame
      BY <1>0
    <3> QED BY <2>1, <2>2, <3>1, <3>2 DEF Upto
  <2>5. /\ Known(ring)' /\ Known(dtmp)' /\ Known(buff_ser1)'
        /\ Along(ring, ring)' /\ Along(dtmp, dtmp)'
        /\ Upto(dtmp, ring)' /\ Upto(buff_ser1, ring)' /\ Upto(buff_ser1, dtmp)'
        /\ Fresh(ring)' /\ Fresh(dtmp)' /\ Fresh(buff_ser1)'
    BY <2>1 DEF FlowInv, Known, Along, Upto, Fresh
  <2>6. /\ \A i \in 1..Len(wire') : sent' > 0 /\ wire'[i].frame = sent'
        /\ \A g \in 1..Len(got') : got'[g] \in 1..sent'
    BY <2>1 DEF FlowInv
  <2> QED BY <2>1, <2>2, <2>3, <2>4, <2>5, <2>6 DEF FlowInv
<1>6. CASE Copy
  <2>1. /\ UNCHANGED <<wire, sent, ring, buff_ser1, got>> /\ rx' = "wait" /\ dtmp' = <<>> /\ rx = "copy"
        /\ Len(s_rx_cache') = Len(s_rx_cache)
        /\ \A i \in 1..Len(s_rx_cache) :
               s_rx_cache'[i] = IF i <= Len(dtmp) THEN dtmp[i] ELSE s_rx_cache[i]
    BY <1>6, Constants DEF Copy, Types, BufferTypes
  <2>2. \A i \in 1..Len(s_rx_cache) : s_rx_cache[i].frame = 0 /\ s_rx_cache[i].at = 0
    BY <2>1 DEF FlowInv, Known
  <2>3. \A i \in 1..Len(s_rx_cache') :
            \/ i \in 1..Len(dtmp) /\ s_rx_cache'[i] = dtmp[i]
            \/ s_rx_cache'[i].frame = 0 /\ s_rx_cache'[i].at = 0
    BY <1>0, <2>1, <2>2
  <2>4. Known(s_rx_cache)'
    BY <1>0, <2>1, <2>3 DEF FlowInv, Known
  <2>5. Along(s_rx_cache, s_rx_cache)'
    <3>1. ASSUME NEW i \in 1..Len(s_rx_cache'), NEW j \in 1..Len(s_rx_cache'),
                 i <= j, s_rx_cache'[j].frame # 0
          PROVE  s_rx_cache'[i].frame <= s_rx_cache'[j].frame
      <4>1. j \in 1..Len(dtmp) /\ s_rx_cache'[j] = dtmp[j]
        BY <2>3, <3>1
      <4>2. i \in 1..Len(dtmp) /\ s_rx_cache'[i] = dtmp[i]
        BY <1>0, <2>1, <3>1, <4>1
      <4> QED BY <3>1, <4>1, <4>2 DEF FlowInv, Along
    <3> QED BY <3>1 DEF Along
  <2>6. Along(buff_ser1, s_rx_cache)'
    BY <2>1, <2>3 DEF FlowInv, Along, Upto
  <2>7. Fresh(s_rx_cache)'
    BY <2>1, <2>3 DEF FlowInv, Fresh
  <2>8. Upto(s_rx_cache, ring)'
    BY <1>0, <2>1, <2>3 DEF FlowInv, Upto
  <2>9. /\ Known(dtmp)' /\ Along(dtmp, dtmp)' /\ Upto(dtmp, ring)' /\ Upto(s_rx_cache, dtmp)'
        /\ Upto(buff_ser1, dtmp)' /\ Fresh(dtmp)'
    BY <2>1 DEF Known, Along, Upto, Fresh
  <2>10. /\ Known(ring)' /\ Known(buff_ser1)' /\ Along(ring, ring)' /\ Upto(buff_ser1, ring)'
         /\ Fresh(ring)' /\ Fresh(buff_ser1)'
    BY <2>1 DEF FlowInv, Known, Along, Upto, Fresh
  <2>11. /\ \A i \in 1..Len(wire') : sent' > 0 /\ wire'[i].frame = sent'
         /\ \A g \in 1..Len(got') : got'[g] \in 1..sent'
    BY <2>1 DEF FlowInv
  <2> QED BY <2>1, <2>4, <2>5, <2>6, <2>7, <2>8, <2>9, <2>10, <2>11 DEF FlowInv
<1>7. CASE FlushInput
  <2>1. UNCHANGED <<wire, sent, dtmp, s_rx_cache, buff_ser1, got>> /\ rx = "wait" /\ rx' = "reset" /\ ring' = <<>>
    BY <1>7 DEF FlushInput
  <2>2. /\ Known(ring)' /\ Along(ring, ring)' /\ Upto(dtmp, ring)' /\ Upto(s_rx_cache, ring)'
        /\ Upto(buff_ser1, ring)' /\ Fresh(ring)'
    BY <2>1 DEF Known, Along, Upto, Fresh
  <2>3. /\ Known(dtmp)' /\ Known(s_rx_cache)' /\ Known(buff_ser1)'
        /\ Along(dtmp, dtmp)' /\ Along(s_rx_cache, s_rx_cache)' /\ Along(buff_ser1, s_rx_cache)'
        /\ Upto(s_rx_cache, dtmp)' /\ Upto(buff_ser1, dtmp)'
        /\ Fresh(dtmp)' /\ Fresh(s_rx_cache)' /\ Fresh(buff_ser1)'
    BY <2>1 DEF FlowInv, Known, Along, Upto, Fresh
  <2>4. /\ \A i \in 1..Len(wire') : sent' > 0 /\ wire'[i].frame = sent'
        /\ \A g \in 1..Len(got') : got'[g] \in 1..sent'
        /\ dtmp' = <<>>
    BY <2>1 DEF FlowInv
  <2> QED BY <2>1, <2>2, <2>3, <2>4 DEF FlowInv
<1>8. CASE ReadByte
  <2> DEFINE p == s_rx_claim_pos + 1
  <2>1. /\ p = Len(buff_ser1) + 1 /\ p \in 1..Len(s_rx_cache) /\ Len(buff_ser1') = p
        /\ \A i \in 1..Len(buff_ser1') :
              \/ i \in 1..Len(buff_ser1) /\ buff_ser1'[i] = buff_ser1[i]
              \/ i = p /\ buff_ser1'[i] = s_rx_cache[p]
    BY <1>0, <1>8, ReadMoves
  <2>2. UNCHANGED <<wire, sent, ring, dtmp, s_rx_cache, got, rx>>
    BY <1>8 DEF ReadByte
  <2> HIDE DEF p
  <2>3. Known(buff_ser1)'
    BY <2>1, <2>2 DEF FlowInv, Known
  <2>4. Upto(buff_ser1, ring)' /\ Upto(buff_ser1, dtmp)'
    BY <2>1, <2>2 DEF FlowInv, Upto
  <2>5. Along(buff_ser1, s_rx_cache)'
    BY <2>1, <2>2 DEF FlowInv, Along
  <2>6. Fresh(buff_ser1)'
    BY <2>1, <2>2 DEF FlowInv, Fresh
  <2>7. /\ Known(ring)' /\ Known(dtmp)' /\ Known(s_rx_cache)'
        /\ Along(ring, ring)' /\ Along(dtmp, dtmp)' /\ Along(s_rx_cache, s_rx_cache)'
        /\ Upto(dtmp, ring)' /\ Upto(s_rx_cache, ring)' /\ Upto(s_rx_cache, dtmp)'
        /\ Fresh(ring)' /\ Fresh(dtmp)' /\ Fresh(s_rx_cache)'
    BY <2>2 DEF FlowInv, Known, Along, Upto, Fresh
  <2>8. /\ \A i \in 1..Len(wire') : sent' > 0 /\ wire'[i].frame = sent'
        /\ \A g \in 1..Len(got') : got'[g] \in 1..sent'
        /\ rx' = "copy" => \A i \in 1..Len(s_rx_cache') : s_rx_cache'[i].frame = 0
        /\ rx' \in {"wait", "reset"} => dtmp' = <<>>
    BY <2>2 DEF FlowInv
  <2> QED BY <2>3, <2>4, <2>5, <2>6, <2>7, <2>8 DEF FlowInv
<1>9. CASE Judge /\ Whole(buff_ser1)
  <2> DEFINE n == buff_ser1[1].frame
  <2>1. /\ UNCHANGED <<wire, sent, ring, dtmp, s_rx_cache, rx>> /\ buff_ser1' = <<>>
        /\ got' = Append(got, n)
    BY <1>9 DEF Judge
  <2>2. /\ Len(buff_ser1) \in Nat \ {0} /\ n \in 1..sent
        /\ \A g \in 1..Len(got) : got[g] <= n
    BY <1>9, Judgement
  <2>3. \A g \in 1..Len(got') : (g \in 1..Len(got) /\ got'[g] = got[g]) \/ got'[g] = n
    <3>1. got \in Seq(Nat) /\ n \in Nat
      BY <1>0, <2>2 DEF Types, BufferTypes
    <3> QED BY <1>0, <2>1, <3>1, AppendProperties
  <2>4. 1 \in 1..Len(buff_ser1)
    BY <2>2
  <2> HIDE DEF n
  <2>5. /\ \A j \in 1..Len(ring) : ring[j].frame # 0 => n <= ring[j].frame
        /\ \A j \in 1..Len(dtmp) : dtmp[j].frame # 0 => n <= dtmp[j].frame
    BY <2>4 DEF FlowInv, Upto, n
  <2>6. \A j \in 1..Len(s_rx_cache) : s_rx_cache[j].frame # 0 => n <= s_rx_cache[j].frame
    BY <1>0, <2>4 DEF FlowInv, Along, n
  <2>7. Fresh(ring)' /\ Fresh(dtmp)' /\ Fresh(s_rx_cache)'
    BY <2>1, <2>3, <2>5, <2>6 DEF FlowInv, Fresh
  <2>8. \A g \in 1..Len(got') : got'[g] \in 1..sent'
    BY <2>1, <2>2, <2>3 DEF FlowInv
  <2>9. /\ Known(buff_ser1)' /\ Upto(buff_ser1, ring)' /\ Upto(buff_ser1, dtmp)'
        /\ Along(buff_ser1, s_rx_cache)' /\ Fresh(buff_ser1)'
    BY <2>1 DEF Known, Along, Upto, Fresh
  <2>10. /\ Known(ring)' /\ Known(dtmp)' /\ Known(s_rx_cache)'
         /\ Along(ring, ring)' /\ Along(dtmp, dtmp)' /\ Along(s_rx_cache, s_rx_cache)'
         /\ Upto(dtmp, ring)' /\ Upto(s_rx_cache, ring)' /\ Upto(s_rx_cache, dtmp)'
    BY <2>1 DEF FlowInv, Known, Along, Upto
  <2>11. /\ \A i \in 1..Len(wire') : sent' > 0 /\ wire'[i].frame = sent'
         /\ rx' = "copy" => \A i \in 1..Len(s_rx_cache') : s_rx_cache'[i].frame = 0
         /\ rx' \in {"wait", "reset"} => dtmp' = <<>>
    BY <2>1 DEF FlowInv
  <2> QED BY <2>7, <2>8, <2>9, <2>10, <2>11 DEF FlowInv
<1>10. CASE Download \/ (Judge /\ ~Whole(buff_ser1))
  <2>1. UNCHANGED <<wire, sent, ring, dtmp, s_rx_cache, got, rx>> /\ buff_ser1' = <<>>
    BY <1>10 DEF Download, Judge
  <2>2. /\ Known(buff_ser1)' /\ Upto(buff_ser1, ring)' /\ Upto(buff_ser1, dtmp)'
        /\ Along(buff_ser1, s_rx_cache)' /\ Fresh(buff_ser1)'
    BY <2>1 DEF Known, Along, Upto, Fresh
  <2>3. /\ Known(ring)' /\ Known(dtmp)' /\ Known(s_rx_cache)'
        /\ Along(ring, ring)' /\ Along(dtmp, dtmp)' /\ Along(s_rx_cache, s_rx_cache)'
        /\ Upto(dtmp, ring)' /\ Upto(s_rx_cache, ring)' /\ Upto(s_rx_cache, dtmp)'
        /\ Fresh(ring)' /\ Fresh(dtmp)' /\ Fresh(s_rx_cache)'
    <3>1. Known(ring)' /\ Known(dtmp)' /\ Known(s_rx_cache)'
      BY <2>1 DEF FlowInv, Known
    <3>2. Along(ring, ring)' /\ Along(dtmp, dtmp)' /\ Along(s_rx_cache, s_rx_cache)'
      BY <2>1 DEF FlowInv, Along
    <3>3. Upto(dtmp, ring)' /\ Upto(s_rx_cache, ring)' /\ Upto(s_rx_cache, dtmp)'
      BY <2>1 DEF FlowInv, Upto
    <3>4. Fresh(ring)' /\ Fresh(dtmp)' /\ Fresh(s_rx_cache)'
      BY <2>1 DEF FlowInv, Fresh
    <3> QED BY <3>1, <3>2, <3>3, <3>4
  <2>4. /\ \A i \in 1..Len(wire') : sent' > 0 /\ wire'[i].frame = sent'
        /\ rx' = "copy" => \A i \in 1..Len(s_rx_cache') : s_rx_cache'[i].frame = 0
        /\ rx' \in {"wait", "reset"} => dtmp' = <<>>
        /\ \A g \in 1..Len(got') : got'[g] \in 1..sent'
    BY <2>1 DEF FlowInv
  <2> QED BY <2>2, <2>3, <2>4 DEF FlowInv
<1>11. CASE UNCHANGED <<wire, sent, ring, dtmp, s_rx_cache, buff_ser1, got>> /\ (rx' = rx \/ QueueReset)
  <2>1. /\ Known(ring)' /\ Known(dtmp)' /\ Known(s_rx_cache)' /\ Known(buff_ser1)'
        /\ Along(ring, ring)' /\ Along(dtmp, dtmp)' /\ Along(s_rx_cache, s_rx_cache)'
        /\ Upto(dtmp, ring)' /\ Upto(s_rx_cache, ring)' /\ Upto(s_rx_cache, dtmp)'
        /\ Upto(buff_ser1, ring)' /\ Upto(buff_ser1, dtmp)' /\ Along(buff_ser1, s_rx_cache)'
        /\ Fresh(ring)' /\ Fresh(dtmp)' /\ Fresh(s_rx_cache)' /\ Fresh(buff_ser1)'
    BY <1>11 DEF FlowInv, Known, Along, Upto, Fresh
  <2>2. /\ \A i \in 1..Len(wire') : sent' > 0 /\ wire'[i].frame = sent'
        /\ rx' = "copy" => \A i \in 1..Len(s_rx_cache') : s_rx_cache'[i].frame = 0
        /\ rx' \in {"wait", "reset"} => dtmp' = <<>>
        /\ \A g \in 1..Len(got') : got'[g] \in 1..sent'
    BY <1>11 DEF FlowInv, QueueReset
  <2> QED BY <2>1, <2>2 DEF FlowInv
<1> QED
  BY <1>1, <1>2, <1>3, <1>4, <1>5, <1>6, <1>7, <1>8, <1>9, <1>10, <1>11
     DEF Next, uart_event_task, Unit_event_task, Read_Message, Ask, AskAgain, Connected, QueueReset,
         vTaskDelay, Nothing, RxClaim, RxClaimed, Wait, Judge, vars

-----------------------------------------------------------------------------
(* One answer at a time *)

\* From rest: a question, or the unit's answer.
LEMMA RestTurn ==
    ASSUME Types, FlowInv, ClaimInv, [Next]_vars, ~AskAgain, AtRest
    PROVE  TurnInv'
<1> USE DEF driver, cache, receiver, claim, asking, reader, line
<1>1. /\ wire = <<>> /\ ring = <<>> /\ Uart1_Queue = <<>> /\ rx = "wait" /\ s_rx_available = 0 /\ Claimed = 0
      /\ rd \in {"delay", "poll"} /\ (owed = 0 \/ (owed = 1 /\ Eeprom_Data_received))
  BY DEF AtRest, Drained, Resting
<1>2. ASSUME NEW len \in Lengths, UnitAnswers(len) PROVE TurnInv'
  <2>1. /\ owed' = 0 /\ Eeprom_Data_received' = TRUE /\ sent' = sent + 1 /\ wire' = Frame(sent', len)
        /\ UNCHANGED <<ring, Uart1_Queue, receiver, cache, reader, got>>
    BY <1>1, <1>2 DEF UnitAnswers, Types, StateTypes
  <2>2. wire' # <<>> /\ sent \in Nat
    <3>1. len \in Nat \ {0}
      BY Constants
    <3>2. Len(wire') = len
      BY <2>1, <3>1 DEF Frame
    <3> QED BY <3>1, <3>2, Numbers
  <2>3. ~Accepted'
    BY <2>1, <2>2 DEF FlowInv, Accepted
  <2> QED BY <1>1, <2>1, <2>2, <2>3 DEF TurnInv, UnderWay, OnWire, Resting, Claimed
<1>3. CASE Ask
  BY <1>1, <1>3 DEF Ask, TurnInv, AtRest, Drained, Resting, Claimed
<1>4. CASE Connected \/ vTaskDelay \/ Nothing \/ UNCHANGED vars
  BY <1>1, <1>4 DEF Connected, vTaskDelay, Nothing, vars, TurnInv, AtRest, Drained, Resting, Claimed
<1>5. /\ ~RxClaim /\ ~RxClaimed /\ ~Wait /\ ~Download /\ ~ReadByte /\ ~Judge
      /\ ~uart_event_task
  BY <1>1 DEF RxClaim, RxClaimed, Wait, Download, ReadByte, Judge, uart_event_task, Data, Clear, Copy,
              FlushInput, QueueReset
<1>6. 1..Len(wire) = {}
  BY <1>1
<1> QED BY <1>2, <1>3, <1>4, <1>5, <1>6 DEF Next, Unit_event_task, Read_Message

\* On its way into the cache.
LEMMA ComingTurn ==
    ASSUME Types, BufferTypes', FlowInv, ClaimInv, QueueInv, [Next]_vars, ~AskAgain, ~spoilt, ~spoilt',
           UnderWay, OnWire \/ InRing
    PROVE  TurnInv'
<1> USE DEF driver, cache, receiver, claim, asking, reader, line
<1>1. /\ owed = 0 /\ Eeprom_Data_received /\ ~Accepted /\ sent > 0
      /\ rx = "wait" /\ s_rx_available = 0 /\ Claimed = 0 /\ rd \in {"delay", "poll"}
  BY DEF UnderWay, OnWire, InRing, Resting
<1>2. ASSUME UNCHANGED <<owed, Eeprom_Data_received, sent, got>> PROVE UnderWay'
  BY <1>1, <1>2 DEF UnderWay, Accepted
<1>3. ASSUME NEW k \in 1..Len(wire), Isr(k) PROVE TurnInv'
  <2>1. /\ k = Len(wire) /\ wire # <<>> /\ UNCHANGED <<receiver, cache, asking, reader, sent, got>>
        /\ Uart1_Queue' = Append(Uart1_Queue, k)
    <3>1. k = Len(wire) \/ k < Len(wire)
      BY LenProperties DEF Types, BufferTypes
    <3> QED BY <1>3, <3>1 DEF Isr, Harm
  <2>2. ring = <<>> /\ Uart1_Queue = <<>>
    BY <2>1 DEF OnWire, InRing
  <2>3. /\ Len(ring') = k /\ k # 0 /\ \A i \in 1..Len(ring') : ring'[i].frame = sent
    BY <1>3, <2>2, IsrMoves
  <2>4. wire' = <<>>
    <3>1. wire \in Seq(Bytes)
      BY DEF Types, BufferTypes
    <3> QED BY <1>3, <2>1, <3>1, DropEnds DEF Isr
  <2>5. InRing'
    BY <1>1, <2>1, <2>2, <2>3, <2>4 DEF InRing, Resting, Claimed, Current
  <2> QED BY <1>2, <2>1, <2>5 DEF TurnInv
<1>4. CASE Data
  <2>1. InRing /\ Uart1_Queue = <<Len(ring)>> /\ wire = <<>> /\ Current(ring)
    BY <1>4 DEF Data, OnWire, InRing
  <2>2. Head(Uart1_Queue) = Len(ring) /\ Tail(Uart1_Queue) = <<>>
    BY <2>1
  <2>3. /\ Len(dtmp') \in Nat \ {0} /\ \A i \in 1..Len(dtmp') : dtmp'[i] = ring[i] /\ i \in 1..Len(ring)
        /\ Len(dtmp') = AtMostCache(Head(Uart1_Queue))
    BY <1>4, DataTakes
  <2>4. ring' = <<>>
    <3>1. ring \in Seq(Bytes)
      BY DEF Types, BufferTypes
    <3> QED BY <1>4, <2>2, <3>1, DropEnds DEF Data
  <2>5. /\ wire' = <<>> /\ Uart1_Queue' = <<>> /\ rx' = "clear" /\ s_rx_available' = Len(dtmp')
        /\ UNCHANGED <<asking, reader, sent, got>>
    BY <1>4, <2>1, <2>2, <2>3 DEF Data
  <2>6. Current(dtmp)'
    BY <2>1, <2>3, <2>5 DEF Current
  <2>7. InCache'
    BY <1>1, <2>3, <2>4, <2>5, <2>6 DEF InCache, Drained, Claimed, Written
  <2> QED BY <1>2, <2>5, <2>7 DEF TurnInv
<1>5. CASE vTaskDelay \/ Nothing \/ UNCHANGED vars
  <2>1. UNCHANGED <<driver, receiver, cache, asking, claim, sent, got>> /\ rd' \in {"delay", "poll"}
    BY <1>1, <1>5 DEF vTaskDelay, Nothing, vars
  <2>2. (OnWire \/ InRing)'
    BY <1>1, <2>1 DEF OnWire, InRing, Resting, Claimed, Current
  <2> QED BY <1>2, <2>1, <2>2 DEF TurnInv
<1>6. /\ ~RxClaim /\ ~RxClaimed /\ ~Wait /\ ~Download /\ ~ReadByte /\ ~Judge /\ ~Ask /\ ~Connected
      /\ ~Clear /\ ~Copy /\ ~QueueReset
  <2>1. ~RxClaim /\ ~Wait /\ ~Download
    BY <1>1 DEF RxClaim, Wait, Download
  <2>3. ~RxClaimed /\ ~ReadByte /\ ~Judge
    BY <1>1 DEF RxClaimed, ReadByte, Judge
  <2>2. ~Ask /\ ~Connected /\ ~Clear /\ ~Copy /\ ~QueueReset
    BY <1>1 DEF Ask, Connected, Clear, Copy, QueueReset
  <2> QED BY <2>1, <2>2, <2>3
<1>7. ~FlushInput
  <2>1. SUFFICES ASSUME FlushInput PROVE FALSE
    OBVIOUS
  <2>2. ring # <<>> /\ Uart1_Queue = <<Len(ring)>>
    BY <2>1 DEF FlushInput, OnWire, InRing
  <2>3. Len(ring) = 0
    BY <2>1, <2>2 DEF FlushInput, Overflowed
  <2> QED BY <2>2, <2>3, EmptySeq DEF Types, BufferTypes
<1>8. \A len \in Lengths : ~UnitAnswers(len)
  BY <1>1 DEF UnitAnswers
<1>9. \A k \in 1..Len(wire) : ~IsrOverflow(k)
  BY DEF IsrOverflow, Harm
<1> QED BY <1>3, <1>4, <1>5, <1>6, <1>7, <1>8, <1>9 DEF Next, Unit_event_task, uart_event_task, Read_Message

\* In the cache, or claimed.
LEMMA CacheTurn ==
    ASSUME Types, FlowInv, ClaimInv, [Next]_vars, ~AskAgain, UnderWay, InCache \/ InClaim
    PROVE  TurnInv'
<1> USE DEF driver, cache, receiver, claim, asking, reader, line
<1>1. /\ owed = 0 /\ Eeprom_Data_received /\ ~Accepted /\ sent > 0
      /\ wire = <<>> /\ ring = <<>> /\ Uart1_Queue = <<>>
      /\ rd \in {"delay", "poll", "claim"} /\ Written /\ (rx = "clear" \/ Current(s_rx_cache))
  BY DEF UnderWay, InCache, InClaim, Drained
<1>2. ASSUME UNCHANGED <<owed, Eeprom_Data_received, sent, got>> PROVE UnderWay'
  BY <1>1, <1>2 DEF UnderWay, Accepted
<1>3. ASSUME UNCHANGED <<receiver, s_rx_cache, sent>> PROVE Written' /\ (rx' = "clear" \/ Current(s_rx_cache)')
  BY <1>1, <1>3 DEF Written, Current
<1>4. CASE Clear \/ Copy
  <2>1. /\ UNCHANGED <<driver, s_rx_available, asking, reader, sent, got>>
        /\ (rx = "clear" /\ rx' = "copy") \/ (rx = "copy" /\ rx' = "wait")
    BY <1>4 DEF Clear, Copy
  <2>2. Written' /\ Current(s_rx_cache)'
    <3>1. CASE Clear
      <4>1. rx' = "copy" /\ dtmp' = dtmp /\ s_rx_cache' = Zeros /\ Current(dtmp) /\ sent' = sent
        BY <1>1, <3>1 DEF Clear, Written
      <4> QED BY <4>1, ZerosType DEF Written, Current
    <3>2. CASE Copy
      <4>1. /\ rx = "copy" /\ rx' = "wait" /\ Current(dtmp) /\ Current(s_rx_cache) /\ sent' = sent
            /\ Len(s_rx_cache') = Len(s_rx_cache)
            /\ \A i \in 1..Len(s_rx_cache) :
                  s_rx_cache'[i] = IF i <= Len(dtmp) THEN dtmp[i] ELSE s_rx_cache[i]
        BY <1>1, <3>2, Constants DEF Copy, Written, Types, BufferTypes
      <4>2. Len(dtmp) \in Nat /\ Len(s_rx_cache) \in Nat
        BY Numbers
      <4> QED BY <4>1, <4>2 DEF Written, Current
    <3> QED BY <1>4, <3>1, <3>2
  <2>3. (InCache \/ InClaim)'
    BY <2>1, <2>2 DEF InCache, InClaim, Drained, Claimed
  <2> QED BY <1>2, <2>1, <2>3 DEF TurnInv
<1>5. CASE vTaskDelay \/ RxClaim \/ Wait \/ UNCHANGED vars
  <2>1. UNCHANGED <<driver, receiver, cache, asking, claim, sent, got>>
    BY <1>5 DEF vTaskDelay, RxClaim, Wait, vars
  <2>2. (InCache \/ InClaim)'
    <3>1. CASE vTaskDelay
      <4>1. rd' = "poll" /\ rx = "wait"
        BY <1>1, <3>1 DEF vTaskDelay, Written
      <4> QED BY <1>3, <2>1, <4>1 DEF InCache, InClaim, Drained, Claimed
    <3>2. CASE RxClaim
      <4>1. Claimed = 0 /\ s_rx_available # 0 /\ rd' = "claim"
        BY <3>2 DEF RxClaim
      <4> QED BY <1>1, <1>3, <2>1, <4>1 DEF InCache, Drained, Claimed
    <3>3. CASE Wait
      <4>1. Claimed > 0 /\ rd' = "delay"
        BY <3>3 DEF Wait
      <4> QED BY <1>1, <1>3, <2>1, <4>1 DEF InCache, InClaim, Drained, Claimed
    <3>4. CASE UNCHANGED vars
      BY <1>3, <3>4 DEF vars, InCache, InClaim, Drained, Claimed
    <3> QED BY <1>5, <3>1, <3>2, <3>3, <3>4
  <2> QED BY <1>2, <2>1, <2>2 DEF TurnInv
<1>6. CASE RxClaimed
  <2>1. /\ UNCHANGED <<driver, receiver, s_rx_cache, asking, sent, got>> /\ s_rx_available' = 0
        /\ rd' = "delay" /\ s_rx_claim_len' = taken /\ s_rx_claim_pos' = 0 /\ taken > 0
    BY <1>6 DEF RxClaimed, ClaimInv
  <2>2. Claimed' # 0
    BY <2>1 DEF Claimed, Types, StateTypes
  <2>3. InClaim'
    BY <1>1, <1>3, <2>1, <2>2 DEF InClaim, Drained
  <2> QED BY <1>2, <2>1, <2>3 DEF TurnInv
<1>7. CASE Download
  <2>1. /\ UNCHANGED <<driver, receiver, cache, asking, sent, got>> /\ rd = "poll" /\ Claimed > 0
        /\ rd' = "read" /\ buff_ser1' = <<>>
    BY <1>7 DEF Download
  <2>2. s_rx_available = 0 /\ rx = "wait" /\ Current(s_rx_cache)
    BY <1>1, <2>1 DEF InCache, InClaim
  <2>3. InCopy'
    BY <1>1, <2>1, <2>2 DEF InCopy, Drained, Current
  <2> QED BY <1>2, <2>1, <2>3 DEF TurnInv
<1>8. /\ ~Nothing /\ ~ReadByte /\ ~Judge /\ ~Ask /\ ~Connected /\ ~Data /\ ~FlushInput /\ ~QueueReset
  BY <1>1 DEF Nothing, ReadByte, Judge, Ask, Connected, Data, FlushInput, QueueReset, InCache, InClaim, Written
<1>9. \A len \in Lengths : ~UnitAnswers(len)
  BY <1>1 DEF UnitAnswers
<1>10. 1..Len(wire) = {}
  BY <1>1
<1> QED BY <1>4, <1>5, <1>6, <1>7, <1>8, <1>9, <1>10 DEF Next, Unit_event_task, uart_event_task, Read_Message

\* Being copied, and judged.
LEMMA CopyTurn ==
    ASSUME Types, FlowInv, ClaimInv, [Next]_vars, ~AskAgain, UnderWay, InCopy, ~Deaf
    PROVE  TurnInv'
<1> USE DEF driver, cache, receiver, claim, asking, reader, line
<1>1. /\ owed = 0 /\ Eeprom_Data_received /\ ~Accepted /\ sent > 0 /\ rx = "wait" /\ rd = "read"
      /\ wire = <<>> /\ ring = <<>> /\ Uart1_Queue = <<>> /\ s_rx_available = 0
      /\ Current(s_rx_cache) /\ Current(buff_ser1)
  BY DEF UnderWay, InCopy, Drained
<1>2. CASE ReadByte
  <2>1. UNCHANGED <<driver, receiver, cache, asking, rd, sent, got>>
    BY <1>2 DEF ReadByte
  <2>2. Current(buff_ser1)'
    <3>1. /\ s_rx_claim_pos + 1 \in 1..Len(s_rx_cache) /\ Len(buff_ser1') = s_rx_claim_pos + 1
          /\ \A i \in 1..s_rx_claim_pos : buff_ser1'[i] = buff_ser1[i] /\ i \in 1..Len(buff_ser1)
          /\ buff_ser1'[s_rx_claim_pos + 1] = s_rx_cache[s_rx_claim_pos + 1]
      BY <1>2, ReadMoves
    <3>2. \A i \in 1..Len(buff_ser1') : i \in 1..s_rx_claim_pos \/ i = s_rx_claim_pos + 1
      BY <3>1 DEF Types, StateTypes
    <3> QED BY <1>1, <2>1, <3>1, <3>2 DEF Current
  <2>3. UnderWay' /\ InCopy'
    BY <1>1, <2>1, <2>2 DEF UnderWay, Accepted, InCopy, Drained, Current
  <2> QED BY <2>3 DEF TurnInv
<1>3. CASE Judge
  <2>1. Claimed = 0
    BY <1>3 DEF Judge, ClaimInv
  <2> QED BY <1>1, <1>3, <2>1 DEF Judge, TurnInv, AtRest, Drained, Resting, Claimed
<1>4. CASE UNCHANGED vars
  BY <1>1, <1>4 DEF vars, TurnInv, UnderWay, Accepted, InCopy, Drained, Current
<1>5. /\ ~vTaskDelay /\ ~Nothing /\ ~RxClaim /\ ~RxClaimed /\ ~Wait /\ ~Download /\ ~Ask /\ ~Connected
      /\ ~uart_event_task
  BY <1>1 DEF vTaskDelay, Nothing, RxClaim, RxClaimed, Wait, Download, Ask, Connected, uart_event_task, Data,
              Clear, Copy, FlushInput, QueueReset
<1>6. \A len \in Lengths : ~UnitAnswers(len)
  BY <1>1 DEF UnitAnswers
<1>7. 1..Len(wire) = {}
  BY <1>1
<1> QED BY <1>2, <1>3, <1>4, <1>5, <1>6, <1>7 DEF Next, Unit_event_task, Read_Message

\* Every step keeps the one place of the answer that is under way.
LEMMA NextTurn ==
    ASSUME Types, BufferTypes', StateTypes', AskInv, ClaimInv, QueueInv, FlowInv, ~spoilt /\ ~Deaf => TurnInv,
           [Next]_vars, ~spoilt', ~Deaf'
    PROVE  TurnInv'
<1> USE DEF driver, cache, receiver, claim, asking, reader, line
<1>1. ~Deaf
  BY NextClaim
<1>2. CASE AskAgain
  <2>1. /\ wire = <<>> /\ Uart1_Queue = <<>> /\ rx = "wait" /\ rd = "delay" /\ s_rx_available = 0 /\ Claimed = 0
        /\ ring = <<>> \/ ~spoilt
        /\ Eeprom_Data_received /\ owed' = 1
        /\ UNCHANGED <<driver, receiver, cache, reader, Eeprom_Data_received>>
    BY <1>1, <1>2 DEF AskAgain
  <2>2. ring = <<>>
    BY <1>1, <2>1 DEF TurnInv, AtRest, UnderWay, OnWire, InRing, InCache, InClaim, InCopy, Drained
  <2> QED BY <1>2, <2>1, <2>2 DEF AskAgain, TurnInv, AtRest, Drained, Resting, Claimed
<1>3. CASE ~AskAgain
  <2>1. ~spoilt
    BY <1>3 DEF Next, uart_event_task, Unit_event_task, Read_Message, Ask, Connected, UnitAnswers, Isr,
                IsrOverflow, Harm, Data, Clear, Copy, FlushInput, QueueReset, vTaskDelay, Nothing, RxClaim,
                RxClaimed, Wait, Download, ReadByte, Judge, vars
  <2>2. TurnInv
    BY <1>1, <2>1
  <2>3. CASE AtRest
    BY <1>1, <1>3, <2>1, <2>3, RestTurn
  <2>4. CASE UnderWay /\ (OnWire \/ InRing)
    BY <1>1, <1>3, <2>1, <2>4, ComingTurn
  <2>5. CASE UnderWay /\ (InCache \/ InClaim)
    BY <1>1, <1>3, <2>1, <2>5, CacheTurn
  <2>6. CASE UnderWay /\ InCopy
    BY <1>1, <1>3, <2>1, <2>6, CopyTurn
  <2> QED BY <2>2, <2>3, <2>4, <2>5, <2>6 DEF TurnInv
<1> QED BY <1>2, <1>3

-----------------------------------------------------------------------------
(* Theorems *)

LEMMA NextIInv == IInv /\ [Next]_vars => IInv'
<1> SUFFICES ASSUME IInv, [Next]_vars PROVE IInv'
  OBVIOUS
<1>1. /\ Types /\ AskInv /\ ClaimInv /\ QueueInv /\ FlowInv
      /\ ~spoilt /\ ~Deaf => TurnInv
  BY DEF IInv
<1>2. BufferTypes' /\ StateTypes' /\ AskInv'
  BY <1>1, NextBuffers, NextState
<1>3. Types'
  BY <1>1, <1>2, NextHistory DEF Types
<1>4. ClaimInv' /\ QueueInv' /\ FlowInv'
  BY <1>1, <1>2, NextClaim, NextQueue, NextFlow
<1>5. ~spoilt' /\ ~Deaf' => TurnInv'
  BY <1>1, <1>2, NextTurn
<1> QED BY <1>2, <1>3, <1>4, <1>5 DEF IInv

LEMMA Invariance == Spec => []IInv
BY InitIInv, NextIInv, PTL DEF Spec

\* Every variable has its type, and the driver never waits for bytes that were
\* flushed (Uart1.c:50).
THEOREM TypeCorrect == Spec => []TypeOK
<1>1. IInv => TypeOK
  <2> SUFFICES ASSUME IInv PROVE TypeOK
    OBVIOUS
  <2>1. Types /\ ClaimInv /\ QueueInv
    BY DEF IInv
  <2>2. rx # "reset" => ~Starved
    BY <2>1, NotStarved
  <2> QED BY <2>1, <2>2 DEF TypeOK, Types, BufferTypes, StateTypes, HistoryTypes, ClaimInv
<1> QED BY <1>1, Invariance, PTL

\* An event as long as the reader's modulus is claimed and never read, and no later
\* answer is taken: the claim stays what it is (WBM_Serial.c:156).
THEOREM DeafForEver == Spec => [][Deaf => Deaf']_vars
<1>1. IInv /\ [Next]_vars => [Deaf => Deaf']_vars
  BY NextClaim DEF IInv
<1> QED BY <1>1, Invariance, PTL DEF Spec

\* What a copy that is accepted delivers while no answer was spoilt.
LEMMA Calm ==
    ASSUME IInv, Judge, Whole(buff_ser1), ~spoilt
    PROVE  sent > 0 /\ ~Accepted /\ buff_ser1[1].frame = sent
<1>1. Types /\ ClaimInv /\ FlowInv
  BY DEF IInv
<1>2. Len(buff_ser1) \in Nat \ {0} /\ buff_ser1[1].frame \in 1..sent
  BY <1>1, Judgement
<1>3. ~Deaf
  <2>1. buff_ser1 # <<>>
    BY DEF Whole
  <2> QED BY <1>1, <2>1 DEF Judge, ClaimInv
<1>4. UnderWay /\ Current(buff_ser1)
  BY <1>3 DEF IInv, TurnInv, Judge, AtRest, Resting, OnWire, InRing, InCache, InClaim, InCopy
<1>5. 1 \in 1..Len(buff_ser1)
  BY <1>2
<1> QED BY <1>2, <1>4, <1>5 DEF UnderWay, Current

\* The driver, the receive task and Read_Message implement FrameLine: while no answer
\* was spoilt the unit task is given the answer to its question, once or not at all,
\* and never an earlier one; then, still none after a later one.
THEOREM Implements == Spec => DeliversInTurn
<1>1. Init => Promise!Init
  BY DEF Init, Promise!Init, Pending
<1>2. IInv /\ [Next]_vars => [Promise!Next]_Promise!vars
  <2> DEFINE Step == Promise!Next \/ UNCHANGED <<sent, Pending, got, spoilt>>
  <2> SUFFICES ASSUME IInv, [Next]_vars PROVE Step
    BY DEF Promise!vars
  <2> USE DEF driver, cache, receiver, claim, asking, reader, line
  <2>1. Types /\ FlowInv /\ sent \in Nat /\ got \in Seq(Nat) /\ Len(got) \in Nat /\ spoilt \in BOOLEAN
    BY Numbers DEF IInv, Types, BufferTypes, HistoryTypes
  <2>2. ASSUME NEW len \in Lengths, UnitAnswers(len) PROVE Promise!Next
    <3>1. sent' = sent + 1 /\ got' = got /\ spoilt' = spoilt
      BY <2>2 DEF UnitAnswers
    <3>2. \A i \in 1..Len(got) : got[i] # sent + 1
      BY <2>1 DEF FlowInv
    <3>3. Pending' = sent'
      BY <2>1, <3>1, <3>2 DEF Pending
    <3> QED BY <3>1, <3>3 DEF Promise!Next, Promise!Send
  <2>3. CASE Judge /\ Whole(buff_ser1)
    <3> DEFINE n == buff_ser1[1].frame
    <3>1. n \in 1..sent /\ got' = Append(got, n) /\ sent' = sent /\ spoilt' = spoilt
      BY <2>1, <2>3, Judgement DEF Judge
    <3>2. \A g \in 1..Len(got) : got[g] <= n
      BY <2>1, <2>3, Judgement
    <3>3. ~spoilt => n = sent /\ ~Accepted
      BY <2>3, Calm
    <3> HIDE DEF n
    <3>4. /\ Len(got') = Len(got) + 1 /\ got'[Len(got) + 1] = n
          /\ \A i \in 1..Len(got) : got'[i] = got[i]
      <4>1. n \in Nat
        BY <2>1, <3>1
      <4> QED BY <2>1, <3>1, <4>1, AppendProperties
    <3>5. Pending' = IF n = sent THEN 0 ELSE Pending
      <4>1. {got'[i] : i \in 1..Len(got')} = {got[i] : i \in 1..Len(got)} \cup {n}
        <5>1. 1..Len(got') = 1..Len(got) \cup {Len(got) + 1}
          BY <2>1, <3>4
        <5> QED BY <3>4, <5>1
      <4> QED BY <2>1, <3>1, <4>1 DEF Pending
    <3>6. CASE spoilt
      BY <3>1, <3>2, <3>5, <3>6 DEF Promise!Next, Promise!DeliverLate
    <3>7. CASE ~spoilt
      <4>1. Pending = sent /\ Pending # 0
        BY <2>1, <3>1, <3>3, <3>7 DEF Pending, Accepted
      <4> QED BY <3>1, <3>3, <3>5, <3>7, <4>1 DEF Promise!Next, Promise!Deliver
    <3> QED BY <3>6, <3>7
  <2>4. CASE AskAgain
    <3>1. UNCHANGED <<sent, got>> /\ got = <<>> /\ Pending' = Pending /\ spoilt' \in {FALSE, spoilt}
      BY <2>1, <2>4 DEF AskAgain, Pending
    <3> QED BY <3>1 DEF Promise!Next, Promise!Renew
  <2>5. CASE UNCHANGED <<sent, got>> /\ spoilt' \in {TRUE, spoilt}
    <3>1. Pending' = Pending
      BY <2>5 DEF Pending
    <3> QED BY <2>5, <3>1 DEF Promise!Next, Promise!Spoil
  <2>6. CASE QueueReset
    BY <2>1, <2>5, <2>6 DEF QueueReset
  <2>7. ASSUME NEW k \in 1..Len(wire), Isr(k) \/ IsrOverflow(k) PROVE Step
    BY <2>5, <2>7 DEF Isr, IsrOverflow, Harm
  <2>8. CASE Data \/ Clear \/ Copy \/ FlushInput \/ Ask \/ Connected \/ UNCHANGED vars
    <3>1. UNCHANGED <<sent, got, spoilt>>
      BY <2>8 DEF Data, Clear, Copy, FlushInput, Ask, Connected, vars
    <3> QED BY <2>5, <3>1
  <2>9. CASE vTaskDelay \/ Nothing \/ RxClaim \/ RxClaimed \/ Wait \/ Download \/ ReadByte
    <3>1. UNCHANGED <<sent, got, spoilt>>
      BY <2>9 DEF vTaskDelay, Nothing, RxClaim, RxClaimed, Wait, Download, ReadByte
    <3> QED BY <2>5, <3>1
  <2>10. CASE Judge /\ ~Whole(buff_ser1)
    <3>1. UNCHANGED <<sent, got, spoilt>>
      BY <2>10 DEF Judge
    <3> QED BY <2>5, <3>1
  <2>11. ASSUME NEW len \in Lengths, UnitAnswers(len) PROVE Step
    BY <2>2, <2>11
  <2>12. CASE Judge
    BY <2>3, <2>10, <2>12
  <2>13. CASE AskAgain \/ QueueReset
    BY <2>4, <2>6, <2>13
  <2> HIDE DEF Step, driver, cache, receiver, claim, asking, reader, line
  <2> QED
    BY <2>7, <2>8, <2>9, <2>11, <2>12, <2>13
       DEF Next, uart_event_task, Unit_event_task, Read_Message
<1> QED BY <1>1, <1>2, Invariance, PTL DEF Spec, DeliversInTurn, Promise!Spec

\* What follows from it: the answers are taken in the order in which they were sent,
\* and none twice, as long as none was spoilt.
THEOREM InTurn == Spec => []Promise!InOrder
<1>1. Init => Promise!InOrder
  BY DEF Init, Promise!InOrder
<1>2. IInv /\ Promise!InOrder /\ [Next]_vars => Promise!InOrder'
  <2> SUFFICES ASSUME IInv, Promise!InOrder, [Next]_vars PROVE Promise!InOrder'
    OBVIOUS
  <2> USE DEF driver, cache, receiver, claim, asking, reader, line
  <2>1. /\ Types /\ FlowInv /\ sent \in Nat /\ got \in Seq(Nat) /\ Len(got) \in Nat
        /\ \A i \in 1..Len(got) : got[i] \in Nat
        /\ spoilt \in BOOLEAN
    BY Numbers DEF IInv, Types, BufferTypes, HistoryTypes
  <2>2. CASE Judge /\ Whole(buff_ser1)
    <3> DEFINE n == buff_ser1[1].frame
    <3>1. n \in 1..sent /\ got' = Append(got, n) /\ spoilt' = spoilt
      BY <2>1, <2>2, Judgement DEF Judge
    <3>2. \A g \in 1..Len(got) : got[g] <= n
      BY <2>1, <2>2, Judgement
    <3>3. ~spoilt => n = sent /\ ~Accepted
      BY <2>2, Calm
    <3> HIDE DEF n
    <3>4. /\ Len(got') = Len(got) + 1 /\ got'[Len(got) + 1] = n
          /\ \A i \in 1..Len(got) : got'[i] = got[i]
      <4>1. n \in Nat
        BY <2>1, <3>1
      <4> QED BY <2>1, <3>1, <4>1, AppendProperties
    <3>5. ~spoilt => \A g \in 1..Len(got) : got[g] < n
      BY <2>1, <3>1, <3>2, <3>3 DEF Accepted
    <3>6. ASSUME NEW i \in 1..Len(got'), NEW j \in 1..Len(got'), i < j
          PROVE  got'[i] <= got'[j] /\ (~spoilt' => got'[i] < got'[j])
      <4>1. i \in 1..Len(got)
        BY <2>1, <3>4, <3>6
      <4>2. CASE j \in 1..Len(got)
        BY <3>1, <3>4, <3>6, <4>1, <4>2 DEF Promise!InOrder
      <4>3. CASE j = Len(got) + 1
        BY <3>1, <3>2, <3>4, <3>5, <4>1, <4>3
      <4> QED BY <2>1, <3>4, <4>2, <4>3
    <3> QED BY <3>6 DEF Promise!InOrder
  <2>3. CASE got' = got /\ (spoilt => spoilt')
    BY <2>3 DEF Promise!InOrder
  <2>4. CASE AskAgain
    BY <2>4 DEF AskAgain, Promise!InOrder
  <2>5. CASE \E len \in Lengths : UnitAnswers(len)
    <3>1. UNCHANGED <<got, spoilt>>
      BY <2>5 DEF UnitAnswers
    <3> QED BY <2>3, <3>1
  <2>6. CASE \E k \in 1..Len(wire) : Isr(k) \/ IsrOverflow(k)
    <3>1. got' = got /\ spoilt' \in {TRUE, spoilt}
      BY <2>6 DEF Isr, IsrOverflow, Harm
    <3> QED BY <2>3, <3>1
  <2>7. CASE Data \/ Clear \/ Copy \/ FlushInput \/ Ask \/ Connected \/ UNCHANGED vars
    <3>1. UNCHANGED <<got, spoilt>>
      BY <2>7 DEF Data, Clear, Copy, FlushInput, Ask, Connected, vars
    <3> QED BY <2>3, <3>1
  <2>8. CASE vTaskDelay \/ Nothing \/ RxClaim \/ RxClaimed \/ Wait \/ Download \/ ReadByte
    <3>1. UNCHANGED <<got, spoilt>>
      BY <2>8 DEF vTaskDelay, Nothing, RxClaim, RxClaimed, Wait, Download, ReadByte
    <3> QED BY <2>3, <3>1
  <2>9. CASE Judge /\ ~Whole(buff_ser1)
    <3>1. UNCHANGED <<got, spoilt>>
      BY <2>9 DEF Judge
    <3> QED BY <2>3, <3>1
  <2>10. CASE QueueReset
    <3>1. got' = got /\ spoilt' \in {TRUE, spoilt}
      BY <2>1, <2>10 DEF QueueReset
    <3> QED BY <2>3, <3>1
  <2> QED
    BY <2>2, <2>4, <2>5, <2>6, <2>7, <2>8, <2>9, <2>10 DEF Next, uart_event_task, Unit_event_task, Read_Message
<1> QED BY <1>1, <1>2, Invariance, PTL DEF Spec
=============================================================================
