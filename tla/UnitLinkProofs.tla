--------------------------- MODULE UnitLinkProofs ---------------------------
(***************************************************************************)
(* Proofs about UnitLink for every value of its constants that satisfies   *)
(* ConstantsAssumption and TimingAssumption: the types, that the outcome   *)
(* of connecting is final, that the task and the unit speak in turns, and  *)
(* that a device shown as ready has read its image section by section.     *)
(* Each proof has one case per action; an invariant used in another's      *)
(* proof precedes it: types, timers, turns, image.                         *)
(***************************************************************************)
EXTENDS UnitLink, SequenceTheorems, TLAPS

\* The two assumptions, with each constant's type on its own.
LEMMA Constants ==
    /\ PollOn \in Nat \ {0} /\ PollOff \in Nat \ {0} /\ DebugPeriod \in Nat \ {0}
    /\ Timeout \in Nat \ {0}
    /\ ReplyWithin \in Nat /\ MaxStall \in Nat /\ MaxFaults \in Nat
    /\ PollOn <= PollOff
    /\ ReplyWithin + MaxStall < Timeout
    /\ PollOff + 2 * MaxStall <= Timeout
BY ConstantsAssumption, TimingAssumption

-----------------------------------------------------------------------------
(* Types *)

Entry == [kind : Request, age : 0..ReplyWithin]

States ==
    /\ WBM_Com_State \in {"WBM_initialize", "WBM_Communicating", "WBM_Connected", "WBM_Error"}
    /\ currentState \in ConnectStates
    /\ RunningMode \in {"Initializing", "PowerOff", "Running"}
    /\ WBM_Com_State = "WBM_Connected" => RunningMode # "Initializing"
    /\ pc \in {"top", "timeout", "read"}

Flags ==
    /\ foundComLink \in BOOLEAN /\ Eeprom_Data_received \in BOOLEAN
    /\ Bootloader_Mode \in BOOLEAN /\ s_runtime_ready \in BOOLEAN

Numbers ==
    /\ section \in 1..6 /\ retriesCounter \in 0..2
    /\ globalAge \in 0..Timeout /\ pollAge \in 0..Timeout /\ debugAge \in 0..Timeout
    /\ stall \in 0..MaxStall /\ faults \in 0..MaxFaults

Line ==
    /\ unit \in {"running", "dead", "bootloader"}
    /\ wire \in Seq(Entry)
    /\ inbox \in Frame \cup {NoFrame}
    /\ gRDEeprom \in [Areas -> Frame \cup {NoFrame}]

\* The type invariant in parts that one prover each can handle.
LEMMA TypeParts == TypeOK <=> States /\ Flags /\ Numbers /\ Line
BY DEF TypeOK, States, Flags, Numbers, Line, Entry

\* Sequences of S stay so when an element is appended ...
LEMMA AppendType == ASSUME NEW S, NEW s \in Seq(S), NEW e \in S PROVE Append(s, e) \in Seq(S)
OBVIOUS

\* ... when they are built element by element ...
LEMMA SeqByElements == ASSUME NEW S, NEW n \in Nat, NEW f, f = [i \in 1..n |-> f[i]], \A i \in 1..n : f[i] \in S
                 PROVE  f \in Seq(S)
OBVIOUS

\* ... and when the first element is taken away.
LEMMA TailType == ASSUME NEW S, NEW s \in Seq(S), s # <<>> PROVE Tail(s) \in Seq(S) /\ Head(s) \in S
OBVIOUS

\* Sending leaves a well-formed wire.
LEMMA SendType == ASSUME wire \in Seq(Entry), NEW k \in Request, Send(k) PROVE wire' \in Seq(Entry)
<1>1. [kind |-> k, age |-> 0] \in Entry
  BY Constants DEF Entry
<1>2. Append(wire, [kind |-> k, age |-> 0]) \in Seq(Entry)
  BY <1>1, AppendType
<1> QED BY <1>2 DEF Send

\* What the task sends is a request.
LEMMA Kinds ==
    /\ {"poll", "debug", "eeprom"} \subseteq Request /\ Request \subseteq Frame
    /\ ReadOrder[1] \in Request
    /\ \A i \in 1..6 : i < 6 => ReadOrder[i + 1] \in Request
BY DEF Request, Frame, ReadOrder

\* The initial states have their types.
LEMMA InitTypeOK == Init => TypeOK
<1> SUFFICES ASSUME Init PROVE States /\ Flags /\ Numbers /\ Line
  BY TypeParts
<1>1. States
  BY DEF Init, States, ConnectStates
<1>2. Flags
  BY Zenon DEF Init, Flags
<1>3. Numbers
  BY Constants DEF Init, Numbers
<1>4. Line
  BY DEF Init, Line, Entry
<1> QED BY <1>1, <1>2, <1>3, <1>4

\* Every step keeps the types.
LEMMA NextTypeOK == TypeOK /\ [Next]_vars => TypeOK'
<1> USE DEF timers, shown, env, link
<1> SUFFICES ASSUME States, Flags, Numbers, Line, [Next]_vars
             PROVE  States' /\ Flags' /\ Numbers' /\ Line'
  BY TypeParts, PTL
<1>1. CASE Initialize
  <2>1. States'
    BY <1>1 DEF Initialize, States, ConnectStates, Communicating
  <2>2. Flags'
    BY <1>1, Zenon DEF Initialize, Flags
  <2>3. Numbers'
    BY <1>1, Constants DEF Initialize, Numbers, Runs, Older
  <2>4. Line'
    BY <1>1 DEF Initialize, Line, Runs
  <2> QED BY <2>1, <2>2, <2>3, <2>4
<1>2. CASE ConnectInit
  <2>1. States'
    BY <1>2 DEF ConnectInit, States, ConnectStates, Communicating
  <2>2. Flags'
    BY <1>2, Zenon DEF ConnectInit, Flags
  <2>3. Numbers'
    BY <1>2, Constants DEF ConnectInit, Numbers, Runs, Older
  <2>4. Line'
    BY <1>2 DEF ConnectInit, Line, Runs
  <2> QED BY <2>1, <2>2, <2>3, <2>4
<1>3. CASE LinkConnecting
  <2>1. States'
    BY <1>3 DEF LinkConnecting, MayProbe, States, ConnectStates, Communicating
  <2>2. Flags'
    BY <1>3, Zenon DEF LinkConnecting, MayProbe, Flags
  <2>3. Numbers'
    BY <1>3, Constants DEF LinkConnecting, MayProbe, Numbers, Runs, Older
  <2>4. Line'
    <3>1. wire' \in Seq(Entry)
      BY <1>3, Kinds, SendType DEF LinkConnecting, Line
    <3> QED BY <1>3, <3>1 DEF LinkConnecting, Line
  <2> QED BY <2>1, <2>2, <2>3, <2>4
<1>4. CASE TrySerialLinkTimeout
  <2>1. States'
    BY <1>4 DEF TrySerialLinkTimeout, TimedOut, States, ConnectStates, Communicating
  <2>2. Flags'
    BY <1>4, Zenon DEF TrySerialLinkTimeout, TimedOut, Flags
  <2>3. Numbers'
    BY <1>4, Constants DEF TrySerialLinkTimeout, TimedOut, Numbers, Runs, Older
  <2>4. Line'
    BY <1>4 DEF TrySerialLinkTimeout, TimedOut, Line, Runs
  <2> QED BY <2>1, <2>2, <2>3, <2>4
<1>5. CASE TrySerialLinkRead
  <2>1. States'
    BY <1>5 DEF TrySerialLinkRead, TakeFrame, GotMessage, TimedOut, States, ConnectStates, Communicating
  <2>2. Flags'
    BY <1>5, Zenon DEF TrySerialLinkRead, TakeFrame, GotMessage, TimedOut, Flags
  <2>3. Numbers'
    BY <1>5, Constants DEF TrySerialLinkRead, TakeFrame, GotMessage, TimedOut, Numbers, Runs, Older
  <2>4. Line'
    BY <1>5 DEF TrySerialLinkRead, TakeFrame, GotMessage, TimedOut, Line, Runs
  <2> QED BY <2>1, <2>2, <2>3, <2>4
<1>6. CASE LinkConnected
  <2>1. States'
    BY <1>6 DEF LinkConnected, States, ConnectStates, Communicating
  <2>2. Flags'
    BY <1>6, Zenon DEF LinkConnected, Flags
  <2>3. Numbers'
    BY <1>6, Constants DEF LinkConnected, Numbers, Runs, Older
  <2>4. Line'
    <3>1. wire' \in Seq(Entry)
      BY <1>6, Kinds, SendType DEF LinkConnected, Line
    <3> QED BY <1>6, <3>1 DEF LinkConnected, Line
  <2> QED BY <2>1, <2>2, <2>3, <2>4
<1>7. CASE AnswerTimeout
  <2>1. States'
    BY <1>7 DEF AnswerTimeout, TimedOut, States, ConnectStates, Communicating
  <2>2. Flags'
    BY <1>7, Zenon DEF AnswerTimeout, TimedOut, Flags
  <2>3. Numbers'
    BY <1>7, Constants DEF AnswerTimeout, TimedOut, Numbers, Runs, Older
  <2>4. Line'
    BY <1>7 DEF AnswerTimeout, TimedOut, Line, Runs
  <2> QED BY <2>1, <2>2, <2>3, <2>4
<1>8. CASE AnswerAwaited
  <2>1. States'
    BY <1>8 DEF AnswerAwaited, TakeFrame, States, ConnectStates, Communicating
  <2>2. Flags'
    BY <1>8, Zenon DEF AnswerAwaited, TakeFrame, Flags
  <2>3. Numbers'
    BY <1>8, Constants DEF AnswerAwaited, TakeFrame, Numbers, Runs, Older
  <2>4. Line'
    BY <1>8 DEF AnswerAwaited, TakeFrame, Line, Runs
  <2> QED BY <2>1, <2>2, <2>3, <2>4
<1>9. CASE ReadEepromReply
  <2>1. States'
    BY <1>9 DEF ReadEepromReply, States, ConnectStates, Communicating
  <2>2. Flags'
    BY <1>9, Zenon DEF ReadEepromReply, Flags
  <2>3. Numbers'
    BY <1>9, Constants DEF ReadEepromReply, Numbers, Runs, Older
  <2>4. Line'
    <3>1. wire' \in Seq(Entry)
      BY <1>9, Kinds, SendType DEF ReadEepromReply, Line, Numbers
    <3>2. gRDEeprom' \in [Areas -> Frame \cup {NoFrame}]
      BY <1>9 DEF ReadEepromReply, Line
    <3> QED BY <1>9, <3>1, <3>2 DEF ReadEepromReply, Line
  <2> QED BY <2>1, <2>2, <2>3, <2>4
<1>10. CASE PollingBaseReply
  <2>1. States'
    BY <1>10 DEF PollingBaseReply, TakeFrame, States, ConnectStates, Communicating
  <2>2. Flags'
    BY <1>10, Zenon DEF PollingBaseReply, TakeFrame, Flags
  <2>3. Numbers'
    BY <1>10, Constants DEF PollingBaseReply, TakeFrame, Numbers, Runs, Older
  <2>4. Line'
    BY <1>10 DEF PollingBaseReply, TakeFrame, Line, Runs
  <2> QED BY <2>1, <2>2, <2>3, <2>4
<1>11. CASE EnterConnected
  <2>1. States'
    BY <1>11 DEF EnterConnected, States, ConnectStates, Communicating
  <2>2. Flags'
    BY <1>11, Zenon DEF EnterConnected, Flags
  <2>3. Numbers'
    BY <1>11, Constants DEF EnterConnected, Numbers, Runs, Older
  <2>4. Line'
    BY <1>11 DEF EnterConnected, Line, Runs
  <2> QED BY <2>1, <2>2, <2>3, <2>4
<1>12. CASE ConnectedTimers
  <2>1. States'
    BY <1>12 DEF ConnectedTimers, AskIfFree, RefreshGlobalTimeout, Connected, States, ConnectStates, Communicating
  <2>2. Flags'
    BY <1>12, Zenon DEF ConnectedTimers, AskIfFree, RefreshGlobalTimeout, Connected, Flags
  <2>3. Numbers'
    BY <1>12, Constants DEF ConnectedTimers, AskIfFree, RefreshGlobalTimeout, Connected, Numbers, Runs, Older
  <2>4. Line'
    <3>1. wire' \in Seq(Entry)
      BY <1>12, Kinds, SendType DEF ConnectedTimers, AskIfFree, Line
    <3> QED BY <1>12, <3>1 DEF ConnectedTimers, Line
  <2> QED BY <2>1, <2>2, <2>3, <2>4
<1>13. CASE ConnectedTimeout
  <2>1. States'
    BY <1>13 DEF ConnectedTimeout, Connected, States, ConnectStates, Communicating
  <2>2. Flags'
    BY <1>13, Zenon DEF ConnectedTimeout, Connected, Flags
  <2>3. Numbers'
    BY <1>13, Constants DEF ConnectedTimeout, Connected, Numbers, Runs, Older
  <2>4. Line'
    BY <1>13 DEF ConnectedTimeout, Connected, Line, Runs
  <2> QED BY <2>1, <2>2, <2>3, <2>4
<1>14. CASE ConnectedRead
  <2>1. States'
    BY <1>14 DEF ConnectedRead, Connected, States, ConnectStates, Communicating
  <2>2. Flags'
    BY <1>14, Zenon DEF ConnectedRead, Connected, Flags
  <2>3. Numbers'
    BY <1>14, Constants DEF ConnectedRead, Connected, Numbers, Runs, Older
  <2>4. Line'
    <3>1. wire' \in Seq(Entry)
      BY <1>14, Kinds, SendType DEF ConnectedRead, Line
    <3> QED BY <1>14, <3>1 DEF ConnectedRead, Line
  <2> QED BY <2>1, <2>2, <2>3, <2>4
<1>15. CASE ErrorLoop
  <2>1. States'
    BY <1>15 DEF ErrorLoop, States, ConnectStates, Communicating
  <2>2. Flags'
    BY <1>15, Zenon DEF ErrorLoop, Flags
  <2>3. Numbers'
    BY <1>15, Constants DEF ErrorLoop, Numbers, Runs, Older
  <2>4. Line'
    BY <1>15 DEF ErrorLoop, Line, Runs
  <2> QED BY <2>1, <2>2, <2>3, <2>4
<1>16. CASE Tick
  <2>1. States'
    BY <1>16 DEF Tick, task, States, ConnectStates, Communicating
  <2>2. Flags'
    BY <1>16, Zenon DEF Tick, task, Flags
  <2>3. Numbers'
    <3>1. /\ Older(globalAge) \in 0..Timeout /\ Older(pollAge) \in 0..Timeout
          /\ Older(debugAge) \in 0..Timeout
      BY Constants DEF Older, Numbers
    <3>2. stall' \in 0..MaxStall
      <4>1. stall' = IF stall < MaxStall THEN stall + 1 ELSE stall
        BY <1>16 DEF Tick
      <4> QED BY <4>1, Constants DEF Numbers
    <3> QED BY <1>16, <3>1, <3>2 DEF Tick, Numbers
  <2>4. Line'
    <3>1. wire' \in Seq(Entry)
      <4> DEFINE n == Len(wire)
      <4>1. n \in Nat /\ \A i \in 1..n : wire[i] \in Entry
        BY DEF Line
      <4>2. \A i \in 1..n : [wire[i] EXCEPT !.age = @ + 1] \in Entry
        <5>1. \A i \in 1..n : wire[i].age < ReplyWithin
          BY <1>16 DEF Tick, MayTick
        <5> SUFFICES ASSUME NEW i \in 1..n PROVE [wire[i] EXCEPT !.age = @ + 1] \in Entry
          OBVIOUS
        <5> DEFINE e == wire[i]
        <5>2. e \in [kind : Request, age : 0..ReplyWithin] /\ e.age < ReplyWithin
          BY <4>1, <5>1 DEF Entry
        <5>3. e.age + 1 \in 0..ReplyWithin
          BY <5>2, Constants
        <5> HIDE DEF e
        <5>4. [e EXCEPT !.age = @ + 1] \in Entry
          BY <5>2, <5>3 DEF Entry
        <5> QED BY <5>4 DEF e
      <4>3. wire' = [i \in 1..n |-> [wire[i] EXCEPT !.age = @ + 1]]
        BY <1>16 DEF Tick
      <4> HIDE DEF n
      <4> QED BY <4>1, <4>2, <4>3, SeqByElements
    <3> QED BY <1>16, <3>1 DEF Tick, Line
  <2> QED BY <2>1, <2>2, <2>3, <2>4
<1>17. CASE UnitReplies
  <2>1. States'
    BY <1>17 DEF UnitReplies, task, States, ConnectStates, Communicating
  <2>2. Flags'
    BY <1>17, Zenon DEF UnitReplies, task, Flags
  <2>3. Numbers'
    BY <1>17, Constants DEF UnitReplies, task, Numbers, Runs, Older
  <2>4. Line'
    <3>1. Head(wire) \in Entry /\ wire' \in Seq(Entry)
      BY <1>17, TailType DEF UnitReplies, Line
    <3>2. inbox' \in Frame \cup {NoFrame}
      BY <1>17, <3>1, Kinds DEF UnitReplies, Line, Entry, Frame
    <3> QED BY <1>17, <3>1, <3>2 DEF UnitReplies, task, Line
  <2> QED BY <2>1, <2>2, <2>3, <2>4
<1>18. CASE LineFault
  <2>1. States'
    BY <1>18 DEF LineFault, task, States, ConnectStates, Communicating
  <2>2. Flags'
    BY <1>18, Zenon DEF LineFault, task, Flags
  <2>3. Numbers'
    BY <1>18, Constants DEF LineFault, task, Numbers, Runs, Older
  <2>4. Line'
    <3>1. Head(wire) \in Entry /\ wire' \in Seq(Entry)
      BY <1>18, TailType DEF LineFault, Line
    <3>2. inbox' \in Frame \cup {NoFrame}
      BY <1>18, <3>1, Kinds DEF LineFault, Line, Entry, Frame
    <3> QED BY <1>18, <3>1, <3>2 DEF LineFault, task, Line
  <2> QED BY <2>1, <2>2, <2>3, <2>4
<1>19. CASE UnitDies
  <2>1. States'
    BY <1>19 DEF UnitDies, task, States, ConnectStates, Communicating
  <2>2. Flags'
    BY <1>19, Zenon DEF UnitDies, task, Flags
  <2>3. Numbers'
    BY <1>19, Constants DEF UnitDies, task, Numbers, Runs, Older
  <2>4. Line'
    BY <1>19 DEF UnitDies, task, Line, Runs
  <2> QED BY <2>1, <2>2, <2>3, <2>4
<1>20. CASE UnitEntersBootloader
  <2>1. States'
    BY <1>20 DEF UnitEntersBootloader, task, States, ConnectStates, Communicating
  <2>2. Flags'
    BY <1>20, Zenon DEF UnitEntersBootloader, task, Flags
  <2>3. Numbers'
    BY <1>20, Constants DEF UnitEntersBootloader, task, Numbers, Runs, Older
  <2>4. Line'
    BY <1>20 DEF UnitEntersBootloader, task, Line, Frame
  <2> QED BY <2>1, <2>2, <2>3, <2>4
<1>21. CASE UNCHANGED vars
  BY <1>21 DEF vars, States, Flags, Numbers, Line
<1> QED
  BY <1>1, <1>2, <1>3, <1>4, <1>5, <1>6, <1>7, <1>8, <1>9, <1>10, <1>11, <1>12, <1>13, <1>14, <1>15, <1>16, <1>17, <1>18, <1>19, <1>20, <1>21 DEF Next, Unit_event_task, Environment

\* Every variable keeps its type, and a connected task knows its running mode.
THEOREM TypeCorrect == Spec => []TypeOK
BY InitTypeOK, NextTypeOK, PTL DEF Spec

-----------------------------------------------------------------------------
(* The outcome of connecting is final *)

\* While connected the timeout's time stamp lags behind the polling timer's by
\* no more than the delay the task may suffer, and the polling timer has just
\* been looked at when the timeout is tested.
TimersInv ==
    /\ WBM_Com_State = "WBM_Connected" =>
          /\ currentState = "Connected"
          /\ globalAge <= pollAge + MaxStall
          /\ pc = "timeout" => pollAge <= PollOff - 1 + stall
    /\ Communicating("Connected") => globalAge <= stall

\* The timers start in step.
LEMMA InitTimers == Init => TimersInv
BY Constants DEF Init, TimersInv, Communicating

\* Every step keeps them in step: a tick grows all of them alike.
LEMMA NextTimers == TypeOK /\ TimersInv /\ [Next]_vars => TimersInv'
<1> USE DEF timers, shown, env, link
<1> SUFFICES ASSUME Numbers, States, TimersInv, [Next]_vars PROVE TimersInv'
  BY TypeParts
<1>1. CASE Initialize
  BY <1>1, Constants DEF Initialize, Runs, TimersInv, Numbers, States, Communicating
<1>2. CASE ConnectInit
  BY <1>2, Constants DEF ConnectInit, Runs, TimersInv, Numbers, States, Communicating
<1>3. CASE LinkConnecting
  BY <1>3, Constants DEF LinkConnecting, Runs, TimersInv, Numbers, States, Communicating
<1>4. CASE TrySerialLinkTimeout
  BY <1>4, Constants DEF TrySerialLinkTimeout, Runs, TimersInv, Numbers, States, Communicating
<1>5. CASE TrySerialLinkRead
  BY <1>5, Constants DEF TrySerialLinkRead, TakeFrame, GotMessage, Runs, TimersInv, Numbers, States, Communicating
<1>6. CASE LinkConnected
  BY <1>6, Constants DEF LinkConnected, Runs, TimersInv, Numbers, States, Communicating
<1>7. CASE AnswerTimeout
  BY <1>7, Constants DEF AnswerTimeout, Runs, TimersInv, Numbers, States, Communicating
<1>8. CASE AnswerAwaited
  BY <1>8, Constants DEF AnswerAwaited, TakeFrame, Runs, TimersInv, Numbers, States, Communicating
<1>9. CASE ReadEepromReply
  BY <1>9, Constants DEF ReadEepromReply, Runs, TimersInv, Numbers, States, Communicating
<1>10. CASE PollingBaseReply
  BY <1>10, Constants DEF PollingBaseReply, TakeFrame, Runs, TimersInv, Numbers, States, Communicating
<1>11. CASE EnterConnected
  BY <1>11, Constants DEF EnterConnected, Runs, TimersInv, Numbers, States, Communicating
<1>12. CASE ConnectedTimers
  <2>1. /\ WBM_Com_State' = "WBM_Connected" /\ currentState' = "Connected" /\ stall' = 0
        /\ \/ pollAge' = 0 /\ globalAge' = 0
           \/ ~PollDue /\ pollAge' = pollAge /\ globalAge' = globalAge
    BY <1>12 DEF ConnectedTimers, Connected, RefreshGlobalTimeout, TimersInv, Runs
  <2>2. ~PollDue => pollAge <= PollOff - 1
    BY Constants DEF PollDue, Numbers
  <2>3. globalAge <= pollAge + MaxStall
    BY <1>12 DEF ConnectedTimers, Connected, TimersInv
  <2> QED BY <2>1, <2>2, <2>3, Constants DEF TimersInv, Numbers, Communicating
<1>13. CASE ConnectedTimeout
  <2>1. /\ pc' = "read" /\ currentState' = currentState
        /\ globalAge' = globalAge /\ pollAge' = pollAge
    BY <1>13 DEF ConnectedTimeout
  <2>2. WBM_Com_State = "WBM_Connected" /\ WBM_Com_State' # "WBM_Communicating"
    BY <1>13 DEF ConnectedTimeout, Connected
  <2> QED BY <2>1, <2>2 DEF TimersInv, Communicating
<1>14. CASE ConnectedRead
  <2>1. /\ WBM_Com_State' = "WBM_Connected" /\ currentState' = currentState /\ pc' = "top"
        /\ pollAge' = pollAge /\ globalAge' \in {0, globalAge}
        /\ WBM_Com_State = "WBM_Connected"
    BY <1>14 DEF ConnectedRead, Connected
  <2> QED BY <2>1, Constants DEF TimersInv, Numbers, Communicating
<1>15. CASE ErrorLoop
  BY <1>15, Constants DEF ErrorLoop, Runs, TimersInv, Numbers, States, Communicating
<1>16. CASE Tick
  <2>1. CASE WBM_Com_State = "WBM_Connected"
    <3>1. /\ pollAge' = Older(pollAge) /\ globalAge' = Older(globalAge)
          /\ stall' = stall + 1 /\ UNCHANGED <<WBM_Com_State, currentState, pc>>
      BY <1>16, <2>1 DEF Tick, MayTick, TimersInv
    <3> QED BY <2>1, <3>1, Constants DEF TimersInv, Numbers, Older, Communicating
  <2>2. CASE Communicating("Connected")
    <3>1. /\ globalAge' = Older(globalAge) /\ stall' = stall + 1
          /\ UNCHANGED <<WBM_Com_State, currentState>>
      BY <1>16, <2>2 DEF Tick, MayTick, Communicating
    <3> QED BY <2>2, <3>1, Constants DEF TimersInv, Numbers, Older, Communicating
  <2>3. UNCHANGED <<WBM_Com_State, currentState>>
    BY <1>16 DEF Tick
  <2> QED BY <2>1, <2>2, <2>3 DEF TimersInv, Communicating
<1>17. CASE UnitReplies
  BY <1>17, Constants DEF UnitReplies, task, Runs, TimersInv, Numbers, States, Communicating
<1>18. CASE LineFault
  BY <1>18, Constants DEF LineFault, task, Runs, TimersInv, Numbers, States, Communicating
<1>19. CASE UnitDies
  BY <1>19, Constants DEF UnitDies, task, Runs, TimersInv, Numbers, States, Communicating
<1>20. CASE UnitEntersBootloader
  BY <1>20, Constants DEF UnitEntersBootloader, task, Runs, TimersInv, Numbers, States, Communicating
<1>21. CASE UNCHANGED vars
  BY <1>21 DEF vars, Runs, TimersInv, Numbers, States, Communicating
<1> QED
  BY <1>1, <1>2, <1>3, <1>4, <1>5, <1>6, <1>7, <1>8, <1>9, <1>10, <1>11, <1>12, <1>13, <1>14, <1>15, <1>16, <1>17, <1>18, <1>19, <1>20, <1>21 DEF Next, Unit_event_task, Environment

\* The timers of the connected loop are always in step.
LEMMA TimersAlways == Spec => []TimersInv
BY InitTimers, NextTimers, TypeCorrect, PTL DEF Spec

\* The timeout of the connected loop is never reached.
LEMMA NeverTimedOut ==
    ASSUME TypeOK, TimersInv, Connected("timeout") PROVE ~TimedOut
BY TypeParts, Constants DEF Numbers, TimersInv, Connected, TimedOut

\* No step leaves WBM_Connected or WBM_Error.
LEMMA StepKeepsVerdict ==
    TypeOK /\ TimersInv /\ [Next]_vars =>
        (WBM_Com_State \in {"WBM_Connected", "WBM_Error"} => WBM_Com_State' = WBM_Com_State)
<1> SUFFICES ASSUME TypeOK, TimersInv, [Next]_vars,
                    WBM_Com_State \in {"WBM_Connected", "WBM_Error"}
             PROVE  WBM_Com_State' = WBM_Com_State
  OBVIOUS
<1>1. CASE Initialize
  BY <1>1 DEF Initialize, Communicating, Connected, link
<1>2. CASE ConnectInit
  BY <1>2 DEF ConnectInit, Communicating, Connected, link
<1>3. CASE LinkConnecting
  BY <1>3 DEF LinkConnecting, Communicating, Connected, link
<1>4. CASE TrySerialLinkTimeout
  BY <1>4 DEF TrySerialLinkTimeout, Communicating, Connected, link
<1>5. CASE TrySerialLinkRead
  BY <1>5 DEF TrySerialLinkRead, Communicating, Connected, link
<1>6. CASE LinkConnected
  BY <1>6 DEF LinkConnected, Communicating, Connected, link
<1>7. CASE AnswerTimeout
  BY <1>7 DEF AnswerTimeout, Communicating, Connected, link
<1>8. CASE AnswerAwaited
  BY <1>8 DEF AnswerAwaited, Communicating, Connected, link
<1>9. CASE ReadEepromReply
  BY <1>9 DEF ReadEepromReply, Communicating, Connected, link
<1>10. CASE PollingBaseReply
  BY <1>10 DEF PollingBaseReply, Communicating, Connected, link
<1>11. CASE EnterConnected
  BY <1>11 DEF EnterConnected, Communicating, Connected, link
<1>12. CASE ConnectedTimers
  BY <1>12 DEF ConnectedTimers, Communicating, Connected, link
<1>13. CASE ConnectedTimeout
  BY <1>13, NeverTimedOut DEF ConnectedTimeout
<1>14. CASE ConnectedRead
  BY <1>14 DEF ConnectedRead, Communicating, Connected, link
<1>15. CASE ErrorLoop
  BY <1>15 DEF ErrorLoop, Communicating, Connected, link
<1>16. CASE Tick
  BY <1>16 DEF Tick, Communicating, Connected, link
<1>17. CASE UnitReplies
  BY <1>17 DEF UnitReplies, Communicating, Connected, link, task
<1>18. CASE LineFault
  BY <1>18 DEF LineFault, Communicating, Connected, link, task
<1>19. CASE UnitDies
  BY <1>19 DEF UnitDies, Communicating, Connected, link, task
<1>20. CASE UnitEntersBootloader
  BY <1>20 DEF UnitEntersBootloader, Communicating, Connected, link, task
<1>21. CASE UNCHANGED vars
  BY <1>21 DEF vars, link
<1> QED
  BY <1>1, <1>2, <1>3, <1>4, <1>5, <1>6, <1>7, <1>8, <1>9, <1>10, <1>11, <1>12, <1>13, <1>14, <1>15, <1>16, <1>17, <1>18, <1>19, <1>20, <1>21 DEF Next, Unit_event_task, Environment

\* A connected task never leaves the connected state, so it never reports
\* that the unit is gone; and an error of connecting is never left.
THEOREM OutcomeIsFinal == Spec => VerdictFinal
<1>1. TypeOK /\ TimersInv /\ [Next]_vars =>
        [(WBM_Com_State \in {"WBM_Connected", "WBM_Error"})
            => WBM_Com_State' = WBM_Com_State]_vars
  BY StepKeepsVerdict
<1> QED BY <1>1, TypeCorrect, TimersAlways, PTL DEF Spec, VerdictFinal

-----------------------------------------------------------------------------
(* Turns *)

Quiet == wire = <<>> /\ inbox \in {NoFrame, "bootloader"}

\* Who may be speaking in which state of the task, and for how long.
TurnInv ==
    /\ Len(wire) <= 1
    /\ wire # <<>> => inbox = NoFrame /\ unit = "running"
    /\ inbox = "bootloader" => unit # "running"
    /\ WBM_Com_State = "WBM_initialize" => Quiet /\ currentState = "Init"
    /\ \A s \in {"Init", "LinkConnecting", "LinkConnected", "Connected"} :
          Communicating(s) => Quiet
    /\ Communicating("TrySerialLink") =>
          /\ wire # <<>> => globalAge = wire[1].age
          /\ inbox \notin {NoFrame, "bootloader"} => globalAge <= ReplyWithin + stall
    /\ (WBM_Com_State = "WBM_Connected" /\ (wire # <<>> \/ inbox \in Request \cup {"garbage"}))
          => Eeprom_Data_received

\* A request sent on an empty wire is alone there, and has just been sent.
LEMMA SendAlone ==
    ASSUME NEW k, wire = <<>>, Send(k)
    PROVE  /\ Len(wire') <= 1
           /\ wire' # <<>> => unit = "running" /\ wire'[1].age = 0 /\ wire'[1].kind = k
BY DEF Send

\* A wire holds nothing, or one request.
LEMMA WireShape ==
    ASSUME TypeOK, TurnInv, wire # <<>>
    PROVE  /\ Len(wire) = 1 /\ wire[1] \in Entry
           /\ Head(wire) = wire[1] /\ Tail(wire) = <<>>
<1>1. wire \in Seq(Entry)
  BY TypeParts DEF Line
<1>2. Len(wire) \in Nat \ {0} /\ Len(wire) <= 1
  BY <1>1, EmptySeq DEF TurnInv
<1>3. Len(wire) = 1
  <2>1. \A n \in Nat \ {0} : n <= 1 => n = 1
    OBVIOUS
  <2> QED BY <1>2, <2>1, Zenon
<1>4. Len(Tail(wire)) = 0 /\ Tail(wire) \in Seq(Entry)
  BY <1>1, <1>3, HeadTailProperties
<1>5. Tail(wire) = <<>>
  BY <1>4, EmptySeq
<1>6. Head(wire) = wire[1] /\ wire[1] \in Entry
  BY <1>1, <1>3, ElementOfSeq
<1> QED BY <1>3, <1>5, <1>6

\* A whole answer is neither noise nor the banner.
LEMMA KindsDiffer ==
    /\ NoFrame \notin Request /\ "garbage" \notin Request /\ "bootloader" \notin Request
    /\ NoFrame \notin {"garbage", "bootloader"}
BY DEF NoFrame, Request, ReadOrder

\* Nobody speaks initially.
LEMMA InitTurn == Init => TurnInv
BY DEF Init, TurnInv, Quiet, Communicating, NoFrame, Request, ReadOrder

\* Every step keeps the turns.
LEMMA NextTurn == TypeOK /\ TimersInv /\ TurnInv /\ [Next]_vars => TurnInv'
<1> USE DEF timers, shown, env, link
<1> SUFFICES ASSUME TypeOK, Numbers, States, Line, TimersInv, TurnInv, [Next]_vars PROVE TurnInv'
  BY TypeParts
<1>1. CASE Initialize
  BY <1>1, Constants DEF Initialize, TurnInv, Quiet, Communicating, Connected, Numbers
<1>2. CASE ConnectInit
  BY <1>2, Constants DEF ConnectInit, TurnInv, Quiet, Communicating, Connected, Numbers
<1>3. CASE LinkConnecting
  <2>1. wire = <<>> /\ inbox \in {NoFrame, "bootloader"}
    BY <1>3 DEF LinkConnecting, TurnInv, Quiet, Communicating
  <2>2. /\ Len(wire') <= 1
        /\ wire' # <<>> => unit = "running" /\ wire'[1].age = 0 /\ globalAge' = 0
    BY <1>3, <2>1, SendAlone DEF LinkConnecting, TurnInv
  <2>3. /\ WBM_Com_State' = "WBM_Communicating" /\ currentState' = "TrySerialLink"
        /\ inbox' = inbox /\ unit' = unit
    BY <1>3 DEF LinkConnecting, Communicating
  <2> QED BY <2>1, <2>2, <2>3 DEF TurnInv, Communicating
<1>4. CASE TrySerialLinkTimeout
  <2>1. Communicating("TrySerialLink") /\ globalAge >= Timeout
    BY <1>4 DEF TrySerialLinkTimeout, TimedOut
  <2>2. wire = <<>>
    <3> SUFFICES ASSUME wire # <<>> PROVE FALSE
      OBVIOUS
    <3>1. globalAge = wire[1].age /\ wire[1] \in Entry
      BY <2>1, WireShape DEF TurnInv
    <3> QED BY <2>1, <3>1, Constants DEF Entry
  <2>3. inbox \in {NoFrame, "bootloader"}
    BY <2>1, Constants DEF TurnInv, Numbers
  <2>4. /\ WBM_Com_State' = "WBM_Communicating" /\ currentState' \in {"Init", "LinkConnecting"}
        /\ inbox' = inbox /\ unit' = unit /\ wire' = wire
    BY <1>4 DEF TrySerialLinkTimeout, Communicating
  <2> QED BY <2>2, <2>3, <2>4 DEF TurnInv, Quiet, Communicating
<1>5. CASE TrySerialLinkRead
  <2>1. /\ Communicating("TrySerialLink") /\ inbox' = NoFrame
        /\ wire' = wire /\ unit' = unit /\ globalAge' = globalAge
        /\ WBM_Com_State' = "WBM_Communicating"
        /\ currentState' \in {"Bootloader_State", "TrySerialLink", "LinkConnected"}
        /\ currentState' = "LinkConnected" => GotMessage
    BY <1>5 DEF TrySerialLinkRead, TakeFrame, Communicating
  <2>2. GotMessage => wire = <<>>
    BY DEF GotMessage, TurnInv
  <2> QED BY <2>1, <2>2, KindsDiffer DEF TurnInv, Quiet, Communicating
<1>6. CASE LinkConnected
  <2>1. wire = <<>> /\ inbox \in {NoFrame, "bootloader"}
    BY <1>6 DEF LinkConnected, TurnInv, Quiet, Communicating
  <2>2. Len(wire') <= 1 /\ (wire' # <<>> => unit = "running")
    BY <1>6, <2>1, SendAlone DEF LinkConnected
  <2>3. /\ WBM_Com_State' = "WBM_Communicating" /\ currentState' = "ReadEeprom"
        /\ inbox' = inbox /\ unit' = unit
    BY <1>6 DEF LinkConnected, Communicating
  <2> QED BY <2>1, <2>2, <2>3 DEF TurnInv, Communicating
<1>7. CASE AnswerTimeout
  BY <1>7, Constants DEF AnswerTimeout, TurnInv, Quiet, Communicating, Connected, Numbers
<1>8. CASE AnswerAwaited
  <2>1. /\ WBM_Com_State' = "WBM_Communicating" /\ currentState' \in {"ReadEeprom", "PollingBase"}
        /\ inbox' = NoFrame /\ wire' = wire /\ unit' = unit
    BY <1>8 DEF AnswerAwaited, TakeFrame, Communicating
  <2> QED BY <2>1, KindsDiffer DEF TurnInv, Communicating
<1>9. CASE ReadEepromReply
  <2>1. wire = <<>>
    BY <1>9 DEF ReadEepromReply, GotMessage, TurnInv
  <2>2. Len(wire') <= 1 /\ (wire' # <<>> => unit = "running")
    BY <1>9, <2>1, SendAlone DEF ReadEepromReply
  <2>3. /\ WBM_Com_State' = "WBM_Communicating" /\ currentState' \in {"ReadEeprom", "PollingBase"}
        /\ inbox' = NoFrame /\ unit' = unit
    BY <1>9 DEF ReadEepromReply, Communicating
  <2> QED BY <2>2, <2>3, KindsDiffer DEF TurnInv, Communicating
<1>10. CASE PollingBaseReply
  <2>1. wire = <<>>
    BY <1>10 DEF PollingBaseReply, GotMessage, TurnInv
  <2>2. /\ WBM_Com_State' = "WBM_Communicating" /\ currentState' = "Connected"
        /\ inbox' = NoFrame /\ wire' = wire /\ unit' = unit
    BY <1>10 DEF PollingBaseReply, TakeFrame, Communicating
  <2> QED BY <2>1, <2>2, KindsDiffer DEF TurnInv, Quiet, Communicating
<1>11. CASE EnterConnected
  <2>1. wire = <<>> /\ inbox \in {NoFrame, "bootloader"}
    BY <1>11 DEF EnterConnected, TurnInv, Quiet, Communicating
  <2>2. WBM_Com_State' = "WBM_Connected" /\ inbox' = inbox /\ wire' = wire /\ unit' = unit
    BY <1>11 DEF EnterConnected
  <2> QED BY <2>1, <2>2, KindsDiffer DEF TurnInv, Communicating
<1>12. CASE ConnectedTimers
  <2>1. /\ WBM_Com_State = "WBM_Connected" /\ WBM_Com_State' = "WBM_Connected"
        /\ inbox' = inbox /\ unit' = unit
        /\ \/ wire' = wire /\ Eeprom_Data_received' = Eeprom_Data_received
           \/ wire' = wire /\ Eeprom_Data_received' = TRUE
           \/ ~Eeprom_Data_received /\ Eeprom_Data_received' = TRUE /\ \E k \in Request : Send(k)
    BY <1>12, Kinds DEF ConnectedTimers, AskIfFree, Connected
  <2>2. CASE wire' = wire /\ Eeprom_Data_received' = Eeprom_Data_received
    BY <2>1, <2>2 DEF TurnInv, Communicating
  <2>3. CASE wire' = wire /\ Eeprom_Data_received' = TRUE
    BY <2>1, <2>3 DEF TurnInv, Communicating
  <2>4. CASE ~Eeprom_Data_received /\ Eeprom_Data_received' = TRUE /\ \E k \in Request : Send(k)
    <3>1. wire = <<>> /\ inbox \notin Request \cup {"garbage"}
      BY <2>1, <2>4 DEF TurnInv
    <3>2. Len(wire') <= 1 /\ (wire' # <<>> => unit = "running")
      BY <2>4, <3>1, SendAlone
    <3>3. unit = "running" => inbox = NoFrame
      BY <3>1, TypeParts DEF TurnInv, Line, Frame
    <3> QED BY <2>1, <2>4, <3>1, <3>2, <3>3 DEF TurnInv, Communicating
  <2> QED BY <2>1, <2>2, <2>3, <2>4
<1>13. CASE ConnectedTimeout
  <2>1. UNCHANGED <<WBM_Com_State, Eeprom_Data_received>>
    BY <1>13, NeverTimedOut DEF ConnectedTimeout
  <2> QED BY <1>13, <2>1 DEF ConnectedTimeout, Connected, TurnInv, Communicating
<1>14. CASE ConnectedRead
  <2>1. /\ WBM_Com_State = "WBM_Connected" /\ WBM_Com_State' = "WBM_Connected"
        /\ inbox' = NoFrame /\ unit' = unit
        /\ \/ wire' = wire /\ Eeprom_Data_received' = (Eeprom_Data_received /\ ~EndsWait)
           \/ /\ ~(Eeprom_Data_received /\ ~EndsWait)
              /\ Send("eeprom") /\ Eeprom_Data_received' = TRUE
    BY <1>14 DEF ConnectedRead, Connected
  <2>2. ~(Eeprom_Data_received /\ ~EndsWait) => wire = <<>>
    BY <2>1, KindsDiffer DEF TurnInv, EndsWait
  <2>3. CASE wire' = wire /\ Eeprom_Data_received' = (Eeprom_Data_received /\ ~EndsWait)
    BY <2>1, <2>2, <2>3, KindsDiffer DEF TurnInv, Communicating
  <2>4. CASE /\ ~(Eeprom_Data_received /\ ~EndsWait)
             /\ Send("eeprom") /\ Eeprom_Data_received' = TRUE
    <3>1. Len(wire') <= 1 /\ (wire' # <<>> => unit = "running")
      BY <2>2, <2>4, SendAlone
    <3> QED BY <2>1, <2>4, <3>1, KindsDiffer DEF TurnInv, Communicating
  <2> QED BY <2>1, <2>3, <2>4
<1>15. CASE ErrorLoop
  BY <1>15, Constants DEF ErrorLoop, TurnInv, Quiet, Communicating, Connected, Numbers
<1>16. CASE Tick
  <2>1. /\ UNCHANGED <<WBM_Com_State, currentState, Eeprom_Data_received, unit, inbox>>
        /\ globalAge' = Older(globalAge)
        /\ stall' = IF stall < MaxStall THEN stall + 1 ELSE stall
        /\ stall < MaxStall \/ currentState = "Bootloader_State"
    BY <1>16 DEF Tick, MayTick
  <2>2. wire' = [i \in 1..Len(wire) |-> [wire[i] EXCEPT !.age = @ + 1]]
    BY <1>16 DEF Tick
  <2>3. CASE wire = <<>>
    <3>1. wire' = <<>>
      BY <2>2, <2>3
    <3> QED BY <2>1, <2>3, <3>1, Constants DEF TurnInv, Quiet, Communicating, Older, Numbers
  <2>4. CASE wire # <<>>
    <3>1. Len(wire) = 1 /\ wire[1] \in Entry
      BY <2>4, WireShape
    <3>2. Len(wire') = 1 /\ wire'[1] = [wire[1] EXCEPT !.age = @ + 1]
      BY <2>2, <3>1
    <3>3. wire'[1].age = wire[1].age + 1 /\ wire[1].age \in 0..ReplyWithin
      BY <3>1, <3>2 DEF Entry
    <3>4. Communicating("TrySerialLink") => globalAge' = wire'[1].age
      BY <2>1, <2>4, <3>3, Constants DEF TurnInv, Older
    <3>5. Communicating("TrySerialLink") => inbox = NoFrame
      BY <2>4 DEF TurnInv
    <3> QED BY <2>1, <2>4, <3>2, <3>4, <3>5 DEF TurnInv, Quiet, Communicating
  <2> QED BY <2>3, <2>4
<1>17. CASE UnitReplies
  <2>1. /\ wire[1] \in Entry /\ wire' = <<>> /\ Len(wire') = 0
        /\ inbox' \in {wire[1].kind}
        /\ inbox = NoFrame
    BY <1>17, WireShape DEF UnitReplies, TurnInv
  <2>2. UNCHANGED <<WBM_Com_State, currentState, unit, globalAge, stall, Eeprom_Data_received>>
    BY <1>17 DEF UnitReplies, task
  <2>3. inbox' # "bootloader"
    BY <2>1, KindsDiffer DEF Entry
  <2>4. Communicating("TrySerialLink") => globalAge <= ReplyWithin + stall
    <3> SUFFICES ASSUME Communicating("TrySerialLink") PROVE globalAge <= ReplyWithin + stall
      OBVIOUS
    <3>1. globalAge = wire[1].age
      BY <1>17 DEF UnitReplies, TurnInv
    <3> QED BY <2>1, <3>1, Constants DEF Entry, Numbers
  <2> QED BY <1>17, <2>1, <2>2, <2>3, <2>4 DEF UnitReplies, TurnInv, Quiet, Communicating
<1>18. CASE LineFault
  <2>1. /\ wire[1] \in Entry /\ wire' = <<>> /\ Len(wire') = 0
        /\ inbox' \in {NoFrame, "garbage"}
        /\ inbox = NoFrame
    BY <1>18, WireShape DEF LineFault, TurnInv
  <2>2. UNCHANGED <<WBM_Com_State, currentState, unit, globalAge, stall, Eeprom_Data_received>>
    BY <1>18 DEF LineFault, task
  <2>3. inbox' # "bootloader"
    BY <2>1, KindsDiffer DEF Entry
  <2>4. Communicating("TrySerialLink") => globalAge <= ReplyWithin + stall
    <3> SUFFICES ASSUME Communicating("TrySerialLink") PROVE globalAge <= ReplyWithin + stall
      OBVIOUS
    <3>1. globalAge = wire[1].age
      BY <1>18 DEF LineFault, TurnInv
    <3> QED BY <2>1, <3>1, Constants DEF Entry, Numbers
  <2> QED BY <1>18, <2>1, <2>2, <2>3, <2>4 DEF LineFault, TurnInv, Quiet, Communicating
<1>19. CASE UnitDies
  BY <1>19, Constants DEF UnitDies, task, TurnInv, Quiet, Communicating, Connected, Numbers
<1>20. CASE UnitEntersBootloader
  <2>1. /\ UNCHANGED <<WBM_Com_State, currentState, globalAge, stall, Eeprom_Data_received>>
        /\ unit' = "bootloader" /\ inbox' = "bootloader" /\ wire' = <<>> /\ Len(wire') = 0
    BY <1>20 DEF UnitEntersBootloader, task
  <2> QED BY <2>1, KindsDiffer DEF TurnInv, Quiet, Communicating
<1>21. CASE UNCHANGED vars
  BY <1>21 DEF vars, TurnInv, Quiet, Communicating, Connected, Numbers
<1> QED
  BY <1>1, <1>2, <1>3, <1>4, <1>5, <1>6, <1>7, <1>8, <1>9, <1>10, <1>11, <1>12, <1>13, <1>14, <1>15, <1>16, <1>17, <1>18, <1>19, <1>20, <1>21 DEF Next, Unit_event_task, Environment

\* The turns are kept in every behaviour.
LEMMA TurnsAlways == Spec => []TurnInv
BY InitTurn, NextTurn, TypeCorrect, TimersAlways, PTL DEF Spec

\* The task and the unit speak in turns.
THEOREM SpeakInTurns == Spec => []InTurns
<1>1. TurnInv => InTurns
  BY DEF TurnInv, InTurns
<1> QED BY <1>1, TurnsAlways, PTL

-----------------------------------------------------------------------------
(* The image *)

\* The areas of the sections before the n-th hold what was read for them;
\* the second section's is overwritten by the sixth's.
Right(n) == \A i \in {1, 3, 4, 5, 6} : i < n => gRDEeprom[Area(i)] = ReadOrder[i]

\* The unit fell silent while the task still waits for it.
Lost == unit # "running" /\ wire = <<>> /\ inbox = NoFrame

\* What may arrive is an answer for the section that is waited for.
InOrder ==
    /\ wire # <<>> => wire[1].kind = ReadOrder[section]
    /\ inbox \in {NoFrame, "garbage", "bootloader", ReadOrder[section]}

ImageInv ==
    /\ Communicating("ReadEeprom") => Lost \/ (Right(section) /\ InOrder)
    /\ Communicating("PollingBase") => Lost \/ Right(7)
    /\ (Communicating("Connected") \/ WBM_Com_State = "WBM_Connected") => Right(7)
    /\ s_runtime_ready => WBM_Com_State = "WBM_Connected"

\* Initially nothing is promised of the image.
LEMMA InitImage == Init => ImageInv
BY DEF Init, ImageInv, Communicating

\* Every step keeps what was read.
LEMMA NextImage ==
    TypeOK /\ TimersInv /\ TurnInv /\ ImageInv /\ [Next]_vars => ImageInv'
<1> USE DEF timers, shown, env, link
<1> SUFFICES ASSUME TypeOK, Numbers, States, Line, TimersInv, TurnInv, ImageInv, [Next]_vars
             PROVE ImageInv'
  BY TypeParts
<1>1. CASE Initialize
  BY <1>1, Constants DEF Initialize, ImageInv, Right, Lost, InOrder, Communicating, Connected
<1>2. CASE ConnectInit
  BY <1>2, Constants DEF ConnectInit, ImageInv, Right, Lost, InOrder, Communicating, Connected
<1>3. CASE LinkConnecting
  BY <1>3, Constants DEF LinkConnecting, ImageInv, Right, Lost, InOrder, Communicating, Connected
<1>4. CASE TrySerialLinkTimeout
  BY <1>4, Constants DEF TrySerialLinkTimeout, ImageInv, Right, Lost, InOrder, Communicating, Connected
<1>5. CASE TrySerialLinkRead
  BY <1>5, Constants DEF TrySerialLinkRead, TakeFrame, GotMessage, ImageInv, Right, Lost, InOrder, Communicating, Connected
<1>6. CASE LinkConnected
  <2>1. wire = <<>> /\ inbox \in {NoFrame, "bootloader"}
    BY <1>6 DEF LinkConnected, TurnInv, Quiet, Communicating
  <2>2. wire' # <<>> => wire'[1].kind = ReadOrder[1]
    BY <1>6, <2>1, SendAlone DEF LinkConnected
  <2>3. /\ WBM_Com_State' = "WBM_Communicating" /\ currentState' = "ReadEeprom" /\ section' = 1
        /\ inbox' = inbox /\ s_runtime_ready' = s_runtime_ready /\ WBM_Com_State = "WBM_Communicating"
    BY <1>6 DEF LinkConnected, Communicating
  <2> QED BY <2>1, <2>2, <2>3 DEF ImageInv, Right, InOrder, Communicating
<1>7. CASE AnswerTimeout
  BY <1>7, Constants DEF AnswerTimeout, ImageInv, Right, Lost, InOrder, Communicating, Connected
<1>8. CASE AnswerAwaited
  BY <1>8, Constants DEF AnswerAwaited, TakeFrame, ImageInv, Right, Lost, InOrder, Communicating, Connected
<1>9. CASE ReadEepromReply
  <2>1. /\ Communicating("ReadEeprom") /\ GotMessage /\ section \in 1..6
        /\ inbox' = NoFrame /\ unit' = unit /\ s_runtime_ready' = s_runtime_ready
        /\ gRDEeprom' = [gRDEeprom EXCEPT ![Area(section)] = inbox]
        /\ WBM_Com_State' = "WBM_Communicating"
    BY <1>9 DEF ReadEepromReply, Communicating, Numbers
  <2>2. wire = <<>> /\ inbox # NoFrame
    BY <2>1 DEF GotMessage, TurnInv
  <2>3. Right(section) /\ InOrder
    BY <2>1, <2>2 DEF ImageInv, Lost
  <2>4. CASE inbox = "bootloader"
    <3>1. unit # "running"
      BY <2>4 DEF TurnInv
    <3>2. wire' = <<>>
      BY <1>9, <2>2, <3>1 DEF ReadEepromReply, Send
    <3>3. currentState' \in {"ReadEeprom", "PollingBase"}
      BY <1>9 DEF ReadEepromReply, Communicating
    <3> QED BY <2>1, <3>1, <3>2, <3>3 DEF ImageInv, Lost, Communicating
  <2>5. CASE inbox # "bootloader"
    <3>1. inbox = ReadOrder[section]
      BY <2>1, <2>3, <2>5 DEF InOrder, GotMessage
    <3>2. \A i \in {1, 3, 4, 5, 6} : i < section + 1 => gRDEeprom'[Area(i)] = ReadOrder[i]
      <4> SUFFICES ASSUME NEW i \in {1, 3, 4, 5, 6}, i < section + 1
                   PROVE  gRDEeprom'[Area(i)] = ReadOrder[i]
        OBVIOUS
      <4>1. Area(section) \in Areas /\ Area(i) \in Areas
        BY <2>1 DEF Areas
      <4>2. CASE i = section
        BY <2>1, <3>1, <4>1, <4>2 DEF Line
      <4>3. CASE i # section
        <5>1. i < section /\ Area(i) # Area(section)
          BY <2>1, <4>3 DEF Area, ReadOrder
        <5>2. gRDEeprom'[Area(i)] = gRDEeprom[Area(i)]
          BY <2>1, <4>1, <5>1 DEF Line
        <5> QED BY <2>3, <5>1, <5>2 DEF Right
      <4> QED BY <4>2, <4>3
    <3>3. CASE section < 6
      <4>1. section' = section + 1 /\ currentState' = "ReadEeprom" /\ Send(ReadOrder[section + 1])
        BY <1>9, <2>1, <3>3 DEF ReadEepromReply, Communicating
      <4>2. wire' # <<>> => wire'[1].kind = ReadOrder[section']
        BY <2>2, <4>1, SendAlone
      <4> QED BY <2>1, <3>2, <4>1, <4>2 DEF ImageInv, Right, InOrder, Communicating
    <3>4. CASE section = 6
      <4>1. currentState' = "PollingBase"
        BY <1>9, <3>4 DEF ReadEepromReply
      <4> QED BY <2>1, <3>2, <3>4, <4>1 DEF ImageInv, Right, Communicating
    <3> QED BY <2>1, <3>3, <3>4
  <2> QED BY <2>4, <2>5
<1>10. CASE PollingBaseReply
  <2>1. /\ Communicating("PollingBase") /\ inbox # NoFrame
        /\ WBM_Com_State' = "WBM_Communicating" /\ currentState' = "Connected"
        /\ UNCHANGED <<gRDEeprom, s_runtime_ready>>
    BY <1>10 DEF PollingBaseReply, TakeFrame, Communicating, GotMessage
  <2>2. Right(7)
    BY <2>1 DEF ImageInv, Lost
  <2> QED BY <2>1, <2>2 DEF ImageInv, Right, Communicating
<1>11. CASE EnterConnected
  BY <1>11, Constants DEF EnterConnected, ImageInv, Right, Lost, InOrder, Communicating, Connected
<1>12. CASE ConnectedTimers
  BY <1>12, Constants DEF ConnectedTimers, ImageInv, Right, Lost, InOrder, Communicating, Connected
<1>13. CASE ConnectedTimeout
  <2>1. /\ WBM_Com_State = "WBM_Connected" /\ WBM_Com_State' = WBM_Com_State
        /\ UNCHANGED <<gRDEeprom, s_runtime_ready>>
    BY <1>13, NeverTimedOut DEF ConnectedTimeout, Connected
  <2> QED BY <2>1 DEF ImageInv, Right, Communicating
<1>14. CASE ConnectedRead
  BY <1>14, Constants DEF ConnectedRead, ImageInv, Right, Lost, InOrder, Communicating, Connected
<1>15. CASE ErrorLoop
  BY <1>15, Constants DEF ErrorLoop, ImageInv, Right, Lost, InOrder, Communicating, Connected
<1>16. CASE Tick
  <2>1. UNCHANGED <<WBM_Com_State, currentState, section, gRDEeprom, s_runtime_ready, unit, inbox>>
    BY <1>16 DEF Tick
  <2>2. wire' = [i \in 1..Len(wire) |-> [wire[i] EXCEPT !.age = @ + 1]]
    BY <1>16 DEF Tick
  <2>3. (wire = <<>> => wire' = <<>>) /\ (wire' # <<>> => wire # <<>>)
    BY <2>2
  <2>4. ASSUME wire # <<>> PROVE wire'[1].kind = wire[1].kind
    <3>1. Len(wire) = 1 /\ wire[1] \in Entry
      BY <2>4, WireShape
    <3> QED BY <2>2, <3>1 DEF Entry
  <2> QED BY <2>1, <2>3, <2>4 DEF ImageInv, Right, Lost, InOrder, Communicating
<1>17. CASE UnitReplies
  <2>1. /\ wire # <<>> /\ wire' = <<>>
        /\ inbox' \in {wire[1].kind}
        /\ UNCHANGED <<WBM_Com_State, currentState, section, gRDEeprom, s_runtime_ready, unit>>
    BY <1>17, WireShape DEF UnitReplies, task
  <2> QED BY <2>1 DEF ImageInv, Right, Lost, InOrder, Communicating
<1>18. CASE LineFault
  <2>1. /\ wire # <<>> /\ wire' = <<>>
        /\ inbox' \in {inbox, "garbage"}
        /\ UNCHANGED <<WBM_Com_State, currentState, section, gRDEeprom, s_runtime_ready, unit>>
    BY <1>18, WireShape DEF LineFault, task
  <2> QED BY <2>1 DEF ImageInv, Right, Lost, InOrder, Communicating
<1>19. CASE UnitDies
  BY <1>19, Constants DEF UnitDies, task, ImageInv, Right, Lost, InOrder, Communicating, Connected
<1>20. CASE UnitEntersBootloader
  BY <1>20, Constants DEF UnitEntersBootloader, task, ImageInv, Right, Lost, InOrder, Communicating, Connected
<1>21. CASE UNCHANGED vars
  BY <1>21 DEF vars, ImageInv, Right, Lost, InOrder, Communicating, Connected
<1> QED
  BY <1>1, <1>2, <1>3, <1>4, <1>5, <1>6, <1>7, <1>8, <1>9, <1>10, <1>11, <1>12, <1>13, <1>14, <1>15, <1>16, <1>17, <1>18, <1>19, <1>20, <1>21 DEF Next, Unit_event_task, Environment

\* The app is told that the device is ready only when every byte of the image
\* came from the section it belongs to.
THEOREM ReadyImage == Spec => []ReadyMeansImageRead
<1>1. ImageInv => ReadyMeansImageRead
  BY DEF ImageInv, ReadyMeansImageRead, Right
<1> QED BY <1>1, InitImage, NextImage, TypeCorrect, TimersAlways, TurnsAlways, PTL DEF Spec
=============================================================================
