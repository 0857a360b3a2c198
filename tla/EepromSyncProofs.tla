-------------------------- MODULE EepromSyncProofs --------------------------
(***************************************************************************)
(* Proofs about EepromSync and EepromStart for every set of sections and   *)
(* of writers, every width of the counters and all bounds: the types, that *)
(* the task always knows of a section of the image that has gone stale,    *)
(* that the unit gets no blank byte of an image about to be filled, from   *)
(* the link that is up and from the handshake's first read on, and that    *)
(* the image is a write-back cache where writes and changes take turns.    *)
(***************************************************************************)
EXTENDS EepromStart, FiniteSetTheorems, TLAPS

-----------------------------------------------------------------------------
(* Types *)

\* What the assumptions say of each constant.
LEMMA Constants ==
    /\ Sections \subseteq Nat /\ Counted \subseteq Sections
    /\ MaxWrites \in Nat /\ MaxChanges \in Nat /\ MaxFaults \in Nat
    /\ CntMod \in Nat /\ MaxChanges < CntMod
    /\ "task" \notin Apps
BY SectionsAssumption, BoundsAssumption, CounterAssumption

WordType ==
    /\ Read_Eeprom_Request_Index \subseteq Bits
    /\ busy \subseteq Tasks /\ loaded \in [Tasks -> SUBSET Bits]
    /\ clashed \in BOOLEAN

ImageType ==
    /\ gRDEeprom \in [Sections -> Data] /\ cntUpdate \in [Counted -> Cnt]
    /\ s_ext_cnt \in [Counted -> Cnt]

LoopType ==
    /\ pc \in {"timers", "read", "merge", "dispatch", "clear"} /\ marks \subseteq Bits
    /\ Eeprom_Data_received \in BOOLEAN

AppType ==
    /\ app \in [Apps -> [at : {"idle", "copy", "bits"}, left : SUBSET AllWrites]]
    /\ writes \in Nat

UnitType ==
    /\ unitData \in [Sections -> Data] /\ unitCnt \in [Counted -> Cnt]
    /\ changes \in 0..MaxChanges /\ faults \in 0..MaxFaults

LineType ==
    /\ wire \in Requests \cup {None} /\ inbox \in Answers \cup {None}
    /\ (wire # None \/ inbox # None) => Eeprom_Data_received
    /\ wire = None \/ inbox = None

\* The type invariant in parts that one prover each can handle.
LEMMA TypeParts ==
    TypeOK <=> WordType /\ ImageType /\ LoopType /\ AppType /\ UnitType /\ LineType
BY DEF TypeOK, WordType, ImageType, LoopType, AppType, UnitType, LineType

\* What the sections, the counters and the bits are made of.
LEMMA Made ==
    /\ \A n \in Nat : ByUnit(n) \in Data /\ ByApp(n) \in Data
    /\ Blank \in Data
    /\ 0 \in Cnt /\ \A c \in Cnt : NextCnt(c) \in Cnt
    /\ AllWrites \subseteq Bits
    /\ \A s \in Counted : Read(s) \in Bits /\ s \in Sections
BY Constants DEF ByUnit, ByApp, Blank, Data, NextCnt, Cnt, AllWrites, Bits

\* A bit names a section, and only a counted one is read.
LEMMA BitShape ==
    \A b \in Bits : b.sec \in Sections /\ (b.op = "read" => b.sec \in Counted)
BY Constants DEF Bits, Read, Write

\* A record of each kind that is sent or received.
LEMMA Messages ==
    /\ [kind |-> "poll"] \in Requests /\ [kind |-> "debug"] \in Requests
    /\ \A s \in Counted : [kind |-> "read", sec |-> s] \in Requests
    /\ \A s \in Sections, d \in Data : [kind |-> "write", sec |-> s, data |-> d] \in Requests
    /\ \A c \in [Counted -> Cnt] :
          [kind |-> "poll", cnts |-> c] \in Answers /\ [kind |-> "write", cnts |-> c] \in Answers
    /\ \A s \in Counted, d \in Data, c \in Cnt :
          [kind |-> "read", sec |-> s, data |-> d, cnt |-> c] \in Answers
    /\ [kind |-> "debug"] \in Answers /\ [kind |-> "garbage"] \in Answers
BY DEF Requests, Answers

\* What a message of a kind carries.
LEMMA Contents ==
    /\ None \notin Requests /\ None \notin Answers /\ None.kind = "none"
    /\ \A m \in Requests \cup {None} :
          /\ m.kind \in {"poll", "debug", "read", "write", "none"}
          /\ m.kind = "read" => m.sec \in Counted
          /\ m.kind = "write" => m.sec \in Sections /\ m.data \in Data
    /\ \A m \in Answers \cup {None} :
          /\ m.kind \in {"poll", "write"} => m.cnts \in [Counted -> Cnt]
          /\ m.kind = "read" => m.sec \in Counted /\ m.data \in Data /\ m.cnt \in Cnt
<1>1. \A m \in Requests : m.kind # "none"
  BY DEF Requests
<1>2. \A m \in Answers : m.kind # "none"
  BY DEF Answers
<1>3. None \notin Requests /\ None \notin Answers /\ None.kind = "none"
  BY <1>1, <1>2 DEF None
<1>4. \A m \in Requests \cup {None} :
          /\ m.kind \in {"poll", "debug", "read", "write", "none"}
          /\ m.kind = "read" => m.sec \in Counted
          /\ m.kind = "write" => m.sec \in Sections /\ m.data \in Data
  BY DEF Requests, None
<1>5. \A m \in Answers \cup {None} :
          /\ m.kind \in {"poll", "write"} => m.cnts \in [Counted -> Cnt]
          /\ m.kind = "read" => m.sec \in Counted /\ m.data \in Data /\ m.cnt \in Cnt
  BY DEF Answers, None
<1> QED BY <1>3, <1>4, <1>5

\* Loading keeps the request word's type, ...
LEMMA LoadType == ASSUME WordType, NEW t \in Tasks, Load(t) PROVE WordType'
BY DEF WordType, Load

\* ... as storing does.
LEMMA StoreType ==
    ASSUME WordType, NEW t \in Tasks, NEW b \in SUBSET Bits, Store(t, b) PROVE WordType'
BY DEF WordType, Store

\* The bits set or cleared are bits of the word.
LEMMA MarkTypes ==
    /\ \A c : Outdated(c) \subseteq Bits
    /\ {Read(s) : s \in {c \in Counted : inbox.cnts[c] # cntUpdate[c]}} \subseteq Bits
    /\ \A b \in SUBSET Bits : Cleared(b) \subseteq Bits
BY DEF Outdated, Bits, Cleared

\* The initial states have their types.
LEMMA InitTypeOK == Init => TypeOK
<1> SUFFICES ASSUME Init
             PROVE  WordType /\ ImageType /\ LoopType /\ AppType /\ UnitType /\ LineType
  BY TypeParts
<1>1. WordType
  <2>1. clashed \in BOOLEAN
    BY DEF Init
  <2> QED BY <2>1, Made DEF Init, WordType
<1>2. ImageType
  BY Made DEF Init, ImageType
<1>3. LoopType
  BY DEF Init, LoopType
<1>4. AppType
  BY DEF Init, AppType
<1>5. UnitType
  BY Made, Constants DEF Init, UnitType
<1>6. LineType
  BY DEF Init, LineType
<1> QED BY <1>1, <1>2, <1>3, <1>4, <1>5, <1>6

\* An app's steps keep the types, also those of them that hold during the handshake.
LEMMA AppTypes ==
    ASSUME WordType, ImageType, AppType, UnitType, NEW a \in Apps, AppSteps(a)
    PROVE  WordType' /\ ImageType' /\ AppType' /\ UnitType' /\ UNCHANGED <<loop, line>>
<1> USE DEF word, request, image, loop, apps, unit, line
<1>1. a \in Tasks
  BY DEF Tasks
<1>2. UnitType' /\ UNCHANGED <<loop, line>>
  BY DEF AppSteps, AppErases, AppCopies, AppLoads, AppStores, UnitType
<1>3. CASE AppErases(a)
  BY <1>3, Made DEF AppErases, WordType, ImageType, AppType, UnitType
<1>4. CASE AppCopies(a)
  <2>1. ImageType'
    BY <1>4, Made DEF AppCopies, ImageType, AppType, UnitType
  <2>2. WordType' /\ AppType'
    BY <1>4 DEF AppCopies, WordType, AppType
  <2> QED BY <1>2, <2>1, <2>2
<1>5. CASE AppLoads(a)
  BY <1>1, <1>5, LoadType DEF AppLoads, ImageType, AppType, UnitType
<1>6. CASE AppStores(a)
  <2>1. PICK g \in SUBSET app[a].left : Store(a, loaded[a] \cup g)
    BY <1>6 DEF AppStores
  <2>2. loaded[a] \cup g \in SUBSET Bits
    BY <1>1, Made DEF WordType, AppType
  <2>3. WordType'
    BY <1>1, <2>1, <2>2, StoreType
  <2> QED BY <1>2, <1>6, <2>3 DEF AppStores, ImageType, AppType
<1> QED BY <1>2, <1>3, <1>4, <1>5, <1>6 DEF AppSteps

\* So does a change of the unit.
LEMMA ChangeTypes ==
    ASSUME WordType, ImageType, AppType, UnitType, NEW s \in Counted, UnitChanges(s)
    PROVE  WordType' /\ ImageType' /\ AppType' /\ UnitType' /\ UNCHANGED <<loop, line>>
<1> USE DEF word, request, image, loop, apps, unit, line
<1>1. WordType' /\ ImageType' /\ AppType' /\ UNCHANGED <<loop, line>>
  BY DEF UnitChanges, WordType, ImageType, AppType
<1>2. UnitType'
  BY Made, Constants DEF UnitChanges, UnitType
<1> QED BY <1>1, <1>2

\* Every step keeps the types.
LEMMA NextTypeOK == TypeOK /\ [Next]_vars => TypeOK'
<1> USE DEF word, request, image, loop, apps, unit, line
<1> SUFFICES ASSUME WordType, ImageType, LoopType, AppType, UnitType, LineType, [Next]_vars
             PROVE  WordType' /\ ImageType' /\ LoopType' /\ AppType' /\ UnitType' /\ LineType'
  BY TypeParts, PTL
<1>1. ASSUME NEW k \in {"poll", "debug"}, Ask(k) PROVE WordType' /\ ImageType' /\ LoopType' /\ AppType' /\ UnitType' /\ LineType'
  <2>1. WordType'
    BY <1>1, LoadType, StoreType, MarkTypes DEF Ask, WordType, LoopType, AppType, Tasks
  <2>2. ImageType'
    BY <1>1, Made, Contents DEF Ask, ImageType, LineType, AppType, UnitType
  <2>3. LoopType'
    BY <1>1, MarkTypes DEF Ask, LoopType
  <2>4. AppType'
    BY <1>1 DEF Ask, AppType, WordType
  <2>5. UnitType'
    BY <1>1, Made, Contents, Constants DEF Ask, UnitType, LineType
  <2>6. LineType'
    BY <1>1, Messages, Contents DEF Ask, LineType, ImageType, UnitType, LoopType
  <2> QED BY <2>1, <2>2, <2>3, <2>4, <2>5, <2>6
<1>2. CASE NoTimer
  <2>1. WordType'
    BY <1>2, LoadType, StoreType, MarkTypes DEF NoTimer, WordType, LoopType, AppType, Tasks
  <2>2. ImageType'
    BY <1>2, Made, Contents DEF NoTimer, ImageType, LineType, AppType, UnitType
  <2>3. LoopType'
    BY <1>2, MarkTypes DEF NoTimer, LoopType
  <2>4. AppType'
    BY <1>2 DEF NoTimer, AppType, WordType
  <2>5. UnitType'
    BY <1>2, Made, Contents, Constants DEF NoTimer, UnitType, LineType
  <2>6. LineType'
    BY <1>2, Messages, Contents DEF NoTimer, LineType, ImageType, UnitType, LoopType
  <2> QED BY <2>1, <2>2, <2>3, <2>4, <2>5, <2>6
<1>3. CASE NoMessage
  <2>1. WordType'
    BY <1>3, LoadType, StoreType, MarkTypes DEF NoMessage, WordType, LoopType, AppType, Tasks
  <2>2. ImageType'
    BY <1>3, Made, Contents DEF NoMessage, ImageType, LineType, AppType, UnitType
  <2>3. LoopType'
    BY <1>3, MarkTypes DEF NoMessage, LoopType
  <2>4. AppType'
    BY <1>3 DEF NoMessage, AppType, WordType
  <2>5. UnitType'
    BY <1>3, Made, Contents, Constants DEF NoMessage, UnitType, LineType
  <2>6. LineType'
    BY <1>3, Messages, Contents DEF NoMessage, LineType, ImageType, UnitType, LoopType
  <2> QED BY <2>1, <2>2, <2>3, <2>4, <2>5, <2>6
<1>4. CASE PollingBaseParse
  <2>1. WordType'
    BY <1>4, LoadType, StoreType, MarkTypes DEF PollingBaseParse, Answered, WordType, LoopType, AppType, Tasks
  <2>2. ImageType'
    BY <1>4, Made, Contents DEF PollingBaseParse, Answered, ImageType, LineType, AppType, UnitType
  <2>3. LoopType'
    BY <1>4, MarkTypes DEF PollingBaseParse, Answered, LoopType
  <2>4. AppType'
    BY <1>4 DEF PollingBaseParse, Answered, AppType, WordType
  <2>5. UnitType'
    BY <1>4, Made, Contents, Constants DEF PollingBaseParse, Answered, UnitType, LineType
  <2>6. LineType'
    <3>1. inbox # None /\ inbox' = None /\ wire' = wire
      BY <1>4, Contents DEF PollingBaseParse, Answered
    <3> QED BY <3>1 DEF LineType
  <2> QED BY <2>1, <2>2, <2>3, <2>4, <2>5, <2>6
<1>5. CASE ReadEepromParse
  <2>1. WordType'
    BY <1>5, LoadType, StoreType, MarkTypes DEF ReadEepromParse, Answered, WordType, LoopType, AppType, Tasks
  <2>2. ImageType'
    BY <1>5, Made, Contents DEF ReadEepromParse, Answered, ImageType, LineType, AppType, UnitType
  <2>3. LoopType'
    BY <1>5, MarkTypes DEF ReadEepromParse, Answered, LoopType
  <2>4. AppType'
    BY <1>5 DEF ReadEepromParse, Answered, AppType, WordType
  <2>5. UnitType'
    BY <1>5, Made, Contents, Constants DEF ReadEepromParse, Answered, UnitType, LineType
  <2>6. LineType'
    <3>1. inbox # None /\ inbox' = None /\ wire' = wire
      BY <1>5, Contents DEF ReadEepromParse, Answered
    <3> QED BY <3>1 DEF LineType
  <2> QED BY <2>1, <2>2, <2>3, <2>4, <2>5, <2>6
<1>6. CASE WriteEepromParse
  <2>1. WordType'
    BY <1>6, LoadType, StoreType, MarkTypes DEF WriteEepromParse, Answered, WordType, LoopType, AppType, Tasks
  <2>2. ImageType'
    BY <1>6, Made, Contents DEF WriteEepromParse, Answered, ImageType, LineType, AppType, UnitType
  <2>3. LoopType'
    BY <1>6, MarkTypes DEF WriteEepromParse, Answered, LoopType
  <2>4. AppType'
    BY <1>6 DEF WriteEepromParse, Answered, AppType, WordType
  <2>5. UnitType'
    BY <1>6, Made, Contents, Constants DEF WriteEepromParse, Answered, UnitType, LineType
  <2>6. LineType'
    <3>1. inbox # None /\ inbox' = None /\ wire' = wire
      BY <1>6, Contents DEF WriteEepromParse, Answered
    <3> QED BY <3>1 DEF LineType
  <2> QED BY <2>1, <2>2, <2>3, <2>4, <2>5, <2>6
<1>7. CASE OtherParse
  <2>1. WordType'
    BY <1>7, LoadType, StoreType, MarkTypes DEF OtherParse, Answered, WordType, LoopType, AppType, Tasks
  <2>2. ImageType'
    BY <1>7, Made, Contents DEF OtherParse, Answered, ImageType, LineType, AppType, UnitType
  <2>3. LoopType'
    BY <1>7, MarkTypes DEF OtherParse, Answered, LoopType
  <2>4. AppType'
    BY <1>7 DEF OtherParse, Answered, AppType, WordType
  <2>5. UnitType'
    BY <1>7, Made, Contents, Constants DEF OtherParse, Answered, UnitType, LineType
  <2>6. LineType'
    <3>1. inbox # None /\ inbox' = None /\ wire' = wire
      BY <1>7, Contents DEF OtherParse, Answered
    <3> QED BY <3>1 DEF LineType
  <2> QED BY <2>1, <2>2, <2>3, <2>4, <2>5, <2>6
<1>8. CASE Merge
  <2>1. WordType'
    BY <1>8, LoadType, StoreType, MarkTypes DEF Merge, WordType, LoopType, AppType, Tasks
  <2>2. ImageType'
    BY <1>8, Made, Contents DEF Merge, ImageType, LineType, AppType, UnitType
  <2>3. LoopType'
    BY <1>8, MarkTypes DEF Merge, LoopType
  <2>4. AppType'
    BY <1>8 DEF Merge, AppType, WordType
  <2>5. UnitType'
    BY <1>8, Made, Contents, Constants DEF Merge, UnitType, LineType
  <2>6. LineType'
    BY <1>8, Messages, Contents DEF Merge, LineType, ImageType, UnitType, LoopType
  <2> QED BY <2>1, <2>2, <2>3, <2>4, <2>5, <2>6
<1>9. CASE DispatchIdle
  <2>1. WordType'
    BY <1>9, LoadType, StoreType, MarkTypes DEF DispatchIdle, WordType, LoopType, AppType, Tasks
  <2>2. ImageType'
    BY <1>9, Made, Contents DEF DispatchIdle, ImageType, LineType, AppType, UnitType
  <2>3. LoopType'
    BY <1>9, MarkTypes DEF DispatchIdle, LoopType
  <2>4. AppType'
    BY <1>9 DEF DispatchIdle, AppType, WordType
  <2>5. UnitType'
    BY <1>9, Made, Contents, Constants DEF DispatchIdle, UnitType, LineType
  <2>6. LineType'
    BY <1>9, Messages, Contents DEF DispatchIdle, LineType, ImageType, UnitType, LoopType
  <2> QED BY <2>1, <2>2, <2>3, <2>4, <2>5, <2>6
<1>10. CASE Dispatch
  <2>1. WordType'
    BY <1>10, LoadType, StoreType, MarkTypes DEF Dispatch, SendSection, WordType, LoopType, AppType, Tasks
  <2>2. ImageType'
    BY <1>10, Made, Contents DEF Dispatch, SendSection, ImageType, LineType, AppType, UnitType
  <2>3. LoopType'
    BY <1>10 DEF Dispatch, LoopType, WordType
  <2>4. AppType'
    BY <1>10 DEF Dispatch, SendSection, AppType, WordType
  <2>5. UnitType'
    BY <1>10, Made, Contents, Constants DEF Dispatch, SendSection, UnitType, LineType
  <2>6. LineType'
    <3>1. wire = None /\ inbox = None /\ Eeprom_Data_received' = TRUE /\ inbox' = inbox
      BY <1>10 DEF Dispatch, LineType
    <3>2. PICK b \in Bits : SendSection(b)
      BY <1>10 DEF Dispatch, WordType
    <3>3. wire' \in Requests
      BY <3>2, BitShape, Messages DEF SendSection, ImageType
    <3> QED BY <3>1, <3>3 DEF LineType
  <2> QED BY <2>1, <2>2, <2>3, <2>4, <2>5, <2>6
<1>11. CASE Clear
  <2>1. WordType'
    BY <1>11, LoadType, StoreType, MarkTypes DEF Clear, WordType, LoopType, AppType, Tasks
  <2>2. ImageType'
    BY <1>11, Made, Contents DEF Clear, ImageType, LineType, AppType, UnitType
  <2>3. LoopType'
    BY <1>11, MarkTypes DEF Clear, LoopType
  <2>4. AppType'
    BY <1>11 DEF Clear, AppType, WordType
  <2>5. UnitType'
    BY <1>11, Made, Contents, Constants DEF Clear, UnitType, LineType
  <2>6. LineType'
    BY <1>11, Messages, Contents DEF Clear, LineType, ImageType, UnitType, LoopType
  <2> QED BY <2>1, <2>2, <2>3, <2>4, <2>5, <2>6
<1>12. ASSUME NEW a \in Apps, AppSteps(a) PROVE WordType' /\ ImageType' /\ LoopType' /\ AppType' /\ UnitType' /\ LineType'
  BY <1>12, AppTypes DEF LoopType, LineType
<1>16. ASSUME NEW s \in Counted, UnitChanges(s) PROVE WordType' /\ ImageType' /\ LoopType' /\ AppType' /\ UnitType' /\ LineType'
  BY <1>16, ChangeTypes DEF LoopType, LineType
<1>17. CASE UnitAnswers
  <2>1. WordType'
    BY <1>17, LoadType, StoreType, MarkTypes DEF UnitAnswers, WordType, LoopType, AppType, Tasks
  <2>2. ImageType'
    BY <1>17, Made, Contents DEF UnitAnswers, ImageType, LineType, AppType, UnitType
  <2>3. LoopType'
    BY <1>17, MarkTypes DEF UnitAnswers, LoopType
  <2>4. AppType'
    BY <1>17 DEF UnitAnswers, AppType, WordType
  <2>5. UnitType'
    BY <1>17, Made, Contents, Constants DEF UnitAnswers, UnitType, LineType
  <2>6. LineType'
    <3>1. wire' = None /\ Eeprom_Data_received /\ Eeprom_Data_received' = Eeprom_Data_received
      BY <1>17 DEF UnitAnswers, LineType
    <3>2. inbox' \in Answers
      <4>1. CASE wire.kind \in {"poll", "debug"}
        BY <1>17, <4>1, Messages DEF UnitAnswers, UnitType
      <4>2. CASE wire.kind = "read"
        <5>1. wire.sec \in Counted /\ unitData[wire.sec] \in Data /\ unitCnt[wire.sec] \in Cnt
          BY <4>2, Contents, Made DEF LineType, UnitType
        <5> QED BY <1>17, <4>2, <5>1, Messages DEF UnitAnswers
      <4>3. CASE wire.kind = "write"
        <5>1. unitCnt' \in [Counted -> Cnt]
          BY <2>5 DEF UnitType
        <5> QED BY <1>17, <4>3, <5>1, Messages DEF UnitAnswers
      <4> QED BY <1>17, <4>1, <4>2, <4>3 DEF UnitAnswers
    <3> QED BY <3>1, <3>2 DEF LineType
  <2> QED BY <2>1, <2>2, <2>3, <2>4, <2>5, <2>6
<1>18. CASE UnitRefuses
  <2>1. WordType'
    BY <1>18, LoadType, StoreType, MarkTypes DEF UnitRefuses, WordType, LoopType, AppType, Tasks
  <2>2. ImageType'
    BY <1>18, Made, Contents DEF UnitRefuses, ImageType, LineType, AppType, UnitType
  <2>3. LoopType'
    BY <1>18, MarkTypes DEF UnitRefuses, LoopType
  <2>4. AppType'
    BY <1>18 DEF UnitRefuses, AppType, WordType
  <2>5. UnitType'
    BY <1>18, Made, Contents, Constants DEF UnitRefuses, UnitType, LineType
  <2>6. LineType'
    <3>1. wire # None /\ wire' = None /\ inbox' \in Answers
      BY <1>18, Contents, Messages DEF UnitRefuses, UnitType
    <3> QED BY <1>18, <3>1 DEF UnitRefuses, LineType
  <2> QED BY <2>1, <2>2, <2>3, <2>4, <2>5, <2>6
<1>19. CASE LineFault
  <2>1. WordType'
    BY <1>19, LoadType, StoreType, MarkTypes DEF LineFault, WordType, LoopType, AppType, Tasks
  <2>2. ImageType'
    BY <1>19, Made, Contents DEF LineFault, ImageType, LineType, AppType, UnitType
  <2>3. LoopType'
    BY <1>19, MarkTypes DEF LineFault, LoopType
  <2>4. AppType'
    BY <1>19 DEF LineFault, AppType, WordType
  <2>5. UnitType'
    BY <1>19, Made, Contents, Constants DEF LineFault, UnitType, LineType
  <2>6. LineType'
    BY <1>19, Messages, Contents DEF LineFault, LineType, ImageType, UnitType, LoopType
  <2> QED BY <2>1, <2>2, <2>3, <2>4, <2>5, <2>6
<1>20. CASE UNCHANGED vars
  BY <1>20 DEF vars, WordType, ImageType, LoopType, AppType, UnitType, LineType
<1> QED
  BY <1>1, <1>2, <1>3, <1>4, <1>5, <1>6, <1>7, <1>8, <1>9, <1>10, <1>11, <1>12, <1>16, <1>17, <1>18, <1>19, <1>20
  DEF Next, Unit_event_task, Environment

\* Every variable keeps its type, and at most one request is outstanding.
THEOREM TypeCorrect == Spec => []TypeOK
BY InitTypeOK, NextTypeOK, PTL DEF Spec

-----------------------------------------------------------------------------
(* The invariants *)

\* No app has begun to write.
NoWrite == writes = 0 /\ Idle

\* How many changes lead from counter value a to counter value b.
Dist(a, b) == IF b >= a THEN b - a ELSE b - a + CntMod

\* The bits to set or clear exist only in the phases that set or clear them, and a writer
\* that sets its bits has filled the image; who is amid an |= or &= has bits for it.
PhaseInv ==
    /\ pc \in {"timers", "read", "dispatch"} => marks = {}
    /\ \A a \in Apps : app[a].at = "bits" => writes > 0
    /\ \A a \in Apps : a \in busy => app[a].at = "bits"
    /\ pc = "clear" \/ "task" \in busy => marks # {}

\* Before any app writes only the task touches the request word, ...
Alone == "task" \in busy => loaded["task"] = Read_Eeprom_Request_Index

\* ... only reads are asked for, ...
OnlyReads ==
    /\ Read_Eeprom_Request_Index \cup marks \subseteq {Read(s) : s \in Counted}
    /\ wire.kind # "write" /\ inbox.kind # "write"

\* ... and no counter is further ahead than the changes made.
NotAhead ==
    /\ \A s \in Counted : Dist(s_ext_cnt[s], unitCnt[s]) <= changes
    /\ inbox.kind = "poll" => \A s \in Counted : Dist(inbox.cnts[s], unitCnt[s]) <= changes

QuietInv == NoWrite => Alone /\ OnlyReads /\ NotAhead

\* A stale section is known, ...
KnownStale(s) ==
    gRDEeprom[s] # unitData[s] => unitCnt[s] # s_ext_cnt[s] \/ Fetching(s)

\* ... a stale answer too, ...
KnownAnswer ==
    (inbox.kind = "read" /\ inbox.data # unitData[inbox.sec])
        => unitCnt[inbox.sec] # s_ext_cnt[inbox.sec]

\* ... and a bit is cleared only while its request is out or answered.
SentFirst ==
    pc = "clear" => \E s \in Counted :
        /\ marks = {Read(s)}
        /\ \/ wire.kind = "read" /\ wire.sec = s
           \/ inbox.kind = "read" /\ inbox.sec = s

KnownInv ==
    (NoWrite /\ faults = 0) => (\A s \in Counted : KnownStale(s)) /\ KnownAnswer /\ SentFirst

-----------------------------------------------------------------------------
(* Their proofs *)

\* PhaseInv holds initially, ...
LEMMA InitPhase == Init => PhaseInv
BY DEF Init, PhaseInv

\* ... every step keeps it, ...
LEMMA NextPhase == WordType /\ AppType /\ PhaseInv /\ [Next]_vars => PhaseInv'
<1> USE DEF word, request, image, loop, apps, unit, line
<1> SUFFICES ASSUME WordType, AppType, PhaseInv, [Next]_vars PROVE PhaseInv'
  OBVIOUS
<1>1. ASSUME NEW k \in {"poll", "debug"}, Ask(k) PROVE PhaseInv'
  BY <1>1, Constants DEF Ask, PhaseInv, Load, Store, WordType, AppType
<1>2. CASE NoTimer
  BY <1>2, Constants DEF NoTimer, PhaseInv, Load, Store, WordType, AppType
<1>3. CASE NoMessage
  BY <1>3, Constants DEF NoMessage, PhaseInv, Load, Store, WordType, AppType
<1>4. CASE PollingBaseParse
  BY <1>4, Constants DEF PollingBaseParse, Answered, PhaseInv, Load, Store, WordType, AppType
<1>5. CASE ReadEepromParse
  BY <1>5, Constants DEF ReadEepromParse, Answered, PhaseInv, Load, Store, WordType, AppType
<1>6. CASE WriteEepromParse
  BY <1>6, Constants DEF WriteEepromParse, Answered, PhaseInv, Load, Store, WordType, AppType
<1>7. CASE OtherParse
  BY <1>7, Constants DEF OtherParse, Answered, PhaseInv, Load, Store, WordType, AppType
<1>8. CASE Merge
  BY <1>8, Constants DEF Merge, PhaseInv, Load, Store, WordType, AppType
<1>9. CASE DispatchIdle
  BY <1>9, Constants DEF DispatchIdle, PhaseInv, Load, Store, WordType, AppType
<1>10. CASE Dispatch
  BY <1>10, Constants DEF Dispatch, SendSection, PhaseInv, Load, Store, WordType, AppType
<1>11. CASE Clear
  BY <1>11, Constants DEF Clear, PhaseInv, Load, Store, WordType, AppType
<1>12. ASSUME NEW a \in Apps, AppErases(a) PROVE PhaseInv'
  BY <1>12, Constants DEF AppErases, PhaseInv, Load, Store, WordType, AppType
<1>13. ASSUME NEW a \in Apps, AppCopies(a) PROVE PhaseInv'
  BY <1>13, Constants DEF AppCopies, PhaseInv, Load, Store, WordType, AppType
<1>14. ASSUME NEW a \in Apps, AppLoads(a) PROVE PhaseInv'
  BY <1>14, Constants DEF AppLoads, PhaseInv, Load, Store, WordType, AppType
<1>15. ASSUME NEW a \in Apps, AppStores(a) PROVE PhaseInv'
  BY <1>15, Constants DEF AppStores, PhaseInv, Load, Store, WordType, AppType
<1>16. ASSUME NEW s \in Counted, UnitChanges(s) PROVE PhaseInv'
  BY <1>16, Constants DEF UnitChanges, PhaseInv, Load, Store, WordType, AppType
<1>17. CASE UnitAnswers
  BY <1>17, Constants DEF UnitAnswers, PhaseInv, Load, Store, WordType, AppType
<1>18. CASE UnitRefuses
  BY <1>18, Constants DEF UnitRefuses, PhaseInv, Load, Store, WordType, AppType
<1>19. CASE LineFault
  BY <1>19, Constants DEF LineFault, PhaseInv, Load, Store, WordType, AppType
<1>20. CASE UNCHANGED vars
  BY <1>20 DEF vars, PhaseInv, Load, Store, WordType, AppType
<1> QED
  BY <1>1, <1>2, <1>3, <1>4, <1>5, <1>6, <1>7, <1>8, <1>9, <1>10, <1>11, <1>12, <1>13, <1>14, <1>15, <1>16, <1>17, <1>18, <1>19, <1>20 DEF Next, Unit_event_task, AppSteps, Environment

\* ... so it always holds.
LEMMA PhaseAlways == Spec => []PhaseInv
BY InitPhase, NextPhase, TypeParts, TypeCorrect, PTL DEF Spec

\* Counters: a value is not ahead of itself, a change puts it one further ahead,
\* and as long as the changes are fewer than the counter's values a value that
\* is ahead differs.
LEMMA DistFacts ==
    /\ \A a \in Cnt : Dist(a, a) = 0
    /\ \A a, b \in Cnt, n \in 0..MaxChanges : (n < MaxChanges /\ Dist(a, b) <= n) =>
          Dist(a, NextCnt(b)) <= n + 1 /\ NextCnt(b) # a
BY Constants DEF Cnt, Dist, NextCnt

\* Before any app writes no app is amid an |= or &=.
LEMMA QuietTask == ASSUME WordType, PhaseInv, NoWrite PROVE busy \subseteq {"task"}
BY DEF WordType, PhaseInv, NoWrite, Idle, Tasks

\* A step of an app begins a write, or one had begun.
LEMMA AppsSpeakUp ==
    ASSUME WordType, AppType, PhaseInv, NEW a \in Apps, AppSteps(a) PROVE ~NoWrite'
<1>1. CASE AppErases(a)
  <2>1. app'[a].at = "copy"
    BY <1>1 DEF AppErases, AppType
  <2> QED BY <2>1 DEF NoWrite, Idle
<1>2. CASE AppCopies(a)
  BY <1>2 DEF AppCopies, NoWrite, AppType
<1>3. CASE AppLoads(a)
  BY <1>3 DEF AppLoads, apps, NoWrite, Idle
<1>4. CASE AppStores(a)
  BY <1>4 DEF AppStores, NoWrite, PhaseInv, AppType
<1> QED BY <1>1, <1>2, <1>3, <1>4 DEF AppSteps

\* QuietInv holds initially, ...
LEMMA InitQuiet == Init => QuietInv
BY DistFacts, Constants DEF Init, QuietInv, Alone, OnlyReads, NotAhead, None

\* ... every step keeps it, ...
LEMMA NextQuiet == TypeOK /\ PhaseInv /\ QuietInv /\ [Next]_vars => QuietInv'
<1> USE DEF word, request, image, loop, apps, unit, line
<1> SUFFICES ASSUME WordType, ImageType, LoopType, AppType, UnitType, LineType, PhaseInv, QuietInv,
                    [Next]_vars, NoWrite'
             PROVE  (Alone /\ OnlyReads /\ NotAhead)'
  BY TypeParts DEF QuietInv
<1>a. ASSUME UNCHANGED apps PROVE Alone /\ OnlyReads /\ NotAhead /\ busy \subseteq {"task"}
  BY <1>a, QuietTask DEF NoWrite, Idle, QuietInv
<1>b. ASSUME UNCHANGED request PROVE Alone <=> Alone'
  BY <1>b DEF Alone
<1>1. ASSUME NEW k \in {"poll", "debug"}, Ask(k) PROVE (Alone /\ OnlyReads /\ NotAhead)'
  <2>1. wire' = wire \/ wire' = [kind |-> k]
    BY <1>1 DEF Ask
  <2>2. wire.kind # "write" => wire'.kind # "write"
    BY <2>1
  <2> QED BY <1>1, <1>a, <2>2 DEF Ask, Alone, OnlyReads, NotAhead
<1>2. CASE NoTimer
  BY <1>2, <1>a DEF NoTimer, Alone, OnlyReads, NotAhead
<1>3. CASE NoMessage
  BY <1>3, <1>a DEF NoMessage, Alone, OnlyReads, NotAhead
<1>4. CASE PollingBaseParse
  <2>1. inbox'.kind = "none" /\ UNCHANGED <<word, unitCnt, changes, wire>>
    BY <1>4, Contents DEF PollingBaseParse, Answered
  <2>2. marks' \subseteq {Read(s) : s \in Counted}
    BY <1>4 DEF PollingBaseParse, Outdated
  <2>3. OnlyReads'
    BY <1>4, <1>a, <2>1, <2>2 DEF PollingBaseParse, Answered, OnlyReads
  <2>4. NotAhead'
    BY <1>4, <1>a, <2>1 DEF PollingBaseParse, Answered, NotAhead
  <2> QED BY <2>1, <2>3, <2>4, <1>4, <1>a, <1>b DEF PollingBaseParse, Answered
<1>5. CASE ReadEepromParse
  <2>1. inbox'.kind = "none"
    BY <1>5, Contents DEF ReadEepromParse, Answered
  <2> QED BY <1>5, <1>a, <2>1 DEF ReadEepromParse, Answered, Alone, OnlyReads, NotAhead
<1>6. CASE WriteEepromParse
  BY <1>6, <1>a DEF WriteEepromParse, Answered, OnlyReads
<1>7. CASE OtherParse
  <2>1. inbox'.kind = "none"
    BY <1>7, Contents DEF OtherParse, Answered
  <2> QED BY <1>7, <1>a, <2>1 DEF OtherParse, Answered, Alone, OnlyReads, NotAhead
<1>8. CASE Merge
  <2>1. UNCHANGED <<s_ext_cnt, unitCnt, changes, wire, inbox>> /\ Alone /\ OnlyReads /\ NotAhead
    BY <1>8, <1>a DEF Merge
  <2>2. NotAhead'
    BY <2>1 DEF NotAhead
  <2>3. CASE UNCHANGED <<word, marks>>
    BY <2>1, <2>2, <2>3, <1>b DEF OnlyReads
  <2>4. CASE Load("task") /\ UNCHANGED marks
    BY <2>1, <2>2, <2>4 DEF Load, Alone, OnlyReads, WordType, Tasks
  <2>5. ASSUME NEW m \in marks, Store("task", loaded["task"] \cup {m}), marks' = marks \ {m}
        PROVE  Alone' /\ OnlyReads'
    BY <2>1, <2>5 DEF Store, Alone, OnlyReads, WordType, Tasks
  <2> QED BY <1>8, <2>2, <2>3, <2>4, <2>5 DEF Merge
<1>9. CASE DispatchIdle
  BY <1>9, <1>a DEF DispatchIdle, Alone, OnlyReads, NotAhead
<1>10. CASE Dispatch
  <2>1. UNCHANGED <<word, s_ext_cnt, unitCnt, changes, inbox>> /\ Alone /\ OnlyReads /\ NotAhead
    BY <1>10, <1>a DEF Dispatch
  <2>2. PICK b \in Read_Eeprom_Request_Index : SendSection(b) /\ marks' = {b}
    BY <1>10 DEF Dispatch
  <2>3. b.op = "read"
    BY <2>1, <2>2 DEF OnlyReads, Read
  <2>4. wire'.kind = "read"
    BY <2>2, <2>3 DEF SendSection
  <2>5. OnlyReads' /\ NotAhead'
    BY <2>1, <2>2, <2>4 DEF OnlyReads, NotAhead
  <2> QED BY <2>1, <2>5, <1>b
<1>11. CASE Clear
  <2>1. UNCHANGED <<s_ext_cnt, unitCnt, changes, wire, inbox>> /\ Alone /\ OnlyReads /\ NotAhead
    BY <1>11, <1>a DEF Clear
  <2>2. NotAhead'
    BY <2>1 DEF NotAhead
  <2>3. CASE Load("task") /\ UNCHANGED marks
    BY <2>1, <2>2, <2>3 DEF Load, Alone, OnlyReads, WordType, Tasks
  <2>4. CASE Store("task", Cleared(loaded["task"])) /\ marks' = {}
    BY <2>1, <2>2, <2>4 DEF Store, Cleared, Alone, OnlyReads, WordType, Tasks
  <2> QED BY <1>11, <2>2, <2>3, <2>4 DEF Clear
<1>12. ASSUME NEW a \in Apps, AppSteps(a) PROVE (Alone /\ OnlyReads /\ NotAhead)'
  BY <1>12, AppsSpeakUp
<1>13. ASSUME NEW c \in Counted, UnitChanges(c) PROVE (Alone /\ OnlyReads /\ NotAhead)'
  <2>1. UNCHANGED <<request, marks, s_ext_cnt, wire, inbox>> /\ Alone /\ OnlyReads /\ NotAhead
    BY <1>13, <1>a DEF UnitChanges
  <2>2. changes' = changes + 1 /\ changes < MaxChanges /\ changes \in 0..MaxChanges
    BY <1>13 DEF UnitChanges, UnitType
  <2>3. \A s \in Counted : unitCnt[s] \in Cnt /\ unitCnt'[s] \in {unitCnt[s], NextCnt(unitCnt[s])}
    BY <1>13 DEF UnitChanges, UnitType
  <2>4. ASSUME NEW f \in [Counted -> Cnt], NEW s \in Counted, Dist(f[s], unitCnt[s]) <= changes
        PROVE  Dist(f[s], unitCnt'[s]) <= changes + 1
    <3>1. f[s] \in Cnt /\ Dist(f[s], unitCnt[s]) \in Int
      BY <2>3, Constants DEF Dist, Cnt
    <3>2. CASE unitCnt'[s] = unitCnt[s]
      BY <3>1, <3>2, <2>2, <2>4, Constants
    <3>3. CASE unitCnt'[s] = NextCnt(unitCnt[s])
      BY <3>1, <3>3, <2>2, <2>3, <2>4, DistFacts
    <3> QED BY <2>3, <3>2, <3>3
  <2>5. s_ext_cnt \in [Counted -> Cnt] /\ (inbox.kind = "poll" => inbox.cnts \in [Counted -> Cnt])
    BY Contents DEF ImageType, LineType
  <2>6. NotAhead'
    BY <2>1, <2>2, <2>4, <2>5 DEF NotAhead
  <2> QED BY <2>1, <2>6, <1>b DEF OnlyReads
<1>14. CASE UnitAnswers
  <2>1. UNCHANGED <<word, marks, s_ext_cnt>> /\ Alone /\ OnlyReads /\ NotAhead
    BY <1>14, <1>a DEF UnitAnswers
  <2>2. wire'.kind = "none" /\ wire.kind # "write"
    BY <1>14, <2>1, Contents DEF UnitAnswers, OnlyReads
  <2>3. inbox'.kind # "write" /\ UNCHANGED <<unitCnt, changes>>
    BY <1>14, <2>2 DEF UnitAnswers
  <2>4. inbox'.kind = "poll" => inbox'.cnts = unitCnt
    BY <1>14, <2>2 DEF UnitAnswers
  <2>5. \A s \in Counted : Dist(unitCnt[s], unitCnt[s]) <= changes
    BY DistFacts DEF UnitType
  <2>6. OnlyReads'
    BY <2>1, <2>2, <2>3 DEF OnlyReads
  <2>7. NotAhead'
    BY <2>1, <2>3, <2>4, <2>5 DEF NotAhead
  <2> QED BY <2>1, <2>6, <2>7, <1>b
<1>15. CASE UnitRefuses
  BY <1>15, <1>a DEF UnitRefuses, OnlyReads
<1>16. CASE LineFault
  <2>1. UNCHANGED <<word, marks, s_ext_cnt, unitCnt, changes>> /\ Alone /\ OnlyReads /\ NotAhead
    BY <1>16, <1>a DEF LineFault
  <2>2. wire'.kind = "none" /\ inbox'.kind \in {"none", "garbage"}
    BY <1>16, Contents DEF LineFault
  <2>3. OnlyReads' /\ NotAhead'
    BY <2>1, <2>2 DEF OnlyReads, NotAhead
  <2> QED BY <2>1, <2>3, <1>b
<1>17. CASE UNCHANGED vars
  BY <1>17, <1>a DEF vars, Alone, OnlyReads, NotAhead
<1> QED
  BY <1>1, <1>2, <1>3, <1>4, <1>5, <1>6, <1>7, <1>8, <1>9, <1>10, <1>11, <1>12, <1>13, <1>14, <1>15, <1>16, <1>17
  DEF Next, Unit_event_task, Environment

\* ... so it always holds.
LEMMA QuietAlways == Spec => []QuietInv
BY InitQuiet, NextQuiet, TypeCorrect, PhaseAlways, PTL DEF Spec

\* KnownInv holds initially, ...
LEMMA InitKnown == Init => KnownInv
<1> SUFFICES ASSUME Init PROVE KnownInv
  OBVIOUS
<1>1. PICK early \in SUBSET Counted :
          /\ changes = (IF early = {} THEN 0 ELSE 1) /\ changes <= MaxChanges
          /\ unitData = [s \in Sections |-> IF s \in early THEN ByUnit(1) ELSE ByUnit(0)]
          /\ unitCnt = [s \in Counted |-> IF s \in early THEN NextCnt(cntUpdate[s]) ELSE cntUpdate[s]]
  BY DEF Init
<1>2. /\ gRDEeprom = [s \in Sections |-> ByUnit(0)]
      /\ cntUpdate \in [Counted -> Cnt] /\ s_ext_cnt = cntUpdate
      /\ inbox.kind = "none" /\ pc = "timers"
  BY DEF Init, None
<1>3. ASSUME NEW s \in Counted PROVE KnownStale(s)
  <2>1. CASE s \in early
    <3>1. 0 \in 0..MaxChanges /\ 0 < MaxChanges /\ Dist(cntUpdate[s], cntUpdate[s]) <= 0
      BY <1>1, <1>2, <2>1, Constants, DistFacts
    <3>2. NextCnt(cntUpdate[s]) # cntUpdate[s]
      BY <1>2, <3>1, DistFacts
    <3> QED BY <1>1, <1>2, <2>1, <3>2 DEF KnownStale
  <2>2. CASE s \notin early
    BY <1>1, <1>2, <2>2, Constants DEF KnownStale
  <2> QED BY <2>1, <2>2
<1> QED BY <1>2, <1>3 DEF KnownInv, KnownAnswer, SentFirst

\* Whether a section is known to be stale depends on these alone.
LEMMA SameKnown ==
    ASSUME UNCHANGED <<Read_Eeprom_Request_Index, gRDEeprom, unitData, unitCnt, s_ext_cnt>>,
           UNCHANGED <<wire, inbox>>, NEW s \in Counted, KnownStale(s),
           (pc = "merge" /\ Read(s) \in marks) => (pc' = "merge" /\ Read(s) \in marks')
    PROVE  KnownStale(s)'
BY DEF KnownStale, Fetching

\* ... every step keeps it, ...
LEMMA NextKnown == TypeOK /\ PhaseInv /\ QuietInv /\ KnownInv /\ [Next]_vars => KnownInv'
<1> USE DEF word, request, image, loop, apps, unit, line
<1> SUFFICES ASSUME WordType, ImageType, LoopType, AppType, UnitType, LineType, PhaseInv, QuietInv,
                    KnownInv, [Next]_vars, NoWrite', faults' = 0
             PROVE  ((\A s \in Counted : KnownStale(s)) /\ KnownAnswer /\ SentFirst)'
  BY TypeParts DEF KnownInv
<1>a. ASSUME UNCHANGED apps, UNCHANGED faults
      PROVE  /\ \A s \in Counted : KnownStale(s)
             /\ KnownAnswer /\ SentFirst
             /\ Alone /\ OnlyReads /\ NotAhead /\ busy \subseteq {"task"}
  BY <1>a, QuietTask DEF NoWrite, Idle, QuietInv, KnownInv
<1>1. ASSUME NEW k \in {"poll", "debug"}, Ask(k) PROVE ((\A s \in Counted : KnownStale(s)) /\ KnownAnswer /\ SentFirst)'
  <2>1. /\ UNCHANGED <<word, image, s_ext_cnt, unit, inbox>>
        /\ pc = "timers" /\ pc' = "read"
    BY <1>1 DEF Ask
  <2>2. wire' = wire \/ (wire.kind # "read" /\ inbox.kind # "read")
    BY <1>1, Contents DEF Ask, LineType
  <2>3. ASSUME NEW s \in Counted PROVE KnownStale(s)'
    BY <1>1, <1>a, <2>1, <2>2 DEF Ask, KnownStale, Fetching
  <2> QED BY <1>1, <1>a, <2>1, <2>3 DEF Ask, KnownAnswer, SentFirst
<1>2. CASE NoTimer
  <2>1. /\ UNCHANGED <<word, image, s_ext_cnt, unit, line>>
        /\ pc # "merge" /\ pc' # "clear"
    BY <1>2 DEF NoTimer
  <2> QED BY <1>2, <1>a, <2>1, SameKnown DEF NoTimer, KnownAnswer, SentFirst
<1>3. CASE NoMessage
  <2>1. /\ UNCHANGED <<word, image, s_ext_cnt, unit, line>>
        /\ pc # "merge" /\ pc' # "clear"
    BY <1>3 DEF NoMessage
  <2> QED BY <1>3, <1>a, <2>1, SameKnown DEF NoMessage, KnownAnswer, SentFirst
<1>4. CASE PollingBaseParse
  <2>1. /\ UNCHANGED <<word, gRDEeprom, unitData, unitCnt, wire>>
        /\ inbox.kind = "poll" /\ inbox'.kind = "none" /\ pc = "read" /\ pc' = "merge"
        /\ s_ext_cnt' = inbox.cnts
        /\ marks' = {Read(s) : s \in {c \in Counted : inbox.cnts[c] # s_ext_cnt[c]}}
    BY <1>4, Contents DEF PollingBaseParse, Answered, Outdated
  <2>2. wire.kind = "none"
    BY <2>1, Contents DEF LineType
  <2>3. ASSUME NEW s \in Counted PROVE KnownStale(s)'
    <3>1. CASE gRDEeprom[s] = unitData[s]
      BY <2>1, <3>1 DEF KnownStale
    <3>2. CASE gRDEeprom[s] # unitData[s] /\ unitCnt[s] = s_ext_cnt[s]
      <4>1. Read(s) \in Read_Eeprom_Request_Index
        BY <1>4, <1>a, <2>1, <2>2, <3>2 DEF PollingBaseParse, Answered, KnownStale, Fetching
      <4> QED BY <4>1, <2>1 DEF KnownStale, Fetching
    <3>3. CASE gRDEeprom[s] # unitData[s] /\ unitCnt[s] # s_ext_cnt[s]
      <4>1. CASE inbox.cnts[s] = s_ext_cnt[s]
        BY <2>1, <3>3, <4>1 DEF KnownStale
      <4>2. CASE inbox.cnts[s] # s_ext_cnt[s]
        BY <2>1, <4>2 DEF KnownStale, Fetching
      <4> QED BY <4>1, <4>2
    <3> QED BY <3>1, <3>2, <3>3
  <2> QED BY <2>1, <2>3 DEF KnownAnswer, SentFirst
<1>5. CASE ReadEepromParse
  <2>1. /\ UNCHANGED <<word, unitData, unitCnt, s_ext_cnt, wire, marks>>
        /\ inbox.kind = "read" /\ inbox'.kind = "none" /\ pc = "read" /\ pc' = "merge"
        /\ gRDEeprom' = [gRDEeprom EXCEPT ![inbox.sec] = inbox.data]
    BY <1>5, Contents DEF ReadEepromParse, Answered
  <2>2. inbox.sec \in Counted
    BY <2>1, Contents DEF LineType
  <2>3. ASSUME NEW s \in Counted PROVE KnownStale(s)'
    <3>1. CASE s = inbox.sec
      <4>1. gRDEeprom'[s] = inbox.data
        BY <2>1, <3>1, Constants DEF ImageType
      <4>2. KnownAnswer
        BY <1>5, <1>a DEF ReadEepromParse, Answered
      <4> QED BY <4>1, <4>2, <2>1, <3>1 DEF KnownAnswer, KnownStale
    <3>2. CASE s # inbox.sec
      <4>1. gRDEeprom'[s] = gRDEeprom[s]
        BY <2>1, <3>2, Constants DEF ImageType
      <4>2. KnownStale(s)
        BY <1>5, <1>a DEF ReadEepromParse, Answered
      <4> QED BY <4>1, <4>2, <2>1, <3>2 DEF KnownStale, Fetching
    <3> QED BY <3>1, <3>2
  <2> QED BY <2>1, <2>3 DEF KnownAnswer, SentFirst
<1>6. CASE WriteEepromParse
  BY <1>6, <1>a DEF WriteEepromParse, Answered, OnlyReads
<1>7. CASE OtherParse
  <2>1. /\ UNCHANGED <<word, image, unitData, unitCnt, s_ext_cnt, wire, marks>>
        /\ inbox.kind # "read" /\ inbox'.kind = "none" /\ pc = "read" /\ pc' = "merge"
    BY <1>7, Contents DEF OtherParse, Answered
  <2>2. ASSUME NEW s \in Counted PROVE KnownStale(s)'
    <3>1. KnownStale(s)
      BY <1>7, <1>a DEF OtherParse, Answered
    <3> QED BY <3>1, <2>1 DEF KnownStale, Fetching
  <2> QED BY <2>1, <2>2 DEF KnownAnswer, SentFirst
<1>8. CASE Merge
  <2>1. /\ UNCHANGED <<image, s_ext_cnt, unit, line>> /\ pc = "merge" /\ pc' \in {"merge", "dispatch"}
        /\ \A s \in Counted : KnownStale(s)
        /\ KnownAnswer /\ Alone
    BY <1>8, <1>a DEF Merge
  <2>2. KnownAnswer' /\ SentFirst'
    BY <2>1 DEF KnownAnswer, SentFirst
  <2>3. CASE marks = {} /\ UNCHANGED <<word, marks>>
    BY <2>1, <2>2, <2>3, SameKnown
  <2>4. CASE Load("task") /\ UNCHANGED <<pc, marks>>
    BY <2>1, <2>2, <2>4, SameKnown DEF Load
  <2>5. ASSUME NEW m \in marks, Store("task", loaded["task"] \cup {m}), marks' = marks \ {m},
               UNCHANGED pc, NEW s \in Counted
        PROVE  KnownStale(s)'
    <3>1. Read_Eeprom_Request_Index' = Read_Eeprom_Request_Index \cup {m}
      BY <2>1, <2>5 DEF Store, Alone
    <3> QED BY <2>1, <2>5, <3>1 DEF KnownStale, Fetching
  <2> QED BY <1>8, <2>2, <2>3, <2>4, <2>5 DEF Merge
<1>9. CASE DispatchIdle
  <2>1. /\ UNCHANGED <<word, image, s_ext_cnt, unit, line>>
        /\ pc # "merge" /\ pc' # "clear"
    BY <1>9 DEF DispatchIdle
  <2> QED BY <1>9, <1>a, <2>1, SameKnown DEF DispatchIdle, KnownAnswer, SentFirst
<1>10. CASE Dispatch
  <2>1. /\ UNCHANGED <<word, image, s_ext_cnt, unit, inbox>> /\ pc = "dispatch" /\ pc' = "clear"
        /\ \A s \in Counted : KnownStale(s)
        /\ KnownAnswer /\ OnlyReads
    BY <1>10, <1>a DEF Dispatch
  <2>2. wire = None
    BY <1>10 DEF Dispatch, LineType
  <2>3. PICK b \in Read_Eeprom_Request_Index : SendSection(b) /\ marks' = {b}
    BY <1>10 DEF Dispatch
  <2>4. PICK c \in Counted : b = Read(c)
    BY <2>1 DEF OnlyReads
  <2>5. wire' = [kind |-> "read", sec |-> c]
    BY <2>3, <2>4 DEF SendSection, Read
  <2>6. SentFirst'
    BY <2>3, <2>4, <2>5 DEF SentFirst
  <2>7. ASSUME NEW s \in Counted PROVE KnownStale(s)'
    BY <2>1, <2>2, Contents DEF KnownStale, Fetching
  <2> QED BY <2>1, <2>6, <2>7 DEF KnownAnswer
<1>11. CASE Clear
  <2>1. /\ UNCHANGED <<image, s_ext_cnt, unit, line>> /\ pc = "clear"
        /\ \A s \in Counted : KnownStale(s)
        /\ KnownAnswer /\ SentFirst /\ Alone
    BY <1>11, <1>a DEF Clear
  <2>2. KnownAnswer'
    BY <2>1 DEF KnownAnswer
  <2>3. CASE Load("task") /\ UNCHANGED <<pc, marks>>
    BY <2>1, <2>2, <2>3, SameKnown DEF Load, SentFirst
  <2>4. CASE Store("task", Cleared(loaded["task"])) /\ pc' = "timers"
    <3>1. Read_Eeprom_Request_Index' = Read_Eeprom_Request_Index \ marks
      BY <2>1, <2>4 DEF Store, Cleared, Alone
    <3>2. PICK c \in Counted : /\ marks = {Read(c)}
                               /\ \/ wire.kind = "read" /\ wire.sec = c
                                  \/ inbox.kind = "read" /\ inbox.sec = c
      BY <2>1 DEF SentFirst
    <3>3. ASSUME NEW s \in Counted PROVE KnownStale(s)'
      <4>1. CASE s = c
        BY <2>1, <3>2, <4>1 DEF KnownStale, KnownAnswer, Fetching
      <4>2. CASE s # c
        <5>1. Read(s) # Read(c)
          BY <4>2 DEF Read
        <5> QED BY <2>1, <3>1, <3>2, <5>1 DEF KnownStale, Fetching
      <4> QED BY <4>1, <4>2
    <3> QED BY <2>2, <2>4, <3>3 DEF SentFirst
  <2> QED BY <1>11, <2>3, <2>4 DEF Clear
<1>12. ASSUME NEW a \in Apps, AppSteps(a) PROVE ((\A s \in Counted : KnownStale(s)) /\ KnownAnswer /\ SentFirst)'
  BY <1>12, AppsSpeakUp
<1>13. ASSUME NEW c \in Counted, UnitChanges(c) PROVE ((\A s \in Counted : KnownStale(s)) /\ KnownAnswer /\ SentFirst)'
  <2>1. /\ UNCHANGED <<request, image, s_ext_cnt, pc, marks, line>>
        /\ \A s \in Counted : KnownStale(s)
        /\ KnownAnswer /\ SentFirst /\ NotAhead
    BY <1>13, <1>a DEF UnitChanges
  <2>2. \A s \in Counted : s # c => unitData'[s] = unitData[s] /\ unitCnt'[s] = unitCnt[s]
    BY <1>13, Constants DEF UnitChanges, UnitType
  <2>3. unitCnt'[c] # s_ext_cnt[c]
    <3>1. unitCnt'[c] = NextCnt(unitCnt[c]) /\ changes < MaxChanges /\ changes \in 0..MaxChanges
      BY <1>13 DEF UnitChanges, UnitType
    <3>2. Dist(s_ext_cnt[c], unitCnt[c]) <= changes /\ s_ext_cnt[c] \in Cnt /\ unitCnt[c] \in Cnt
      BY <2>1 DEF NotAhead, ImageType, UnitType
    <3> QED BY <3>1, <3>2, DistFacts
  <2>4. ASSUME NEW s \in Counted PROVE KnownStale(s)'
    BY <2>1, <2>2, <2>3 DEF KnownStale, Fetching
  <2>5. KnownAnswer'
    <3>1. inbox.kind = "read" => inbox.sec \in Counted
      BY Contents DEF LineType
    <3> QED BY <2>1, <2>2, <2>3, <3>1 DEF KnownAnswer
  <2> QED BY <2>1, <2>4, <2>5 DEF SentFirst
<1>14. CASE UnitAnswers
  <2>1. /\ UNCHANGED <<word, image, s_ext_cnt, pc, marks>>
        /\ \A s \in Counted : KnownStale(s)
        /\ SentFirst /\ wire.kind # "write" /\ wire # None
    BY <1>14, <1>a DEF UnitAnswers, OnlyReads
  <2>2. UNCHANGED unit /\ inbox.kind = "none"
    BY <1>14, <2>1, Contents DEF UnitAnswers, LineType
  <2>3. /\ wire.kind = "read" => /\ inbox'.kind = "read" /\ inbox'.sec = wire.sec
                                 /\ inbox'.data = unitData[wire.sec]
        /\ wire.kind # "read" => inbox'.kind # "read"
    BY <1>14, <2>1 DEF UnitAnswers
  <2>4. KnownAnswer'
    BY <2>2, <2>3 DEF KnownAnswer
  <2>5. SentFirst'
    BY <2>1, <2>2, <2>3 DEF SentFirst
  <2>6. ASSUME NEW s \in Counted PROVE KnownStale(s)'
    BY <2>1, <2>2, <2>3 DEF KnownStale, Fetching
  <2> QED BY <2>4, <2>5, <2>6
<1>15. CASE UnitRefuses
  BY <1>15 DEF UnitRefuses, UnitType
<1>16. CASE LineFault
  BY <1>16 DEF LineFault, UnitType
<1>17. CASE UNCHANGED vars
  BY <1>17, <1>a, SameKnown DEF vars, KnownAnswer, SentFirst
<1> QED
  BY <1>1, <1>2, <1>3, <1>4, <1>5, <1>6, <1>7, <1>8, <1>9, <1>10, <1>11, <1>12, <1>13, <1>14, <1>15, <1>16, <1>17
  DEF Next, Unit_event_task, Environment

\* As long as no app wrote and nothing was lost the task knows of every stale section.
THEOREM StaleAlwaysKnown == Spec => []StaleIsKnown
<1>1. KnownInv => StaleIsKnown
  BY DEF KnownInv, KnownStale, StaleIsKnown, NoWrite
<1> QED BY <1>1, InitKnown, NextKnown, TypeCorrect, PhaseAlways, QuietAlways, PTL DEF Spec

-----------------------------------------------------------------------------
(* Image, word and line, where writes and changes take turns *)

Reads == {Read(s) : s \in Counted}

\* One task at a time updates the request word, ...
Whole ==
    /\ \A t, u \in busy : t = u
    /\ \A t \in busy : loaded[t] = Read_Eeprom_Request_Index

\* ... one app at a time writes, ...
OneWriter == \A a, b \in Apps : app[a].at # "idle" /\ app[b].at # "idle" => a = b

\* ... and while it fills the image no section is asked for.
Still ==
    Erased => /\ Read_Eeprom_Request_Index = {} /\ marks = {}
              /\ wire.kind \notin {"read", "write"} /\ inbox.kind \notin {"read", "write"}

\* A request to write carries what the image holds, and an answer what the unit does;
\* only a poll may be older than a change.
UpToDate ==
    /\ wire.kind = "write" =>
          /\ wire.data = gRDEeprom[wire.sec] /\ ~Left(wire.sec)
          /\ Write(wire.sec) \in Read_Eeprom_Request_Index => pc = "clear" /\ marks = {Write(wire.sec)}
    /\ inbox.kind = "read" => inbox.data = unitData[inbox.sec]
    /\ inbox.kind = "poll" => \A s \in Counted : inbox.cnts[s] \in {unitCnt[s], s_ext_cnt[s]}
    /\ inbox.kind = "write" => inbox.cnts = unitCnt

\* A write's bit is set once, and only the bit of the request that was sent is cleared.
Sent ==
    \/ \E c \in Counted : marks = {Read(c)}
    \/ \E c \in Sections : marks = {Write(c)} /\ ~Left(c)

BitInv ==
    /\ pc = "merge" => marks \subseteq Reads
    /\ \A s \in Sections : Write(s) \in Read_Eeprom_Request_Index => ~Left(s)
    /\ pc = "clear" => Sent

\* Until a section is written to the unit it is not read from it, as neither its counter
\* in the last poll nor the one in the image tells of a change.
Untouched(s) ==
    /\ s \in Counted => s_ext_cnt[s] = unitCnt[s] /\ (~Erased => cntUpdate[s] = unitCnt[s])
    /\ Read(s) \notin Read_Eeprom_Request_Index \cup marks
    /\ ~(wire.kind = "read" /\ wire.sec = s) /\ ~(inbox.kind = "read" /\ inbox.sec = s)

Unwritten(s) == Erased \/ ToBeWritten(s)

SectionInv(s) == Unwritten(s) => Untouched(s)

CalmParts ==
    Whole /\ OneWriter /\ Still /\ UpToDate /\ BitInv /\ \A s \in Sections : SectionInv(s)

CalmInv == ~clashed => CalmParts

\* The bits differ by what they ask for and by their section.
LEMMA BitsDiffer ==
    /\ \A s, t : Read(s) # Write(t)
    /\ \A s, t : Read(s) = Read(t) => s = t
    /\ \A s, t : Write(s) = Write(t) => s = t
    /\ \A b \in Bits : (\E c \in Counted : b = Read(c)) \/ (\E c \in Sections : b = Write(c))
    /\ \A s : Read(s) \notin AllWrites /\ Write(s) \notin Reads
    /\ \A s \in Sections : Write(s) \in AllWrites
BY DEF Read, Write, Bits, AllWrites, Reads

\* The parsers set read bits only.
LEMMA MarkReads ==
    /\ \A c : Outdated(c) \subseteq Reads
    /\ {Read(s) : s \in {c \in Counted : inbox.cnts[c] # cntUpdate[c]}} \subseteq Reads
BY DEF Outdated, Reads

LEMMA InitCalm == Init => CalmInv
<1> SUFFICES ASSUME Init PROVE CalmParts
  BY DEF CalmInv
<1>1. /\ Read_Eeprom_Request_Index \subseteq Reads /\ pc = "timers" /\ marks = {} /\ busy = {}
      /\ wire.kind = "none" /\ inbox.kind = "none" /\ \A a \in Apps : app[a].at = "idle"
  BY DEF Init, None, Reads
<1>2. \A s \in Sections : ~Unwritten(s)
  BY <1>1, BitsDiffer DEF Unwritten, ToBeWritten, Erased, Left
<1>3. Whole /\ OneWriter /\ Still /\ UpToDate /\ BitInv
  BY <1>1, BitsDiffer DEF Whole, OneWriter, Still, Erased, UpToDate, BitInv, Left
<1> QED
  BY <1>2, <1>3 DEF CalmParts, SectionInv

\* Steps of the task that ask for a poll or for nothing.
LEMMA CalmAsk ==
    ASSUME CalmParts, pc \notin {"merge", "clear"}, pc' \notin {"merge", "clear"},
           UNCHANGED <<word, image, s_ext_cnt, marks, apps, unit, inbox, faults>>,
           wire' = wire \/ (wire = None /\ wire'.kind \in {"poll", "debug"})
    PROVE  CalmParts'
<1> USE DEF word, request, image, apps, unit
<1>1. UNCHANGED <<Erased, Whole, OneWriter>> /\ \A s : Left(s)' = Left(s)
  BY DEF Erased, Whole, OneWriter, Left
<1>2. wire.kind = "none" \/ wire' = wire
  BY Contents
<1>3. Still' /\ UpToDate' /\ BitInv'
  BY <1>1, <1>2 DEF CalmParts, Still, UpToDate, BitInv
<1>4. ASSUME NEW s \in Sections PROVE SectionInv(s)'
  <2>1. Unwritten(s)' = Unwritten(s)
    BY <1>1, <1>2 DEF Unwritten, ToBeWritten
  <2>2. Untouched(s) => Untouched(s)'
    BY <1>1, <1>2 DEF Untouched
  <2> QED
    BY <2>1, <2>2 DEF CalmParts, SectionInv
<1> QED
  BY <1>1, <1>3, <1>4 DEF CalmParts

\* A parser reads the answer, when nothing is on the line and no bit is to be set.
LEMMA CalmParsed ==
    ASSUME CalmParts, TypeOK, PhaseInv, NEW k, Answered(k), k # "none"
    PROVE  /\ wire.kind = "none" /\ inbox'.kind = "none" /\ marks = {}
           /\ pc = "read" /\ pc' = "merge" /\ inbox.kind = k
           /\ UNCHANGED <<word, apps, unit, wire, faults>>
BY TypeParts, Contents DEF Answered, LineType, PhaseInv

\* What a parser has to keep: the rest does not concern it.
LEMMA CalmParser ==
    ASSUME CalmParts, wire.kind = "none", inbox'.kind = "none", marks = {}, pc = "read", pc' = "merge",
           UNCHANGED <<word, apps, unit, wire, faults>>,
           marks' \subseteq Reads, Erased => marks' = {},
           \A s \in Sections : Untouched(s) => Untouched(s)'
    PROVE  CalmParts'
<1> USE DEF word, request, apps, unit
<1>1. UNCHANGED <<Erased, Whole, OneWriter>> /\ \A s : Left(s)' = Left(s)
  BY DEF Erased, Whole, OneWriter, Left
<1>2. Still' /\ UpToDate' /\ BitInv'
  BY <1>1 DEF CalmParts, Still, UpToDate, BitInv
<1>3. ASSUME NEW s \in Sections PROVE SectionInv(s)'
  <2>1. Unwritten(s)' = Unwritten(s)
    BY <1>1 DEF Unwritten, ToBeWritten
  <2> QED
    BY <2>1 DEF CalmParts, SectionInv
<1> QED
  BY <1>1, <1>2, <1>3 DEF CalmParts

LEMMA CalmPolled == ASSUME CalmParts, TypeOK, PhaseInv, PollingBaseParse PROVE CalmParts'
<1> USE DEF word, request, image, apps, unit
<1>1. /\ wire.kind = "none" /\ inbox'.kind = "none" /\ marks = {} /\ inbox.kind = "poll"
      /\ pc = "read" /\ pc' = "merge" /\ UNCHANGED <<word, image, apps, unit, wire, faults>>
      /\ s_ext_cnt' = inbox.cnts
      /\ marks' = {Read(s) : s \in {c \in Counted : inbox.cnts[c] # s_ext_cnt[c]}}
  BY CalmParsed DEF PollingBaseParse, Outdated
<1>2. \A s \in Counted : inbox.cnts[s] \in {unitCnt[s], s_ext_cnt[s]} /\ s \in Sections
  BY <1>1, Constants DEF CalmParts, UpToDate
<1>3. Erased' = Erased
  BY <1>1 DEF Erased
<1>4. ASSUME NEW s \in Sections, Untouched(s) PROVE Untouched(s)' /\ Read(s) \notin marks'
  BY <1>1, <1>2, <1>3, <1>4, BitsDiffer DEF Untouched
<1>5. ASSUME Erased PROVE marks' = {}
  <2>1. \A s \in Counted : Untouched(s)
    BY <1>2, <1>5 DEF CalmParts, SectionInv, Unwritten, ToBeWritten, Erased
  <2> QED
    BY <1>1, <1>2, <1>4, <2>1
<1> QED
  BY <1>1, <1>4, <1>5, CalmParser DEF Reads

LEMMA CalmRead == ASSUME CalmParts, TypeOK, PhaseInv, ReadEepromParse PROVE CalmParts'
<1> USE DEF word, request, image, apps, unit
<1>1. /\ wire.kind = "none" /\ inbox'.kind = "none" /\ marks = {} /\ inbox.kind = "read"
      /\ pc = "read" /\ pc' = "merge" /\ UNCHANGED <<word, s_ext_cnt, marks, apps, unit, wire, faults>>
      /\ cntUpdate' = [cntUpdate EXCEPT ![inbox.sec] = inbox.cnt]
  BY CalmParsed DEF ReadEepromParse
<1>2. cntUpdate \in [Counted -> Cnt]
  BY <1>1, TypeParts DEF ImageType
<1>3. Erased' = Erased
  BY <1>1 DEF Erased
<1>4. ASSUME NEW s \in Sections, Untouched(s) PROVE Untouched(s)'
  <2>1. s # inbox.sec
    BY <1>1, <1>4 DEF Untouched
  <2> QED
    BY <1>1, <1>2, <1>3, <1>4, <2>1 DEF Untouched
<1> QED
  BY <1>1, <1>4, CalmParser

LEMMA CalmWrote == ASSUME CalmParts, TypeOK, PhaseInv, WriteEepromParse PROVE CalmParts'
<1> USE DEF word, request, image, apps, unit
<1>1. /\ wire.kind = "none" /\ inbox'.kind = "none" /\ marks = {} /\ inbox.kind = "write"
      /\ pc = "read" /\ pc' = "merge" /\ UNCHANGED <<word, gRDEeprom, s_ext_cnt, apps, unit, wire, faults>>
      /\ cntUpdate' = inbox.cnts
      /\ marks' = {Read(s) : s \in {c \in Counted : inbox.cnts[c] # cntUpdate[c]}}
  BY CalmParsed DEF WriteEepromParse
<1>2. inbox.cnts = unitCnt /\ ~Erased
  BY <1>1 DEF CalmParts, UpToDate, Still
<1>3. Erased' = Erased
  BY <1>1 DEF Erased
<1>4. ASSUME NEW s \in Sections, Untouched(s) PROVE Untouched(s)'
  BY <1>1, <1>2, <1>3, <1>4, BitsDiffer DEF Untouched
<1> QED
  BY <1>1, <1>2, <1>4, CalmParser DEF Reads

LEMMA CalmOther == ASSUME CalmParts, TypeOK, PhaseInv, OtherParse PROVE CalmParts'
<1> USE DEF word, request, image, apps, unit
<1>1. /\ wire.kind = "none" /\ inbox'.kind = "none" /\ marks = {} /\ inbox.kind \in {"debug", "garbage"}
      /\ pc = "read" /\ pc' = "merge" /\ UNCHANGED <<word, image, s_ext_cnt, marks, apps, unit, wire, faults>>
  <2>1. PICK k \in {"debug", "garbage"} : Answered(k)
    BY DEF OtherParse
  <2> QED
    BY <2>1, CalmParsed DEF OtherParse
<1>2. Erased' = Erased
  BY <1>1 DEF Erased
<1>3. ASSUME NEW s \in Sections, Untouched(s) PROVE Untouched(s)'
  BY <1>1, <1>2, <1>3 DEF Untouched
<1> QED
  BY <1>1, <1>3, CalmParser

\* Loading and storing, where nobody else is amid the same.
LEMMA WholeLoad ==
    ASSUME ~clashed', WordType, Whole, NEW t \in Tasks, Load(t)
    PROVE  Whole' /\ UNCHANGED Read_Eeprom_Request_Index
<1>1. busy = {}
  BY DEF Load
<1> QED BY <1>1 DEF WordType, Whole, Load

LEMMA WholeStore ==
    ASSUME Whole, NEW t \in Tasks, NEW b, Store(t, b)
    PROVE  Whole' /\ Read_Eeprom_Request_Index' = b /\ loaded[t] = Read_Eeprom_Request_Index
BY DEF Whole, Store

LEMMA CalmMerge == ASSUME ~clashed', CalmParts, TypeOK, Merge PROVE CalmParts'
<1> USE DEF word, request, image, apps, unit, line
<1>1. /\ UNCHANGED <<image, s_ext_cnt, apps, unit, line>> /\ pc = "merge" /\ pc' \in {"merge", "dispatch"}
      /\ marks \subseteq Reads /\ WordType /\ Whole
  BY TypeParts DEF Merge, CalmParts, BitInv
<1>2. UNCHANGED <<Erased, OneWriter>> /\ \A s : Left(s)' = Left(s)
  BY <1>1 DEF Erased, OneWriter, Left
<1>3. ASSUME marks' \subseteq marks, pc' = "dispatch" => marks = {}, Whole',
             Read_Eeprom_Request_Index' = Read_Eeprom_Request_Index \cup (marks \ marks')
      PROVE  CalmParts'
  <2>1. \A s : Write(s) \notin marks
    BY <1>1, BitsDiffer
  <2>2. Still' /\ UpToDate' /\ BitInv'
    BY <1>1, <1>2, <1>3, <2>1 DEF CalmParts, Still, UpToDate, BitInv
  <2>3. ASSUME NEW s \in Sections PROVE SectionInv(s)'
    <3>1. Unwritten(s)' = Unwritten(s)
      BY <1>1, <1>2, <1>3, <2>1 DEF Unwritten, ToBeWritten
    <3>2. Untouched(s) => Untouched(s)'
      BY <1>1, <1>2, <1>3 DEF Untouched
    <3> QED
      BY <3>1, <3>2 DEF CalmParts, SectionInv
  <2> QED
    BY <1>2, <1>3, <2>2, <2>3 DEF CalmParts
<1>4. CASE marks = {} /\ UNCHANGED <<word, marks>>
  <2>1. Whole'
    BY <1>1, <1>4 DEF Whole
  <2> QED
    BY <1>3, <1>4, <2>1
<1>5. CASE marks # {} /\ Load("task") /\ UNCHANGED <<pc, marks>>
  <2>1. Whole' /\ UNCHANGED Read_Eeprom_Request_Index
    BY <1>1, <1>5, WholeLoad DEF Tasks
  <2> QED
    BY <1>1, <1>3, <1>5, <2>1
<1>6. ASSUME NEW m \in marks, Store("task", loaded["task"] \cup {m}), marks' = marks \ {m}, UNCHANGED pc
      PROVE  CalmParts'
  <2>1. Whole' /\ Read_Eeprom_Request_Index' = Read_Eeprom_Request_Index \cup {m}
    BY <1>1, <1>6, WholeStore DEF Tasks
  <2> QED
    BY <1>1, <1>3, <1>6, <2>1
<1> QED
  BY <1>4, <1>5, <1>6 DEF Merge

LEMMA CalmClear == ASSUME ~clashed', CalmParts, TypeOK, Clear PROVE CalmParts'
<1> USE DEF word, request, image, apps, unit, line
<1>1. /\ UNCHANGED <<image, s_ext_cnt, apps, unit, line>> /\ pc = "clear"
      /\ WordType /\ Whole
  BY TypeParts DEF Clear, CalmParts
<1>2. UNCHANGED <<Erased, OneWriter>> /\ \A s : Left(s)' = Left(s)
  BY <1>1 DEF Erased, OneWriter, Left
<1>3. CASE Load("task") /\ UNCHANGED <<pc, marks>>
  <2>1. Whole' /\ UNCHANGED Read_Eeprom_Request_Index
    BY <1>1, <1>3, WholeLoad DEF Tasks
  <2>2. Still' /\ UpToDate' /\ BitInv'
    BY <1>1, <1>2, <1>3, <2>1 DEF CalmParts, Still, UpToDate, BitInv, Sent
  <2>3. ASSUME NEW s \in Sections PROVE SectionInv(s)'
    BY <1>1, <1>2, <1>3, <2>1 DEF CalmParts, SectionInv, Unwritten, ToBeWritten, Untouched
  <2> QED
    BY <1>2, <2>1, <2>2, <2>3 DEF CalmParts
<1>4. CASE Store("task", Cleared(loaded["task"])) /\ pc' = "timers" /\ marks' = {}
  <2>1. Whole' /\ Read_Eeprom_Request_Index' = Read_Eeprom_Request_Index \ marks
    BY <1>1, <1>4, WholeStore DEF Tasks, Cleared
  <2>2. Still' /\ UpToDate' /\ BitInv'
    BY <1>1, <1>2, <1>4, <2>1 DEF CalmParts, Still, UpToDate, BitInv
  <2>3. ASSUME NEW s \in Sections PROVE SectionInv(s)'
    <3>1. Unwritten(s)' = Unwritten(s)
      BY <1>1, <1>2, <1>4, <2>1 DEF Unwritten, ToBeWritten
    <3>2. Untouched(s) => Untouched(s)'
      BY <1>1, <1>2, <1>4, <2>1 DEF Untouched
    <3> QED
      BY <3>1, <3>2 DEF CalmParts, SectionInv
  <2> QED
    BY <1>2, <2>1, <2>2, <2>3 DEF CalmParts
<1> QED
  BY <1>3, <1>4 DEF Clear

LEMMA CalmDispatch == ASSUME CalmParts, TypeOK, PhaseInv, Dispatch PROVE CalmParts'
<1> USE DEF word, request, image, apps, unit
<1>1. /\ UNCHANGED <<word, image, s_ext_cnt, apps, unit, inbox, faults>> /\ pc = "dispatch" /\ pc' = "clear"
      /\ wire.kind = "none" /\ inbox.kind = "none" /\ marks = {} /\ Read_Eeprom_Request_Index \subseteq Bits
  BY TypeParts, Contents DEF Dispatch, LineType, WordType, PhaseInv
<1>2. UNCHANGED <<Erased, Whole, OneWriter>> /\ \A s : Left(s)' = Left(s)
  BY <1>1 DEF Erased, Whole, OneWriter, Left
<1>3. PICK b \in Read_Eeprom_Request_Index : SendSection(b) /\ marks' = {b}
  BY DEF Dispatch
<1>4. ~Erased
  BY <1>3 DEF CalmParts, Still
<1>5. ASSUME NEW c \in Counted, b = Read(c) PROVE CalmParts'
  <2>1. wire' = [kind |-> "read", sec |-> c]
    BY <1>3, <1>5 DEF SendSection, Read
  <2>2. Still' /\ UpToDate' /\ BitInv'
    BY <1>1, <1>2, <1>3, <1>4, <1>5, <2>1 DEF CalmParts, Still, UpToDate, BitInv, Sent
  <2>3. ASSUME NEW s \in Sections PROVE SectionInv(s)'
    <3>1. Unwritten(s)' = Unwritten(s)
      BY <1>1, <1>2, <1>3, <1>5, <2>1, BitsDiffer DEF Unwritten, ToBeWritten
    <3>2. Untouched(s) => Untouched(s)'
      BY <1>1, <1>2, <1>3, <1>5, <2>1, BitsDiffer DEF Untouched
    <3> QED
      BY <3>1, <3>2 DEF CalmParts, SectionInv
  <2> QED
    BY <1>2, <2>2, <2>3 DEF CalmParts
<1>6. ASSUME NEW c \in Sections, b = Write(c) PROVE CalmParts'
  <2>1. wire' = [kind |-> "write", sec |-> c, data |-> gRDEeprom[c]]
    BY <1>3, <1>6 DEF SendSection, Write
  <2>2. ~Left(c)
    BY <1>3, <1>6 DEF CalmParts, BitInv
  <2>3. Still' /\ UpToDate'
    BY <1>1, <1>2, <1>3, <1>4, <1>6, <2>1, <2>2 DEF CalmParts, Still, UpToDate
  <2>4. BitInv'
    BY <1>1, <1>2, <1>3, <1>6, <2>1, <2>2 DEF CalmParts, BitInv, Sent
  <2>5. ASSUME NEW s \in Sections PROVE SectionInv(s)'
    <3>1. Unwritten(s)' = Unwritten(s)
      BY <1>1, <1>2, <1>3, <1>6, <2>1, BitsDiffer DEF Unwritten, ToBeWritten
    <3>2. Untouched(s) => Untouched(s)'
      BY <1>1, <1>2, <1>3, <1>6, <2>1, BitsDiffer DEF Untouched
    <3> QED
      BY <3>1, <3>2 DEF CalmParts, SectionInv
  <2> QED
    BY <1>2, <2>3, <2>4, <2>5 DEF CalmParts
<1> QED
  BY <1>1, <1>3, <1>5, <1>6, BitsDiffer

\* The image is erased when nothing is under way, ...
LEMMA CalmErases ==
    ASSUME AtRest, CalmParts, TypeOK, NEW a \in Apps, AppErases(a) PROVE CalmParts'
<1> USE DEF request, loop, unit, line
<1>1. /\ AtRest /\ UNCHANGED <<request, loop, unit, line>>
      /\ app' = [app EXCEPT ![a] = [at |-> "copy", left |-> {}]]
      /\ \A o \in Apps : app'[o].at = (IF o = a THEN "copy" ELSE "idle")
  BY TypeParts DEF AppErases, AppType, AtRest, Idle
<1>2. Erased' /\ \A s : ~Left(s)'
  BY <1>1 DEF Erased, Left
<1>3. Read_Eeprom_Request_Index = {} /\ marks = {} /\ {wire.kind, inbox.kind} \subseteq {"none", "poll", "debug"}
  BY <1>1 DEF AtRest
<1>4. Whole' /\ OneWriter' /\ Still' /\ UpToDate' /\ BitInv'
  <2>1. Whole' /\ OneWriter' /\ Still'
    BY <1>1, <1>3 DEF CalmParts, Whole, OneWriter, Still
  <2>2. UpToDate'
    BY <1>1, <1>3 DEF CalmParts, UpToDate
  <2>3. BitInv'
    BY <1>1, <1>3 DEF CalmParts, BitInv, Sent
  <2> QED
    BY <2>1, <2>2, <2>3
<1>5. ASSUME NEW s \in Sections PROVE SectionInv(s)'
  <2>1. Unwritten(s)'
    BY <1>2 DEF Erased, Unwritten, ToBeWritten
  <2>2. Untouched(s)'
    BY <1>1, <1>2, <1>3 DEF AtRest, Untouched
  <2> QED
    BY <2>1, <2>2 DEF SectionInv
<1> QED
  BY <1>4, <1>5 DEF CalmParts

\* ... filled, after which every section is to be written, ...
LEMMA CalmCopies ==
    ASSUME ~clashed', CalmParts, TypeOK, NEW a \in Apps, AppCopies(a) PROVE CalmParts'
<1> USE DEF request, loop, unit, line
<1>1. /\ app[a].at = "copy" /\ UNCHANGED <<request, loop, unit, line>> /\ cntUpdate' = unitCnt
      /\ app' = [app EXCEPT ![a] = [at |-> "bits", left |-> AllWrites]]
      /\ app'[a] = [at |-> "bits", left |-> AllWrites] /\ \A o \in Apps : o # a => app'[o] = app[o]
  BY TypeParts DEF AppCopies, AppType
<1>2. Erased /\ \A o \in Apps : o # a => app[o].at = "idle"
  BY <1>1 DEF CalmParts, OneWriter, Erased
<1>3. ~Erased' /\ \A s \in Sections : Left(s)'
  BY <1>1, <1>2, BitsDiffer DEF Erased, Left
<1>4. Read_Eeprom_Request_Index = {} /\ marks = {}
      /\ wire.kind \notin {"read", "write"} /\ inbox.kind \notin {"read", "write"}
  BY <1>2 DEF CalmParts, Still
<1>5. Whole' /\ OneWriter' /\ Still' /\ UpToDate' /\ BitInv'
  <2>1. Whole' /\ OneWriter' /\ Still'
    BY <1>1, <1>2, <1>3 DEF CalmParts, Whole, OneWriter, Still
  <2>2. UpToDate'
    BY <1>1, <1>4 DEF CalmParts, UpToDate
  <2>3. BitInv'
    BY <1>1, <1>4 DEF CalmParts, BitInv, Sent
  <2> QED
    BY <2>1, <2>2, <2>3
<1>6. ASSUME NEW s \in Sections PROVE SectionInv(s)'
  <2>1. Unwritten(s)'
    BY <1>3 DEF Left, Unwritten, ToBeWritten
  <2>2. Untouched(s)
    BY <1>2 DEF Erased, Unwritten, ToBeWritten, CalmParts, SectionInv
  <2>3. Untouched(s)'
    BY <1>1, <2>2 DEF Untouched
  <2> QED
    BY <2>1, <2>3 DEF SectionInv
<1> QED
  BY <1>5, <1>6 DEF CalmParts

\* ... as its bits are set.
LEMMA CalmLoads ==
    ASSUME ~clashed', CalmParts, TypeOK, NEW a \in Apps, AppLoads(a) PROVE CalmParts'
<1> USE DEF image, loop, apps, unit, line
<1>1. Whole' /\ UNCHANGED <<Read_Eeprom_Request_Index, image, loop, apps, unit, line>>
  BY TypeParts, WholeLoad DEF AppLoads, CalmParts, Tasks
<1>2. UNCHANGED <<Erased, OneWriter>> /\ \A s : Left(s)' = Left(s)
  BY <1>1 DEF Erased, OneWriter, Left
<1>3. Still' /\ UpToDate' /\ BitInv'
  BY <1>1, <1>2 DEF CalmParts, Still, UpToDate, BitInv, Sent
<1>4. ASSUME NEW s \in Sections PROVE SectionInv(s)'
  BY <1>1, <1>2 DEF CalmParts, SectionInv, Unwritten, ToBeWritten, Untouched
<1> QED
  BY <1>1, <1>2, <1>3, <1>4 DEF CalmParts

LEMMA CalmStores ==
    ASSUME CalmParts, TypeOK, NEW a \in Apps, AppStores(a) PROVE CalmParts'
<1> USE DEF image, loop, unit, line
<1>1. PICK g \in SUBSET app[a].left :
          /\ Store(a, loaded[a] \cup g)
          /\ app' = [app EXCEPT ![a] =
                       [at |-> IF app[a].left \ g = {} THEN "idle" ELSE "bits", left |-> app[a].left \ g]]
  BY DEF AppStores
<1>2. /\ Whole' /\ Read_Eeprom_Request_Index' = Read_Eeprom_Request_Index \cup g
      /\ UNCHANGED <<image, loop, unit, line>> /\ app[a].at = "bits"
  BY <1>1, WholeStore DEF AppStores, CalmParts, Tasks
<1>3. /\ app'[a].left = app[a].left \ g
      /\ app'[a].at = (IF app[a].left \ g = {} THEN "idle" ELSE "bits")
      /\ \A o \in Apps : o # a => app[o].at = "idle" /\ app'[o].at = "idle"
      /\ g \subseteq AllWrites
  BY <1>1, <1>2, TypeParts DEF AppType, CalmParts, OneWriter
<1>4. /\ ~Erased /\ ~Erased'
      /\ \A s : Left(s) <=> Write(s) \in app[a].left
      /\ \A s : Left(s)' <=> Write(s) \in app[a].left \ g
      /\ \A s : Left(s)' => Left(s)
  BY <1>2, <1>3 DEF Erased, Left
<1>5. Still' /\ OneWriter'
  BY <1>3, <1>4 DEF Still, OneWriter
<1>6. UpToDate'
  BY <1>2, <1>4 DEF CalmParts, UpToDate
<1>7. BitInv'
  BY <1>2, <1>4 DEF CalmParts, BitInv, Sent
<1>8. ASSUME NEW s \in Sections PROVE SectionInv(s)'
  <2>1. Write(s) \in g => ~(pc = "clear" /\ Write(s) \in marks)
    BY <1>4, BitsDiffer DEF CalmParts, BitInv, Sent
  <2>2. Unwritten(s) <=> Erased \/ Left(s) \/ (Write(s) \in Read_Eeprom_Request_Index /\ ~(pc = "clear" /\ Write(s) \in marks))
                         \/ (wire.kind = "write" /\ wire.sec = s)
    BY DEF Unwritten, ToBeWritten, Erased, Left
  <2>3. Unwritten(s)' <=> Erased' \/ Left(s)' \/ (Write(s) \in Read_Eeprom_Request_Index' /\ ~(pc = "clear" /\ Write(s) \in marks))
                         \/ (wire.kind = "write" /\ wire.sec = s)
    BY <1>2 DEF Unwritten, ToBeWritten, Erased, Left
  <2>4. Unwritten(s)' <=> Unwritten(s)
    BY <1>2, <1>4, <2>1, <2>2, <2>3
  <2>5. Untouched(s) => Untouched(s)'
    BY <1>2, <1>3, <1>4, BitsDiffer DEF Untouched
  <2> QED
    BY <2>4, <2>5 DEF CalmParts, SectionInv
<1> QED
  BY <1>2, <1>5, <1>6, <1>7, <1>8 DEF CalmParts

\* A change of the unit is counted, which the last poll does not tell yet.
LEMMA CalmChanges ==
    ASSUME AtRest, CalmParts, TypeOK, NEW c \in Counted, UnitChanges(c) PROVE CalmParts'
<1> USE DEF request, image, loop, apps, line
<1>1. /\ AtRest /\ UNCHANGED <<request, image, loop, apps, line>> /\ changes < MaxChanges /\ changes \in 0..MaxChanges
      /\ unitCnt'[c] = NextCnt(unitCnt[c]) /\ unitCnt[c] \in Cnt
      /\ \A s \in Sections : s # c => unitData'[s] = unitData[s]
      /\ \A s \in Counted : s # c => unitCnt'[s] = unitCnt[s]
  BY TypeParts, Constants DEF UnitChanges, UnitType
<1>2. unitCnt'[c] # unitCnt[c]
  BY <1>1, Constants DEF Cnt, NextCnt
<1>3. /\ Read_Eeprom_Request_Index = {} /\ marks = {} /\ gRDEeprom = unitData /\ s_ext_cnt = unitCnt
      /\ {wire.kind, inbox.kind} \subseteq {"none", "poll", "debug"}
      /\ \A a \in Apps : app[a].at = "idle"
  BY <1>1 DEF AtRest, Idle
<1>4. Whole' /\ OneWriter' /\ Still' /\ UpToDate' /\ BitInv'
  <2>1. Whole' /\ OneWriter' /\ Still'
    BY <1>1, <1>3 DEF CalmParts, Whole, OneWriter, Still, Erased
  <2>2. UpToDate'
    BY <1>1, <1>3 DEF CalmParts, UpToDate
  <2>3. BitInv'
    BY <1>1, <1>3 DEF CalmParts, BitInv, Sent
  <2> QED
    BY <2>1, <2>2, <2>3
<1>5. ASSUME NEW s \in Sections PROVE SectionInv(s)'
  <2>1. ~Unwritten(s)'
    BY <1>1, <1>3 DEF Unwritten, ToBeWritten, Erased, Left
  <2> QED
    BY <2>1 DEF SectionInv
<1> QED
  BY <1>4, <1>5 DEF CalmParts

\* The unit answers with what it holds; what was to be written is then written.
LEMMA CalmAnswers == ASSUME CalmParts, TypeOK, UnitAnswers PROVE CalmParts'
<1> USE DEF word, request, image, loop, apps
<1>1. /\ UNCHANGED <<word, image, loop, apps, faults>> /\ wire # None /\ inbox.kind = "none" /\ wire'.kind = "none"
      /\ unitData \in [Sections -> Data] /\ unitCnt \in [Counted -> Cnt]
  BY TypeParts, Contents DEF UnitAnswers, LineType, UnitType
<1>2. UNCHANGED <<Erased, Whole, OneWriter>> /\ \A s : Left(s)' = Left(s)
  BY <1>1 DEF Erased, Whole, OneWriter, Left
<1>3. CASE wire.kind # "write"
  <2>1. /\ UNCHANGED unit /\ inbox'.kind = wire.kind /\ wire.kind \in {"poll", "debug", "read"}
        /\ wire.kind = "read" => inbox'.sec = wire.sec /\ inbox'.data = unitData[wire.sec]
        /\ wire.kind = "poll" => inbox'.cnts = unitCnt
    BY <1>3 DEF UnitAnswers
  <2>2. Still' /\ UpToDate'
    BY <1>1, <1>2, <2>1 DEF CalmParts, Still, UpToDate, unit
  <2>3. BitInv'
    BY <1>1, <1>2, <2>1 DEF CalmParts, BitInv, Sent, unit
  <2>4. ASSUME NEW s \in Sections PROVE SectionInv(s)'
    <3>1. Unwritten(s)' = Unwritten(s)
      BY <1>1, <1>2, <2>1 DEF Unwritten, ToBeWritten
    <3>2. Untouched(s) => Untouched(s)'
      BY <1>1, <1>2, <2>1 DEF Untouched, unit
    <3> QED
      BY <3>1, <3>2 DEF CalmParts, SectionInv
  <2> QED
    BY <1>2, <2>2, <2>3, <2>4 DEF CalmParts
<1>4. CASE wire.kind = "write"
  <2>1. /\ unitData' = [unitData EXCEPT ![wire.sec] = wire.data]
        /\ unitCnt' = [c \in Counted |-> IF c = wire.sec THEN NextCnt(unitCnt[c]) ELSE unitCnt[c]]
        /\ inbox' = [kind |-> "write", cnts |-> unitCnt']
    BY <1>4 DEF UnitAnswers
  <2>2. /\ wire.data = gRDEeprom[wire.sec] /\ ~Left(wire.sec) /\ ~Erased
        /\ Write(wire.sec) \in Read_Eeprom_Request_Index => pc = "clear" /\ marks = {Write(wire.sec)}
    BY <1>4 DEF CalmParts, UpToDate, Still
  <2>3. Still' /\ UpToDate'
    BY <1>1, <1>2, <2>1, <2>2 DEF CalmParts, Still, UpToDate
  <2>4. BitInv'
    BY <1>1, <1>2 DEF CalmParts, BitInv, Sent
  <2>5. ASSUME NEW s \in Sections PROVE SectionInv(s)'
    <3>1. CASE s = wire.sec
      <4>1. ~Unwritten(s)'
        BY <1>1, <1>2, <2>2, <3>1 DEF Unwritten, ToBeWritten, Erased, Left
      <4> QED
        BY <4>1 DEF SectionInv
    <3>2. CASE s # wire.sec
      <4>1. unitData'[s] = unitData[s] /\ (s \in Counted => unitCnt'[s] = unitCnt[s])
        BY <1>1, <2>1, <3>2
      <4>2. Unwritten(s)' = Unwritten(s)
        BY <1>1, <1>2, <3>2 DEF Unwritten, ToBeWritten
      <4>3. Untouched(s) => Untouched(s)'
        BY <1>1, <1>2, <2>1, <4>1 DEF Untouched
      <4> QED
        BY <4>2, <4>3 DEF CalmParts, SectionInv
    <3> QED
      BY <3>1, <3>2
  <2> QED
    BY <1>2, <2>3, <2>4, <2>5 DEF CalmParts
<1> QED
  BY <1>3, <1>4

\* A request that is refused or lost is no longer asked, and only that.
LEMMA CalmFault == ASSUME CalmParts, TypeOK, UnitRefuses \/ LineFault PROVE CalmParts'
<1> USE DEF word, request, image, loop, apps, unit
<1>1. /\ UNCHANGED <<word, image, loop, apps, unit>> /\ wire'.kind = "none" /\ faults' > 0
      /\ inbox.kind = "none" /\ inbox'.kind \in {"none", "write", "garbage"}
      /\ inbox'.kind = "write" => wire.kind = "write" /\ inbox'.cnts = unitCnt
  <2>1. inbox.kind = "none" /\ faults \in Nat
    BY TypeParts, Contents, Constants DEF UnitRefuses, LineFault, LineType, UnitType
  <2>2. CASE UnitRefuses
    BY <2>1, <2>2, Contents DEF UnitRefuses
  <2>3. CASE LineFault
    BY <2>1, <2>3, Contents DEF LineFault
  <2> QED
    BY <2>2, <2>3
<1>2. UNCHANGED <<Erased, Whole, OneWriter>> /\ \A s : Left(s)' = Left(s)
  BY <1>1 DEF Erased, Whole, OneWriter, Left
<1>3. Still' /\ UpToDate'
  BY <1>1, <1>2 DEF CalmParts, Still, UpToDate
<1>4. BitInv'
  BY <1>1, <1>2 DEF CalmParts, BitInv, Sent
<1>5. ASSUME NEW s \in Sections PROVE SectionInv(s)'
  <2>1. Unwritten(s)' => Unwritten(s)
    BY <1>1, <1>2 DEF Unwritten, ToBeWritten
  <2>2. Untouched(s) => Untouched(s)'
    BY <1>1, <1>2 DEF Untouched
  <2> QED
    BY <2>1, <2>2 DEF CalmParts, SectionInv
<1> QED
  BY <1>2, <1>3, <1>4, <1>5 DEF CalmParts

\* Nothing is left of a clash when image and unit are at rest.
LEMMA RestIsCalm == ASSUME TypeOK, PhaseInv, AtRest PROVE CalmParts
<1>1. /\ Read_Eeprom_Request_Index = {} /\ marks = {} /\ s_ext_cnt = unitCnt
      /\ wire.kind \in {"none", "poll", "debug"} /\ inbox.kind \in {"none", "poll", "debug"}
      /\ \A a \in Apps : app[a].at = "idle"
      /\ inbox.kind = "poll" => inbox.cnts = unitCnt
  BY DEF AtRest, Idle
<1>2. busy = {} /\ pc # "clear"
  BY <1>1, TypeParts DEF PhaseInv, WordType, Tasks
<1>3. \A s \in Sections : ~Unwritten(s)
  BY <1>1 DEF Unwritten, ToBeWritten, Erased, Left
<1>4. Whole /\ OneWriter /\ Still /\ UpToDate /\ BitInv
  BY <1>1, <1>2 DEF Whole, OneWriter, Still, Erased, UpToDate, BitInv, Left
<1> QED
  BY <1>3, <1>4 DEF CalmParts, SectionInv

\* What begins at rest or does not clash begins without a clash.
LEMMA CalmBefore ==
    ASSUME TypeOK, PhaseInv, CalmInv, [Next]_vars, ~clashed'
    PROVE  /\ CalmParts
           /\ \A a \in Apps : AppErases(a) => AtRest
           /\ \A s \in Counted : UnitChanges(s) => AtRest
           /\ clashed => AtRest
<1>1. ASSUME clashed PROVE AtRest
  <2> USE DEF word
  <2>1. ASSUME NEW t, Load(t) PROVE FALSE
    BY <1>1, <2>1 DEF Load
  <2>2. ASSUME NEW t, NEW b, Store(t, b) PROVE FALSE
    BY <1>1, <2>2 DEF Store
  <2>3. ~Unit_event_task
    BY <1>1, <2>1, <2>2 DEF Unit_event_task, Ask, NoTimer, NoMessage, PollingBaseParse, ReadEepromParse,
       WriteEepromParse, OtherParse, Answered, Merge, DispatchIdle, Dispatch, Clear
  <2>4. ASSUME NEW a \in Apps, AppSteps(a) PROVE AtRest
    BY <1>1, <2>1, <2>2, <2>4 DEF AppSteps, AppErases, AppCopies, AppLoads, AppStores
  <2>5. ASSUME Environment PROVE AtRest
    BY <1>1, <2>5 DEF Environment, UnitChanges, UnitAnswers, UnitRefuses, LineFault
  <2>6. ~UNCHANGED vars
    BY <1>1 DEF vars
  <2> QED
    BY <2>3, <2>4, <2>5, <2>6 DEF Next
<1>2. CalmParts
  BY <1>1, RestIsCalm DEF CalmInv
<1>3. \A a \in Apps : AppErases(a) => AtRest
  BY DEF AppErases
<1>4. \A s \in Counted : UnitChanges(s) => AtRest
  BY DEF UnitChanges
<1> QED BY <1>1, <1>2, <1>3, <1>4

\* Every step keeps the invariant.
LEMMA NextCalm == TypeOK /\ PhaseInv /\ CalmInv /\ [Next]_vars => CalmInv'
<1> SUFFICES ASSUME TypeOK, PhaseInv, CalmInv, [Next]_vars, ~clashed' PROVE CalmParts'
  BY DEF CalmInv
<1>1. CalmParts
  BY CalmBefore
<1>2. ASSUME NEW k \in {"poll", "debug"}, Ask(k) PROVE CalmParts'
  <2>1. wire' = wire \/ (wire = None /\ wire' = [kind |-> k])
    BY <1>2, TypeParts DEF Ask, LineType
  <2>2. wire' = wire \/ (wire = None /\ wire'.kind \in {"poll", "debug"})
    BY <2>1
  <2> QED
    BY <1>1, <1>2, <2>2, CalmAsk DEF Ask
<1>3. CASE NoTimer \/ NoMessage \/ DispatchIdle
  BY <1>1, <1>3, CalmAsk DEF NoTimer, NoMessage, DispatchIdle, line
<1>4. CASE UNCHANGED vars
  <2> USE DEF vars, word, request, image, loop, apps, unit, line
  <2>1. UNCHANGED <<Erased, Whole, OneWriter>> /\ \A s : Left(s)' = Left(s)
    BY <1>4 DEF Erased, Whole, OneWriter, Left
  <2>2. Still' /\ UpToDate' /\ BitInv'
    BY <1>1, <1>4, <2>1 DEF CalmParts, Still, UpToDate, BitInv, Sent
  <2>3. ASSUME NEW s \in Sections PROVE SectionInv(s)'
    BY <1>1, <1>4, <2>1 DEF CalmParts, SectionInv, Unwritten, ToBeWritten, Untouched
  <2> QED
    BY <1>1, <2>1, <2>2, <2>3 DEF CalmParts
<1> QED
  BY <1>1, <1>2, <1>3, <1>4, CalmPolled, CalmRead, CalmWrote, CalmOther, CalmMerge, CalmDispatch,
     CalmClear, CalmErases, CalmCopies, CalmLoads, CalmStores, CalmChanges, CalmAnswers, CalmFault, CalmBefore
  DEF Next, Unit_event_task, AppSteps, Environment

-----------------------------------------------------------------------------
(* The image as a write-back cache *)

\* What is dirty is neither read nor stale, and nothing is either while the image is erased.
LEMMA DirtyNotStale ==
    ASSUME CalmParts
    PROVE  /\ \A s \in Sections : Untouched(s) => s \notin Stale
           /\ \A s \in Dirty : Untouched(s)
           /\ Erased => Dirty = {} /\ Stale = {}
<1>1. \A s \in Sections : Untouched(s) => s \notin Stale
  BY DEF Untouched, Stale, ToBeRead
<1>2. \A s \in Dirty : Untouched(s)
  BY DEF Dirty, Unwritten, CalmParts, SectionInv
<1>3. ASSUME Erased PROVE Dirty = {} /\ Stale = {}
  <2>1. \A s \in Sections : Untouched(s)
    BY <1>3 DEF Unwritten, CalmParts, SectionInv
  <2>2. \A s \in Sections : ~Left(s)
    BY <1>3 DEF Left, Erased, CalmParts, OneWriter
  <2>3. Dirty = {}
    BY <1>3, <2>2 DEF CalmParts, Still, Dirty, ToBeWritten
  <2> QED
    BY <1>1, <2>1, <2>3, Constants DEF Stale
<1> QED
  BY <1>1, <1>2, <1>3

\* When image and unit are at rest the cache is clean.
LEMMA RestIsClean ==
    ASSUME AtRest PROVE ~Erased /\ Dirty = {} /\ Stale = {} /\ Cached = unitData
<1>1. /\ Read_Eeprom_Request_Index = {} /\ marks = {} /\ \A a \in Apps : app[a].at = "idle"
      /\ wire.kind \in {"none", "poll", "debug"} /\ inbox.kind \in {"none", "poll", "debug"}
      /\ gRDEeprom = unitData /\ s_ext_cnt = unitCnt
  BY DEF AtRest, Idle
<1>2. ~Erased /\ \A s : ~Left(s)
  BY <1>1 DEF Erased, Left
<1>3. \A s \in Sections : ~ToBeWritten(s)
  BY <1>1, <1>2 DEF ToBeWritten
<1>4. \A s \in Counted : ~ToBeRead(s)
  BY <1>1 DEF ToBeRead
<1> QED
  BY <1>1, <1>2, <1>3, <1>4 DEF Dirty, Stale, Cached

\* The steps that do not concern a section, but for one that becomes known to be stale.
LEMMA MapNotice ==
    ASSUME UNCHANGED <<unitData, gRDEeprom, faults, Erased, Dirty>>, Stale \subseteq Stale'
    PROVE  Cache!Notice
BY Constants DEF Cache!Notice, Cache!Noticed, Cached, Stale

LEMMA InitMap == Init => Cache!Init
<1> SUFFICES ASSUME Init PROVE Cache!Init
  OBVIOUS
<1>1. CalmInv /\ TypeOK
  BY InitCalm, InitTypeOK
<1>2. unitData \in [Sections -> Data] /\ gRDEeprom \in [Sections -> Data] /\ faults = 0
  BY <1>1, TypeParts DEF UnitType, ImageType, Init
<1>3. /\ Read_Eeprom_Request_Index \subseteq Reads /\ pc = "timers"
      /\ wire.kind = "none" /\ inbox.kind = "none" /\ \A a \in Apps : app[a].at = "idle"
  BY DEF Init, None, Reads
<1>4. ~Erased /\ Dirty = {}
  BY <1>3, BitsDiffer DEF Erased, Left, Dirty, ToBeWritten
<1>5. ASSUME NEW s \in Sections, gRDEeprom[s] # unitData[s] PROVE s \in Stale
  <2>1. s \in Counted
    BY <1>5 DEF Init
  <2>2. NoWrite /\ KnownInv
    <3>1. NoWrite
      BY <1>3 DEF Init, NoWrite, Idle
    <3> QED
      BY <3>1, InitKnown
  <2>3. KnownStale(s)
    BY <1>2, <2>1, <2>2 DEF KnownInv
  <2> QED
    BY <1>3, <1>5, <2>1, <2>3 DEF KnownStale, Fetching, Stale, ToBeRead
<1>6. clashed = FALSE
  BY DEF Init
<1> QED
  BY <1>2, <1>4, <1>5, <1>6, Constants DEF Cache!Init, Cache!Coherent, Cached, Stale

\* Asking for a poll, and passing on.
LEMMA MapAsk ==
    ASSUME pc \notin {"merge", "clear"}, pc' \notin {"merge", "clear"},
           UNCHANGED <<word, image, s_ext_cnt, marks, apps, unit, inbox, faults>>,
           wire' = wire \/ (wire = None /\ wire'.kind \in {"poll", "debug"})
    PROVE  Cache!Notice
<1> USE DEF word, request, image, apps, unit
<1>1. UNCHANGED Erased /\ \A s : Left(s)' = Left(s)
  BY DEF Erased, Left
<1>2. wire.kind = "none" \/ wire' = wire
  BY Contents
<1>3. UNCHANGED <<Dirty, Stale>>
  BY <1>1, <1>2 DEF Dirty, ToBeWritten, Stale, ToBeRead
<1> QED
  BY <1>1, <1>3, MapNotice

\* A poll's counters are the unit's or those known before, so what was stale stays known;
\* the answer to a write and the others forget nothing.
LEMMA MapParse ==
    ASSUME CalmParts, TypeOK, PhaseInv, PollingBaseParse \/ WriteEepromParse \/ OtherParse
    PROVE  Cache!Notice
<1> USE DEF word, request, image, apps, unit
<1>1. /\ wire.kind = "none" /\ inbox.kind # "read" /\ marks = {}
      /\ pc = "read" /\ pc' = "merge" /\ UNCHANGED <<word, gRDEeprom, apps, unit, wire, faults>>
      /\ marks' \subseteq Reads
  <2>1. PICK k \in {"poll", "write", "debug", "garbage"} : Answered(k)
    BY DEF PollingBaseParse, WriteEepromParse, OtherParse
  <2>2. marks = {}
    BY <2>1, CalmParsed
  <2>3. marks' \subseteq Reads
    BY <2>2, MarkReads DEF PollingBaseParse, WriteEepromParse, OtherParse
  <2>4. UNCHANGED gRDEeprom
    BY DEF PollingBaseParse, WriteEepromParse, OtherParse
  <2> QED
    BY <2>1, <2>2, <2>3, <2>4, CalmParsed
<1>2. UNCHANGED Erased /\ \A s : Left(s)' = Left(s)
  BY <1>1 DEF Erased, Left
<1>3. Dirty' = Dirty
  BY <1>1, <1>2 DEF Dirty, ToBeWritten
<1>4. ASSUME NEW s \in Counted, ToBeRead(s) PROVE ToBeRead(s)'
  <2>1. CASE UNCHANGED s_ext_cnt
    BY <1>1, <1>4, <2>1 DEF ToBeRead
  <2>2. CASE PollingBaseParse
    <3>1. /\ inbox.kind = "poll" /\ s_ext_cnt' = inbox.cnts
          /\ inbox.cnts[s] # s_ext_cnt[s] => Read(s) \in marks'
      BY <2>2 DEF PollingBaseParse, Answered, Outdated
    <3>2. inbox.cnts[s] \in {unitCnt[s], s_ext_cnt[s]}
      BY <3>1 DEF CalmParts, UpToDate
    <3> QED
      BY <1>1, <1>4, <3>1, <3>2 DEF ToBeRead
  <2> QED
    BY <2>1, <2>2 DEF WriteEepromParse, OtherParse
<1> QED
  BY <1>1, <1>2, <1>3, <1>4, MapNotice DEF Stale

\* A section is read only when it is clean, and the answer is what the unit holds.
LEMMA MapRead ==
    ASSUME CalmParts, TypeOK, PhaseInv, ReadEepromParse
    PROVE  Cache!Fetch(inbox.sec) /\ inbox.sec \in Sections
<1> USE DEF word, request, image, apps, unit
<1>1. /\ wire.kind = "none" /\ inbox'.kind = "none" /\ marks = {} /\ inbox.kind = "read"
      /\ pc = "read" /\ pc' = "merge" /\ UNCHANGED <<word, s_ext_cnt, marks, apps, unit, wire, faults>>
      /\ gRDEeprom' = [gRDEeprom EXCEPT ![inbox.sec] = inbox.data]
  BY CalmParsed DEF ReadEepromParse
<1>2. inbox.sec \in Sections /\ inbox.data = unitData[inbox.sec]
  BY <1>1, TypeParts, Contents, Constants DEF LineType, CalmParts, UpToDate
<1>3. ~Erased /\ ~Erased' /\ \A s : Left(s)' = Left(s)
  BY <1>1 DEF Erased, Left, CalmParts, Still
<1>4. Dirty' = Dirty
  BY <1>1, <1>3 DEF Dirty, ToBeWritten
<1>5. inbox.sec \notin Dirty
  BY <1>1, DirtyNotStale DEF Untouched
<1>6. Stale' \in {Stale, Stale \ {inbox.sec}}
  <2>1. ASSUME NEW s \in Counted, s # inbox.sec PROVE ToBeRead(s)' = ToBeRead(s)
    BY <1>1, <2>1 DEF ToBeRead
  <2>2. ToBeRead(inbox.sec)
    BY <1>1 DEF ToBeRead
  <2>3. CASE ToBeRead(inbox.sec)'
    BY <2>1, <2>2, <2>3 DEF Stale
  <2> QED
    BY <2>1, <2>2 DEF Stale
<1> QED
  BY <1>1, <1>2, <1>3, <1>4, <1>5, <1>6 DEF Cache!Fetch, Cached

\* A bit that is set is the one that was to be set.
LEMMA MapMerge == ASSUME ~clashed', CalmParts, TypeOK, Merge PROVE Cache!Notice
<1> USE DEF word, request, image, apps, unit, line
<1>1. /\ UNCHANGED <<image, s_ext_cnt, apps, unit, line>> /\ pc = "merge" /\ pc' \in {"merge", "dispatch"}
      /\ marks \subseteq Reads /\ WordType /\ Whole
  BY TypeParts DEF Merge, CalmParts, BitInv
<1>2. UNCHANGED Erased /\ \A s : Left(s)' = Left(s)
  BY <1>1 DEF Erased, Left
<1>3. ASSUME marks' \subseteq marks, pc' = "dispatch" => marks = {},
             Read_Eeprom_Request_Index' = Read_Eeprom_Request_Index \cup (marks \ marks')
      PROVE  Cache!Notice
  <2>1. \A s : Write(s) \notin marks
    BY <1>1, BitsDiffer
  <2>2. UNCHANGED <<Dirty, Stale>>
    BY <1>1, <1>2, <1>3, <2>1 DEF Dirty, ToBeWritten, Stale, ToBeRead
  <2> QED
    BY <1>1, <1>2, <2>2, MapNotice
<1>4. CASE marks = {} /\ UNCHANGED <<word, marks>>
  BY <1>3, <1>4
<1>5. CASE marks # {} /\ Load("task") /\ UNCHANGED <<pc, marks>>
  BY <1>1, <1>3, <1>5, WholeLoad DEF Tasks
<1>6. ASSUME NEW m \in marks, Store("task", loaded["task"] \cup {m}), marks' = marks \ {m}, UNCHANGED pc
      PROVE  Cache!Notice
  <2>1. Read_Eeprom_Request_Index' = Read_Eeprom_Request_Index \cup {m}
    BY <1>1, <1>6, WholeStore DEF Tasks
  <2> QED
    BY <1>1, <1>3, <1>6, <2>1
<1> QED
  BY <1>4, <1>5, <1>6 DEF Merge

\* A bit being cleared has sent its request, and no other is cleared with it.
LEMMA MapClear == ASSUME ~clashed', CalmParts, TypeOK, Clear PROVE Cache!Notice
<1> USE DEF word, request, image, apps, unit, line
<1>1. UNCHANGED <<image, s_ext_cnt, apps, unit, line>> /\ pc = "clear" /\ WordType /\ Whole
  BY TypeParts DEF Clear, CalmParts
<1>2. UNCHANGED Erased /\ \A s : Left(s)' = Left(s)
  BY <1>1 DEF Erased, Left
<1>3. \/ UNCHANGED <<Read_Eeprom_Request_Index, pc, marks>>
      \/ /\ Read_Eeprom_Request_Index' = Read_Eeprom_Request_Index \ marks
         /\ pc' = "timers" /\ marks' = {}
  BY <1>1, WholeLoad, WholeStore DEF Clear, Cleared, Tasks
<1>4. UNCHANGED <<Dirty, Stale>>
  BY <1>1, <1>2, <1>3 DEF Dirty, ToBeWritten, Stale, ToBeRead
<1> QED
  BY <1>1, <1>2, <1>4, MapNotice

LEMMA MapDispatch == ASSUME CalmParts, TypeOK, PhaseInv, Dispatch PROVE Cache!Notice
<1> USE DEF word, request, image, apps, unit
<1>1. /\ UNCHANGED <<word, image, s_ext_cnt, apps, unit, inbox, faults>> /\ pc = "dispatch" /\ pc' = "clear"
      /\ wire.kind = "none" /\ inbox.kind = "none" /\ marks = {} /\ Read_Eeprom_Request_Index \subseteq Bits
  BY TypeParts, Contents DEF Dispatch, LineType, WordType, PhaseInv
<1>2. UNCHANGED Erased /\ \A s : Left(s)' = Left(s)
  BY <1>1 DEF Erased, Left
<1>3. PICK b \in Read_Eeprom_Request_Index : SendSection(b) /\ marks' = {b}
  BY DEF Dispatch
<1>4. /\ \A s : Read(s) = b <=> wire'.kind = "read" /\ wire'.sec = s
      /\ \A s : Write(s) = b <=> wire'.kind = "write" /\ wire'.sec = s
  <2>1. ASSUME NEW c \in Counted, b = Read(c)
        PROVE  wire' = [kind |-> "read", sec |-> c]
    BY <1>3, <2>1 DEF SendSection, Read
  <2>2. ASSUME NEW c \in Sections, b = Write(c)
        PROVE  wire' = [kind |-> "write", sec |-> c, data |-> gRDEeprom[c]]
    BY <1>3, <2>2 DEF SendSection, Write
  <2>3. (\E c \in Counted : b = Read(c)) \/ (\E c \in Sections : b = Write(c))
    BY <1>1, <1>3, BitsDiffer
  <2>4. CASE \E c \in Counted : b = Read(c)
    BY <2>1, <2>4, BitsDiffer
  <2>5. CASE \E c \in Sections : b = Write(c)
    BY <2>2, <2>5, BitsDiffer
  <2> QED
    BY <2>3, <2>4, <2>5
<1>5. UNCHANGED Dirty
  BY <1>1, <1>2, <1>3, <1>4 DEF Dirty, ToBeWritten
<1>6. UNCHANGED Stale
  BY <1>1, <1>3, <1>4 DEF Stale, ToBeRead
<1> QED
  BY <1>1, <1>2, <1>5, <1>6, MapNotice

\* Erasing the image is not seen, and filling it saves all of it.
LEMMA MapErases ==
    ASSUME AtRest, CalmParts, TypeOK, NEW a \in Apps, AppErases(a) PROVE UNCHANGED Cache!contents
<1> USE DEF request, loop, unit, line
<1>1. /\ AtRest /\ UNCHANGED <<request, loop, unit, line>>
      /\ \A o \in Apps : app'[o].at = (IF o = a THEN "copy" ELSE "idle")
  BY TypeParts DEF AppErases, AppType, AtRest, Idle
<1>2. Erased' /\ \A s : ~Left(s)'
  BY <1>1 DEF Erased, Left
<1>3. Cached' = unitData /\ Cached = unitData
  BY <1>1, <1>2, RestIsClean DEF Cached
<1>4. Dirty' = {}
  BY <1>1, <1>2 DEF AtRest, Dirty, ToBeWritten
<1>5. Stale' = Stale
  BY <1>1 DEF Stale, ToBeRead
<1> QED
  BY <1>1, <1>3, <1>4, <1>5, RestIsClean DEF Cache!contents

LEMMA MapCopies ==
    ASSUME CalmParts, TypeOK, NEW a \in Apps, AppCopies(a) PROVE Cache!Save
<1> USE DEF request, loop, unit, line
<1>1. /\ app[a].at = "copy" /\ UNCHANGED <<request, loop, unit, line>>
      /\ app'[a] = [at |-> "bits", left |-> AllWrites] /\ \A o \in Apps : o # a => app'[o] = app[o]
      /\ gRDEeprom' = [s \in Sections |-> ByApp(writes')] /\ writes' \in Nat
  BY TypeParts DEF AppCopies, AppType
<1>2. Erased /\ \A o \in Apps : o # a => app[o].at = "idle"
  BY <1>1 DEF CalmParts, OneWriter, Erased
<1>3. ~Erased' /\ \A s \in Sections : Left(s)'
  BY <1>1, <1>2, BitsDiffer DEF Erased, Left
<1>4. Dirty = {} /\ Stale = {} /\ Dirty' = Sections
  BY <1>2, <1>3, DirtyNotStale DEF Dirty, ToBeWritten
<1>5. Stale' = Stale
  BY <1>1 DEF Stale, ToBeRead
<1>6. Cached' \in [Sections -> Data]
  BY <1>1, <1>3 DEF Cached, ByApp, Data
<1> QED
  BY <1>1, <1>4, <1>5, <1>6 DEF Cache!Save, Cache!AtRest

\* A bit that is set is no longer left to be set.
LEMMA MapBits ==
    ASSUME ~clashed', CalmParts, TypeOK, NEW a \in Apps, AppLoads(a) \/ AppStores(a) PROVE Cache!Notice
<1> USE DEF image, loop, unit, line
<1>1. UNCHANGED <<image, loop, unit, line>> /\ app[a].at = "bits" /\ WordType /\ AppType
  BY TypeParts DEF AppLoads, AppStores, apps
<1>2. CASE AppLoads(a)
  <2>1. UNCHANGED <<Read_Eeprom_Request_Index, apps>>
    BY <1>2, <1>1, WholeLoad DEF AppLoads, CalmParts, Tasks
  <2>2. UNCHANGED <<Erased, Dirty, Stale>>
    BY <1>1, <2>1 DEF apps, Erased, Left, Dirty, ToBeWritten, Stale, ToBeRead
  <2> QED
    BY <1>1, <2>2, MapNotice
<1>3. CASE AppStores(a)
  <2>1. PICK g \in SUBSET app[a].left :
            /\ Store(a, loaded[a] \cup g)
            /\ app' = [app EXCEPT ![a] =
                         [at |-> IF app[a].left \ g = {} THEN "idle" ELSE "bits", left |-> app[a].left \ g]]
    BY <1>3 DEF AppStores
  <2>2. Read_Eeprom_Request_Index' = Read_Eeprom_Request_Index \cup g
    BY <2>1, WholeStore DEF CalmParts, Tasks
  <2>3. /\ app'[a].left = app[a].left \ g
        /\ app'[a].at = (IF app[a].left \ g = {} THEN "idle" ELSE "bits")
        /\ \A o \in Apps : o # a => app[o].at = "idle" /\ app'[o].at = "idle"
        /\ g \subseteq AllWrites
    BY <1>1, <2>1 DEF AppType, CalmParts, OneWriter
  <2>4. /\ ~Erased /\ ~Erased'
        /\ \A s : Left(s) <=> Write(s) \in app[a].left
        /\ \A s : Left(s)' <=> Write(s) \in app[a].left \ g
    BY <1>1, <2>3 DEF Erased, Left
  <2>5. \A s \in Sections : Write(s) \in g => ~(pc = "clear" /\ Write(s) \in marks)
    BY <2>4, BitsDiffer DEF CalmParts, BitInv, Sent
  <2>6. \A s \in Sections : ToBeWritten(s)' <=> ToBeWritten(s)
    BY <1>1, <2>2, <2>4, <2>5 DEF ToBeWritten
  <2>7. \A s \in Counted : ToBeRead(s)' <=> ToBeRead(s)
    BY <1>1, <2>2, <2>3, BitsDiffer DEF ToBeRead
  <2>8. UNCHANGED <<Erased, Dirty, Stale>>
    <3>1. UNCHANGED <<Dirty, Stale>>
      BY <2>6, <2>7 DEF Dirty, Stale
    <3>2. Erased' = Erased
      BY <2>4 DEF Erased
    <3> QED
      BY <3>1, <3>2
  <2> QED
    BY <1>1, <2>8, MapNotice
<1> QED
  BY <1>2, <1>3

\* A change is counted, and the counter is not the last poll's.
LEMMA MapChanges ==
    ASSUME AtRest, TypeOK, NEW c \in Counted, UnitChanges(c) PROVE Cache!Change(c)
<1> USE DEF request, image, loop, apps, line
<1>1. /\ AtRest /\ UNCHANGED <<request, image, loop, apps, line>> /\ changes < MaxChanges /\ changes \in 0..MaxChanges
      /\ unitCnt'[c] = NextCnt(unitCnt[c]) /\ unitCnt[c] \in Cnt
      /\ unitData' = [unitData EXCEPT ![c] = ByUnit(changes')] /\ unitData \in [Sections -> Data]
      /\ \A s \in Counted : s # c => unitCnt'[s] = unitCnt[s]
  BY TypeParts, Constants DEF UnitChanges, UnitType
<1>2. unitCnt'[c] # unitCnt[c]
  BY <1>1, Constants DEF Cnt, NextCnt
<1>3. ~Erased' /\ Cached' = Cached
  BY <1>1, RestIsClean DEF Erased, Cached
<1>4. Dirty' = {}
  <2>1. Dirty' = Dirty
    BY <1>1 DEF Dirty, ToBeWritten, Left
  <2> QED
    BY <1>1, <2>1, RestIsClean
<1>5. Stale' = {c}
  <2>1. s_ext_cnt = unitCnt
    BY <1>1 DEF AtRest
  <2>2. \A s \in Counted : s # c => ToBeRead(s)' = ToBeRead(s)
    BY <1>1 DEF ToBeRead
  <2>3. ToBeRead(c)'
    BY <1>1, <1>2, <2>1 DEF ToBeRead
  <2>4. \A s \in Counted : ~ToBeRead(s)
    BY <1>1, RestIsClean DEF Stale
  <2> QED
    BY <2>2, <2>3, <2>4 DEF Stale
<1>6. unitData' \in [Sections -> Data] /\ \A s \in Sections \ {c} : unitData'[s] = unitData[s]
  <2>1. changes' \in Nat
    BY <1>1, Constants DEF UnitChanges
  <2> QED
    BY <1>1, <2>1 DEF ByUnit, Data
<1> QED
  BY <1>1, <1>3, <1>4, <1>5, <1>6, RestIsClean DEF Cache!Change, Cache!AtRest

\* What the unit is sent is what the image holds then, and the section is clean after it.
LEMMA MapAnswers ==
    ASSUME CalmParts, TypeOK, UnitAnswers
    PROVE  Cache!Notice \/ \E s \in Sections : Cache!Flush(s)
<1> USE DEF word, request, image, loop, apps
<1>1. /\ UNCHANGED <<word, image, loop, apps, faults>> /\ wire # None /\ inbox.kind = "none" /\ wire'.kind = "none"
      /\ unitData \in [Sections -> Data] /\ unitCnt \in [Counted -> Cnt]
  BY TypeParts, Contents DEF UnitAnswers, LineType, UnitType
<1>2. UNCHANGED Erased /\ \A s : Left(s)' = Left(s)
  BY <1>1 DEF Erased, Left
<1>3. CASE wire.kind # "write"
  <2>1. /\ UNCHANGED unit /\ inbox'.kind = wire.kind
        /\ wire.kind = "read" => inbox'.sec = wire.sec
    BY <1>3 DEF UnitAnswers
  <2>2. UNCHANGED Dirty
    BY <1>1, <1>2, <1>3 DEF Dirty, ToBeWritten
  <2>3. UNCHANGED Stale
    BY <1>1, <2>1 DEF Stale, ToBeRead, unit
  <2> QED
    BY <1>1, <1>2, <2>1, <2>2, <2>3, MapNotice DEF unit
<1>4. CASE wire.kind = "write"
  <2>1. /\ unitData' = [unitData EXCEPT ![wire.sec] = wire.data]
        /\ unitCnt' = [s \in Counted |-> IF s = wire.sec THEN NextCnt(unitCnt[s]) ELSE unitCnt[s]]
        /\ inbox' = [kind |-> "write", cnts |-> unitCnt']
    BY <1>4 DEF UnitAnswers
  <2>2. /\ wire.data = gRDEeprom[wire.sec] /\ ~Left(wire.sec) /\ ~Erased /\ wire.sec \in Sections
        /\ Write(wire.sec) \in Read_Eeprom_Request_Index => pc = "clear" /\ marks = {Write(wire.sec)}
    BY <1>4, TypeParts, Contents, Constants DEF LineType, CalmParts, UpToDate, Still
  <2>3. wire.sec \in Dirty /\ Dirty' = Dirty \ {wire.sec}
    <3>1. wire.sec \in Dirty
      BY <1>4, <2>2 DEF Dirty, ToBeWritten
    <3>2. \A s \in Sections : s = wire.sec => ~ToBeWritten(s)'
      BY <1>1, <1>2, <2>2 DEF ToBeWritten
    <3>3. \A s \in Sections : s # wire.sec => ToBeWritten(s)' = ToBeWritten(s)
      BY <1>1, <1>2 DEF ToBeWritten
    <3> QED
      BY <3>1, <3>2, <3>3 DEF Dirty
  <2>4. Stale \subseteq Stale'
    <3>1. wire.sec \notin Stale
      BY <2>2, <2>3, DirtyNotStale
    <3>2. \A s \in Counted : s # wire.sec => ToBeRead(s)' = ToBeRead(s)
      BY <1>1, <1>4, <2>1 DEF ToBeRead
    <3> QED
      BY <3>1, <3>2 DEF Stale
  <2>5. Cache!Flush(wire.sec)
    BY <1>1, <1>2, <2>1, <2>2, <2>3, <2>4, Constants DEF Cache!Flush, Cache!Noticed, Cached, Stale
  <2> QED
    BY <2>2, <2>5
<1> QED
  BY <1>3, <1>4

\* What is lost is the section that was asked for, or none.
LEMMA MapFault ==
    ASSUME CalmParts, TypeOK, UnitRefuses \/ LineFault
    PROVE  Cache!LoseOther \/ \E s \in Sections : Cache!GiveUp(s)
<1> USE DEF word, request, image, loop, apps, unit
<1>1. /\ UNCHANGED <<word, image, loop, apps, unit>> /\ wire # None /\ wire'.kind = "none" /\ faults' = faults + 1
      /\ inbox.kind = "none" /\ inbox'.kind # "read" /\ wire.kind \in {"poll", "debug", "read", "write"}
      /\ wire.kind \in {"read", "write"} => wire.sec \in Sections
  <2>1. inbox.kind = "none" /\ wire # None
    BY TypeParts, Contents DEF UnitRefuses, LineFault, LineType
  <2>2. wire.kind \in {"poll", "debug", "read", "write"} /\ (wire.kind \in {"read", "write"} => wire.sec \in Sections)
    BY <2>1, TypeParts, Constants DEF LineType, Requests
  <2>3. inbox'.kind # "read" /\ wire'.kind = "none"
    BY Contents DEF UnitRefuses, LineFault
  <2> QED
    BY <2>1, <2>2, <2>3 DEF UnitRefuses, LineFault
<1>2. UNCHANGED <<Erased, Cached>> /\ \A s : Left(s)' = Left(s)
  BY <1>1 DEF Erased, Left, Cached
<1>3. CASE wire.kind \in {"poll", "debug"}
  <2>1. UNCHANGED <<Dirty, Stale>>
    BY <1>1, <1>2, <1>3 DEF Dirty, ToBeWritten, Stale, ToBeRead
  <2> QED
    BY <1>1, <1>2, <2>1 DEF Cache!LoseOther
<1>4. CASE wire.kind = "read"
  <2>1. UNCHANGED Dirty
    BY <1>1, <1>2, <1>4 DEF Dirty, ToBeWritten
  <2>2. \A s \in Counted : s # wire.sec => ToBeRead(s)' = ToBeRead(s)
    BY <1>1, <1>4 DEF ToBeRead
  <2>3. CASE Stale' = Stale
    BY <1>1, <1>2, <2>1, <2>3 DEF Cache!LoseOther
  <2>4. CASE Stale' # Stale
    <3>1. ToBeRead(wire.sec) /\ wire.sec \in Counted
      BY <1>4, <2>2, <2>4 DEF Stale, ToBeRead
    <3>2. wire.sec \in Stale /\ Stale' = Stale \ {wire.sec}
      BY <2>2, <2>4, <3>1 DEF Stale
    <3>3. wire.sec \notin Dirty
      BY <1>4, DirtyNotStale DEF Untouched
    <3>4. Cache!GiveUp(wire.sec)
      BY <1>1, <1>2, <2>1, <3>2, <3>3 DEF Cache!GiveUp
    <3> QED
      BY <1>1, <1>4, <3>4
  <2> QED
    BY <2>3, <2>4
<1>5. CASE wire.kind = "write"
  <2>1. /\ ~Left(wire.sec) /\ wire.sec \in Sections
        /\ Write(wire.sec) \in Read_Eeprom_Request_Index => pc = "clear" /\ marks = {Write(wire.sec)}
    BY <1>1, <1>5 DEF CalmParts, UpToDate
  <2>2. wire.sec \in Dirty /\ Dirty' = Dirty \ {wire.sec}
    <3>1. wire.sec \in Dirty
      BY <1>5, <2>1 DEF Dirty, ToBeWritten
    <3>2. \A s \in Sections : s = wire.sec => ~ToBeWritten(s)'
      BY <1>1, <1>2, <2>1 DEF ToBeWritten
    <3>3. \A s \in Sections : s # wire.sec => ToBeWritten(s)' = ToBeWritten(s)
      BY <1>1, <1>2 DEF ToBeWritten
    <3> QED
      BY <3>1, <3>2, <3>3 DEF Dirty
  <2>3. Stale' = Stale /\ wire.sec \notin Stale
    <3>1. Stale' = Stale
      BY <1>1, <1>5 DEF Stale, ToBeRead
    <3> QED
      BY <2>1, <2>2, <3>1, DirtyNotStale
  <2>4. Cache!GiveUp(wire.sec)
    BY <1>1, <1>2, <2>2, <2>3 DEF Cache!GiveUp
  <2> QED
    BY <2>1, <2>4
<1> QED
  BY <1>1, <1>3, <1>4, <1>5

\* The types of what the cache is made of.
CacheType ==
    /\ unitData \in [Sections -> Data] /\ Cached \in [Sections -> Data] /\ faults \in Nat
    /\ Dirty \subseteq Sections /\ Stale \subseteq Sections /\ clashed \in BOOLEAN

LEMMA CacheTypes == TypeOK => CacheType
<1> SUFFICES ASSUME TypeOK PROVE CacheType
  OBVIOUS
<1>1. unitData \in [Sections -> Data] /\ gRDEeprom \in [Sections -> Data] /\ faults \in Nat
  BY TypeParts, Constants DEF UnitType, ImageType
<1>2. clashed \in BOOLEAN
  BY TypeParts DEF WordType
<1> QED BY <1>1, <1>2, Constants DEF CacheType, Cached, Dirty, Stale

LEMMA NextInTurn ==
    ASSUME TypeOK, PhaseInv, CalmInv, [Next]_vars, ~clashed'
    PROVE  Cache!InTurn \/ UNCHANGED Cache!contents
<1>1. CalmParts
  BY CalmBefore
<1>2. ASSUME NEW k \in {"poll", "debug"}, Ask(k) PROVE Cache!Notice
  <2>1. wire' = wire \/ (wire = None /\ wire' = [kind |-> k])
    BY <1>2, TypeParts DEF Ask, LineType
  <2>2. wire' = wire \/ (wire = None /\ wire'.kind \in {"poll", "debug"})
    BY <2>1
  <2> QED
    BY <1>2, <2>2, MapAsk DEF Ask
<1>3. CASE NoTimer \/ NoMessage \/ DispatchIdle
  <2>1. Cache!Notice
    BY <1>3, MapAsk DEF NoTimer, NoMessage, DispatchIdle, line
  <2> QED
    BY <2>1 DEF Cache!InTurn
<1>4. CASE Unit_event_task
  <2>1. ASSUME ReadEepromParse PROVE Cache!InTurn
    BY <1>1, <2>1, MapRead DEF Cache!InTurn
  <2>2. CASE ~ReadEepromParse
    <3>1. Cache!Notice \/ Cache!InTurn
      BY <1>1, <1>2, <1>3, <1>4, <2>2, MapParse, MapMerge, MapClear, MapDispatch, MapAsk
      DEF Unit_event_task, NoTimer, NoMessage, DispatchIdle, line
    <3> QED
      BY <3>1 DEF Cache!InTurn
  <2> QED
    BY <2>1, <2>2
<1>5. ASSUME NEW a \in Apps, AppSteps(a) PROVE Cache!InTurn \/ UNCHANGED Cache!contents
  BY <1>1, <1>5, CalmBefore, MapErases, MapCopies, MapBits DEF AppSteps, Cache!InTurn
<1>6. CASE Environment
  <2>1. ASSUME NEW s \in Counted, UnitChanges(s) PROVE Cache!InTurn
    BY <2>1, CalmBefore, MapChanges, Constants DEF Cache!InTurn
  <2> QED
    BY <1>1, <1>6, <2>1, MapAnswers, MapFault DEF Environment, Cache!InTurn
<1>7. CASE UNCHANGED vars
  <2>1. UNCHANGED <<unitData, faults, Cached, Dirty, Stale>>
    BY <1>7 DEF vars, word, request, image, loop, apps, unit, line, Cached, Erased, Dirty, ToBeWritten, Left,
       Stale, ToBeRead
  <2> QED
    BY <2>1 DEF Cache!contents
<1> QED
  BY <1>4, <1>5, <1>6, <1>7 DEF Next

LEMMA NextMap ==
    ASSUME TypeOK, TypeOK', PhaseInv, CalmInv, [Next]_vars
    PROVE  [Cache!Next]_(Cache!vars)
<1>0. CacheType'
  BY CacheTypes, PTL
<1>1. clashed' \in BOOLEAN
  BY <1>0 DEF CacheType
<1>2. CASE clashed' = TRUE
  BY <1>0, <1>2 DEF CacheType, Cache!Next, Cache!Disturbed
<1>3. CASE clashed' = FALSE
  <2>1. clashed => AtRest
    BY <1>3, CalmBefore
  <2>2. clashed => Cache!AtRest /\ Cached = unitData
    BY <2>1, RestIsClean DEF Cache!AtRest
  <2> QED
    BY <1>3, <2>2, NextInTurn DEF Cache!Next, Cache!Undisturbed
<1> QED BY <1>1, <1>2, <1>3

\* However writes and changes overlap and the updates of the request word are interleaved,
\* from a write or a change that begins at rest until the next clash the image, the counters
\* and the request bits together are a write-back cache of the unit's memory: every section
\* an app saved is written, with what it saved, or given up with a counted loss, and is not
\* read from the unit before; every change is known until the section is read
\* (unit_comm.c:837-938).
THEOREM CachesTheUnit == Spec => WritesBack
<1>1. Init => Cache!Init
  BY InitMap
<1>2. TypeOK /\ TypeOK' /\ PhaseInv /\ CalmInv /\ [Next]_vars => [Cache!Next]_(Cache!vars)
  BY NextMap
<1> QED
  BY <1>1, <1>2, InitCalm, NextCalm, TypeCorrect, PhaseAlways, PTL DEF Spec, WritesBack, Cache!Spec

\* A write-back cache stays coherent while nothing clashes and nothing is lost.
Kept == faults = 0 => \A p \in Sections \ Dirty : Cached[p] # unitData[p] => p \in Stale

CacheInv ==
    /\ unitData \in [Sections -> Data] /\ Cached \in [Sections -> Data] /\ faults \in Nat
    /\ clashed \in BOOLEAN /\ (~clashed => Kept)

LEMMA KeptInTurn ==
    ASSUME CacheInv, Kept, Cache!InTurn \/ UNCHANGED Cache!contents
    PROVE  Kept' /\ unitData' \in [Sections -> Data] /\ Cached' \in [Sections -> Data] /\ faults' \in Nat
<1> DEFINE Goal == Kept' /\ unitData' \in [Sections -> Data] /\ Cached' \in [Sections -> Data] /\ faults' \in Nat
<1> USE DEF CacheInv, Kept
<1>1. ASSUME NEW p \in Sections, Cache!Change(p) PROVE Goal
  BY <1>1 DEF Cache!Change, Cache!AtRest
<1>2. ASSUME NEW p \in Sections, Cache!Flush(p) PROVE Goal
  BY <1>2 DEF Cache!Flush, Cache!Noticed
<1>3. ASSUME NEW p \in Sections, Cache!Fetch(p) PROVE Goal
  BY <1>3 DEF Cache!Fetch
<1>4. ASSUME NEW p \in Sections, Cache!GiveUp(p) PROVE Goal
  BY <1>4 DEF Cache!GiveUp
<1>5. ASSUME Cache!Save PROVE Goal
  BY <1>5 DEF Cache!Save, Cache!AtRest
<1>6. ASSUME Cache!Notice PROVE Goal
  BY <1>6 DEF Cache!Notice, Cache!Noticed
<1>7. ASSUME Cache!LoseOther PROVE Goal
  BY <1>7 DEF Cache!LoseOther
<1>8. ASSUME UNCHANGED Cache!contents PROVE Goal
  BY <1>8 DEF Cache!contents
<1> HIDE DEF Goal, CacheInv, Kept
<1>9. Goal
  BY <1>1, <1>2, <1>3, <1>4, <1>5, <1>6, <1>7, <1>8 DEF Cache!InTurn
<1> QED BY <1>9 DEF Goal

LEMMA NextCoherent == CacheInv /\ [Cache!Next]_(Cache!vars) => CacheInv'
<1> SUFFICES ASSUME CacheInv, [Cache!Next]_(Cache!vars) PROVE CacheInv'
  OBVIOUS
<1>1. CASE Cache!Undisturbed
  <2>1. Kept
    BY <1>1 DEF Cache!Undisturbed, CacheInv, Kept
  <2>2. clashed' = FALSE /\ (Cache!InTurn \/ UNCHANGED Cache!contents)
    BY <1>1 DEF Cache!Undisturbed
  <2> QED BY <2>1, <2>2, KeptInTurn DEF CacheInv
<1>2. CASE Cache!Disturbed
  BY <1>2 DEF Cache!Disturbed, CacheInv
<1>3. CASE UNCHANGED Cache!vars
  BY <1>3 DEF Cache!vars, Cache!contents, CacheInv, Kept
<1> QED
  BY <1>1, <1>2, <1>3 DEF Cache!Next

\* Through the refinement: from a write or a change that begins at rest until the next
\* clash a section that is neither to be written nor known to need reading is the unit's,
\* until something is lost.
THEOREM StaysCoherent == Spec => []Cache!Coherent
<1>1. Cache!Init => CacheInv
  <2> SUFFICES ASSUME Cache!Init PROVE CacheInv
    OBVIOUS
  <2>1. clashed \in BOOLEAN /\ ~clashed /\ faults \in Nat
    BY DEF Cache!Init
  <2>2. Kept
    BY <2>1 DEF Cache!Init, Cache!Coherent, Kept
  <2> QED BY <2>1, <2>2 DEF Cache!Init, CacheInv
<1>2. WritesBack => []Cache!Coherent
  <2>1. CacheInv => Cache!Coherent
    BY DEF CacheInv, Kept, Cache!Coherent
  <2> QED
    BY <1>1, <2>1, NextCoherent, PTL DEF WritesBack, Cache!Spec
<1> QED
  BY <1>2, CachesTheUnit, PTL

-----------------------------------------------------------------------------
(* Blank bytes *)

Copying == {a \in Apps : app[a].at = "copy"}

\* No write is asked for before an image was written.
Unasked ==
    writes = 0 => /\ Read_Eeprom_Request_Index \cup marks \subseteq Reads
                  /\ \A t \in Tasks : loaded[t] \subseteq Reads
                  /\ wire.kind # "write"

\* Nothing that the unit holds, gets or sends is blank, ...
Unblanked ==
    /\ \A s \in Sections : unitData[s] # Blank
    /\ wire.kind = "write" => wire.data # Blank
    /\ inbox.kind = "read" => inbox.data # Blank

\* ... nor is any section of the image but those in U.
Filled(U) == \A s \in Sections \ U : gRDEeprom[s] # Blank

BlankInv(U) ==
    /\ IsFiniteSet(Copying) /\ Unasked
    /\ Started <= 1 => Unblanked /\ (Copying = {} => Filled(U))

\* What BlankInv needs of the types, during the handshake as well.
BlankTypes ==
    /\ WordType /\ AppType
    /\ gRDEeprom \in [Sections -> Data] /\ unitData \in [Sections -> Data]
    /\ wire.kind \in {"read", "write"} => wire.sec \in Sections
    /\ inbox.kind = "read" => inbox.sec \in Sections
    /\ \A a \in Apps : app[a].at = "bits" => writes > 0

LEMMA BlankTypesUp == TypeOK /\ PhaseInv => BlankTypes
BY TypeParts, Contents, Constants DEF BlankTypes, ImageType, UnitType, LineType, PhaseInv

\* Writes begun are counted, and there is none exactly if no app copies and none has.
LEMMA StartedFacts ==
    ASSUME IsFiniteSet(Copying), writes \in Nat
    PROVE  /\ Started \in Nat /\ Cardinality(Copying) \in Nat
           /\ Started = writes + Cardinality(Copying)
           /\ Cardinality(Copying) = 0 <=> Copying = {}
BY FS_CardinalityType, FS_EmptySet DEF Started, Copying

\* A step of the task, the unit or the line starts no write.
LEMMA BlankKept ==
    ASSUME NEW U, BlankInv(U), UNCHANGED apps, Unasked',
           Started <= 1 /\ Unblanked => Unblanked',
           Unblanked /\ Filled(U) => Filled(U)'
    PROVE  BlankInv(U)'
<1>1. Copying' = Copying /\ Started' = Started
  BY DEF Copying, Started, apps
<1> QED
  BY <1>1 DEF BlankInv

\* Reading bits only are loaded, set and cleared until then.
LEMMA UnaskedLoad ==
    ASSUME BlankTypes, Unasked, NEW t \in Tasks, Load(t), UNCHANGED writes,
           wire'.kind # "write" \/ UNCHANGED wire, marks' \subseteq marks
    PROVE  Unasked'
BY DEF BlankTypes, WordType, Unasked, Load

LEMMA UnaskedStore ==
    ASSUME BlankTypes, Unasked, NEW t \in Tasks, NEW b, Store(t, b), UNCHANGED writes,
           writes = 0 => b \subseteq Reads,
           wire'.kind # "write" \/ UNCHANGED wire, marks' \subseteq marks
    PROVE  Unasked'
BY DEF BlankTypes, WordType, Unasked, Store

\* Erasing begins a write, and filling the image ends the time when it is blank.
LEMMA AppBlank ==
    ASSUME BlankTypes, NEW U, BlankInv(U), NEW a \in Apps, AppSteps(a) PROVE BlankInv(U)'
<1> USE DEF word, request, image, loop, apps, unit, line
<1>1. writes \in Nat /\ IsFiniteSet(Copying) /\ a \in Tasks
  BY DEF BlankTypes, AppType, BlankInv, Tasks
<1>2. CASE AppErases(a)
  <2>1. a \notin Copying /\ Copying' = Copying \cup {a} /\ UNCHANGED <<request, marks, writes, wire>>
    BY <1>2 DEF AppErases, Copying, BlankTypes, AppType
  <2>2. IsFiniteSet(Copying') /\ Cardinality(Copying') = Cardinality(Copying) + 1
    BY <1>1, <2>1, FS_AddElement
  <2>3. Started' = Started + 1 /\ Started \in Nat
    BY <1>1, <2>1, <2>2, StartedFacts DEF Started, Copying
  <2>4. Unasked'
    BY <2>1 DEF BlankInv, Unasked
  <2>5. Unblanked => Unblanked'
    BY <1>2 DEF AppErases, Unblanked
  <2> QED
    BY <2>1, <2>2, <2>3, <2>4, <2>5 DEF BlankInv
<1>3. CASE AppCopies(a)
  <2>1. a \in Copying /\ Copying' = Copying \ {a} /\ writes' = writes + 1
        /\ gRDEeprom' = [s \in Sections |-> ByApp(writes')]
    BY <1>3 DEF AppCopies, Copying, BlankTypes, AppType
  <2>2. IsFiniteSet(Copying') /\ Cardinality(Copying') = Cardinality(Copying) - 1
    BY <1>1, <2>1, FS_RemoveElement
  <2>3. Started' = Started
    BY <1>1, <2>1, <2>2, StartedFacts DEF Started, Copying
  <2>4. Unasked'
    BY <1>1, <2>1 DEF Unasked
  <2>5. Unblanked => Unblanked'
    BY <1>3 DEF AppCopies, Unblanked
  <2>6. Filled(U)'
    BY <2>1 DEF Filled, ByApp, Blank
  <2> QED
    BY <2>2, <2>3, <2>4, <2>5, <2>6 DEF BlankInv
<1>4. CASE AppLoads(a) \/ AppStores(a)
  <2>1. Copying' = Copying /\ UNCHANGED <<writes, image, unit, line>>
    <3>1. UNCHANGED <<writes, image, unit, line>> /\ app[a].at = "bits"
      BY <1>4 DEF AppLoads, AppStores
    <3>2. /\ app'[a].at \in {"idle", "bits"}
          /\ \A o \in Apps : o # a => app'[o] = app[o]
      <4>1. CASE AppLoads(a)
        BY <3>1, <4>1 DEF AppLoads
      <4>2. CASE AppStores(a)
        <5>1. PICK g \in SUBSET app[a].left :
                 app' = [app EXCEPT ![a] =
                           [at |-> IF app[a].left \ g = {} THEN "idle" ELSE "bits",
                            left |-> app[a].left \ g]]
          BY <4>2 DEF AppStores
        <5> QED
          BY <5>1 DEF BlankTypes, AppType
      <4> QED
        BY <1>4, <4>1, <4>2
    <3> QED
      BY <3>1, <3>2 DEF Copying
  <2>2. Started' = Started
    BY <2>1 DEF Started, Copying
  <2>3. writes' # 0
    BY <1>4, <2>1 DEF AppLoads, AppStores, BlankTypes, AppType
  <2>4. Unblanked = Unblanked' /\ Filled(U) = Filled(U)'
    BY <2>1 DEF Unblanked, Filled
  <2> QED
    BY <2>1, <2>2, <2>3, <2>4 DEF BlankInv, Unasked
<1> QED
  BY <1>2, <1>3, <1>4 DEF AppSteps

\* The task sends what the image holds, and of a section that is to be written
\* that is what one app has put there.
LEMMA TaskBlank ==
    ASSUME BlankTypes, NEW U, BlankInv(U), U = {} \/ pc = "connecting", Unit_event_task
    PROVE  BlankInv(U)'
<1> USE DEF word, request, image, loop, apps, unit, line
<1>1. writes \in Nat /\ Unasked
  BY DEF BlankTypes, AppType, BlankInv
<1>2. ASSUME NEW k \in {"poll", "debug"}, Ask(k) PROVE BlankInv(U)'
  <2>1. wire' = wire \/ wire' = [kind |-> k]
    BY <1>2 DEF Ask
  <2>2. wire' = wire \/ wire'.kind # "write"
    BY <2>1
  <2>3. Unasked'
    BY <1>1, <1>2, <2>2 DEF Ask, Unasked
  <2>4. Unblanked => Unblanked'
    BY <1>2, <2>2 DEF Ask, Unblanked
  <2> QED
    BY <1>2, <2>3, <2>4, BlankKept DEF Ask, Filled
<1>3. CASE NoTimer \/ NoMessage \/ DispatchIdle
  BY <1>1, <1>3, BlankKept DEF NoTimer, NoMessage, DispatchIdle, Unasked, Unblanked, Filled
<1>4. CASE PollingBaseParse \/ WriteEepromParse \/ OtherParse
  <2>1. /\ inbox' = None /\ marks' \subseteq marks \cup Reads
        /\ UNCHANGED <<word, gRDEeprom, apps, unit, wire>>
    BY <1>4, MarkReads DEF PollingBaseParse, WriteEepromParse, OtherParse, Answered
  <2>2. Unasked'
    BY <1>1, <2>1 DEF Unasked
  <2>3. Unblanked => Unblanked'
    BY <2>1, Contents DEF Unblanked
  <2> QED
    BY <2>1, <2>2, <2>3, BlankKept DEF Filled
<1>5. CASE ReadEepromParse
  <2>1. /\ inbox' = None /\ inbox.kind = "read" /\ inbox.sec \in Sections
        /\ gRDEeprom' = [gRDEeprom EXCEPT ![inbox.sec] = inbox.data]
        /\ UNCHANGED <<word, marks, apps, unit, wire>>
    BY <1>5 DEF ReadEepromParse, Answered, BlankTypes
  <2>2. Unasked'
    BY <1>1, <2>1 DEF Unasked
  <2>3. Unblanked => Unblanked'
    BY <2>1, Contents DEF Unblanked
  <2>4. Unblanked /\ Filled(U) => Filled(U)'
    BY <2>1 DEF Unblanked, Filled, BlankTypes
  <2> QED
    BY <2>1, <2>2, <2>3, <2>4, BlankKept
<1>6. CASE Merge
  <2>1. UNCHANGED <<image, apps, unit, line>> /\ marks' \subseteq marks
    BY <1>6 DEF Merge
  <2>2. Unasked'
    <3>1. CASE UNCHANGED <<word, marks>>
      BY <1>1, <2>1, <3>1 DEF Unasked
    <3>2. CASE Load("task")
      BY <1>1, <2>1, <3>2, UnaskedLoad DEF Tasks
    <3>3. ASSUME NEW m \in marks, Store("task", loaded["task"] \cup {m}) PROVE Unasked'
      <4>1. writes = 0 => loaded["task"] \cup {m} \subseteq Reads
        BY <1>1 DEF Unasked, Tasks
      <4> QED
        BY <1>1, <2>1, <3>3, <4>1, UnaskedStore DEF Tasks
    <3> QED
      BY <1>6, <3>1, <3>2, <3>3 DEF Merge
  <2> QED
    BY <2>1, <2>2, BlankKept DEF Unblanked, Filled
<1>7. CASE Clear
  <2>1. UNCHANGED <<image, apps, unit, line>> /\ marks' \subseteq marks
    BY <1>7 DEF Clear
  <2>2. writes = 0 => Cleared(loaded["task"]) \subseteq Reads
    BY <1>1 DEF Unasked, Cleared, Tasks
  <2>3. Unasked'
    <3>1. CASE Load("task")
      BY <1>1, <2>1, <3>1, UnaskedLoad DEF Tasks
    <3>2. CASE Store("task", Cleared(loaded["task"]))
      BY <1>1, <2>1, <2>2, <3>2, UnaskedStore DEF Tasks
    <3> QED
      BY <1>7, <3>1, <3>2 DEF Clear
  <2> QED
    BY <2>1, <2>3, BlankKept DEF Unblanked, Filled
<1>8. CASE Dispatch
  <2>1. UNCHANGED <<word, image, apps, unit, inbox>> /\ U = {}
    BY <1>8 DEF Dispatch
  <2>2. PICK b \in Read_Eeprom_Request_Index : SendSection(b) /\ marks' = {b}
    BY <1>8 DEF Dispatch
  <2>3. b.sec \in Sections
    BY BitShape DEF BlankTypes, WordType
  <2>4. CASE b.op = "read"
    <3>1. wire'.kind = "read"
      BY <2>2, <2>4 DEF SendSection
    <3>2. Unasked'
      BY <1>1, <2>1, <2>2, <3>1 DEF Unasked
    <3>3. Unblanked => Unblanked'
      BY <2>1, <3>1 DEF Unblanked
    <3> QED
      BY <2>1, <3>2, <3>3, BlankKept DEF Filled
  <2>5. CASE b.op # "read"
    <3>1. writes # 0
      BY <1>1, <2>2, <2>5 DEF Unasked, Reads, Read
    <3>2. Unasked'
      BY <2>1, <3>1 DEF Unasked
    <3>3. wire'.kind = "write" /\ wire'.data = gRDEeprom[b.sec]
      BY <2>2, <2>5 DEF SendSection
    <3>4. Started <= 1 => Copying = {}
      BY <1>1, <3>1, StartedFacts DEF BlankInv
    <3>5. Started <= 1 /\ Unblanked => Unblanked'
      BY <2>1, <2>3, <3>3, <3>4 DEF BlankInv, Filled, Unblanked
    <3> QED
      BY <2>1, <3>2, <3>5, BlankKept DEF Filled
  <2> QED
    BY <2>4, <2>5
<1> QED
  BY <1>2, <1>3, <1>4, <1>5, <1>6, <1>7, <1>8 DEF Unit_event_task

\* The unit gets to hold what it was sent, and sends what it holds.
LEMMA UnitBlank ==
    ASSUME BlankTypes, NEW U, BlankInv(U), Environment PROVE BlankInv(U)'
<1> USE DEF word, request, image, loop, apps, unit, line
<1>1. /\ UNCHANGED <<request, image, loop, apps>>
      /\ wire' \in {wire, None}
  BY DEF Environment, UnitChanges, UnitAnswers, UnitRefuses, LineFault
<1>2. wire'.kind \in {wire.kind, "none"}
  BY <1>1, Contents
<1>3. Unasked'
  BY <1>1, <1>2 DEF BlankInv, Unasked
<1>4. ASSUME Unblanked PROVE Unblanked'
  <2>1. ASSUME NEW c \in Counted, UnitChanges(c) PROVE Unblanked'
    <3>1. unitData' = [unitData EXCEPT ![c] = ByUnit(changes')] /\ UNCHANGED line
      BY <2>1 DEF UnitChanges
    <3>2. ByUnit(changes') # Blank
      BY DEF ByUnit, Blank
    <3>3. \A s \in Sections : unitData'[s] # Blank
      BY <1>4, <3>1, <3>2 DEF Unblanked, BlankTypes
    <3> QED
      BY <1>4, <3>1, <3>3 DEF Unblanked
  <2>2. CASE UnitAnswers
    <3>1. wire'.kind = "none"
      BY <2>2, Contents DEF UnitAnswers
    <3>2. CASE wire.kind = "read"
      BY <1>4, <2>2, <3>1, <3>2 DEF UnitAnswers, Unblanked, BlankTypes
    <3>3. CASE wire.kind = "write"
      BY <1>4, <2>2, <3>1, <3>3 DEF UnitAnswers, Unblanked, BlankTypes
    <3>4. CASE wire.kind \in {"poll", "debug"}
      BY <1>4, <2>2, <3>1, <3>4 DEF UnitAnswers, Unblanked
    <3> QED
      BY <2>2, <3>2, <3>3, <3>4 DEF UnitAnswers
  <2>3. CASE UnitRefuses \/ LineFault
    <3>1. wire'.kind = "none" /\ inbox'.kind # "read" /\ UNCHANGED unit
      BY <2>3, Contents DEF UnitRefuses, LineFault
    <3> QED
      BY <1>4, <3>1 DEF Unblanked
  <2> QED
    BY <2>1, <2>2, <2>3 DEF Environment
<1> QED
  BY <1>1, <1>3, <1>4, BlankKept DEF Filled

LEMMA NextBlank ==
    ASSUME BlankTypes, NEW U, BlankInv(U), U = {} \/ pc = "connecting", [Next]_vars
    PROVE  BlankInv(U)'
<1>1. CASE UNCHANGED vars
  <2>1. UNCHANGED <<word, image, loop, apps, unit, line>>
    BY <1>1 DEF vars
  <2>2. Unasked' /\ (Unblanked => Unblanked') /\ (Filled(U) => Filled(U)')
    BY <2>1 DEF BlankInv, Unasked, Unblanked, Filled, word, request, image, loop, apps, unit, line
  <2> QED
    BY <2>1, <2>2, BlankKept
<1> QED
  BY <1>1, TaskBlank, AppBlank, UnitBlank DEF Next

LEMMA InitBlank == Init => BlankInv({})
<1> SUFFICES ASSUME Init PROVE BlankInv({})
  OBVIOUS
<1>1. Copying = {}
  BY DEF Init, Copying
<1>2. Unasked
  BY DEF Init, Unasked, Reads, None
<1>3. Unblanked /\ Filled({})
  BY DEF Init, Unblanked, Filled, ByUnit, Blank, None
<1> QED
  BY <1>1, <1>2, <1>3, FS_EmptySet DEF BlankInv

\* The unit never gets a blank byte of an image that an app is about to fill, as long
\* as there is only one write: its bits are set after it has filled the image, and
\* before that no write is asked for (ble.c:180-187, mqtt_app.c:118-128).
THEOREM NeverBlanked == Spec => []NotBlanked
<1>1. BlankInv({}) => NotBlanked
  BY DEF BlankInv, Unblanked, NotBlanked
<1>2. TypeOK /\ PhaseInv /\ BlankInv({}) /\ [Next]_vars => BlankInv({})'
  BY BlankTypesUp, NextBlank
<1> QED
  BY <1>1, <1>2, InitBlank, TypeCorrect, PhaseAlways, PTL DEF Spec

-----------------------------------------------------------------------------
(* The image as the handshake makes it (EepromStart) *)

\* Until the link is up the unit task neither polls nor dispatches, ...
ConnType ==
    /\ WordType /\ ImageType /\ AppType /\ UnitType
    /\ pc = "connecting" /\ marks \subseteq Reads
    /\ Eeprom_Data_received = FALSE /\ wire = None

\* ... what it is answered is what the state of the handshake asked for, ...
ConnLine ==
    \/ inbox = None
    \/ /\ currentState = "ReadEeprom"
       /\ inbox \in [kind : {"read"}, sec : toRead, data : Data, cnt : Cnt]
    \/ /\ currentState = "PollingBase"
       /\ inbox \in [kind : {"poll"}, cnts : [Counted -> Cnt]]

\* ... and a section that was read, or whose answer is there, is as the unit holds it
\* or its counter tells, which is no further ahead than the changes made.
ConnQuiet ==
    NoWrite =>
        /\ Alone
        /\ \A s \in Counted \ toRead :
              /\ Dist(cntUpdate[s], unitCnt[s]) <= changes
              /\ gRDEeprom[s] # unitData[s] => unitCnt[s] # cntUpdate[s]
        /\ inbox.kind = "read" /\ inbox.sec \in Counted =>
              /\ Dist(inbox.cnt, unitCnt[inbox.sec]) <= changes
              /\ inbox.data # unitData[inbox.sec] => unitCnt[inbox.sec] # inbox.cnt

ConnInv ==
    /\ ConnType /\ ConnLine /\ ConnQuiet /\ PhaseInv
    /\ currentState # "Connected" => marks = {}
    /\ currentState \in {"PollingBase", "Connected"} => toRead = {}

\* When the link is up, all that EepromSync keeps from its own initial states holds.
UpInv == toRead = {} /\ TypeOK /\ PhaseInv /\ QuietInv /\ KnownInv

StartInv ==
    /\ currentState \in {"ReadEeprom", "PollingBase", "Connected", "up", "down"}
    /\ toRead \subseteq Sections
    /\ currentState = "up" => UpInv
    /\ currentState # "up" => ConnInv
    /\ BlankInv(toRead)

\* What the handshake is answered.
LEMMA ConnAnswers ==
    ASSUME ConnLine, toRead \subseteq Sections
    PROVE  /\ inbox.kind \in {"none", "read", "poll"}
           /\ inbox.kind = "read" => /\ currentState = "ReadEeprom"
                                     /\ inbox.sec \in toRead /\ inbox.sec \in Sections
                                     /\ inbox.data \in Data /\ inbox.cnt \in Cnt
           /\ inbox.kind = "poll" => currentState = "PollingBase"
           /\ inbox.kind = "none" => inbox = None
BY DEF ConnLine, None

LEMMA BlankTypesConn == ConnInv /\ toRead \subseteq Sections => BlankTypes
<1> SUFFICES ASSUME ConnInv, toRead \subseteq Sections PROVE BlankTypes
  OBVIOUS
<1>1. inbox.kind = "read" => inbox.sec \in Sections
  BY ConnAnswers DEF ConnInv
<1>2. wire.kind = "none"
  BY Contents DEF ConnInv, ConnType
<1> QED
  BY <1>1, <1>2, Constants DEF BlankTypes, ConnInv, ConnType, ImageType, UnitType, PhaseInv, AppType

\* The handshake's own steps fill the sections one by one.
LEMMA ToReadBlank ==
    ASSUME BlankInv(toRead), UNCHANGED apps, Unasked',
           Started <= 1 /\ Unblanked => Unblanked',
           Unblanked /\ Filled(toRead) => Filled(toRead)'
    PROVE  BlankInv(toRead)'
<1>1. Copying' = Copying /\ Started' = Started
  BY DEF Copying, Started, apps
<1> QED
  BY <1>1 DEF BlankInv

\* The initial states of the handshake.
LEMMA InitStartInv == InitStart => StartInv
<1> SUFFICES ASSUME InitStart PROVE StartInv
  OBVIOUS
<1> USE DEF InitStart
<1>0. clashed \in BOOLEAN
  OBVIOUS
<1>1. WordType /\ ImageType /\ AppType /\ UnitType
  BY <1>0, Made, Constants DEF WordType, ImageType, AppType, UnitType
<1>2. ConnInv
  BY <1>1, Constants DEF ConnInv, ConnType, ConnLine, ConnQuiet, PhaseInv, Alone, None
<1>3. BlankInv(toRead)
  <2>1. Copying = {}
    BY DEF Copying
  <2>2. Unasked /\ Unblanked
    BY DEF Unasked, Unblanked, Reads, ByUnit, Blank, None
  <2>3. Filled(toRead)
    BY DEF Filled
  <2> QED
    BY <2>1, <2>2, <2>3, FS_EmptySet DEF BlankInv
<1> QED
  BY <1>2, <1>3 DEF StartInv

\* A change of the unit while the link is not up: the counter of a section that was read
\* is then a different one.
LEMMA ConnChanges ==
    ASSUME StartInv, currentState # "up", NEW c \in Counted, UnitChanges(c), UNCHANGED handshake
    PROVE  ConnInv'
<1> USE DEF word, request, image, loop, apps, unit, line, handshake
<1>1. ConnInv /\ ConnType /\ toRead \subseteq Sections /\ ConnLine
  BY DEF StartInv, ConnInv
<1>2. UNCHANGED <<request, image, loop, apps, line, handshake>>
  BY DEF UnitChanges
<1>3. ConnType'
  <2>1. WordType' /\ ImageType' /\ AppType' /\ UnitType'
    BY <1>1, ChangeTypes DEF ConnType
  <2> QED
    BY <1>1, <1>2, <2>1 DEF ConnType
<1>4. ConnLine' /\ PhaseInv'
  BY <1>1, <1>2 DEF ConnInv, ConnLine, PhaseInv
<1>5. changes' = changes + 1 /\ changes < MaxChanges /\ changes \in 0..MaxChanges
  BY <1>1 DEF UnitChanges, ConnType, UnitType
<1>6. /\ \A s \in Counted : unitCnt[s] \in Cnt
      /\ unitCnt'[c] = NextCnt(unitCnt[c])
      /\ \A s \in Counted : s # c => unitCnt'[s] = unitCnt[s] /\ unitData'[s] = unitData[s]
  BY <1>1, Constants DEF UnitChanges, ConnType, UnitType
<1>7. ASSUME NEW a \in Cnt, NEW s \in Counted, Dist(a, unitCnt[s]) <= changes
      PROVE  Dist(a, unitCnt'[s]) <= changes' /\ (s = c => unitCnt'[s] # a)
  <2>1. Dist(a, unitCnt[s]) \in Int
    BY <1>6, Constants DEF Dist, Cnt
  <2>2. CASE s = c
    BY <1>5, <1>6, <1>7, <2>2, DistFacts
  <2>3. CASE s # c
    BY <1>5, <1>6, <1>7, <2>1, <2>3, Constants
  <2> QED
    BY <2>2, <2>3
<1>8. ASSUME NoWrite' PROVE ConnQuiet'
  <2>1. NoWrite /\ ConnQuiet
    BY <1>1, <1>2, <1>8 DEF NoWrite, Idle, ConnInv
  <2>2. Alone'
    BY <1>2, <2>1 DEF ConnQuiet, Alone
  <2>3. ASSUME NEW s \in Counted \ toRead
        PROVE  /\ Dist(cntUpdate[s], unitCnt'[s]) <= changes'
               /\ gRDEeprom[s] # unitData'[s] => unitCnt'[s] # cntUpdate[s]
    <3>1. /\ cntUpdate[s] \in Cnt /\ Dist(cntUpdate[s], unitCnt[s]) <= changes
          /\ gRDEeprom[s] # unitData[s] => unitCnt[s] # cntUpdate[s]
      BY <1>1, <2>1 DEF ConnQuiet, ConnType, ImageType
    <3> QED
      BY <1>6, <1>7, <3>1
  <2>4. ASSUME inbox.kind = "read", inbox.sec \in Counted
        PROVE  /\ Dist(inbox.cnt, unitCnt'[inbox.sec]) <= changes'
               /\ inbox.data # unitData'[inbox.sec] => unitCnt'[inbox.sec] # inbox.cnt
    <3>1. /\ inbox.cnt \in Cnt /\ Dist(inbox.cnt, unitCnt[inbox.sec]) <= changes
          /\ inbox.data # unitData[inbox.sec] => unitCnt[inbox.sec] # inbox.cnt
      BY <1>1, <2>1, <2>4, ConnAnswers DEF ConnQuiet
    <3> QED
      BY <1>6, <1>7, <2>4, <3>1
  <2> QED
    BY <1>2, <2>2, <2>3, <2>4 DEF ConnQuiet
<1> QED
  BY <1>1, <1>2, <1>3, <1>4, <1>8 DEF ConnInv, ConnQuiet

\* A step of the app, of the unit or of the line while the link is not up.
LEMMA ConnNext ==
    ASSUME StartInv, currentState # "up", Next, UNCHANGED handshake PROVE ConnInv'
<1> USE DEF word, request, image, loop, apps, unit, line, handshake
<1>1. ConnInv /\ ConnType /\ ConnLine /\ PhaseInv
  BY DEF StartInv, ConnInv
<1>2. ~Unit_event_task
  BY <1>1 DEF ConnType, Unit_event_task, Ask, NoTimer, NoMessage, PollingBaseParse, ReadEepromParse,
     WriteEepromParse, OtherParse, Answered, Merge, DispatchIdle, Dispatch, Clear
<1>3. ASSUME NEW a \in Apps, AppSteps(a) PROVE ConnInv'
  <2>1. WordType' /\ ImageType' /\ AppType' /\ UnitType' /\ UNCHANGED <<loop, line>>
    BY <1>1, <1>3, AppTypes DEF ConnType
  <2>2. PhaseInv'
    BY <1>1, <1>3, NextPhase DEF ConnType, Next
  <2>3. ConnQuiet'
    BY <1>1, <1>3, AppsSpeakUp DEF ConnType, ConnQuiet
  <2>4. ConnType' /\ ConnLine'
    BY <1>1, <2>1 DEF ConnType, ConnLine
  <2> QED
    BY <1>1, <2>1, <2>2, <2>3, <2>4 DEF ConnInv
<1>4. ~(UnitAnswers \/ UnitRefuses \/ LineFault)
  BY <1>1, Contents DEF ConnType, UnitAnswers, UnitRefuses, LineFault
<1> QED
  BY <1>2, <1>3, <1>4, ConnChanges DEF Next, Environment

\* The handshake's own steps.
LEMMA ConnAnswer == ASSUME StartInv, HandshakeAnswer PROVE ConnInv'
<1> USE DEF word, request, image, loop, apps, unit, line, handshake
<1>1. ConnInv /\ ConnType /\ toRead \subseteq Sections /\ currentState # "up"
  <2>1. currentState # "up"
    BY DEF HandshakeAnswer, Asked
  <2> QED
    BY <2>1 DEF StartInv, ConnInv
<1>2. UNCHANGED <<word, image, loop, apps, unit, wire, faults, handshake>>
  BY DEF HandshakeAnswer
<1>3. unitData \in [Sections -> Data] /\ unitCnt \in [Counted -> Cnt] /\ changes \in 0..MaxChanges
  BY <1>1 DEF ConnType, UnitType
<1>4. CASE inbox' = [kind |-> "poll", cnts |-> unitCnt] /\ currentState = "PollingBase"
  <2>1. ConnLine'
    BY <1>2, <1>3, <1>4 DEF ConnLine
  <2>2. ConnQuiet'
    BY <1>1, <1>2, <1>4 DEF ConnInv, ConnQuiet, Alone, NoWrite, Idle
  <2> QED
    BY <1>1, <1>2, <2>1, <2>2 DEF ConnInv, ConnType, WordType, ImageType, AppType, UnitType, PhaseInv
<1>5. ASSUME NEW s \in toRead, currentState = "ReadEeprom",
             inbox' = [kind |-> "read", sec |-> s, data |-> unitData[s],
                       cnt |-> IF s \in Counted THEN unitCnt[s] ELSE 0]
      PROVE  ConnInv'
  <2>1. unitData[s] \in Data /\ (IF s \in Counted THEN unitCnt[s] ELSE 0) \in Cnt
    BY <1>1, <1>3, Made
  <2>2. ConnLine'
    BY <1>2, <1>5, <2>1 DEF ConnLine
  <2>3. s \in Counted => Dist(unitCnt[s], unitCnt[s]) <= changes
    BY <1>3, DistFacts
  <2>4. ConnQuiet'
    BY <1>1, <1>2, <1>5, <2>3 DEF ConnInv, ConnQuiet, Alone, NoWrite, Idle
  <2> QED
    BY <1>1, <1>2, <2>2, <2>4 DEF ConnInv, ConnType, WordType, ImageType, AppType, UnitType, PhaseInv
<1> QED
  BY <1>4, <1>5 DEF HandshakeAnswer, Asked

LEMMA ConnRead == ASSUME StartInv, SectionRead PROVE ConnInv' /\ toRead' \subseteq Sections
<1> USE DEF word, request, image, loop, apps, unit, line, handshake
<1>1. ConnInv /\ ConnType /\ ConnLine /\ toRead \subseteq Sections
  BY DEF StartInv, SectionRead, ConnInv
<1>2. /\ UNCHANGED <<word, loop, apps, unit, wire, faults>> /\ inbox' = None
      /\ inbox.sec \in toRead /\ inbox.sec \in Sections /\ inbox.data \in Data /\ inbox.cnt \in Cnt
      /\ toRead' = toRead \ {inbox.sec} /\ inbox.kind = "read"
      /\ gRDEeprom' = [gRDEeprom EXCEPT ![inbox.sec] = inbox.data]
      /\ cntUpdate' = [s \in Counted |-> IF s = inbox.sec THEN inbox.cnt ELSE cntUpdate[s]]
      /\ currentState' \in {"PollingBase", "ReadEeprom"}
      /\ currentState' = "PollingBase" => toRead' = {}
      /\ currentState = "ReadEeprom"
  BY <1>1, ConnAnswers DEF SectionRead
<1>3. gRDEeprom \in [Sections -> Data] /\ cntUpdate \in [Counted -> Cnt]
  BY <1>1 DEF ConnType, ImageType
<1>4. ImageType'
  BY <1>1, <1>2, <1>3 DEF ConnType, ImageType
<1>5. ConnType'
  BY <1>1, <1>2, <1>4 DEF ConnType, WordType, AppType, UnitType
<1>6. ASSUME NoWrite' PROVE ConnQuiet'
  <2>1. NoWrite /\ ConnQuiet
    BY <1>1, <1>2, <1>6 DEF NoWrite, Idle, ConnInv
  <2>2. Alone'
    BY <1>2, <2>1 DEF ConnQuiet, Alone
  <2>3. ASSUME NEW s \in Counted \ toRead'
        PROVE  /\ Dist(cntUpdate'[s], unitCnt[s]) <= changes
               /\ gRDEeprom'[s] # unitData[s] => unitCnt[s] # cntUpdate'[s]
    <3>1. CASE s = inbox.sec
      BY <1>2, <1>3, <2>1, <3>1 DEF ConnQuiet
    <3>2. CASE s # inbox.sec
      BY <1>2, <1>3, <2>1, <3>2, Constants DEF ConnQuiet
    <3> QED
      BY <3>1, <3>2
  <2> QED
    BY <1>2, <2>2, <2>3, Contents DEF ConnQuiet
<1> QED
  BY <1>1, <1>2, <1>5, <1>6 DEF ConnInv, ConnLine, ConnQuiet, PhaseInv

LEMMA ConnPoll == ASSUME StartInv, PollParsed PROVE ConnInv'
<1> USE DEF word, request, image, loop, apps, unit, line, handshake
<1>1. ConnInv /\ ConnType /\ toRead = {}
  BY DEF StartInv, PollParsed, ConnInv
<1>2. /\ UNCHANGED <<word, image, Eeprom_Data_received, s_ext_cnt, pc, apps, unit, wire, faults, toRead>>
      /\ inbox' = None /\ currentState' = "Connected" /\ marks' \subseteq Reads
  BY MarkReads DEF PollParsed
<1>3. ConnType'
  BY <1>1, <1>2 DEF ConnType, WordType, ImageType, AppType, UnitType
<1>4. ConnQuiet'
  BY <1>1, <1>2, Contents DEF ConnInv, ConnQuiet, Alone, NoWrite, Idle
<1>5. "task" \notin busy
  BY <1>1 DEF PollParsed, ConnInv, PhaseInv
<1> QED
  BY <1>1, <1>2, <1>3, <1>4, <1>5 DEF ConnInv, ConnType, ConnLine, PhaseInv

LEMMA ConnMark == ASSUME StartInv, MarkSet PROVE ConnInv'
<1> USE DEF word, request, image, loop, apps, unit, line, handshake
<1>1. ConnInv /\ ConnType /\ ConnLine /\ currentState = "Connected" /\ inbox = None
  BY DEF StartInv, MarkSet, ConnInv, ConnLine
<1>2. UNCHANGED <<image, Eeprom_Data_received, s_ext_cnt, pc, apps, unit, line, handshake>>
  BY DEF MarkSet
<1>3. ASSUME WordType', PhaseInv', NoWrite => Alone', marks' \subseteq marks PROVE ConnInv'
  <2>1. ConnType'
    BY <1>1, <1>2, <1>3 DEF ConnType, ImageType, AppType, UnitType
  <2>2. ConnQuiet'
    BY <1>1, <1>2, <1>3 DEF ConnInv, ConnQuiet, NoWrite, Idle
  <2> QED
    BY <1>1, <1>2, <1>3, <2>1, <2>2 DEF ConnInv, ConnLine
<1>4. WordType /\ PhaseInv /\ "task" \in Tasks /\ "task" \notin Apps
  BY <1>1, Constants DEF ConnInv, ConnType, Tasks
<1>5. CASE marks # {} /\ Load("task") /\ UNCHANGED marks
  BY <1>2, <1>3, <1>4, <1>5, LoadType DEF Load, Alone, PhaseInv, WordType
<1>6. ASSUME NEW m \in marks, Store("task", loaded["task"] \cup {m}), marks' = marks \ {m}
      PROVE  ConnInv'
  <2>1. loaded["task"] \cup {m} \in SUBSET Bits
    BY <1>1, <1>4, <1>6 DEF ConnType, WordType, Reads, Bits
  <2>2. WordType'
    BY <1>4, <1>6, <2>1, StoreType
  <2>3. PhaseInv' /\ Alone'
    BY <1>1, <1>2, <1>4, <1>6 DEF ConnType, Store, Alone, PhaseInv
  <2> QED
    BY <1>3, <1>6, <2>2, <2>3
<1> QED
  BY <1>5, <1>6 DEF MarkSet

\* The counters are seeded: all that was kept from the first answer on is now what
\* EepromSync's invariants ask for.
LEMMA UpSeeded == ASSUME StartInv, Seeded PROVE UpInv'
<1> USE DEF word, request, image, loop, apps, unit, line, handshake
<1>1. /\ ConnInv /\ ConnType /\ toRead = {} /\ inbox = None /\ marks = {}
      /\ BlankInv(toRead)
  BY DEF StartInv, Seeded, ConnInv, ConnLine
<1>2. /\ UNCHANGED <<word, image, Eeprom_Data_received, marks, apps, unit, line, toRead>>
      /\ s_ext_cnt' = cntUpdate /\ pc' = "timers"
  BY DEF Seeded
<1>3. wire = None /\ Eeprom_Data_received = FALSE
  BY <1>1 DEF ConnType
<1>4. TypeOK'
  <2>1. WordType' /\ ImageType' /\ AppType' /\ UnitType'
    BY <1>1, <1>2 DEF ConnType, WordType, ImageType, AppType, UnitType
  <2>2. LoopType' /\ LineType'
    BY <1>1, <1>2, <1>3 DEF LoopType, LineType
  <2> QED
    BY <2>1, <2>2, TypeParts, PTL
<1>5. PhaseInv'
  BY <1>1, <1>2 DEF ConnInv, PhaseInv
<1>6. ASSUME NoWrite' PROVE (Alone /\ OnlyReads /\ NotAhead /\ \A s \in Counted : KnownStale(s))'
  <2>1. NoWrite /\ writes = 0 /\ ConnQuiet /\ Unasked
    BY <1>1, <1>2, <1>6 DEF NoWrite, Idle, ConnInv, BlankInv
  <2>2. Alone'
    BY <1>2, <2>1 DEF ConnQuiet, Alone
  <2>3. OnlyReads'
    BY <1>1, <1>2, <1>3, <2>1, Contents DEF Unasked, OnlyReads, Reads
  <2>4. NotAhead' /\ \A s \in Counted : KnownStale(s)'
    BY <1>1, <1>2, <2>1, Contents DEF ConnQuiet, NotAhead, KnownStale
  <2> QED
    BY <2>2, <2>3, <2>4
<1>7. QuietInv' /\ KnownInv'
  BY <1>1, <1>2, <1>6, Contents DEF QuietInv, KnownInv, KnownAnswer, SentFirst
<1> QED
  BY <1>1, <1>2, <1>4, <1>5, <1>7 DEF UpInv

LEMMA ConnFails == ASSUME StartInv, HandshakeFails PROVE ConnInv'
<1> USE DEF word, request, image, loop, apps, unit, line, handshake
<1>1. ConnInv /\ ConnType /\ currentState # "Connected" /\ inbox = None
  <2>1. currentState \in {"ReadEeprom", "PollingBase"} /\ inbox = None
    BY DEF HandshakeFails
  <2> QED
    BY <2>1 DEF StartInv, ConnInv
<1>2. /\ UNCHANGED <<word, image, loop, apps, unit, wire, inbox, toRead>>
      /\ currentState' = "down" /\ faults' = faults + 1 /\ faults < MaxFaults
  BY DEF HandshakeFails
<1>3. UnitType'
  BY <1>1, <1>2, Constants DEF ConnType, UnitType
<1>4. ConnType'
  BY <1>1, <1>2, <1>3 DEF ConnType, WordType, ImageType, AppType
<1>5. ConnQuiet'
  BY <1>1, <1>2 DEF ConnInv, ConnQuiet, Alone, NoWrite, Idle
<1> QED
  BY <1>1, <1>2, <1>4, <1>5 DEF ConnInv, ConnLine, PhaseInv

\* The handshake copies what the unit holds, and asks only for reads.
LEMMA HandshakeBlank ==
    ASSUME StartInv, Connect_To_Unit \/ HandshakeAnswer \/ HandshakeFails
    PROVE  BlankInv(toRead)'
<1> USE DEF word, request, image, loop, apps, unit, line, handshake
<1>1. ConnInv /\ BlankInv(toRead) /\ Unasked /\ toRead \subseteq Sections
  BY DEF StartInv, BlankInv, Connect_To_Unit, HandshakeAnswer, Asked, HandshakeFails, SectionRead,
     PollParsed, MarkSet, Seeded
<1>2. BlankTypes
  BY <1>1, BlankTypesConn
<1>3. CASE HandshakeAnswer
  <2>1. UNCHANGED <<word, image, loop, apps, unit, wire, handshake>>
    BY <1>3 DEF HandshakeAnswer
  <2>2. inbox'.kind = "read" => \E s \in Sections : inbox'.data = unitData[s]
    BY <1>1, <1>3 DEF HandshakeAnswer
  <2> QED
    BY <1>1, <2>1, <2>2, ToReadBlank DEF Unasked, Unblanked, Filled
<1>4. CASE SectionRead
  <2>1. /\ UNCHANGED <<word, loop, apps, unit, wire>> /\ inbox' = None
        /\ inbox.kind = "read" /\ toRead' = toRead \ {inbox.sec}
        /\ gRDEeprom' = [gRDEeprom EXCEPT ![inbox.sec] = inbox.data]
    BY <1>4 DEF SectionRead
  <2>2. Unasked' /\ (Unblanked => Unblanked')
    BY <1>1, <2>1, Contents DEF Unasked, Unblanked
  <2>3. Unblanked /\ Filled(toRead) => Filled(toRead)'
    BY <1>2, <2>1 DEF BlankTypes, Unblanked, Filled
  <2> QED
    BY <1>1, <2>1, <2>2, <2>3, ToReadBlank
<1>5. CASE PollParsed
  <2>1. /\ UNCHANGED <<word, image, apps, unit, wire, toRead>>
        /\ inbox' = None /\ marks' \subseteq Reads
    BY <1>5, MarkReads DEF PollParsed
  <2> QED
    BY <1>1, <2>1, Contents, ToReadBlank DEF Unasked, Unblanked, Filled
<1>6. CASE MarkSet
  <2>1. UNCHANGED <<image, apps, unit, line, handshake>> /\ marks' \subseteq marks
    BY <1>6 DEF MarkSet
  <2>2. Unasked'
    <3>1. CASE Load("task")
      BY <1>1, <1>2, <2>1, <3>1, UnaskedLoad DEF Tasks
    <3>2. ASSUME NEW m \in marks, Store("task", loaded["task"] \cup {m}) PROVE Unasked'
      <4>1. writes = 0 => loaded["task"] \cup {m} \subseteq Reads
        BY <1>1 DEF Unasked, Tasks
      <4> QED
        BY <1>1, <1>2, <2>1, <3>2, <4>1, UnaskedStore DEF Tasks
    <3> QED
      BY <1>6, <3>1, <3>2 DEF MarkSet
  <2> QED
    BY <1>1, <2>1, <2>2, ToReadBlank DEF Unblanked, Filled
<1>7. CASE Seeded \/ HandshakeFails
  <2>1. UNCHANGED <<word, image[1], marks, apps, unit, wire, inbox, toRead>>
    BY <1>7 DEF Seeded, HandshakeFails
  <2> QED
    BY <1>1, <2>1, ToReadBlank DEF Unasked, Unblanked, Filled
<1> QED
  BY <1>3, <1>4, <1>5, <1>6, <1>7 DEF Connect_To_Unit

\* A step of EepromSync keeps what it keeps of the image, whatever is still to be read.
LEMMA NextToReadBlank ==
    ASSUME BlankTypes, BlankInv(toRead), toRead = {} \/ pc = "connecting", [Next]_vars, UNCHANGED handshake
    PROVE  BlankInv(toRead)'
<1>1. ASSUME NEW U, U = toRead PROVE BlankInv(toRead)'
  <2>1. BlankInv(U)'
    BY <1>1, NextBlank
  <2>2. toRead' = U
    BY <1>1 DEF handshake
  <2> QED
    BY <2>1, <2>2 DEF BlankInv, Filled
<1> QED
  BY <1>1

\* Every step keeps the invariant of the handshake and of the link that is up.
LEMMA NextStartInv == StartInv /\ [NextStart]_allVars => StartInv'
<1> SUFFICES ASSUME StartInv, [NextStart]_allVars PROVE StartInv'
  OBVIOUS
<1>1. CASE [Next]_vars /\ UNCHANGED handshake
  <2>1. UNCHANGED <<currentState, toRead>>
    BY <1>1 DEF handshake
  <2>2. CASE currentState = "up"
    <3>1. UpInv
      BY <2>2 DEF StartInv
    <3>2. UpInv'
      BY <1>1, <2>1, <3>1, NextTypeOK, NextPhase, NextQuiet, NextKnown, TypeParts DEF UpInv
    <3>3. BlankInv(toRead)'
      BY <1>1, <3>1, BlankTypesUp, NextToReadBlank DEF UpInv, StartInv
    <3> QED
      BY <2>1, <2>2, <3>2, <3>3 DEF StartInv
  <2>3. CASE currentState # "up"
    <3>1. ConnInv /\ pc = "connecting"
      BY <2>3 DEF StartInv, ConnInv, ConnType
    <3>2. ConnInv'
      <4>1. CASE Next
        BY <1>1, <2>3, <4>1, ConnNext
      <4>2. CASE UNCHANGED vars
        BY <2>1, <3>1, <4>2 DEF vars, word, request, image, loop, apps, unit, line, ConnInv, ConnType, ConnLine,
           ConnQuiet, PhaseInv, WordType, ImageType, AppType, UnitType, Alone, NoWrite, Idle
      <4> QED
        BY <1>1, <4>1, <4>2
    <3>3. BlankInv(toRead)'
      BY <1>1, <3>1, BlankTypesConn, NextToReadBlank DEF StartInv
    <3> QED
      BY <2>1, <2>3, <3>2, <3>3 DEF StartInv
  <2> QED
    BY <2>2, <2>3
<1>2. CASE SectionRead
  <2>1. currentState' \in {"ReadEeprom", "PollingBase"}
    BY <1>2 DEF SectionRead
  <2> QED
    BY <1>2, <2>1, ConnRead, HandshakeBlank DEF StartInv, Connect_To_Unit
<1>3. CASE HandshakeAnswer \/ PollParsed \/ MarkSet \/ HandshakeFails
  <2>1. /\ currentState' \in {"ReadEeprom", "PollingBase", "Connected", "down"}
        /\ toRead' = toRead
    BY <1>3 DEF HandshakeAnswer, Asked, PollParsed, MarkSet, HandshakeFails, handshake
  <2>2. ConnInv' /\ BlankInv(toRead)'
    BY <1>3, ConnAnswer, ConnPoll, ConnMark, ConnFails, HandshakeBlank DEF Connect_To_Unit
  <2> QED
    BY <2>1, <2>2 DEF StartInv
<1>4. CASE Seeded
  <2>1. currentState' = "up" /\ toRead' = toRead
    BY <1>4 DEF Seeded
  <2>2. UpInv' /\ BlankInv(toRead)'
    BY <1>4, UpSeeded, HandshakeBlank DEF Connect_To_Unit
  <2> QED
    BY <2>1, <2>2 DEF StartInv
<1> QED
  BY <1>1, <1>2, <1>3, <1>4 DEF NextStart, Connect_To_Unit, allVars

LEMMA StartAlways == SpecStart => []StartInv
BY InitStartInv, NextStartInv, PTL DEF SpecStart

\* When the link comes up every section has been read or written, and a section that the
\* unit has changed since is known to be stale, also one that it changed while the others
\* were being read (unit_comm.c:598-627).
THEOREM StaleKnownOnceUp == SpecStart => []StaleIsKnownOnceUp
<1>1. StartInv => StaleIsKnownOnceUp
  <2> SUFFICES ASSUME StartInv, currentState = "up"
               PROVE  /\ Idle /\ writes <= 1 => \A s \in Sections : gRDEeprom[s] # Blank
                      /\ StaleIsKnown
    BY DEF StaleIsKnownOnceUp
  <2>1. UpInv /\ BlankInv({})
    BY DEF StartInv, UpInv
  <2>2. StaleIsKnown
    BY <2>1 DEF UpInv, KnownInv, KnownStale, StaleIsKnown, NoWrite
  <2>3. ASSUME Idle, writes <= 1 PROVE \A s \in Sections : gRDEeprom[s] # Blank
    <3>1. Copying = {}
      BY <2>3 DEF Idle, Copying
    <3>2. Started <= 1
      <4>1. writes \in Nat
        BY <2>1, TypeParts DEF UpInv, AppType
      <4> QED
        BY <2>1, <2>3, <3>1, <4>1, StartedFacts DEF BlankInv
    <3> QED
      BY <2>1, <3>1, <3>2 DEF BlankInv, Filled
  <2> QED
    BY <2>2, <2>3
<1> QED
  BY <1>1, StartAlways, PTL

\* Nor does the unit get a blank byte of the image that the handshake has not filled yet,
\* although an app may already write: nothing is sent before the link is up.
THEOREM NeverBlankedFromStart == SpecStart => []NotBlanked
<1>1. StartInv => NotBlanked
  BY DEF StartInv, BlankInv, Unblanked, NotBlanked
<1> QED
  BY <1>1, StartAlways, PTL
=============================================================================
