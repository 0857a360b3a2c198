---------------------------- MODULE OtaGateProofs ----------------------------
(***************************************************************************)
(* Proofs about OtaGate for every number of versions, retries, losses and  *)
(* publications: a version that keeps failing is given up, and none is     *)
(* given up that did not fail as often as it must.                         *)
(***************************************************************************)
EXTENDS OtaGate, TLAPS

\* What NVS counts for the version that failed last.
Booked == IF ota_fail_ver = streak.of THEN ota_fail_cnt ELSE 0

\* A failure is one ahead of NVS until its count is committed, and every
\* restart or failed write loses at most one.
Counted ==
    /\ pc \notin {"record", "record_cnt"} => streak.n <= Booked + losses
    /\ pc = "record" => streak.n <= Booked + losses + 1
    /\ pc = "record_cnt" =>
        /\ streak.n <= Booked + losses + 1
        /\ ota_fail_ver # streak.of => streak.n <= losses
        /\ streak.n <= fail_count + losses
    /\ pc \in {"record", "record_cnt"} => streak.of = available
    /\ pc = "clear_ver" => streak = [of |-> NoVersion, n |-> 0]

\* What is tried is newer than what runs, and was not to be skipped.
Tried ==
    pc = "trying" =>
        /\ available \in Versions /\ running < available
        /\ ~ShouldSkip(available)

\* As long as nothing was lost, NVS and the failures in a row agree, but for the
\* failure or the clearing under way.
Booking ==
    losses = 0 =>
        /\ pc \notin {"record", "record_cnt", "clear_ver"} =>
            ota_fail_ver = streak.of /\ ota_fail_cnt = streak.n
        /\ pc = "record" =>
            IF ota_fail_ver = streak.of THEN streak.n = ota_fail_cnt + 1 ELSE streak.n = 1
        /\ pc = "record_cnt" => ota_fail_ver = streak.of /\ fail_count = streak.n
        /\ pc = "clear_ver" => ota_fail_cnt = 0

Skipped == pc = "skipped" => ShouldSkip(available)

GateInv == TypeOK /\ GivesUp /\ Counted /\ Tried /\ Booking /\ Skipped

-----------------------------------------------------------------------------
(* Types *)

LEMMA TypesKept ==
    ASSUME TypeOK, Tried, [Next]_vars
    PROVE  TypeOK' /\ Tried'
<1> USE OtaAssumption
<1>1. CASE WifiConnected \/ WifiTimeout \/ NoAnswer
    BY <1>1 DEF WifiConnected, WifiTimeout, NoAnswer, TypeOK, Tried, nvs, images
<1>2. CASE Answer
    BY <1>2 DEF Answer, TypeOK, Tried, ShouldSkip, nvs, images, Versions
<1>3. CASE Install
    BY <1>3 DEF Install, TypeOK, Tried, nvs, images, Versions
<1>4. CASE Fail
    BY <1>4 DEF Fail, TypeOK, Tried, nvs, images
<1>5. CASE RecordVersion
    BY <1>5 DEF RecordVersion, Commit, Loss, TypeOK, Tried, nvs, images
<1>6. CASE RecordCount
    BY <1>6 DEF RecordCount, Commit, Loss, TypeOK, Tried, nvs, images
<1>7. CASE ClearCount \/ ClearVersion
    BY <1>7 DEF ClearCount, ClearVersion, Commit, Loss, TypeOK, Tried, nvs, images
<1>8. CASE Restart
    BY <1>8 DEF Restart, Idle, Loss, TypeOK, Tried, nvs, images, Versions
<1>9. CASE Publish
    BY <1>9 DEF Publish, TypeOK, Tried, ShouldSkip, nvs, images, Versions
<1>10. CASE UNCHANGED vars
    BY <1>10 DEF vars, TypeOK, Tried, ShouldSkip, nvs, images
<1> QED
    BY <1>1, <1>2, <1>3, <1>4, <1>5, <1>6, <1>7, <1>8, <1>9, <1>10 DEF Next, check_update_task

-----------------------------------------------------------------------------
(* Giving up *)

LEMMA CountKept ==
    ASSUME TypeOK, Tried, GivesUp, Counted, [Next]_vars
    PROVE  GivesUp' /\ Counted'
<1> USE OtaAssumption DEF TypeOK, GivesUp, Counted, Booked, nvs, images
<1>1. CASE WifiConnected \/ WifiTimeout \/ NoAnswer
    BY <1>1 DEF WifiConnected, WifiTimeout, NoAnswer
<1>2. CASE Answer
    BY <1>2 DEF Answer
<1>3. CASE Install
    BY <1>3 DEF Install
\* The version was not to be skipped: its failures so far are fewer.
<1>4. CASE Fail
    BY <1>4 DEF Fail, Tried, ShouldSkip
<1>5. CASE RecordVersion
    BY <1>5 DEF RecordVersion, Commit, Loss
<1>6. CASE RecordCount
    BY <1>6 DEF RecordCount, Commit, Loss
<1>7. CASE ClearCount \/ ClearVersion
    BY <1>7 DEF ClearCount, ClearVersion, Commit, Loss
<1>8. CASE Restart
    BY <1>8 DEF Restart, Idle, Loss
<1>9. CASE Publish
    BY <1>9 DEF Publish
<1>10. CASE UNCHANGED vars
    BY <1>10 DEF vars
<1> QED
    BY <1>1, <1>2, <1>3, <1>4, <1>5, <1>6, <1>7, <1>8, <1>9, <1>10 DEF Next, check_update_task

LEMMA BookingKept ==
    ASSUME TypeOK, Counted, Booking, Skipped, [Next]_vars
    PROVE  Booking' /\ Skipped'
<1> USE OtaAssumption DEF TypeOK, Counted, Booking, Skipped, ShouldSkip, nvs, images
<1>1. CASE WifiConnected \/ WifiTimeout \/ NoAnswer
    BY <1>1 DEF WifiConnected, WifiTimeout, NoAnswer
<1>2. CASE Answer
    BY <1>2 DEF Answer
<1>3. CASE Install
    BY <1>3 DEF Install
<1>4. CASE Fail
    BY <1>4 DEF Fail
<1>5. CASE RecordVersion
    BY <1>5 DEF RecordVersion, Commit, Loss
<1>6. CASE RecordCount
    BY <1>6 DEF RecordCount, Commit, Loss
<1>7. CASE ClearCount \/ ClearVersion
    BY <1>7 DEF ClearCount, ClearVersion, Commit, Loss
<1>8. CASE Restart
    BY <1>8 DEF Restart, Idle, Loss
<1>9. CASE Publish
    BY <1>9 DEF Publish
<1>10. CASE UNCHANGED vars
    BY <1>10 DEF vars
<1> QED
    BY <1>1, <1>2, <1>3, <1>4, <1>5, <1>6, <1>7, <1>8, <1>9, <1>10 DEF Next, check_update_task

-----------------------------------------------------------------------------
(* Theorems *)

LEMMA GateInvInit == Init => GateInv
BY OtaAssumption DEF Init, GateInv, TypeOK, GivesUp, Counted, Booked, Tried, Booking, Skipped,
   Versions, NoVersion

LEMMA GateInvStep == GateInv /\ [Next]_vars => GateInv'
BY TypesKept, CountKept, BookingKept DEF GateInv

\* What is skipped was booked, and with nothing lost the books are right; there
\* are not more failures than the limit (main.c:213-234).
LEMMA GateInvSkip == GateInv => SkipEarned
<1> SUFFICES ASSUME GateInv, pc = "skipped", losses = 0
             PROVE  streak = [of |-> available, n |-> MaxRetry]
    BY DEF SkipEarned
<1>1. streak.of = available /\ streak.n >= MaxRetry
    BY DEF GateInv, Skipped, ShouldSkip, Booking
<1>2. streak.n = MaxRetry
    BY <1>1, OtaAssumption DEF GateInv, GivesUp, TypeOK
<1> QED
    BY <1>1, <1>2 DEF GateInv, TypeOK

\* The types, and that nothing older than what runs is ever made bootable
\* (ota_compare_versions, main.c:44-68).
THEOREM TypeCorrect == Spec => []TypeOK
<1>1. GateInv => TypeOK
    BY DEF GateInv
<1> QED
    BY <1>1, GateInvInit, GateInvStep, PTL DEF Spec

\* A version is not tried for ever: it fails at most OTA_FAIL_MAX_RETRY times in a
\* row, and once more for each loss (main.c:188-234).
THEOREM VersionsGivenUp == Spec => []GivesUp
<1>1. GateInv => GivesUp
    BY DEF GateInv
<1> QED
    BY <1>1, GateInvInit, GateInvStep, PTL DEF Spec

\* Without a loss, only a version that failed OTA_FAIL_MAX_RETRY times in a row is
\* skipped (main.c:213-234).
THEOREM SkipsEarned == Spec => []SkipEarned
    BY GateInvInit, GateInvStep, GateInvSkip, PTL DEF Spec
=============================================================================
