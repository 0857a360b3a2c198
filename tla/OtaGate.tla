------------------------------- MODULE OtaGate -------------------------------
(***************************************************************************)
(* The firmware update of the module itself: ota_boot_task and             *)
(* check_update_task of src/main.c.  Once per start the version on the     *)
(* server is compared with the running one; a newer one is installed, and  *)
(* given up after OTA_FAIL_MAX_RETRY failures, which are counted in NVS    *)
(* under two keys that are committed one after the other.                  *)
(*                                                                         *)
(* Versions are numbers in the order of ota_compare_versions.  A key that  *)
(* was never written reads as no version or 0, as the code treats it.      *)
(***************************************************************************)
EXTENDS Integers

CONSTANTS
    LastVersion,
    MaxRetry,      \* OTA_FAIL_MAX_RETRY
    MaxLosses,     \* bound on restarts amid a check and failed NVS writes
    MaxPublished   \* bound on changes of the server's version

ASSUME OtaAssumption ==
    /\ LastVersion \in Nat \ {0} /\ MaxRetry \in Nat \ {0}
    /\ {MaxLosses, MaxPublished} \subseteq Nat

VARIABLES
    ota_fail_ver, ota_fail_cnt,   \* NVS; 0 is no version
    running, bootable,            \* CURRENT_VERSION, and what the next start runs
    pc, available,                \* check_update_task, and the version it was told of
    fail_count,                   \* its local
    server,
    streak,                       \* history: the last version that failed, how often in a row
    losses, published

nvs == <<ota_fail_ver, ota_fail_cnt>>
images == <<running, bootable>>
vars == <<nvs, images, pc, available, fail_count, server, streak, losses, published>>

-----------------------------------------------------------------------------
Versions == 1..LastVersion
NoVersion == 0

Init ==
    /\ ota_fail_ver = NoVersion /\ ota_fail_cnt = 0
    /\ running = 1 /\ bootable = 1
    /\ pc = "waiting" /\ available = NoVersion /\ fail_count = 0
    /\ server = 1
    /\ streak = [of |-> NoVersion, n |-> 0]
    /\ losses = 0 /\ published = 0

Loss == losses < MaxLosses /\ losses' = losses + 1

\* nvs_set and nvs_commit of one key; the caller ignores their result.
Commit(written, kept) ==
    \/ written /\ UNCHANGED losses
    \/ kept /\ Loss

\* ota_boot_task: without Wi-Fi within 90 s there is no check in this run.
WifiConnected ==
    /\ pc = "waiting" /\ pc' = "asking"
    /\ UNCHANGED <<nvs, images, available, fail_count, server, streak, losses, published>>

WifiTimeout ==
    /\ pc = "waiting" /\ pc' = "done"
    /\ UNCHANGED <<nvs, images, available, fail_count, server, streak, losses, published>>

\* No answer, or one that is no JSON object with two strings, or no version.
NoAnswer ==
    /\ pc = "asking" /\ pc' = "done"
    /\ UNCHANGED <<nvs, images, available, fail_count, server, streak, losses, published>>

\* ota_should_skip_for_failed_version
\* Mutant: one failure too many.
ShouldSkipLater(v) == ota_fail_ver = v /\ ota_fail_cnt > MaxRetry

\* Mutant: whichever version it was that failed.
ShouldSkipAny(v) == ota_fail_cnt >= MaxRetry

ShouldSkip(v) == ota_fail_ver = v /\ ota_fail_cnt >= MaxRetry

\* Mutant: whatever differs is installed.
AnswerAny ==
    /\ pc = "asking"
    /\ available' = server
    /\ pc' = IF server = running THEN "clear_cnt"
             ELSE IF ShouldSkip(server) THEN "skipped" ELSE "trying"
    /\ UNCHANGED <<nvs, images, fail_count, server, streak, losses, published>>

\* Mutant: the failures of a version that is skipped are forgotten.
AnswerForgives ==
    /\ pc = "asking"
    /\ available' = server
    /\ pc' = IF server < running THEN "done"
             ELSE IF server = running \/ ShouldSkip(server) THEN "clear_cnt" ELSE "trying"
    /\ UNCHANGED <<nvs, images, fail_count, server, streak, losses, published>>

Answer ==
    /\ pc = "asking"
    /\ available' = server
    /\ pc' = IF server < running THEN "done"
             ELSE IF server = running THEN "clear_cnt"
             ELSE IF ShouldSkip(server) THEN "skipped" ELSE "trying"
    /\ UNCHANGED <<nvs, images, fail_count, server, streak, losses, published>>

\* Preflight and download.  esp_https_ota makes the new image the bootable one.
Install ==
    /\ pc = "trying"
    /\ bootable' = available
    /\ pc' = "clear_cnt"
    /\ UNCHANGED <<nvs, running, available, fail_count, server, streak, losses, published>>

Fail ==
    /\ pc = "trying"
    /\ streak' = [of |-> available, n |-> IF streak.of = available THEN streak.n + 1 ELSE 1]
    /\ pc' = "record"
    /\ UNCHANGED <<nvs, images, available, fail_count, server, losses, published>>

\* ota_record_failure: the version, when it is another one, and then the count.
RecordVersion ==
    /\ pc = "record"
    /\ \/ /\ ota_fail_ver = available
          /\ fail_count' = ota_fail_cnt + 1
          /\ UNCHANGED <<ota_fail_ver, losses>>
       \/ /\ ota_fail_ver # available
          /\ fail_count' = 1
          /\ Commit(ota_fail_ver' = available, UNCHANGED ota_fail_ver)
    /\ pc' = "record_cnt"
    /\ UNCHANGED <<ota_fail_cnt, images, available, server, streak, published>>

RecordCount ==
    /\ pc = "record_cnt"
    /\ Commit(ota_fail_cnt' = fail_count, UNCHANGED ota_fail_cnt)
    /\ pc' = "done"
    /\ UNCHANGED <<ota_fail_ver, images, available, fail_count, server, streak, published>>

\* ota_clear_failure_state, after an installation or when nothing is newer.
ClearCount ==
    /\ pc = "clear_cnt"
    /\ Commit(ota_fail_cnt' = 0, UNCHANGED ota_fail_cnt)
    /\ streak' = [of |-> NoVersion, n |-> 0]
    /\ pc' = "clear_ver"
    /\ UNCHANGED <<ota_fail_ver, images, available, fail_count, server, published>>

ClearVersion ==
    /\ pc = "clear_ver"
    /\ Commit(ota_fail_ver' = NoVersion, UNCHANGED ota_fail_ver)
    /\ pc' = "done"
    /\ UNCHANGED <<ota_fail_cnt, images, available, fail_count, server, streak, published>>

check_update_task ==
    \/ NoAnswer \/ Answer \/ Install \/ Fail
    \/ RecordVersion \/ RecordCount \/ ClearCount \/ ClearVersion

-----------------------------------------------------------------------------
Idle == pc \in {"waiting", "skipped", "done"}

\* esp_restart, or the power switch; amid a check it is a loss.
Restart ==
    /\ running' = bootable
    /\ pc' = "waiting" /\ available' = NoVersion /\ fail_count' = 0
    /\ IF Idle THEN UNCHANGED losses ELSE Loss
    /\ UNCHANGED <<nvs, bootable, server, streak, published>>

\* Another version is published, newer or older.
Publish ==
    /\ published < MaxPublished /\ published' = published + 1
    /\ server' \in Versions
    /\ UNCHANGED <<nvs, images, pc, available, fail_count, streak, losses>>

Next == WifiConnected \/ WifiTimeout \/ check_update_task \/ Restart \/ Publish

Spec == Init /\ [][Next]_vars

\* The module is started again and again; Wi-Fi and the server are not always
\* missing.  Nothing makes an installation succeed.
Fairness ==
    /\ WF_vars(check_update_task)
    /\ WF_vars(pc \in {"skipped", "done"} /\ Restart)
    /\ SF_vars(WifiConnected) /\ SF_vars(Answer)
FairSpec == Spec /\ Fairness

-----------------------------------------------------------------------------
(* Properties *)

\* Types; what the next start runs is never older than what runs now
\* (ota_compare_versions, main.c:44-68, and its use at 503).
TypeOK ==
    /\ ota_fail_ver \in Versions \cup {NoVersion} /\ ota_fail_cnt \in Nat
    /\ running \in Versions /\ bootable \in running..LastVersion
    /\ pc \in {"waiting", "asking", "trying", "record", "record_cnt", "clear_cnt",
               "clear_ver", "skipped", "done"}
    /\ available \in Versions \cup {NoVersion} /\ fail_count \in Nat
    /\ server \in Versions
    /\ streak \in [of : Versions \cup {NoVersion}, n : Nat]
    /\ losses \in 0..MaxLosses /\ published \in 0..MaxPublished

\* A version is not tried for ever: failures in a row of one version are at most
\* OTA_FAIL_MAX_RETRY, and one more for every restart amid a check or NVS write
\* that failed (main.c:213-234).
GivesUp == streak.n <= MaxRetry + losses

\* A version that is skipped did fail OTA_FAIL_MAX_RETRY times in a row, as long
\* as no count was lost.
SkipEarned ==
    (pc = "skipped" /\ losses = 0) => streak = [of |-> available, n |-> MaxRetry]

\* Whatever fails, the rollout of the last published version comes to an end: it
\* is installed, or it is given up for good (main.c:504-547).
RolloutEnds ==
    <>[](server <= running \/ (ota_fail_ver = server /\ ota_fail_cnt >= MaxRetry))
=============================================================================
