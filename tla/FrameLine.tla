------------------------------ MODULE FrameLine ------------------------------
(***************************************************************************)
(* What the unit task is promised of the serial line.  While no answer was *)
(* spoilt the one that was sent last is delivered once or not at all, and  *)
(* no other one ever is: UnitLink and EepromSync take the line for this.   *)
(* Afterwards an answer may be delivered again and in place of a later     *)
(* one, but never after a later one.  UartRx shows that the driver and     *)
(* Read_Message keep both.                                                 *)
(***************************************************************************)
EXTENDS Naturals, Sequences

VARIABLES
    sent,   \* the answers are numbered as they are sent
    line,   \* the one that may still be delivered, or 0
    got,    \* those delivered
    spoilt

vars == <<sent, line, got, spoilt>>

Init == sent = 0 /\ line = 0 /\ got = <<>> /\ spoilt = FALSE

\* A new answer takes the place of one that was not delivered.
Send ==
    /\ sent' = sent + 1 /\ line' = sent'
    /\ UNCHANGED <<got, spoilt>>

Deliver ==
    /\ line # 0 /\ line' = 0
    /\ got' = Append(got, line)
    /\ UNCHANGED <<sent, spoilt>>

Spoil == spoilt' = TRUE /\ UNCHANGED <<sent, line, got>>

DeliverLate(n) ==
    /\ spoilt /\ n \in 1..sent
    /\ \A i \in 1..Len(got) : got[i] <= n
    /\ got' = Append(got, n)
    /\ line' = IF n = sent THEN 0 ELSE line
    /\ UNCHANGED <<sent, spoilt>>

\* Asked anew, with nothing delivered yet and nothing under way.
Renew == got = <<>> /\ spoilt' = FALSE /\ UNCHANGED <<sent, line, got>>

Next == Send \/ Deliver \/ Spoil \/ (\E n \in 1..sent : DeliverLate(n)) \/ Renew

Spec == Init /\ [][Next]_vars

\* In the order in which they were sent, and none twice while nothing was spoilt.
InOrder ==
    \A i, j \in 1..Len(got) : i < j => got[i] <= got[j] /\ (~spoilt => got[i] < got[j])
=============================================================================
