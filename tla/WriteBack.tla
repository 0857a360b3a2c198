----------------------------- MODULE WriteBack -----------------------------
(***************************************************************************)
(* What the image of the unit's EEPROM promises where app writes and       *)
(* changes of the unit take turns: it is a write-back cache of the unit's  *)
(* memory.  What an app saves is dirty until it is written, place by       *)
(* place, with what the cache holds then; what is dirty is never read over *)
(* it; a place changed by the unit is stale until it is read.  Either is   *)
(* given up only when a request or its answer is lost, and that is counted.*)
(* Where writes and changes clash nothing is promised until cache and      *)
(* memory agree again and nothing is to be written or read.                *)
(***************************************************************************)
EXTENDS Naturals

CONSTANTS Places, Values

VARIABLES
    memory, cache,
    dirty,   \* the places still to be written
    stale,   \* those known to need reading
    lost,    \* the requests and answers lost
    clash

contents == <<memory, cache, dirty, stale, lost>>
vars == <<contents, clash>>

\* A clean place that is not the memory's is known to be stale.
Coherent ==
    ~clash /\ lost = 0 => \A p \in Places \ dirty : cache[p] # memory[p] => p \in stale

Init ==
    /\ memory \in [Places -> Values] /\ cache \in [Places -> Values]
    /\ dirty = {} /\ stale \subseteq Places /\ lost = 0 /\ clash = FALSE
    /\ Coherent

AtRest == dirty = {} /\ stale = {}

\* Only reading a place, or a loss, ends its being stale.
Noticed == stale \subseteq stale' /\ stale' \subseteq Places

Change(p) ==
    /\ AtRest /\ stale' = {p}
    /\ memory' \in [Places -> Values]
    /\ \A q \in Places \ {p} : memory'[q] = memory[q]
    /\ UNCHANGED <<cache, dirty, lost>>

Save ==
    /\ AtRest /\ dirty' = Places
    /\ cache' \in [Places -> Values]
    /\ UNCHANGED <<memory, stale, lost>>

Flush(p) ==
    /\ p \in dirty /\ dirty' = dirty \ {p}
    /\ memory' = [memory EXCEPT ![p] = cache[p]]
    /\ Noticed
    /\ UNCHANGED <<cache, lost>>

Fetch(p) ==
    /\ p \notin dirty /\ stale' \in {stale, stale \ {p}}
    /\ cache' = [cache EXCEPT ![p] = memory[p]]
    /\ UNCHANGED <<memory, dirty, lost>>

\* A counter that has moved asks for a read, if only of what was just written.
Notice == Noticed /\ UNCHANGED <<memory, cache, dirty, lost>>

\* The loss gives up the place concerned, if it is of one at all.
GiveUp(p) ==
    /\ p \in dirty \cup stale /\ lost' = lost + 1
    /\ dirty' = dirty \ {p} /\ stale' = stale \ {p}
    /\ UNCHANGED <<memory, cache>>

LoseOther == lost' = lost + 1 /\ UNCHANGED <<memory, cache, dirty, stale>>

InTurn ==
    \/ \E p \in Places : Change(p) \/ Flush(p) \/ Fetch(p) \/ GiveUp(p)
    \/ Save \/ Notice \/ LoseOther

\* A clash is over when cache and memory agree and nothing is to be done.
Undisturbed ==
    /\ clash => AtRest /\ cache = memory
    /\ clash' = FALSE
    /\ InTurn \/ UNCHANGED contents

Disturbed ==
    /\ clash' = TRUE
    /\ {memory', cache'} \subseteq [Places -> Values]
    /\ dirty' \subseteq Places /\ stale' \subseteq Places /\ lost' \in Nat

Next == Undisturbed \/ Disturbed

Spec == Init /\ [][Next]_vars
=============================================================================
