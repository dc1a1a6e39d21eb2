------------------------------- MODULE IdPool --------------------------------
(***************************************************************************)
(* What the resource table promises: an id names one resource from the     *)
(* time it is handed out to the time it is given back, and while an id is  *)
(* free no request is refused.                                             *)
(***************************************************************************)
CONSTANTS Ids, Things

VARIABLES
    names,      \* names: the ids in use, with the thing each one names
    refused     \* a request was refused: the system has stopped

poolVars == <<names, refused>>

InUse == {n[1] : n \in names}

PoolInit == names = {} /\ refused = FALSE

Give(i, r) ==
    /\ ~refused
    /\ i \notin InUse /\ \A n \in names : n[2] # r
    /\ names' = names \cup {<<i, r>>}
    /\ UNCHANGED refused

TakeBack(i, r) ==
    /\ ~refused
    /\ <<i, r>> \in names
    /\ names' = names \ {<<i, r>>}
    /\ UNCHANGED refused

Refuse ==
    /\ InUse = Ids
    /\ refused' = TRUE
    /\ UNCHANGED names

PoolNext == Refuse \/ \E i \in Ids, r \in Things : Give(i, r) \/ TakeBack(i, r)

PoolSpec == PoolInit /\ [][PoolNext]_poolVars
=============================================================================
