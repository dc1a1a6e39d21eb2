------------------------------ MODULE Semaphore ------------------------------
(***************************************************************************)
(* What a counting semaphore promises its clients, without the kernel's    *)
(* queues, task states and context switches.  A unit is either available   *)
(* or was handed to one client; a release hands its unit straight to a     *)
(* waiting client if there is one; destroying the semaphore turns every    *)
(* waiting client away.  The kernel semaphore (Sem) implements it.         *)
(***************************************************************************)
EXTENDS Naturals

CONSTANTS Client, Semas, Counts

VARIABLES
    avail,     \* avail[s]: units of s nobody holds
    waiting,   \* waiting[s]: the clients blocked on s
    exists     \* the semaphores that exist

semaVars == <<avail, waiting, exists>>

SemaInit ==
    /\ exists \in SUBSET Semas
    /\ avail \in [Semas -> Counts]
    /\ waiting = [s \in Semas |-> {}]

Create(s) ==
    /\ s \notin exists
    /\ exists' = exists \cup {s}
    /\ \E n \in Counts : avail' = [avail EXCEPT ![s] = n]
    /\ UNCHANGED waiting

Destroy(s) ==
    /\ s \in exists
    /\ exists' = exists \ {s}
    /\ avail' = [avail EXCEPT ![s] = 0]
    /\ waiting' = [waiting EXCEPT ![s] = {}]

Take(s) ==
    /\ s \in exists /\ avail[s] > 0
    /\ avail' = [avail EXCEPT ![s] = @ - 1]
    /\ UNCHANGED <<waiting, exists>>

Block(s, c) ==
    /\ s \in exists /\ avail[s] = 0
    /\ \A s2 \in Semas : c \notin waiting[s2]
    /\ waiting' = [waiting EXCEPT ![s] = @ \cup {c}]
    /\ UNCHANGED <<avail, exists>>

Return(s) ==
    /\ s \in exists /\ waiting[s] = {}
    /\ avail' = [avail EXCEPT ![s] = @ + 1]
    /\ UNCHANGED <<waiting, exists>>

HandOver(s, c) ==
    /\ s \in exists /\ c \in waiting[s]
    /\ waiting' = [waiting EXCEPT ![s] = @ \ {c}]
    /\ UNCHANGED <<avail, exists>>

SemaNext ==
    \E s \in Semas :
        \/ Create(s) \/ Destroy(s) \/ Take(s) \/ Return(s)
        \/ \E c \in Client : Block(s, c) \/ HandOver(s, c)

SemaSpec == SemaInit /\ [][SemaNext]_semaVars
=============================================================================
