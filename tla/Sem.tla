--------------------------------- MODULE Sem ---------------------------------
(***************************************************************************)
(* Kernel semaphores (kernel/sem.c) on top of the scheduler.  sem[s].count *)
(* counts down past zero: a negative count is the number of waiters.       *)
(***************************************************************************)
EXTENDS Sched

CONSTANTS
    Sems,       \* resource ids a semaphore may get
    MaxCount    \* bound on the initial count and on the units in a model

ASSUME SemAssumption ==
    /\ Sems \subseteq Rsrc \ {RunQ}
    /\ MaxCount \in Nat

VARIABLE
    sem         \* sem[s] = [live, count]

semVars == <<k, frame, ret, sem>>

SemFrame == [op |-> "sem_acquire"]

SemState == [live : BOOLEAN, count : Int, owner : Team]

SemTypeOK ==
    /\ k \in SchedState
    /\ frame \in [Task \cup {Idle} -> {UserFrame, SemFrame}]
    /\ ret \in [Task -> Errors]
    /\ sem \in [Sems -> SemState]

-----------------------------------------------------------------------------
\* Mutant: one unit too many.
sem_create_one_more(t, s, n) ==
    /\ InUser(t)
    /\ ~sem[s].live
    /\ sem' = [sem EXCEPT ![s] = [live |-> TRUE, count |-> n + 1, owner |-> k.team[t]]]
    /\ k' = [k EXCEPT !.q[s] = << >>]
    /\ Returns(t, "ERR_NONE")

\* Any free id: the free list of the resource table is modelled in RsrcTable.
sem_create(t, s, n) ==
    /\ InUser(t)
    /\ ~sem[s].live
    /\ sem' = [sem EXCEPT ![s] = [live |-> TRUE, count |-> n, owner |-> k.team[t]]]
    /\ k' = [k EXCEPT !.q[s] = << >>]
    /\ Returns(t, "ERR_NONE")

sem_destroy(t, s) ==
    /\ InUser(t)
    /\ sem[s].live
    /\ k' = wake_all(k, s, "ERR_RESOURCE")
    /\ sem' = [sem EXCEPT ![s].live = FALSE]
    /\ Returns(t, "ERR_NONE")

\* Mutant: a waiter is not counted.
sem_acquire_no_count(t, s) ==
    /\ InUser(t)
    /\ sem[s].live
    /\ IF sem[s].count > 0
       THEN /\ sem' = [sem EXCEPT ![s].count = @ - 1]
            /\ Returns(t, "ERR_NONE") /\ UNCHANGED k
       ELSE BlocksOn(t, s, SemFrame) /\ UNCHANGED sem

sem_acquire(t, s) ==
    /\ InUser(t)
    /\ sem[s].live
    /\ sem' = [sem EXCEPT ![s].count = @ - 1]
    /\ IF sem[s].count > 0
       THEN Returns(t, "ERR_NONE") /\ UNCHANGED k
       ELSE BlocksOn(t, s, SemFrame)

\* Mutant: what the call returns is not the status its waker left.
sem_acquire_return_queue(t) ==
    /\ k.cur = t /\ frame[t] = SemFrame
    /\ Returns(t, k.waiting_on[t])
    /\ UNCHANGED <<k, sem>>

\* The rest of sem_acquire, when the thread is current again.
sem_acquire_return(t) ==
    /\ k.cur = t /\ frame[t] = SemFrame
    /\ Returns(t, k.status[t])
    /\ UNCHANGED <<k, sem>>

\* Mutant: the waiter is taken off the queue and forgotten.
sem_release_no_preempt(t, s) ==
    /\ InUser(t)
    /\ sem[s].live
    /\ sem[s].count < MaxCount
    /\ sem' = [sem EXCEPT ![s].count = @ + 1]
    /\ k' = IF k.q[s] = << >> THEN k ELSE rsrc_dequeue(k, s)
    /\ Returns(t, "ERR_NONE")

sem_release(t, s) ==
    /\ InUser(t)
    /\ sem[s].live
    /\ sem[s].count < MaxCount
    /\ sem' = [sem EXCEPT ![s].count = @ + 1]
    /\ k' = IF k.q[s] = << >> THEN k
            ELSE preempt(rsrc_dequeue(k, s), Head(k.q[s]), "ERR_NONE")
    /\ Returns(t, "ERR_NONE")

\* rsrc_find_sem() fails: the id does not name a semaphore.
sem_not_found(t, s) ==
    /\ InUser(t)
    /\ ~sem[s].live
    /\ Returns(t, "ERR_RESOURCE")
    /\ UNCHANGED <<k, sem>>

\* timer_irq() with nobody asleep: the running thread loses the CPU.
timer_preempt ==
    /\ InterruptsOn
    /\ k' = swtch(k)
    /\ UNCHANGED <<frame, ret, sem>>

-----------------------------------------------------------------------------
SemInit ==
    /\ k = Booted(Len(BootOrder))
    /\ frame = [t \in Task \cup {Idle} |-> UserFrame]
    /\ ret = [t \in Task |-> "ERR_NONE"]
    /\ sem \in [Sems -> {[live |-> FALSE, count |-> 0, owner |-> m] : m \in Team}]

SemCallOn(t, s) ==
    \/ \E n \in 0 .. MaxCount : sem_create(t, s, n)
    \/ sem_destroy(t, s)
    \/ sem_acquire(t, s)
    \/ sem_release(t, s)
    \/ sem_not_found(t, s)

SemCall(t) == \E s \in Sems : SemCallOn(t, s)

SemNext ==
    \/ timer_preempt
    \/ \E t \in Task : SemCall(t) \/ sem_acquire_return(t)

SemSpec == SemInit /\ [][SemNext]_semVars

-----------------------------------------------------------------------------
(* Properties *)

\* The queues are in order: every blocked thread is on exactly the queue it
\* waits on, and only the current thread is marked as running.
SemQueuesOK == Placed(k, NoRsrc) /\ OneRunning(k) /\ NoneLost(k)

\* A negative count is exactly the number of threads blocked on the semaphore,
\* whatever mix of acquires, releases and preemptions led here, and destroying a
\* semaphore strands nobody on its queue.
CountIsWaiters ==
    \A s \in Sems : Len(k.q[s]) = IF sem[s].live /\ sem[s].count < 0 THEN -sem[s].count ELSE 0

\* The kernel semaphore implements the abstract one.
Abs == INSTANCE Semaphore WITH
    Client <- Task, Semas <- Sems, Counts <- 0 .. MaxCount,
    avail <- [s \in Sems |-> IF sem[s].live /\ sem[s].count > 0 THEN sem[s].count ELSE 0],
    waiting <- [s \in Sems |-> Range(k.q[s])],
    exists <- {s \in Sems : sem[s].live}

ImplementsSemaphore == Abs!SemaSpec
=============================================================================
