-------------------------------- MODULE Qsem ---------------------------------
(***************************************************************************)
(* The user-level semaphore of lib/libc/qsem.c, which enters the kernel    *)
(* only when it must, and the threads that use it to bracket a critical    *)
(* section as lib/libposix/fdl.c and srv/window do.  Between the           *)
(* atomic_add() and the system call a thread runs in user mode, so the     *)
(* timer may take the CPU away at every point.                             *)
(***************************************************************************)
EXTENDS Sem, FiniteSets

CONSTANTS
    Mutex,      \* s->mutex
    Permits     \* qsem_create(Permits)

ASSUME QsemAssumption ==
    /\ Mutex \in Sems
    /\ Permits \in 1 .. MaxCount

VARIABLES
    I386,       \* whether the library was built with I386, without atomic_add()
    qcount,     \* s->count
    pc          \* pc[t]: where thread t is in its user code

qsemVars == <<k, frame, ret, sem, I386, qcount, pc>>

PCs == {"out", "sem_acquire", "returned", "in", "sem_release"}

QsemTypeOK ==
    /\ SemTypeOK
    /\ I386 \in BOOLEAN
    /\ qcount \in Int
    /\ pc \in [Task -> PCs]

goto(t, l) == pc' = [pc EXCEPT ![t] = l]

-----------------------------------------------------------------------------
\* Mutant: the last permit is handed out twice.
qsem_acquire_off_by_one(t) ==
    /\ ~I386
    /\ InUser(t) /\ pc[t] = "out"
    /\ qcount' = qcount - 1
    /\ goto(t, IF qcount < 0 THEN "sem_acquire" ELSE "in")
    /\ UNCHANGED <<semVars, I386>>

\* atomic_add() is a cmpxchg loop: it takes effect at the exchange that succeeds.
qsem_acquire(t) ==
    /\ ~I386
    /\ InUser(t) /\ pc[t] = "out"
    /\ qcount' = qcount - 1
    /\ goto(t, IF qcount <= 0 THEN "sem_acquire" ELSE "in")
    /\ UNCHANGED <<semVars, I386>>

qsem_sem_acquire(t) ==
    /\ pc[t] = IF I386 THEN "out" ELSE "sem_acquire"
    /\ sem_acquire(t, Mutex)
    /\ goto(t, "returned")
    /\ UNCHANGED <<qcount, I386>>

\* sem_acquire() is back in user mode; qsem_acquire() ignores its result.
qsem_acquired(t) ==
    /\ InUser(t) /\ pc[t] = "returned"
    /\ goto(t, "in")
    /\ UNCHANGED <<semVars, qcount, I386>>

\* Mutant: the kernel is entered with nobody waiting.
qsem_release_off_by_one(t) ==
    /\ ~I386
    /\ InUser(t) /\ pc[t] = "in"
    /\ qcount' = qcount + 1
    /\ goto(t, IF qcount <= 0 THEN "sem_release" ELSE "out")
    /\ UNCHANGED <<semVars, I386>>

qsem_release(t) ==
    /\ ~I386
    /\ InUser(t) /\ pc[t] = "in"
    /\ qcount' = qcount + 1
    /\ goto(t, IF qcount < 0 THEN "sem_release" ELSE "out")
    /\ UNCHANGED <<semVars, I386>>

qsem_sem_release(t) ==
    /\ pc[t] = IF I386 THEN "in" ELSE "sem_release"
    /\ sem_release(t, Mutex)
    /\ goto(t, "out")
    /\ UNCHANGED <<qcount, I386>>

-----------------------------------------------------------------------------
\* qsem_create(Permits) has returned, and the threads start to use the lock.
QsemInit ==
    /\ I386 \in BOOLEAN
    /\ k = Booted(Len(BootOrder))
    /\ frame = [t \in Task \cup {Idle} |-> UserFrame]
    /\ ret = [t \in Task |-> "ERR_NONE"]
    /\ sem = [s \in Sems |-> [live |-> s = Mutex, count |-> IF I386 THEN Permits ELSE 0,
                              owner |-> BootTeam[CHOOSE t \in Task : TRUE]]]
    /\ qcount = IF I386 THEN 0 ELSE Permits
    /\ pc = [t \in Task |-> "out"]

Enter(t) == qsem_acquire(t) \/ (pc[t] = "out" /\ qsem_sem_acquire(t))

\* A thread that has begun to acquire goes on until it has released again.
Proceed(t) ==
    \/ pc[t] # "out" /\ qsem_sem_acquire(t)
    \/ qsem_acquired(t) \/ qsem_release(t) \/ qsem_sem_release(t)
    \/ sem_acquire_return(t) /\ UNCHANGED <<qcount, pc, I386>>

QsemNext ==
    \/ timer_preempt /\ UNCHANGED <<qcount, pc, I386>>
    \/ \E t \in Task : Enter(t) \/ Proceed(t)

\* The timer ticks; a thread that gets the CPU again and again gets on with its
\* critical section, but need not ever ask for it.
QsemSpec ==
    /\ QsemInit /\ [][QsemNext]_qsemVars
    /\ WF_qsemVars(timer_preempt /\ UNCHANGED <<qcount, pc, I386>>)
    /\ \A t \in Task : SF_qsemVars(Proceed(t))

-----------------------------------------------------------------------------
(* Properties *)

At(l) == {t \in Task : pc[t] = l}

\* Threads that hold a permit: in the critical section, or on the way to it with
\* the kernel's semaphore acquired.
Holders == At("in") \cup {t \in At("returned") : k.waiting_on[t] # Mutex}

\* At most Permits threads are past the lock, wherever the timer strikes.
QsemExclusion == Cardinality(Holders) <= Permits

\* The kernel semaphore holds a unit, or a blocked thread, for exactly the threads
\* that are between their atomic_add() and their system call: no wake-up is lost
\* and none is made twice.
QsemBalance ==
    ~I386 => sem[Mutex].count = Cardinality(At("sem_acquire")) - Cardinality(At("sem_release"))
                                - (IF qcount < 0 THEN -qcount ELSE 0)

\* A thread that asks for the lock gets it.
QsemNoStarvation == \A t \in Task : pc[t] \in {"sem_acquire", "returned"} ~> pc[t] = "in"
=============================================================================
