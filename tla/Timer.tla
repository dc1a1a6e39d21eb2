-------------------------------- MODULE Timer --------------------------------
(***************************************************************************)
(* Timed sleep: sleep() in kernel/syscall.c and timer_irq() in             *)
(* kernel/fault.c.  kernel_timer and the wake-up times are words of        *)
(* TimerMod values, so both wrap around.                                   *)
(***************************************************************************)
EXTENDS Sched

CONSTANTS
    TimerQ,     \* timer_queue
    TimerMod,   \* 2^32 in the code
    Delays      \* the microseconds threads ask to sleep for

ASSUME TimerAssumption ==
    /\ TimerQ \in Rsrc \ {RunQ}
    /\ TimerMod \in Nat \ {0}
    /\ Delays \subseteq Nat

VARIABLE kernel_timer

timerVars == <<k, frame, ret, kernel_timer>>

TimerTypeOK ==
    /\ k \in SchedState
    /\ frame \in [Task \cup {Idle} -> {UserFrame}]
    /\ ret \in [Task -> Errors]
    /\ kernel_timer \in 0 .. TimerMod - 1

-----------------------------------------------------------------------------
\* From microseconds to ticks of 3 ms.
ticks(us) == (us + 2000) \div 3000

sleep(t, us) ==
    /\ InUser(t)
    /\ k' = swtch(IF ticks(us) = 0 THEN k
                  ELSE rsrc_enqueue_ordered(k, TimerQ, t, (kernel_timer + ticks(us)) % TimerMod))
    /\ UNCHANGED <<frame, ret, kernel_timer>>

\* Mutant: a thread is due only after its time.
due_late(s, now) ==
    LET q == s.q[TimerQ]
        is_due(i) == s.wait_time[q[i]] < now
    IN  CHOOSE n \in 0 .. Len(q) :
            /\ \A i \in 1 .. n : is_due(i)
            /\ n < Len(q) => ~is_due(n + 1)

\* The leading threads of the timer queue that are due at time now: the loop stops
\* at the first thread that is not.  rsrc_queue_peek() has no return statement for
\* the empty queue; the loop ends there too.
due(s, now) ==
    LET q == s.q[TimerQ]
        is_due(i) == s.wait_time[q[i]] <= now
    IN  CHOOSE n \in 0 .. Len(q) :
            /\ \A i \in 1 .. n : is_due(i)
            /\ n < Len(q) => ~is_due(n + 1)

\* Mutant: the threads that are woken stay on the timer queue.
expire_no_dequeue(s, n) ==
    LET q == s.q[TimerQ]
        woken == {q[i] : i \in 1 .. n}
    IN  [s EXCEPT !.q[RunQ] = @ \o SubSeq(q, 1, n),
                  !.waiting_on = [t \in Task |-> IF t \in woken THEN RunQ ELSE @[t]]]

\* Move the first n threads of the timer queue to the run queue.
expire(s, n) ==
    LET q == s.q[TimerQ]
        woken == {q[i] : i \in 1 .. n}
    IN  [s EXCEPT !.q[RunQ] = @ \o SubSeq(q, 1, n),
                  !.q[TimerQ] = SubSeq(q, n + 1, Len(q)),
                  !.wait_time = [t \in Task |-> IF t \in woken THEN 0 ELSE @[t]],
                  !.flags = [t \in Task |-> IF t \in woken THEN "WAITING" ELSE @[t]],
                  !.waiting_on = [t \in Task |-> IF t \in woken THEN RunQ ELSE @[t]]]

timer_irq ==
    /\ InterruptsOn
    /\ kernel_timer' = (kernel_timer + 1) % TimerMod
    /\ k' = swtch(expire(k, due(k, kernel_timer')))
    /\ UNCHANGED <<frame, ret>>

-----------------------------------------------------------------------------
TimerInit ==
    /\ k = Booted(Len(BootOrder))
    /\ frame = [t \in Task \cup {Idle} |-> UserFrame]
    /\ ret = [t \in Task |-> "ERR_NONE"]
    /\ kernel_timer = 0

TimerNext == timer_irq \/ \E t \in Task, us \in Delays : sleep(t, us)

\* The interval timer never stops ticking.
TimerSpec == TimerInit /\ [][TimerNext]_timerVars /\ WF_timerVars(timer_irq)

-----------------------------------------------------------------------------
(* Properties *)

Asleep(t) == k.waiting_on[t] = TimerQ

\* Every sleeping thread is on the timer queue exactly once and every other thread
\* is runnable.
TimerQueuesOK == TimerTypeOK /\ Placed(k, NoRsrc) /\ OneRunning(k) /\ NoneLost(k)

\* Every sleeper wakes up, behind whatever longer sleepers it is queued and also
\* when the clock wraps around before its time has come.
SleepersWake == \A t \in Task : Asleep(t) ~> ~Asleep(t)

\* Every thread that wants the CPU gets it: the run queue is a round robin.
EveryoneRuns == \A t \in Task : (k.waiting_on[t] = RunQ) ~> (k.cur = t)
=============================================================================
