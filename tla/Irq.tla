--------------------------------- MODULE Irq ---------------------------------
(***************************************************************************)
(* Device interrupts: os_handle_irq() and os_sleep_irq() in                *)
(* kernel/syscall.c, irq_dispatch() in kernel/fault.c, and the entry code  *)
(* in kernel/jump.S, which acknowledges an interrupt only when             *)
(* irq_dispatch() has returned.  Because irq_dispatch() preempts, that is  *)
(* when the interrupted thread, or idle_task, runs again.                  *)
(*                                                                         *)
(* The interrupt controller is external: requests are latched in irr, a    *)
(* line is delivered when it is neither masked nor blocked by a line of    *)
(* the same or a higher priority in service, and an end-of-interrupt ends  *)
(* the one of highest priority.  A smaller number is a higher priority.    *)
(* Only the lines of the first controller are modelled.                    *)
(***************************************************************************)
EXTENDS Sched, FiniteSets

CONSTANTS
    Irqs,       \* the device lines, a set of numbers from 1 on
    NoTask,     \* a NULL entry of irq_task_map
    Drivers     \* Drivers[t]: the lines thread t may ask for

ASSUME IrqAssumption ==
    /\ Irqs \subseteq Nat \ {0}
    /\ NoTask \notin Task
    /\ Drivers \in [Task -> SUBSET Irqs]

VARIABLES
    irq_task_map,
    irq,        \* irq[t]: task->irq
    pic         \* the interrupt controller

irqVars == <<k, frame, ret, irq_task_map, irq, pic>>

\* An interrupted thread that has yet to acknowledge the interrupt.
EoiFrame == [op |-> "eoi"]

IrqTypeOK ==
    /\ k \in SchedState
    /\ frame \in [Task \cup {Idle} -> {UserFrame, EoiFrame}]
    /\ ret \in [Task -> Errors]
    /\ irq_task_map \in [Irqs -> Task \cup {NoTask}]
    /\ irq \in [Task -> Irqs \cup {0}]
    /\ pic \in [imr : SUBSET Irqs, irr : SUBSET Irqs, isr : SUBSET Irqs]

-----------------------------------------------------------------------------
\* A device requests an interrupt.
raise(n) ==
    /\ pic' = [pic EXCEPT !.irr = @ \cup {n}]
    /\ UNCHANGED <<k, frame, ret, irq_task_map, irq>>

\* The controller would interrupt the CPU with line n.
deliverable(n) ==
    n \in pic.irr /\ n \notin pic.imr /\ \A m \in pic.isr : n < m

\* The lines in service after an end-of-interrupt.
eoi(isr) == {m \in isr : \E h \in isr : h < m}

os_handle_irq(t, n) ==
    /\ InUser(t)
    /\ irq' = [irq EXCEPT ![t] = n]
    /\ irq_task_map' = [irq_task_map EXCEPT ![n] = t]
    /\ UNCHANGED <<k, frame, ret, pic>>

os_sleep_irq(t) ==
    /\ InUser(t)
    /\ IF irq[t] = 0
       THEN k' = swtch(k) /\ UNCHANGED pic
       ELSE /\ k' = swtch([k EXCEPT !.flags[t] = "SLEEP_IRQ"])
            /\ pic' = [pic EXCEPT !.imr = @ \ {irq[t]}]
    /\ UNCHANGED <<frame, ret, irq_task_map, irq>>

\* Mutant: the line is not masked.
irq_dispatch_no_mask(n) ==
    /\ InterruptsOn
    /\ deliverable(n)
    /\ LET t == irq_task_map[n]
       IN  IF t # NoTask /\ k.flags[t] = "SLEEP_IRQ"
           THEN /\ k' = preempt(k, t, "ERR_NONE")
                /\ frame' = [frame EXCEPT ![k.cur] = EoiFrame]
                /\ pic' = [pic EXCEPT !.irr = @ \ {n}, !.isr = @ \cup {n}]
           ELSE /\ pic' = [pic EXCEPT !.irr = @ \ {n}]
                /\ UNCHANGED <<k, frame>>
    /\ UNCHANGED <<ret, irq_task_map, irq>>

\* Line n interrupts the CPU.  A handler that sleeps takes over at once, and the
\* interrupted thread owes the acknowledgement.
irq_dispatch(n) ==
    /\ InterruptsOn
    /\ deliverable(n)
    /\ LET t == irq_task_map[n]
           accepted == [imr |-> pic.imr \cup {n}, irr |-> pic.irr \ {n}, isr |-> pic.isr \cup {n}]
       IN  IF t # NoTask /\ k.flags[t] = "SLEEP_IRQ"
           THEN /\ k' = preempt(k, t, "ERR_NONE")
                /\ frame' = [frame EXCEPT ![k.cur] = EoiFrame]
                /\ pic' = accepted
           ELSE /\ pic' = [accepted EXCEPT !.isr = eoi(@)]
                /\ UNCHANGED <<k, frame>>
    /\ UNCHANGED <<ret, irq_task_map, irq>>

\* Mutant: the interrupt is not acknowledged.
irq_return_no_eoi(t) ==
    /\ k.cur = t /\ frame[t] = EoiFrame
    /\ frame' = [frame EXCEPT ![t] = UserFrame]
    /\ UNCHANGED <<k, ret, irq_task_map, irq, pic>>

\* The interrupted thread runs again: outb 0x20, popa, iret.
irq_return(t) ==
    /\ k.cur = t /\ frame[t] = EoiFrame
    /\ pic' = [pic EXCEPT !.isr = eoi(@)]
    /\ frame' = [frame EXCEPT ![t] = UserFrame]
    /\ UNCHANGED <<k, ret, irq_task_map, irq>>

\* timer_irq() with nobody asleep.  Line 0 has the highest priority and is
\* acknowledged on entry, so no other line ever blocks it.
irq_timer ==
    /\ InterruptsOn
    /\ k' = swtch(k)
    /\ UNCHANGED <<frame, ret, irq_task_map, irq, pic>>

-----------------------------------------------------------------------------
\* remap_irqs() masks every device line.
IrqInit ==
    /\ k = Booted(Len(BootOrder))
    /\ frame = [t \in Task \cup {Idle} |-> UserFrame]
    /\ ret = [t \in Task |-> "ERR_NONE"]
    /\ irq_task_map = [n \in Irqs |-> NoTask]
    /\ irq = [t \in Task |-> 0]
    /\ pic = [imr |-> Irqs, irr |-> {}, isr |-> {}]

IrqCall(t) == os_sleep_irq(t) \/ \E n \in Drivers[t] : os_handle_irq(t, n)

IrqNext ==
    \/ irq_timer
    \/ \E n \in Irqs : raise(n) \/ irq_dispatch(n)
    \/ \E t \in Task \cup {Idle} : irq_return(t)
    \/ \E t \in Task : IrqCall(t)

\* The CPU takes the interrupts it is offered, the timer ticks, and code that the
\* CPU runs goes on.
IrqFairness ==
    /\ WF_irqVars(irq_timer)
    /\ \A n \in Irqs : SF_irqVars(irq_dispatch(n))
    /\ \A t \in Task \cup {Idle} : WF_irqVars(irq_return(t))

IrqSpec == IrqInit /\ [][IrqNext]_irqVars /\ IrqFairness

-----------------------------------------------------------------------------
(* Properties *)

\* The queues are in order, and a thread that sleeps for an interrupt is on none.
IrqQueuesOK == IrqTypeOK /\ Placed(k, NoRsrc) /\ OneRunning(k) /\ NoneLost(k)

\* With one driver per line, a line is open exactly while its driver sleeps for it:
\* no interrupt is dispatched to a driver that does not wait for it, and lost, and
\* no driver waits for a line that stays masked.
SleepersArmed ==
    \A n \in Irqs :
        n \notin pic.imr <=> \E t \in Task : /\ k.flags[t] = "SLEEP_IRQ"
                                             /\ irq[t] = n /\ irq_task_map[n] = t

\* Every interrupt in service is owed exactly one acknowledgement, by a thread
\* that was interrupted.
EoiOwed ==
    Cardinality(pic.isr) = Cardinality({t \in Task \cup {Idle} : frame[t] = EoiFrame})

Pending(n) == n \in pic.irr /\ n \notin pic.imr

\* An interrupt that a driver waits for wakes it up, in every run in which the
\* system becomes idle again and again.
ServedIfIdle == []<>(k.cur = Idle) => \A n \in Irqs : Pending(n) ~> ~Pending(n)

=============================================================================
