------------------------------- MODULE Threads -------------------------------
(***************************************************************************)
(* Threads and teams, composed with the semaphores and ports they own:     *)
(* thr_create(), thr_spawn(), thr_wait() and os_terminate()                *)
(* (kernel/kernel.c, task.c, syscall.c), the reaper thread that frees the  *)
(* dead, and the destruction of a team with its last thread (team.c).      *)
(*                                                                         *)
(* Every thread is a resource whose queue holds the threads that wait for  *)
(* its end.  The reaper runs with interrupts disabled, so the steps of its *)
(* loop below follow each other without another thread in between.         *)
(***************************************************************************)
EXTENDS Sem, Port

CONSTANTS
    Reaper,     \* the "grim reaper" kernel thread
    ReaperQ,    \* reaper_queue
    ReaperSem   \* reaper_sem

ASSUME ThreadsAssumption ==
    /\ Task \subseteq Rsrc \ {RunQ}
    /\ Reaper \in Task /\ ReaperSem \in Sems
    /\ ReaperQ \in Rsrc \ ({RunQ} \cup Task \cup Sems \cup Ports)
    /\ Sems \cap Ports = {} /\ Task \cap (Sems \cup Ports) = {}
    /\ \A p \in Ports : SendQ(p) \notin {ReaperQ} \cup Task \cup Sems

VARIABLE
    team        \* team[m] = [live, refcount]

threadVars == <<k, frame, ret, sem, port, team>>

\* What the reaper does next: ask for a dead thread, destroy the one it was told
\* of, or take team m apart.
AcquireFrame == [op |-> "reaper_acquire"]
ReapFrame == [op |-> "reap"]
TeardownFrame == [op : {"team_destroy"}, m : Team]

ThreadsTypeOK ==
    /\ k \in SchedState
    /\ frame \in [Task \cup {Idle} -> {UserFrame, SemFrame, AcquireFrame, ReapFrame}
                                      \cup TeardownFrame \cup SendFrame \cup RecvFrame]
    /\ ret \in [Task -> Errors]
    /\ sem \in [Sems -> SemState]
    /\ port \in [Ports -> PortState]
    /\ team \in [Team -> [live : BOOLEAN, refcount : Int]]

Exists(t) == k.flags[t] # "FREE"

-----------------------------------------------------------------------------
\* task_create(), rsrc_bind() and the first rsrc_enqueue() of thread u of team m.
start_thread(s, u, m) ==
    rsrc_enqueue([s EXCEPT !.flags[u] = "READY", !.waiting_on[u] = NoRsrc,
                           !.q[u] = << >>, !.team[u] = m, !.live = @ + 1], RunQ, u)

\* Mutant: the team does not count the new thread.
thr_create_no_count(t, u) ==
    /\ InUser(t)
    /\ ~Exists(u)
    /\ k' = start_thread(k, u, k.team[t])
    /\ frame' = [frame EXCEPT ![u] = UserFrame]
    /\ ret' = [ret EXCEPT ![t] = "ERR_NONE"]
    /\ UNCHANGED <<sem, port, team>>

thr_create(t, u) ==
    /\ InUser(t)
    /\ ~Exists(u)
    /\ k' = start_thread(k, u, k.team[t])
    /\ team' = [team EXCEPT ![k.team[t]].refcount = @ + 1]
    /\ frame' = [frame EXCEPT ![u] = UserFrame]
    /\ ret' = [ret EXCEPT ![t] = "ERR_NONE"]
    /\ UNCHANGED <<sem, port>>

\* team_create() and the first thread of the new team.
thr_spawn(t, u, m) ==
    /\ InUser(t)
    /\ ~Exists(u) /\ ~team[m].live
    /\ k' = start_thread(k, u, m)
    /\ team' = [team EXCEPT ![m] = [live |-> TRUE, refcount |-> 1]]
    /\ frame' = [frame EXCEPT ![u] = UserFrame]
    /\ ret' = [ret EXCEPT ![t] = "ERR_NONE"]
    /\ UNCHANGED <<sem, port>>

\* thr_wait() returns ERR_NONE whatever woke the thread.
thr_wait(t, u) ==
    /\ InUser(t)
    /\ IF Exists(u)
       THEN k' = wait_on(k, u) /\ Returns(t, "ERR_NONE")
       ELSE Returns(t, "ERR_RESOURCE") /\ UNCHANGED k
    /\ UNCHANGED <<sem, port, team>>

\* Mutant: the thread is not marked as dead.
terminate_not_dead(t) ==
    /\ InUser(t) /\ t # Reaper
    /\ LET dead == rsrc_enqueue([k EXCEPT !.live = @ - 1], ReaperQ, t)
           told == wake_one(wake_all(dead, t, "ERR_RESOURCE"), ReaperSem, "ERR_NONE")
       IN  k' = swtch(told)
    /\ sem' = [sem EXCEPT ![ReaperSem].count = @ + 1]
    /\ UNCHANGED <<frame, ret, port, team>>

\* Mutant: the dead thread is still counted as a live one.
terminate_still_live(t) ==
    /\ InUser(t) /\ t # Reaper
    /\ LET dead == [rsrc_enqueue(k, ReaperQ, t) EXCEPT !.flags[t] = "DEAD"]
           told == wake_one(wake_all(dead, t, "ERR_RESOURCE"), ReaperSem, "ERR_NONE")
       IN  k' = swtch(told)
    /\ sem' = [sem EXCEPT ![ReaperSem].count = @ + 1]
    /\ UNCHANGED <<frame, ret, port, team>>

\* Mutant: the reaper is not told.
terminate_silently(t) ==
    /\ InUser(t) /\ t # Reaper
    /\ LET dead == [rsrc_enqueue([k EXCEPT !.live = @ - 1], ReaperQ, t)
                      EXCEPT !.flags[t] = "DEAD"]
       IN  k' = swtch(wake_all(dead, t, "ERR_RESOURCE"))
    /\ UNCHANGED <<frame, ret, sem, port, team>>

\* A dead thread goes to the reaper queue, whoever waited for its end wakes up, and
\* the reaper is told.
terminate(t) ==
    /\ InUser(t) /\ t # Reaper
    /\ LET dead == [rsrc_enqueue([k EXCEPT !.live = @ - 1], ReaperQ, t)
                      EXCEPT !.flags[t] = "DEAD"]
           told == wake_one(wake_all(dead, t, "ERR_RESOURCE"), ReaperSem, "ERR_NONE")
       IN  k' = swtch(told)
    /\ sem' = [sem EXCEPT ![ReaperSem].count = @ + 1]
    /\ UNCHANGED <<frame, ret, port, team>>

-----------------------------------------------------------------------------
(* The reaper *)

\* cli: until then an interrupt may still take the CPU away.
reaper_start ==
    /\ InUser(Reaper)
    /\ frame' = [frame EXCEPT ![Reaper] = AcquireFrame]
    /\ UNCHANGED <<k, ret, sem, port, team>>

\* sem_acquire(reaper_sem)
reaper_acquire ==
    /\ k.cur = Reaper /\ frame[Reaper] = AcquireFrame
    /\ sem' = [sem EXCEPT ![ReaperSem].count = @ - 1]
    /\ IF sem[ReaperSem].count > 0
       THEN frame' = [frame EXCEPT ![Reaper] = ReapFrame] /\ UNCHANGED <<k, ret>>
       ELSE BlocksOn(Reaper, ReaperSem, ReapFrame)
    /\ UNCHANGED <<port, team>>

\* Mutant: the threads that still wait for the dead one are not woken.
reap_no_wake ==
    /\ k.cur = Reaper /\ frame[Reaper] = ReapFrame
    /\ LET u == Head(k.q[ReaperQ])
           m == k.team[u]
           left == team[m].refcount - 1
       IN  /\ k' = [rsrc_dequeue(k, ReaperQ) EXCEPT !.flags[u] = "FREE"]
           /\ team' = [team EXCEPT ![m].refcount = left]
           /\ frame' = [frame EXCEPT ![Reaper] =
                          IF left = 0 THEN [op |-> "team_destroy", m |-> m] ELSE AcquireFrame]
    /\ UNCHANGED <<ret, sem, port>>

\* rsrc_dequeue(reaper_queue) and task_destroy(), which goes on to team_destroy()
\* when this was the last thread of its team.
reap ==
    /\ k.cur = Reaper /\ frame[Reaper] = ReapFrame
    /\ LET u == Head(k.q[ReaperQ])
           m == k.team[u]
           left == team[m].refcount - 1
       IN  /\ k' = [wake_all(rsrc_dequeue(k, ReaperQ), u, "ERR_RESOURCE")
                      EXCEPT !.flags[u] = "FREE"]
           /\ team' = [team EXCEPT ![m].refcount = left]
           /\ frame' = [frame EXCEPT ![Reaper] =
                          IF left = 0 THEN [op |-> "team_destroy", m |-> m] ELSE AcquireFrame]
    /\ UNCHANGED <<ret, sem, port>>

owned_sems(m) == {s \in Sems : sem[s].live /\ sem[s].owner = m}
owned_ports(m) == {p \in Ports : port[p].live /\ port[p].owner = m}

tearing_down(m) == k.cur = Reaper /\ frame[Reaper] = [op |-> "team_destroy", m |-> m]

\* One round of the loop of team_destroy(); which resource comes next is left open.
team_destroy_sem(m, s) ==
    /\ tearing_down(m) /\ s \in owned_sems(m)
    /\ k' = wake_all(k, s, "ERR_RESOURCE")
    /\ sem' = [sem EXCEPT ![s].live = FALSE]
    /\ UNCHANGED <<frame, ret, port, team>>

\* port_destroy() refuses a master port, which stays behind without an owner.
team_destroy_port(m, p) ==
    /\ tearing_down(m) /\ p \in owned_ports(m)
    /\ IF port[p].refcount = 1
       THEN /\ k' = wake_all(wake_all(k, p, "ERR_RESOURCE"), SendQ(p), "ERR_RESOURCE")
            /\ port' = [port EXCEPT ![p].live = FALSE, ![p].owner = NoTeam]
       ELSE port' = [port EXCEPT ![p].owner = NoTeam] /\ UNCHANGED k
    /\ UNCHANGED <<frame, ret, sem, team>>

\* Mutant: the team is freed with ports left on its list.
team_destroy_end_early(m) ==
    /\ tearing_down(m)
    /\ owned_sems(m) = {}
    /\ team' = [team EXCEPT ![m].live = FALSE]
    /\ frame' = [frame EXCEPT ![Reaper] = AcquireFrame]
    /\ UNCHANGED <<k, ret, sem, port>>

team_destroy_end(m) ==
    /\ tearing_down(m)
    /\ owned_sems(m) = {} /\ owned_ports(m) = {}
    /\ team' = [team EXCEPT ![m].live = FALSE]
    /\ frame' = [frame EXCEPT ![Reaper] = AcquireFrame]
    /\ UNCHANGED <<k, ret, sem, port>>

ReaperStep ==
    \/ reaper_start \/ reaper_acquire \/ reap
    \/ \E m \in Team : \/ \E s \in Sems : team_destroy_sem(m, s)
                       \/ \E p \in Ports : team_destroy_port(m, p)
                       \/ team_destroy_end(m)

-----------------------------------------------------------------------------
\* timer_irq() with nobody asleep.
tick ==
    /\ InterruptsOn
    /\ k' = swtch(k)
    /\ UNCHANGED <<frame, ret, sem, port, team>>

\* go_kernel() has made the reaper's semaphore and the teams of the boot threads.
ThreadsInit ==
    /\ k = Booted(Len(BootOrder))
    /\ frame = [t \in Task \cup {Idle} |-> UserFrame]
    /\ ret = [t \in Task |-> "ERR_NONE"]
    /\ sem = [s \in Sems |-> [live |-> s = ReaperSem, count |-> 0, owner |-> BootTeam[Reaper]]]
    /\ port = [p \in Ports |-> [live |-> FALSE, msgs |-> << >>, slaved |-> NoPort,
                                refcount |-> 0, nowait |-> FALSE, owner |-> NoTeam]]
    /\ team = [m \in Team |->
                 LET n == Cardinality({t \in Range(BootOrder) : BootTeam[t] = m})
                 IN  [live |-> n > 0, refcount |-> n]]

\* What user threads do; none of them touches the reaper's semaphore.
UserCall(t) ==
    \/ \E u \in Task : thr_create(t, u) \/ thr_wait(t, u)
    \/ \E u \in Task, m \in Team : thr_spawn(t, u, m)
    \/ terminate(t)
    \/ \E s \in Sems \ {ReaperSem} : SemCallOn(t, s) /\ UNCHANGED <<port, team>>
    \/ PortCall(t) /\ UNCHANGED <<sem, team>>

Resume(t) ==
    \/ sem_acquire_return(t) /\ UNCHANGED <<port, team>>
    \/ PortResume(t) /\ UNCHANGED <<sem, team>>

ThreadsNext ==
    \/ tick
    \/ ReaperStep
    \/ \E t \in Task \ {Reaper} : UserCall(t) \/ Resume(t)

\* The timer ticks for ever, and kernel code that has the CPU goes on; the reaper,
\* scheduled again and again, once gets to its cli.  User code owes the kernel
\* nothing.
ThreadsSpec ==
    /\ ThreadsInit /\ [][ThreadsNext]_threadVars
    /\ WF_threadVars(tick) /\ WF_threadVars(ReaperStep) /\ SF_threadVars(reaper_start)
    /\ \A t \in Task : WF_threadVars(Resume(t))

-----------------------------------------------------------------------------
(* Properties *)

\* The queues are in order and the dead are only ever on the reaper queue: neither
\* swtch() nor preempt() can meet "The dead have returned!".
ThreadsQueuesOK == ThreadsTypeOK /\ Placed(k, ReaperQ) /\ OneRunning(k)

\* live_tasks counts the threads that have not terminated; the reaper is one of
\* them for ever, so the kernel never runs out of tasks and exits.
LiveCount ==
    /\ k.live = Cardinality({t \in Task : k.flags[t] \notin {"FREE", "DEAD"}})
    /\ k.cur # Exited

\* A team counts its threads up to the moment they are reaped, so that
\* team_destroy() never meets a thread ("oops... cannot destroy team").
TeamRefcount ==
    \A m \in Team : team[m].refcount = Cardinality({t \in Task : Exists(t) /\ k.team[t] = m})

\* The reaper is told of every dead thread exactly once: it never finds its queue
\* empty, and leaves nobody on it.
DeathToll ==
    Len(k.q[ReaperQ]) =
        IF sem[ReaperSem].count > 0 THEN sem[ReaperSem].count
                                         + (IF frame[Reaper] = ReapFrame THEN 1 ELSE 0)
        ELSE IF frame[Reaper] = ReapFrame /\ k.waiting_on[Reaper] # ReaperSem THEN 1 ELSE 0

\* Nothing that is live belongs to a team that is gone.
OwnersLive ==
    /\ \A s \in Sems : sem[s].live => team[sem[s].owner].live
    /\ \A p \in Ports : port[p].live /\ port[p].owner # NoTeam => team[port[p].owner].live
    /\ \A t \in Task : Exists(t) => team[k.team[t]].live

\* Nobody is lost on the way from one queue to another, or left waiting for a thread
\* that was freed or on a semaphore that is gone.
NobodyStranded ==
    /\ NoneLost(k)
    /\ \A u \in Task : ~Exists(u) => k.q[u] = << >>
    /\ CountIsWaiters

\* Every thread that terminates is freed in the end.
DeadAreReaped == \A t \in Task : k.flags[t] = "DEAD" ~> k.flags[t] = "FREE"

\* Whoever waits for a thread that has terminated goes on.
WaitersReleased ==
    \A t, u \in Task :
        (k.waiting_on[t] = u /\ k.flags[u] = "DEAD") ~> (k.waiting_on[t] # u)
=============================================================================
