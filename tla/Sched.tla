-------------------------------- MODULE Sched --------------------------------
(***************************************************************************)
(* The scheduler of the OpenBLT kernel: task control blocks, the wait      *)
(* queues that hang off every resource, and the context switch             *)
(* (kernel/resource.c, kernel/task.c, kernel/kernel.c).                    *)
(*                                                                         *)
(* The kernel runs on one CPU with interrupts disabled, so a system call   *)
(* or an interrupt handler runs without interruption up to its return to   *)
(* user mode or up to a context switch.  Each C function below is an       *)
(* operator from scheduler states to scheduler states; the modules that    *)
(* extend this one compose them into one action per handler.  A thread     *)
(* that lost the CPU in the middle of a call keeps its suspended kernel    *)
(* stack in frame[t] and goes on from there when it is current again.      *)
(***************************************************************************)
EXTENDS Integers, Sequences, Functions

CONSTANTS
    Task,      \* the task_t blocks that may sit on a queue
    Idle,      \* idle_task, which never does
    Exited,    \* "current" after destroy_kspace() left the kernel
    Rsrc,      \* the resource_t blocks: everything with a wait queue
    RunQ,      \* run_queue
    NoRsrc,    \* a NULL waiting_on
    Team,      \* the team_t blocks, which own threads, semaphores and ports
    BootOrder, \* the threads go_kernel() puts on the run queue, in order
    BootTeam   \* the team of each of them

ASSUME SchedAssumption ==
    /\ Idle \notin Task /\ Exited \notin Task /\ Idle # Exited
    /\ RunQ \in Rsrc /\ NoRsrc \notin Rsrc
    /\ BootTeam \in [Task -> Team]
    /\ BootOrder \in Seq(Task)
    /\ \A i, j \in 1 .. Len(BootOrder) : BootOrder[i] = BootOrder[j] => i = j

VARIABLES
    k,         \* scheduler state, a record of SchedState
    frame,     \* frame[t]: what thread t (or idle_task) does when it is next current
    ret        \* ret[t]: what the last system call of t returned (r.eax)

Flags == {"RUNNING", "READY", "DEAD", "WAITING", "SLEEP_IRQ", "FREE"}

\* What the waker of a thread tells it.
Status == {"ERR_NONE", "ERR_RESOURCE"}

\* What a system call returns.
Errors == Status \cup {"ERR_PERMISSION", "ERR_MEMORY", "ERR_SENDPORT",
                       "ERR_RECVPORT", "ERR_WOULD_BLOCK"}

SchedState ==
    [cur : Task \cup {Idle, Exited},        \* current
     q : [Rsrc -> Seq(Task)],               \* rsrc->queue
     flags : [Task -> Flags],               \* task->flags
     waiting_on : [Task -> Rsrc \cup {NoRsrc}],
     status : [Task -> Status],             \* task->status
     wait_time : [Task -> Nat],             \* task->wait_time
     team : [Task -> Team],                 \* task->rsrc.owner
     live : Int]                            \* live_tasks

-----------------------------------------------------------------------------
(* Wait queues *)

rsrc_enqueue(s, r, t) ==
    [s EXCEPT !.wait_time[t] = 0,
              !.flags[t] = "WAITING",
              !.waiting_on[t] = r,
              !.q[r] = Append(@, t)]

\* The comment in the code says "XXX fixme": the task goes to the tail.
rsrc_enqueue_ordered(s, r, t, wake_time) ==
    [s EXCEPT !.q[r] = Append(@, t),
              !.wait_time[t] = wake_time,
              !.flags[t] = "WAITING",
              !.waiting_on[t] = r]

\* The state after rsrc_dequeue() of a non-empty queue; the call returns its head.
rsrc_dequeue(s, r) ==
    [s EXCEPT !.waiting_on[Head(s.q[r])] = NoRsrc,
              !.flags[Head(s.q[r])] = "READY",
              !.q[r] = Tail(@)]

task_wake(s, t, status) == rsrc_enqueue([s EXCEPT !.status[t] = status], RunQ, t)

\* if(task = rsrc_dequeue(r)) task_wake(task, status)
wake_one(s, r, status) ==
    IF s.q[r] = << >> THEN s ELSE task_wake(rsrc_dequeue(s, r), Head(s.q[r]), status)

\* while(t = list_detach_head(&r->queue)) task_wake(t, status)
wake_all(s, r, status) ==
    LET woken == Range(s.q[r]) IN
    [s EXCEPT !.q[RunQ] = @ \o s.q[r],
              !.q[r] = << >>,
              !.status = [t \in Task |-> IF t \in woken THEN status ELSE @[t]],
              !.flags = [t \in Task |-> IF t \in woken THEN "WAITING" ELSE @[t]],
              !.wait_time = [t \in Task |-> IF t \in woken THEN 0 ELSE @[t]],
              !.waiting_on = [t \in Task |-> IF t \in woken THEN RunQ ELSE @[t]]]

-----------------------------------------------------------------------------
(* The context switch *)

running(s) == s.cur = Idle \/ (s.cur \in Task /\ s.flags[s.cur] = "RUNNING")

\* Mutant: the current thread goes to the head of the run queue.
requeue_current_first(s) ==
    IF s.cur = Idle THEN s
    ELSE [rsrc_enqueue(s, RunQ, s.cur) EXCEPT !.q[RunQ] = <<s.cur>> \o s.q[RunQ]]

\* Put the current thread back on the run queue; the idle task never goes there.
requeue_current(s) == IF s.cur = Idle THEN s ELSE rsrc_enqueue(s, RunQ, s.cur)

\* Mutant: the preempted thread is not put back on the run queue.
preempt_no_requeue(s, t, status) ==
    [s EXCEPT !.cur = t, !.status[t] = status, !.flags[t] = "RUNNING"]

preempt(s, t, status) ==
    [requeue_current(s) EXCEPT !.cur = t, !.status[t] = status, !.flags[t] = "RUNNING"]

\* The next candidate is the head of the run queue.
dispatch(s) ==
    IF s.q[RunQ] # << >>
    THEN LET t == Head(s.q[RunQ])
         IN  [rsrc_dequeue(s, RunQ) EXCEPT !.cur = t, !.flags[t] = "RUNNING"]
    ELSE [s EXCEPT !.cur = IF s.live # 0 THEN Idle ELSE Exited]

swtch(s) ==
    IF s.q[RunQ] = << >> /\ running(s) THEN s
    ELSE dispatch(IF running(s) THEN requeue_current(s) ELSE s)

\* wait_on() up to the context switch; it returns status[t] when t runs again.
wait_on(s, r) ==
    swtch(rsrc_enqueue([s EXCEPT !.status[s.cur] = "ERR_NONE"], r, s.cur))

-----------------------------------------------------------------------------
(* Who may act *)

UserFrame == [op |-> "user"]

\* Thread t executes user code, so it may enter the kernel by a system call.
InUser(t) == k.cur = t /\ frame[t] = UserFrame

\* A system call of t that returns without giving up the CPU.
Returns(t, r) == ret' = [ret EXCEPT ![t] = r] /\ frame' = [frame EXCEPT ![t] = UserFrame]

\* A system call of t that blocked on r and goes on as f says.
BlocksOn(t, r, f) ==
    k' = wait_on(k, r) /\ frame' = [frame EXCEPT ![t] = f] /\ UNCHANGED ret

\* Mutant: the idle task runs with interrupts disabled.
InterruptsOn_unless_idle == k.cur \in Task /\ frame[k.cur] = UserFrame

\* The CPU accepts interrupts in user mode and while it idles.
InterruptsOn == k.cur # Exited /\ frame[k.cur] = UserFrame

\* The state go_kernel() hands over to: the threads of BootOrder are on the run
\* queue, and its final swtch() lets the first of them run.
Booted(live) ==
    LET S == Range(BootOrder) IN
    dispatch([cur |-> Idle,
              q |-> [r \in Rsrc |-> IF r = RunQ THEN BootOrder ELSE << >>],
              flags |-> [t \in Task |-> IF t \in S THEN "WAITING" ELSE "FREE"],
              waiting_on |-> [t \in Task |-> IF t \in S THEN RunQ ELSE NoRsrc],
              status |-> [t \in Task |-> "ERR_NONE"],
              wait_time |-> [t \in Task |-> 0],
              team |-> BootTeam,
              live |-> live])

-----------------------------------------------------------------------------
(* What the queues promise *)

\* A thread on a queue is there once, knows which queue it is on and is
\* marked as waiting; the threads of the reaper queue are marked dead.
Placed(s, deadq) ==
    \A r \in Rsrc : \A i, j \in 1 .. Len(s.q[r]) :
        /\ s.waiting_on[s.q[r][i]] = r
        /\ s.flags[s.q[r][i]] = IF r = deadq THEN "DEAD" ELSE "WAITING"
        /\ s.q[r][i] = s.q[r][j] => i = j

\* Exactly the current thread is marked as running.
OneRunning(s) ==
    \A t \in Task : s.flags[t] = "RUNNING" <=> s.cur = t

\* No thread is lost: none was taken off a queue and forgotten, and one that
\* waits is on the queue it waits on.
NoneLost(s) ==
    \A t \in Task :
        /\ s.flags[t] # "READY"
        /\ s.flags[t] = "WAITING" =>
             s.waiting_on[t] \in Rsrc /\ t \in Range(s.q[s.waiting_on[t]])
=============================================================================
