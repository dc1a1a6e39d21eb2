# A TLA+ model of OpenBLT

OpenBLT is a small microkernel operating system for the PC: a kernel with
threads, teams, semaphores, message ports, areas of memory and interrupts, and
around it libraries and servers that talk to each other through ports and shared
areas. This directory models the kernel and the first user-level library on top
of it in TLA+, checks the models with TLC on small instances, and proves the
central facts about semaphores and the scheduler for instances of any size with
TLAPS.

## 1. The system and its parts

### How code runs

There is one CPU. System calls and interrupts enter the kernel through interrupt
gates, so they run with interrupts disabled up to their return or up to a context
switch (`kernel/fault.c`, `kernel/jump.S`). That fixes the grain of the models:

* a system call or an interrupt handler is **one action**, up to the point where
  it gives up the CPU;
* a thread that gave up the CPU in the middle of a call keeps its kernel stack;
  the model keeps what is left to do in `frame[t]`, and another action takes it
  from there when the thread is current again;
* in user mode the timer may strike at any point (`timer_preempt`, `port_timer`,
  `tick`, `irq_timer` and `timer_irq`, by module).

### The inventory

| part | source | state | operations | interacts with |
|---|---|---|---|---|
| scheduler, wait queues | `kernel/kernel.c`, `task.c`, `resource.c`, `list.c` | `current`, `run_queue`, the queue of each resource, `flags`, `waiting_on`, `status` of each task | `swtch`, `preempt`, `wait_on`, `task_wake`, `rsrc_enqueue`, `rsrc_dequeue` | everything that blocks |
| semaphores | `kernel/sem.c` | count, queue | create, destroy, acquire, release | scheduler, teams, qsem |
| ports | `kernel/port.c` | messages, count, master, reference count, options, two queues | create, destroy, option, send, receive | scheduler, teams, every server |
| timed sleep | `kernel/syscall.c`, `fault.c` | `timer_queue`, `kernel_timer`, wake-up times | `sleep`, `timer_irq` | scheduler |
| device interrupts | `kernel/fault.c`, `jump.S`, `i386.c`, `syscall.c` | `irq_task_map`, `task->irq`, the controller | `os_handle_irq`, `os_sleep_irq`, `irq_dispatch`, acknowledgement | scheduler, drivers |
| threads, teams, reaper | `kernel/task.c`, `team.c`, `kernel.c`, `syscall.c` | flags, `live_tasks`, reference counts of teams, `reaper_queue`, `reaper_sem` | create, spawn, wait, terminate, reap, teardown | semaphores, ports, memory |
| resource table | `kernel/resource.c` | `rmap`, `rfree`, owner lists | bind, release, set owner, find | all resources |
| memory | `kernel/memory.c`, `aspace.c` | free pages, kernel addresses, areas, page groups, page tables | area create, clone, destroy, resize, `brk`, address spaces | threads, `_execve` |
| user-level semaphores | `lib/libc/qsem.c` | a counter and a kernel semaphore | acquire, release | semaphores, all locks of the servers |
| libraries | `lib/libposix`, `lib/libblt`, `lib/libdl`, `lib/libwin`, `lib/libconsole` | descriptor table, connections, shared name page | file calls, name lookup, loading, drawing | servers |
| servers | `srv/*` | clients and their tables | message loops | ports, areas, interrupts |
| loaders, tools, commands | `boot`, `netboot`, `util`, `bin` | packets, images | boot protocol, packing | kernel start, servers |

`PROJECT.json` lists every part with its files and its status.

### What is hard here

* A thread that sleeps in `port_send()`, `port_recv()` or `sem_acquire()` goes on
  with the pointer it had, while the object may be destroyed, reused, slaved or
  taken by somebody else meanwhile.
* A wake-up is given to one thread, and another one may be faster.
* A thread is unlinked and linked by hand between the run queue, the queue of a
  resource, the timer queue and the reaper queue; a mistake loses it or runs it
  twice.
* The acknowledgement of an interrupt happens on the stack of the thread it
  interrupted.
* Teams die while others use what they own.
* Page groups are shared by areas of different teams, one of which grows while
  the other goes.
* In the user-level semaphore the counter and the kernel call are two steps.

What correctness means: nobody is lost or runs twice; no wake-up is lost; the
limits of queues hold; counts mean what they say; what is dead is freed, once;
no page has two owners and no stale mapping remains; an id names one thing; who
waits for something that happens goes on.

## 2. The modules

| module | models | state | abstract specification |
|---|---|---|---|
| `Sched` | scheduler and wait queues | `k` (the task blocks, the queues and `current`), `frame` (suspended calls), `ret` (results) | |
| `Sem` | semaphores | `sem` | `Semaphore` |
| `Port` | ports | `port` | |
| `Timer` | timed sleep | `kernel_timer` | |
| `Irq` | device interrupts | `irq_task_map`, `irq`, `pic` | |
| `Threads` | threads and teams, composed with `Sem` and `Port` | `team` | |
| `Qsem` | user-level semaphores over `Sem` | `qcount`, `pc` | |
| `RsrcTable` | ids, types, owners | `rmap`, `rfree`, `rsrc`, `resources` | `IdPool` |
| `Vm` | pages, areas, address spaces, `_execve` | `vm`, `threads`, `mine`, `exec`, `halt` | |
| `SchedProofs`, `SemProofs`, `PortProofs` | proofs | | |

**Functions and actions.** The C functions that handlers share (`rsrc_enqueue`,
`swtch`, `preempt`, `area_create`, ...) are operators from states to states under
their own names; an action composes them in the order of the code. `wait_on()` is
`BlocksOn`: it links the thread into the queue, switches, and leaves a frame. The
action with the suffix `_woken` or `_return` is the rest of the call.

**Semaphores.** `sem_release()` preempts: the caller goes to the tail of the run
queue and the woken thread runs at once. `Semaphore` says what a client may rely
on, without queues or context switches: a released unit goes to one of those who
wait, or becomes available. The refinement maps `avail` to the positive part of
the count and `waiting` to the elements of the queue.

**Ports.** An id and the block behind it are one in the model, because
`port_create()` reuses the block that was freed last, and a freed block keeps its
contents until then. A suspended sender or receiver holds that block in its frame.

**Interrupts.** The controller is external: requests are latched, a line is
delivered when it is not masked and no line of the same or a higher priority is in
service, and an end-of-interrupt ends the one of highest priority. Only the first
of the two controllers is modelled.

**Threads.** The reaper runs with interrupts disabled, so `team_destroy()` is
several steps of the reaper with nothing in between. A fault in user code is
`terminate`. User programs do not operate on the semaphore of the reaper.

**The resource table.** The list of a team is a sequence; the list of all
resources serves the debugger and is left out. A panic on exhaustion ends the run.

**Memory.** Sizes are in pages and a team is its address space. A panic ends the
run, and so does a write past the end of a page table (see `locate_span` below).
The rest is about the programs that call the kernel, taken from the ones in the
repository: a program destroys areas that it created; only `brk()` resizes, and
only the heap; `_execve()` spawns each image once. The heap of the boot team has
one page (two in the code). A thread that ends is freed in the same step; what may
happen in between is the matter of `Threads`. The free lists are kept in order,
so that states that differ in the order of frees are one; they are lists and not
sets so that a page freed twice shows.

## 3. The runs

| run | instance | distinct states | question |
|---|---|---|---|
| `sem` | 3 threads, 2 ids, counts to 2 | 81,774 | Are queues and counts exact, and is it the abstract semaphore? |
| `port` | 2 threads of 2 teams, 2 ports, queue of 1, invalid messages too | 806,550 | Do queues and reference counts survive every mix of slaving and destruction? |
| `port_race` | 4 threads, 1 port, queue of 2 | 500,868 | Is the limit kept and no wake-up lost? |
| `port_dead` | as `port_race` | violation | Does everybody leave a port that is destroyed? |
| `timer` | 3 threads, a clock of 8 values | 2,754 | Does every sleeper wake, and everyone run? |
| `irq` | 3 drivers with a line each | 3,032 | Is nobody asleep on a masked line, and is every interrupt acknowledged and served? |
| `irq_served` | as `irq` | violation | Is an interrupt served whatever the other drivers do? |
| `threads` | the reaper, 3 threads, 3 teams, 1 semaphore | 416,688 | Are counts of threads and teams exact, and nobody stranded? |
| `threads_ports` | the reaper, 2 threads, 3 teams, 1 port | 39,173 | Are owners alive, the dead freed, and waiters released? |
| `qsem` | 4 threads, one lock, both builds | 4,560 | Exclusion, no lost wake-up, no starvation? |
| `vm` | 2 address spaces of 7 pages, 11 pages, 8 areas | 39,766 | Does every page have one owner, and are all mappings right? |
| `rsrc_table` | 3 ids, 4 blocks, 2 teams | 22,838 | Is the free list exact, and is the table a pool of ids? |

What the properties say:

* `SemQueuesOK`, `PortQueuesOK`, `TimerQueuesOK`, `IrqQueuesOK`, `ThreadsQueuesOK`:
  each thread is on at most one queue, once, the one that `waiting_on` names; only
  the current thread is marked as running; where nobody can be left on a freed
  object, every blocked thread is also on its queue. Each includes the type
  invariant of its module; `SemTypeOK` is that of `Sem`.
* `CountIsWaiters`: a negative count is the number of blocked threads.
  `ImplementsSemaphore` is the refinement.
* `MasterLive`, `RefcountCoversSlaves`: the panic in `port_option()` is out of
  reach. The count may be too large, since destroying a slave does not give its
  reference back, but never too small.
* `QueueBounded`, `ReceiversServed`, `SendersServed`: while somebody sleeps, each
  message (each free place) has a woken thread on its way. Both hold for one port
  with valid messages. They do not hold when a port is slaved while senders wait
  for it, or when a woken sender fails with `ERR_MEMORY`; both are in the list of
  hazards.
* `SleepersWake`: every sleep ends, also behind a longer one in the unordered
  queue and across the wrap of the clock. It may end late, or early after a wrap.
  `EveryoneRuns`: the run queue is a round robin.
* `SleepersArmed`: a line is open exactly while its driver sleeps for it.
  `EoiOwed`: each interrupt in service is owed one acknowledgement, by a thread it
  interrupted. `ServedIfIdle`: a pending interrupt is served if the system becomes
  idle again and again.
* `LiveCount`, `TeamRefcount`, `DeathToll`, `OwnersLive`, `NobodyStranded`,
  `DeadAreReaped`, `WaitersReleased`: the accounts of threads, teams and the reaper
  are exact, and whoever terminates is freed and releases those who wait.
* `QsemExclusion`, `QsemBalance`, `QsemNoStarvation`: the counter and the kernel
  semaphore stay in balance, wherever the timer strikes.
* `PagesOwnedOnce`: each page is free or has one holder, none is lost.
  `MapsExact`: a page table is what the areas say. `GroupRefcount`: the count of a
  page group is the number of its areas. `KernelMapsOK`: kernel addresses are held
  once and mapped, or free once. `SpanIsRight`: `locate_span()` against a
  definition of a free span.
* `FreeListExact`, `FindIsRight`, `OwnerLists`, `ImplementsIdPool`: the table.

### Two disagreements with the documents

* `port_dead`. A receiver that was woken and finds the port empty goes back to
  sleep without looking the port up (`kernel/port.c:214`). If the port was
  destroyed in between, it sleeps on a freed block. `README.md:46` says that the
  call returns `ERR_RESOURCE` when the port does not exist. The counterexample has
  two receivers, a message that wakes the first, the second that takes it, and the
  destruction of the port before the first runs.
* `irq_served`. `irq_dispatch()` preempts before the entry code acknowledges the
  interrupt (`kernel/fault.c:167`, `jump.S:101`). If the thread that was
  interrupted is itself a driver, and then sleeps for an interrupt of the same or
  a lower priority, the acknowledgement waits for a wake-up that itself waits for
  the acknowledgement. `README.md:89` says that the task is scheduled when its
  interrupt is triggered. `ServedIfIdle` shows what is left: when the idle task
  was interrupted the acknowledgement always comes.

### Bounds

* `MaxCount`, `MaxRefcount`: units of a semaphore and references of a port; the
  guards of `sem_release` and `port_slave` keep to them. Two units and three
  references leave room for a count to be wrong by one either way.
* `MAX_MSGCOUNT` is 1 or 2 instead of 16: every case of the code compares with
  the limit or with zero. With four threads, two can sleep while two race.
* `TimerMod` = 8 instead of 2^32, delays of 0 to 3 ticks: every phase of the clock
  at which a sleep can begin before a wrap and end after it occurs. The delays
  are on both sides of each rounding step of `sleep()`.
* Lines 1, 3 and 5: one above, one between and one below.
* `vm`: two address spaces suffice for sharing, a page table of 7 entries with the
  line at 3 has room for the boot image, the heap, a stack and two or three areas;
  memory, kernel addresses and table space can all run out. `MaxThreads` and
  `MaxMine` limit the threads of a team and the areas of a program. An instance
  with 12 pages (583,745 states) was checked once as well.
* `rsrc_table`: more blocks than ids, so that the table is exhausted.
* Deadlock is checked in every run but two: after the panic of `rsrc_table` and
  `vm` the system has stopped. In the others the timer always ticks.

### Views and symmetry

`port`, `port_race`, `port_dead`, `threads` and `threads_ports` use a view without
`ret`: no step reads it. `vm` uses a view up to the names of pages, addresses,
areas and page groups, with the truth of the invariants included, so that a state
that violates one is never identified with one that does not. `rsrc_table` is
symmetric in blocks and in teams; it checks safety only (the refinement has no
fairness).

### Fairness

* The interval timer never stops: weak fairness of the timer interrupt, everywhere.
* Kernel code that has the CPU goes on: weak fairness of `ReaperStep`, `Resume`
  and `irq_return`.
* A latched request is delivered when the controller and the CPU let it, again and
  again: strong fairness of `irq_dispatch(n)`.
* The reaper, current again and again, gets to its first instruction, and a thread
  in a critical section, current again and again, gets on with it: strong fairness
  of `reaper_start` and `Proceed(t)`. Strong, since the timer can take the CPU away
  before the step. This is an assumption about programs: they do not stay in a
  critical section for ever.
* User programs owe nothing else: none has to call, release or terminate.

## 4. What is proved

| theorem | statement |
|---|---|
| `SemProofs!SemQueuesCorrect` | `SemSpec => [](SemTypeOK /\ SemQueuesOK)` |
| `SemProofs!SemCountsCorrect` | `SemSpec => []CountIsWaiters` |
| `PortProofs!PortQueuesCorrect` | `PortSpec => []PortQueuesOK` |
| `PortProofs!MasterAlwaysLive` | `PortSpec => [](MasterLive /\ RefcountCoversSlaves)` |
| `PortProofs!PortNeverOverfull` | `PortSpec => []QueueBounded` |

They hold for any sets of threads, teams, semaphores and ports, any limit on the
messages of a port and any bound on the counts. The assumptions are
`SchedAssumption` (the names of the special tasks and queues differ, the boot order
lists threads once), `SemAssumption` (semaphores are resources other than the run
queue, `MaxCount` is a natural number) and `PortAssumption` (ports and send queues
are different resources other than the run queue, `MAX_MSGCOUNT` is positive).

For semaphores the inductive invariant is `SemInv == SemTypeOK /\ SemQueuesOK /\ CountIsWaiters`.
None of its parts is inductive alone: a count is the length of its queue only if
no thread is on a queue twice, a woken thread comes off its queue only if it was
on no other, and both need the type of the state.

The handlers consist of queue operations, so the argument is made once per
operation, in `SchedProofs`. While a handler runs, a thread may be on its way from
one queue to another and the invariant does not hold. `Sound(s, d, X)` is the
invariant with the threads of `X` between queues (`d` is the queue of the dead).
`DequeueOK` takes a thread out and puts it into `X`, `EnqueueOK` takes it back;
`DispatchOK`, `SwtchOK`, `PreemptOK`, `WaitOnOK`, `WakeOneOK`, `WakeAllOK` and the
others follow the code of the context switch. `SemProofs` has one lemma per action
(`CreateOK`, `DestroyOK`, `AcquireOK`, `ReleaseOK`, `TimerOK`), `SemNextOK` joins
them.

For ports the invariant is `PortInv`: the queues are in order, the ports are typed
and linked, no port holds more than `MAX_MSGCOUNT` messages, and the frames name
ports. `port_create()` empties the queues of the port it makes, and whoever still
slept there is then on no queue at all (the finding of `port_dead`); the set `X` of
`Sound` is these threads (`Lost`), and the lemmas of `SchedProofs` keep it. The links
are `LinksOK`: `RefcountCoversSlaves` alone does not carry over a step, since the
size of the set of slaves means something only if the set is finite, so `LinksOK`
adds that. `CreateLinks` (nobody is slaved to a port that is not live),
`DestroyLinks` (who counts only itself has no slave) and `SlaveLinks` (the new
master gains what the old one loses, also if they are the same) are the argument.
The limit holds since `port_send()` tests it in the step that appends, after each
wait (`SendToOK`).

Only model-checked: liveness, since fairness and `ENABLED` are out of the reach of
the installed provers; the refinements; that no wake-up is lost; and for now all other modules. What a
recursive definition computes for every input cannot be proved either, since that
needs induction over data; `free_list` in `RsrcTable` is such a definition.

## 5. What is not modelled

* Payloads of messages, names, and what is printed.
* The second interrupt controller, faults other than as the end of a thread, the
  debugger, machine set-up, the multiprocessor build.
* The pager, whose entry is not installed, and rights, whose calls do nothing.
* The block pools of `kmalloc()`; `area_create_uber()`.
* Creation of a semaphore with a negative count, which no program asks for.
* The part of memory after an overrun of a page table: `locate_span()` returns a
  span at the end of the table that is too short. With a stack on the last page, as
  every team starts out, that cannot happen (`SpanIsRight`); in the boot team, after
  its first thread has ended, it can, and the model stops there.
* Libraries other than `qsem` and the areas of `_execve()`; all servers, loaders,
  tools and commands. See the plan.

## 6. Plan

In the order of their importance:

1. **More proofs**: `SleepersArmed` and `EoiOwed` for interrupts, `TeamRefcount` and
   `LiveCount` for threads, `FindIsRight` and `OwnerLists` for the table, and the step simulation of `Semaphore` by `Sem`.
2. **The file service**: the server of `srv/vfs` with its connections, descriptors
   and shared areas, the client of `lib/libposix`, and the name server, over an
   abstract port (messages in order, no loss). Questions: does a descriptor lead
   to the file it was opened for, are slots and areas given back on every path, do
   replies match requests. Abstract specification: a table of open files.
3. **Windows**: the region algebra of `srv/window/Region.cpp` against sets of
   points, the stack of windows and the drawing lock, the client in `lib/libwin`.
4. **The network**: the receive ring of the card, its interrupt handler and the
   reader (`srv/ne2000`, `srv/network`), message buffers, ARP.
5. **Network boot**: `netboot` and `util/netboot.c` over a net that loses, repeats
   and reorders packets; does the loaded image equal the one that was sent.
6. **Consoles and block devices**: switching and input queues of `srv/console2`,
   the requests of `srv/ide`.
7. **Algorithms**: the hash table of `lib/libblt`, `locate_span`, `strlcpy`,
   the loader's symbol lookup, against their definitions.
8. **The descriptor table** of `lib/libposix/fdl.c` inside the lock of `Qsem`, and
   the block pools under `Vm`.
