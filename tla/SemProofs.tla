------------------------------ MODULE SemProofs ------------------------------
(***************************************************************************)
(* The kernel semaphores are correct for any number of threads and of      *)
(* semaphores and any bound on the counts.  The inductive invariant is the *)
(* conjunction of what the runs of MCSem check: the meaning of a count     *)
(* needs queues in order (a thread dequeued twice would be counted twice), *)
(* and the queue order needs the type of the scheduler state.              *)
(***************************************************************************)
EXTENDS Sem, SchedProofs

\* What holds in every state between two handlers.
SemInv == SemTypeOK /\ SemQueuesOK /\ CountIsWaiters

\* The scheduler's part of the invariant.
LEMMA SemSound ==
    ASSUME NEW s \in SchedState
    PROVE  (Placed(s, NoRsrc) /\ OneRunning(s) /\ NoneLost(s))
              <=> (Sound(s, NoRsrc, {}) /\ OneRunning(s))
BY SettledIsNoneLost DEF Sound

\* What the queue of a semaphore says about its count.
CountOK(c, live, q) ==
    IF live THEN Len(q) = IF c < 0 THEN -c ELSE 0 ELSE q = << >>

\* The same as CountIsWaiters says it.
LEMMA CountsAre ==
    ASSUME NEW ss \in [Sems -> SemState], NEW q \in [Rsrc -> Seq(Task)]
    PROVE  (\A s \in Sems : Len(q[s]) = IF ss[s].live /\ ss[s].count < 0 THEN -ss[s].count ELSE 0)
             <=> \A s \in Sems : CountOK(ss[s].count, ss[s].live, q[s])
<1> SUFFICES ASSUME NEW s \in Sems
             PROVE  (Len(q[s]) = IF ss[s].live /\ ss[s].count < 0 THEN -ss[s].count ELSE 0)
                      <=> CountOK(ss[s].count, ss[s].live, q[s])
  OBVIOUS
<1>1. q[s] \in Seq(Task)
  BY SemAssumption
<1>2. Len(q[s]) = 0 <=> q[s] = << >>
  BY <1>1
<1> QED BY <1>2 DEF CountOK

\* The invariant in the terms of the scheduler's lemmas.
SemInvK(kk, ss) ==
    /\ Sound(kk, NoRsrc, {}) /\ OneRunning(kk) /\ ss \in [Sems -> SemState]
    /\ \A s \in Sems : CountOK(ss[s].count, ss[s].live, kk.q[s])

\* The two forms of the invariant agree.
LEMMA SemInvIs ==
    SemInv <=> /\ frame \in [Task \cup {Idle} -> {UserFrame, SemFrame}]
               /\ ret \in [Task -> Errors]
               /\ SemInvK(k, sem)
<1>1. SemInvK(k, sem) => k \in SchedState /\ sem \in [Sems -> SemState]
  BY DEF SemInvK, Sound
<1>2. k \in SchedState /\ sem \in [Sems -> SemState] =>
        (SemInvK(k, sem) <=> SemQueuesOK /\ CountIsWaiters)
  BY SemSound, CountsAre DEF SemInvK, SemQueuesOK, CountIsWaiters, SchedState
<1> QED BY <1>1, <1>2 DEF SemInv, SemTypeOK

\* The same after a step.
LEMMA SemInvIsNext ==
    SemInv' <=> /\ frame' \in [Task \cup {Idle} -> {UserFrame, SemFrame}]
                /\ ret' \in [Task -> Errors]
                /\ SemInvK(k', sem')
<1>1. SemInvK(k', sem') => k' \in SchedState /\ sem' \in [Sems -> SemState]
  BY DEF SemInvK, Sound
<1>2. k' \in SchedState /\ sem' \in [Sems -> SemState] =>
        (SemInvK(k', sem') <=> (SemQueuesOK /\ CountIsWaiters)')
  BY SemSound, CountsAre DEF SemInvK, SemQueuesOK, CountIsWaiters, SchedState
<1> QED BY <1>1, <1>2 DEF SemInv, SemTypeOK

\* The initial state.
LEMMA SemInitOK == SemInit => SemInv
<1> SUFFICES ASSUME SemInit PROVE SemInv
  OBVIOUS
<1>0. Sems \subseteq Rsrc \ {RunQ} /\ NoRsrc \notin Rsrc /\ Len(BootOrder) \in Int
  BY SchedAssumption, SemAssumption
<1>1. /\ Sound(k, NoRsrc, {}) /\ OneRunning(k)
      /\ \A r \in Rsrc \ {RunQ} : k.q[r] = << >>
  BY <1>0, BootedOK DEF SemInit
<1>2. sem \in [Sems -> SemState] /\ \A s \in Sems : ~sem[s].live
  <2> DEFINE D == {[live |-> FALSE, count |-> 0, owner |-> m] : m \in Team}
  <2>1. ASSUME NEW x \in D PROVE x \in SemState /\ ~x.live
    <3>1. PICK m \in Team : x = [live |-> FALSE, count |-> 0, owner |-> m]
      OBVIOUS
    <3>2. x.live = FALSE /\ x \in SemState
      BY <3>1 DEF SemState
    <3> QED BY <3>2
  <2>2. sem \in [Sems -> D]
    BY DEF SemInit
  <2> HIDE DEF D
  <2> QED BY <2>1, <2>2
<1>3. SemInvK(k, sem)
  BY <1>0, <1>1, <1>2 DEF SemInvK, CountOK
<1>4. /\ frame \in [Task \cup {Idle} -> {UserFrame, SemFrame}]
      /\ ret \in [Task -> Errors]
  BY DEF SemInit, Errors, Status
<1> QED BY <1>3, <1>4, SemInvIs

\* Facts every action starts from: the caller is the running thread.
LEMMA CallerRuns ==
    ASSUME SemInv, NEW t \in Task, k.cur = t
    PROVE  /\ Sound(k, NoRsrc, {}) /\ OneRunning(k) /\ k \in SchedState
           /\ k.flags[t] = "RUNNING" /\ NoRsrc # RunQ /\ RunQ \in Rsrc
           /\ NoRsrc \notin Rsrc /\ Sems \subseteq Rsrc \ {RunQ, NoRsrc}
           /\ sem \in [Sems -> SemState]
           /\ \A s \in Sems : CountOK(sem[s].count, sem[s].live, k.q[s])
BY SemInvIs, SchedAssumption, SemAssumption DEF SemInvK, Sound, OneRunning

\* The frames and the results stay typed when a call returns.
LEMMA ReturnsTyped ==
    ASSUME SemTypeOK, NEW t \in Task, NEW r \in Errors, Returns(t, r)
    PROVE  /\ frame' \in [Task \cup {Idle} -> {UserFrame, SemFrame}]
           /\ ret' \in [Task -> Errors]
BY DEF SemTypeOK, Returns

\* sem_create(): a free semaphore had no waiters, so its queue stays empty.
LEMMA CreateOK ==
    ASSUME SemInv, NEW t \in Task, NEW s \in Sems, NEW n \in 0 .. MaxCount, sem_create(t, s, n)
    PROVE  SemInvK(k', sem')
<1>0. MaxCount \in Nat /\ k.cur = t /\ ~sem[s].live
  BY SemAssumption DEF sem_create, InUser
<1>1. /\ Sound(k, NoRsrc, {}) /\ OneRunning(k) /\ k \in SchedState /\ s \in Rsrc
      /\ sem \in [Sems -> SemState]
      /\ \A s1 \in Sems : CountOK(sem[s1].count, sem[s1].live, k.q[s1])
  BY <1>0, CallerRuns
<1>2. k.q[s] = << >>
  BY <1>0, <1>1 DEF CountOK
<1>3. [k EXCEPT !.q[s] = << >>] = k
  BY <1>1, <1>2 DEF SchedState
<1>4. k' = k
  BY <1>3 DEF sem_create
<1> DEFINE x == [live |-> TRUE, count |-> n, owner |-> k.team[t]]
<1>5. x \in SemState /\ x.live = TRUE /\ x.count = n /\ sem' = [sem EXCEPT ![s] = x]
  BY <1>0, <1>1, Fields DEF SemState, sem_create
<1> HIDE DEF x
<1>6. sem' \in [Sems -> SemState] /\ sem'[s] = x /\ \A s1 \in Sems \ {s} : sem'[s1] = sem[s1]
  BY <1>1, <1>5
<1>7. CountOK(x.count, x.live, k.q[s])
  BY <1>0, <1>2, <1>5 DEF CountOK
<1> QED BY <1>1, <1>4, <1>6, <1>7 DEF SemInvK

\* sem_destroy(): every waiter ends on the run queue.
LEMMA DestroyOK ==
    ASSUME SemInv, NEW t \in Task, NEW s \in Sems, sem_destroy(t, s)
    PROVE  SemInvK(k', sem')
<1>0. k.cur = t /\ k' = wake_all(k, s, "ERR_RESOURCE") /\ "ERR_RESOURCE" \in Status
  BY DEF sem_destroy, InUser, Status
<1>1. /\ Sound(k, NoRsrc, {}) /\ OneRunning(k) /\ s \in Rsrc \ {RunQ, NoRsrc} /\ NoRsrc # RunQ
      /\ sem \in [Sems -> SemState] /\ Sems \subseteq Rsrc \ {RunQ, NoRsrc}
      /\ \A s1 \in Sems : CountOK(sem[s1].count, sem[s1].live, k.q[s1])
  BY <1>0, CallerRuns
<1>2. /\ Sound(k', NoRsrc, {}) /\ OneRunning(k') /\ k'.q[s] = << >>
      /\ \A r \in Rsrc \ {RunQ, s} : k'.q[r] = k.q[r]
  BY <1>0, <1>1, WakeAllOK
<1>3. /\ sem' \in [Sems -> SemState] /\ sem'[s].live = FALSE
      /\ \A s1 \in Sems \ {s} : sem'[s1] = sem[s1]
  BY <1>1 DEF sem_destroy, SemState
<1>4. CountOK(sem'[s].count, sem'[s].live, k'.q[s])
  BY <1>2, <1>3 DEF CountOK
<1>5. \A s1 \in Sems \ {s} : k'.q[s1] = k.q[s1]
  BY <1>1, <1>2
<1> QED BY <1>1, <1>2, <1>3, <1>4, <1>5 DEF SemInvK

\* A step that only changes the count of one semaphore.
LEMMA NewCount ==
    ASSUME NEW ss \in [Sems -> SemState], NEW s \in Sems, ss[s].live, NEW c \in Int,
           NEW s2, s2 = [ss EXCEPT ![s].count = c]
    PROVE  /\ s2 \in [Sems -> SemState] /\ s2[s].live /\ s2[s].count = c
           /\ ss[s].count \in Int
           /\ \A s1 \in Sems \ {s} : s2[s1] = ss[s1]
<1> DEFINE y == [ss[s] EXCEPT !.count = c]
<1>1. ss[s] \in SemState
  OBVIOUS
<1>2. y \in SemState /\ y.count = c /\ ss[s].count \in Int
  BY <1>1 DEF SemState
<1>3. y.live = ss[s].live
  BY <1>1, Zenon DEF SemState
<1>4. s2 = [ss EXCEPT ![s] = y]
  BY Zenon
<1> HIDE DEF y
<1> QED BY <1>2, <1>3, <1>4

\* sem_acquire(): the count goes down by one, and the caller waits if it was used up.
LEMMA AcquireOK ==
    ASSUME SemInv, NEW t \in Task, NEW s \in Sems, sem_acquire(t, s)
    PROVE  SemInvK(k', sem')
<1>0. k.cur = t /\ sem[s].live /\ sem' = [sem EXCEPT ![s].count = @ - 1]
  BY DEF sem_acquire, InUser
<1>1. /\ Sound(k, NoRsrc, {}) /\ OneRunning(k) /\ s \in Rsrc \ {RunQ, NoRsrc} /\ NoRsrc # RunQ
      /\ sem \in [Sems -> SemState] /\ Sems \subseteq Rsrc \ {RunQ, NoRsrc}
      /\ \A s1 \in Sems : CountOK(sem[s1].count, sem[s1].live, k.q[s1])
      /\ k.q[s] \in Seq(Task)
  BY <1>0, CallerRuns, Fields
<1>2. /\ sem' \in [Sems -> SemState] /\ sem'[s].live
      /\ sem'[s].count = sem[s].count - 1 /\ sem[s].count \in Int
      /\ \A s1 \in Sems \ {s} : sem'[s1] = sem[s1]
  <2>1. sem[s].count \in Int
    BY <1>1 DEF SemState
  <2>2. sem' = [sem EXCEPT ![s].count = sem[s].count - 1] /\ sem[s].count - 1 \in Int
    BY <1>0, <2>1
  <2> QED BY <1>0, <1>1, <2>1, <2>2, NewCount
<1>3. Len(k.q[s]) = IF sem[s].count < 0 THEN -sem[s].count ELSE 0
  BY <1>0, <1>1 DEF CountOK
<1>4. CASE sem[s].count > 0
  <2>1. k' = k
    BY <1>4 DEF sem_acquire
  <2>2. CountOK(sem'[s].count, sem'[s].live, k.q[s])
    BY <1>0, <1>2, <1>3, <1>4 DEF CountOK
  <2> QED BY <1>1, <1>2, <2>1, <2>2 DEF SemInvK
<1>5. CASE ~(sem[s].count > 0)
  <2>1. k' = wait_on(k, s)
    BY <1>5 DEF sem_acquire, BlocksOn
  <2>2. /\ Sound(k', NoRsrc, {}) /\ OneRunning(k')
        /\ k'.q[s] = Append(k.q[s], k.cur)
        /\ \A r \in Rsrc \ {RunQ, s} : k'.q[r] = k.q[r]
    BY <1>0, <1>1, <2>1, WaitOnOK
  <2>3. Len(k'.q[s]) = Len(k.q[s]) + 1
    BY <1>0, <1>1, <2>2, AppendElements
  <2>4. CountOK(sem'[s].count, sem'[s].live, k'.q[s])
    BY <1>0, <1>2, <1>3, <1>5, <2>3 DEF CountOK
  <2>5. \A s1 \in Sems \ {s} : k'.q[s1] = k.q[s1]
    BY <1>1, <2>2
  <2> QED BY <1>1, <1>2, <2>2, <2>4, <2>5 DEF SemInvK
<1> QED BY <1>4, <1>5

\* sem_release(): the count goes up by one, and the first waiter runs at once.
LEMMA ReleaseOK ==
    ASSUME SemInv, NEW t \in Task, NEW s \in Sems, sem_release(t, s)
    PROVE  SemInvK(k', sem')
<1>0. k.cur = t /\ sem[s].live /\ sem' = [sem EXCEPT ![s].count = @ + 1]
  BY DEF sem_release, InUser
<1>1. /\ Sound(k, NoRsrc, {}) /\ OneRunning(k) /\ s \in Rsrc \ {RunQ, NoRsrc} /\ NoRsrc # RunQ
      /\ sem \in [Sems -> SemState] /\ Sems \subseteq Rsrc \ {RunQ, NoRsrc}
      /\ \A s1 \in Sems : CountOK(sem[s1].count, sem[s1].live, k.q[s1])
      /\ k \in SchedState /\ k.q[s] \in Seq(Task) /\ k.flags[t] = "RUNNING"
  BY <1>0, CallerRuns, Fields
<1>2. /\ sem' \in [Sems -> SemState] /\ sem'[s].live
      /\ sem'[s].count = sem[s].count + 1 /\ sem[s].count \in Int
      /\ \A s1 \in Sems \ {s} : sem'[s1] = sem[s1]
  <2>1. sem[s].count \in Int
    BY <1>1 DEF SemState
  <2>2. sem' = [sem EXCEPT ![s].count = sem[s].count + 1] /\ sem[s].count + 1 \in Int
    BY <1>0, <2>1
  <2> QED BY <1>0, <1>1, <2>1, <2>2, NewCount
<1>3. Len(k.q[s]) = IF sem[s].count < 0 THEN -sem[s].count ELSE 0
  BY <1>0, <1>1 DEF CountOK
<1>4. CASE k.q[s] = << >>
  <2>1. k' = k /\ Len(k.q[s]) = 0
    BY <1>4 DEF sem_release
  <2>2. CountOK(sem'[s].count, sem'[s].live, k.q[s])
    BY <1>2, <1>3, <2>1 DEF CountOK
  <2> QED BY <1>1, <1>2, <2>1, <2>2 DEF SemInvK
<1>5. CASE k.q[s] # << >>
  <2> DEFINE h == Head(k.q[s])
             k1 == rsrc_dequeue(k, s)
  <2>1. k' = preempt(k1, h, "ERR_NONE")
    BY <1>5 DEF sem_release
  <2>2. /\ h \in Task /\ Sound(k1, NoRsrc, {h}) /\ k1.q = [k.q EXCEPT ![s] = Tail(@)]
        /\ k1.flags = [k.flags EXCEPT ![h] = "READY"] /\ k1.cur = k.cur
    <3>1. {} \cup {h} = {h}
      OBVIOUS
    <3>2. s \in Rsrc /\ Sound(k, NoRsrc, {})
      BY <1>1
    <3>3. /\ h \in Task /\ Sound(k1, NoRsrc, {} \cup {h}) /\ k1.q = [k.q EXCEPT ![s] = Tail(@)]
          /\ k1.flags = [k.flags EXCEPT ![h] = "READY"] /\ k1.cur = k.cur
      BY <1>5, <3>2, DequeueOK
    <3> QED BY <3>1, <3>3
  <2>3. /\ h = k.q[s][1] /\ 1 \in 1 .. Len(k.q[s]) /\ Len(Tail(k.q[s])) = Len(k.q[s]) - 1
        /\ Len(k.q[s]) \in Nat
    BY <1>1, <1>5, HeadAndTail
  <2>4. h # t
    <3>1. k.flags[h] = "WAITING"
      BY <2>3, <1>1 DEF Sound, Placed
    <3> QED BY <3>1, <1>1
  <2> HIDE DEF h, k1
  <2>5. /\ k1.flags[h] = "READY" /\ \A u \in Task \ {h} : k1.flags[u] = k.flags[u]
        /\ k1.q[s] = Tail(k.q[s]) /\ \A r \in Rsrc \ {s} : k1.q[r] = k.q[r]
    BY <1>1, <2>2, Fields
  <2>6. NoOtherRuns(k1) /\ k1.cur \in Task /\ k1.flags[k1.cur] = "RUNNING"
    BY <1>0, <1>1, <2>2, <2>4, <2>5 DEF NoOtherRuns, OneRunning
  <2>7. "ERR_NONE" \in Status
    BY DEF Status
  <2>8. /\ Sound(k', NoRsrc, {}) /\ OneRunning(k')
        /\ \A r \in Rsrc \ {RunQ} : k'.q[r] = k1.q[r]
    <3> DEFINE X == {h}
    <3>1. /\ h \in X /\ h \in Task /\ Sound(k1, NoRsrc, X) /\ NoRsrc # RunQ
          /\ k1.cur \notin X /\ X \ {h} = {}
      BY <1>0, <1>1, <2>2, <2>4
    <3> HIDE DEF X
    <3>2. /\ Sound(k', NoRsrc, X \ {h}) /\ OneRunning(k')
          /\ \A r \in Rsrc \ {RunQ} : k'.q[r] = k1.q[r]
      BY ONLY <2>1, <2>6, <2>7, <3>1, PreemptOK
    <3> QED BY <3>1, <3>2
  <2>9. k'.q[s] = Tail(k.q[s]) /\ \A s1 \in Sems \ {s} : k'.q[s1] = k.q[s1]
    BY <1>1, <2>5, <2>8
  <2>10. CountOK(sem'[s].count, sem'[s].live, k'.q[s])
    BY <1>2, <1>3, <2>3, <2>9 DEF CountOK
  <2> QED BY <1>1, <1>2, <2>8, <2>9, <2>10 DEF SemInvK
<1> QED BY <1>4, <1>5

\* timer_irq(): the switch moves threads between the CPU and the run queue only.
LEMMA TimerOK ==
    ASSUME SemInv, timer_preempt
    PROVE  SemInvK(k', sem')
<1>1. /\ Sound(k, NoRsrc, {}) /\ OneRunning(k) /\ NoRsrc # RunQ
      /\ sem \in [Sems -> SemState] /\ Sems \subseteq Rsrc \ {RunQ}
      /\ \A s1 \in Sems : CountOK(sem[s1].count, sem[s1].live, k.q[s1])
  BY SemInvIs, SchedAssumption, SemAssumption DEF SemInvK
<1>2. NoOtherRuns(k)
  BY <1>1 DEF NoOtherRuns, OneRunning
<1>3. k' = swtch(k) /\ sem' = sem
  BY DEF timer_preempt
<1>4. /\ Sound(k', NoRsrc, {}) /\ OneRunning(k')
      /\ \A r \in Rsrc \ {RunQ} : k'.q[r] = k.q[r]
  BY <1>1, <1>2, <1>3, SwtchOK
<1>5. \A s1 \in Sems : k'.q[s1] = k.q[s1]
  BY <1>1, <1>4
<1> QED BY <1>1, <1>3, <1>4, <1>5 DEF SemInvK

\* Every handler preserves the invariant.
LEMMA SemNextOK == SemInv /\ [SemNext]_semVars => SemInv'
<1> SUFFICES ASSUME SemInv, [SemNext]_semVars PROVE SemInv'
  OBVIOUS
<1>0. SemInvK(k, sem) /\ SemTypeOK
  BY SemInvIs DEF SemInv
<1>1. ASSUME timer_preempt PROVE SemInv'
  <2>1. frame' = frame /\ ret' = ret
    BY <1>1 DEF timer_preempt
  <2> QED BY <1>0, <1>1, <2>1, TimerOK, SemInvIsNext DEF SemTypeOK
<1>2. ASSUME NEW t \in Task, NEW s \in Sems, SemCallOn(t, s) PROVE SemInv'
  <2> "ERR_NONE" \in Errors /\ "ERR_RESOURCE" \in Errors
    BY DEF Errors, Status
  <2>1. ASSUME NEW n \in 0 .. MaxCount, sem_create(t, s, n) PROVE SemInv'
    <3>1. Returns(t, "ERR_NONE")
      BY <2>1 DEF sem_create
    <3> QED BY <1>0, <2>1, <3>1, CreateOK, ReturnsTyped, SemInvIsNext
  <2>2. ASSUME sem_destroy(t, s) PROVE SemInv'
    <3>1. Returns(t, "ERR_NONE")
      BY <2>2 DEF sem_destroy
    <3> QED BY <1>0, <2>2, <3>1, DestroyOK, ReturnsTyped, SemInvIsNext
  <2>3. ASSUME sem_acquire(t, s) PROVE SemInv'
    <3>1. CASE Returns(t, "ERR_NONE")
      BY <1>0, <2>3, <3>1, AcquireOK, ReturnsTyped, SemInvIsNext
    <3>2. CASE BlocksOn(t, s, SemFrame)
      <4>1. /\ frame' \in [Task \cup {Idle} -> {UserFrame, SemFrame}]
            /\ ret' \in [Task -> Errors]
        BY <1>0, <3>2 DEF BlocksOn, SemTypeOK
      <4> QED BY <2>3, <4>1, AcquireOK, SemInvIsNext
    <3> QED BY <2>3, <3>1, <3>2 DEF sem_acquire
  <2>4. ASSUME sem_release(t, s) PROVE SemInv'
    <3>1. Returns(t, "ERR_NONE")
      BY <2>4 DEF sem_release
    <3> QED BY <1>0, <2>4, <3>1, ReleaseOK, ReturnsTyped, SemInvIsNext
  <2>5. ASSUME sem_not_found(t, s) PROVE SemInv'
    <3>1. Returns(t, "ERR_RESOURCE") /\ k' = k /\ sem' = sem
      BY <2>5 DEF sem_not_found
    <3> QED BY <1>0, <3>1, ReturnsTyped, SemInvIsNext
  <2> QED BY <1>2, <2>1, <2>2, <2>3, <2>4, <2>5 DEF SemCallOn
<1>3. ASSUME NEW t \in Task, sem_acquire_return(t) PROVE SemInv'
  <2>1. Returns(t, k.status[t]) /\ k' = k /\ sem' = sem
    BY <1>3 DEF sem_acquire_return
  <2>2. k.status[t] \in Errors
    BY <1>0 DEF SemTypeOK, SchedState, Errors
  <2> QED BY <1>0, <2>1, <2>2, ReturnsTyped, SemInvIsNext
<1>4. CASE UNCHANGED semVars
  BY <1>0, <1>4, SemInvIsNext DEF SemTypeOK, semVars
<1> QED BY <1>1, <1>2, <1>3, <1>4 DEF SemNext, SemCall

\* In every run of the semaphore calls the queues are in order: a blocked thread
\* is on exactly the queue it waits on, and only the current one runs (sem.c).
THEOREM SemQueuesCorrect == SemSpec => [](SemTypeOK /\ SemQueuesOK)
<1>1. SemInv => SemTypeOK /\ SemQueuesOK
  BY DEF SemInv
<1> QED BY <1>1, SemInitOK, SemNextOK, PTL DEF SemSpec

\* In every run a negative count is the number of threads on the queue of the
\* semaphore, so sem_release() wakes a waiter exactly when there is one (sem.c).
THEOREM SemCountsCorrect == SemSpec => []CountIsWaiters
<1>1. SemInv => CountIsWaiters
  BY DEF SemInv
<1> QED BY <1>1, SemInitOK, SemNextOK, PTL DEF SemSpec
=============================================================================
