----------------------------- MODULE SchedProofs -----------------------------
(***************************************************************************)
(* What the queue operations and the context switch of Sched preserve, for *)
(* any number of threads and resources.  The modules with the proofs about *)
(* whole handlers cite these lemmas action by action.                      *)
(***************************************************************************)
EXTENDS Sched, TLAPS

\* Thread t is on no queue.
Off(s, t) == \A r \in Rsrc : \A i \in 1 .. Len(s.q[r]) : s.q[r][i] # t

\* NoneLost, but for the threads of X.
Settled(s, X) ==
    \A t \in Task \ X :
        /\ s.flags[t] # "READY"
        /\ s.flags[t] = "WAITING" =>
             /\ s.waiting_on[t] \in Rsrc
             /\ \E i \in 1 .. Len(s.q[s.waiting_on[t]]) : s.q[s.waiting_on[t]][i] = t

\* A typed state whose queues are in order, with the threads of X between queues.
Sound(s, d, X) ==
    /\ s \in SchedState /\ Placed(s, d) /\ Settled(s, X)
    /\ \A t \in X : Off(s, t)

\* With no thread between queues, Settled is the property NoneLost.
LEMMA SettledIsNoneLost ==
    ASSUME NEW s \in SchedState
    PROVE  NoneLost(s) <=> Settled(s, {})
<1>1. \A r \in Rsrc : s.q[r] \in Seq(Task)
  BY DEF SchedState
<1>2. \A r \in Rsrc : DOMAIN s.q[r] = 1 .. Len(s.q[r])
  BY <1>1
<1> QED BY <1>2 DEF NoneLost, Settled, Range

\* The elements of a queue after a thread was attached at its tail.
LEMMA AppendElements ==
    ASSUME NEW seq \in Seq(Task), NEW t \in Task
    PROVE  /\ Append(seq, t) \in Seq(Task)
           /\ Len(Append(seq, t)) = Len(seq) + 1
           /\ \A n \in 1 .. Len(Append(seq, t)) :
                \/ n = Len(seq) + 1 /\ Append(seq, t)[n] = t
                \/ n \in 1 .. Len(seq) /\ Append(seq, t)[n] = seq[n]
OBVIOUS

\* The fields of a scheduler state.
LEMMA Fields ==
    ASSUME NEW s \in SchedState
    PROVE  /\ s.cur \in Task \cup {Idle, Exited}
           /\ s.q \in [Rsrc -> Seq(Task)]
           /\ s.flags \in [Task -> Flags]
           /\ s.waiting_on \in [Task -> Rsrc \cup {NoRsrc}]
           /\ s.status \in [Task -> Status]
           /\ s.wait_time \in [Task -> Nat]
           /\ s.team \in [Task -> Team]
           /\ s.live \in Int
BY DEF SchedState

\* A thread that is neither waiting nor dead is on no queue.
LEMMA NotWaitingOff ==
    ASSUME NEW s \in SchedState, NEW d, Placed(s, d), NEW t \in Task,
           s.flags[t] \notin {"WAITING", "DEAD"}
    PROVE  Off(s, t)
BY DEF Off, Placed

\* What rsrc_enqueue() changes.
LEMMA EnqueueEffect ==
    ASSUME NEW s \in SchedState, NEW t \in Task, NEW r \in Rsrc
    PROVE  /\ rsrc_enqueue(s, r, t).q[r] = Append(s.q[r], t)
           /\ \A r1 \in Rsrc \ {r} : rsrc_enqueue(s, r, t).q[r1] = s.q[r1]
           /\ rsrc_enqueue(s, r, t).flags[t] = "WAITING"
           /\ \A u \in Task \ {t} : rsrc_enqueue(s, r, t).flags[u] = s.flags[u]
           /\ rsrc_enqueue(s, r, t).cur = s.cur
BY DEF SchedState, rsrc_enqueue

\* rsrc_enqueue() of a thread that is on no queue.
LEMMA EnqueueOK ==
    ASSUME NEW s, NEW d, NEW X, Sound(s, d, X),
           NEW t \in Task, Off(s, t), NEW r \in Rsrc, r # d
    PROVE  Sound(rsrc_enqueue(s, r, t), d, X \ {t})
<1> DEFINE s2 == rsrc_enqueue(s, r, t)
<1> s \in SchedState /\ Placed(s, d) /\ Settled(s, X)
  BY DEF Sound
<1>0. Append(s.q[r], t) \in Seq(Task)
  BY DEF SchedState
<1>1. s2 \in SchedState
  BY <1>0, Zenon DEF SchedState, rsrc_enqueue, Flags
<1>2. /\ s2.q = [s.q EXCEPT ![r] = Append(@, t)]
      /\ s2.flags = [s.flags EXCEPT ![t] = "WAITING"]
      /\ s2.waiting_on = [s.waiting_on EXCEPT ![t] = r]
      /\ s2.cur = s.cur
  BY DEF SchedState, rsrc_enqueue
<1> HIDE DEF s2
<1>3. Placed(s2, d)
  <2> SUFFICES ASSUME NEW r1 \in Rsrc, NEW i \in 1 .. Len(s2.q[r1]), NEW j \in 1 .. Len(s2.q[r1])
               PROVE  /\ s2.waiting_on[s2.q[r1][i]] = r1
                      /\ s2.flags[s2.q[r1][i]] = IF r1 = d THEN "DEAD" ELSE "WAITING"
                      /\ s2.q[r1][i] = s2.q[r1][j] => i = j
    BY DEF Placed
  <2>1. CASE r1 # r
    BY <2>1, <1>2, Fields DEF Placed, Off
  <2>2. CASE r1 = r
    <3>1. s2.q[r] = Append(s.q[r], t) /\ s.q[r] \in Seq(Task)
      BY <1>2, Fields
    <3>2. \A n \in 1 .. Len(s2.q[r]) :
             \/ n = Len(s.q[r]) + 1 /\ s2.q[r][n] = t
             \/ n \in 1 .. Len(s.q[r]) /\ s2.q[r][n] = s.q[r][n]
      BY <3>1, AppendElements
    <3>3. s.q[r] \in Seq(Task) /\ \A n \in 1 .. Len(s.q[r]) : s.q[r][n] \in Task /\ s.q[r][n] # t
      BY <3>1 DEF Off
    <3>4. \A n \in 1 .. Len(s.q[r]) : s.waiting_on[s.q[r][n]] = r /\ s.flags[s.q[r][n]] = "WAITING"
      BY DEF Placed
    <3>5. \A n \in 1 .. Len(s2.q[r]) : s2.waiting_on[s2.q[r][n]] = r /\ s2.flags[s2.q[r][n]] = "WAITING"
      <4>1. s.flags \in [Task -> Flags] /\ s.waiting_on \in [Task -> Rsrc \cup {NoRsrc}]
        BY Fields
      <4>2. s2.waiting_on[t] = r /\ s2.flags[t] = "WAITING"
        BY <4>1, <1>2
      <4>3. \A n \in 1 .. Len(s.q[r]) : s2.waiting_on[s.q[r][n]] = r /\ s2.flags[s.q[r][n]] = "WAITING"
        BY <4>1, <3>3, <3>4, <1>2
      <4>4. ASSUME NEW n \in 1 .. Len(s2.q[r])
            PROVE  s2.waiting_on[s2.q[r][n]] = r /\ s2.flags[s2.q[r][n]] = "WAITING"
        <5>1. CASE s2.q[r][n] = t
          BY <5>1, <4>2
        <5>2. CASE n \in 1 .. Len(s.q[r]) /\ s2.q[r][n] = s.q[r][n]
          BY <5>2, <4>3
        <5> QED BY <5>1, <5>2, <3>2
      <4> QED BY <4>4
    <3>6. s2.q[r][i] = s2.q[r][j] => i = j
      <4>1. \A m, n \in 1 .. Len(s.q[r]) : s.q[r][m] = s.q[r][n] => m = n
        BY DEF Placed
      <4>2. i \in 1 .. Len(s2.q[r]) /\ j \in 1 .. Len(s2.q[r])
        BY <2>2
      <4>3. CASE i \in 1 .. Len(s.q[r]) /\ j \in 1 .. Len(s.q[r])
        <5>1. s2.q[r][i] = s.q[r][i] /\ s2.q[r][j] = s.q[r][j]
          BY <4>3, <3>1, AppendElements
        <5> QED BY <5>1, <4>1, <4>3, Zenon
      <4>4. CASE i = Len(s.q[r]) + 1 /\ j = Len(s.q[r]) + 1
        BY <4>4
      <4>5. CASE i = Len(s.q[r]) + 1 /\ j \in 1 .. Len(s.q[r])
        <5>1. s2.q[r][i] = t /\ s2.q[r][j] = s.q[r][j]
          BY <4>5, <3>1, AppendElements
        <5> QED BY <5>1, <4>5, <3>3
      <4>6. CASE i \in 1 .. Len(s.q[r]) /\ j = Len(s.q[r]) + 1
        <5>1. s2.q[r][i] = s.q[r][i] /\ s2.q[r][j] = t
          BY <4>6, <3>1, AppendElements
        <5> QED BY <5>1, <4>6, <3>3, Zenon
      <4>7. /\ i \in 1 .. Len(s.q[r]) \/ i = Len(s.q[r]) + 1
            /\ j \in 1 .. Len(s.q[r]) \/ j = Len(s.q[r]) + 1
        BY <4>2, <3>2
      <4> QED BY <4>3, <4>4, <4>5, <4>6, <4>7
    <3> QED BY <2>2, <3>5, <3>6
  <2> QED BY <2>1, <2>2
<1>4. Settled(s2, X \ {t})
  <2> SUFFICES ASSUME NEW u \in Task, u = t \/ u \notin X
               PROVE  /\ s2.flags[u] # "READY"
                      /\ s2.flags[u] = "WAITING" =>
                           /\ s2.waiting_on[u] \in Rsrc
                           /\ \E i \in 1 .. Len(s2.q[s2.waiting_on[u]]) :
                                 s2.q[s2.waiting_on[u]][i] = u
    BY Zenon DEF Settled
  <2>0. /\ s2.q[r] = Append(s.q[r], t) /\ s.q[r] \in Seq(Task)
        /\ Len(s2.q[r]) = Len(s.q[r]) + 1 /\ Len(s.q[r]) \in Nat
        /\ s2.q[r][Len(s.q[r]) + 1] = t
        /\ \A i \in 1 .. Len(s.q[r]) : s2.q[r][i] = s.q[r][i]
    BY <1>2, Fields
  <2>1. CASE u = t
    BY <2>0, <2>1, <1>2, Fields
  <2>2. CASE u # t
    <3>1. s2.flags[u] = s.flags[u] /\ s2.waiting_on[u] = s.waiting_on[u]
      BY <2>2, <1>2, Fields
    <3>2. ASSUME s2.flags[u] = "WAITING"
          PROVE  /\ s2.waiting_on[u] \in Rsrc
                 /\ \E i \in 1 .. Len(s2.q[s2.waiting_on[u]]) : s2.q[s2.waiting_on[u]][i] = u
      <4> DEFINE w == s.waiting_on[u]
      <4>1. w \in Rsrc /\ \E i \in 1 .. Len(s.q[w]) : s.q[w][i] = u
        BY <2>2, <3>1, <3>2, Zenon DEF Settled
      <4>2. CASE w = r
        BY <4>1, <4>2, <3>1, <2>0
      <4>3. CASE w # r
        BY <4>1, <4>3, <3>1, <1>2, Fields
      <4> QED BY <4>2, <4>3
    <3> QED BY <2>2, <3>1, <3>2 DEF Settled
  <2> QED BY <2>1, <2>2
<1>5. ASSUME NEW u \in X \ {t} PROVE Off(s2, u)
  <2>1. Off(s, u)
    BY DEF Sound
  <2>2. ASSUME NEW r1 \in Rsrc, NEW i \in 1 .. Len(s2.q[r1]) PROVE s2.q[r1][i] # u
    <3>1. CASE r1 # r
      BY <3>1, <2>1, <1>2, Fields DEF Off
    <3>2. CASE r1 = r
      <4>1. s2.q[r] = Append(s.q[r], t) /\ s.q[r] \in Seq(Task) /\ i \in 1 .. Len(Append(s.q[r], t))
        BY <3>2, <1>2, Fields
      <4>2. \/ s2.q[r][i] = t
            \/ i \in 1 .. Len(s.q[r]) /\ s2.q[r][i] = s.q[r][i]
        BY <4>1, AppendElements
      <4> QED BY <3>2, <4>2, <2>1 DEF Off
    <3> QED BY <3>1, <3>2
  <2> QED BY <2>2 DEF Off
<1> QED BY <1>1, <1>3, <1>4, <1>5 DEF s2, Sound

\* The head and the rest of a queue that is not empty.
LEMMA HeadAndTail ==
    ASSUME NEW seq \in Seq(Task), seq # << >>
    PROVE  /\ Head(seq) \in Task /\ Tail(seq) \in Seq(Task)
           /\ Len(seq) \in Nat /\ Len(seq) >= 1 /\ Len(Tail(seq)) = Len(seq) - 1
           /\ Head(seq) = seq[1]
           /\ \A i \in 1 .. Len(Tail(seq)) : i + 1 \in 1 .. Len(seq) /\ Tail(seq)[i] = seq[i + 1]
OBVIOUS

\* rsrc_dequeue() of a queue that is not empty: its head is then between queues.
LEMMA DequeueOK ==
    ASSUME NEW s, NEW d, NEW X, Sound(s, d, X), NEW r \in Rsrc, s.q[r] # << >>
    PROVE  /\ Head(s.q[r]) \in Task /\ Head(s.q[r]) \notin X
           /\ Sound(rsrc_dequeue(s, r), d, X \cup {Head(s.q[r])})
           /\ rsrc_dequeue(s, r).q = [s.q EXCEPT ![r] = Tail(@)]
           /\ rsrc_dequeue(s, r).flags = [s.flags EXCEPT ![Head(s.q[r])] = "READY"]
           /\ rsrc_dequeue(s, r).cur = s.cur
<1> DEFINE h == Head(s.q[r])
           s2 == rsrc_dequeue(s, r)
<1>0. s \in SchedState /\ Placed(s, d) /\ Settled(s, X)
  BY DEF Sound
<1>1. /\ s.q[r] \in Seq(Task) /\ h \in Task /\ Tail(s.q[r]) \in Seq(Task)
      /\ Len(s.q[r]) \in Nat /\ Len(s.q[r]) >= 1 /\ Len(Tail(s.q[r])) = Len(s.q[r]) - 1
      /\ h = s.q[r][1]
      /\ \A i \in 1 .. Len(Tail(s.q[r])) :
            i + 1 \in 1 .. Len(s.q[r]) /\ Tail(s.q[r])[i] = s.q[r][i + 1]
  BY <1>0, Fields, HeadAndTail
<1>2. s2 \in SchedState
  BY <1>0, <1>1, Zenon DEF SchedState, rsrc_dequeue, Flags
<1>3. /\ s2.q = [s.q EXCEPT ![r] = Tail(@)]
      /\ s2.flags = [s.flags EXCEPT ![h] = "READY"]
      /\ s2.waiting_on = [s.waiting_on EXCEPT ![h] = NoRsrc]
      /\ s2.cur = s.cur
  BY <1>0 DEF SchedState, rsrc_dequeue
<1> HIDE DEF s2, h
<1>4. \A n \in 1 .. Len(s.q[r]) : s.q[r][n] = h => n = 1
  BY <1>0, <1>1 DEF Placed
<1>5. s.waiting_on[h] = r
  BY <1>0, <1>1 DEF Placed
<1>6. ASSUME NEW r1 \in Rsrc, NEW i \in 1 .. Len(s2.q[r1])
      PROVE  \E n \in 1 .. Len(s.q[r1]) :
                /\ s2.q[r1][i] = s.q[r1][n] /\ s.q[r1][n] # h
                /\ n = IF r1 = r THEN i + 1 ELSE i
  <2>1. CASE r1 = r
    <3>1. i \in 1 .. Len(Tail(s.q[r])) /\ s2.q[r1] = Tail(s.q[r])
      BY <2>1, <1>0, <1>3, Fields
    <3>2. i + 1 \in 1 .. Len(s.q[r]) /\ Tail(s.q[r])[i] = s.q[r][i + 1] /\ i + 1 # 1
      BY <3>1, <1>1
    <3> QED BY <2>1, <3>1, <3>2, <1>4
  <2>2. CASE r1 # r
    BY <2>2, <1>0, <1>3, <1>5, Fields DEF Placed
  <2> QED BY <2>1, <2>2
<1>7. Off(s2, h)
  BY <1>6, Zenon DEF Off
<1>b. ASSUME NEW t \in X PROVE Off(s2, t)
  <2> SUFFICES ASSUME NEW r1 \in Rsrc, NEW i \in 1 .. Len(s2.q[r1])
               PROVE  s2.q[r1][i] # t
    BY DEF Off
  <2>1. PICK n \in 1 .. Len(s.q[r1]) : s2.q[r1][i] = s.q[r1][n]
    BY <1>6
  <2> QED BY <2>1 DEF Sound, Off
<1>a. h \notin X
  BY <1>1 DEF Sound, Off
<1>8. Placed(s2, d)
  <2> SUFFICES ASSUME NEW r1 \in Rsrc, NEW i \in 1 .. Len(s2.q[r1]), NEW j \in 1 .. Len(s2.q[r1])
               PROVE  /\ s2.waiting_on[s2.q[r1][i]] = r1
                      /\ s2.flags[s2.q[r1][i]] = IF r1 = d THEN "DEAD" ELSE "WAITING"
                      /\ s2.q[r1][i] = s2.q[r1][j] => i = j
    BY DEF Placed
  <2>1. PICK n \in 1 .. Len(s.q[r1]) :
            /\ s2.q[r1][i] = s.q[r1][n] /\ s.q[r1][n] # h
            /\ n = IF r1 = r THEN i + 1 ELSE i
    BY <1>6
  <2>2. PICK m \in 1 .. Len(s.q[r1]) :
            /\ s2.q[r1][j] = s.q[r1][m] /\ s.q[r1][m] # h
            /\ m = IF r1 = r THEN j + 1 ELSE j
    BY <1>6
  <2>3. s.q[r1][n] \in Task
    BY <1>0, Fields
  <2>4. s2.waiting_on[s.q[r1][n]] = r1 /\ s2.flags[s.q[r1][n]] = IF r1 = d THEN "DEAD" ELSE "WAITING"
    BY <2>1, <2>3, <1>0, <1>3, Fields DEF Placed
  <2>5. s.q[r1][n] = s.q[r1][m] => n = m
    BY <1>0 DEF Placed
  <2> QED BY <2>1, <2>2, <2>4, <2>5
<1>9. Settled(s2, X \cup {h})
  <2> SUFFICES ASSUME NEW u \in Task, u # h, u \notin X
               PROVE  /\ s2.flags[u] # "READY"
                      /\ s2.flags[u] = "WAITING" =>
                           /\ s2.waiting_on[u] \in Rsrc
                           /\ \E i \in 1 .. Len(s2.q[s2.waiting_on[u]]) :
                                 s2.q[s2.waiting_on[u]][i] = u
    BY DEF Settled
  <2>1. s2.flags[u] = s.flags[u] /\ s2.waiting_on[u] = s.waiting_on[u]
    BY <1>0, <1>3, Fields
  <2>2. ASSUME s2.flags[u] = "WAITING"
        PROVE  /\ s2.waiting_on[u] \in Rsrc
               /\ \E i \in 1 .. Len(s2.q[s2.waiting_on[u]]) : s2.q[s2.waiting_on[u]][i] = u
    <3> DEFINE w == s.waiting_on[u]
    <3>1. w \in Rsrc /\ \E i \in 1 .. Len(s.q[w]) : s.q[w][i] = u
      BY <2>1, <2>2, <1>0, Zenon DEF Settled
    <3>2. CASE w # r
      BY <3>1, <3>2, <2>1, <1>0, <1>3, Fields
    <3>3. CASE w = r
      <4>1. PICK i \in 1 .. Len(s.q[r]) : s.q[r][i] = u
        BY <3>1, <3>3
      <4>2. i # 1 /\ i - 1 \in 1 .. Len(Tail(s.q[r])) /\ Tail(s.q[r])[i - 1] = u
        BY <4>1, <1>1
      <4>3. s2.q[r] = Tail(s.q[r])
        BY <1>0, <1>3, Fields
      <4> QED BY <4>2, <4>3, <3>1, <3>3, <2>1, Zenon
    <3> QED BY <3>2, <3>3
  <2> QED BY <2>1, <2>2, <1>0 DEF Settled
<1> QED BY <1>1, <1>2, <1>3, <1>7, <1>8, <1>9, <1>a, <1>b DEF s2, h, Sound

\* A state that differs in neither queues nor flags is as sound.
LEMMA SameQueues ==
    ASSUME NEW s, NEW d, NEW X, Sound(s, d, X), NEW s2 \in SchedState,
           s2.q = s.q, s2.flags = s.flags, s2.waiting_on = s.waiting_on
    PROVE  Sound(s2, d, X)
BY DEF Sound, Placed, Settled, Off

\* A thread between queues is given flags of its own.
LEMMA FlagsOfOff ==
    ASSUME NEW s, NEW d, NEW X, Sound(s, d, X), NEW t \in Task, Off(s, t),
           NEW f \in Flags \ {"READY", "WAITING"}, NEW s2 \in SchedState,
           s2.q = s.q, s2.flags = [s.flags EXCEPT ![t] = f], s2.waiting_on = s.waiting_on
    PROVE  Sound(s2, d, X \ {t})
<1>0. s \in SchedState /\ Placed(s, d) /\ Settled(s, X)
  BY DEF Sound
<1>1. /\ \A u \in Task \ {t} : s2.flags[u] = s.flags[u]
      /\ s2.flags[t] = f
      /\ \A r \in Rsrc : \A i \in 1 .. Len(s.q[r]) : s.q[r][i] \in Task \ {t}
  BY <1>0, Fields DEF Off
<1>2. Placed(s2, d)
  BY <1>0, <1>1 DEF Placed
<1>3. Settled(s2, X \ {t})
  <2> SUFFICES ASSUME NEW u \in Task, u = t \/ u \notin X
               PROVE  /\ s2.flags[u] # "READY"
                      /\ s2.flags[u] = "WAITING" =>
                           /\ s2.waiting_on[u] \in Rsrc
                           /\ \E i \in 1 .. Len(s2.q[s2.waiting_on[u]]) :
                                 s2.q[s2.waiting_on[u]][i] = u
    BY DEF Settled
  <2>1. CASE u = t
    BY <2>1, <1>1
  <2>2. CASE u # t
    <3>1. s2.flags[u] = s.flags[u] /\ s2.waiting_on[u] = s.waiting_on[u] /\ u \notin X
      BY <2>2, <1>1
    <3> QED BY <3>1, <1>0 DEF Settled
  <2> QED BY <2>1, <2>2
<1> QED BY <1>2, <1>3 DEF Sound, Off

\* The running thread is on no queue.
LEMMA RunningIsOff ==
    ASSUME NEW s, NEW d, NEW X, Sound(s, d, X), NEW t \in Task, s.flags[t] = "RUNNING"
    PROVE  Off(s, t)
BY NotWaitingOff DEF Sound

\* Nobody but the current thread is marked as running.
NoOtherRuns(s) == \A t \in Task : s.flags[t] = "RUNNING" => s.cur = t

\* The choice of the next thread, when the current one has left the CPU.
LEMMA DispatchOK ==
    ASSUME NEW s, NEW d, NEW X, Sound(s, d, X), d # RunQ,
           \A t \in Task : s.flags[t] # "RUNNING"
    PROVE  /\ Sound(dispatch(s), d, X) /\ OneRunning(dispatch(s))
           /\ \A r \in Rsrc \ {RunQ} : dispatch(s).q[r] = s.q[r]
<1> s \in SchedState
  BY DEF Sound
<1> RunQ \in Rsrc /\ Idle \notin Task /\ Exited \notin Task
  BY SchedAssumption
<1>1. CASE s.q[RunQ] # << >>
  <2> DEFINE h == Head(s.q[RunQ])
             s1 == rsrc_dequeue(s, RunQ)
             s2 == [s1 EXCEPT !.cur = h, !.flags[h] = "RUNNING"]
  <2>1. /\ h \in Task /\ h \notin X /\ Sound(s1, d, X \cup {h})
        /\ s1.q = [s.q EXCEPT ![RunQ] = Tail(@)]
        /\ s1.flags = [s.flags EXCEPT ![h] = "READY"]
    BY <1>1, DequeueOK, Zenon
  <2>2. s1 \in SchedState /\ Off(s1, h)
    BY <2>1 DEF Sound
  <2> HIDE DEF s1, h
  <2>3. s2 \in SchedState
    BY <2>1, <2>2, Zenon DEF SchedState, Flags
  <2>4. /\ s2.q = s1.q /\ s2.flags = [s1.flags EXCEPT ![h] = "RUNNING"]
        /\ s2.waiting_on = s1.waiting_on /\ s2.cur = h
    BY <2>2 DEF SchedState
  <2> HIDE DEF s2
  <2>5. Sound(s2, d, (X \cup {h}) \ {h})
    <3>1. "RUNNING" \in Flags \ {"READY", "WAITING"}
      BY DEF Flags
    <3>2. h \in Task /\ Sound(s1, d, X \cup {h})
      BY <2>1
    <3> QED BY ONLY <3>1, <3>2, <2>2, <2>3, <2>4, FlagsOfOff
  <2>6. Sound(s2, d, X)
    <3>1. (X \cup {h}) \ {h} = X
      BY <2>1
    <3> QED BY <2>5, <3>1
  <2>7. OneRunning(s2)
    <3>1. s.flags \in [Task -> Flags] /\ s1.flags \in [Task -> Flags]
      BY <2>2, Fields
    <3>2. s2.flags[h] = "RUNNING" /\ \A u \in Task \ {h} : s2.flags[u] = s.flags[u]
      BY <3>1, <2>1, <2>4
    <3> QED BY <3>2, <2>1, <2>4, Zenon DEF OneRunning
  <2>8. \A r \in Rsrc \ {RunQ} : s2.q[r] = s.q[r]
    BY <2>1, <2>4, Fields
  <2>9. dispatch(s) = s2
    BY <1>1 DEF dispatch, s2, s1, h
  <2> QED BY <2>6, <2>7, <2>8, <2>9
<1>2. CASE s.q[RunQ] = << >>
  <2> DEFINE s2 == [s EXCEPT !.cur = IF s.live # 0 THEN Idle ELSE Exited]
  <2>1. s2 \in SchedState
    BY Zenon DEF SchedState
  <2>2. /\ s2.q = s.q /\ s2.flags = s.flags /\ s2.waiting_on = s.waiting_on
        /\ s2.cur \notin Task
    BY DEF SchedState
  <2>3. dispatch(s) = s2
    BY <1>2 DEF dispatch
  <2> HIDE DEF s2
  <2>4. Sound(s2, d, X)
    BY <2>1, <2>2, SameQueues
  <2> QED BY <2>2, <2>3, <2>4 DEF OneRunning
<1> QED BY <1>1, <1>2

\* The current thread goes back to the run queue, if it is not the idle task.
LEMMA RequeueOK ==
    ASSUME NEW s, NEW d, NEW X, Sound(s, d, X), d # RunQ, NoOtherRuns(s), s.cur \notin X,
           s.cur = Idle \/ (s.cur \in Task /\ s.flags[s.cur] = "RUNNING")
    PROVE  /\ Sound(requeue_current(s), d, X)
           /\ \A t \in Task : requeue_current(s).flags[t] # "RUNNING"
           /\ \A r \in Rsrc \ {RunQ} : requeue_current(s).q[r] = s.q[r]
<1> s \in SchedState
  BY DEF Sound
<1> RunQ \in Rsrc /\ Idle \notin Task
  BY SchedAssumption
<1>1. CASE s.cur = Idle
  BY <1>1 DEF requeue_current, NoOtherRuns
<1>2. CASE s.cur \in Task /\ s.flags[s.cur] = "RUNNING"
  <2> DEFINE c == s.cur
             s2 == rsrc_enqueue(s, RunQ, c)
  <2>1. c \in Task /\ s.flags[c] = "RUNNING" /\ c \notin X
    BY <1>2
  <2>2. requeue_current(s) = s2
    BY <1>2 DEF requeue_current
  <2>3. \A t \in Task \ {c} : s.flags[t] # "RUNNING"
    BY Zenon DEF NoOtherRuns
  <2> HIDE DEF c
  <2>4. Off(s, c)
    BY <2>1, RunningIsOff
  <2>5. /\ Sound(s2, d, X \ {c})
        /\ \A r \in Rsrc \ {RunQ} : s2.q[r] = s.q[r]
        /\ s2.flags[c] = "WAITING" /\ \A u \in Task \ {c} : s2.flags[u] = s.flags[u]
    BY <2>1, <2>4, EnqueueOK, EnqueueEffect
  <2> HIDE DEF s2
  <2>6. X \ {c} = X
    BY <2>1
  <2> QED BY <2>1, <2>2, <2>3, <2>5, <2>6
<1> QED BY <1>1, <1>2

\* swtch(): the state it leaves is sound and has exactly the current thread running.
LEMMA SwtchOK ==
    ASSUME NEW s, NEW d, NEW X, Sound(s, d, X), d # RunQ, NoOtherRuns(s), s.cur \notin X
    PROVE  /\ Sound(swtch(s), d, X) /\ OneRunning(swtch(s))
           /\ \A r \in Rsrc \ {RunQ} : swtch(s).q[r] = s.q[r]
<1> s \in SchedState
  BY DEF Sound
<1> RunQ \in Rsrc /\ Idle \notin Task /\ Exited \notin Task
  BY SchedAssumption
<1>1. CASE s.q[RunQ] = << >> /\ running(s)
  BY <1>1 DEF swtch, running, OneRunning, NoOtherRuns
<1>2. CASE ~(s.q[RunQ] = << >> /\ running(s)) /\ running(s)
  <2> DEFINE s1 == requeue_current(s)
  <2>1. /\ Sound(s1, d, X) /\ \A t \in Task : s1.flags[t] # "RUNNING"
        /\ \A r \in Rsrc \ {RunQ} : s1.q[r] = s.q[r]
    BY <1>2, RequeueOK, Zenon DEF running
  <2>2. swtch(s) = dispatch(s1)
    BY <1>2 DEF swtch
  <2> HIDE DEF s1
  <2>3. Sound(dispatch(s1), d, X) /\ OneRunning(dispatch(s1))
    BY <2>1, DispatchOK, Zenon
  <2>4. \A r \in Rsrc \ {RunQ} : dispatch(s1).q[r] = s1.q[r]
    BY <2>1, DispatchOK, Zenon
  <2> QED BY <2>1, <2>2, <2>3, <2>4, Zenon
<1>3. CASE ~running(s)
  <2>1. \A t \in Task : s.flags[t] # "RUNNING"
    BY <1>3, Zenon DEF running, NoOtherRuns
  <2>2. swtch(s) = dispatch(s)
    BY <1>3 DEF swtch
  <2> QED BY <2>1, <2>2, DispatchOK
<1> QED BY <1>1, <1>2, <1>3

\* wait_on() by the running thread: it is the last one on the queue it waits on.
LEMMA WaitOnOK ==
    ASSUME NEW s, NEW d, NEW X, Sound(s, d, X), d # RunQ, OneRunning(s), s.cur \in Task \ X,
           NEW r \in Rsrc \ {RunQ, d}
    PROVE  /\ Sound(wait_on(s, r), d, X) /\ OneRunning(wait_on(s, r))
           /\ wait_on(s, r).q[r] = Append(s.q[r], s.cur)
           /\ \A r1 \in Rsrc \ {RunQ, r} : wait_on(s, r).q[r1] = s.q[r1]
<1> DEFINE c == s.cur
           s1 == [s EXCEPT !.status[c] = "ERR_NONE"]
           s2 == rsrc_enqueue(s1, r, c)
<1>0. s \in SchedState /\ c \in Task /\ c \notin X
  BY DEF Sound
<1>1. s1 \in SchedState
  BY <1>0, Zenon DEF SchedState, Status
<1>2. /\ s1.q = s.q /\ s1.flags = s.flags /\ s1.waiting_on = s.waiting_on /\ s1.cur = c
      /\ s.flags[c] = "RUNNING" /\ \A t \in Task \ {c} : s.flags[t] # "RUNNING"
  BY <1>0 DEF SchedState, OneRunning
<1>3. wait_on(s, r) = swtch(s2)
  BY DEF wait_on
<1> HIDE DEF s1, c
<1>4. Sound(s1, d, X)
  BY <1>1, <1>2, SameQueues
<1>5. Off(s1, c)
  BY <1>0, <1>2, <1>4, RunningIsOff
<1>6. /\ Sound(s2, d, X \ {c})
      /\ s2.q[r] = Append(s1.q[r], c) /\ \A r1 \in Rsrc \ {r} : s2.q[r1] = s1.q[r1]
      /\ s2.flags[c] = "WAITING" /\ \A u \in Task \ {c} : s2.flags[u] = s1.flags[u]
      /\ s2.cur = s1.cur
  BY <1>0, <1>1, <1>4, <1>5, EnqueueOK, EnqueueEffect
<1> HIDE DEF s2
<1>7. Sound(s2, d, X)
  <2>1. X \ {c} = X
    BY <1>0
  <2> QED BY <1>6, <2>1
<1>9. NoOtherRuns(s2)
  BY <1>2, <1>6 DEF NoOtherRuns
<1>10. /\ Sound(swtch(s2), d, X) /\ OneRunning(swtch(s2))
       /\ \A r1 \in Rsrc \ {RunQ} : swtch(s2).q[r1] = s2.q[r1]
  BY <1>0, <1>2, <1>6, <1>7, <1>9, SwtchOK
<1>11. s2.q[r] = Append(s.q[r], c) /\ \A r1 \in Rsrc \ {r} : s2.q[r1] = s.q[r1]
  BY <1>2, <1>6
<1> QED BY <1>3, <1>10, <1>11 DEF c

\* preempt() of a thread that was just taken off its queue: it runs in place of
\* the current one.
LEMMA PreemptOK ==
    ASSUME NEW s, NEW d, NEW X, NEW t \in X, t \in Task, NEW status \in Status,
           Sound(s, d, X), d # RunQ, NoOtherRuns(s), s.cur \notin X,
           s.cur = Idle \/ (s.cur \in Task /\ s.flags[s.cur] = "RUNNING")
    PROVE  /\ Sound(preempt(s, t, status), d, X \ {t}) /\ OneRunning(preempt(s, t, status))
           /\ \A r \in Rsrc \ {RunQ} : preempt(s, t, status).q[r] = s.q[r]
<1> DEFINE s1 == requeue_current(s)
           s2 == preempt(s, t, status)
<1>2. /\ Sound(s1, d, X) /\ \A u \in Task : s1.flags[u] # "RUNNING"
      /\ \A r \in Rsrc \ {RunQ} : s1.q[r] = s.q[r]
  BY RequeueOK, Zenon
<1>3. s1 \in SchedState /\ Off(s1, t)
  BY <1>2 DEF Sound
<1>4. s2 = [s1 EXCEPT !.cur = t, !.status[t] = status, !.flags[t] = "RUNNING"]
  BY DEF preempt
<1> HIDE DEF s1, s2
<1>5. /\ s2 \in SchedState /\ s2.cur = t /\ s2.q = s1.q /\ s2.waiting_on = s1.waiting_on
      /\ s2.flags = [s1.flags EXCEPT ![t] = "RUNNING"]
  BY <1>3, <1>4, Zenon DEF SchedState, Flags
<1>6. Sound(s2, d, X \ {t})
  <2>1. "RUNNING" \in Flags \ {"READY", "WAITING"}
    BY DEF Flags
  <2>2. Sound(s1, d, X) /\ t \in Task
    BY <1>2
  <2> QED BY ONLY <2>1, <2>2, <1>3, <1>5, FlagsOfOff
<1>8. OneRunning(s2)
  BY <1>2, <1>3, <1>5, Fields DEF OneRunning
<1> QED BY <1>2, <1>5, <1>6, <1>8 DEF s2

\* The elements of two queues, one behind the other.
LEMMA ConcatElements ==
    ASSUME NEW a \in Seq(Task), NEW b \in Seq(Task)
    PROVE  /\ a \o b \in Seq(Task) /\ Len(a \o b) = Len(a) + Len(b)
           /\ Len(a) \in Nat /\ Len(b) \in Nat
           /\ \A i \in 1 .. Len(a) : (a \o b)[i] = a[i]
           /\ \A i \in 1 .. Len(b) : (a \o b)[i + Len(a)] = b[i]
           /\ \A i \in 1 .. Len(a \o b) :
                \/ i \in 1 .. Len(a) /\ (a \o b)[i] = a[i]
                \/ i - Len(a) \in 1 .. Len(b) /\ (a \o b)[i] = b[i - Len(a)]
OBVIOUS

\* The loop that wakes every thread on a queue: all of them end on the run queue.
LEMMA WakeAllOK ==
    ASSUME NEW s, NEW d, NEW X, Sound(s, d, X), d # RunQ, NEW r \in Rsrc \ {RunQ, d},
           NEW status \in Status
    PROVE  /\ Sound(wake_all(s, r, status), d, X)
           /\ wake_all(s, r, status).q[r] = << >>
           /\ \A r1 \in Rsrc \ {RunQ, r} : wake_all(s, r, status).q[r1] = s.q[r1]
           /\ OneRunning(s) => OneRunning(wake_all(s, r, status))
<1> DEFINE s2 == wake_all(s, r, status)
           W == Range(s.q[r])
           a == s.q[RunQ]
           b == s.q[r]
<1>0. s \in SchedState /\ Placed(s, d) /\ Settled(s, X) /\ RunQ \in Rsrc
  BY SchedAssumption DEF Sound
<1>1. a \in Seq(Task) /\ b \in Seq(Task)
  BY <1>0, Fields
<1>2. /\ a \o b \in Seq(Task) /\ Len(a \o b) = Len(a) + Len(b)
      /\ Len(a) \in Nat /\ Len(b) \in Nat
      /\ \A i \in 1 .. Len(a) : (a \o b)[i] = a[i]
      /\ \A i \in 1 .. Len(b) : (a \o b)[i + Len(a)] = b[i]
      /\ \A i \in 1 .. Len(a \o b) :
           \/ i \in 1 .. Len(a) /\ (a \o b)[i] = a[i]
           \/ i - Len(a) \in 1 .. Len(b) /\ (a \o b)[i] = b[i - Len(a)]
  BY <1>1, ConcatElements, Zenon
<1>3. W = {b[i] : i \in 1 .. Len(b)}
  BY <1>1 DEF Range
<1> DEFINE Q == [s.q EXCEPT ![RunQ] = a \o b, ![r] = << >>]
           F == [t \in Task |-> IF t \in W THEN "WAITING" ELSE s.flags[t]]
           O == [t \in Task |-> IF t \in W THEN RunQ ELSE s.waiting_on[t]]
           S == [t \in Task |-> IF t \in W THEN status ELSE s.status[t]]
           T == [t \in Task |-> IF t \in W THEN 0 ELSE s.wait_time[t]]
<1>a. /\ Q \in [Rsrc -> Seq(Task)] /\ Q[RunQ] = a \o b /\ Q[r] = << >>
      /\ \A r1 \in Rsrc \ {RunQ, r} : Q[r1] = s.q[r1]
  <2>1. s.q \in [Rsrc -> Seq(Task)]
    BY <1>0, Fields
  <2>2. a \o b \in Seq(Task) /\ << >> \in Seq(Task) /\ RunQ # r
    BY <1>2
  <2> DEFINE ab == a \o b
  <2> HIDE DEF ab
  <2>3. ab \in Seq(Task) /\ Q = [s.q EXCEPT ![RunQ] = ab, ![r] = << >>]
    BY <2>2 DEF ab
  <2>4. /\ Q \in [Rsrc -> Seq(Task)] /\ Q[RunQ] = ab /\ Q[r] = << >>
        /\ \A r1 \in Rsrc \ {RunQ, r} : Q[r1] = s.q[r1]
    <3> HIDE DEF Q
    <3> QED BY <2>1, <2>2, <2>3, <1>0, Zenon
  <2> QED BY <2>4, Zenon DEF ab
<1>b. F \in [Task -> Flags]
  BY <1>0, Fields DEF Flags
<1>c. O \in [Task -> Rsrc \cup {NoRsrc}]
  BY <1>0, Fields
<1>d. S \in [Task -> Status] /\ T \in [Task -> Nat]
  BY <1>0, Fields
<1>e. s2 = [s EXCEPT !.q = Q, !.status = S, !.flags = F, !.wait_time = T, !.waiting_on = O]
  BY <1>0, Zenon DEF SchedState, wake_all
<1> HIDE DEF Q, F, O, S, T, s2
<1>4. /\ s2 \in SchedState
      /\ s2.q = Q /\ s2.flags = F /\ s2.waiting_on = O /\ s2.cur = s.cur
  BY <1>0, <1>a, <1>b, <1>c, <1>d, <1>e, Zenon DEF SchedState
<1>5. /\ s2.flags = [t \in Task |-> IF t \in W THEN "WAITING" ELSE s.flags[t]]
      /\ s2.waiting_on = [t \in Task |-> IF t \in W THEN RunQ ELSE s.waiting_on[t]]
      /\ s2.cur = s.cur
  BY <1>4 DEF F, O
<1> HIDE DEF W
<1>6. /\ s2.q[RunQ] = a \o b /\ s2.q[r] = << >>
      /\ \A r1 \in Rsrc \ {RunQ, r} : s2.q[r1] = s.q[r1]
  BY <1>4, <1>a
<1> HIDE DEF a, b
<1>7. \A i \in 1 .. Len(b) : b[i] \in Task /\ s.waiting_on[b[i]] = r /\ s.flags[b[i]] = "WAITING"
  BY <1>0, <1>1 DEF Placed, b
<1>8. \A i \in 1 .. Len(a) : a[i] \in Task /\ s.waiting_on[a[i]] = RunQ /\ s.flags[a[i]] = "WAITING"
  BY <1>0, <1>1 DEF Placed, a
<1>9. Placed(s2, d)
  <2> SUFFICES ASSUME NEW r1 \in Rsrc, NEW i \in 1 .. Len(s2.q[r1]), NEW j \in 1 .. Len(s2.q[r1])
               PROVE  /\ s2.waiting_on[s2.q[r1][i]] = r1
                      /\ s2.flags[s2.q[r1][i]] = IF r1 = d THEN "DEAD" ELSE "WAITING"
                      /\ s2.q[r1][i] = s2.q[r1][j] => i = j
    BY DEF Placed
  <2>1. CASE r1 = RunQ
    <3>1. i \in 1 .. Len(a \o b) /\ j \in 1 .. Len(a \o b) /\ s2.q[r1] = a \o b
      BY <2>1, <1>6
    <3>2. \A m, n \in 1 .. Len(a) : a[m] = a[n] => m = n
      BY <1>0 DEF Placed, a
    <3>3. \A m, n \in 1 .. Len(b) : b[m] = b[n] => m = n
      BY <1>0 DEF Placed, b
    <3>4. (a \o b)[i] = (a \o b)[j] => i = j
      <4>1. CASE i \in 1 .. Len(a) /\ j \in 1 .. Len(a)
        BY <4>1, <3>2, <1>2
      <4>2. CASE i - Len(a) \in 1 .. Len(b) /\ j - Len(a) \in 1 .. Len(b)
        <5>1. (a \o b)[i] = b[i - Len(a)] /\ (a \o b)[j] = b[j - Len(a)]
          BY <4>2, <3>1, <1>2
        <5>2. b[i - Len(a)] = b[j - Len(a)] => i - Len(a) = j - Len(a)
          BY <4>2, <3>3
        <5> QED BY <5>1, <5>2, <3>1, <1>2
      <4>3. CASE i \in 1 .. Len(a) /\ j - Len(a) \in 1 .. Len(b)
        <5>1. (a \o b)[i] = a[i] /\ (a \o b)[j] = b[j - Len(a)]
          BY <4>3, <3>1, <1>2
        <5> QED BY <5>1, <4>3, <1>7, <1>8
      <4>4. CASE i - Len(a) \in 1 .. Len(b) /\ j \in 1 .. Len(a)
        <5>1. (a \o b)[i] = b[i - Len(a)] /\ (a \o b)[j] = a[j]
          BY <4>4, <3>1, <1>2
        <5> QED BY <5>1, <4>4, <1>7, <1>8
      <4> QED BY <4>1, <4>2, <4>3, <4>4, <3>1, <1>2
    <3>5. /\ (a \o b)[i] \in Task
          /\ (a \o b)[i] \in W \/ (/\ s.waiting_on[(a \o b)[i]] = RunQ
                                   /\ s.flags[(a \o b)[i]] = "WAITING")
      BY <3>1, <1>2, <1>3, <1>7, <1>8
    <3> QED BY <2>1, <3>1, <3>4, <3>5, <1>5
  <2>2. CASE r1 = r
    BY <2>2, <1>6
  <2>3. CASE r1 # RunQ /\ r1 # r
    <3>1. s2.q[r1] = s.q[r1]
      BY <2>3, <1>6
    <3>2. s2.q[r1][i] \in Task \ W
      <4>1. s.q[r1][i] \in Task /\ s.waiting_on[s.q[r1][i]] = r1
        <5>1. i \in 1 .. Len(s.q[r1]) /\ s.q[r1] \in Seq(Task)
          BY <3>1, <1>0, Fields
        <5> QED BY <5>1, <1>0 DEF Placed
      <4>2. \A t \in W : s.waiting_on[t] = r
        BY <1>3, <1>7
      <4> QED BY <2>3, <3>1, <4>1, <4>2
    <3> QED BY <2>3, <3>1, <3>2, <1>0, <1>5 DEF Placed
  <2> QED BY <2>1, <2>2, <2>3
<1>10. Settled(s2, X)
  <2> SUFFICES ASSUME NEW u \in Task, u \notin X
               PROVE  /\ s2.flags[u] # "READY"
                      /\ s2.flags[u] = "WAITING" =>
                           /\ s2.waiting_on[u] \in Rsrc
                           /\ \E i \in 1 .. Len(s2.q[s2.waiting_on[u]]) :
                                 s2.q[s2.waiting_on[u]][i] = u
    BY DEF Settled
  <2>1. CASE u \in W
    <3>1. PICK i \in 1 .. Len(b) : b[i] = u
      BY <2>1, <1>3
    <3>2. i + Len(a) \in 1 .. Len(a \o b) /\ (a \o b)[i + Len(a)] = u
      BY <3>1, <1>2
    <3>3. s2.flags[u] = "WAITING" /\ s2.waiting_on[u] = RunQ
      BY <2>1, <1>5
    <3> QED BY <3>2, <3>3, <1>0, <1>6
  <2>2. CASE u \notin W
    <3>1. s2.flags[u] = s.flags[u] /\ s2.waiting_on[u] = s.waiting_on[u]
      BY <2>2, <1>5
    <3>2. s.flags[u] # "READY"
      BY <1>0 DEF Settled
    <3>3. ASSUME s.flags[u] = "WAITING"
          PROVE  /\ s2.waiting_on[u] \in Rsrc
                 /\ \E i \in 1 .. Len(s2.q[s2.waiting_on[u]]) : s2.q[s2.waiting_on[u]][i] = u
      <4> DEFINE w == s.waiting_on[u]
      <4>1. w \in Rsrc /\ \E i \in 1 .. Len(s.q[w]) : s.q[w][i] = u
        BY <3>3, <1>0 DEF Settled
      <4>2. w # r
        BY <4>1, <2>2, <1>3 DEF b
      <4>3. CASE w = RunQ
        <5>1. PICK i \in 1 .. Len(a) : a[i] = u
          BY <4>1, <4>3 DEF a
        <5>2. i \in 1 .. Len(a \o b) /\ (a \o b)[i] = u
          BY <5>1, <1>2
        <5> QED BY <5>2, <4>3, <3>1, <1>0, <1>6
      <4>4. CASE w # RunQ
        BY <4>1, <4>2, <4>4, <3>1, <1>6
      <4> QED BY <4>3, <4>4
    <3> QED BY <3>1, <3>2, <3>3
  <2> QED BY <2>1, <2>2
<1>11. OneRunning(s) => OneRunning(s2)
  <2>1. \A t \in W : s.flags[t] = "WAITING"
    BY <1>3, <1>7
  <2>2. \A t \in Task : s2.flags[t] = "RUNNING" <=> s.flags[t] = "RUNNING"
    BY <2>1, <1>5, Zenon
  <2> QED BY <2>2, <1>5, Zenon DEF OneRunning
<1>12. ASSUME NEW t \in X PROVE Off(s2, t)
  <2>1. Off(s, t)
    BY DEF Sound
  <2>2. /\ \A i \in 1 .. Len(a) : a[i] # t
        /\ \A i \in 1 .. Len(b) : b[i] # t
    BY <2>1, <1>0 DEF Off, a, b
  <2>3. \A i \in 1 .. Len(a \o b) : (a \o b)[i] # t
    BY <2>2, <1>2
  <2> DEFINE ab == a \o b
  <2>4. s2.q[RunQ] = ab /\ \A i \in 1 .. Len(ab) : ab[i] # t
    BY <2>3, <1>6
  <2> HIDE DEF ab
  <2> SUFFICES ASSUME NEW r1 \in Rsrc, NEW i \in 1 .. Len(s2.q[r1])
               PROVE  s2.q[r1][i] # t
    BY DEF Off
  <2>5. CASE r1 = RunQ
    BY <2>4, <2>5
  <2>6. CASE r1 = r
    BY <2>6, <1>6
  <2>7. CASE r1 # RunQ /\ r1 # r
    BY <2>1, <2>7, <1>6 DEF Off
  <2> QED BY <2>5, <2>6, <2>7
<1> QED BY <1>4, <1>6, <1>9, <1>10, <1>11, <1>12 DEF s2, Sound

\* if(task = rsrc_dequeue(r)) task_wake(task, status): one thread moves to the run
\* queue, if there is one.
LEMMA WakeOneOK ==
    ASSUME NEW s, NEW d, NEW X, Sound(s, d, X), d # RunQ, NEW r \in Rsrc \ {d},
           NEW status \in Status
    PROVE  /\ Sound(wake_one(s, r, status), d, X)
           /\ OneRunning(s) => OneRunning(wake_one(s, r, status))
<1>0. s \in SchedState /\ RunQ \in Rsrc
  BY SchedAssumption DEF Sound
<1>1. CASE s.q[r] = << >>
  BY <1>1 DEF wake_one
<1>2. CASE s.q[r] # << >>
  <2> DEFINE h == Head(s.q[r])
             s1 == rsrc_dequeue(s, r)
             s2 == [s1 EXCEPT !.status[h] = status]
             s3 == rsrc_enqueue(s2, RunQ, h)
             Y == X \cup {h}
  <2>1. /\ h \in Task /\ h \notin X /\ Sound(s1, d, X \cup {h})
        /\ s1.flags = [s.flags EXCEPT ![h] = "READY"] /\ s1.cur = s.cur
    BY <1>2, DequeueOK
  <2>2. s1 \in SchedState /\ Y \ {h} = X
    BY <2>1 DEF Sound
  <2>3. wake_one(s, r, status) = s3
    BY <1>2 DEF wake_one, task_wake
  <2>4. s.flags[h] = "WAITING" /\ s.flags \in [Task -> Flags]
    <3>1. h = s.q[r][1] /\ 1 \in 1 .. Len(s.q[r])
      BY <1>0, <1>2, Fields, HeadAndTail
    <3>2. Placed(s, d) /\ r # d
      BY DEF Sound
    <3>3. s.flags \in [Task -> Flags]
      BY <1>0, Fields
    <3> HIDE DEF h
    <3> QED BY <3>1, <3>2, <3>3 DEF Placed
  <2> HIDE DEF s1, h
  <2>5. s2 \in SchedState
    BY <2>1, <2>2, Zenon DEF SchedState
  <2>6. s2.q = s1.q /\ s2.flags = s1.flags /\ s2.waiting_on = s1.waiting_on /\ s2.cur = s1.cur
    BY <2>2 DEF SchedState
  <2>7. Sound(s1, d, Y) /\ Off(s1, h)
    BY <2>1 DEF Sound
  <2> HIDE DEF s2, Y
  <2>8. Sound(s2, d, Y) /\ Off(s2, h)
    BY <2>5, <2>6, <2>7, SameQueues DEF Off
  <2>9. Sound(s3, d, Y \ {h})
    BY <2>1, <2>8, <1>0, EnqueueOK
  <2>10. /\ s3.flags[h] = "WAITING" /\ \A u \in Task \ {h} : s3.flags[u] = s2.flags[u]
         /\ s3.cur = s2.cur
    BY <2>1, <2>5, <1>0, EnqueueEffect
  <2> HIDE DEF s3
  <2>11. OneRunning(s) => OneRunning(s3)
    BY <2>1, <2>4, <2>6, <2>10 DEF OneRunning
  <2> QED BY <2>2, <2>3, <2>9, <2>11
<1> QED BY <1>1, <1>2

\* The threads that are on no queue and do not run.
Lost(s) == {t \in Task : Off(s, t) /\ s.flags[t] # "RUNNING"}

\* Queues in order are sound but for the threads that were lost.
LEMMA PlacedIsSound ==
    ASSUME NEW s \in SchedState, Placed(s, NoRsrc)
    PROVE  Sound(s, NoRsrc, Lost(s))
<1>1. NoRsrc \notin Rsrc
  BY SchedAssumption
<1>2. ASSUME NEW t \in Task \ Lost(s)
      PROVE  /\ s.flags[t] # "READY"
             /\ s.flags[t] = "WAITING" =>
                  /\ s.waiting_on[t] \in Rsrc
                  /\ \E i \in 1 .. Len(s.q[s.waiting_on[t]]) : s.q[s.waiting_on[t]][i] = t
  <2>1. CASE s.flags[t] = "RUNNING"
    BY <2>1
  <2>2. CASE ~Off(s, t)
    <3>1. PICK r \in Rsrc : \E i \in 1 .. Len(s.q[r]) : s.q[r][i] = t
      BY <2>2 DEF Off
    <3>2. s.waiting_on[t] = r /\ s.flags[t] = "WAITING"
      BY <3>1, <1>1 DEF Placed
    <3> QED BY <3>1, <3>2
  <2> QED BY <2>1, <2>2 DEF Lost
<1> QED BY <1>2 DEF Sound, Settled, Lost

\* The state go_kernel() leaves is sound, and only the run queue has threads.
LEMMA BootedOK ==
    ASSUME NEW live \in Int, NEW d, d \notin Rsrc
    PROVE  /\ Sound(Booted(live), d, {}) /\ OneRunning(Booted(live))
           /\ \A r \in Rsrc \ {RunQ} : Booted(live).q[r] = << >>
<1> DEFINE S == Range(BootOrder)
           Q == [r \in Rsrc |-> IF r = RunQ THEN BootOrder ELSE << >>]
           F == [t \in Task |-> IF t \in S THEN "WAITING" ELSE "FREE"]
           O == [t \in Task |-> IF t \in S THEN RunQ ELSE NoRsrc]
           s == [cur |-> Idle, q |-> Q, flags |-> F, waiting_on |-> O,
                 status |-> [t \in Task |-> "ERR_NONE"], wait_time |-> [t \in Task |-> 0],
                 team |-> BootTeam, live |-> live]
<1>0. /\ RunQ \in Rsrc /\ BootOrder \in Seq(Task) /\ BootTeam \in [Task -> Team]
      /\ << >> \in Seq(Task) /\ d # RunQ
      /\ \A i, j \in 1 .. Len(BootOrder) : BootOrder[i] = BootOrder[j] => i = j
  BY SchedAssumption
<1>1. S = {BootOrder[i] : i \in 1 .. Len(BootOrder)}
  BY <1>0 DEF Range
<1> HIDE DEF S
<1>2. Q \in [Rsrc -> Seq(Task)] /\ F \in [Task -> Flags] /\ O \in [Task -> Rsrc \cup {NoRsrc}]
  BY <1>0 DEF Flags
<1>3. s \in SchedState
  <2> HIDE DEF Q, F, O
  <2> QED BY <1>0, <1>2 DEF SchedState, Status
<1>4. /\ s.q = Q /\ s.flags = F /\ s.waiting_on = O
  OBVIOUS
<1>5. Booted(live) = dispatch(s)
  BY DEF Booted, S
<1> HIDE DEF s
<1>6. Placed(s, d)
  BY <1>0, <1>1, <1>4 DEF Placed
<1>7. Settled(s, {})
  <2> SUFFICES ASSUME NEW u \in Task, u \in S
               PROVE  \E i \in 1 .. Len(s.q[RunQ]) : s.q[RunQ][i] = u
    BY <1>0, <1>4, Zenon DEF Settled
  <2> QED BY <1>0, <1>1, <1>4
<1>8. Sound(s, d, {}) /\ \A t \in Task : s.flags[t] # "RUNNING"
  BY <1>3, <1>4, <1>6, <1>7 DEF Sound
<1>9. \A r \in Rsrc \ {RunQ} : s.q[r] = << >>
  BY <1>4
<1> HIDE DEF Q, F, O
<1>10. /\ Sound(dispatch(s), d, {}) /\ OneRunning(dispatch(s))
       /\ \A r \in Rsrc \ {RunQ} : dispatch(s).q[r] = s.q[r]
  BY <1>0, <1>8, DispatchOK, Zenon
<1> QED BY <1>5, <1>9, <1>10
=============================================================================
