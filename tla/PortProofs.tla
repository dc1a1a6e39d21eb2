----------------------------- MODULE PortProofs ------------------------------
(***************************************************************************)
(* Message ports for any number of threads, teams and ports, any limit on  *)
(* the queues and any bound on the reference counts.  The links between    *)
(* masters and slaves, the limit of a queue and the order of the wait      *)
(* queues do not depend on each other, but for their types, so each has    *)
(* lemmas of its own.                                                      *)
(***************************************************************************)
EXTENDS Port, SchedProofs, FiniteSetTheorems

-----------------------------------------------------------------------------
(* Masters and slaves *)

\* The slaves of p in the ports P.
SlavesOf(P, p) == {s \in Ports : P[s].live /\ P[s].slaved = p}

\* MasterLive and RefcountCoversSlaves for the ports P, where a live port has
\* finitely many slaves.
LinksOK(P) ==
    \A p \in Ports : P[p].live =>
        /\ P[p].slaved # NoPort => P[P[p].slaved].live
        /\ IsFiniteSet(SlavesOf(P, p))
        /\ P[p].refcount >= 1 + Cardinality(SlavesOf(P, p))

\* What the fields of a port are.
LEMMA PortFields ==
    ASSUME NEW P \in [Ports -> PortState], NEW p \in Ports
    PROVE  /\ P[p].live \in BOOLEAN /\ P[p].msgs \in Seq(Message)
           /\ P[p].slaved \in Ports \cup {NoPort} /\ P[p].refcount \in Int
           /\ P[p].nowait \in BOOLEAN /\ P[p].owner \in Team \cup {NoTeam}
BY DEF PortState

\* A port is given another reference count.
LEMMA Recounted ==
    ASSUME NEW P \in [Ports -> PortState], NEW p \in Ports, NEW n \in Int,
           NEW P2, P2 = [P EXCEPT ![p].refcount = n]
    PROVE  /\ P2 \in [Ports -> PortState]
           /\ \A q \in Ports : /\ P2[q].live = P[q].live /\ P2[q].msgs = P[q].msgs
                               /\ P2[q].slaved = P[q].slaved
                               /\ P2[q].refcount = IF q = p THEN n ELSE P[q].refcount
<1>1. P2 \in [Ports -> PortState]
  BY Zenon DEF PortState
<1> QED BY <1>1 DEF PortState

\* A port is given another master, or none.
LEMMA Reslaved ==
    ASSUME NEW P \in [Ports -> PortState], NEW p \in Ports, NEW m \in Ports \cup {NoPort},
           NEW P2, P2 = [P EXCEPT ![p].slaved = m]
    PROVE  /\ P2 \in [Ports -> PortState]
           /\ \A q \in Ports : /\ P2[q].live = P[q].live /\ P2[q].msgs = P[q].msgs
                               /\ P2[q].slaved = IF q = p THEN m ELSE P[q].slaved
                               /\ P2[q].refcount = P[q].refcount
<1>1. P2 \in [Ports -> PortState]
  BY Zenon DEF PortState
<1> QED BY <1>1 DEF PortState

\* A step that changes no link.
LEMMA SameLinks ==
    ASSUME NEW P \in [Ports -> PortState], LinksOK(P), NEW P2 \in [Ports -> PortState],
           \A p \in Ports : /\ P2[p].live = P[p].live /\ P2[p].slaved = P[p].slaved
                            /\ P2[p].refcount = P[p].refcount
    PROVE  LinksOK(P2)
<1>1. \A p \in Ports : SlavesOf(P2, p) = SlavesOf(P, p)
  BY DEF SlavesOf
<1>2. ASSUME NEW p \in Ports, P2[p].live, P2[p].slaved # NoPort
      PROVE  P2[P2[p].slaved].live
  <2>1. P[p].slaved \in Ports /\ P[P[p].slaved].live
    BY <1>2, PortFields DEF LinksOK
  <2> QED BY <2>1
<1> QED BY <1>1, <1>2 DEF LinksOK

\* port_create(): no live port can be slaved to a port that was not live.
LEMMA CreateLinks ==
    ASSUME NEW P \in [Ports -> PortState], LinksOK(P), NEW P2 \in [Ports -> PortState],
           NEW p \in Ports, ~P[p].live,
           P2[p].slaved = NoPort, P2[p].refcount = 1,
           \A q \in Ports \ {p} : P2[q] = P[q]
    PROVE  LinksOK(P2)
<1>0. NoPort \notin Ports
  BY PortAssumption
<1>1. ASSUME NEW q \in Ports PROVE SlavesOf(P2, q) = SlavesOf(P, q)
  BY <1>0 DEF SlavesOf
<1>2. SlavesOf(P, p) = {}
  BY <1>0 DEF SlavesOf, LinksOK
<1>3. IsFiniteSet({}) /\ Cardinality({}) = 0
  BY FS_EmptySet
<1> SUFFICES ASSUME NEW q \in Ports, P2[q].live
             PROVE  /\ P2[q].slaved # NoPort => P2[P2[q].slaved].live
                    /\ IsFiniteSet(SlavesOf(P2, q))
                    /\ P2[q].refcount >= 1 + Cardinality(SlavesOf(P2, q))
  BY DEF LinksOK
<1>4. CASE q = p
  BY <1>4, <1>1, <1>2, <1>3
<1>5. CASE q # p
  <2>1. P2[q] = P[q] /\ P[q].live
    BY <1>5
  <2>2. ASSUME P[q].slaved # NoPort PROVE P2[P[q].slaved].live
    <3>1. P[q].slaved \in Ports /\ P[P[q].slaved].live
      BY <2>1, <2>2, PortFields DEF LinksOK
    <3> QED BY <3>1
  <2> QED BY <2>1, <2>2, <1>1 DEF LinksOK
<1> QED BY <1>4, <1>5

\* port_destroy() of a port that counts only itself.
LEMMA DestroyLinks ==
    ASSUME NEW P \in [Ports -> PortState], LinksOK(P), NEW P2 \in [Ports -> PortState],
           NEW p \in Ports, P[p].live, P[p].refcount = 1, ~P2[p].live,
           \A q \in Ports \ {p} : P2[q] = P[q]
    PROVE  LinksOK(P2)
<1>0. NoPort \notin Ports
  BY PortAssumption
<1>1. SlavesOf(P, p) = {}
  <2> DEFINE S == SlavesOf(P, p)
  <2>1. IsFiniteSet(S) /\ 1 >= 1 + Cardinality(S)
    BY DEF LinksOK
  <2> HIDE DEF S
  <2>2. Cardinality(S) \in Nat
    BY <2>1, FS_CardinalityType
  <2>3. Cardinality(S) = 0
    BY <2>1, <2>2
  <2>4. S = {}
    BY <2>1, <2>3, FS_EmptySet
  <2> QED BY <2>4 DEF S
<1>2. ASSUME NEW q \in Ports PROVE SlavesOf(P2, q) = SlavesOf(P, q) \ {p}
  BY DEF SlavesOf
<1> SUFFICES ASSUME NEW q \in Ports, P2[q].live
             PROVE  /\ P2[q].slaved # NoPort => P2[P2[q].slaved].live
                    /\ IsFiniteSet(SlavesOf(P2, q))
                    /\ P2[q].refcount >= 1 + Cardinality(SlavesOf(P2, q))
  BY DEF LinksOK
<1>3. q # p /\ P2[q] = P[q] /\ P[q].live
  OBVIOUS
<1>4. ASSUME P[q].slaved # NoPort PROVE P2[P[q].slaved].live
  <2>1. P[q].slaved \in Ports /\ P[P[q].slaved].live
    BY <1>3, <1>4, PortFields DEF LinksOK
  <2>2. P[q].slaved # p
    BY <1>1, <1>3 DEF SlavesOf
  <2> QED BY <2>1, <2>2
<1>5. IsFiniteSet(SlavesOf(P2, q)) /\ P[q].refcount >= 1 + Cardinality(SlavesOf(P2, q))
  <2> DEFINE S == SlavesOf(P, q)
             T == SlavesOf(P2, q)
  <2>1. IsFiniteSet(S) /\ P[q].refcount >= 1 + Cardinality(S) /\ T = S \ {p}
    BY <1>2, <1>3 DEF LinksOK
  <2>2. P[q].refcount \in Int
    BY PortFields
  <2> HIDE DEF S, T
  <2>3. IsFiniteSet(T) /\ Cardinality(T) <= Cardinality(S)
    BY <2>1, FS_Subset
  <2>4. Cardinality(T) \in Nat /\ Cardinality(S) \in Nat
    BY <2>1, <2>3, FS_CardinalityType
  <2> QED BY <2>1, <2>2, <2>3, <2>4 DEF T
<1> QED BY <1>3, <1>4, <1>5

\* PORT_OPT_SLAVE: p leaves its old master and joins the new one.
LEMMA SlaveLinks ==
    ASSUME NEW P \in [Ports -> PortState], LinksOK(P), NEW P2 \in [Ports -> PortState],
           NEW p \in Ports, P[p].live, NEW master \in Ports \cup {NoPort},
           master # NoPort => P[master].live,
           P2[p].slaved = master,
           \A q \in Ports \ {p} : P2[q].slaved = P[q].slaved,
           \A q \in Ports : /\ P2[q].live = P[q].live
                            /\ P2[q].refcount = P[q].refcount
                                 + (IF q = master THEN 1 ELSE 0)
                                 - (IF q = P[p].slaved THEN 1 ELSE 0)
    PROVE  LinksOK(P2)
<1>0. NoPort \notin Ports
  BY PortAssumption
<1> SUFFICES ASSUME NEW q \in Ports, P2[q].live
             PROVE  /\ P2[q].slaved # NoPort => P2[P2[q].slaved].live
                    /\ IsFiniteSet(SlavesOf(P2, q))
                    /\ P2[q].refcount >= 1 + Cardinality(SlavesOf(P2, q))
  BY DEF LinksOK
<1>1. ASSUME P2[q].slaved # NoPort PROVE P2[P2[q].slaved].live
  <2>1. CASE q = p
    BY <2>1, <1>1
  <2>2. CASE q # p
    <3>1. P[q].slaved \in Ports /\ P[P[q].slaved].live
      BY <2>2, <1>1, PortFields DEF LinksOK
    <3> QED BY <2>2, <3>1
  <2> QED BY <2>1, <2>2
<1> DEFINE S == SlavesOf(P, q)
           T == SlavesOf(P2, q)
<1>2. /\ IsFiniteSet(S) /\ P[q].refcount >= 1 + Cardinality(S)
      /\ P[q].refcount \in Int /\ Cardinality(S) \in Nat
  BY PortFields, FS_CardinalityType DEF LinksOK
<1>3. p \in S <=> q = P[p].slaved
  BY DEF SlavesOf
<1>4. T = IF q = master THEN S \cup {p} ELSE S \ {p}
  BY DEF SlavesOf
<1> HIDE DEF S, T
<1>5. /\ IsFiniteSet(S \cup {p})
      /\ Cardinality(S \cup {p}) = IF p \in S THEN Cardinality(S) ELSE Cardinality(S) + 1
  BY <1>2, FS_AddElement
<1>6. /\ IsFiniteSet(S \ {p})
      /\ Cardinality(S \ {p}) = IF p \in S THEN Cardinality(S) - 1 ELSE Cardinality(S)
  BY <1>2, FS_RemoveElement
<1>7. IsFiniteSet(T)
  BY <1>4, <1>5, <1>6
<1>8. P2[q].refcount >= 1 + Cardinality(T)
  <2>1. CASE q = master
    BY <2>1, <1>2, <1>3, <1>4, <1>5
  <2>2. CASE q # master
    BY <2>2, <1>2, <1>3, <1>4, <1>6
  <2> QED BY <2>1, <2>2
<1> QED BY <1>1, <1>7, <1>8 DEF T

-----------------------------------------------------------------------------
(* The wait queues *)

\* What PortQueuesOK says of the scheduler.
QueuesOK(s) == s \in SchedState /\ Placed(s, NoRsrc) /\ OneRunning(s)

\* Queues in order, in the terms of the lemmas about the scheduler.
LEMMA QueuesSound ==
    ASSUME NEW s, QueuesOK(s)
    PROVE  /\ Sound(s, NoRsrc, Lost(s)) /\ OneRunning(s) /\ NoOtherRuns(s)
           /\ s.cur \notin Lost(s) /\ NoRsrc # RunQ /\ NoRsrc \notin Rsrc /\ RunQ \in Rsrc
<1>1. s \in SchedState /\ Placed(s, NoRsrc) /\ OneRunning(s)
  BY DEF QueuesOK
<1>2. Sound(s, NoRsrc, Lost(s))
  BY <1>1, PlacedIsSound
<1>3. NoOtherRuns(s) /\ s.cur \notin Lost(s)
  BY <1>1 DEF NoOtherRuns, OneRunning, Lost
<1> QED BY <1>1, <1>2, <1>3, SchedAssumption

\* A sound state has its queues in order.
LEMMA SoundQueues ==
    ASSUME NEW s, NEW X, Sound(s, NoRsrc, X), OneRunning(s)
    PROVE  QueuesOK(s)
BY DEF Sound, QueuesOK

\* Everything that a port call does to the scheduler keeps the queues in order.
LEMMA QueuesKept ==
    ASSUME NEW s, QueuesOK(s)
    PROVE  /\ QueuesOK(swtch(s))
           /\ \A r \in Rsrc \ {RunQ} : \A e \in Status : QueuesOK(wake_one(s, r, e))
           /\ \A r \in Rsrc \ {RunQ} : \A e \in Status : QueuesOK(wake_all(s, r, e))
           /\ s.cur \in Task => \A r \in Rsrc \ {RunQ} : QueuesOK(wait_on(s, r))
<1> DEFINE X == Lost(s)
<1>0. /\ Sound(s, NoRsrc, X) /\ OneRunning(s) /\ NoOtherRuns(s)
      /\ s.cur \notin X /\ NoRsrc # RunQ /\ NoRsrc \notin Rsrc
  BY QueuesSound
<1> HIDE DEF X
<1>1. QueuesOK(swtch(s))
  BY <1>0, SwtchOK, SoundQueues
<1>2. ASSUME NEW r \in Rsrc \ {RunQ}, NEW e \in Status
      PROVE  QueuesOK(wake_one(s, r, e))
  <2>1. r \in Rsrc \ {NoRsrc}
    BY <1>0
  <2> QED BY <2>1, <1>0, WakeOneOK, SoundQueues
<1>3. ASSUME NEW r \in Rsrc \ {RunQ}, NEW e \in Status
      PROVE  QueuesOK(wake_all(s, r, e))
  <2>1. r \in Rsrc \ {RunQ, NoRsrc}
    BY <1>0
  <2> QED BY <2>1, <1>0, WakeAllOK, SoundQueues
<1>4. ASSUME s.cur \in Task, NEW r \in Rsrc \ {RunQ}
      PROVE  QueuesOK(wait_on(s, r))
  <2>1. r \in Rsrc \ {RunQ, NoRsrc} /\ s.cur \in Task \ X
    BY <1>0, <1>4
  <2> QED BY <2>1, <1>0, WaitOnOK, SoundQueues
<1> QED BY <1>1, <1>2, <1>3, <1>4

\* port_create() starts with empty queues; who is still on them is lost.
LEMMA QueuesCleared ==
    ASSUME NEW s, QueuesOK(s), NEW r1 \in Rsrc, NEW r2 \in Rsrc
    PROVE  QueuesOK([s EXCEPT !.q[r1] = << >>, !.q[r2] = << >>])
<1> DEFINE Q == [s.q EXCEPT ![r1] = << >>, ![r2] = << >>]
           s2 == [s EXCEPT !.q[r1] = << >>, !.q[r2] = << >>]
<1>1. s \in SchedState /\ Placed(s, NoRsrc) /\ OneRunning(s)
  BY DEF QueuesOK
<1>2. /\ Q \in [Rsrc -> Seq(Task)]
      /\ \A r \in Rsrc : Q[r] = << >> \/ Q[r] = s.q[r]
  <2>1. s.q \in [Rsrc -> Seq(Task)] /\ << >> \in Seq(Task)
    BY <1>1, Fields
  <2>2. Q \in [Rsrc -> Seq(Task)]
    BY <2>1, Zenon
  <2>3. \A r \in Rsrc : Q[r] = << >> \/ Q[r] = s.q[r]
    BY <2>1, Zenon
  <2> QED BY <2>2, <2>3
<1>3. s2 = [s EXCEPT !.q = Q]
  BY <1>1 DEF SchedState
<1> HIDE DEF Q, s2
<1>4. /\ s2 \in SchedState /\ s2.q = Q /\ s2.flags = s.flags /\ s2.cur = s.cur
      /\ s2.waiting_on = s.waiting_on
  BY <1>1, <1>2, <1>3, Zenon DEF SchedState
<1>5. Placed(s2, NoRsrc)
  BY <1>1, <1>2, <1>4 DEF Placed
<1>6. OneRunning(s2)
  BY <1>1, <1>4 DEF OneRunning
<1> QED BY <1>4, <1>5, <1>6 DEF QueuesOK, s2

-----------------------------------------------------------------------------
(* The invariant *)

\* The ports are typed, linked as they should be, and none holds too much.
PortsOK(P) ==
    /\ P \in [Ports -> PortState] /\ LinksOK(P)
    /\ \A p \in Ports : Len(P[p].msgs) <= MAX_MSGCOUNT

\* What holds in every state between two handlers.
PortInv ==
    /\ QueuesOK(k) /\ PortsOK(port)
    /\ frame \in [Task \cup {Idle} -> {UserFrame} \cup SendFrame \cup RecvFrame]
    /\ ret \in [Task -> Errors]

\* It says what the runs check.
LEMMA PortInvSays ==
    ASSUME PortInv
    PROVE  /\ PortQueuesOK /\ MasterLive /\ RefcountCoversSlaves /\ QueueBounded
<1>1. QueuesOK(k) /\ PortsOK(port)
  BY DEF PortInv
<1>2. \A p \in Ports : slaves(p) = SlavesOf(port, p)
  BY DEF slaves, SlavesOf
<1>3. PortQueuesOK
  BY DEF PortInv, PortQueuesOK, PortTypeOK, QueuesOK, PortsOK
<1> QED BY <1>1, <1>2, <1>3 DEF PortsOK, LinksOK, MasterLive, RefcountCoversSlaves, QueueBounded

\* A port gets other messages, not too many of them.
LEMMA MessagesOK ==
    ASSUME NEW P, PortsOK(P), NEW p \in Ports, NEW ms \in Seq(Message),
           Len(ms) <= MAX_MSGCOUNT, NEW P2, P2 = [P EXCEPT ![p].msgs = ms]
    PROVE  PortsOK(P2)
<1>1. P \in [Ports -> PortState] /\ LinksOK(P) /\ P[p] \in PortState
  BY DEF PortsOK
<1>2. P2 \in [Ports -> PortState]
  BY <1>1, Zenon DEF PortState
<1>3. \A q \in Ports : /\ P2[q].live = P[q].live /\ P2[q].slaved = P[q].slaved
                       /\ P2[q].refcount = P[q].refcount
                       /\ P2[q].msgs = IF q = p THEN ms ELSE P[q].msgs
  BY <1>1 DEF PortState
<1>4. LinksOK(P2)
  BY <1>1, <1>2, <1>3, SameLinks
<1> QED BY <1>2, <1>3, <1>4 DEF PortsOK

\* The frames and the results stay typed when a call returns.
LEMMA ReturnsOK ==
    ASSUME PortInv, NEW t \in Task, NEW r \in Errors, Returns(t, r)
    PROVE  /\ frame' \in [Task \cup {Idle} -> {UserFrame} \cup SendFrame \cup RecvFrame]
           /\ ret' \in [Task -> Errors]
BY DEF PortInv, Returns

\* A call that blocks.
LEMMA BlocksOK ==
    ASSUME PortInv, NEW t \in Task, k.cur = t, NEW r \in Rsrc \ {RunQ},
           NEW f \in SendFrame \cup RecvFrame, BlocksOn(t, r, f), port' = port
    PROVE  PortInv'
<1>1. k' = wait_on(k, r) /\ frame' = [frame EXCEPT ![t] = f] /\ ret' = ret
  BY DEF BlocksOn
<1>2. QueuesOK(k')
  BY <1>1, QueuesKept DEF PortInv
<1> QED BY <1>1, <1>2 DEF PortInv

\* A call that returns and changes nothing.
LEMMA RefusedOK ==
    ASSUME PortInv, NEW t \in Task, NEW r \in Errors, Returns(t, r), UNCHANGED <<k, port>>
    PROVE  PortInv'
BY ReturnsOK DEF PortInv

\* The queues of a port are resources.
LEMMA PortQueues ==
    ASSUME NEW p \in Ports
    PROVE  p \in Rsrc \ {RunQ} /\ SendQ(p) \in Rsrc \ {RunQ}
BY PortAssumption

\* port_send() from its wait loop on.
LEMMA SendToOK ==
    ASSUME PortInv, NEW t \in Task, k.cur = t, NEW p \in Ports, NEW m \in Message,
           NEW ok \in BOOLEAN, send_to(t, p, m, ok)
    PROVE  PortInv'
<1>0. /\ {"ERR_NONE", "ERR_WOULD_BLOCK", "ERR_MEMORY"} \subseteq Errors
      /\ "ERR_NONE" \in Status
  BY DEF Errors, Status
<1>1. CASE full(p) /\ port[p].nowait
  <2>1. Returns(t, "ERR_WOULD_BLOCK") /\ UNCHANGED <<k, port>>
    BY <1>1 DEF send_to
  <2> QED BY <1>0, <2>1, RefusedOK
<1>2. CASE full(p) /\ ~port[p].nowait
  <2> DEFINE f == [op |-> "port_send", p |-> p, m |-> m, ok |-> ok]
  <2>1. BlocksOn(t, SendQ(p), f) /\ port' = port
    BY <1>2 DEF send_to
  <2>2. f \in SendFrame \cup RecvFrame
    BY DEF SendFrame
  <2> HIDE DEF f
  <2>3. SendQ(p) \in Rsrc \ {RunQ}
    BY PortQueues
  <2> QED BY <2>1, <2>2, <2>3, BlocksOK
<1>3. CASE ~full(p) /\ ~ok
  <2>1. Returns(t, "ERR_MEMORY") /\ UNCHANGED <<k, port>>
    BY <1>3 DEF send_to
  <2> QED BY <1>0, <2>1, RefusedOK
<1>4. CASE ~full(p) /\ ok
  <2> DEFINE ms == Append(port[p].msgs, m)
  <2>0. port \in [Ports -> PortState] /\ PortsOK(port) /\ QueuesOK(k)
    BY DEF PortInv, PortsOK
  <2>1. /\ port' = [port EXCEPT ![p].msgs = Append(@, m)] /\ k' = wake_receiver(k, p)
        /\ Returns(t, "ERR_NONE")
    BY <1>4 DEF send_to
  <2>2. ms \in Seq(Message) /\ Len(ms) <= MAX_MSGCOUNT
    BY <1>4, <2>0, PortFields, PortAssumption DEF full
  <2>3. port' = [port EXCEPT ![p].msgs = ms]
    BY <2>1
  <2> HIDE DEF ms
  <2>4. PortsOK(port')
    BY <2>0, <2>2, <2>3, MessagesOK
  <2>5. QueuesOK(k')
    <3>1. port[p].slaved # NoPort => port[p].slaved \in Ports
      BY <2>0, PortFields
    <3>2. \A r \in Ports : QueuesOK(wake_one(k, r, "ERR_NONE"))
      BY <2>0, <1>0, PortQueues, QueuesKept
    <3> QED BY <2>0, <2>1, <3>1, <3>2 DEF wake_receiver
  <2>6. /\ frame' \in [Task \cup {Idle} -> {UserFrame} \cup SendFrame \cup RecvFrame]
        /\ ret' \in [Task -> Errors]
    BY <1>0, <2>1, ReturnsOK
  <2> QED BY <2>4, <2>5, <2>6 DEF PortInv
<1> QED BY <1>1, <1>2, <1>3, <1>4 DEF send_to

\* port_recv() from its wait loop on.
LEMMA RecvFromOK ==
    ASSUME PortInv, NEW t \in Task, k.cur = t, NEW p \in Ports, recv_from(t, p)
    PROVE  PortInv'
<1>0. {"ERR_NONE", "ERR_WOULD_BLOCK"} \subseteq Errors /\ "ERR_NONE" \in Status
  BY DEF Errors, Status
<1>1. CASE empty(p) /\ port[p].nowait
  <2>1. Returns(t, "ERR_WOULD_BLOCK") /\ UNCHANGED <<k, port>>
    BY <1>1 DEF recv_from
  <2> QED BY <1>0, <2>1, RefusedOK
<1>2. CASE empty(p) /\ ~port[p].nowait
  <2> DEFINE f == [op |-> "port_recv", p |-> p]
  <2>1. BlocksOn(t, p, f) /\ port' = port
    BY <1>2 DEF recv_from
  <2>2. f \in SendFrame \cup RecvFrame
    BY DEF RecvFrame
  <2> HIDE DEF f
  <2>3. p \in Rsrc \ {RunQ}
    BY PortQueues
  <2> QED BY <2>1, <2>2, <2>3, BlocksOK
<1>3. CASE ~empty(p)
  <2> DEFINE ms == Tail(port[p].msgs)
  <2>0. port \in [Ports -> PortState] /\ PortsOK(port) /\ QueuesOK(k)
    BY DEF PortInv, PortsOK
  <2>1. /\ port' = [port EXCEPT ![p].msgs = Tail(@)] /\ k' = wake_one(k, SendQ(p), "ERR_NONE")
        /\ Returns(t, "ERR_NONE")
    BY <1>3 DEF recv_from
  <2>2. ms \in Seq(Message) /\ Len(ms) <= MAX_MSGCOUNT
    <3>1. port[p].msgs \in Seq(Message) /\ port[p].msgs # << >> /\ Len(port[p].msgs) <= MAX_MSGCOUNT
      BY <1>3, <2>0, PortFields DEF empty, PortsOK
    <3> QED BY <3>1, PortAssumption
  <2>3. port' = [port EXCEPT ![p].msgs = ms]
    BY <2>1
  <2> HIDE DEF ms
  <2>4. PortsOK(port')
    BY <2>0, <2>2, <2>3, MessagesOK
  <2>5. QueuesOK(k')
    <3>1. SendQ(p) \in Rsrc \ {RunQ}
      BY PortQueues
    <3> QED BY <2>0, <2>1, <3>1, <1>0, QueuesKept
  <2>6. /\ frame' \in [Task \cup {Idle} -> {UserFrame} \cup SendFrame \cup RecvFrame]
        /\ ret' \in [Task -> Errors]
    BY <1>0, <2>1, ReturnsOK
  <2> QED BY <2>4, <2>5, <2>6 DEF PortInv
<1> QED BY <1>1, <1>2, <1>3 DEF recv_from

-----------------------------------------------------------------------------
(* The actions *)

\* The boot state has no ports.
LEMMA PortInitOK == PortInit => PortInv
<1> SUFFICES ASSUME PortInit PROVE PortInv
  OBVIOUS
<1> DEFINE P0 == [live |-> FALSE, msgs |-> << >>, slaved |-> NoPort,
                  refcount |-> 0, nowait |-> FALSE, owner |-> NoTeam]
<1>1. QueuesOK(k)
  <2>1. NoRsrc \notin Rsrc /\ Len(BootOrder) \in Int
    BY SchedAssumption
  <2>2. Sound(k, NoRsrc, {}) /\ OneRunning(k)
    BY <2>1, BootedOK DEF PortInit
  <2> QED BY <2>2, SoundQueues
<1>2. P0 \in PortState /\ ~P0.live /\ P0.msgs = << >>
  BY DEF PortState
<1>3. port = [p \in Ports |-> P0]
  BY DEF PortInit
<1> HIDE DEF P0
<1>4. PortsOK(port)
  BY <1>2, <1>3, PortAssumption DEF PortsOK, LinksOK
<1>5. /\ frame \in [Task \cup {Idle} -> {UserFrame} \cup SendFrame \cup RecvFrame]
      /\ ret \in [Task -> Errors]
  BY DEF PortInit, Errors, Status
<1> QED BY <1>1, <1>4, <1>5 DEF PortInv

\* port_create(): the port was not live, so no port is slaved to it.
LEMMA PortCreateOK ==
    ASSUME PortInv, NEW t \in Task, NEW p \in Ports, port_create(t, p)
    PROVE  PortInv'
<1> DEFINE P1 == [live |-> TRUE, msgs |-> << >>, slaved |-> NoPort,
                  refcount |-> 1, nowait |-> FALSE, owner |-> k.team[t]]
<1>0. QueuesOK(k) /\ PortsOK(port) /\ port \in [Ports -> PortState] /\ LinksOK(port)
  BY DEF PortInv, PortsOK
<1>1. /\ ~port[p].live /\ port' = [port EXCEPT ![p] = P1]
      /\ k' = [k EXCEPT !.q[p] = << >>, !.q[SendQ(p)] = << >>]
      /\ Returns(t, "ERR_NONE")
  BY DEF port_create
<1>2. P1 \in PortState /\ P1.slaved = NoPort /\ P1.refcount = 1 /\ P1.msgs = << >>
  <2>1. k.team[t] \in Team
    BY <1>0, Fields DEF QueuesOK
  <2> QED BY <2>1 DEF PortState
<1> HIDE DEF P1
<1>3. /\ port' \in [Ports -> PortState] /\ port'[p] = P1
      /\ \A q \in Ports \ {p} : port'[q] = port[q]
  BY <1>0, <1>1, <1>2
<1>4. LinksOK(port')
  BY <1>0, <1>1, <1>2, <1>3, CreateLinks
<1>5. PortsOK(port')
  <2>1. ASSUME NEW q \in Ports PROVE Len(port'[q].msgs) <= MAX_MSGCOUNT
    BY <1>0, <1>2, <1>3, PortAssumption DEF PortsOK
  <2> QED BY <1>3, <1>4, <2>1 DEF PortsOK
<1>6. QueuesOK(k')
  BY <1>0, <1>1, PortQueues, QueuesCleared
<1>7. "ERR_NONE" \in Errors
  BY DEF Errors, Status
<1> QED BY <1>1, <1>5, <1>6, <1>7, ReturnsOK DEF PortInv

\* port_destroy(): a port that counts only itself is no master.
LEMMA PortDestroyOK ==
    ASSUME PortInv, NEW t \in Task, NEW p \in Ports, port_destroy(t, p)
    PROVE  PortInv'
<1>e. {"ERR_NONE", "ERR_RESOURCE"} \subseteq Errors /\ "ERR_RESOURCE" \in Status
  BY DEF Errors, Status
<1>0. QueuesOK(k) /\ PortsOK(port) /\ port \in [Ports -> PortState] /\ LinksOK(port)
  BY DEF PortInv, PortsOK
<1>1. CASE port[p].refcount # 1
  <2>1. Returns(t, "ERR_RESOURCE") /\ UNCHANGED <<k, port>>
    BY <1>1 DEF port_destroy
  <2> QED BY <1>e, <2>1, RefusedOK
<1>2. CASE port[p].refcount = 1
  <2>1. /\ port[p].live /\ port' = [port EXCEPT ![p].live = FALSE]
        /\ k' = wake_all(wake_all(k, p, "ERR_RESOURCE"), SendQ(p), "ERR_RESOURCE")
        /\ Returns(t, "ERR_NONE")
    BY <1>2 DEF port_destroy
  <2>2. port' \in [Ports -> PortState]
    BY <1>0, <2>1, Zenon DEF PortState
  <2>3. /\ ~port'[p].live /\ \A q \in Ports \ {p} : port'[q] = port[q]
        /\ port'[p].msgs = port[p].msgs
    BY <1>0, <2>1 DEF PortState
  <2>4. LinksOK(port')
    BY <1>0, <1>2, <2>1, <2>2, <2>3, DestroyLinks
  <2>5. PortsOK(port')
    <3>1. ASSUME NEW q \in Ports PROVE Len(port'[q].msgs) <= MAX_MSGCOUNT
      BY <1>0, <2>3 DEF PortsOK
    <3> QED BY <2>2, <2>4, <3>1 DEF PortsOK
  <2>6. QueuesOK(k')
    <3>1. p \in Rsrc \ {RunQ} /\ SendQ(p) \in Rsrc \ {RunQ}
      BY PortQueues
    <3> DEFINE s == wake_all(k, p, "ERR_RESOURCE")
    <3>2. QueuesOK(s)
      BY <1>0, <1>e, <3>1, QueuesKept
    <3> HIDE DEF s
    <3>3. QueuesOK(wake_all(s, SendQ(p), "ERR_RESOURCE"))
      BY <1>e, <3>1, <3>2, QueuesKept
    <3> QED BY <2>1, <3>3 DEF s
  <2> QED BY <1>e, <2>1, <2>5, <2>6, ReturnsOK DEF PortInv
<1> QED BY <1>1, <1>2

\* PORT_OPT_SLAVE, with the old and the new master the same or not.
LEMMA PortSlaveOK ==
    ASSUME PortInv, NEW t \in Task, NEW p \in Ports, NEW master \in Ports \cup {NoPort},
           port_slave(t, p, master)
    PROVE  PortInv'
<1> DEFINE old == port[p].slaved
           P1 == IF master = NoPort THEN port ELSE [port EXCEPT ![master].refcount = @ + 1]
           P2 == IF old = NoPort THEN P1 ELSE [P1 EXCEPT ![old].refcount = @ - 1]
<1>0. /\ QueuesOK(k) /\ PortsOK(port) /\ port \in [Ports -> PortState] /\ LinksOK(port)
      /\ old \in Ports \cup {NoPort} /\ NoPort \notin Ports
  BY PortFields, PortAssumption DEF PortInv, PortsOK
<1>1. /\ port[p].live /\ (master # NoPort => port[master].live)
      /\ port' = [P2 EXCEPT ![p].slaved = master] /\ k' = k /\ Returns(t, "ERR_NONE")
  BY DEF port_slave, owns
<1>2. /\ P1 \in [Ports -> PortState]
      /\ \A q \in Ports :
            /\ P1[q].live = port[q].live /\ P1[q].msgs = port[q].msgs
            /\ P1[q].slaved = port[q].slaved
            /\ P1[q].refcount = port[q].refcount + (IF q = master THEN 1 ELSE 0)
  <2>1. CASE master = NoPort
    BY <2>1, <1>0, PortFields
  <2>2. CASE master # NoPort
    <3> DEFINE n == port[master].refcount + 1
    <3>1. n \in Int /\ master \in Ports /\ P1 = [port EXCEPT ![master].refcount = n]
      BY <2>2, <1>0, PortFields
    <3>2. \A q \in Ports : port[q].refcount \in Int
      BY <1>0, PortFields
    <3> HIDE DEF P1
    <3> QED BY <1>0, <3>1, <3>2, Recounted
  <2> QED BY <2>1, <2>2
<1> HIDE DEF P1
<1>3. /\ P2 \in [Ports -> PortState]
      /\ \A q \in Ports :
            /\ P2[q].live = P1[q].live /\ P2[q].msgs = P1[q].msgs
            /\ P2[q].slaved = P1[q].slaved
            /\ P2[q].refcount = P1[q].refcount - (IF q = old THEN 1 ELSE 0)
  <2>1. CASE old = NoPort
    BY <2>1, <1>0, <1>2, PortFields
  <2>2. CASE old # NoPort
    <3> DEFINE n == P1[old].refcount - 1
    <3>1. n \in Int /\ old \in Ports /\ P2 = [P1 EXCEPT ![old].refcount = n]
      BY <2>2, <1>0, <1>2, PortFields
    <3>2. \A q \in Ports : P1[q].refcount \in Int
      BY <1>2, PortFields
    <3> HIDE DEF P2, old
    <3> QED BY <1>2, <3>1, <3>2, Recounted
  <2> QED BY <2>1, <2>2
<1> HIDE DEF P2
<1>4. /\ port' \in [Ports -> PortState]
      /\ \A q \in Ports :
            /\ port'[q].live = P2[q].live /\ port'[q].msgs = P2[q].msgs
            /\ port'[q].slaved = IF q = p THEN master ELSE P2[q].slaved
            /\ port'[q].refcount = P2[q].refcount
  <2>1. port' = [P2 EXCEPT ![p].slaved = master] /\ P2 \in [Ports -> PortState]
    BY <1>1, <1>3
  <2> HIDE DEF old
  <2> QED BY ONLY <2>1, Reslaved, p \in Ports, master \in Ports \cup {NoPort}
<1>5. /\ port'[p].slaved = master
      /\ \A q \in Ports \ {p} : port'[q].slaved = port[q].slaved
      /\ \A q \in Ports : /\ port'[q].live = port[q].live /\ port'[q].msgs = port[q].msgs
                          /\ port'[q].refcount = port[q].refcount
                               + (IF q = master THEN 1 ELSE 0)
                               - (IF q = port[p].slaved THEN 1 ELSE 0)
  <2>1. \A q \in Ports : port[q].refcount \in Int
    BY <1>0, PortFields
  <2> QED BY <2>1, <1>2, <1>3, <1>4 DEF old
<1>6. LinksOK(port')
  <2>1. /\ port \in [Ports -> PortState] /\ port' \in [Ports -> PortState]
        /\ LinksOK(port) /\ port[p].live /\ (master # NoPort => port[master].live)
    BY <1>0, <1>1, <1>4
  <2>2. \A q \in Ports : /\ port'[q].live = port[q].live
                         /\ port'[q].refcount = port[q].refcount
                              + (IF q = master THEN 1 ELSE 0)
                              - (IF q = port[p].slaved THEN 1 ELSE 0)
    BY <1>5
  <2>3. /\ port'[p].slaved = master
        /\ \A q \in Ports \ {p} : port'[q].slaved = port[q].slaved
    BY <1>5
  <2> QED BY ONLY <2>1, <2>2, <2>3, SlaveLinks, p \in Ports, master \in Ports \cup {NoPort}
<1>7. PortsOK(port')
  <2>1. ASSUME NEW q \in Ports PROVE Len(port'[q].msgs) <= MAX_MSGCOUNT
    BY <1>0, <1>5 DEF PortsOK
  <2> QED BY <1>4, <1>6, <2>1 DEF PortsOK
<1>8. "ERR_NONE" \in Errors
  BY DEF Errors, Status
<1> QED BY <1>0, <1>1, <1>7, <1>8, ReturnsOK DEF PortInv

\* PORT_OPT_NOWAIT changes nothing that the invariant speaks of.
LEMMA PortNowaitOK ==
    ASSUME PortInv, NEW t \in Task, NEW p \in Ports, NEW arg \in BOOLEAN, port_nowait(t, p, arg)
    PROVE  PortInv'
<1>0. QueuesOK(k) /\ PortsOK(port) /\ port \in [Ports -> PortState] /\ LinksOK(port)
  BY DEF PortInv, PortsOK
<1>1. port' = [port EXCEPT ![p].nowait = arg] /\ k' = k /\ Returns(t, "ERR_NONE")
  BY DEF port_nowait
<1>2. port' \in [Ports -> PortState]
  BY <1>0, <1>1, Zenon DEF PortState
<1>3. \A q \in Ports : /\ port'[q].live = port[q].live /\ port'[q].slaved = port[q].slaved
                       /\ port'[q].refcount = port[q].refcount
                       /\ port'[q].msgs = port[q].msgs
  BY <1>0, <1>1 DEF PortState
<1>4. PortsOK(port')
  <2>1. LinksOK(port')
    BY <1>0, <1>2, <1>3, SameLinks
  <2> QED BY <1>0, <1>2, <1>3, <2>1 DEF PortsOK
<1>5. "ERR_NONE" \in Errors
  BY DEF Errors, Status
<1> QED BY <1>0, <1>1, <1>4, <1>5, ReturnsOK DEF PortInv

\* port_send(): it gives up, or goes on with a port that exists.
LEMMA PortSendOK ==
    ASSUME PortInv, NEW t \in Task, NEW src \in Ports, NEW dst \in Ports, NEW ok \in Valid,
           port_send(t, src, dst, ok)
    PROVE  PortInv'
<1>1. CASE send_error(src, dst) = "ERR_NONE"
  <2>1. k.cur = t /\ send_to(t, target(dst), dst, ok)
    BY <1>1 DEF port_send, InUser
  <2>2. target(dst) \in Ports
    BY PortFields DEF target, PortInv, PortsOK
  <2>3. ok \in BOOLEAN /\ dst \in Message
    BY PortAssumption DEF Message
  <2> QED BY <2>1, <2>2, <2>3, SendToOK
<1>2. CASE send_error(src, dst) # "ERR_NONE"
  <2>1. Returns(t, send_error(src, dst)) /\ UNCHANGED <<k, port>>
    BY <1>2 DEF port_send
  <2>2. send_error(src, dst) \in Errors
    BY DEF send_error, Errors, Status
  <2> QED BY <2>1, <2>2, RefusedOK
<1> QED BY <1>1, <1>2

\* port_send() and port_recv() after their wait.
LEMMA PortResumeOK ==
    ASSUME PortInv, NEW t \in Task, PortResume(t)
    PROVE  PortInv'
<1>1. k.cur = t
  BY DEF PortResume, port_send_woken, port_recv_woken
<1>2. k.status[t] \in Errors
  BY Fields DEF PortInv, QueuesOK, Errors
<1>3. CASE Returns(t, k.status[t]) /\ UNCHANGED <<k, port>>
  BY <1>2, <1>3, RefusedOK
<1>4. CASE /\ frame[t] \in SendFrame
           /\ send_to(t, frame[t].p, frame[t].m, frame[t].ok)
  <2>1. frame[t].p \in Ports /\ frame[t].m \in Message /\ frame[t].ok \in BOOLEAN
    BY <1>4 DEF SendFrame
  <2> QED BY <1>1, <1>4, <2>1, SendToOK
<1>5. CASE frame[t] \in RecvFrame /\ recv_from(t, frame[t].p)
  <2>1. frame[t].p \in Ports
    BY <1>5 DEF RecvFrame
  <2> QED BY <1>1, <1>5, <2>1, RecvFromOK
<1> QED BY <1>3, <1>4, <1>5 DEF PortResume, port_send_woken, port_recv_woken

\* timer_irq() switches threads.
LEMMA PortTimerOK == PortInv /\ port_timer => PortInv'
BY QueuesKept DEF PortInv, port_timer

\* A step that changes nothing.
LEMMA PortStutterOK == PortInv /\ UNCHANGED portVars => PortInv'
BY DEF PortInv, portVars

\* Every step keeps the invariant.
LEMMA PortNextOK == PortInv /\ [PortNext]_portVars => PortInv'
<1> SUFFICES ASSUME PortInv, [PortNext]_portVars PROVE PortInv'
  OBVIOUS
<1>1. CASE UNCHANGED portVars
  BY <1>1, PortStutterOK
<1>2. CASE port_timer
  BY <1>2, PortTimerOK
<1>3. ASSUME NEW t \in Task, PortResume(t) PROVE PortInv'
  BY <1>3, PortResumeOK
<1>4. ASSUME NEW t \in Task, PortCall(t) PROVE PortInv'
  <2>e. {"ERR_PERMISSION", "ERR_RESOURCE", "ERR_MEMORY", "ERR_RECVPORT"} \subseteq Errors
    BY DEF Errors, Status
  <2>1. PICK p \in Ports :
            \/ port_create(t, p)
            \/ port_destroy(t, p)
            \/ PortOption(t, p)
            \/ \E src \in Ports, ok \in Valid : port_send(t, src, p, ok)
            \/ port_recv(t, p)
            \/ port_recv_refused(t, p)
    BY <1>4 DEF PortCall
  <2>2. CASE port_create(t, p)
    BY <2>2, PortCreateOK
  <2>3. CASE port_destroy(t, p)
    BY <2>3, PortDestroyOK
  <2>4. CASE PortOption(t, p)
    <3>1. CASE port_option_refused(t, p)
      <4>1. Returns(t, refusal(t, p)) /\ UNCHANGED <<k, port>> /\ refusal(t, p) \in Errors
        BY <3>1, <2>e DEF port_option_refused, refusal
      <4> QED BY <4>1, RefusedOK
    <3> QED BY <2>4, <3>1, PortSlaveOK, PortNowaitOK DEF PortOption
  <2>5. ASSUME NEW src \in Ports, NEW ok \in Valid, port_send(t, src, p, ok) PROVE PortInv'
    BY <2>5, PortSendOK
  <2>6. CASE port_recv(t, p)
    <3>1. k.cur = t /\ recv_from(t, p)
      BY <2>6 DEF port_recv, InUser
    <3> QED BY <3>1, RecvFromOK
  <2>7. CASE port_recv_refused(t, p)
    <3> DEFINE e == IF port[p].live THEN "ERR_MEMORY" ELSE "ERR_RECVPORT"
    <3>1. Returns(t, e) /\ UNCHANGED <<k, port>> /\ e \in Errors
      BY <2>7, <2>e DEF port_recv_refused
    <3> HIDE DEF e
    <3> QED BY <3>1, RefusedOK
  <2> QED BY <2>1, <2>2, <2>3, <2>4, <2>5, <2>6, <2>7
<1> QED BY <1>1, <1>2, <1>3, <1>4 DEF PortNext

\* So the invariant always holds.
LEMMA PortInvHolds == PortSpec => []PortInv
BY PortInitOK, PortNextOK, PTL DEF PortSpec

-----------------------------------------------------------------------------
(* The theorems *)

\* Whatever the threads do with their ports (kernel/port.c), also when they go on
\* with a port that was destroyed or created anew while they slept, every thread
\* stays on one queue at most, once, and only the current one is marked running.
THEOREM PortQueuesCorrect == PortSpec => []PortQueuesOK
<1>1. PortInv => PortQueuesOK
  BY PortInvSays
<1> QED BY <1>1, PortInvHolds, PTL

\* The reference counts of port_option() and port_destroy() do what they are for:
\* the master of a live slave is alive, so "master port not found?" never panics.
THEOREM MasterAlwaysLive == PortSpec => [](MasterLive /\ RefcountCoversSlaves)
<1>1. PortInv => MasterLive /\ RefcountCoversSlaves
  BY PortInvSays
<1> QED BY <1>1, PortInvHolds, PTL

\* A port never holds more than MAX_MSGCOUNT messages, whoever port_recv() woke:
\* port_send() looks at the count again after every wait.
THEOREM PortNeverOverfull == PortSpec => []QueueBounded
<1>1. PortInv => QueueBounded
  BY PortInvSays
<1> QED BY <1>1, PortInvHolds, PTL
=============================================================================
