-------------------------------- MODULE Port ---------------------------------
(***************************************************************************)
(* Message ports (kernel/port.c) on top of the scheduler.                  *)
(*                                                                         *)
(* A port and the port_t block behind it are one thing here: port_create() *)
(* reuses the block that port_destroy() freed last, and a freed block      *)
(* keeps its contents until then.  That matters because a thread that      *)
(* blocks in port_send() or port_recv() goes on with the pointer it found  *)
(* before it blocked.  Each port has two wait queues: its own, for         *)
(* receivers, and SendQ(p), for senders.  Message bodies are left out.     *)
(***************************************************************************)
EXTENDS Sched, FiniteSets

CONSTANTS
    Ports,          \* the port_t blocks
    NoPort,         \* slaved == 0
    NoTeam,         \* owner == NULL
    MAX_MSGCOUNT,
    MaxRefcount,    \* bound on refcount in a model
    Valid           \* {TRUE}, or BOOLEAN if threads also send invalid messages

SendQ(p) == <<"sendqueue", p>>

ASSUME PortAssumption ==
    /\ Ports \subseteq Rsrc \ {RunQ} /\ NoPort \notin Ports
    /\ \A p \in Ports : SendQ(p) \in Rsrc \ ({RunQ} \cup Ports)
    /\ NoTeam \notin Team
    /\ MAX_MSGCOUNT \in Nat \ {0}
    /\ MaxRefcount \in Nat
    /\ Valid \subseteq BOOLEAN

VARIABLE port

portVars == <<k, frame, ret, port>>

\* A message is the id it was sent to; the rest of message_t is payload.
Message == Ports

PortState ==
    [live : BOOLEAN,                   \* rsrc.type is RSRC_PORT
     msgs : Seq(Message),              \* first .. last, msgcount of them
     slaved : Ports \cup {NoPort},
     refcount : Int,                   \* 1, and 1 for each slave
     nowait : BOOLEAN,
     owner : Team \cup {NoTeam}]

\* A suspended port_send() of m to the port found at p; ok if the size and the
\* address of the message pass the check that comes after the wait.
SendFrame == [op : {"port_send"}, p : Ports, m : Message, ok : BOOLEAN]
RecvFrame == [op : {"port_recv"}, p : Ports]

PortTypeOK ==
    /\ k \in SchedState
    /\ frame \in [Task \cup {Idle} -> {UserFrame} \cup SendFrame \cup RecvFrame]
    /\ ret \in [Task -> Errors]
    /\ port \in [Ports -> PortState]

full(p) == Len(port[p].msgs) >= MAX_MSGCOUNT
empty(p) == port[p].msgs = << >>

-----------------------------------------------------------------------------
port_create(t, p) ==
    /\ InUser(t)
    /\ ~port[p].live
    /\ port' = [port EXCEPT ![p] = [live |-> TRUE, msgs |-> << >>, slaved |-> NoPort,
                                    refcount |-> 1, nowait |-> FALSE, owner |-> k.team[t]]]
    /\ k' = [k EXCEPT !.q[p] = << >>, !.q[SendQ(p)] = << >>]
    /\ Returns(t, "ERR_NONE")

\* Mutant: a master is destroyed too.
port_destroy_master(t, p) ==
    /\ InUser(t)
    /\ port[p].live
    /\ k' = wake_all(wake_all(k, p, "ERR_RESOURCE"), SendQ(p), "ERR_RESOURCE")
    /\ port' = [port EXCEPT ![p].live = FALSE]
    /\ Returns(t, "ERR_NONE")

\* Releasing the port and then its send queue wakes everybody on them.  The slave
\* is not taken off its master's refcount, and the messages stay where they are.
port_destroy(t, p) ==
    /\ InUser(t)
    /\ port[p].live
    /\ IF port[p].refcount = 1
       THEN /\ k' = wake_all(wake_all(k, p, "ERR_RESOURCE"), SendQ(p), "ERR_RESOURCE")
            /\ port' = [port EXCEPT ![p].live = FALSE]
            /\ Returns(t, "ERR_NONE")
       ELSE Returns(t, "ERR_RESOURCE") /\ UNCHANGED <<k, port>>

owns(t, p) == port[p].live /\ port[p].owner = k.team[t]

\* Why port_option() of t refuses the port id p.
refusal(t, p) == IF port[p].live THEN "ERR_PERMISSION" ELSE "ERR_RESOURCE"

\* Mutant: the new master does not count its slave.
port_slave_no_count(t, p, master) ==
    /\ InUser(t)
    /\ owns(t, p)
    /\ master # NoPort => owns(t, master)
    /\ port' = [port EXCEPT ![p].slaved = master]
    /\ Returns(t, "ERR_NONE")
    /\ UNCHANGED k

\* PORT_OPT_SLAVE.  The new master is counted before the old one is released; a
\* master that is gone there is the panic that MasterLive excludes.
port_slave(t, p, master) ==
    /\ InUser(t)
    /\ owns(t, p)
    /\ master # NoPort => owns(t, master) /\ port[master].refcount < MaxRefcount
    /\ LET counted == IF master = NoPort THEN port
                      ELSE [port EXCEPT ![master].refcount = @ + 1]
           derefed == IF port[p].slaved = NoPort THEN counted
                      ELSE [counted EXCEPT ![port[p].slaved].refcount = @ - 1]
       IN  port' = [derefed EXCEPT ![p].slaved = master]
    /\ Returns(t, "ERR_NONE")
    /\ UNCHANGED k

\* PORT_OPT_NOWAIT
port_nowait(t, p, arg) ==
    /\ InUser(t)
    /\ owns(t, p)
    /\ port' = [port EXCEPT ![p].nowait = arg]
    /\ Returns(t, "ERR_NONE")
    /\ UNCHANGED k

\* port_option() refuses the port, or the master it is to be slaved to.
port_option_refused(t, p) ==
    /\ InUser(t)
    /\ ~owns(t, p)
    /\ Returns(t, refusal(t, p))
    /\ UNCHANGED <<k, port>>

-----------------------------------------------------------------------------
\* Mutant: the receiver that is woken stays on the queue.
wake_receiver_no_dequeue(s, p) ==
    IF s.q[p] = << >> THEN s ELSE task_wake(s, Head(s.q[p]), "ERR_NONE")

\* Mutant: nobody is woken.
wake_receiver_nobody(s, p) == s

\* Wake the first thread that sleeps on the destination, as port_send() finds it.
wake_receiver(s, p) ==
    IF port[p].slaved = NoPort THEN wake_one(s, p, "ERR_NONE")
    ELSE IF port[port[p].slaved].live THEN wake_one(s, port[p].slaved, "ERR_NONE")
    ELSE s

\* port_send() from its wait loop on, with the port found at p.
send_to(t, p, m, ok) ==
    \/ /\ full(p) /\ port[p].nowait
       /\ Returns(t, "ERR_WOULD_BLOCK")
       /\ UNCHANGED <<k, port>>
    \/ /\ full(p) /\ ~port[p].nowait
       /\ BlocksOn(t, SendQ(p), [op |-> "port_send", p |-> p, m |-> m, ok |-> ok])
       /\ UNCHANGED port
    \/ /\ ~full(p) /\ ~ok
       /\ Returns(t, "ERR_MEMORY")
       /\ UNCHANGED <<k, port>>
    \/ /\ ~full(p) /\ ok
       /\ port' = [port EXCEPT ![p].msgs = Append(@, m)]
       /\ k' = wake_receiver(k, p)
       /\ Returns(t, "ERR_NONE")

\* The port that a message to dst goes to: its master, if it has one.
target(dst) == IF port[dst].slaved = NoPort THEN dst ELSE port[dst].slaved

\* Why port_send() gives up before the wait loop.
send_error(src, dst) ==
    IF ~port[src].live THEN "ERR_SENDPORT"
    ELSE IF ~port[dst].live THEN "ERR_RECVPORT"
    ELSE IF target(dst) # dst /\ ~(port[target(dst)].live /\ port[target(dst)].slaved = NoPort)
         THEN "ERR_RESOURCE" ELSE "ERR_NONE"

port_send(t, src, dst, ok) ==
    /\ InUser(t)
    /\ \/ /\ send_error(src, dst) = "ERR_NONE"
          /\ send_to(t, target(dst), dst, ok)
       \/ /\ send_error(src, dst) # "ERR_NONE"
          /\ Returns(t, send_error(src, dst))
          /\ UNCHANGED <<k, port>>

\* Mutant: the port is not looked at again after the wait.
port_send_woken_if(t) ==
    /\ k.cur = t /\ frame[t] \in SendFrame
    /\ port' = [port EXCEPT ![frame[t].p].msgs = Append(@, frame[t].m)]
    /\ k' = wake_receiver(k, frame[t].p)
    /\ Returns(t, "ERR_NONE")

\* A sender that blocked is current again: it looks at what woke it, then goes
\* round the loop with the port it found before.
port_send_woken(t) ==
    /\ k.cur = t /\ frame[t] \in SendFrame
    /\ \/ /\ k.status[t] = "ERR_NONE"
          /\ send_to(t, frame[t].p, frame[t].m, frame[t].ok)
       \/ /\ k.status[t] # "ERR_NONE"
          /\ Returns(t, k.status[t])
          /\ UNCHANGED <<k, port>>

\* Mutant: no sender is told of the free place.
recv_from_no_wake(t, p) ==
    \/ /\ empty(p)
       /\ BlocksOn(t, p, [op |-> "port_recv", p |-> p])
       /\ UNCHANGED port
    \/ /\ ~empty(p)
       /\ port' = [port EXCEPT ![p].msgs = Tail(@)]
       /\ Returns(t, "ERR_NONE")
       /\ UNCHANGED k

\* port_recv() from its wait loop on, with the port found at p.
recv_from(t, p) ==
    \/ /\ empty(p) /\ port[p].nowait
       /\ Returns(t, "ERR_WOULD_BLOCK")
       /\ UNCHANGED <<k, port>>
    \/ /\ empty(p) /\ ~port[p].nowait
       /\ BlocksOn(t, p, [op |-> "port_recv", p |-> p])
       /\ UNCHANGED port
    \/ /\ ~empty(p)
       /\ port' = [port EXCEPT ![p].msgs = Tail(@)]
       /\ k' = wake_one(k, SendQ(p), "ERR_NONE")
       /\ Returns(t, "ERR_NONE")

port_recv(t, dst) ==
    /\ InUser(t)
    /\ port[dst].live
    /\ recv_from(t, dst)

\* The id names no port, or the buffer lies outside the user's address range.
port_recv_refused(t, dst) ==
    /\ InUser(t)
    /\ Returns(t, IF port[dst].live THEN "ERR_MEMORY" ELSE "ERR_RECVPORT")
    /\ UNCHANGED <<k, port>>

port_recv_woken(t) ==
    /\ k.cur = t /\ frame[t] \in RecvFrame
    /\ \/ /\ k.status[t] = "ERR_NONE"
          /\ recv_from(t, frame[t].p)
       \/ /\ k.status[t] # "ERR_NONE"
          /\ Returns(t, k.status[t])
          /\ UNCHANGED <<k, port>>

\* timer_irq() with nobody asleep: the running thread loses the CPU.
port_timer ==
    /\ InterruptsOn
    /\ k' = swtch(k)
    /\ UNCHANGED <<frame, ret, port>>

-----------------------------------------------------------------------------
PortInit ==
    /\ k = Booted(Len(BootOrder))
    /\ frame = [t \in Task \cup {Idle} |-> UserFrame]
    /\ ret = [t \in Task |-> "ERR_NONE"]
    /\ port = [p \in Ports |-> [live |-> FALSE, msgs |-> << >>, slaved |-> NoPort,
                                refcount |-> 0, nowait |-> FALSE, owner |-> NoTeam]]

PortOption(t, p) ==
    \/ \E master \in Ports \cup {NoPort} : port_slave(t, p, master)
    \/ \E arg \in BOOLEAN : port_nowait(t, p, arg)
    \/ port_option_refused(t, p)

\* Thread t goes on with a call that it was suspended in.
PortResume(t) == port_send_woken(t) \/ port_recv_woken(t)

PortCall(t) ==
    \E p \in Ports :
        \/ port_create(t, p)
        \/ port_destroy(t, p)
        \/ PortOption(t, p)
        \/ \E src \in Ports, ok \in Valid : port_send(t, src, p, ok)
        \/ port_recv(t, p)
        \/ port_recv_refused(t, p)

PortNext == port_timer \/ \E t \in Task : PortCall(t) \/ PortResume(t)

PortSpec == PortInit /\ [][PortNext]_portVars

-----------------------------------------------------------------------------
(* Properties *)

\* A thread is on one queue at most, once, and only the current thread is marked
\* as running, also when threads go on with ports that were destroyed meanwhile.
PortQueuesOK == PortTypeOK /\ Placed(k, NoRsrc) /\ OneRunning(k)

\* The master of a live slave is a live port: the panic of port_option() at its
\* "master port not found?" cannot happen.
MasterLive ==
    \A p \in Ports : port[p].live /\ port[p].slaved # NoPort => port[port[p].slaved].live

slaves(p) == {s \in Ports : port[s].live /\ port[s].slaved = p}

\* A port counts itself and at least its slaves, so that port_destroy() never
\* frees a master.
RefcountCoversSlaves ==
    \A p \in Ports : port[p].live => port[p].refcount >= 1 + Cardinality(slaves(p))

\* The queue of a port never exceeds its limit, though several senders may have
\* been woken for the same free place.
QueueBounded == \A p \in Ports : Len(port[p].msgs) <= MAX_MSGCOUNT

\* Threads that were woken in a call on p and have yet to go round its loop.
woken(p, Frames) ==
    {t \in Task : /\ frame[t] \in Frames /\ frame[t].p = p
                  /\ k.waiting_on[t] \notin {p, SendQ(p)} /\ k.status[t] = "ERR_NONE"}

\* No wake-up of a receiver is lost: while a thread sleeps on a port, every message
\* in it has a woken receiver on its way ("If a thread is sleeping on the
\* destination, wake it up").
ReceiversServed ==
    \A p \in Ports : port[p].live /\ k.q[p] # << >> =>
        Len(port[p].msgs) <= Cardinality(woken(p, RecvFrame))

\* No wake-up of a sender is lost: while a thread sleeps until there is room in a
\* port, every free place has a woken sender on its way.
SendersServed ==
    \A p \in Ports : port[p].live /\ k.q[SendQ(p)] # << >> =>
        MAX_MSGCOUNT - Len(port[p].msgs) <= Cardinality(woken(p, SendFrame))

\* Nobody sleeps on a port that does not exist.
NoneOnDeadPort ==
    \A p \in Ports : ~port[p].live => k.q[p] = << >> /\ k.q[SendQ(p)] = << >>
=============================================================================
