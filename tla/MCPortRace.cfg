CONSTANTS
    t1 = t1
    t2 = t2
    t3 = t3
    t4 = t4
    m1 = m1
    p1 = p1
    Task = {t1, t2, t3, t4}
    Team = {m1}
    Idle = Idle
    Exited = Exited
    RunQ = RunQ
    NoRsrc = NoRsrc
    NoPort = NoPort
    NoTeam = NoTeam
    Ports = {p1}
    Rsrc <- MCRsrc
    BootOrder <- MCBoot
    BootTeam <- MCTeam
    MAX_MSGCOUNT = 2
    MaxRefcount = 2
    Valid = {TRUE}
VIEW MCView
SPECIFICATION PortSpec
INVARIANTS QueueBounded ReceiversServed SendersServed
