CONSTANTS
    t1 = t1
    t2 = t2
    m1 = m1
    m2 = m2
    p1 = p1
    p2 = p2
    Task = {t1, t2}
    Team = {m1, m2}
    Idle = Idle
    Exited = Exited
    RunQ = RunQ
    NoRsrc = NoRsrc
    NoPort = NoPort
    NoTeam = NoTeam
    Ports = {p1, p2}
    Rsrc <- MCRsrc
    BootOrder <- MCBoot
    BootTeam <- MCTeam
    MAX_MSGCOUNT = 1
    MaxRefcount = 3
    Valid = {TRUE, FALSE}
VIEW MCView
SPECIFICATION PortSpec
INVARIANTS PortQueuesOK MasterLive RefcountCoversSlaves
