CONSTANTS
    t1 = t1
    t2 = t2
    t3 = t3
    m0 = m0
    m1 = m1
    m2 = m2
    Reaper = Reaper
    Task = {t1, t2, t3, Reaper}
    Team = {m0, m1, m2}
    Idle = Idle
    Exited = Exited
    RunQ = RunQ
    NoRsrc = NoRsrc
    ReaperQ = ReaperQ
    ReaperSem = ReaperSem
    Sems = {ReaperSem, s1}
    MaxCount = 1
    Ports = {}
    NoPort = NoPort
    NoTeam = NoTeam
    MAX_MSGCOUNT = 1
    MaxRefcount = 2
    Valid = {TRUE}
    Rsrc <- MCRsrc
    BootOrder <- MCBoot
    BootTeam <- MCTeam
VIEW MCView
SPECIFICATION ThreadsSpec
INVARIANTS ThreadsQueuesOK LiveCount TeamRefcount DeathToll NobodyStranded
