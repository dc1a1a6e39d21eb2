CONSTANTS
    t1 = t1
    t2 = t2
    t3 = t3
    t4 = t4
    m1 = m1
    Task = {t1, t2, t3, t4}
    Team = {m1}
    Idle = Idle
    Exited = Exited
    RunQ = RunQ
    NoRsrc = NoRsrc
    Mutex = Mutex
    Sems = {Mutex}
    Rsrc = {RunQ, Mutex}
    BootOrder <- MCBoot
    BootTeam <- MCTeam
    MaxCount = 3
    Permits = 1
SPECIFICATION QsemSpec
INVARIANTS QsemExclusion QsemBalance
PROPERTIES QsemNoStarvation
