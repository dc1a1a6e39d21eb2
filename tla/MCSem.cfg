CONSTANTS
    t1 = t1
    t2 = t2
    t3 = t3
    m1 = m1
    Task = {t1, t2, t3}
    Idle = Idle
    Exited = Exited
    RunQ = RunQ
    NoRsrc = NoRsrc
    Sems = {s1, s2}
    Rsrc = {RunQ, s1, s2}
    BootOrder <- MCBoot
    Team = {m1}
    BootTeam <- MCTeam
    MaxCount = 2
SPECIFICATION SemSpec
INVARIANTS SemTypeOK SemQueuesOK CountIsWaiters
PROPERTY ImplementsSemaphore
