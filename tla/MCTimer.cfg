CONSTANTS
    t1 = t1
    t2 = t2
    t3 = t3
    m1 = m1
    Task = {t1, t2, t3}
    Team = {m1}
    Idle = Idle
    Exited = Exited
    RunQ = RunQ
    NoRsrc = NoRsrc
    TimerQ = TimerQ
    Rsrc = {RunQ, TimerQ}
    BootOrder <- MCBoot
    BootTeam <- MCTeam
    TimerMod = 8
    Delays = {0, 999, 1000, 3999, 4000, 9000}
SPECIFICATION TimerSpec
INVARIANT TimerQueuesOK
PROPERTIES SleepersWake EveryoneRuns
