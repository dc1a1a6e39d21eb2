CONSTANTS
    t1 = t1
    t2 = t2
    t3 = t3
    m1 = m1
    Task = {t1, t2, t3}
    Team = {m1}
    Idle = Idle
    Exited = Exited
    RunQ = RunQ
    NoRsrc = NoRsrc
    NoTask = NoTask
    Rsrc = {RunQ}
    BootOrder <- MCBoot
    BootTeam <- MCTeam
    Irqs = {1, 3, 5}
    Drivers <- MCDrivers
SPECIFICATION IrqSpec
INVARIANTS IrqQueuesOK SleepersArmed EoiOwed
PROPERTIES ServedIfIdle
