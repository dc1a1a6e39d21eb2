-------------------------------- MODULE MCIrq --------------------------------
(* Device interrupts, for model checking: three drivers with a line each. *)
EXTENDS Irq
CONSTANTS t1, t2, t3, m1
MCBoot == <<t1, t2, t3>>
MCTeam == [t \in Task |-> m1]
MCDrivers == [t \in Task |-> IF t = t1 THEN {1} ELSE IF t = t2 THEN {3} ELSE {5}]
=============================================================================
