-------------------------------- MODULE MCSem --------------------------------
(* Kernel semaphores, for model checking: three threads and two ids. *)
EXTENDS Sem
CONSTANTS t1, t2, t3, m1
MCBoot == <<t1, t2, t3>>
MCTeam == [t \in Task |-> m1]
=============================================================================
