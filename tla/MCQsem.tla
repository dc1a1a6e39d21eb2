------------------------------- MODULE MCQsem --------------------------------
(* User-level semaphores, for model checking: four threads and one lock. *)
EXTENDS Qsem
CONSTANTS t1, t2, t3, t4, m1
MCBoot == <<t1, t2, t3, t4>>
MCTeam == [t \in Task |-> m1]
=============================================================================
