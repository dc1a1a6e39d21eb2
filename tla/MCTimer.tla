------------------------------- MODULE MCTimer -------------------------------
(* Timed sleep, for model checking: three threads, a clock of eight values. *)
EXTENDS Timer
CONSTANTS t1, t2, t3, m1
MCBoot == <<t1, t2, t3>>
MCTeam == [t \in Task |-> m1]
=============================================================================
