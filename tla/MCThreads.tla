------------------------------ MODULE MCThreads ------------------------------
(* Threads, teams and semaphores, for model checking: the reaper and three user *)
(* threads.                                                                     *)
EXTENDS Threads
CONSTANTS t1, t2, t3, m0, m1, m2
MCBoot == <<t1, Reaper>>
MCTeam == [t \in Task |-> IF t = Reaper THEN m0 ELSE m1]
MCView == <<k, frame, sem, port, team>>
MCRsrc == {RunQ, ReaperQ} \cup Task \cup Sems \cup Ports \cup {SendQ(p) : p \in Ports}
=============================================================================
