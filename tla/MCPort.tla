------------------------------- MODULE MCPort --------------------------------
(* Message ports, for model checking: two threads of two teams, two ports. *)
EXTENDS Port
CONSTANTS t1, t2, m1, m2, p1, p2
MCBoot == <<t1, t2>>
MCTeam == [t \in Task |-> IF t = t2 THEN m2 ELSE m1]
\* No step reads what a system call returned, so states that differ in it only
\* are one.
MCView == <<k, frame, port>>
MCRsrc == {RunQ} \cup Ports \cup {SendQ(p) : p \in Ports}
=============================================================================
