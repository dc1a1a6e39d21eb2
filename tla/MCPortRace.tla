----------------------------- MODULE MCPortRace ------------------------------
(* Message ports, for model checking: four threads that race for one port. *)
EXTENDS Port
CONSTANTS t1, t2, t3, t4, m1, p1
MCBoot == <<t1, t2, t3, t4>>
MCTeam == [t \in Task |-> m1]
MCView == <<k, frame, port>>
MCRsrc == {RunQ} \cup Ports \cup {SendQ(p) : p \in Ports}
=============================================================================
