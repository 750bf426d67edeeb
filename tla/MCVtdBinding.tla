---------------------------- MODULE MCVtdBinding ----------------------------
(* A scenario with two agents, of which the one that VTD announces last may *)
(* have an OSI sensor, and one id that another client of VTD may use.  An   *)
(* OSI message is complete, too short to be seen, or without a mounting     *)
(* position.                                                                *)
EXTENDS VtdBinding

MCAgents == {"ego", "npc"}
MCOsiAgents == {"npc"}
MCStrangers == {"user"}
MCScenarios == {"s1", "s2"}
MCComplete == [size |-> 2, timestamp |-> TRUE, view |-> TRUE, mount |-> TRUE]
MCForms == {MCComplete, [MCComplete EXCEPT !.size = 1], [MCComplete EXCEPT !.mount = FALSE]}
=============================================================================
