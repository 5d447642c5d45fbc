------------------------------- MODULE MCAgent -------------------------------
(***************************************************************************)
(* AgentExecution with one deliverable written where it is delivered, one  *)
(* collected from an export, and the plan's own file.                      *)
(***************************************************************************)
EXTENDS AgentExecution

MCSource == [o \in Outputs |-> IF "export" \in Files /\ o = "deck" THEN "export" ELSE o]
MCCriteria == {<<"a">>, <<"a", "b">>}
MCGoal == {<<"a">>}

OneSkill == [skills |-> 1, ordered |-> FALSE, planRequired |-> FALSE, fixed |-> {}]
Planned == [OneSkill EXCEPT !.planRequired = TRUE]
Ordered == [skills |-> 2, ordered |-> TRUE, planRequired |-> TRUE, fixed |-> {2}]

MCVerified == {Planned}
MCDelivered == {OneSkill, Ordered}
=============================================================================
