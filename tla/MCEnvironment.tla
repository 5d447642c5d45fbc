---------------------------- MODULE MCEnvironment ----------------------------
(* EnvironmentPreparation on small instances.                              *)
EXTENDS EnvironmentPreparation, TLC

CONSTANTS d1, c1, c2, u1

OneEnvironment == {d1}
NoEnvironment == {}
TwoControllers == {c1, c2}
OneUser == {u1}

ControllerSymmetry == Permutations(Controllers)
=============================================================================
