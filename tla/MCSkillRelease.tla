---------------------------- MODULE MCSkillRelease ----------------------------
(* The instance of SkillRelease that TLC checks.                           *)
EXTENDS SkillRelease, TLC

Symmetry == Permutations(Requests) \cup Permutations(Numbers)
=============================================================================
