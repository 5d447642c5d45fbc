---------------------------- MODULE MCModelCatalog ----------------------------
(* The instance of ModelCatalog that TLC checks.                           *)
EXTENDS ModelCatalog, TLC

Symmetry == Permutations(Requests)
=============================================================================
