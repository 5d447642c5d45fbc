--------------------------- MODULE MCJobLifecycle ---------------------------
(* JobLifecycle on small instances.                                        *)
EXTENDS JobLifecycle, TLC

CONSTANTS j1, w1, w2

OneJob == {j1}
TwoWorkers == {w1, w2}

WorkerSymmetry == Permutations(Workers)
=============================================================================
