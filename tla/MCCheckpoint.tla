----------------------------- MODULE MCCheckpoint -----------------------------
(* DurableCheckpoint on small instances.                                   *)
EXTENDS DurableCheckpoint, TLC

CONSTANTS w1, w2

OneWorker == {w1}
TwoWorkers == {w1, w2}

\* Every safety property is about a memory no late write has changed.
InTime == ~overwritten

WorkerSymmetry == Permutations(Workers)
=============================================================================
