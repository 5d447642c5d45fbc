--------------------------- MODULE MCJobSubmission ---------------------------
(* Two requests that may use the same key, be tasks or retry each other, and *)
(* two that cancel the job of one of them.                                   *)
EXTENDS JobSubmission

CONSTANTS j1, j2, c1, c2

TwoJobs == {j1, j2}
TwoCancellers == {c1, c2}
AtOneJob == [c \in TwoCancellers |-> {j1}]
=============================================================================
