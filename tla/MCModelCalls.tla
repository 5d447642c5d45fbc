----------------------------- MODULE MCModelCalls -----------------------------
(* The instance of ModelCalls that TLC checks.                             *)
EXTENDS ModelCalls

\* A deadline alone, budgets of attempts alone in both proportions, all three,
\* and no bound at all; services with and without tools.
Budgets(timeout, first, stall) ==
    [timeout : {timeout}, first : {first}, stall : {stall}, native : BOOLEAN, tools : BOOLEAN]
Instances == UNION {Budgets(3, 0, 0), Budgets(0, 1, 2), Budgets(0, 2, 1),
                    Budgets(5, 2, 1), Budgets(0, 0, 0)}

\* Whole batches, batches with something wrong in them, text, and nothing.
Spoken == {<<Work, Work>>, <<Alone>>, <<Work, Alone>>, <<Work, Unusable>>,
         <<Prose>>, <<Prose, Object>>, <<>>}
=============================================================================
