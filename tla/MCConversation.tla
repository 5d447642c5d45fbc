---------------------------- MODULE MCConversation ----------------------------
(* ConversationRuns on small instances.                                    *)
EXTENDS ConversationRuns, TLC

CONSTANTS r1, r2, r3

ThreeRequests == {r1, r2, r3}

RequestSymmetry == Permutations(Requests)
=============================================================================
