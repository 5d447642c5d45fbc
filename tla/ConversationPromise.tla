------------------------- MODULE ConversationPromise --------------------------
(***************************************************************************)
(* What a conversation promises to those who run a Skill in it, clear it   *)
(* and delete it, as if a run were one step: ConversationRuns, in which a  *)
(* run claims a lock, reads, waits for the model, records and releases,    *)
(* implements this specification.                                          *)
(*                                                                         *)
(* The lock is given up on after some time, so there is an exception:      *)
(* runs may be disturbed, and then take more than one step.                *)
(***************************************************************************)
EXTENDS Naturals

CONSTANT Runs    \* numbers of runs, in the order in which they begin

VARIABLES
    exists,      \* the conversation has not been deleted
    record,      \* the runs whose exchange is on record
    given,       \* what each run on record was given as its context
    disturbed    \* runs that other runs are at work beside, before they are on record

promise == <<exists, record, given, disturbed>>

Earlier(n) == {m \in Runs : m < n}

Init ==
    /\ exists = TRUE
    /\ record = {}
    /\ given = [n \in Runs |-> {}]
    /\ disturbed = {}

\* A run goes on record after all that are there, each of which it was given;
\* only of a conversation cleared meanwhile may it have known more.
AtOnce(n, known) ==
    /\ record \subseteq Earlier(n)
    /\ known = record \/ (record = {} /\ known \subseteq Earlier(n))

\* A disturbed run may miss what other disturbed runs recorded, and may go on
\* record behind one that began later.
InPieces(n, known) ==
    /\ n \in disturbed
    /\ {m \in record : n < m} \subseteq disturbed
    /\ Earlier(n) \cap record \subseteq known \cup disturbed

Exchange(n, known) ==
    /\ exists
    /\ n \notin record
    /\ AtOnce(n, known) \/ InPieces(n, known)
    /\ record' = record \cup {n}
    /\ given' = [given EXCEPT ![n] = known]
    /\ UNCHANGED <<exists, disturbed>>

Disturb(runs) ==
    /\ runs \cap record = {}
    /\ disturbed' = disturbed \cup runs
    /\ UNCHANGED <<exists, record, given>>

Forget ==
    /\ record' = {}
    /\ given' = [n \in Runs |-> {}]
    /\ UNCHANGED disturbed

Clear == exists /\ Forget /\ UNCHANGED exists

Delete == exists /\ exists' = FALSE /\ Forget

Next ==
    \/ \E n \in Runs : \E known \in SUBSET Runs : Exchange(n, known)
    \/ \E runs \in SUBSET Runs : Disturb(runs)
    \/ Clear \/ Delete

Spec == Init /\ [][Next]_promise
=============================================================================
