---------------------------- MODULE ConversationRuns ----------------------------
(***************************************************************************)
(* One conversation of an instruction Skill: its row in conversations with *)
(* the run lock, its messages, and the API handlers that run the Skill in  *)
(* it, clear it and delete it.                                             *)
(*                                                                         *)
(* Runs are numbered by their claims of the lock.  A pair of messages is   *)
(* the number of the run that recorded it; the history a run carries is    *)
(* taken to reach back to the first message.                               *)
(*                                                                         *)
(* Nothing bounds a model call by the time after which its claim is stale: *)
(* a run may outlive its lock, and another one may then begin beside it,   *)
(* and a third when the first one releases the second one's claim.         *)
(* `disturbed` remembers which runs that befalls; the properties say that  *)
(* it befalls no others, and what the others may rely on.                  *)
(***************************************************************************)
EXTENDS Naturals

CONSTANTS
    Requests,  \* handlers that can be at work at the same time
    MaxRuns    \* bound of the model: claims of the lock

ASSUME ConversationAssumption == MaxRuns \in Nat

VARIABLES
    conv,      \* conversations: the row exists, is_running, run_started_at recent
    claims,    \* how many runs have claimed the lock
    messages,  \* conversation_messages: the runs whose exchange is recorded
    context,   \* the exchanges each run was given
    req,       \* each request
    disturbed  \* history: runs that outlived the lock, or began beside such a run

vars == <<conv, claims, messages, context, req, disturbed>>

Runs == 1 .. MaxRuns
Phase == {"idle", "claimed", "calling", "succeeded", "failed", "clearing", "deleting"}
Running == {"claimed", "calling", "succeeded", "failed"}

TypeOK ==
    /\ conv \in [exists : BOOLEAN, running : BOOLEAN, fresh : BOOLEAN]
    /\ claims \in 0 .. MaxRuns
    /\ messages \in SUBSET Runs
    /\ context \in [Runs -> SUBSET Runs]
    /\ req \in [Requests -> [phase : Phase, run : 0 .. MaxRuns]]
    /\ disturbed \in SUBSET Runs

Idle == [phase |-> "idle", run |-> 0]

Init ==
    /\ conv = [exists |-> TRUE, running |-> FALSE, fresh |-> FALSE]
    /\ claims = 0
    /\ messages = {}
    /\ context = [n \in Runs |-> {}]
    /\ req = [r \in Requests |-> Idle]
    /\ disturbed = {}

-----------------------------------------------------------------------------
(* Helpers.  A definition whose comment begins with "Fault" is how the one   *)
(* after it could be wrong; no action uses it.                             *)

\* Fault: a stale claim is never taken over.
ClaimableReleased == conv.exists /\ ~conv.running

\* Fault: the comparison with the stale time is turned round.
ClaimableFresh == conv.exists /\ (~conv.running \/ conv.fresh)

\* The WHERE of claim_conversation.
Claimable == conv.exists /\ (~conv.running \/ ~conv.fresh)

\* What clearing and deleting ask before they go on.
Changeable == conv.exists /\ ~conv.running

\* release_conversation names the conversation only, not the claim.
Released == [conv EXCEPT !.running = FALSE, !.fresh = FALSE]

\* Fault: messages are not tied to an existing conversation.
RecordableAnyway == TRUE

\* The foreign key of conversation_messages.
Recordable == conv.exists

\* The runs at work.
AtWork == {req[r].run : r \in {s \in Requests : req[s].phase \in Running}}

Goto(r, phase) == req' = [req EXCEPT ![r].phase = phase]
Leave(r) == req' = [req EXCEPT ![r] = Idle]

-----------------------------------------------------------------------------
(* create_run with a conversation.                                         *)

Claim(r) ==
    /\ req[r].phase = "idle"
    /\ Claimable
    /\ claims < MaxRuns
    /\ claims' = claims + 1
    /\ conv' = [conv EXCEPT !.running = TRUE, !.fresh = TRUE]
    /\ req' = [req EXCEPT ![r] = [phase |-> "claimed", run |-> claims + 1]]
    /\ disturbed' = disturbed \cup
          {n \in {claims + 1} : AtWork \cap disturbed # {}}
    /\ UNCHANGED <<messages, context>>

\* conversation_history, then the run is committed and the model is called.
ReadContext(r) ==
    /\ req[r].phase = "claimed"
    /\ context' = [context EXCEPT ![req[r].run] = messages]
    /\ Goto(r, "calling")
    /\ UNCHANGED <<conv, claims, messages, disturbed>>

\* Fault: the lock is released with the outcome, before the exchange is recorded.
CallEndsReleasing(r, outcome) ==
    /\ req[r].phase = "calling"
    /\ outcome \in {"succeeded", "failed"}
    /\ conv' = Released
    /\ Goto(r, outcome)
    /\ UNCHANGED <<claims, messages, context, disturbed>>

\* execute_instruction_run commits the outcome of the call.
CallEnds(r, outcome) ==
    /\ req[r].phase = "calling"
    /\ outcome \in {"succeeded", "failed"}
    /\ Goto(r, outcome)
    /\ UNCHANGED <<conv, claims, messages, context, disturbed>>

\* record_exchange and the release are one transaction.
Record(r) ==
    /\ req[r].phase = "succeeded"
    /\ Recordable
    /\ messages' = messages \cup {req[r].run}
    /\ conv' = Released
    /\ Leave(r)
    /\ UNCHANGED <<claims, context, disturbed>>

\* A failed run records nothing.  So does any exception, among them an
\* exchange for a conversation that is gone: everything is rolled back and the
\* lock is released.
Release(r) ==
    /\ req[r].phase \in Running
    /\ conv' = Released
    /\ Leave(r)
    /\ UNCHANGED <<claims, messages, context, disturbed>>

\* The request is cancelled or its process ends: nothing is released.
Abandon(r) ==
    /\ req[r].phase # "idle"
    /\ Leave(r)
    /\ UNCHANGED <<conv, claims, messages, context, disturbed>>

-----------------------------------------------------------------------------
(* clear_conversation and delete_conversation read the row, then write.    *)

Check(r, change) ==
    /\ req[r].phase = "idle"
    /\ Changeable
    /\ change \in {"clearing", "deleting"}
    /\ Goto(r, change)
    /\ UNCHANGED <<conv, claims, messages, context, disturbed>>

\* The UPDATE of updated_at fails when the conversation has gone meanwhile.
Clear(r) ==
    /\ req[r].phase = "clearing"
    /\ messages' = IF conv.exists THEN {} ELSE messages
    /\ Leave(r)
    /\ UNCHANGED <<conv, claims, context, disturbed>>

Delete(r) ==
    /\ req[r].phase = "deleting"
    /\ conv' = [exists |-> FALSE, running |-> FALSE, fresh |-> FALSE]
    /\ messages' = {}
    /\ Leave(r)
    /\ UNCHANGED <<claims, context, disturbed>>

-----------------------------------------------------------------------------
\* conversation_lock_seconds pass, whoever is still at work.
LockGoesStale ==
    /\ conv.fresh
    /\ conv' = [conv EXCEPT !.fresh = FALSE]
    /\ disturbed' = disturbed \cup AtWork
    /\ UNCHANGED <<claims, messages, context, req>>

Proceed(r) ==
    \/ ReadContext(r) \/ (\E outcome \in {"succeeded", "failed"} : CallEnds(r, outcome))
    \/ Record(r) \/ Release(r) \/ Clear(r) \/ Delete(r)

Next ==
    \/ \E r \in Requests :
          \/ Claim(r) \/ Proceed(r) \/ Abandon(r)
          \/ \E change \in {"clearing", "deleting"} : Check(r, change)
    \/ LockGoesStale

Spec == Init /\ [][Next]_vars

\* A request that is served goes on, and time passes.
FairSpec == Spec /\ WF_vars(LockGoesStale) /\ \A r \in Requests : WF_vars(Proceed(r))

-----------------------------------------------------------------------------
(* Safety.                                                                 *)

\* Two runs are at work in one conversation only after a run has outlived the
\* lock, and then both are among the disturbed: a run that is not is alone from
\* its claim to its release, whatever fails in between, whoever clears or
\* deletes the conversation, and whatever befell the runs before it.
RunsAlone == \A r, s \in Requests :
    req[r].phase \in Running /\ req[s].phase \in Running /\ r # s =>
        {req[r].run, req[s].run} \subseteq disturbed

\* Of two exchanges on record the later run was given the earlier one's, unless
\* both runs were disturbed.
ExchangesInOrder == \A m, n \in messages :
    m < n => m \in context[n] \/ {m, n} \subseteq disturbed

\* Nothing is recorded for a conversation that has been deleted, although a
\* run may have claimed it between the check and the deletion.
DeletedStaysEmpty == ~conv.exists => messages = {}

\* An undisturbed run at work has the last claim, and has been given what is on
\* record, unless that was cleared meanwhile.
HolderIsLast == \A r \in Requests :
    req[r].phase \in Running /\ req[r].run \notin disturbed =>
        /\ req[r].run = claims
        /\ conv.exists => conv.running /\ conv.fresh
        /\ \A m \in messages : m < claims
        /\ req[r].phase # "claimed" =>
              /\ messages \in {{}, context[req[r].run]}
              /\ \A m \in context[req[r].run] : m < claims

\* Of what is on record a run at work lacks, and finds before it, only what
\* another disturbed run has recorded beside it.
LackedIsDisturbed == \A r \in Requests : req[r].phase \in Running =>
    LET n == req[r].run IN
    /\ req[r].phase # "claimed" => \A m \in messages :
          m < n => m \in context[n] \/ {m, n} \subseteq disturbed
    /\ \A m \in messages : n < m => {m, n} \subseteq disturbed

\* A run at work has a claim of its own, and has not recorded yet.
RunsNumbered == \A r \in Requests : req[r].phase \in Running =>
    /\ req[r].run \in Runs /\ req[r].run <= claims /\ req[r].run \notin messages
    /\ \A s \in Requests : req[s].phase \in Running /\ req[s].run = req[r].run => s = r

RecordedWereClaimed == \A m \in messages : m <= claims

ConversationInv ==
    /\ TypeOK /\ RunsNumbered /\ RecordedWereClaimed
    /\ DeletedStaysEmpty
    /\ RunsAlone /\ HolderIsLast
    /\ ExchangesInOrder /\ LackedIsDisturbed

-----------------------------------------------------------------------------
(* A conversation as its clients see it.                                   *)

GivenOnRecord == [n \in Runs |-> IF n \in messages THEN context[n] ELSE {}]

Exchanges == INSTANCE ConversationPromise WITH
    exists <- conv.exists, record <- messages, given <- GivenOnRecord

\* The claim, the call and the recording of an undisturbed run come to one step,
\* that finds on record exactly what the run was given when it began, or nothing
\* after a clearing, and puts the run behind it.  Even a disturbed run lacks only
\* what others of them recorded, and no run is disturbed once it is on record.  A
\* deleted conversation stays as it is.
ConversationPromised == Exchanges!Spec

-----------------------------------------------------------------------------
(* Liveness.                                                               *)

\* Whatever became of the run that locked it, a conversation can be claimed
\* again, or is gone.
LockComesFree == conv.running ~> Claimable \/ ~conv.exists

-----------------------------------------------------------------------------
(* What the documentation says and the code does not keep.                 *)

\* docs/phase2-status.md: the run lock avoids concurrent writes that would put
\* the context out of order.  It does not when a call outlives the lock.
ContextInOrder == \A m, n \in messages : m < n => m \in context[n]
=============================================================================
