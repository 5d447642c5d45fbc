------------------------------ MODULE ChatTurns ------------------------------
(***************************************************************************)
(* One workspace conversation (agent_conversations) with the turns sent    *)
(* into it: their run rows, run events and messages, the handlers that     *)
(* serve them, the deletion of the conversation, and the cleanup loop that *)
(* closes turns left running and prunes the events of ended ones.          *)
(*                                                                         *)
(* Nothing locks the conversation: turns interleave, and the loop closes   *)
(* every run older than a limit, whether or not its turn is still served.  *)
(***************************************************************************)
EXTENDS Naturals

CONSTANT Turns   \* the turns that are ever sent, each with one run row

VARIABLES
    exists,    \* the agent_conversations row
    messages,  \* agent_messages: <<turn, role>>
    run,       \* agent_runs: the row of each turn; old: started before the cutoff
    events,    \* agent_run_events of each run
    turn,      \* the handler of each turn; next: the sequence number it has read
    closer     \* fail_stale_conversation_runs and the numbers it has read

vars == <<exists, messages, run, events, turn, closer>>

Number == 1 .. 3
Mode == {"send", "stream"}
Phase == {"idle", "resolving", "calling", "replying", "failing", "over"}
AtWork == Phase \ {"idle", "over"}
Status == {"none", "RUNNING", "SUCCEEDED", "FAILED"}
Ended == {"SUCCEEDED", "FAILED"}
Event == [seq : Number, type : {"started", "completed", "failed"}]

TypeOK ==
    /\ exists \in BOOLEAN
    /\ messages \in SUBSET (Turns \X {"user", "assistant"})
    /\ run \in [Turns -> [status : Status, old : BOOLEAN,
                          request : BOOLEAN, reply : BOOLEAN]]
    /\ events \in [Turns -> SUBSET Event]
    /\ turn \in [Turns -> [phase : Phase, mode : Mode, next : 0 .. 3]]
    /\ closer \in [phase : {"idle", "picked", "numbered"}, runs : SUBSET Turns,
                   next : [Turns -> 0 .. 3]]

NoRun == [status |-> "none", old |-> FALSE, request |-> FALSE, reply |-> FALSE]
Resting == [phase |-> "idle", runs |-> {}, next |-> [t \in Turns |-> 0]]

Init ==
    /\ exists = TRUE
    /\ messages = {}
    /\ run = [t \in Turns |-> NoRun]
    /\ events = [t \in Turns |-> {}]
    /\ turn = [t \in Turns |-> [phase |-> "idle", mode |-> "send", next |-> 0]]
    /\ closer = Resting

-----------------------------------------------------------------------------
(* Helpers.  A definition whose comment begins with "Fault" is how the one   *)
(* after it could be wrong; no action uses it.                             *)

\* The number after the largest one, as append_run_event reads it.
NextNumber(t) == CHOOSE n \in 1 .. 4 :
    /\ \A e \in events[t] : e.seq < n
    /\ n = 1 \/ \E e \in events[t] : e.seq = n - 1

\* Fault: nothing keeps two events of a run from having one number.
AppendableAnyway(t, n) == exists

\* The unique constraint of agent_run_events, and the cascade to them.
Appendable(t, n) == exists /\ \A e \in events[t] : e.seq # n

Append(t, n, type) ==
    events' = [events EXCEPT ![t] = @ \cup {[seq |-> n, type |-> type]}]

Goto(t, phase) == turn' = [turn EXCEPT ![t].phase = phase]

\* Fault: any run at work is taken for one that was left behind.
StaleAlready(t) == run[t].status = "RUNNING"

\* Fault: only a run whose user message is on record is looked at.
StaleOnRecord(t) == run[t].status = "RUNNING" /\ run[t].old /\ run[t].request

\* The WHERE of fail_stale_conversation_runs.
Stale(t) == run[t].status = "RUNNING" /\ run[t].old

-----------------------------------------------------------------------------
(* send_agent_message and stream_agent_message.                            *)

Begin(t, mode) ==
    /\ turn[t].phase = "idle"
    /\ exists
    /\ turn' = [turn EXCEPT ![t] = [phase |-> "resolving", mode |-> mode, next |-> 0]]
    /\ UNCHANGED <<exists, messages, run, events, closer>>

\* The attachments have been read and analysed: the run is committed, by the
\* streaming handler together with the user's message.
Open(t) ==
    LET streams == turn[t].mode = "stream" IN
    /\ turn[t].phase = "resolving"
    /\ exists
    /\ run' = [run EXCEPT ![t] = [status |-> "RUNNING", old |-> FALSE,
                                  request |-> streams, reply |-> FALSE]]
    /\ Append(t, 1, "started")
    /\ messages' = IF streams THEN messages \cup {<<t, "user">>} ELSE messages
    /\ Goto(t, "calling")
    /\ UNCHANGED <<exists, closer>>

\* The model has answered, or failed: the next sequence number is read.
Answered(t, outcome) ==
    /\ turn[t].phase = "calling"
    /\ outcome \in {"replying", "failing"}
    /\ turn' = [turn EXCEPT ![t].phase = outcome, ![t].next = NextNumber(t)]
    /\ UNCHANGED <<exists, messages, run, events, closer>>

\* Fault: the reply is committed, its run is not completed.
ReplyAlone(t) ==
    /\ turn[t].phase = "replying"
    /\ exists
    /\ messages' = messages \cup {<<t, "user">>, <<t, "assistant">>}
    /\ Goto(t, "over")
    /\ UNCHANGED <<exists, run, events, closer>>

\* The reply, for send_agent_message the user's message too, and the end of the
\* run are one transaction.  The run's status is what this session read: it is
\* SUCCEEDED whatever the row has become.
Reply(t) ==
    /\ turn[t].phase = "replying"
    /\ Appendable(t, turn[t].next)
    /\ messages' = messages \cup {<<t, "user">>, <<t, "assistant">>}
    /\ run' = [run EXCEPT ![t].status = "SUCCEEDED", ![t].request = TRUE, ![t].reply = TRUE]
    /\ Append(t, turn[t].next, "completed")
    /\ Goto(t, "over")
    /\ UNCHANGED <<exists, closer>>

\* fail_run for a model error or an empty reply.
Fail(t) ==
    /\ turn[t].phase = "failing"
    /\ Appendable(t, turn[t].next)
    /\ run' = [run EXCEPT ![t].status = "FAILED"]
    /\ Append(t, turn[t].next, "failed")
    /\ Goto(t, "over")
    /\ UNCHANGED <<exists, messages, closer>>

\* A refused request, any other exception, a conversation that is gone, a
\* number that is taken, a client that disconnects: what was not committed is
\* rolled back and the run is left as it is.
Abort(t) ==
    /\ turn[t].phase \in AtWork
    /\ Goto(t, "over")
    /\ UNCHANGED <<exists, messages, run, events, closer>>

-----------------------------------------------------------------------------
\* delete_agent_conversation: messages, runs and events go with the row, also
\* those committed after the handler loaded them.
Delete ==
    /\ exists
    /\ exists' = FALSE
    /\ messages' = {}
    /\ run' = [t \in Turns |-> NoRun]
    /\ events' = [t \in Turns |-> {}]
    /\ UNCHANGED <<turn, closer>>

-----------------------------------------------------------------------------
(* The cleanup loop.                                                       *)

\* conversation_turn_stale_seconds pass since the run was started.
GrowOld(t) ==
    /\ run[t].status = "RUNNING" /\ ~run[t].old
    /\ run' = [run EXCEPT ![t].old = TRUE]
    /\ UNCHANGED <<exists, messages, events, turn, closer>>

Pick ==
    LET stale == {t \in Turns : Stale(t)} IN
    /\ closer.phase = "idle"
    /\ stale # {}
    /\ closer' = [closer EXCEPT !.phase = "picked", !.runs = stale]
    /\ UNCHANGED <<exists, messages, run, events, turn>>

\* fail_run reads the numbers of the runs as they are now.
Count ==
    /\ closer.phase = "picked"
    /\ closer' = [closer EXCEPT !.phase = "numbered",
                  !.next = [t \in Turns |-> IF t \in closer.runs THEN NextNumber(t) ELSE 0]]
    /\ UNCHANGED <<exists, messages, run, events, turn>>

\* All runs of the round are failed in one transaction, whatever has become
\* of them since they were picked.
Close ==
    /\ closer.phase = "numbered"
    /\ \A t \in closer.runs : Appendable(t, closer.next[t])
    /\ run' = [t \in Turns |-> IF t \in closer.runs THEN [run[t] EXCEPT !.status = "FAILED"]
                               ELSE run[t]]
    /\ events' = [t \in Turns |-> IF t \in closer.runs
                     THEN events[t] \cup {[seq |-> closer.next[t], type |-> "failed"]}
                     ELSE events[t]]
    /\ closer' = Resting
    /\ UNCHANGED <<exists, messages, turn>>

\* One taken number or deleted run undoes the round; the next one starts anew.
CloseFails ==
    /\ closer.phase = "numbered"
    /\ \E t \in closer.runs : ~Appendable(t, closer.next[t])
    /\ closer' = Resting
    /\ UNCHANGED <<exists, messages, run, events, turn>>

\* Fault: the status of the run is not asked.
PrunableAlways(t) == turn[t].phase \notin AtWork /\ t \notin closer.runs

\* An ended run past its retention, which is days after its handler is gone.
Prunable(t) ==
    /\ run[t].status \in Ended
    /\ turn[t].phase \notin AtWork /\ t \notin closer.runs

\* cleanup_execution_history: the events go, the run stays.
Prune(t) ==
    /\ Prunable(t)
    /\ events[t] # {}
    /\ events' = [events EXCEPT ![t] = {}]
    /\ UNCHANGED <<exists, messages, run, turn, closer>>

\* The API process ends: its handlers and its cleanup loop are gone.
Restart ==
    /\ closer.phase # "idle" \/ \E t \in Turns : turn[t].phase \in AtWork
    /\ turn' = [t \in Turns |-> IF turn[t].phase \in AtWork
                                THEN [turn[t] EXCEPT !.phase = "over"] ELSE turn[t]]
    /\ closer' = Resting
    /\ UNCHANGED <<exists, messages, run, events>>

Next ==
    \/ \E t \in Turns :
          \/ \E mode \in Mode : Begin(t, mode)
          \/ Open(t) \/ (\E outcome \in {"replying", "failing"} : Answered(t, outcome))
          \/ Reply(t) \/ Fail(t) \/ Abort(t)
          \/ GrowOld(t) \/ Prune(t)
    \/ Delete \/ Pick \/ Count \/ Close \/ CloseFails \/ Restart

Spec == Init /\ [][Next]_vars

\* Time passes and the loop runs its rounds.  A process may end in a round, but
\* not in every round.
FairSpec ==
    /\ Spec
    /\ \A t \in Turns : WF_vars(GrowOld(t))
    /\ SF_vars(Pick) /\ SF_vars(Count) /\ SF_vars(Close) /\ SF_vars(CloseFails)

-----------------------------------------------------------------------------
(* Safety.                                                                 *)

\* A reply in the conversation and the end of its run agree: a run at work has
\* no reply yet, a succeeded run links to its question and its reply, a reply
\* belongs to a succeeded run; only of a turn that lasted longer than the limit
\* may the loop have failed the run although the reply is there.
RepliesAgree == \A t \in Turns :
    /\ run[t].status = "RUNNING" => <<t, "assistant">> \notin messages
    /\ run[t].status = "SUCCEEDED" =>
          run[t].request /\ run[t].reply /\ {<<t, "user">>, <<t, "assistant">>} \subseteq messages
    /\ <<t, "assistant">> \in messages =>
          run[t].status = "SUCCEEDED" \/ (run[t].status = "FAILED" /\ run[t].old)

\* The end of a run is final, whichever of the handler, the loop and a restart
\* comes first, unless its turn lasted longer than the limit.
EndIsFinal == [][\A t \in Turns :
    run[t].status \in Ended /\ ~run[t].old => run'[t].status \in {run[t].status, "none"}]_vars

\* No two events of a run have one number.
NumbersDiffer == \A t \in Turns : \A d, e \in events[t] : d.seq = e.seq => d = e

\* A run at work still has the event it was started with, and no other: only
\* ended runs have ended, and only their events are pruned.
RunningHasStarted == \A t \in Turns :
    run[t].status = "RUNNING" => events[t] = {[seq |-> 1, type |-> "started"]}

\* A deleted conversation keeps no message, run or event.
DeletedLeavesNothing == ~exists =>
    /\ messages = {}
    /\ \A t \in Turns : run[t] = NoRun /\ events[t] = {}

\* The links of a run lead to messages, and a reply follows its question.
LinksHold == \A t \in Turns :
    /\ run[t].request => <<t, "user">> \in messages
    /\ run[t].reply => <<t, "assistant">> \in messages
    /\ <<t, "user">> \in messages => run[t].request
    /\ <<t, "assistant">> \in messages => run[t].reply /\ run[t].request

\* A handler that waits for the model or has its answer has the run that it
\* opened; nobody but the loop has ended it meanwhile, which closes old runs.
ServedIsOpen == \A t \in Turns :
    /\ turn[t].phase \in {"idle", "resolving"} => run[t] = NoRun /\ events[t] = {}
    /\ turn[t].phase \in {"calling", "replying", "failing"} /\ exists =>
          /\ run[t].status = "RUNNING" \/ (run[t].status = "FAILED" /\ run[t].old)
          /\ ~run[t].reply
          /\ run[t].request <=> turn[t].mode = "stream"
    /\ run[t].status = "none" => ~run[t].request /\ ~run[t].reply /\ events[t] = {}

\* The loop holds runs that were old when it picked them.
PickedAreOld == \A t \in closer.runs : exists => run[t].old

Serving == {"calling", "replying", "failing"}

\* Who has read a number while its run was at work has read the second one, and
\* of the handler and the loop, which both hold a run, the first ends it: a run
\* never has more than three events.
NumbersRead == exists => \A t \in Turns :
    /\ t \in closer.runs /\ turn[t].phase \in Serving => run[t].status = "RUNNING"
    /\ run[t].status = "RUNNING" =>
          /\ turn[t].phase \in {"replying", "failing"} => turn[t].next = 2
          /\ closer.phase = "numbered" /\ t \in closer.runs => closer.next[t] = 2
    /\ turn[t].phase = "calling" \/ (closer.phase = "picked" /\ t \in closer.runs) =>
          \A e \in events[t] : e.seq \in {1, 2}

\* A handler or a loop that is about to append has read a number.
HandlersRead ==
    /\ \A t \in Turns : turn[t].phase \in {"replying", "failing"} => turn[t].next # 0
    /\ closer.phase = "numbered" => \A t \in closer.runs : closer.next[t] # 0

TurnsInv ==
    /\ TypeOK /\ NumbersRead /\ HandlersRead
    /\ RepliesAgree /\ NumbersDiffer /\ RunningHasStarted /\ DeletedLeavesNothing
    /\ LinksHold /\ ServedIsOpen /\ PickedAreOld

-----------------------------------------------------------------------------
(* Liveness.                                                               *)

\* No run stays at work for ever: a turn whose handler has failed, or whose
\* process has ended, is closed by the loop.
RunsEnd == \A t \in Turns : run[t].status = "RUNNING" ~> run[t].status # "RUNNING"
=============================================================================
