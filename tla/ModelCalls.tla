------------------------------ MODULE ModelCalls ------------------------------
(***************************************************************************)
(* The turns of a job with its model: OpenAICompatibleGateway.agent_step,  *)
(* which asks for native tool calls and falls back to JSON text, the       *)
(* requests it repeats when an answer is unusable, the attempts of         *)
(* post_json at each request with their time budgets, and the agent loop,  *)
(* which awaits a turn while it polls for the job's cancellation.          *)
(*                                                                         *)
(* The model service may answer, stall, break off, or be busy at any time. *)
(* Time is counted in ticks, and only where a budget bounds it.            *)
(***************************************************************************)
EXTENDS Integers, Sequences, FiniteSets, Functions

CONSTANTS
    Connections,  \* connections with their budgets (0: no bound)
    Answers       \* what the model may generate: sequences of pieces

Work == "work"        \* a tool call with a known name and whole arguments
Alone == "alone"      \* finish or block
Unusable == "unusable"  \* a call with an unknown name or torn arguments
Object == "object"    \* text that holds a JSON object
Prose == "prose"      \* text that does not
CallPieces == {Work, Alone, Unusable}
Pieces == CallPieces \cup {Object, Prose}

MaxAttempts == 3      \* range(3) of post_json
MaxCalls == 8         \* tool calls in one answer

\* ModelConnection with its budgets; tools: the service knows native tools.
Connection == [timeout : Nat, first : Nat, stall : Nat, native : BOOLEAN, tools : BOOLEAN]

ASSUME ConnectionAssumption == Connections \subseteq Connection
ASSUME AnswerAssumption == Answers \subseteq Seq(Pieces)

VARIABLES
    connection,  \* the connection of the job; tools: its service knows tools
    native,      \* _native_tools_available of the job's gateway
    turn,        \* the turn: its mode, its repeated requests, its result
    post,        \* post_json at the request under way
    cancelled,   \* the job is cancelled
    spent,       \* history: the request has brought generation already
    sent,        \* history: how often the turn has been sent to the service
    refusals     \* history: refusals of native tools met by this gateway

callsVars == <<connection, native, turn, post, cancelled, spent, sent, refusals>>

\* at: sending (until the status arrives), streaming, reading (a body that is
\* read as a whole), pausing; reply: what the body is, an answer or an error;
\* heard: a line has arrived; complete: a finish_reason has arrived; silent:
\* ticks since the attempt began or, after it, since the last piece.
NoPost == [at |-> "none", attempt |-> 0, reply |-> "answer", answer |-> <<>>, received |-> <<>>,
           heard |-> FALSE, complete |-> FALSE, elapsed |-> 0, silent |-> 0, pause |-> 0]
\* Attempt n of a request that has taken elapsed ticks so far.
Attempt(n, elapsed) == [NoPost EXCEPT !.at = "sending", !.attempt = n, !.elapsed = elapsed]

\* The pieces of an answer that are calls, or objects, at their places.
Calls(pieces) == Restrict(pieces, {i \in DOMAIN pieces : pieces[i] \in CallPieces})
Objects(pieces) == Restrict(pieces, {i \in DOMAIN pieces : pieces[i] = Object})

\* What can be taken of what the model says.
Said == Answers \cup {<<>>}
Takings == {<<>>} \cup {Calls(answer) : answer \in Said} \cup {Objects(answer) : answer \in Said}

Idle == [mode |-> "idle", repeated |-> FALSE, said |-> <<>>, taken |-> <<>>, way |-> "none"]

CallsTypeOK ==
    /\ connection \in Connections
    /\ native \in BOOLEAN /\ cancelled \in BOOLEAN /\ spent \in BOOLEAN
    /\ sent \in Nat /\ refusals \in Nat
    /\ turn \in [mode : {"idle", "native", "text", "answered", "raised", "over"},
                 repeated : BOOLEAN, said : Said, taken : Takings,
                 way : {"none", "native", "text"}]
    /\ post \in [at : {"none", "sending", "streaming", "reading", "pausing"},
                 attempt : 0..MaxAttempts - 1, reply : {"answer", "unsupported", "refused"},
                 answer : Said, received : Seq(Pieces), heard : BOOLEAN,
                 complete : BOOLEAN, elapsed : Nat, silent : Nat, pause : Nat]

CallsInit ==
    /\ connection \in Connections
    /\ native = connection.native
    /\ turn = Idle
    /\ post = NoPost
    /\ cancelled = FALSE
    /\ spent = FALSE
    /\ sent = 0 /\ refusals = 0

Asking == turn.mode \in {"native", "text"}
Progress == post.received # <<>>

-----------------------------------------------------------------------------
(* What an answer is worth.  A definition whose comment begins with "Fault"  *)
(* is how the one after it could be wrong; no action uses it.              *)

Texts(pieces) == Range(pieces) \ CallPieces

\* _parse_agent_tool_response: the calls are taken all or none.
UsableCalls(pieces) ==
    LET calls == Calls(pieces) IN
    /\ Cardinality(DOMAIN calls) \in 1..MaxCalls
    /\ Unusable \notin Range(calls)
    /\ Alone \in Range(calls) => Cardinality(DOMAIN calls) = 1

\* _parse_json_object of the text, which may be missing.
HasObject(pieces) == Object \in Texts(pieces)

\* A request is sent anew: post_json with a deadline of its own.
Request(mode, repeated) ==
    /\ turn' = [Idle EXCEPT !.mode = mode, !.repeated = repeated]
    /\ post' = Attempt(0, 0)
    /\ spent' = FALSE
    /\ sent' = sent + 1

\* The turn is over for the gateway: its task is done.
Done(mode, way, said, taken) ==
    /\ turn' = [Idle EXCEPT !.mode = mode, !.way = way, !.said = said, !.taken = taken]
    /\ post' = NoPost
    /\ spent' = FALSE
    /\ UNCHANGED sent

\* ModelGatewayError, other than for what agent_step falls back from.
Raised == Done("raised", "none", <<>>, <<>>)

\* _request_tool_action on a response: one repetition, then the fallback.
NativeAnswer(pieces) ==
    IF UsableCalls(pieces) THEN Done("answered", "native", post.answer, Calls(pieces))
    ELSE IF ~turn.repeated THEN Request("native", TRUE)
    ELSE Request("text", FALSE)

\* Fault: text that holds no object is asked for again and again.
TextAnswerEver(pieces) ==
    IF HasObject(pieces) THEN Done("answered", "text", post.answer, Objects(pieces))
    ELSE IF Texts(pieces) # {} THEN Request("text", TRUE)
    ELSE Raised

\* _request_json on a response: one repetition, of an answer that was text.
TextAnswer(pieces) ==
    IF HasObject(pieces) THEN Done("answered", "text", post.answer, Objects(pieces))
    ELSE IF ~turn.repeated /\ Texts(pieces) # {} THEN Request("text", TRUE)
    ELSE Raised

Answered(pieces) ==
    IF turn.mode = "native" THEN NativeAnswer(pieces) ELSE TextAnswer(pieces)

-----------------------------------------------------------------------------
(* Time.                                                                   *)

Remaining == connection.timeout - post.elapsed
Working == post.at \in {"sending", "streaming", "reading"}

\* Fault: any line ends the wait for the first response.
BudgetOfLines == IF post.heard THEN connection.stall ELSE connection.first

\* _ProgressBudget.wait: heartbeats and empty deltas change nothing.
Budget == IF Progress THEN connection.stall ELSE connection.first

BudgetDue == Working /\ Budget > 0 /\ post.silent >= Budget
DeadlineDue == Working /\ connection.timeout > 0 /\ Remaining <= 0

\* The pause after attempt n, which doubles and which the deadline cuts short.
Pause(n) ==
    LET backoff == <<1, 2, 4>>[n + 1] IN
    IF connection.timeout = 0 \/ Remaining >= backoff THEN backoff
    ELSE IF Remaining > 0 THEN Remaining ELSE 0

\* A tick; a timer that is due comes first.
Tick ==
    /\ Asking
    /\ ~BudgetDue /\ ~DeadlineDue
    /\ post.at = "pausing" => post.pause > 0
    /\ post' = [post EXCEPT
            !.elapsed = IF connection.timeout > 0 THEN @ + 1 ELSE @,
            !.silent = IF Working /\ Budget > 0 THEN @ + 1 ELSE @,
            !.pause = IF post.at = "pausing" THEN @ - 1 ELSE @]
    /\ post' # post
    /\ UNCHANGED <<connection, native, turn, cancelled, spent, sent, refusals>>

-----------------------------------------------------------------------------
(* post_json.                                                              *)

Paused == [NoPost EXCEPT !.at = "pausing", !.attempt = post.attempt,
                         !.elapsed = post.elapsed, !.pause = Pause(post.attempt)]

\* Fault: the transport counts its attempts only.
MayTryMore == post.attempt < MaxAttempts - 1

\* After an attempt that broke off.
MayTryAgain == post.attempt < MaxAttempts - 1 /\ ~Progress

Broken ==
    \/ /\ MayTryAgain
       /\ post' = Paused
       /\ UNCHANGED <<turn, spent, sent>>
    \/ /\ ~MayTryAgain
       /\ Raised

\* ConnectError, ReadError, RemoteProtocolError (an event that is no object
\* among them), the timeouts of the connection; other errors are raised.
Break ==
    /\ Working
    /\ Broken \/ Raised
    /\ UNCHANGED <<connection, native, cancelled, refusals>>

\* ModelFirstResponseTimeout and ModelStreamStall.
RunOut ==
    /\ BudgetDue
    /\ Broken
    /\ UNCHANGED <<connection, native, cancelled, refusals>>

\* The deadline of the request ends it, whatever it is doing.
Deadline ==
    /\ DeadlineDue
    /\ Raised
    /\ UNCHANGED <<connection, native, cancelled, refusals>>

\* The next attempt, unless there is none or no time is left.
TryNext ==
    /\ post.at = "pausing" /\ post.pause = 0
    /\ IF post.attempt < MaxAttempts - 1 /\ (connection.timeout > 0 => Remaining > 0)
       THEN /\ post' = Attempt(post.attempt + 1, post.elapsed)
            /\ sent' = sent + 1
            /\ UNCHANGED <<turn, spent>>
       ELSE Raised
    /\ UNCHANGED <<connection, native, cancelled, refusals>>

\* RETRYABLE_STATUS: the service is busy; after the last attempt, too, there
\* is a pause before the error.
Busy ==
    /\ post.at = "sending"
    /\ post' = Paused
    /\ UNCHANGED <<connection, native, turn, cancelled, spent, sent, refusals>>

\* The service takes the request and streams its answer, or sends it as one
\* document; a service without tools may refuse them, any may refuse the request.
Respond(at, reply, answer) ==
    /\ post.at = "sending"
    /\ reply = "unsupported" => turn.mode = "native" /\ ~connection.tools
    /\ post' = [post EXCEPT !.at = at, !.reply = reply, !.answer = answer]
    /\ UNCHANGED <<connection, native, turn, cancelled, spent, sent, refusals>>

Stream == \E answer \in Answers : Respond("streaming", "answer", answer)
Buffer == \E answer \in Answers : Respond("reading", "answer", answer)
Refuse == \E reply \in {"unsupported", "refused"} : Respond("reading", reply, <<>>)

\* The next piece of the answer.
Piece ==
    /\ post.at = "streaming"
    /\ ~post.complete
    /\ Len(post.received) < Len(post.answer)
    /\ post' = [post EXCEPT !.received = Append(@, post.answer[Len(@) + 1]),
                            !.heard = TRUE, !.silent = 0]
    /\ spent' = TRUE
    /\ UNCHANGED <<connection, native, turn, cancelled, sent, refusals>>

\* A line without generation: a heartbeat, an empty delta, and after the last
\* piece the finish_reason.
Line ==
    /\ post.at = "streaming"
    /\ \E complete \in BOOLEAN :
        /\ complete => post.received = post.answer
        /\ post.complete => complete
        /\ post' = [post EXCEPT !.heard = TRUE, !.complete = complete]
    /\ post' # post
    /\ UNCHANGED <<connection, native, turn, cancelled, spent, sent, refusals>>

\* Fault: whatever a stream has brought when it ends is an answer.
EndsWell == TRUE

\* A stream that ends without [DONE] needs a finish_reason.
Ended == post.complete

\* The end of the stream: [DONE], which follows the last piece, or its close.
End ==
    /\ post.at = "streaming"
    /\ \/ post.received = post.answer /\ Answered(post.received)
       \/ Ended /\ Answered(post.received)
       \/ ~Ended /\ Broken
    /\ UNCHANGED <<connection, native, cancelled, refusals>>

\* Fault: the refusal is forgotten.
ToolsRefusedOnce == UNCHANGED native

\* agent_step on MODEL_TOOL_CALL_UNSUPPORTED.
ToolsRefused == native' = FALSE

\* A body that is read as a whole: an answer or an error.
Body ==
    /\ post.at = "reading"
    /\ \/ /\ post.reply = "answer"
          /\ Answered(post.answer)
          /\ UNCHANGED <<native, refusals>>
       \/ /\ post.reply = "unsupported"
          /\ ToolsRefused
          /\ refusals' = refusals + 1
          /\ Request("text", FALSE)
       \/ /\ post.reply = "refused"
          /\ Raised
          /\ UNCHANGED <<native, refusals>>
    /\ UNCHANGED <<connection, cancelled>>

-----------------------------------------------------------------------------
(* The agent loop.                                                         *)

\* agent_step.
Ask ==
    /\ turn.mode = "idle"
    /\ ~cancelled
    /\ Request(IF native THEN "native" ELSE "text", FALSE)
    /\ UNCHANGED <<connection, native, cancelled, refusals>>

\* The turn's result is acted on, its error ends the job.
Deliver ==
    /\ turn.mode \in {"answered", "raised"}
    /\ ~cancelled
    /\ turn' = [Idle EXCEPT !.mode = IF turn.mode = "answered" THEN "idle" ELSE "over"]
    /\ sent' = 0
    /\ UNCHANGED <<connection, native, post, cancelled, spent, refusals>>

Cancel ==
    /\ ~cancelled
    /\ turn.mode # "over"
    /\ cancelled' = TRUE
    /\ UNCHANGED <<connection, native, turn, post, spent, sent, refusals>>

\* Fault: the loop looks for the cancellation between turns only.
AbandonLate ==
    /\ cancelled
    /\ turn.mode \in {"idle", "answered", "raised"}
    /\ Done("over", "none", <<>>, <<>>)
    /\ UNCHANGED <<connection, native, cancelled, refusals>>

\* _await_model_with_cancellation, and the loop between its turns.
Abandon ==
    /\ cancelled
    /\ turn.mode # "over"
    /\ Done("over", "none", <<>>, <<>>)
    /\ UNCHANGED <<connection, native, cancelled, refusals>>

\* The next job, with a gateway of its own.
NextJob ==
    /\ turn.mode = "over"
    /\ connection' \in Connections
    /\ native' = connection'.native
    /\ turn' = Idle
    /\ cancelled' = FALSE
    /\ sent' = 0 /\ refusals' = 0
    /\ UNCHANGED <<post, spent>>

Service == Break \/ Busy \/ Stream \/ Buffer \/ Refuse \/ Piece \/ Line \/ End \/ Body
Gateway == Tick \/ RunOut \/ Deadline \/ TryNext
Loop == Ask \/ Deliver \/ Abandon
CallsNext == Service \/ Gateway \/ Loop \/ Cancel \/ NextJob

\* Time passes, timers fire and the loop goes on; the service owes nothing.
CallsFairness ==
    /\ WF_callsVars(Tick)
    /\ WF_callsVars(RunOut \/ Deadline)
    /\ WF_callsVars(TryNext)
    /\ WF_callsVars(Deliver)
    /\ WF_callsVars(Abandon)

CallsSpec == CallsInit /\ [][CallsNext]_callsVars /\ CallsFairness

-----------------------------------------------------------------------------
(* Properties.                                                             *)

\* A request that has brought generation is never sent again by the
\* transport: the docstring's "Partial generations are not replayed".
NoReplay == post.at \in {"sending", "pausing"} => ~spent

\* Neither an attempt nor the request outlives its budgets by a tick, however
\* many lines without generation arrive.
BudgetsHold ==
    /\ connection.timeout > 0 =>
           post.elapsed + post.pause <= connection.timeout
    /\ Working /\ ~Progress /\ connection.first > 0 => post.silent <= connection.first
    /\ Working /\ Progress /\ connection.stall > 0 => post.silent <= connection.stall

\* What is acted on is all that the model said, a batch without an unusable
\* call and with finish or block only alone.
AnswersAreWhole ==
    turn.mode = "answered" =>
        \/ /\ turn.way = "native"
           /\ turn.taken = Calls(turn.said) /\ DOMAIN turn.taken # {}
           /\ Unusable \notin Range(turn.said)
           /\ Alone \in Range(turn.said) => Cardinality(DOMAIN turn.taken) = 1
        \/ /\ turn.way = "text"
           /\ turn.taken = Objects(turn.said) /\ DOMAIN turn.taken # {}

\* A service that does not know tools is asked for them once by a gateway.
ToolsRefusedAtMostOnce == refusals <= 1 /\ (refusals = 1 => ~native /\ turn.mode # "native")

\* A request is under way as long as the turn asks; only a stream has brought
\* generation, and it is complete when all of the answer has arrived.
PostsMatchTurns ==
    /\ Asking <=> post.at # "none"
    /\ post.at = "none" => post = NoPost
    /\ post.at # "pausing" => post.pause = 0
    /\ Progress \/ post.complete => post.at = "streaming"
    /\ spent => Progress
    /\ post.complete => post.received = post.answer
    /\ turn.mode = "native" => native
    /\ post.reply = "unsupported" => turn.mode = "native"

\* The requests a turn has behind it: native tools, their repetition, text, its
\* repetition.
Behind(mode, repeated) ==
    (IF mode = "native" THEN 0 ELSE 2) + (IF repeated THEN 1 ELSE 0)

\* However answers, attempts and refusals fall out, a turn is sent to the service
\* four times with three attempts each, and not once more.
TurnIsBounded ==
    /\ sent <= 4 * MaxAttempts
    /\ Asking => sent <= MaxAttempts * Behind(turn.mode, turn.repeated) + post.attempt + 1
    /\ turn.mode = "idle" => sent = 0

CallsInv ==
    /\ CallsTypeOK
    /\ NoReplay /\ BudgetsHold /\ AnswersAreWhole /\ ToolsRefusedAtMostOnce /\ TurnIsBounded
    /\ PostsMatchTurns

\* The deadline, or the two other budgets together, bound the attempts.
Bounded == connection.timeout > 0 \/ (connection.first > 0 /\ connection.stall > 0)

\* A turn of a bounded connection comes to its end whatever the service does,
\* and a cancelled job leaves its turn even where no budget is set.
CallsEnd == /\ (Asking /\ Bounded) ~> ~Asking
            /\ cancelled ~> turn.mode = "over"
=============================================================================
