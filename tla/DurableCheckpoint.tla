-------------------------- MODULE DurableCheckpoint --------------------------
(***************************************************************************)
(* Durable snapshots of one job: the pointer in workflow_job_memory.data,  *)
(* the immutable objects it points to, and the attempts that save, mark    *)
(* and resume them, with durable_checkpoints_enabled.                      *)
(*                                                                         *)
(* The lease is that of JobLifecycle, reduced to the attempt counted last  *)
(* and whether its expiry is ahead.  An attempt saves at most one snapshot *)
(* in a turn, so an object is named by the two.  Cancelling, which only    *)
(* ends the job, and collecting the results are JobLifecycle's.            *)
(***************************************************************************)
EXTENDS Naturals

CONSTANTS
    Workers,
    MaxTurns,         \* sandbox_max_agent_turns
    MaxAttempts,      \* sandbox_worker_max_attempts
    SnapshotsMayFail  \* a workspace may be too large, the Docker socket stall

ASSUME CheckpointAssumption ==
    /\ MaxTurns \in Nat \ {0}
    /\ MaxAttempts \in Nat
    /\ SnapshotsMayFail \in BOOLEAN

VARIABLES
    job,         \* the status of the job, as far as snapshots are concerned
    attempt,     \* attempt_count of its run
    live,        \* the lease of that attempt has not expired
    ref,         \* memory.data['durable_checkpoint']
    objects,     \* snapshots in the storage
    executed,    \* history: the turns whose tools were started
    overwritten, \* history: a late write of the memory changed the pointer
    worker       \* each Worker in execute_sandbox_job and the agent loop

vars == <<job, attempt, live, ref, objects, executed, overwritten, worker>>

Turns == 1 .. MaxTurns
Attempts == 0 .. MaxAttempts
Object == [attempt : Attempts, turn : Turns]

NoRef == [status |-> "none", attempt |-> 0, turn |-> 1]
Ref == [status : {"none", "ready", "in_flight"}, attempt : Attempts, turn : Turns]
Ready(o) == [status |-> "ready", attempt |-> o.attempt, turn |-> o.turn]
ObjectOf(r) == [attempt |-> r.attempt, turn |-> r.turn]

\* What a dispatch leaves behind: durable when a snapshot covered its turn.
Execution == [attempt : Attempts, turn : Turns, durable : BOOLEAN]

JobStatus == {"queued", "running", "ended"}
Phase == {"idle", "claimed", "preparing", "turn", "publishing", "replaced",
          "thinking", "tools", "dispatching", "failing"}

\* mine: the pointer in the session's identity map, which a commit does not
\* expire; old: the one that a published snapshot replaced.
Worker == [phase : Phase, attempt : Attempts, turn : Turns, durable : BOOLEAN,
           mine : Ref, old : Ref]

TypeOK ==
    /\ job \in JobStatus
    /\ attempt \in Attempts
    /\ live \in BOOLEAN
    /\ ref \in Ref
    /\ objects \in SUBSET Object
    /\ executed \in SUBSET Execution
    /\ overwritten \in BOOLEAN
    /\ worker \in [Workers -> Worker]

Idle == [phase |-> "idle", attempt |-> 0, turn |-> 1, durable |-> FALSE,
         mine |-> NoRef, old |-> NoRef]

Init ==
    /\ job = "queued"
    /\ attempt = 0
    /\ live = FALSE
    /\ ref = NoRef
    /\ objects = {}
    /\ executed = {}
    /\ overwritten = FALSE
    /\ worker = [w \in Workers |-> Idle]

-----------------------------------------------------------------------------
(* Helpers.  A definition whose comment begins with "Fault" is how the one   *)
(* after it could be wrong; no action uses it.                             *)

\* _assert_job_lease.  The expiry a session remembers is never later than the
\* row's (JobLifecycle tells the two apart).
Holds(w) == job = "running" /\ live /\ attempt = worker[w].attempt

Goto(w, phase) == worker' = [worker EXCEPT ![w].phase = phase]

Leave(w) == worker' = [worker EXCEPT ![w] = Idle]

\* The memory is written as one value: the pointer becomes the one this
\* session knows.  Without a change there is nothing to write.
WriteMemory(w) ==
    \/ UNCHANGED <<ref, overwritten>>
    \/ /\ ref' = worker[w].mine
       /\ overwritten' = (overwritten \/ ref # worker[w].mine)

-----------------------------------------------------------------------------
(* The Worker loop and the lease.                                          *)

Claim(w) ==
    /\ worker[w].phase = "idle"
    /\ job = "queued"
    /\ attempt < MaxAttempts
    /\ job' = "running"
    /\ attempt' = attempt + 1
    /\ live' = TRUE
    /\ worker' = [worker EXCEPT ![w] = [Idle EXCEPT !.phase = "claimed",
                                                    !.attempt = attempt + 1]]
    /\ UNCHANGED <<ref, objects, executed, overwritten>>

\* _heartbeat_job does not look at the expiry.
Heartbeat(w) ==
    /\ worker[w].phase # "idle"
    /\ job = "running" /\ attempt = worker[w].attempt
    /\ live' = TRUE
    /\ UNCHANGED <<job, attempt, ref, objects, executed, overwritten, worker>>

LeaseExpires ==
    /\ live
    /\ live' = FALSE
    /\ UNCHANGED <<job, attempt, ref, objects, executed, overwritten, worker>>

\* The process ends at any point.
Crash(w) ==
    /\ worker[w].phase # "idle"
    /\ Leave(w)
    /\ UNCHANGED <<job, attempt, live, ref, objects, executed, overwritten>>

\* Fault: an interrupted tool turn is taken for a finished one.
UncertainIgnored == FALSE

\* The tools of a turn were running, or may have been.
Uncertain == ref.status = "in_flight"

\* recover_interrupted_sandbox_jobs, by any Worker.
Recover ==
    /\ job = "running"
    /\ ~live
    /\ job' = IF Uncertain \/ attempt >= MaxAttempts THEN "ended" ELSE "queued"
    /\ UNCHANGED <<attempt, live, ref, objects, executed, overwritten, worker>>

-----------------------------------------------------------------------------
(* An attempt: load_bundle, the sandbox, the turns.                        *)

\* Without a pointer the attempt starts afresh; a snapshot that is ready and
\* complete is resumed at its turn; otherwise the attempt fails.
Begin(w) ==
    /\ worker[w].phase = "claimed"
    /\ IF ~Holds(w)
       THEN Leave(w)
       ELSE worker' = [worker EXCEPT ![w] = [@ EXCEPT
              !.mine = ref,
              !.durable = TRUE,
              !.turn = IF ref.status = "none" THEN 1 ELSE ref.turn,
              !.phase = IF \/ ref.status = "in_flight"
                           \/ ref.status = "ready" /\ ObjectOf(ref) \notin objects
                        THEN "failing" ELSE "preparing"]]
    /\ UNCHANGED <<job, attempt, live, ref, objects, executed, overwritten>>

\* The environment, the model's budget and what the snapshot remembers are
\* written into the memory without a look at the lease.
Prepare(w) ==
    /\ worker[w].phase = "preparing"
    /\ WriteMemory(w)
    /\ Goto(w, "turn")
    /\ UNCHANGED <<job, attempt, live, objects, executed>>

\* save_checkpoint: the workspace becomes an object of its own.
Save(w) ==
    /\ worker[w].phase = "turn"
    /\ Holds(w)
    /\ worker[w].durable
    /\ objects' = objects \cup {[attempt |-> worker[w].attempt, turn |-> worker[w].turn]}
    /\ Goto(w, "publishing")
    /\ UNCHANGED <<job, attempt, live, ref, executed, overwritten>>

\* CheckpointUnavailable: the attempt goes on without snapshots.  The rollback
\* has expired what the session remembers.
SaveUnavailable(w) ==
    /\ SnapshotsMayFail
    /\ worker[w].phase = "turn"
    /\ Holds(w)
    /\ worker[w].durable
    /\ worker' = [worker EXCEPT ![w] = [@ EXCEPT
            !.durable = FALSE, !.mine = ref, !.phase = "thinking"]]
    /\ UNCHANGED <<job, attempt, live, ref, objects, executed, overwritten>>

SkipSave(w) ==
    /\ worker[w].phase = "turn"
    /\ Holds(w)
    /\ ~worker[w].durable
    /\ Goto(w, "thinking")
    /\ UNCHANGED <<job, attempt, live, ref, objects, executed, overwritten>>

\* Under the lease the pointer moves to the new object.  When the commit or
\* its acknowledgement is lost the attempt fails and the object stays.
Publish(w) ==
    LET new == [status |-> "ready", attempt |-> worker[w].attempt, turn |-> worker[w].turn] IN
    /\ worker[w].phase = "publishing"
    /\ Holds(w)
    /\ \/ /\ ref' = new
          /\ worker' = [worker EXCEPT ![w] = [@ EXCEPT
                !.old = worker[w].mine, !.mine = new, !.phase = "replaced"]]
       \/ ref' \in {ref, new} /\ Goto(w, "failing")
    /\ UNCHANGED <<job, attempt, live, objects, executed, overwritten>>

\* Fault: the snapshot just published is taken for the old one.
SupersededNew(w) == {ObjectOf(worker[w].mine)}

\* The object that the pointer of this session named before.
Superseded(w) == IF worker[w].old.status = "none" THEN {} ELSE {ObjectOf(worker[w].old)}

\* An object that cannot be deleted is left to the sweep.
DeleteOld(w) ==
    /\ worker[w].phase = "replaced"
    /\ objects' \in {objects \ Superseded(w), objects}
    /\ Goto(w, "thinking")
    /\ UNCHANGED <<job, attempt, live, ref, executed, overwritten>>

\* Fault: the tools are started under a snapshot still ready.
Unmarked(r) == r

Marked(r) == IF r.status = "none" THEN r ELSE [r EXCEPT !.status = "in_flight"]

\* The model has answered; mark_inflight, under the lease.
Mark(w) ==
    LET marked == Marked(worker[w].mine) IN
    /\ worker[w].phase = "thinking"
    /\ Holds(w)
    /\ IF worker[w].durable
       THEN /\ ref' = marked
            /\ worker' = [worker EXCEPT ![w] = [@ EXCEPT !.mine = marked, !.phase = "tools"]]
       ELSE Goto(w, "tools") /\ UNCHANGED ref
    /\ UNCHANGED <<job, attempt, live, objects, executed, overwritten>>

\* Before each call the lease is checked ...
CheckCall(w) ==
    /\ worker[w].phase = "tools"
    /\ Holds(w)
    /\ Goto(w, "dispatching")
    /\ UNCHANGED <<job, attempt, live, ref, objects, executed, overwritten>>

\* ... and then the call is made, and its plan or verification remembered.
Dispatch(w) ==
    /\ worker[w].phase = "dispatching"
    /\ executed' = executed \cup {[attempt |-> worker[w].attempt, turn |-> worker[w].turn,
                                   durable |-> worker[w].durable]}
    /\ WriteMemory(w)
    /\ Goto(w, "tools")
    /\ UNCHANGED <<job, attempt, live, objects>>

\* Fault: one turn too many.
TurnLimitLate(w) == worker[w].turn > MaxTurns

TurnLimit(w) == worker[w].turn >= MaxTurns

EndTurn(w) ==
    /\ worker[w].phase = "tools"
    /\ IF TurnLimit(w)
       THEN Goto(w, "failing")
       ELSE worker' = [worker EXCEPT ![w].phase = "turn", ![w].turn = @ + 1]
    /\ UNCHANGED <<job, attempt, live, ref, objects, executed, overwritten>>

\* The agent has finished and its results are stored: the memory is written
\* without the pointer.
Succeed(w) ==
    /\ worker[w].phase = "tools"
    /\ Holds(w)
    /\ job' = "ended"
    /\ live' = FALSE
    /\ ref' = IF worker[w].mine.status = "none" THEN ref ELSE NoRef
    /\ Leave(w)
    /\ UNCHANGED <<attempt, objects, executed, overwritten>>

\* Any step of the attempt raises.
Raise(w) ==
    /\ worker[w].phase \in {"preparing", "turn", "publishing", "replaced", "thinking",
                            "tools", "dispatching"}
    /\ Goto(w, "failing")
    /\ UNCHANGED <<job, attempt, live, ref, objects, executed, overwritten>>

\* The failure is recorded under the lease only.
Fail(w) ==
    /\ worker[w].phase = "failing"
    /\ IF Holds(w)
       THEN job' = "ended" /\ live' = FALSE
       ELSE UNCHANGED <<job, live>>
    /\ Leave(w)
    /\ UNCHANGED <<attempt, ref, objects, executed, overwritten>>

\* A check of the lease finds it lost: the attempt stops and writes nothing.
LeaseLost(w) ==
    /\ worker[w].phase \in {"turn", "publishing", "thinking", "tools"}
    /\ ~Holds(w)
    /\ Leave(w)
    /\ UNCHANGED <<job, attempt, live, ref, objects, executed, overwritten>>

\* cleanup_expired_storage: an object older than the grace period to which no
\* pointer leads.  No attempt takes that long between saving and publishing.
SweepOrphan(o) ==
    /\ o \in objects
    /\ ref.status = "none" \/ o # ObjectOf(ref)
    /\ \A w \in Workers : worker[w].phase = "publishing"
          => o # [attempt |-> worker[w].attempt, turn |-> worker[w].turn]
    /\ objects' = objects \ {o}
    /\ UNCHANGED <<job, attempt, live, ref, executed, overwritten, worker>>

\* The retention of an ended job is over: its pointer and its snapshot go.
Purge ==
    /\ job = "ended"
    /\ ref.status # "none"
    /\ ref' = NoRef
    /\ objects' = objects \ {ObjectOf(ref)}
    /\ UNCHANGED <<job, attempt, live, executed, overwritten, worker>>

-----------------------------------------------------------------------------
WorkerStep(w) ==
    \/ Claim(w) \/ Heartbeat(w) \/ Crash(w)
    \/ Begin(w) \/ Prepare(w)
    \/ Save(w) \/ SaveUnavailable(w) \/ SkipSave(w) \/ Publish(w) \/ DeleteOld(w)
    \/ Mark(w) \/ CheckCall(w) \/ Dispatch(w) \/ EndTurn(w)
    \/ Succeed(w) \/ Raise(w) \/ Fail(w) \/ LeaseLost(w)

Next ==
    \/ \E w \in Workers : WorkerStep(w)
    \/ LeaseExpires \/ Recover \/ Purge
    \/ \E o \in Object : SweepOrphan(o)

Spec == Init /\ [][Next]_vars

-----------------------------------------------------------------------------
(* Safety.                                                                 *)

\* No tool turn started under a snapshot is started again by a later attempt,
\* wherever the one before it crashed, failed or was overtaken, unless a late
\* write took the pointer away.
NeverReplayed == ~overwritten =>
    \A e, f \in executed : e.durable /\ e.attempt < f.attempt => e.turn < f.turn

\* The snapshot the pointer names is in the storage: neither replacing it nor
\* the sweep deletes it, and it is there before the pointer is.
SnapshotKept == ~overwritten /\ ref.status # "none" => ObjectOf(ref) \in objects

\* A queued job can be resumed, or started afresh: none waits with a tool turn
\* whose outcome is unknown.
QueuedIsResumable == ~overwritten /\ job = "queued" => ref.status # "in_flight"

-----------------------------------------------------------------------------
(* What makes the safety properties inductive, as long as no late write has  *)
(* changed the pointer.                                                    *)

Working == {"preparing", "turn", "publishing", "replaced", "thinking", "tools", "dispatching"}
Calling == {"tools", "dispatching"}

\* Every attempt at work is one that was counted, and nobody else's.
AttemptsHeld ==
    /\ \A w \in Workers : worker[w].phase # "idle" =>
          worker[w].attempt > 0 /\ worker[w].attempt <= attempt
    /\ \A v, w \in Workers :
          v # w /\ worker[v].phase # "idle" /\ worker[w].phase # "idle"
          => worker[v].attempt # worker[w].attempt

\* w works on the attempt that was counted last, and nobody has given it up.
Current(w) == job = "running" /\ worker[w].attempt = attempt

\* The pointer r names a snapshot of an earlier attempt or an earlier turn.
Precedes(r, w) ==
    \/ r.attempt < worker[w].attempt
    \/ r.attempt = worker[w].attempt /\ r.turn < worker[w].turn

OwnObject(w) == [attempt |-> worker[w].attempt, turn |-> worker[w].turn]

\* What the session of the current attempt remembers is the pointer.
MineIsRef == \A w \in Workers :
    /\ worker[w].phase \in Working /\ Current(w) => worker[w].mine = ref
    /\ worker[w].phase = "claimed" /\ Current(w) => ref.attempt < attempt

\* The snapshot of a turn is published before its tools, and marked.
OwnSnapshot == \A w \in Workers :
    /\ worker[w].phase \in {"publishing", "replaced"} => worker[w].durable
    /\ worker[w].durable /\ worker[w].phase \in {"replaced", "thinking"} =>
          worker[w].mine.status = "ready" /\ ObjectOf(worker[w].mine) = OwnObject(w)
    /\ worker[w].durable /\ worker[w].phase \in Calling =>
          worker[w].mine.status = "in_flight" /\ ObjectOf(worker[w].mine) = OwnObject(w)

\* What a session remembers lies behind its turn, what it is about to delete
\* behind the pointer.
Advancing(w) ==
    /\ worker[w].phase \in {"preparing", "turn", "publishing"} => Precedes(worker[w].mine, w)
    /\ worker[w].phase \in {"thinking"} \cup Calling =>
          Precedes(worker[w].mine, w) \/ ObjectOf(worker[w].mine) = OwnObject(w)
    /\ worker[w].phase = "replaced" =>
          /\ Precedes(worker[w].old, w)
          /\ ref.status = "none" \/ ~Precedes(ref, w)

\* Pointers only move forward: no one deletes what is named now.
PointersAdvance ==
    /\ ref.attempt <= attempt
    /\ \A w \in Workers : Advancing(w)

ObjectsKept ==
    /\ ref.status # "none" => ObjectOf(ref) \in objects
    /\ \A w \in Workers : worker[w].phase = "publishing" /\ Current(w)
          => OwnObject(w) \in objects

\* An attempt is ahead of what was started under a snapshot, and of its own.
AheadOf(w, e) ==
    /\ worker[w].phase = "claimed" => e.attempt # worker[w].attempt
    /\ worker[w].phase \in Working /\ e.attempt = worker[w].attempt =>
          \/ e.turn < worker[w].turn
          \/ worker[w].phase \in Calling /\ e.turn = worker[w].turn
    /\ worker[w].phase \in Working /\ e.durable /\ e.attempt < worker[w].attempt =>
          e.turn < worker[w].turn

TurnsAhead ==
    /\ \A e \in executed : e.attempt <= attempt
    /\ \A w \in Workers, e \in executed : AheadOf(w, e)

\* While tools run under a snapshot there is no later attempt, nor will be.
ToolsAreLast == \A w \in Workers :
    worker[w].durable /\ worker[w].phase \in Calling =>
        job # "queued" /\ worker[w].attempt = attempt

\* Where a later attempt would start lies ahead of those turns, too.
RefIsAhead == job # "ended" => \A e \in executed : e.durable =>
    ref.status # "none" /\ (ref.status = "ready" => e.turn < ref.turn)

CheckpointInv ==
    /\ TypeOK
    /\ AttemptsHeld
    /\ ~overwritten =>
          /\ MineIsRef /\ OwnSnapshot /\ PointersAdvance /\ ObjectsKept
          /\ TurnsAhead /\ ToolsAreLast /\ RefIsAhead
          /\ NeverReplayed /\ QueuedIsResumable

-----------------------------------------------------------------------------
(* What the repository says and the code does not keep.                    *)

\* durable_checkpoint.py: an in-flight tool is never automatically replayed; a
\* snapshot that can be resumed lies behind no tool turn started since.
ReadyIsAhead == ~overwritten /\ job # "ended" /\ ref.status = "ready" =>
    \A e \in executed : e.attempt >= ref.attempt => e.turn < ref.turn
=============================================================================
