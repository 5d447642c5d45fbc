---------------------------- MODULE JobLifecycle ----------------------------
(***************************************************************************)
(* The life of a sandboxed workflow job: the rows workflow_jobs,           *)
(* agent_runs, job_steps and artifacts, the Sandbox Workers that claim,    *)
(* execute, deliver and recover jobs under a database lease, and the API   *)
(* handler that cancels them.                                              *)
(*                                                                         *)
(* A database transaction that reads and writes under row locks is one     *)
(* action.  A handler that reads in one transaction and writes in another  *)
(* is one action per transaction, and what it read is kept in a variable.  *)
(* An uuid4 lease token is created by each claim together with an          *)
(* increment of attempt_count, so the token is represented by the number   *)
(* of the attempt that created it, 0 standing for NULL.                    *)
(***************************************************************************)
EXTENDS Naturals, FiniteSets

CONSTANTS
    Jobs,                \* sandbox_required workflow jobs
    Workers,             \* Sandbox Worker processes
    MaxAttempts,         \* settings.sandbox_worker_max_attempts
    TimeoutEnabled       \* settings.sandbox_job_timeout_seconds > 0

ASSUME JobLifecycleAssumption ==
    /\ MaxAttempts \in Nat \ {0}
    /\ TimeoutEnabled \in BOOLEAN

VARIABLES
    job,        \* workflow_jobs.status ("none": not submitted yet)
    run,        \* agent_runs: status, attempts, lease token, lease not expired
    step,       \* job_steps.status of the three steps after prepare-input
    artifacts,  \* artifact rows: the attempt that stored them, verified flag
    checkpoint, \* status of workflow_job_memory.data['durable_checkpoint']
    cancel,     \* what a cancel request has read and not yet written back
    pc,         \* where each Worker is in run_worker / execute_sandbox_job
    held,       \* the JobLease each Worker works under: job and attempt
    seen,       \* the lease expiry each Worker last read is still ahead
    lost        \* the lease_lost event of each Worker's heartbeat loop

rows == <<job, run, step, artifacts, checkpoint>>
vars == <<rows, cancel, pc, held, seen, lost>>

Steps == {"execute", "collect", "verify"}
StepStatus == {"pending", "running", "blocked", "succeeded", "failed", "skipped"}
Open == {"pending", "running"}

ActiveStatus == {"running", "producing_artifacts", "verifying"}
Terminal == {"succeeded", "failed", "cancelled", "blocked"}
JobStatus == {"none", "queued"} \cup ActiveStatus \cup Terminal
RunStatus == {"queued", "running", "succeeded", "failed", "cancelled"}

Attempts == 0 .. MaxAttempts
Run == [status : RunStatus, attempts : Attempts, token : Attempts, live : BOOLEAN]
Artifact == [attempt : Attempts, verified : BOOLEAN]

NoRequest == [pending |-> FALSE, open |-> {}]

\* The sections of execute_sandbox_job that hold a sandbox, in code order.
Sections == {"working", "finishing", "collecting", "persisting", "stored", "verifying"}
\* "polled" and "cancelling" interrupt "working"; "failing" is the handler of
\* the other exceptions.
Busy == {"claimed", "polled", "cancelling", "failing"} \cup Sections
WorkerPc == {"down", "recovering", "claiming"} \cup Busy

TypeOK ==
    /\ job \in [Jobs -> JobStatus]
    /\ run \in [Jobs -> Run]
    /\ step \in [Jobs -> [Steps -> StepStatus]]
    /\ artifacts \in [Jobs -> SUBSET Artifact]
    /\ checkpoint \in [Jobs -> {"none", "ready", "in_flight"}]
    /\ cancel \in [Jobs -> [pending : BOOLEAN, open : SUBSET Steps]]
    /\ pc \in [Workers -> WorkerPc]
    /\ held \in [Workers -> [job : Jobs, attempt : Attempts]]
    /\ seen \in [Workers -> BOOLEAN]
    /\ lost \in [Workers -> BOOLEAN]

Init ==
    /\ job = [j \in Jobs |-> "none"]
    /\ run = [j \in Jobs |-> [status |-> "queued", attempts |-> 0, token |-> 0, live |-> FALSE]]
    /\ step = [j \in Jobs |-> [s \in Steps |-> "pending"]]
    /\ artifacts = [j \in Jobs |-> {}]
    /\ checkpoint = [j \in Jobs |-> "none"]
    /\ cancel = [j \in Jobs |-> NoRequest]
    /\ pc = [w \in Workers |-> "down"]
    /\ held \in [Workers -> [job : Jobs, attempt : {0}]]
    /\ seen = [w \in Workers |-> FALSE]
    /\ lost = [w \in Workers |-> FALSE]

-----------------------------------------------------------------------------
(* Row helpers.  A definition whose comment begins with "Fault" is how the   *)
(* one after it could be wrong; no action uses it.                         *)

\* Settling the steps of a job that stops: what a running step and a pending
\* step become.
Settle(steps, running, pending) ==
    [s \in Steps |-> CASE steps[s] = "running" -> running
                       [] steps[s] = "pending" -> pending
                       [] OTHER -> steps[s]]

\* Fault: the lease columns are left as they are.
FinishedKeepingLease(r, status) == [r EXCEPT !.status = status]

\* complete_run and fail_run: the final status, and the lease columns cleared.
Finished(r, status) == [r EXCEPT !.status = status, !.token = 0, !.live = FALSE]

\* The exception handlers and the time limit settle only the first running step
\* in the order of the steps.
FirstRunning(steps, s) ==
    /\ steps[s] = "running"
    /\ s # "execute" => steps["execute"] # "running"
    /\ s = "verify" => steps["collect"] # "running"

SettleFirst(steps, running, pending) ==
    [s \in Steps |-> CASE FirstRunning(steps, s) -> running
                       [] steps[s] = "pending" -> pending
                       [] OTHER -> steps[s]]

Unverified(j) == {a \in artifacts[j] : ~a.verified}

\* The row of agent_runs says that the attempt of w holds the job's lease.
Holds(w) ==
    LET r == run[held[w].job] IN r.status = "running" /\ r.token = held[w].attempt

\* Fault: the lease of any attempt is taken for one's own.
FreshLeaseOfAny(w) == ~lost[w] /\ run[held[w].job].status = "running" /\ run[held[w].job].live

\* Fault: the heartbeat's word is taken for it.
FreshLeaseUnread(w) == ~lost[w]

\* _assert_job_lease without lock: the run is refreshed from the database.
FreshLease(w) == ~lost[w] /\ Holds(w) /\ run[held[w].job].live

\* _assert_job_lease with lock: the locking SELECT returns the instance of
\* the session's identity map with the columns of its last refresh, and the
\* last refresh found the lease current, so only its expiry can have passed.
CachedLease(w) == ~lost[w] /\ seen[w]

Goto(w, p) == pc' = [pc EXCEPT ![w] = p]

\* The session is closed and the heartbeat loop stopped.
Leave(w, p) ==
    /\ Goto(w, p)
    /\ seen' = [seen EXCEPT ![w] = FALSE]

\* An attempt has flushed artifact rows and not committed them.  Their foreign
\* key holds a share lock on the job row: a SELECT FOR UPDATE of the job waits
\* for the commit, and SKIP LOCKED passes the job over.
ShareLocked(j) == \E w \in Workers : pc[w] = "persisting" /\ held[w].job = j

-----------------------------------------------------------------------------
(* The API process.                                                        *)

\* The job has been created, its environment is usable and it is queued.
Submit(j) ==
    /\ job[j] = "none"
    /\ job' = [job EXCEPT ![j] = "queued"]
    /\ UNCHANGED <<run, step, artifacts, checkpoint, cancel, pc, held, seen, lost>>

\* _cancel_job, first half: the job and its steps are read without a lock;
\* a finished job is answered 409 and nothing is pending.
CancelRead(j) ==
    /\ job[j] \notin Terminal \cup {"none"}
    /\ ~cancel[j].pending
    /\ cancel' = [cancel EXCEPT
            ![j] = [pending |-> TRUE, open |-> {s \in Steps : step[j][s] \in Open}]]
    /\ UNCHANGED <<rows, pc, held, seen, lost>>

\* Fault: the run and the steps are forgotten.
CancelCommitJobOnly(j) ==
    /\ cancel[j].pending
    /\ job' = [job EXCEPT ![j] = "cancelled"]
    /\ cancel' = [cancel EXCEPT ![j] = NoRequest]
    /\ UNCHANGED <<run, step, artifacts, checkpoint, pc, held, seen, lost>>

\* _cancel_job, second half: the writes follow from what was read, however
\* the rows have changed since.
CancelCommit(j) ==
    /\ cancel[j].pending
    /\ job' = [job EXCEPT ![j] = "cancelled"]
    /\ step' = [step EXCEPT ![j] =
            [s \in Steps |-> IF s \in cancel[j].open THEN "skipped" ELSE step[j][s]]]
    /\ run' = [run EXCEPT ![j] = Finished(@, "cancelled")]
    /\ cancel' = [cancel EXCEPT ![j] = NoRequest]
    /\ UNCHANGED <<artifacts, checkpoint, pc, held, seen, lost>>

-----------------------------------------------------------------------------
(* The Worker loop: recover, claim, execute.                               *)

\* The process is started again by its supervisor.
WorkerStart(w) ==
    /\ pc[w] = "down"
    /\ Goto(w, "recovering")
    /\ UNCHANGED <<rows, cancel, held, seen, lost>>

\* The process ends at any point; what its session has not committed is gone.
WorkerCrash(w) ==
    /\ pc[w] # "down"
    /\ Leave(w, "down")
    /\ lost' = [lost EXCEPT ![w] = FALSE]
    /\ UNCHANGED <<rows, cancel, held>>

\* Fault: only the expiry of a lease is looked for.
InterruptedByExpiry == {j \in Jobs :
    job[j] \in ActiveStatus /\ run[j].status = "running" /\ ~run[j].live /\ ~ShareLocked(j)}

\* The jobs the recovery scan selects and can lock.
Interrupted == {j \in Jobs :
    /\ job[j] \in ActiveStatus
    /\ ~(run[j].status = "running" /\ run[j].token # 0 /\ run[j].live)
    /\ ~ShareLocked(j)}

\* Fault: one attempt too many.
ExhaustedLate(j) == run[j].attempts > MaxAttempts

Exhausted(j) == run[j].attempts >= MaxAttempts

\* One _recover_interrupted_jobs transaction, over every job it can lock.
Recover(w) ==
    /\ pc[w] = "recovering"
    /\ LET uncertain == {j \in Interrupted : checkpoint[j] = "in_flight"}
           exhausted == {j \in Interrupted \ uncertain : Exhausted(j)}
           requeued  == Interrupted \ (uncertain \cup exhausted)
       IN /\ job' = [j \in Jobs |->
                CASE j \in uncertain \cup exhausted -> "failed"
                  [] j \in requeued -> "queued"
                  [] OTHER -> job[j]]
          /\ run' = [j \in Jobs |->
                CASE j \in uncertain \cup exhausted -> Finished(run[j], "failed")
                  [] j \in requeued -> Finished(run[j], "queued")
                  [] OTHER -> run[j]]
          /\ step' = [j \in Jobs |->
                CASE j \in exhausted -> Settle(step[j], "failed", "skipped")
                  [] j \in requeued -> [s \in Steps |-> "pending"]
                  [] OTHER -> step[j]]
          /\ artifacts' = [j \in Jobs |->
                IF j \in Interrupted THEN artifacts[j] \ Unverified(j) ELSE artifacts[j]]
    /\ Goto(w, "claiming")
    /\ UNCHANGED <<checkpoint, cancel, held, seen, lost>>

\* _claim_job finds no queued job it can lock; the Worker sleeps and polls again.
ClaimNothing(w) ==
    /\ pc[w] = "claiming"
    /\ \A j \in Jobs : job[j] = "queued" => ShareLocked(j)
    /\ Goto(w, "recovering")
    /\ UNCHANGED <<rows, cancel, held, seen, lost>>

\* _claim_job leases the run of a queued job to a new attempt, or fails a job
\* whose attempts are used up (QueuedIsFree says that it never meets one: the
\* recovery has failed it before).
Claim(w, j) ==
    /\ pc[w] = "claiming"
    /\ job[j] = "queued"
    /\ ~ShareLocked(j)
    /\ IF Exhausted(j)
       THEN /\ job' = [job EXCEPT ![j] = "failed"]
            /\ step' = [step EXCEPT ![j] = Settle(@, "failed", "skipped")]
            /\ run' = [run EXCEPT ![j] = Finished(@, "failed")]
            /\ Goto(w, "recovering")
            /\ UNCHANGED <<held, lost>>
       ELSE LET attempt == run[j].attempts + 1 IN
            /\ job' = [job EXCEPT ![j] = "running"]
            /\ step' = [step EXCEPT ![j]["execute"] = "running"]
            /\ run' = [run EXCEPT ![j] = [status |-> "running", attempts |-> attempt,
                                          token |-> attempt, live |-> TRUE]]
            /\ held' = [held EXCEPT ![w] = [job |-> j, attempt |-> attempt]]
            /\ lost' = [lost EXCEPT ![w] = FALSE]
            /\ Goto(w, "claimed")
    /\ UNCHANGED <<artifacts, checkpoint, cancel, seen>>

\* execute_sandbox_job opens its session.  A job already cancelled is left;
\* a lease already lost ends the process, for the check stands outside the
\* try; a snapshot that is not ready is an error of the attempt.  The job's
\* owner is there, for a user is deleted together with his jobs.
Begin(w) ==
    LET j == held[w].job IN
    /\ pc[w] = "claimed"
    /\ \/ /\ job[j] = "cancelled"
          /\ run' = [run EXCEPT ![j] = Finished(@, "cancelled")]
          /\ Goto(w, "recovering")
          /\ UNCHANGED seen
       \/ /\ job[j] # "cancelled"
          /\ ~FreshLease(w)
          /\ Goto(w, "down")
          /\ UNCHANGED <<run, seen>>
       \/ /\ job[j] # "cancelled"
          /\ FreshLease(w)
          /\ Goto(w, IF checkpoint[j] = "in_flight" THEN "failing" ELSE "working")
          /\ seen' = [seen EXCEPT ![w] = TRUE]
          /\ UNCHANGED run
    /\ UNCHANGED <<job, step, artifacts, checkpoint, cancel, held, lost>>

-----------------------------------------------------------------------------
(* The lease.                                                              *)

\* _heartbeat_job: the UPDATE matches status, token and owner, not the expiry.
Heartbeat(w) ==
    /\ pc[w] \in Busy
    /\ ~lost[w]
    /\ IF Holds(w)
       THEN /\ run' = [run EXCEPT ![held[w].job].live = TRUE]
            /\ UNCHANGED lost
       ELSE /\ lost' = [lost EXCEPT ![w] = TRUE]
            /\ UNCHANGED run
    /\ UNCHANGED <<job, step, artifacts, checkpoint, cancel, pc, held, seen>>

\* The heartbeat raises: the loop gives the lease up without knowing.
HeartbeatError(w) ==
    /\ pc[w] \in Busy
    /\ ~lost[w]
    /\ lost' = [lost EXCEPT ![w] = TRUE]
    /\ UNCHANGED <<rows, cancel, pc, held, seen>>

\* Time passes the expiry that w read.
SeenExpires(w) ==
    /\ seen[w]
    /\ seen' = [seen EXCEPT ![w] = FALSE]
    /\ UNCHANGED <<rows, cancel, pc, held, lost>>

\* Time passes the expiry in the row, which is never earlier than one read
\* from it (the hosts' clocks are taken as synchronised).
LeaseExpires(j) ==
    /\ run[j].live
    /\ \A w \in Workers : held[w].job = j /\ Holds(w) => ~seen[w]
    /\ run' = [run EXCEPT ![j].live = FALSE]
    /\ UNCHANGED <<job, step, artifacts, checkpoint, cancel, pc, held, seen, lost>>
-----------------------------------------------------------------------------
(* execute_sandbox_job: the agent loop.                                    *)

\* _job_is_cancelled, polled through the loop, refreshes the run first, which
\* must hold the lease, and then the status of the job.
Poll(w) ==
    /\ pc[w] = "working"
    /\ FreshLease(w)
    /\ seen' = [seen EXCEPT ![w] = TRUE]
    /\ Goto(w, "polled")
    /\ UNCHANGED <<rows, cancel, held, lost>>

PollAnswer(w) ==
    /\ pc[w] = "polled"
    /\ Goto(w, IF job[held[w].job] = "cancelled" THEN "cancelling" ELSE "working")
    /\ UNCHANGED <<rows, cancel, held, seen, lost>>

\* JobCancelled, after the sandbox is gone: the run read before is finished
\* without another check, and so are the steps, read now or, as pending and
\* running, with an earlier turn; the job's status, just read, is not written.
SettleCancelled(w) ==
    LET j == held[w].job IN
    /\ pc[w] = "cancelling"
    /\ \/ step' = [step EXCEPT ![j] = Settle(@, "skipped", "skipped")]
       \/ step' = [step EXCEPT ![j] = [s \in Steps |-> "skipped"]]
    /\ run' = [run EXCEPT ![j] = Finished(@, "cancelled")]
    /\ Leave(w, "recovering")
    /\ UNCHANGED <<job, artifacts, checkpoint, cancel, held, lost>>

\* save_checkpoint at the start of a turn and mark_inflight before its tools:
\* the pointer is published under the locked check.  A turn whose snapshot is
\* unavailable, or a Worker with snapshots disabled, does neither.
PublishCheckpoint(w, status) ==
    LET j == held[w].job IN
    /\ pc[w] = "working"
    /\ ~ShareLocked(j)
    /\ CachedLease(w)
    /\ status = "in_flight" => checkpoint[j] # "none"
    /\ checkpoint' = [checkpoint EXCEPT ![j] = status]
    /\ UNCHANGED <<job, run, step, artifacts, cancel, pc, held, seen, lost>>

\* The loop or the fixed entry point returns, and the lease is found current.
WorkDone(w) ==
    /\ pc[w] = "working"
    /\ FreshLease(w)
    /\ seen' = [seen EXCEPT ![w] = TRUE]
    /\ Goto(w, "finishing")
    /\ UNCHANGED <<rows, cancel, held, lost>>

-----------------------------------------------------------------------------
(* execute_sandbox_job: the delivery.                                      *)

\* The job is said to be producing artifacts, without another check.
Produce(w) ==
    LET j == held[w].job IN
    /\ pc[w] = "finishing"
    /\ job' = [job EXCEPT ![j] = "producing_artifacts"]
    /\ step' = [step EXCEPT ![j]["execute"] = "succeeded", ![j]["collect"] = "running"]
    /\ Goto(w, "collecting")
    /\ UNCHANGED <<run, artifacts, checkpoint, cancel, held, seen, lost>>

\* The first file is downloaded; its artifact row is flushed, not committed.
Persist(w) ==
    /\ pc[w] = "collecting"
    /\ Goto(w, "persisting")
    /\ UNCHANGED <<rows, cancel, held, seen, lost>>

\* One commit stores the artifact rows and moves the job to verifying; the
\* lease is checked only after it.
Store(w) ==
    LET j == held[w].job IN
    /\ pc[w] = "persisting"
    /\ artifacts' = [artifacts EXCEPT
            ![j] = @ \cup {[attempt |-> held[w].attempt, verified |-> FALSE]}]
    /\ job' = [job EXCEPT ![j] = "verifying"]
    /\ step' = [step EXCEPT ![j]["collect"] = "succeeded", ![j]["verify"] = "running"]
    /\ Goto(w, "stored")
    /\ UNCHANGED <<run, checkpoint, cancel, held, seen, lost>>

StoredCheck(w) ==
    /\ pc[w] = "stored"
    /\ FreshLease(w)
    /\ seen' = [seen EXCEPT ![w] = TRUE]
    /\ Goto(w, "verifying")
    /\ UNCHANGED <<rows, cancel, held, lost>>

\* Every stored file matches its size and digest, and the locked check passes:
\* the artifacts are verified, the job and its run succeed, the snapshot is
\* dropped.  The UPDATE of an artifact row that is gone fails the commit.
Succeed(w) ==
    LET j == held[w].job
        mine == [attempt |-> held[w].attempt, verified |-> FALSE]
        done == [attempt |-> held[w].attempt, verified |-> TRUE]
    IN
    /\ pc[w] = "verifying"
    /\ ~ShareLocked(j)
    /\ CachedLease(w)
    /\ mine \in artifacts[j]
    /\ artifacts' = [artifacts EXCEPT
            ![j] = (@ \ {mine}) \cup {done}]
    /\ job' = [job EXCEPT ![j] = "succeeded"]
    /\ step' = [step EXCEPT ![j]["verify"] = "succeeded"]
    /\ checkpoint' = [checkpoint EXCEPT ![j] = "none"]
    /\ run' = [run EXCEPT ![j] = Finished(@, "succeeded")]
    /\ Leave(w, "recovering")
    /\ UNCHANGED <<cancel, held, lost>>

-----------------------------------------------------------------------------
(* execute_sandbox_job: the ways an attempt ends early.                    *)

\* A check of the lease fails anywhere in the attempt: JobLeaseLost rolls the
\* session back and the attempt stops without a write.
LeaseLost(w) ==
    /\ \/ pc[w] \in {"working", "stored"} /\ ~FreshLease(w)
       \/ pc[w] \in {"working", "verifying"} /\ ~CachedLease(w)
    /\ Leave(w, "recovering")
    /\ UNCHANGED <<rows, cancel, held, lost>>

\* Any other exception inside the try: the session is rolled back.
Raise(w) ==
    /\ pc[w] \in Sections
    /\ Goto(w, "failing")
    /\ UNCHANGED <<rows, cancel, held, seen, lost>>

\* The exception handlers: after the rollback the locked check reads the run
\* afresh.  An attempt that no longer holds the lease returns.
FailAttempt(w) ==
    LET j == held[w].job IN
    /\ pc[w] = "failing"
    /\ ~ShareLocked(j)
    /\ \/ /\ ~FreshLease(w)
          /\ UNCHANGED rows
       \/ /\ FreshLease(w)
          /\ \E outcome \in {"failed", "blocked"} :
                /\ job' = [job EXCEPT ![j] = outcome]
                /\ step' = [step EXCEPT ![j] = SettleFirst(@, outcome, "skipped")]
          /\ run' = [run EXCEPT ![j] = Finished(@, "failed")]
          /\ UNCHANGED <<artifacts, checkpoint>>
    /\ Leave(w, "recovering")
    /\ UNCHANGED <<cancel, held, lost>>

\* asyncio.wait_for ends the attempt at an await of the agent loop.  A new
\* session writes the failure under the locked check; a pending step stays.
Timeout(w) ==
    LET j == held[w].job IN
    /\ TimeoutEnabled
    /\ pc[w] = "working"
    /\ ~ShareLocked(j)
    /\ IF job[j] \notin Terminal /\ FreshLease(w)
       THEN /\ job' = [job EXCEPT ![j] = "failed"]
            /\ step' = [step EXCEPT ![j] = SettleFirst(@, "failed", "pending")]
            /\ run' = [run EXCEPT ![j] = Finished(@, "failed")]
       ELSE UNCHANGED <<job, step, run>>
    /\ Leave(w, "recovering")
    /\ UNCHANGED <<artifacts, checkpoint, cancel, held, lost>>

-----------------------------------------------------------------------------
\* The steps a Worker takes by itself when it is scheduled.
Loop(w) == Recover(w) \/ ClaimNothing(w) \/ \E j \in Jobs : Claim(w, j)
EndOfWork(w) == WorkDone(w) \/ LeaseLost(w) \/ Raise(w)
Proceed(w) ==
    \/ PollAnswer(w) \/ SettleCancelled(w)
    \/ Produce(w) \/ Persist(w) \/ Store(w) \/ StoredCheck(w) \/ Succeed(w)
    \/ FailAttempt(w)

WorkerStep(w) ==
    \/ WorkerStart(w) \/ WorkerCrash(w) \/ Loop(w) \/ Begin(w)
    \/ Heartbeat(w) \/ HeartbeatError(w) \/ SeenExpires(w)
    \/ Poll(w) \/ \E status \in {"ready", "in_flight"} : PublishCheckpoint(w, status)
    \/ EndOfWork(w) \/ Proceed(w) \/ Timeout(w)

JobStep(j) == Submit(j) \/ CancelRead(j) \/ CancelCommit(j) \/ LeaseExpires(j)

Next == (\E w \in Workers : WorkerStep(w)) \/ (\E j \in Jobs : JobStep(j))

Spec == Init /\ [][Next]_vars

\* A running process takes its next step, its supervisor starts it again, the
\* agent loop of an attempt ends between its polls (its turns or its time are
\* capped), and a lease that nobody renews runs out.
Fairness ==
    /\ \A w \in Workers :
         /\ WF_vars(WorkerStart(w)) /\ WF_vars(Loop(w)) /\ WF_vars(Begin(w))
         /\ SF_vars(EndOfWork(w)) /\ WF_vars(Proceed(w)) /\ WF_vars(SeenExpires(w))
    /\ \A j \in Jobs : WF_vars(LeaseExpires(j))

FairSpec == Spec /\ Fairness
-----------------------------------------------------------------------------
(* Safety.                                                                 *)

\* A job that is queued can be claimed by anyone: no attempt holds its lease,
\* and it has an attempt left (what the recovery scan and _claim_job hand over
\* to each other).
QueuedIsFree == \A j \in Jobs : job[j] = "queued" =>
    run[j].status # "running" /\ run[j].token = 0 /\ ~Exhausted(j)

\* A finished job has a finished run, with no lease left to expire, that tells
\* the same end, whichever of the Worker, the recovery scan and the user wrote
\* last.  The exception: an attempt still settling a cancellation that a stale
\* attempt has meanwhile overwritten marks the run of a later end cancelled.
EndsAgree == \A j \in Jobs :
    /\ job[j] = "succeeded" => run[j].status \in {"succeeded", "cancelled"}
    /\ job[j] \in {"failed", "blocked"} => run[j].status \in {"failed", "cancelled"}
    /\ job[j] = "cancelled" => run[j].status = "cancelled"

\* A job that succeeded delivered: its last attempt's artifacts are stored and
\* verified and its last step is not left open or failed, in every order in
\* which the attempts' commits, the recovery and a cancellation can fall.
\* (The same late settling of a cancellation can mark the step skipped.)
SucceededIsComplete == \A j \in Jobs : job[j] = "succeeded" =>
    /\ [attempt |-> run[j].attempts, verified |-> TRUE] \in artifacts[j]
    /\ step[j]["verify"] \in {"succeeded", "skipped"}

\* Only the attempt that was started last publishes a result or a failure of
\* its own: one whose job was handed to a later attempt never does.
OutcomeOfLastAttempt ==
    [][\A w \in Workers : (Succeed(w) \/ FailAttempt(w) \/ Timeout(w)) =>
          \A j \in Jobs : job'[j] # job[j] =>
              j = held[w].job /\ held[w].attempt = run[j].attempts]_vars

\* No failure, of an attempt, of the time limit, of the claim or of the
\* recovery, replaces a user's cancellation or another end.
FailureNeverReplacesAnEnd ==
    [][\A j \in Jobs : job'[j] \in {"failed", "blocked"} /\ job'[j] # job[j] =>
          job[j] \notin Terminal]_vars

-----------------------------------------------------------------------------
(* The promise to the caller of a job.                                     *)

View(status) ==
    CASE status = "none" -> "absent"
      [] status = "queued" -> "waiting"
      [] status \in ActiveStatus -> "working"
      [] status = "succeeded" -> "delivered"
      [] status = "cancelled" -> "withdrawn"
      [] OTHER -> "refused"

Published(j) == {a \in Attempts : [attempt |-> a, verified |-> TRUE] \in artifacts[j]}

Promise == INSTANCE JobPromise WITH
    Limit <- MaxAttempts,
    view <- [j \in Jobs |-> View(job[j])],
    tries <- [j \in Jobs |-> run[j].attempts],
    results <- [j \in Jobs |-> Published(j)]

\* Every job implements JobPromise: it is tried a bounded number of times, each
\* try delivers at most once and only while it is the last, results are never
\* withdrawn, and no failure replaces an end, for all that Workers crash, lose
\* their leases and commit late.
PromiseKept == Promise!Spec

-----------------------------------------------------------------------------
(* Liveness.                                                               *)

\* Once processes stop crashing, every job submitted ends, whatever became of
\* the Workers that held it.
EveryJobEnds ==
    <>[][\A w \in Workers : ~WorkerCrash(w)]_vars =>
        \A j \in Jobs : job[j] # "none" ~> job[j] \in Terminal

-----------------------------------------------------------------------------
(* What makes the safety invariants inductive.                             *)

\* The lease columns are set exactly while the run is running, to the attempt
\* last started.
LeaseShape == \A j \in Jobs :
    LET r == run[j] IN
    IF r.status = "running" THEN r.token = r.attempts /\ r.attempts > 0
                            ELSE r.token = 0 /\ ~r.live

\* A Worker works under an attempt that was started, and no other Worker does.
AttemptsIssued == \A w \in Workers :
    /\ held[w].attempt <= run[held[w].job].attempts
    /\ pc[w] \in Busy => held[w].attempt > 0

AttemptsDiffer == \A v, w \in Workers :
    v # w /\ pc[v] \in Busy /\ pc[w] \in Busy /\ held[v].job = held[w].job
    => held[v].attempt # held[w].attempt

UnsubmittedIsIdle == \A j \in Jobs : job[j] = "none" =>
    run[j].status = "queued" /\ run[j].attempts = 0 /\ ~cancel[j].pending

\* An attempt that verifies and whose artifact rows are still there is the last
\* one started: the recovery that would hand its job on deletes those rows.
VerifyingIsCurrent == \A w \in Workers :
    LET j == held[w].job IN
    pc[w] = "verifying" /\ [attempt |-> held[w].attempt, verified |-> FALSE] \in artifacts[j]
    => held[w].attempt = run[j].attempts /\ job[j] # "queued"

JobInv ==
    /\ TypeOK
    /\ LeaseShape /\ AttemptsIssued /\ AttemptsDiffer /\ UnsubmittedIsIdle
    /\ VerifyingIsCurrent
    /\ QueuedIsFree /\ EndsAgree /\ SucceededIsComplete

\* What JobPromise needs besides: artifacts come from attempts that were started,
\* an attempt at work has not delivered yet, and one that may still deliver has
\* not been declared failed.
ResultsOnce ==
    /\ \A j \in Jobs : \A a \in artifacts[j] : a.attempt <= run[j].attempts
    /\ \A w \in Workers : pc[w] \in Busy =>
          \A a \in artifacts[held[w].job] : a.verified => a.attempt # held[w].attempt
    /\ \A w \in Workers :
          /\ pc[w] = "verifying"
          /\ [attempt |-> held[w].attempt, verified |-> FALSE] \in artifacts[held[w].job]
          => job[held[w].job] \notin {"failed", "blocked"}

-----------------------------------------------------------------------------
(* What the documentation says and the code does not keep.                 *)

\* docs/development.md: once the lease has expired and the job was claimed
\* again, the fencing token keeps the original attempt from storing anything.
StaleAttemptStoresNothing ==
    [][\A w \in Workers : Store(w) => held[w].attempt = run[held[w].job].attempts]_vars

\* docs/workflow-api.md: cancelled is an end, so a cancelled job stays cancelled.
CancelledStays == [][\A j \in Jobs : job[j] = "cancelled" => job'[j] = "cancelled"]_vars
=============================================================================
