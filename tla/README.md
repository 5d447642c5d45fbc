# SkillGo: specifications, model checking and proofs

SkillGo runs *Skills* (instruction packages and sandboxed workflows) for the users
of an organisation. A FastAPI backend keeps everything in one SQL database; separate
processes execute jobs in Docker sandboxes and build the images they need. This
directory holds TLA+ modules of the parts of that system whose correctness depends
on interleavings, crashes and leases, the TLC configurations that check them on small
instances, and TLAPS proofs of their main properties for every instance.

All paths below are relative to the repository; `app/` is `src/backend/app/`.

## 1. Inventory

### Processes

| process | code | how many | restarted |
|---|---|---|---|
| API | `app/main.py`, `app/routers/` | several workers | yes |
| Sandbox Worker | `app/sandbox_worker.py` (`run_worker`) | several | yes (`compose.yaml`, `restart: unless-stopped`) |
| environment controller | `app/environment_worker.py` (`main`) | several | yes |

They share the database, the object store (`app/storage.py`) and the Docker host, and
never call one another: every interaction goes through a row, an object or a container.

### Components

| component | state it keeps | operations | what makes it correct |
|---|---|---|---|
| **Sandbox jobs** (`sandbox_worker.py`, `routers/jobs.py`) | `workflow_jobs`, `agent_runs` (attempts, lease token, lease expiry), `job_steps`, `artifacts` | submit, claim, heartbeat, execute, collect, verify, succeed, fail, cancel, time limit, recover after a crash | one attempt at a time publishes; an end is never replaced; a success is complete; every job ends |
| **Durable checkpoints** (`durable_checkpoint.py`, `sandbox_checkpoint.py`, `sandbox_agent_loop.py`, `storage_lifecycle.py`) | pointer in `workflow_job_memory.data`, immutable snapshots in the store | save, publish, mark in flight, load, replace, purge, orphan sweep | no tool turn is replayed; the snapshot in use exists; a queued job can be resumed |
| **Prepared environments** (`environment_*.py`) | `prepared_environments` (status, attempt, lease, image, inventory), images and containers | enqueue, claim, build, probe, publish, retry, clean up, revoke, use | an overtaken build changes nothing; a ready row names the image of its last attempt; every preparation ends; nothing is left on the host |
| **Instruction conversations** (`conversation_service.py`, `routers/conversations.py`, `routers/runtime.py`, `execution.py`) | `conversations` (`is_running`, `run_started_at`), `conversation_messages` | create, run, clear, delete | one run at a time; context complete and in order; the lock comes free; nothing is left of a deleted conversation |
| Runtime capability requests (`runtime_capability.py`) | a job's memory, its environment, its sandbox | request, wait, replace the sandbox | files and approvals survive the handover; no environment without approval |
| **Agent turn loop and plan policy** (`sandbox_agent_loop.py`, `agent_policy.py`, `agent_kernel.py`) | `AgentExecutionState`: plan, criteria, loaded and completed Skills, epochs, verification, validation, caches, workflow runs, limits | plan, read, write, run, complete a Skill, verify, validate, finish, upgrade, resume | nothing finishes without its evidence; a change invalidates what depends on it; phases keep their order; no successful command is replayed |
| **Delivery of results** (`operation_delivery.py`, `workflow_delivery.py`, `artifact_*.py`) | declared files, their sources and fingerprints | collect, snapshot, fingerprint, deliver, render | only verified files are returned; an automatic delivery is fresh |
| **Stored files** (`routers/workspace.py`, `storage.py`, `storage_lifecycle.py`) | `workspace_files`, `agent_message_files`, `job_input_files`, objects, retention times | upload, delete alone or with the owner, purge, sweep orphans | a listed file has its object; the limits hold; no object is kept for ever |
| **Workspace chat turns** (`routers/agent.py`, `execution_runtime.py`) | `agent_runs`, `agent_run_events`, `agent_messages` | answer at once, stream, delete, close stale runs, prune details | one end per turn; a reply and its run agree; events numbered without collisions; no run stays at work |
| **Job submission** (`routers/jobs.py`, `workflow_execution.py`) | `workflow_jobs`, `job_events`, `workflow_endpoint_requests` | submit, retry, call an endpoint, execute in the API, cancel, delete | one job per key; a timeline tells the status; a deleted job stays deleted |
| **Skills, versions, review, endpoints** (`routers/skills.py`, `routers/admin.py`, `routers/runtime.py`) | `skills`, `skill_versions`, `endpoints`, package objects | upload, submit, approve, reject, network access, visibility, deploy, delete | numbers differ; packages exist; only what was approved and prepared is open to others |
| **Model catalog** (`routers/runtime.py`, `model_config_service.py`) | `model_connection_configs` with their defaults | seed, create, update, make default, delete, read into a gateway | one able default per capability; no model asked of another's connection |
| **Model calls** (`model_gateway.py`, `model_adapter.py`, `sandbox_agent_loop.py`) | one request and its attempts, in memory | send, stream, retry, fall back to text, deliver, cancel | no attempt sent again once it has brought generation; budgets hold; only whole answers are acted on; a turn ends |
| Sandbox runtime, accounts, schema, pure tools, frontend, deployment | — | — | — |

Components interact through shared rows: a job's claim is refused while its environment is
not ready; the Worker marks an environment failed when its image is missing; recovery of a
job reads the checkpoint pointer; the orphan sweep reads every reference; deleting a
conversation deletes its files; a version passes its review only with a ready environment; the
API executes instruction jobs itself and numbers their events beside the cancel. Within a process, the session's identity map is state of
its own: `database.py` creates sessions with `autoflush=False, expire_on_commit=False`, so
a Worker decides on rows it read minutes ago, and writes back only the columns it changed.

### Hard behaviours

* **Leases.** Jobs, environments and conversations are each protected by a time-limited
  claim. The three protocols differ: jobs and environments have a token (but not every
  write is fenced by it), a conversation has none.
* **Check, then act.** Cancelling, clearing, deleting, failing an environment and reviewing
  read a row in one statement and write it by primary key in another.
* **Stale sessions.** What a Worker assigns to an ORM object is compared with what it read,
  not with what the row says.
* **Crashes** between two commits, or between an object and its row.
* **Retries** of attempts, builds and idempotent calls.

`PROJECT.json` lists each of these hazards at its line, with the properties that cover it.

## 2. The modules

| module | models | instance | proofs |
|---|---|---|---|
| `JobPromise` | what a sandbox job promises its caller (abstract) | through `JobLifecycle` | `JobLifecycleProofs` |
| `JobLifecycle` | a sandbox job from submission to its end; implements `JobPromise` | `MCJobLifecycle` | `JobLifecycleProofs` |
| `DurableCheckpoint` | the snapshots of one job | `MCCheckpoint` | `DurableCheckpointProofs` |
| `EnvironmentPreparation` | prepared environments | `MCEnvironment` | `EnvironmentProofs` |
| `AgentExecution` | the turn loop of one attempt, its evidence and deliveries | `MCAgent` | `AgentAndModelProofs` |
| `ModelCalls` | one turn of the agent asking the model | `MCModelCalls` | `AgentAndModelProofs` |
| `ModelCatalog` | the catalog of models and what a gateway reads of it | `MCModelCatalog` | `ChatAndCatalogProofs` |
| `ConversationPromise` | what a conversation promises to those who use it (abstract) | through `ConversationRuns` | `RunAndJobProofs` |
| `ConversationRuns` | one conversation; implements `ConversationPromise` | `MCConversation` | `RunAndJobProofs` |
| `ChatTurns` | the turns of one chat and the loop that closes old runs | `MCChatTurns` | `ChatAndCatalogProofs` |
| `SubmissionPromise` | what the API promises about jobs to their callers (abstract) | through `JobSubmission` | `RunAndJobProofs` |
| `JobSubmission` | jobs as their requests make, execute, cancel and delete them; implements `SubmissionPromise` | `MCJobSubmission` | `RunAndJobProofs` |
| `StoredFiles` | rows and objects of files, their owners and the sweep | `MCStoredFiles` | `StoredFilesProofs` |
| `SkillRelease` | one skill from its uploads to its release and deletion | `MCSkillRelease` | `SkillReleaseProofs` |

Conventions. One action is one database transaction, or one piece of code between two
points where another process can intervene. A handler that reads in one transaction and
writes in another is two actions, and what it read is a variable. A uuid4 token is
represented by the number of the claim that drew it (0 is NULL): both are fresh with each
claim. Clocks are assumed synchronised, so a lease is "live" or not. A bound of a model
appears in a guard and is a named CONSTANT (`MaxClaims`, `MaxRuns`) unless the code has it
itself (`MaxAttempts`, `MaxTurns`, `MaxTransientRetries`). A definition whose comment starts
with *Fault* is how the definition after it could be wrong; no action uses it, and putting
it in the place of the right one breaks the property it is listed with in `PROJECT.json`.
`JobSubmission`, `ModelCatalog` and `ModelCalls` name their specification after themselves
(`SubmissionSpec`, `CatalogNext`, `callsVars`), since each shares its module of proofs with another
component and `EXTENDS` brings both into one name space.

### JobLifecycle

`job`, `run`, `step`, `artifacts`, `checkpoint` are the rows; `pc`, `held`, `seen`, `lost`
are a Worker's place in `execute_sandbox_job`, its `JobLease`, the lease expiry its session
has cached and the event its heartbeat sets; `cancel` is what `_cancel_job` has read and not
yet written. The actions follow `run_worker`: `WorkerStart`, `Recover`
(`recover_interrupted_sandbox_jobs`), `Claim`/`ClaimNothing`, `Begin`, `WorkDone`, `Produce`,
`Persist`, `Store`, `StoredCheck`, `Succeed`, and the handlers `LeaseLost`, `Raise`, `FailAttempt`,
`SettleCancelled`, `Timeout`; `Heartbeat`, `HeartbeatError`, `SeenExpires` are the heartbeat
thread; `CancelRead`/`CancelCommit` are the two transactions of the cancel.

Details that matter and are kept: the locked assertion before success compares the *cached*
run; `Produce` and `Store` commit the job's status without asking the row; a crash keeps the
database and loses the rest; the foreign key of an uncommitted artifact locks the job's row
against others (`ShareLocked`). Left out: the agent's turns (one step), jobs waiting for an
environment, `WAITING_USER` (no code sets it), deleting a job, and a job whose user is missing
(`app/sandbox_worker.py:425`): a user is deleted together with his jobs, and not while one of them is at
work (`app/routers/admin.py:285`). The wall-clock limit strikes
only where asyncio can deliver it, so not during the synchronous delivery.

### JobPromise

What a caller who polls may rely on: `view` is the status as far as it tells him anything
(absent, waiting, working, delivered, refused, withdrawn), `tries` the attempts started,
`results` the attempts whose files have been verified (the download itself asks only whether a file is the job's). `Promise!Spec` in `JobLifecycle` is its
instance under the refinement mapping `View`, `run[j].attempts` and `Published`, the attempts of the
stored artifacts. The promise has two exceptions the code makes: `Withdraw` may follow another end
(the cancel reads without a lock), and `Relapse` shows a job at work again (the unconditional
commits of `Produce` and `Store`). What remains is worth stating: results are those of the last
try, one set for each; a job is retried only as often as it may be; a failure replaces nothing.

### DurableCheckpoint

`ref` is the pointer in the memory row, `objects` the stored snapshots, `worker.mine` the copy
of the pointer in the session, `worker.old` the one being replaced. `executed` and
`overwritten` are history variables: the tool turns that have been started, and whether a
Worker without the lease has written the memory as a whole and changed the pointer by it.
Actions: `Begin`/`Prepare` (load and restore), `Save`, `SaveUnavailable`, `SkipSave`, `Publish`,
`DeleteOld`, `Mark`, `CheckCall`, `Dispatch`, `EndTurn`, `Recover`, `SweepOrphan`, `Purge` and the
lease's. The lease is that of `JobLifecycle`, reduced to the last attempt and whether it is
live. Left out: the contents of snapshots, cancelling, collecting results. The grace period of
the orphan sweep is taken to be longer than the time between saving and publishing.

### EnvironmentPreparation

`env` is the row; `ctl` each controller in `process_one`; `containers` and `images` what is on
the Docker host; `use` a Worker between reading a ready row and asking for its image. Actions:
`Enqueue`, `Requeue`, `Retry`, `Revoke` (API), `Claim`, `CreateContainer`, `Probe`, `Publish`,
`BuildFails`, `RetryBuild`, `Crash`, `SweepRead`/`SweepRemove` (controller), `UseRead`,
`UseFound`, `UseMissing` (Worker), `ImageLost`, `LeaseExpires`, `Cools` (the world). Left out:
resolving requirements and the contents of a specification, specifications without wheels,
combined specifications.

### AgentExecution

What `JobLifecycle` takes as one step: the loop of `run_sandbox_agent_loop` and the
`AgentExecutionState` of `agent_policy.py`. `files` is the workspace, a file being its contents
(0: there is none); `evidence` holds `mutation_epoch`, the last `verification`, the `validation`
taken from it, `verifier_anchor_mutation_epoch` and `managed_artifacts`; `requirements` are the
recorded success criteria; `loaded`, `completed`, `executed` are the Skills read, completed, and
those whose fixed entry point has run; `cache` is what the next `read_file` would be answered with
from either of the two caches; `flow` is the entry of `workflow_runs`; `delivery` an automatic
delivery under way. `demanded`, `proofs` and `stages` are history: every criterion ever recorded,
what a verifier has really passed, and how often each workflow command has succeeded.

One action is one tool call, and a call that is refused is no action. Where a handler awaits the
sandbox between two readings of the workspace, it is split, and `BackgroundWrite` (a process that a
command left running) may come between: `FinishCollect`/`FinishJudge`, `BeginGroup`/operations/
`ReceiveGroup`/`CopyDelivery`/`AcceptDelivery`, `StartFlow`/`FlowCommand`. `Verify` is one action, in
which the program under test itself may write (`Touched`), since only its own three readings are
compared. `Collected` is the copying of originals into the output directory, `Registered` is
`register_artifact_collection`. A new verification report has the epoch it was made in; a failed one
blocks another try until something has changed (`Blocked`). `Upgrade` replaces the sandbox;
`Resume` is a new Worker with the restored snapshot, empty caches and the policy now in force.

Tasks are those created now, whose plan is an outline (`plan_status_tracking` is off): a plan is
there or not, and its text is a number. Left out: step statuses of plans from earlier versions,
warnings and hints to the model, loop detection (`Abort` covers its end), the reference shelf,
visual inspection, retries of one model call, workflows of other Skills than the first, and what a
file format check accepts.

### ConversationRuns

`conv` is the row, `messages` the runs whose exchange is on record, `context` what each run was
given, `req` each handler. Actions: `Claim`, `ReadContext`, `CallEnds`, `Record`, `Release`,
`Abandon` (the process ends), `Check` then `Clear` or `Delete`, `LockGoesStale`. Nothing bounds a model
call by `conversation_lock_seconds`: `compose.yaml` sets no limit of a call, and the code's defaults allow
more than the lock lasts. So `LockGoesStale` may happen to a run at work, another run may take the claim over,
and a late release, which names no claim, may free the lock of a third. `disturbed` is history: the runs that
were at work when the lock went stale, and those that began beside one of them. It appears in no guard.
The history a run carries is taken to reach back to the first message.

### ConversationPromise

The same conversation as its users see it: whether it `exists`, the runs on `record`, and what each of them was
`given`. A run is the single step `Exchange`: it comes behind everything on record and was given exactly
that, except that it may know runs a clearing has removed while it was at work (`AtOnce`). A run that was
`disturbed` before it came on record may do so in pieces (`InPieces`): it may lack what others of the disturbed
recorded and come before one that began later, and still nothing else. `Disturb` befalls only runs that are
not on record yet. `Clear` and `Delete` are one step; nothing is added to a deleted conversation. `Exchanges` in
`ConversationRuns` maps `conv.exists`, `messages`, `disturbed` and, of the runs on record, `context` to it; the
lock and the handlers are not seen.

### ChatTurns

`turn` is each handler of `send_agent_message` or `stream_agent_message` (its phase and the event number
it has read), `run` and `events` the rows that `create_conversation_run`, `complete_run` and `fail_run`
write, `exists` the conversation. `Begin`/`Open` are the commit of the question and the start of the run, `Answered`
the model's answer (one step), `Reply` the commit of reply, link and end, `Fail` the failing one,
`Abort` a handler that is cancelled or whose process ends; `Pick`, `Count`, `Close`, `CloseFails` are
`fail_stale_conversation_runs`, `Prune` is `cleanup_execution_history`, `Restart` the API's process.
Left out: what attachments say, titles, a conversation's listing.

### JobSubmission

`job` holds a job and its run, `events` its timeline, `binding` the idempotency records; `request`,
`executor`, `canceller` and `deleting` are what the handlers have read. `Begin`, `Submit`, `Resubmit`,
`Refuse` are `create_workflow_job` and `retry_workflow_job`, `Call`, `CallCommits`, `CallReplays` the endpoint's;
`Enter`…`End` are `execute_instruction_job`, which the API runs after its answer, `Collide` its commit that
meets the unique number of another event; `Cancel`…`CancelFails` and `BeginDelete`…`DeleteFails` the other
handlers. Any number of requests may cancel a job at the same time (`Cancellers`; `Aims` bounds which). A number is read
(`StartNumber`, `CancelNumber`) before it is committed. Of what one commit adds to a timeline,
which may be several events, the model has one, under one number; timelines have no bound. Sandbox jobs are queued here and left to
`JobLifecycle`.

### SubmissionPromise

The same jobs as their callers see them: the `status`, the set of statuses the timeline has `told`, the job
`bound` to each key and the `reply` to each request. Making a job, answering a repeated key, starting,
concluding, cancelling and deleting are one step each, with the guard a caller would expect: `Accept` makes one
job for a key, `Start` and `Conclude` happen once, nothing happens to a job that is not there. What the code
does not promise shows in the guards as well: a job that is started or concluded may just have been cancelled,
and a cancel may follow a result. `Promise` in `JobSubmission` maps `job`, `events`, `binding` and
`request` to it; the readings between the steps (`executor`, `canceller`, `deleting`, an open request) are not seen.

### StoredFiles

`row` and `object` of every file that is ever stored, the three kinds of `owner`, the `request` that
stores each file, one `deletion` and one `sweep` at a time. `Check`, `Put`, `Commit`, `Fail` are
an upload; `CommitUnanswered` is `_store_file`, which removes the object when the *answer* to its commit
is lost; `DeleteFile`, `ListFiles`, `DeleteRows`, `Unlink`, `EndDeletion` the deletions; `Purge`,
`Remove`, `ReadReferences`, `ListObjects` are `cleanup_expired_storage`. Removals may fail for any
objects. The grace period for orphans is taken to be longer than a transaction stays open. Left out:
renaming, the bytes, previews, the limit on bytes (checked like the number of files).

### SkillRelease

`version` holds the rows, `upload` each upload between picking a number and its commit, `store` the
packages, `request` what a handler has read (`fresh`: nobody has changed it since), `deletion`
`delete_skill`. A handler is `Read`, for two of them `CheckEnvironment`, and its commit (`Submit`,
`Approve`, `Reject`, `SetNetwork`, `MakePublic`, `Deploy`); a commit writes only the columns that differ from
the reading (`Written`). The environments move as in `EnvironmentPreparation`, abstracted to their status.
`told` and `prepared` are history. A skill is private or PUBLIC from its creation, as its creator asks
(`create_skill` stores what it is given, and there are no versions yet): others may run none of it before a
version is published (`Runnable`). Left out: descriptions,
favourites, update of a version's flow, rotating or disabling an endpoint, review notes; packages without a
row are swept as in `StoredFiles`.

### ModelCatalog

`rows` is the table; `request` is an administrator's session with the rows it has read; `gateway` what
`get_model_gateway` has read in its two queries. `Create`, `Update`, `SetDefault`, `Remove` and `Seed`
commit what the session has changed, and `_normalize_all_defaults` is part of each (`Normalised`).
`raced` is history: the capabilities whose flags an overlapping request has left unrepaired. The instance
has one capability besides those that follow it; renaming is left out; the row of the older
`ModelProviderConfig` is one of the `Seeds`.

### ModelCalls

`post` is `post_json` at the request under way: its attempt, the time since its start, the silence, the pieces
received (`NoPost`: none is). `turn` is what `_run_agent_loop` makes of it: native tools first, then text when
tools are refused or a batch cannot be used, each repeated once (`Request`, `Deliver`). The service is the
environment: it may answer, stream piece by piece, send lines without generation, be busy, break off, refuse
or stall; `TryNext` is the next attempt. Time advances by `Tick`; a timer that is due fires before time goes on.
`MaxAttempts` and `MaxCalls` are the code's own. An answer is a sequence of pieces: a usable tool call, one that
must stand alone, an unusable one, text with or without a JSON object; the calls of an answer stay at their
places. `spent`, `sent` and `refusals` are history: whether the request has brought generation, how
often the turn was sent to the service, how often tools were refused. Left out: `chat` and `chat_stream` (they are not
retried), attachment services, the wire format, token usage.

## 3. The runs

| run | instance | distinct states | shows |
|---|---|---|---|
| `job_lifecycle` | 1 job, 2 Workers, 2 attempts, time limit | 467 908 | safety, action properties, `EveryJobEnds` |
| `checkpoint` | 2 Workers, 2 turns, 3 attempts, failing snapshots | 315 940 (with symmetry) | the five invariants |
| `environment` | 1 environment, 2 controllers, 1 user, 2 claims, 1 retry | 153 525 | fencing, images, `PreparationEnds`, `OrphansReclaimed` |
| `agent_evidence` | 2 deliverables, one collected from an export; 2 contents, 2 lists of criteria, a task that needs a plan, 5 operations, 1 background write, verifier on | 752 637 | what a finished job returns was verified; changed files are read again |
| `agent_delivery` | 1 deliverable, 3 contents, a workflow of 2 commands, 1 Skill or 2 in order with a fixed entry point, 7 operations, delivery only | 2 407 242 | order of phases, automatic deliveries, retried workflows |
| `model_calls` | 5 sets of budgets × native tools × tool support, 7 answers, 3 attempts | 192 456 | nothing replayed, budgets, at most 12 sends, whole answers, every bounded or cancelled turn ends |
| `model_catalog` | 3 models, 2 requests, 1 seed | 179 714 (with symmetry) | one able default, connections that belong together |
| `conversation` | 3 requests, 3 claims | 64 777 | exclusion, order and deletion with calls that outlive the lock, `LockComesFree` |
| `chat_turns` | 2 turns, each sent or streamed | 14 066 | replies and ends agree, final ends, `RunsEnd` |
| `job_submission` | 2 requests that make jobs, 2 that cancel one of them, 1 key | 115 747 | one job per key, timelines, the promise to callers, `JobsEnd` |
| `stored_files` | 2 workspace files with room for one, 1 file of a task | 178 996 | objects of kept files, the limit, `OrphansGo`, `ExpiredGo` |
| `skill_release` | 2 versions (1 for the sandbox), 2 requests, 1 environment, 2 numbers | 2 616 533 (with symmetry) | consistency of the release, order of the review |

Every run takes at most four minutes. The safety parts of `JobLifecycle` and `EnvironmentPreparation` were also checked with three
attempts (1 036 446 states with symmetry) and three claims (837 576), which shows nothing new.

Why these bounds are enough. Every race of the lease protocols is between the holder of a
claim and one successor: two Workers and two attempts have all of them (snapshots need a third
attempt, to see what the second has left behind), and the jobs, environments and conversations
of the code share no state within their protocols, so one of each is enough (a claim takes
*some* queued row; which one is not observable). The safety properties of every module are
proved for every bound. In the turn
loop, five operations hold the longest chain that matters to the evidence (plan, plan again, write,
verify, finish, with a background write anywhere) and seven the shortest job of two Skills with a fixed
entry point; two deliverables tell one that is declared from one that is not, and three contents a
delivery that is fresh from one that is merely there. Each of its runs keeps one delivery policy: that
a resume may change it is checked for all cases by the proof only. Two turns of the agent give a
snapshot that replaces another.

In the chat, a handler meets another handler only in the deletion and the loop, so two turns of one
conversation have every overlap; one is enough for the numbers, whose third taker does not exist: the
handler and the loop are the only ones that append to a run. A job is appended to by its executor
and by cancels, of which two may overlap, and the second of the two jobs is a retry of the first or its rival
for the one key; both cancels aim at one of the two (`Aims`), whichever part it plays, since cancels of different jobs
share nothing. Safety was also checked with cancels of both jobs (991 641 states with symmetry). In a conversation
three runs are at work beside each other: one that outlived the lock, the one that took it over, and one that
came when the first had released the second one's claim. Two
uploads overrun a limit of one file as they would one of a hundred; a third file would only wait. The
sweep is one loop of one process; a deletion overlaps it. Two versions of a skill share one environment
and two numbers: a collision of numbers needs two uploads, one of decisions two requests, and both are
there. In the catalog, three models are a default, its rival and one that comes or goes; two requests
overlap. A call makes up to three attempts with any number of lines; answers have at most two pieces,
since a batch is judged by what it holds and no property counts further; the budgets are small but
appear in every proportion (deadline alone, either of the others shorter, all, none).

Symmetry is used in runs without liveness only: Workers in `checkpoint`, requests in `model_catalog`,
requests and numbers in `skill_release`. `CHECK_DEADLOCK FALSE` is set where the modelled item really
ends: a finished job, a deleted conversation, uploads and turns that are all over.

### Properties

* `JobLifecycle`: `JobInv` (with `QueuedIsFree`: a queued job has no lease and no open step of an earlier
  attempt), `EndsAgree` (job and run end together), `SucceededIsComplete` (all steps done, only
  verified artifacts, of one attempt), `OutcomeOfLastAttempt` (only the last attempt publishes a
  success), `FailureNeverReplacesAnEnd`, `PromiseKept` (every step is one of `JobPromise` or a stutter);
  liveness `EveryJobEnds`.
* `DurableCheckpoint`: `NeverReplayed` (no turn started under a snapshot is started by a later
  attempt), `SnapshotKept`, `QueuedIsResumable`, for as long as no late write has changed the pointer;
  all from `CheckpointInv`.
* `EnvironmentPreparation`: `EnvironmentInv` (with `ReadyIsLatest`: a ready row has the image of its last
  attempt), `BuildersAreFenced` (an overtaken controller changes no row), `ReadyImageKept`; liveness
  `PreparationEnds`, `OrphansReclaimed`, both once controllers stop crashing.
* `AgentExecution`: `AgentInv` (with `EvidenceInv`: a passed report on record is the latest verifier's, about
  the present criteria and epoch, and the validation is taken from it), `FinishedIsVerified` (a finished job
  returns exactly the bytes one verifier run has passed, asked about every criterion ever recorded),
  `PhasesInOrder`, `FreshDelivery` (what is delivered without a call of `finish` was made by these
  operations and not written since), `NoStageReplayed`, `ChangesAreReadAgain` (a step that raises the
  epoch leaves no old reading of a file it changed).
* `ConversationRuns`: `ConversationInv` (with `RunsAlone`: two runs are beside each other only if both are
  disturbed; `ExchangesInOrder`: a later run lacks an earlier one's exchange only if both are;
  `DeletedStaysEmpty`), `ConversationPromised` (every step is one of `ConversationPromise` or a stutter);
  liveness `LockComesFree`.
* `ChatTurns`: `TurnsInv` (a succeeded run has its question and its reply, a reply belongs to a run that
  succeeded or was closed as stale meanwhile; numbers differ; a deleted conversation leaves nothing),
  `EndIsFinal` (only a turn longer than the limit is ended twice); liveness `RunsEnd`.
* `JobSubmission`: `SubmissionInv` (one job per key and one key's answer for all its callers; numbers differ;
  the last event tells the status and the whole timeline how far each writer has come; job and run agree),
  `SubmissionPromised` (every step is one of `SubmissionPromise` or a stutter: one start, one result, and no
  late writer brings a deleted job back); liveness `JobsEnd`, for jobs whose executor's process lives.
* `StoredFiles`: `FilesInv` (a kept file has its object, except where `_store_file` gave up on the answer
  to its commit; the limit holds unless two uploads overlapped; no row outlives its owner; nothing is
  removed that a row will refer to); liveness `OrphansGo`, `ExpiredGo`.
* `SkillRelease`: `ReleaseInv` (numbers differ; every version has its package until the deletion is committed; what others
  may run was published, what was published was prepared after its submission; the network access
  is what the last audit event says), `ReviewInOrder` (versions move as the review says, and a skill is made
  PUBLIC only with a published version). Both except those that overlapping
  decisions bring about, which the code does not prevent.
* `ModelCatalog`: `CatalogInv` (every capability some enabled model has has exactly one default among
  those, as far as no overlapping request left it unrepaired; every model a gateway lists has its
  connection), `DefaultsOutliveOthers` (another model's coming or going moves no default).
* `ModelCalls`: `CallsInv` (no attempt after the first piece of generation; an attempt and a request end
  within their budgets; a turn is sent at most twelve times; only whole answers of usable calls are acted on;
  tools are refused once);
  liveness `CallsEnd`.

### Fairness

Weak fairness of a Worker's or controller's own steps: the supervisor restarts processes and the
scheduler runs them. Weak fairness of leases expiring: time passes. Strong fairness only where an
action is enabled again and again but not continuously: the end of the work section
(`EndOfWork`), which the heartbeat and the polling interrupt, and a controller's polling and
reading for its sweep, which alternate. No fairness of crashes, cancels, heartbeat errors,
lost images or of any caller: a user may never act. In the API: weak fairness of an executor's own steps
(`JobSubmission`; it ends with its process, which is `Restart`; that the model's answer or failure comes is taken
from `post_json`, which ends every call where a deadline or both other budgets are set, as the code's defaults
and `compose.yaml` do), strong fairness of the rounds of the two
cleanup loops (`ChatTurns`, `StoredFiles`), whose process may end in a round but not in every one and
whose removals fail now and then but not always, and time passing. A chat's handler is owed nothing: it
is the loop that ends its run. In `ModelCalls`, time, timers and the agent loop are weakly fair and the
service owes nothing at all; a request ends because its deadline is set, or both other budgets are, and
a cancelled one even without. Answers are finite there: a service that generates for ever, with pauses below the
budgets and no deadline, is outside the model. `EveryJobEnds`, `PreparationEnds` and
`OrphansReclaimed` are about behaviours in which processes crash finitely often: a process that
crashes for ever does nothing else. `LockComesFree` needs no such condition.

## 4. The proofs

Each `*Proofs` module proves `Spec => []Inv` for every value of the constants that meets the
module's named assumptions, from an inductive invariant that TLC checks first (it is an invariant of
the run). Three of them are about two components each; their theorems are independent of each other:

* `JobInv` = `TypeOK` with `LeaseShape` (which columns go with a running row), `AttemptsIssued` and
  `AttemptsDiffer` (no two Workers hold the same attempt), `UnsubmittedIsIdle`,
  `VerifyingIsCurrent` (a Worker past its locked assertion holds the last attempt), and the safety
  invariants. The properties alone are not inductive: without `AttemptsDiffer` a Worker's lease check
  says nothing about the others. Theorems `JobInvariant`, `TypeCorrect`, `RowsAgree`,
  `LastAttemptPublishes`, `EndsSurviveFailures`, and `PromiseImplemented`: `Spec => Promise!Spec`. Its initial
  states map to initial states, and under `JobInv` each action maps to the step of `JobPromise` its name
  suggests or to a stutter; `AttemptsDiffer` and `VerifyingIsCurrent` are what makes the step that
  publishes one of the *last* try.
* `EnvironmentInv` adds `BuildingIsLatest`, `AttemptsClaimed`, `AttemptsDiffer`, `ReadyIsLatest`,
  `ReadyIsFinished` (nobody is still at work on the attempt of a ready row, hence nobody will
  discard its image). Theorems `EnvironmentInvariant`, `OvertakenNeverPublishes`,
  `ControllersAreFenced`, `ReadyImagesSurvive`.
* `CheckpointInv` adds that the session's copy is the pointer (`MineIsRef`), that pointers advance,
  that the object of every pointer in use exists (`ObjectsKept`) and that every tool turn started so
  far lies behind the pointer or under a mark (`TurnsAhead`, `RefIsAhead`). Theorems
  `CheckpointInvariant`, `CheckpointTypeCorrect`, `ToolsNeverReplayed`, `SnapshotSurvives`,
  `RecoveryIsSafe`.
* `ConversationInv` adds `HolderIsLast` (an undisturbed run at work has the last claim, the lock is fresh,
  everything on record came before it and is what the run was given, unless it was cleared since),
  `LackedIsDisturbed` (the same for any run at work: of what is on record it lacks, or finds before it, only
  what other disturbed runs have recorded) and `RunsNumbered`. Theorems `ConversationInvariant`,
  `OneRunAtATime`, `ContextIsComplete`, `DeletedIsEmpty`, and `ConversationImplementsPromise`:
  `Spec => Exchanges!Spec`, with no assumption on how long a call may take. `Record` maps to `Exchange`, at once
  by `HolderIsLast` or in pieces by `LackedIsDisturbed`; `Clear` and `Delete` map to their namesakes as long as
  the conversation is there, `Claim` and `LockGoesStale` to `Disturb`, every other action to a stutter
  (`ReadContext`, because the run that reads is not on record yet).

* `AgentExecution`: the evidence is an invariant of its own (`EvidenceInv`, with `TypeInv` = the types and
  what bounds the counters); every action either keeps both reports with their epoch, leaves none
  (`EvidenceFrame`), or is the verifier's. `FinishedIsVerified` follows at the one step that ends the
  job (`Finishing`: nothing moves afterwards), `NoStageReplayed` from `StageInv` (a command behind the place
  the workflow stands at has not succeeded), `PhasesInOrder` from `PhaseInv` (the sets are intervals),
  `FreshDelivery` from `DeliveryInv`. Theorems `TypeCorrect`, `EvidenceInvariant`, `VerifiedDelivery`,
  `StagesRunOnce`, `PhasesKeepOrder`, `DeliveryIsFresh`, `ReadingsGoOutOfUse`, `AgentInvariant`.
* `TurnsInv` holds because whoever reads a number while the run is at work reads 2 (`NumbersRead`: a run
  at work has its first event only), so that of the handler and the loop the second to commit meets the
  unique number, unless it read after the other's end, which only an old run allows (`ServedIsOpen`,
  `PickedAreOld`). `HandlersRead` says that the number has been read at all. Theorems
  `TurnsInvariant`, `EndsAreFinal`.
* `ReleaseInv` adds `UploadsReserve` (a flushed upload has its number to itself), `GoneIsEmpty`,
  `StatusTells` (a version that was submitted and has a ready environment has been prepared) and `ReadingsHold`: what a request has read is still so as long as it is `fresh`. That is
  what a session without locks may rely on, and the reason the properties except overlapping decisions.
  Theorems `ReleaseInvariant`, `MovesInOrder`.
* `FilesInv` adds `RoomIsKept` (an upload that is alone keeps the room it has found), `StoredIsYoung` (an
  object without a committed row is too young for the sweep) and `RemovalsAreSafe` (what a deletion or the
  sweep holds for removal has no kept row and will get none: its request is over, so the row cannot come
  back). Theorem `FilesInvariant`; its cardinalities use the library's facts about finite sets.

The proofs have one step per action; lemmas state what an action's helper does to each field, so
that a step that leaves a conjunct's variables alone is one citation.

* `SubmissionInv` adds `NumbersFollow` (numbers have no gaps and a last one, and a number that somebody
  has read follows one that is still there, whoever has appended since), `RequestsFirst` (nobody works on a job
  before its request is answered; the answer to a call was made by a call with its key) and `TimelinesTell`
  (which statuses a timeline must have told where the executor, the cancellers and a deletion stand). The proof
  splits it into what concerns one job (`Timeline`, `Stage`, `Numbering`, `Tells`), which a step of another leaves
  alone (`OtherJobs`), and the keys (`KeysInv`). Both appends rest on one lemma: a number that follows the
  timeline and is not taken is the largest (`AppendIsLast`). Theorems `SubmissionInvHolds`, `DeletedStaysHolds`,
  and `SubmissionImplementsPromise`: `SubmissionSpec => Promise!Spec`, one lemma for each action of the promise
  (`AcceptPromised` … `RemovePromised`), all other actions being stutters. The refinement is
  what asks for `TimelinesTell`: a job's status does not say what its timeline has told before.
* `CatalogInv` adds `ReadingsHold` (what a session that nobody overlapped has read is the catalog of now; the rest
  of what it has read is there unless it counts as lost) and `GatewayIsCurrent` (between its two queries a gateway
  that nobody overlapped knows the able models of now). The proof is about the helpers: `Chosen`,
  `WithDefaults` and `Normalised` leave one able default of every capability whatever they are given.
  Theorems `CatalogInvHolds`, `DefaultsOutliveOthersHolds`.
* `CallsInv` adds `PostsMatchTurns` (a request is under way as long as the turn asks; only a stream has brought
  generation) and, in `TurnIsBounded`, how much a turn may have been sent at each of its four requests
  (`Behind`). The bound of twelve is met exactly. Theorem `CallsInvHolds`.

`CatalogTypesHold`, `CallsTypesHold`, `SubmissionTypesHold` and their likes state the type invariants by themselves.

Only model-checked: liveness (`EveryJobEnds`, `PreparationEnds`, `OrphansReclaimed`, `LockComesFree`, `RunsEnd`,
`JobsEnd`, `OrphansGo`, `ExpiredGo`, `CallsEnd`), which needs ENABLED and fairness and is beyond the
prover. Every other property of a run is stated by a theorem.

## 5. Where code and documentation disagree

Each module below ends with a formula that states the documentation's words and that no
configuration lists. TLC refutes it when it is added to the module's configuration, as an INVARIANT or,
if it is a formula with `[][...]_vars` or `~>`, a PROPERTY.

| module | formula | documentation | code |
|---|---|---|---|
| `JobLifecycle` | `StaleAttemptStoresNothing` | a token keeps an expired attempt from storing anything (`docs/development.md:127`) | artifact rows are committed one line before the lease is asserted (`app/sandbox_worker.py:776`) |
| `JobLifecycle` | `CancelledStays` | a cancelled job stays cancelled (`docs/workflow-api.md:89`) | a Worker that has just asserted its lease overwrites the cancel (`app/sandbox_worker.py:743`) |
| `DurableCheckpoint` | `ReadyIsAhead` | a tool in flight is never replayed (`app/durable_checkpoint.py:3`) | after a skipped snapshot the resumed pointer still says ready (`app/sandbox_agent_loop.py:733`) |
| `EnvironmentPreparation` | `RevokedStays` | a revoked environment is disabled (`app/routers/admin.py:429`) | a Worker that finds no image marks it failed, which its owner may retry (`app/sandbox_worker.py:512`) |
| `AgentExecution` | `CacheIsCurrent` | a prior observation is reused because the workspace has not changed (`app/agent_policy.py:966`) | `update_plan` rewrites the plan's file without counting it as a change; a reading from before is repeated (`app/sandbox_agent_loop.py:959`) |
| `ConversationRuns` | `ContextInOrder` | the lock keeps the context in order (`docs/phase2-status.md:17`) | a claim can be taken over while its run is at work (`app/conversation_service.py:94`) |
| `StoredFiles` | `FilesExpire` | uploads and results are kept for the retention period (`docs/execution-and-isolation.md:139`) | a job blocked on submission has no `finished_at`, and its inputs are never selected (`app/storage_lifecycle.py:134`) |

Six more formulas that TLC refutes on the same instances:

* `[][\A j \in Jobs : job[j] \in Terminal => ~CancelCommit(j)]_vars`: cancelling a finished job
  does not always answer 409 (`docs/workflow-api.md:93`); the status is read without a lock.
* `\A e, f \in executed : e.durable /\ e.attempt < f.attempt => e.turn < f.turn`: without the
  proviso `~overwritten` a tool turn under a mark is replayed, since `job.memory.data` is written as
  one value by an attempt that has lost its lease (`app/sandbox_worker.py:635`).
* `[][\A w \in Workers : SaveUnavailable(w) /\ ref.status # "none" => ref'.status = "ready"]_vars`:
  "the previous snapshot (if any) stays valid" (`app/sandbox_agent_loop.py:732`), but it is marked.
* `\A d \in Environments : env[d].status = "failed" /\ env[d].error = "expired" => Requeueable(env[d])`:
  a retry keeps the inventory of an earlier failure, so an expired lease may count as permanent
  (`app/routers/skills.py:519`).
* `\A d \in Environments : env[d].status = "failed" /\ env[d].error = "missing" => Requeueable(env[d]) \/ d \notin PythonSpecs`:
  an environment with Python requirements whose image is lost cannot be prepared again
  (`docs/environment-preparation-phase2.md:23`, `app/routers/skills.py:514`); needs an instance whose
  environment is in `PythonSpecs`.
* `conv.exists /\ ~conv.fresh /\ (\A r \in Requests : req[r].phase = "idle") => Changeable`: a
  conversation whose process has died can be claimed but not cleared or deleted
  (`app/routers/conversations.py:142`).

## 6. Plan

Done: jobs, checkpoints, environments, conversations, the turn loop, chat turns, submission, files,
releases, the catalog and its calls; `JobPromise`, `SubmissionPromise` and `ConversationPromise` with their refinements;
theorems for every safety property the runs check. What would come next, in this order:

1. `SandboxHandover`: `request_capability` and `replace_sandbox`, composed with
   `EnvironmentPreparation` (a job waits for an environment while its lease is renewed).
2. `AgentExecution` composed with `DurableCheckpoint` (what a resumed attempt knows is what the snapshot
   held) and extended by the step statuses of plans from earlier versions (`invalidate_changed_steps`,
   `ensure_active_step`).
3. `JobSubmission` composed with `JobLifecycle`: the timeline of a sandbox job, to which the Worker and
   the cancel append as the executor does here.

## 7. What is not modelled

Parsing and analysing packages, resolving requirements, document and image formats, prompts,
schemas, cryptography and presentation are data without concurrent state; the Docker client is one
step of the processes that call it. Of the model gateway, `chat`, `chat_stream` and the attachment
services send one request without falling back, and token usage is only added up. Accounts, sessions and
the audit log are single rows written by one request. The capability requests of a running job are
planned (section 6). Deployment scripts, examples, samples
and the proof of concept are not part of the running system.
