---------------------------- MODULE JobSubmission ----------------------------
(***************************************************************************)
(* Jobs from the API's side: how they come into being (a task in the       *)
(* workspace, a call of an endpoint with an idempotency key, a retry), how *)
(* the API itself executes those that need no sandbox, and how they are    *)
(* cancelled and deleted.                                                  *)
(*                                                                         *)
(* No handler but the Worker's locks the job.  What keeps two of them from *)
(* ending one job at the same time is the timeline: each appends an event  *)
(* under the number after the last one it has read, and numbers are        *)
(* unique.  Jobs that wait for a Worker are followed in JobLifecycle.      *)
(***************************************************************************)
EXTENDS Naturals

CONSTANTS
    Jobs,        \* the jobs that are ever made, each by one request
    Keys,        \* idempotency keys, as one endpoint sees them
    Cancellers,  \* requests that cancel, each one job at a time
    Aims,        \* bound of the model: the jobs each of them may cancel
    NoKey, NoJob

ASSUME SubmissionAssumption == NoKey \notin Keys /\ NoJob \notin Jobs

VARIABLES
    job,        \* workflow_jobs and the status of the job's agent_runs row
    events,     \* job_events of each job
    binding,    \* workflow_endpoint_requests: the job of each key
    request,    \* the request that makes each job, and the job it was answered with
    executor,   \* execute_instruction_job_background of each job
    canceller,  \* the requests that cancel each job
    deleting,   \* the jobs a request has found finished, to delete them
    lost        \* history: jobs whose executor ended with its process

submissionVars == <<job, events, binding, request, executor, canceller, deleting, lost>>

Status == {"none", "PREPARING", "QUEUED", "RUNNING", "SUCCEEDED", "FAILED", "BLOCKED", "CANCELLED"}
Terminal == {"SUCCEEDED", "FAILED", "BLOCKED", "CANCELLED"}
Retryable == {"FAILED", "BLOCKED", "CANCELLED"}
Number == Nat \ {0}
Event == [seq : Number, status : Status]
Way == {"task", "retry", "endpoint"}

SubmissionTypeOK ==
    /\ job \in [Jobs -> [status : Status, run : {"none", "QUEUED", "RUNNING", "SUCCEEDED",
                                                 "FAILED", "CANCELLED"}]]
    /\ events \in [Jobs -> SUBSET Event]
    /\ binding \in [Keys -> Jobs \cup {NoJob}]
    /\ request \in [Jobs -> [phase : {"idle", "open", "over"}, way : Way,
                             key : Keys \cup {NoKey}, answer : Jobs \cup {NoJob}]]
    /\ executor \in [Jobs -> [phase : {"idle", "due", "entered", "starting", "waiting", "ending", "over"},
                              next : Nat]]
    /\ canceller \in [Jobs -> [Cancellers -> [phase : {"idle", "read", "numbered"}, next : Nat]]]
    /\ deleting \in SUBSET Jobs
    /\ lost \in SUBSET Jobs

NotMade == [status |-> "none", run |-> "none"]
Quiet == [phase |-> "idle", next |-> 0]
Unsent == [phase |-> "idle", way |-> "task", key |-> NoKey, answer |-> NoJob]

SubmissionInit ==
    /\ job = [j \in Jobs |-> NotMade]
    /\ events = [j \in Jobs |-> {}]
    /\ binding = [k \in Keys |-> NoJob]
    /\ request = [j \in Jobs |-> Unsent]
    /\ executor = [j \in Jobs |-> Quiet]
    /\ canceller = [j \in Jobs |-> [c \in Cancellers |-> Quiet]]
    /\ deleting = {} /\ lost = {}

-----------------------------------------------------------------------------
(* Helpers.  A definition whose comment begins with "Fault" is how the one   *)
(* after it could be wrong; no action uses it.                             *)

Exists(j) == job[j].status # "none"

\* Fault: the largest number itself.
LastNumber(j) == CHOOSE n \in {0} \cup {e.seq : e \in events[j]} :
    \A e \in events[j] : e.seq <= n

\* The number after the largest one, as add_job_event reads it.
NextNumber(j) == LastNumber(j) + 1

\* Fault: a late writer makes a row that is gone anew.
AppendableEver(j, n) == \A e \in events[j] : e.seq # n

\* An update of a job that is gone fails, and so does a number that is taken.
Appendable(j, n) == Exists(j) /\ \A e \in events[j] : e.seq # n

\* The unique constraint on the endpoint and the hash of the key.
Free(key) == key \in Keys => binding[key] = NoJob

\* A job changes its status, its run too, and its timeline tells so.
Announce(j, n, status, run) ==
    /\ job' = [job EXCEPT ![j] = [status |-> status, run |-> run]]
    /\ events' = [events EXCEPT ![j] = @ \cup {[seq |-> n, status |-> status]}]

\* _prepare_file_job: the row with its run and its first events, one here.
Made(j, status) == Announce(j, 1, status, "QUEUED")

Done(j, answer) == request' = [request EXCEPT ![j].phase = "over", ![j].answer = answer]

-----------------------------------------------------------------------------
(* Requests that make jobs.                                                *)

Open(j, way, key) ==
    request' = [request EXCEPT ![j] = [phase |-> "open", way |-> way, key |-> key,
                                       answer |-> NoJob]]

\* A task from the workspace, or a retry of a job that came to no result; its
\* uploads are read before the job is made.
Begin(j, way) ==
    /\ request[j].phase = "idle"
    /\ way = "retry" => \E s \in Jobs : job[s].status \in Retryable
    /\ way \in {"task", "retry"}
    /\ Open(j, way, NoKey)
    /\ UNCHANGED <<job, events, binding, executor, canceller, deleting, lost>>

\* invoke_workflow_endpoint looks its key up before it awaits the upload.
Call(j, key) ==
    /\ request[j].phase = "idle"
    /\ IF Free(key) THEN Open(j, "endpoint", key)
       ELSE request' = [request EXCEPT ![j] = [phase |-> "over", way |-> "endpoint",
                                               key |-> key, answer |-> binding[key]]]
    /\ UNCHANGED <<job, events, binding, executor, canceller, deleting, lost>>

\* The call makes its job and binds its key to it, in one transaction.
CallCommits(j) ==
    LET key == request[j].key IN
    /\ request[j].phase = "open" /\ request[j].way = "endpoint"
    /\ Free(key)
    /\ binding' = IF key \in Keys THEN [binding EXCEPT ![key] = j] ELSE binding
    /\ Made(j, "QUEUED")
    /\ Done(j, j)
    /\ UNCHANGED <<executor, canceller, deleting, lost>>

\* Another call has bound the key meanwhile: its job is the answer.
CallReplays(j) ==
    LET key == request[j].key IN
    /\ request[j].phase = "open" /\ request[j].way = "endpoint"
    /\ ~Free(key)
    /\ Done(j, binding[key])
    /\ UNCHANGED <<job, events, binding, executor, canceller, deleting, lost>>

\* The job of a task or a retry: blocked if its environment cannot run, queued
\* for a sandbox, failed if an input cannot be read, or due to be executed here.
\* Nothing but the last writes to its run.
Placed(j, status) ==
    /\ request[j].phase = "open"
    /\ status \in {"BLOCKED", "QUEUED", "FAILED", "PREPARING"}
    /\ Made(j, status)
    /\ executor' = IF status = "PREPARING" THEN [executor EXCEPT ![j].phase = "due"] ELSE executor
    /\ Done(j, j)
    /\ UNCHANGED <<binding, canceller, deleting, lost>>

Submit(j, status) == request[j].way = "task" /\ Placed(j, status)

\* The source may have been deleted since its inputs were read.
Resubmit(j, status) == request[j].way = "retry" /\ Placed(j, status)

\* A refusal, an error, or the end of the connection.
Refuse(j) ==
    /\ request[j].phase = "open"
    /\ Done(j, NoJob)
    /\ UNCHANGED <<job, events, binding, executor, canceller, deleting, lost>>

-----------------------------------------------------------------------------
(* execute_instruction_job_background: runs after the response was sent.   *)

\* A job that was cancelled or deleted before is left alone.
Enter(j) ==
    /\ executor[j].phase = "due"
    /\ executor' = [executor EXCEPT ![j].phase =
           IF job[j].status \in {"none", "CANCELLED"} THEN "over" ELSE "entered"]
    /\ UNCHANGED <<job, events, binding, request, canceller, deleting, lost>>

\* The number of its first event is read; by now the job may be cancelled.
StartNumber(j) ==
    /\ executor[j].phase = "entered"
    /\ executor' = [executor EXCEPT ![j] = [phase |-> "starting",
                        next |-> IF Exists(j) THEN NextNumber(j) ELSE 0]]
    /\ UNCHANGED <<job, events, binding, request, canceller, deleting, lost>>

Start(j) ==
    /\ executor[j].phase = "starting"
    /\ Appendable(j, executor[j].next)
    /\ Announce(j, executor[j].next, "RUNNING", "RUNNING")
    /\ executor' = [executor EXCEPT ![j].phase = "waiting"]
    /\ UNCHANGED <<binding, request, canceller, deleting, lost>>

\* The model has answered or failed; the number of the next event is read.
Answered(j) ==
    /\ executor[j].phase = "waiting"
    /\ executor' = [executor EXCEPT ![j] = [phase |-> "ending",
                        next |-> IF Exists(j) THEN NextNumber(j) ELSE 0]]
    /\ UNCHANGED <<job, events, binding, request, canceller, deleting, lost>>

\* The result and its artifact, or the failure, are committed whatever the
\* status has become: it is not asked again.
End(j, status) ==
    /\ executor[j].phase = "ending"
    /\ status \in {"SUCCEEDED", "FAILED"}
    /\ Appendable(j, executor[j].next)
    /\ Announce(j, executor[j].next, status, status)
    /\ executor' = [executor EXCEPT ![j].phase = "over"]
    /\ UNCHANGED <<binding, request, canceller, deleting, lost>>

\* The number is taken or the job is gone.  The session cannot be used any
\* more, so the handlers of the failure fail as well.
Collide(j) ==
    /\ executor[j].phase \in {"starting", "ending"}
    /\ ~Appendable(j, executor[j].next)
    /\ executor' = [executor EXCEPT ![j].phase = "over"]
    /\ UNCHANGED <<job, events, binding, request, canceller, deleting, lost>>

-----------------------------------------------------------------------------
(* Cancelling and deleting.                                                *)

Cancellable(j) == Exists(j) /\ job[j].status \notin Terminal

Cancelling(j, c, phase, next) ==
    canceller' = [canceller EXCEPT ![j][c] = [phase |-> phase, next |-> next]]

\* _cancel_job finds the job unfinished, without a lock, as another request may.
Cancel(j, c) ==
    /\ \A i \in Jobs : canceller[i][c].phase = "idle"
    /\ j \in Aims[c]
    /\ Cancellable(j)
    /\ Cancelling(j, c, "read", 0)
    /\ UNCHANGED <<job, events, binding, request, executor, deleting, lost>>

CancelNumber(j, c) ==
    /\ canceller[j][c].phase = "read"
    /\ Exists(j)
    /\ Cancelling(j, c, "numbered", NextNumber(j))
    /\ UNCHANGED <<job, events, binding, request, executor, deleting, lost>>

CancelCommits(j, c) ==
    /\ canceller[j][c].phase = "numbered"
    /\ Appendable(j, canceller[j][c].next)
    /\ Announce(j, canceller[j][c].next, "CANCELLED", "CANCELLED")
    /\ Cancelling(j, c, "idle", 0)
    /\ UNCHANGED <<binding, request, executor, deleting, lost>>

\* Its number is taken, the job is gone, or its process ends.
CancelFails(j, c) ==
    /\ canceller[j][c].phase # "idle"
    /\ Cancelling(j, c, "idle", 0)
    /\ UNCHANGED <<job, events, binding, request, executor, deleting, lost>>

BeginDelete(j) ==
    /\ j \notin deleting
    /\ job[j].status \in Terminal
    /\ deleting' = deleting \cup {j}
    /\ UNCHANGED <<job, events, binding, request, executor, canceller, lost>>

\* Fault: the binding, which does not cascade, is forgotten.
KeepBound(j) == binding

\* The binding goes with the job, so that its key may be used again.
Unbind(j) == [k \in Keys |-> IF binding[k] = j THEN NoJob ELSE binding[k]]

\* The job goes with its events, whatever its status has become.
DeleteCommits(j) ==
    /\ j \in deleting /\ Exists(j)
    /\ job' = [job EXCEPT ![j] = NotMade]
    /\ events' = [events EXCEPT ![j] = {}]
    /\ binding' = Unbind(j)
    /\ deleting' = deleting \ {j}
    /\ UNCHANGED <<request, executor, canceller, lost>>

\* An event was added meanwhile, another error, or the end of the process.
DeleteFails(j) ==
    /\ j \in deleting
    /\ deleting' = deleting \ {j}
    /\ UNCHANGED <<job, events, binding, request, executor, canceller, lost>>

\* The API process ends; nobody takes an executor's job over.
Restart(j) ==
    /\ executor[j].phase \notin {"idle", "over"}
    /\ executor' = [executor EXCEPT ![j].phase = "over"]
    /\ lost' = lost \cup {j}
    /\ UNCHANGED <<job, events, binding, request, canceller, deleting>>

SubmissionNext == \E j \in Jobs :
    \/ \E way \in Way : Begin(j, way)
    \/ \E key \in Keys \cup {NoKey} : Call(j, key)
    \/ CallCommits(j) \/ CallReplays(j) \/ Refuse(j)
    \/ \E status \in Status : Submit(j, status) \/ Resubmit(j, status) \/ End(j, status)
    \/ Enter(j) \/ StartNumber(j) \/ Start(j) \/ Answered(j) \/ Collide(j) \/ Restart(j)
    \/ \E c \in Cancellers :
          Cancel(j, c) \/ CancelNumber(j, c) \/ CancelCommits(j, c) \/ CancelFails(j, c)
    \/ BeginDelete(j) \/ DeleteCommits(j) \/ DeleteFails(j)

SubmissionSpec == SubmissionInit /\ [][SubmissionNext]_submissionVars

\* The executor goes on as long as its process does.
FairSubmissionSpec ==
    /\ SubmissionSpec
    /\ \A j \in Jobs :
          /\ WF_submissionVars(Enter(j)) /\ WF_submissionVars(StartNumber(j)) /\ WF_submissionVars(Start(j))
          /\ WF_submissionVars(Answered(j))
          /\ WF_submissionVars(\E status \in Status : End(j, status)) /\ WF_submissionVars(Collide(j))

-----------------------------------------------------------------------------
(* Safety.                                                                 *)

\* No two events of a job have one number, and numbers have no gap before them.
NumbersDiffer == \A j \in Jobs : \A d, e \in events[j] : d.seq = e.seq => d = e

\* The last event of a timeline tells the job's status, however the executor's
\* end and a cancel overlap: of two that have read the same last event only one
\* is committed.
LastEventTells == \A j \in Jobs : \A e \in events[j] :
    (\A d \in events[j] : d.seq <= e.seq) => e.status = job[j].status

\* A job and its run end alike.
RunsAgree == \A j \in Jobs :
    /\ job[j].status = "SUCCEEDED" <=> job[j].run = "SUCCEEDED"
    /\ job[j].status = "CANCELLED" <=> job[j].run = "CANCELLED"
    /\ job[j].run = "FAILED" => job[j].status = "FAILED"

\* A key leads to a job that is there and was made by a call with that key.
BindingsLead == \A k \in Keys : binding[k] # NoJob =>
    Exists(binding[k]) /\ request[binding[k]].key = k

\* What is there was made by its own request; what an executor works on has not
\* got a result yet.
MadeByRequest == \A j \in Jobs :
    /\ Exists(j) => request[j].phase = "over" /\ request[j].answer = j
    /\ Exists(j) <=> events[j] # {}
    /\ Exists(j) /\ request[j].key \in Keys => binding[request[j].key] = j
    /\ executor[j].phase \in {"due", "entered", "starting"} => job[j].status \in {"none", "PREPARING", "CANCELLED"}
    /\ executor[j].phase \in {"waiting", "ending"} => job[j].status \in {"none", "RUNNING", "CANCELLED"}
    /\ executor[j].phase = "idle" => job[j].status \notin {"PREPARING", "RUNNING", "SUCCEEDED"}

\* Calls with one key that are answered with jobs still there are answered with
\* the same job, also when they meet in the constraint.
OneJobPerKey == \A c, d \in Jobs :
    /\ request[c].key = request[d].key /\ request[c].key \in Keys
    /\ \A r \in {c, d} : request[r].answer # NoJob /\ Exists(request[r].answer)
    => request[c].answer = request[d].answer

NobodyCancels(j) == \A c \in Cancellers : canceller[j][c].phase = "idle"

\* Number n is the one after a number of the timeline.
Follows(j, n) == \E d \in events[j] : d.seq = n - 1

\* The numbers of a timeline follow each other from 1 to a last one, and a number
\* that was read follows one that is still there, whoever has appended since.
NumbersFollow == \A j \in Jobs :
    /\ \A e \in events[j] : \A n \in 1 .. e.seq : \E d \in events[j] : d.seq = n
    /\ events[j] # {} => \E e \in events[j] : \A d \in events[j] : d.seq <= e.seq
    /\ Exists(j) /\ executor[j].phase \in {"starting", "ending"} => Follows(j, executor[j].next)
    /\ \A c \in Cancellers : Exists(j) /\ canceller[j][c].phase = "numbered" =>
           Follows(j, canceller[j][c].next)

\* Nothing works on a job before its request is answered, only calls have keys,
\* and the answer to a call is a job that a call with the same key has made.
RequestsFirst == \A j \in Jobs :
    /\ request[j].phase # "over" =>
           executor[j].phase = "idle" /\ NobodyCancels(j) /\ request[j].answer = NoJob
    /\ request[j].way # "endpoint" => request[j].key = NoKey
    /\ request[j].key \in Keys /\ request[j].answer # NoJob =>
           LET answer == request[request[j].answer] IN
           answer.phase = "over" /\ answer.key = request[j].key

\* The statuses a timeline has told.
Told(j) == {e.status : e \in events[j]}

\* A timeline tells how far the executor has come, that a job was unfinished
\* before it is cancelled, and that it has had an end before it is deleted.
TimelinesTell == \A j \in Jobs :
    /\ j \in deleting => request[j].phase = "over"
    /\ Exists(j) =>
          /\ job[j].status \in Told(j)
          /\ executor[j].phase \in {"idle", "due", "entered", "starting"} =>
                 Told(j) \cap {"RUNNING", "SUCCEEDED"} = {}
          /\ executor[j].phase \in {"due", "entered", "starting", "waiting", "ending"} =>
                 "PREPARING" \in Told(j) /\ Told(j) \cap {"SUCCEEDED", "FAILED"} = {}
          /\ executor[j].phase \in {"waiting", "ending"} => "RUNNING" \in Told(j)
          /\ "RUNNING" \in Told(j) => "PREPARING" \in Told(j)
          /\ NobodyCancels(j) \/ Told(j) \cap {"PREPARING", "QUEUED"} # {}
          /\ j \in deleting => Told(j) \cap Terminal # {}

SubmissionInv ==
    /\ SubmissionTypeOK
    /\ NumbersDiffer /\ LastEventTells /\ RunsAgree
    /\ BindingsLead /\ MadeByRequest /\ OneJobPerKey
    /\ NumbersFollow /\ RequestsFirst /\ TimelinesTell

\* A deleted job stays deleted, also when its executor waits for the model and is
\* answered, or a cancel that had found the job unfinished goes on.
DeletedStays == [][\A j \in Jobs :
    ~Exists(j) /\ request[j].phase = "over" => ~Exists(j)']_submissionVars

-----------------------------------------------------------------------------
(* The promise.                                                            *)

Promise == INSTANCE SubmissionPromise WITH
    Requests <- Jobs,
    status <- [j \in Jobs |-> job[j].status],
    told <- [j \in Jobs |-> Told(j)],
    bound <- binding,
    reply <- [j \in Jobs |-> [given |-> request[j].phase = "over",
                              key |-> IF request[j].phase = "over" THEN request[j].key ELSE NoKey,
                              job |-> request[j].answer]]

\* However handlers interleave between their reads and commits, requests are
\* answered, jobs started, concluded, cancelled and deleted as if each of it
\* were one step: one job for a key, one start, one result, and no job returns.
SubmissionPromised == Promise!Spec

-----------------------------------------------------------------------------
(* Liveness.                                                               *)

\* A job the API executes ends, unless its process does: an executor that
\* collides with a cancel leaves the job cancelled.
JobsEnd == \A j \in Jobs :
    job[j].status \in {"PREPARING", "RUNNING"} ~>
        (job[j].status \in Terminal \cup {"none"} \/ j \in lost)
=============================================================================
