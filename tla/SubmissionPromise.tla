-------------------------- MODULE SubmissionPromise --------------------------
(***************************************************************************)
(* What the API promises about jobs to those who make, cancel and delete   *)
(* them, as if it did each of these things in one step: JobSubmission, in  *)
(* which every one of them is several, implements this specification.      *)
(***************************************************************************)

CONSTANTS Requests,    \* requests that make jobs; a job is named after its own
          Keys, NoKey, NoJob

VARIABLES
    status,     \* of the job of each request; "none" while there is none
    told,       \* the statuses its timeline has told
    bound,      \* the job of each idempotency key
    reply       \* what each request was answered

promise == <<status, told, bound, reply>>

Unanswered == [given |-> FALSE, key |-> NoKey, job |-> NoJob]
Reply(key, j) == [given |-> TRUE, key |-> key, job |-> j]

Init ==
    /\ status = [r \in Requests |-> "none"]
    /\ told = [r \in Requests |-> {}]
    /\ bound = [k \in Keys |-> NoJob]
    /\ reply = [r \in Requests |-> Unanswered]

Terminal == {"SUCCEEDED", "FAILED", "BLOCKED", "CANCELLED"}
Results == {"SUCCEEDED", "FAILED"}

Answers(r, key, j) ==
    /\ reply[r] = Unanswered
    /\ reply' = [reply EXCEPT ![r] = Reply(key, j)]

Tells(r, new) ==
    /\ status' = [status EXCEPT ![r] = new]
    /\ told' = [told EXCEPT ![r] = @ \cup {new}]

\* A request makes one job; a key that leads to a job makes no other.
Accept(r, key, new) ==
    /\ new \in {"PREPARING", "QUEUED", "FAILED", "BLOCKED"}
    /\ key \in Keys => bound[key] = NoJob /\ new = "QUEUED"
    /\ told[r] = {}
    /\ Answers(r, key, r)
    /\ Tells(r, new)
    /\ bound' = [k \in Keys |-> IF k = key THEN r ELSE bound[k]]

\* A repeated key is answered with the job it leads to, which is there.
Replay(r, key) ==
    /\ key \in Keys /\ bound[key] # NoJob
    /\ status[bound[key]] # "none"
    /\ Answers(r, key, bound[key])
    /\ UNCHANGED <<status, told, bound>>

Decline(r, key) == Answers(r, key, NoJob) /\ UNCHANGED <<status, told, bound>>

\* A job is started once, and only if it was to be executed by the API; it may
\* have been cancelled a moment ago.
Start(r) ==
    /\ status[r] \in {"PREPARING", "CANCELLED"}
    /\ "PREPARING" \in told[r] /\ told[r] \cap ({"RUNNING"} \cup Results) = {}
    /\ Tells(r, "RUNNING")
    /\ UNCHANGED <<bound, reply>>

\* A job that was started has one result, or none.
Conclude(r, result) ==
    /\ result \in Results
    /\ status[r] \in {"RUNNING", "CANCELLED"}
    /\ "RUNNING" \in told[r] /\ told[r] \cap Results = {}
    /\ Tells(r, result)
    /\ UNCHANGED <<bound, reply>>

\* A job that was unfinished once may be cancelled, even after its result.
Withdraw(r) ==
    /\ status[r] \notin {"none", "CANCELLED"}
    /\ told[r] \cap {"PREPARING", "QUEUED"} # {}
    /\ Tells(r, "CANCELLED")
    /\ UNCHANGED <<bound, reply>>

\* A job that has come to an end may be deleted, for good, and frees its key.
Remove(r) ==
    /\ told[r] \cap Terminal # {}
    /\ status' = [status EXCEPT ![r] = "none"]
    /\ told' = [told EXCEPT ![r] = {}]
    /\ bound' = [k \in Keys |-> IF bound[k] = r THEN NoJob ELSE bound[k]]
    /\ UNCHANGED reply

Next == \E r \in Requests :
    \/ \E key \in Keys \cup {NoKey} :
          \/ Replay(r, key) \/ Decline(r, key)
          \/ \E new \in {"PREPARING", "QUEUED", "FAILED", "BLOCKED"} : Accept(r, key, new)
    \/ Start(r) \/ Withdraw(r) \/ Remove(r)
    \/ \E result \in Results : Conclude(r, result)

Spec == Init /\ [][Next]_promise
=============================================================================
