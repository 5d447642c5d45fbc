------------------------- MODULE JobLifecycleProofs -------------------------
(***************************************************************************)
(* Theorems about JobLifecycle, for any sets of jobs and Workers and any   *)
(* number of attempts.                                                     *)
(***************************************************************************)
EXTENDS JobLifecycle, TLAPS

\* The type invariant is inductive.
LEMMA TypeInit == Init => TypeOK
BY JobLifecycleAssumption DEF Init, TypeOK, JobStatus, RunStatus, Run, Attempts, Artifact,
   Steps, StepStatus, WorkerPc, Busy, Sections, ActiveStatus, Terminal, NoRequest

(* The row helpers keep the types of their arguments.                      *)

LEMMA FinishedType ==
    ASSUME NEW r \in Run, NEW status \in RunStatus
    PROVE  Finished(r, status) \in Run
<1>1. 0 \in Attempts
  BY JobLifecycleAssumption DEF Attempts
<1> QED
  BY <1>1 DEF Finished, Run

LEMMA LiveType ==
    ASSUME NEW r \in Run, NEW live \in BOOLEAN
    PROVE  [r EXCEPT !.live = live] \in Run
BY DEF Run

LEMMA SettleType ==
    ASSUME NEW steps \in [Steps -> StepStatus],
           NEW running \in StepStatus, NEW pending \in StepStatus
    PROVE  Settle(steps, running, pending) \in [Steps -> StepStatus]
BY DEF Settle

LEMMA SettleFirstType ==
    ASSUME NEW steps \in [Steps -> StepStatus],
           NEW running \in StepStatus, NEW pending \in StepStatus
    PROVE  SettleFirst(steps, running, pending) \in [Steps -> StepStatus]
BY DEF SettleFirst

LEMMA StatusTypes ==
    /\ Terminal \cup ActiveStatus \cup {"none", "queued"} = JobStatus
    /\ Terminal \subseteq JobStatus /\ ActiveStatus \subseteq JobStatus
    /\ {"queued", "running", "producing_artifacts", "verifying",
        "succeeded", "failed", "cancelled", "blocked"} \subseteq JobStatus
    /\ {"queued", "running", "succeeded", "failed", "cancelled"} \subseteq RunStatus
    /\ {"pending", "running", "succeeded", "failed", "blocked", "skipped"} \subseteq StepStatus
    /\ {"execute", "collect", "verify"} \subseteq Steps
    /\ Sections \subseteq WorkerPc
    /\ {"down", "recovering", "claiming", "claimed", "failing", "working", "finishing",
        "collecting", "persisting", "stored", "verifying", "polled", "cancelling"}
         \subseteq WorkerPc
BY DEF JobStatus, RunStatus, Steps, StepStatus, WorkerPc, Busy, Sections, ActiveStatus, Terminal

\* The type invariant is preserved by every step.
LEMMA TypeStep == TypeOK /\ [Next]_vars => TypeOK'
<1> SUFFICES ASSUME TypeOK, [Next]_vars PROVE TypeOK'
  OBVIOUS
<1> USE JobLifecycleAssumption, StatusTypes
      DEF TypeOK, Goto, rows
<1>1. ASSUME NEW w \in Workers, WorkerStart(w) PROVE TypeOK'
  BY <1>1 DEF WorkerStart
<1>2. ASSUME NEW w \in Workers, WorkerCrash(w) PROVE TypeOK'
  BY <1>2 DEF WorkerCrash, Leave
<1>3. ASSUME NEW w \in Workers, Recover(w) PROVE TypeOK'
  BY <1>3, SettleType, FinishedType DEF Recover, Interrupted, Unverified, Exhausted
<1>4. ASSUME NEW w \in Workers, ClaimNothing(w) PROVE TypeOK'
  BY <1>4 DEF ClaimNothing
<1>6. ASSUME NEW w \in Workers, NEW j \in Jobs, Claim(w, j) PROVE TypeOK'
  <2>0. UNCHANGED <<artifacts, checkpoint, cancel, seen>>
    BY <1>6 DEF Claim
  <2>1. CASE Exhausted(j)
    <3>1. /\ job' = [job EXCEPT ![j] = "failed"]
          /\ step' = [step EXCEPT ![j] = Settle(step[j], "failed", "skipped")]
          /\ run' = [run EXCEPT ![j] = Finished(run[j], "failed")]
          /\ pc' = [pc EXCEPT ![w] = "recovering"]
          /\ UNCHANGED <<held, lost>>
      BY <1>6, <2>1 DEF Claim
    <3>2. /\ Settle(step[j], "failed", "skipped") \in [Steps -> StepStatus]
          /\ Finished(run[j], "failed") \in Run
      BY SettleType, FinishedType
    <3> QED
      BY <2>0, <3>1, <3>2
  <2>2. CASE ~Exhausted(j)
    <3> DEFINE attempt == run[j].attempts + 1
               leased == [status |-> "running", attempts |-> attempt,
                          token |-> attempt, live |-> TRUE]
    <3>1. /\ job' = [job EXCEPT ![j] = "running"]
          /\ step' = [step EXCEPT ![j]["execute"] = "running"]
          /\ run' = [run EXCEPT ![j] = leased]
          /\ held' = [held EXCEPT ![w] = [job |-> j, attempt |-> attempt]]
          /\ lost' = [lost EXCEPT ![w] = FALSE]
          /\ pc' = [pc EXCEPT ![w] = "claimed"]
      BY <1>6, <2>2 DEF Claim
    <3>2. attempt \in Attempts
      BY <2>2 DEF Exhausted, Run, Attempts
    <3>3. leased \in Run
      BY <3>2 DEF Run
    <3> HIDE DEF attempt, leased
    <3>4. step' \in [Jobs -> [Steps -> StepStatus]] /\ job' \in [Jobs -> JobStatus]
      BY <3>1
    <3>5. run' \in [Jobs -> Run] /\ held' \in [Workers -> [job : Jobs, attempt : Attempts]]
      BY <3>1, <3>2, <3>3
    <3>6. lost' \in [Workers -> BOOLEAN] /\ pc' \in [Workers -> WorkerPc]
      BY <3>1
    <3> QED
      BY <2>0, <3>4, <3>5, <3>6
  <2> QED
    BY <2>1, <2>2
<1>7. ASSUME NEW w \in Workers, Begin(w) PROVE TypeOK'
  <2>1. pc' \in [Workers -> WorkerPc]
    BY <1>7, ZenonT(40) DEF Begin
  <2>2. seen' \in [Workers -> BOOLEAN]
    BY <1>7 DEF Begin
  <2>3. run' \in [Jobs -> Run]
    <3>1. Finished(run[held[w].job], "cancelled") \in Run
      BY FinishedType
    <3> QED
      BY <1>7, <3>1 DEF Begin
  <2> QED
    BY <1>7, <2>1, <2>2, <2>3 DEF Begin
<1>8. ASSUME NEW w \in Workers, Heartbeat(w) PROVE TypeOK'
  <2>1. run' \in [Jobs -> Run]
    <3>1. [run[held[w].job] EXCEPT !.live = TRUE] \in Run
      BY LiveType
    <3> QED
      BY <1>8, <3>1 DEF Heartbeat
  <2>2. lost' \in [Workers -> BOOLEAN]
    BY <1>8 DEF Heartbeat
  <2> QED
    BY <1>8, <2>1, <2>2 DEF Heartbeat
<1>9. ASSUME NEW w \in Workers, HeartbeatError(w) PROVE TypeOK'
  BY <1>9 DEF HeartbeatError
<1>10. ASSUME NEW w \in Workers, SeenExpires(w) PROVE TypeOK'
  BY <1>10 DEF SeenExpires
<1>11. ASSUME NEW w \in Workers, Poll(w) PROVE TypeOK'
  BY <1>11 DEF Poll
<1>12. ASSUME NEW w \in Workers, NEW status \in {"ready", "in_flight"}, PublishCheckpoint(w, status) PROVE TypeOK'
  BY <1>12 DEF PublishCheckpoint
<1>13. ASSUME NEW w \in Workers, WorkDone(w) PROVE TypeOK'
  BY <1>13 DEF WorkDone
<1>14. ASSUME NEW w \in Workers, LeaseLost(w) PROVE TypeOK'
  BY <1>14 DEF LeaseLost, Leave
<1>15. ASSUME NEW w \in Workers, Raise(w) PROVE TypeOK'
  BY <1>15 DEF Raise
<1>16. ASSUME NEW w \in Workers, PollAnswer(w) PROVE TypeOK'
  BY <1>16 DEF PollAnswer
<1>5. ASSUME NEW w \in Workers, SettleCancelled(w) PROVE TypeOK'
  <2> DEFINE j == held[w].job
  <2>1. /\ Settle(step[j], "skipped", "skipped") \in [Steps -> StepStatus]
        /\ [s \in Steps |-> "skipped"] \in [Steps -> StepStatus]
        /\ Finished(run[j], "cancelled") \in Run
    BY SettleType, FinishedType
  <2>2. step' \in [Jobs -> [Steps -> StepStatus]]
    BY <1>5, <2>1 DEF SettleCancelled
  <2>3. run' \in [Jobs -> Run]
    BY <1>5, <2>1 DEF SettleCancelled
  <2> QED
    BY <1>5, <2>2, <2>3 DEF SettleCancelled, Leave
<1>17. ASSUME NEW w \in Workers, Produce(w) PROVE TypeOK'
  BY <1>17 DEF Produce
<1>18. ASSUME NEW w \in Workers, Persist(w) PROVE TypeOK'
  BY <1>18 DEF Persist
<1>19. ASSUME NEW w \in Workers, Store(w) PROVE TypeOK'
  <2>1. job' \in [Jobs -> JobStatus] /\ pc' \in [Workers -> WorkerPc]
    BY <1>19 DEF Store
  <2>2. step' \in [Jobs -> [Steps -> StepStatus]]
    BY <1>19 DEF Store
  <2>3. artifacts' \in [Jobs -> SUBSET Artifact]
    <3>1. [attempt |-> held[w].attempt, verified |-> FALSE] \in Artifact
      BY DEF Artifact
    <3> QED
      BY <1>19, <3>1 DEF Store
  <2> QED
    BY <1>19, <2>1, <2>2, <2>3 DEF Store
<1>20. ASSUME NEW w \in Workers, StoredCheck(w) PROVE TypeOK'
  BY <1>20 DEF StoredCheck
<1>21. ASSUME NEW w \in Workers, Succeed(w) PROVE TypeOK'
  <2> DEFINE j == held[w].job
  <2>1. job' \in [Jobs -> JobStatus] /\ checkpoint' \in [Jobs -> {"none", "ready", "in_flight"}]
    BY <1>21 DEF Succeed
  <2>2. step' \in [Jobs -> [Steps -> StepStatus]]
    BY <1>21 DEF Succeed
  <2>3. artifacts' \in [Jobs -> SUBSET Artifact]
    <3>1. [attempt |-> held[w].attempt, verified |-> TRUE] \in Artifact
      BY DEF Artifact
    <3> QED
      BY <1>21, <3>1 DEF Succeed
  <2>4. run' \in [Jobs -> Run]
    <3>1. Finished(run[j], "succeeded") \in Run
      BY FinishedType
    <3> QED
      BY <1>21, <3>1 DEF Succeed
  <2>5. pc' \in [Workers -> WorkerPc] /\ seen' \in [Workers -> BOOLEAN]
    BY <1>21 DEF Succeed, Leave
  <2> QED
    BY <1>21, <2>1, <2>2, <2>3, <2>4, <2>5 DEF Succeed
<1>22. ASSUME NEW w \in Workers, FailAttempt(w) PROVE TypeOK'
  <2> DEFINE j == held[w].job
  <2>1. job' \in [Jobs -> JobStatus]
    BY <1>22 DEF FailAttempt
  <2>2. step' \in [Jobs -> [Steps -> StepStatus]]
    <3>1. \A outcome \in {"failed", "blocked"} :
            SettleFirst(step[j], outcome, "skipped") \in [Steps -> StepStatus]
      BY SettleFirstType
    <3>2. CASE UNCHANGED rows
      BY <3>2
    <3>3. ASSUME NEW outcome \in {"failed", "blocked"},
                 step' = [step EXCEPT ![j] = SettleFirst(@, outcome, "skipped")]
          PROVE  step' \in [Jobs -> [Steps -> StepStatus]]
      BY <3>1, <3>3
    <3> QED
      BY <1>22, <3>2, <3>3 DEF FailAttempt
  <2>3. run' \in [Jobs -> Run]
    <3>1. Finished(run[j], "failed") \in Run
      BY FinishedType
    <3> QED
      <4>1. CASE UNCHANGED rows
        BY <4>1
      <4>2. CASE run' = [run EXCEPT ![j] = Finished(@, "failed")]
        BY <3>1, <4>2
      <4> QED
        BY <1>22, <4>1, <4>2 DEF FailAttempt
  <2>4. UNCHANGED <<artifacts, checkpoint>>
    BY <1>22 DEF FailAttempt
  <2>5. pc' \in [Workers -> WorkerPc] /\ seen' \in [Workers -> BOOLEAN]
    BY <1>22 DEF FailAttempt, Leave
  <2> QED
    BY <1>22, <2>1, <2>2, <2>3, <2>4, <2>5 DEF FailAttempt
<1>23. ASSUME NEW w \in Workers, Timeout(w) PROVE TypeOK'
  <2> DEFINE j == held[w].job
  <2>1. job' \in [Jobs -> JobStatus]
    BY <1>23 DEF Timeout
  <2>2. step' \in [Jobs -> [Steps -> StepStatus]]
    <3>1. SettleFirst(step[j], "failed", "pending") \in [Steps -> StepStatus]
      BY SettleFirstType
    <3> QED
      BY <1>23, <3>1 DEF Timeout
  <2>3. run' \in [Jobs -> Run]
    <3>1. Finished(run[j], "failed") \in Run
      BY FinishedType
    <3> QED
      BY <1>23, <3>1 DEF Timeout
  <2>4. pc' \in [Workers -> WorkerPc] /\ seen' \in [Workers -> BOOLEAN]
    BY <1>23 DEF Timeout, Leave
  <2> QED
    BY <1>23, <2>1, <2>2, <2>3, <2>4 DEF Timeout
<1>24. ASSUME NEW j \in Jobs, Submit(j) PROVE TypeOK'
  BY <1>24 DEF Submit
<1>25. ASSUME NEW j \in Jobs, CancelRead(j) PROVE TypeOK'
  BY <1>25 DEF CancelRead
<1>26. ASSUME NEW j \in Jobs, CancelCommit(j) PROVE TypeOK'
  BY <1>26, FinishedType DEF CancelCommit, NoRequest
<1>27. ASSUME NEW j \in Jobs, LeaseExpires(j) PROVE TypeOK'
  BY <1>27, LiveType DEF LeaseExpires
<1>28. CASE UNCHANGED vars
  BY <1>28 DEF vars
<1> QED
  BY <1>1, <1>2, <1>3, <1>4, <1>5, <1>6, <1>7, <1>8, <1>9, <1>10, <1>11, <1>12, <1>13, <1>14,
     <1>15, <1>16, <1>17, <1>18, <1>19, <1>20, <1>21, <1>22, <1>23, <1>24, <1>25, <1>26,
     <1>27, <1>28
  DEF Next, WorkerStep, JobStep, Loop, EndOfWork, Proceed

-----------------------------------------------------------------------------
(* The inductive invariant.                                                *)

LEMMA InvInit == Init => JobInv
<1> SUFFICES ASSUME Init PROVE JobInv
  OBVIOUS
<1>1. TypeOK
  BY TypeInit
<1>2. \A w \in Workers : pc[w] = "down" /\ held[w].attempt = 0 /\ held[w].job \in Jobs
  BY DEF Init
<1>3. \A j \in Jobs : /\ job[j] = "none" /\ artifacts[j] = {} /\ ~cancel[j].pending
                      /\ run[j] = [status |-> "queued", attempts |-> 0, token |-> 0, live |-> FALSE]
  BY DEF Init, NoRequest
<1> QED
  BY <1>1, <1>2, <1>3 DEF JobInv, LeaseShape, AttemptsIssued, AttemptsDiffer, UnsubmittedIsIdle,
     VerifyingIsCurrent, QueuedIsFree, EndsAgree, SucceededIsComplete, Busy, Sections

\* Attempts stay issued and different as long as none is started.
LEMMA AttemptsKept ==
    ASSUME AttemptsIssued, AttemptsDiffer, held' = held,
           \A w \in Workers : pc'[w] \in Busy => pc[w] \in Busy,
           \A w \in Workers : run'[held[w].job].attempts = run[held[w].job].attempts
    PROVE  AttemptsIssued' /\ AttemptsDiffer'
BY DEF AttemptsIssued, AttemptsDiffer

\* A step that writes no row but the checkpoint pointer, starts no attempt and
\* enters no verification preserves the invariant.
LEMMA QuietStep ==
    ASSUME JobInv, TypeOK', UNCHANGED <<job, run, step, artifacts, held>>,
           \A j \in Jobs : cancel'[j].pending => cancel[j].pending \/ job[j] # "none",
           \A w \in Workers : pc'[w] \in Busy => pc[w] \in Busy,
           \A w \in Workers : pc'[w] = "verifying" => pc[w] = "verifying"
    PROVE  JobInv'
<1>1. AttemptsIssued' /\ AttemptsDiffer'
  BY AttemptsKept DEF JobInv
<1> QED
  BY <1>1 DEF JobInv, LeaseShape, UnsubmittedIsIdle, VerifyingIsCurrent, QueuedIsFree,
     EndsAgree, SucceededIsComplete, Exhausted

\* A job that some Worker is busy with has been submitted.
LEMMA BusyIsSubmitted ==
    ASSUME JobInv, NEW w \in Workers, pc[w] \in Busy
    PROVE  held[w].job \in Jobs /\ job[held[w].job] # "none"
<1>1. held[w].job \in Jobs /\ held[w].attempt \in Nat /\ run[held[w].job].attempts \in Nat
  BY JobLifecycleAssumption DEF JobInv, TypeOK, Run, Attempts
<1> QED
  BY <1>1 DEF JobInv, AttemptsIssued, UnsubmittedIsIdle

\* Every step preserves the invariant.
LEMMA InvStep == JobInv /\ [Next]_vars => JobInv'
<1> SUFFICES ASSUME JobInv, [Next]_vars PROVE JobInv'
  OBVIOUS
<1>0. TypeOK /\ TypeOK'
  BY TypeStep DEF JobInv
<1>t. \A j \in Jobs : run[j] \in Run /\ run[j].attempts \in Nat
  BY <1>0, JobLifecycleAssumption DEF TypeOK, Run, Attempts
<1>h. \A w \in Workers : held[w].job \in Jobs /\ held[w].attempt \in Nat
  BY <1>0, JobLifecycleAssumption DEF TypeOK, Attempts
\* Steps of a Worker that QuietStep covers.
<1>1. ASSUME NEW w \in Workers,
             \/ WorkerStart(w) \/ WorkerCrash(w) \/ ClaimNothing(w)
             \/ HeartbeatError(w) \/ SeenExpires(w) \/ Poll(w) \/ PollAnswer(w)
             \/ WorkDone(w) \/ LeaseLost(w) \/ Raise(w) \/ Persist(w)
             \/ \E status \in {"ready", "in_flight"} : PublishCheckpoint(w, status)
      PROVE  JobInv'
  <2>1. UNCHANGED <<job, run, step, artifacts, held, cancel>>
    BY <1>1 DEF WorkerStart, WorkerCrash, ClaimNothing, HeartbeatError, SeenExpires,
       Poll, PollAnswer, WorkDone, LeaseLost, Raise, Persist, PublishCheckpoint, Leave, rows
  <2>2. \A v \in Workers : /\ pc'[v] \in Busy => pc[v] \in Busy
                           /\ pc'[v] = "verifying" => pc[v] = "verifying"
    BY <1>0, <1>1 DEF WorkerStart, WorkerCrash, ClaimNothing, HeartbeatError, SeenExpires,
       Poll, PollAnswer, WorkDone, LeaseLost, Raise, Persist, PublishCheckpoint, Leave, Goto, Busy, Sections,
       TypeOK
  <2> QED
    BY <1>0, <2>1, <2>2, QuietStep
<1>2. ASSUME NEW j \in Jobs, CancelRead(j) PROVE JobInv'
  <2>1. UNCHANGED <<job, run, step, artifacts, held, pc>>
    BY <1>2 DEF CancelRead, rows
  <2>2. \A k \in Jobs : cancel'[k].pending => cancel[k].pending \/ job[k] # "none"
    BY <1>0, <1>2 DEF CancelRead, TypeOK
  <2> QED
    BY <1>0, <2>1, <2>2, QuietStep
<1>3. ASSUME NEW j \in Jobs, Submit(j) PROVE JobInv'
  <2>1. AttemptsIssued' /\ AttemptsDiffer'
    BY <1>3, AttemptsKept DEF JobInv, Submit
  <2>2. \A w \in Workers : pc[w] = "verifying" => held[w].job # j
    BY <1>3, BusyIsSubmitted DEF Submit, Busy, Sections
  <2>3. QueuedIsFree'
    BY <1>0, <1>3, JobLifecycleAssumption
       DEF JobInv, TypeOK, Submit, QueuedIsFree, UnsubmittedIsIdle, LeaseShape, Exhausted
  <2>4. VerifyingIsCurrent'
    BY <1>0, <1>3, <2>2 DEF JobInv, TypeOK, Submit, VerifyingIsCurrent
  <2> QED
    BY <1>0, <1>3, <2>1, <2>3, <2>4
       DEF JobInv, TypeOK, Submit, LeaseShape, UnsubmittedIsIdle, EndsAgree, SucceededIsComplete
<1>4. ASSUME NEW j \in Jobs, CancelCommit(j) PROVE JobInv'
  <2>0. \A k \in Jobs : run'[k].attempts = run[k].attempts
    BY <1>0, <1>4, <1>t DEF TypeOK, CancelCommit, Finished, Run
  <2>1. AttemptsIssued' /\ AttemptsDiffer'
    BY <1>4, <1>h, <2>0, AttemptsKept DEF JobInv, CancelCommit
  <2>2. job[j] # "none"
    BY <1>4 DEF JobInv, UnsubmittedIsIdle, CancelCommit
  <2>3. run' = [run EXCEPT ![j] = Finished(run[j], "cancelled")] /\ job' = [job EXCEPT ![j] = "cancelled"]
    BY <1>4 DEF CancelCommit
  <2>4. LeaseShape' /\ QueuedIsFree' /\ EndsAgree'
    BY <1>0, <1>t, <2>0, <2>3
       DEF JobInv, TypeOK, Finished, Run, LeaseShape, QueuedIsFree, EndsAgree, Exhausted
  <2>5. UnsubmittedIsIdle'
    BY <1>0, <1>4, <2>2 DEF JobInv, TypeOK, CancelCommit, UnsubmittedIsIdle, NoRequest
  <2>6. VerifyingIsCurrent'
    BY <1>0, <1>4, <1>h, <2>0 DEF JobInv, TypeOK, CancelCommit, VerifyingIsCurrent
  <2>7. SucceededIsComplete'
    BY <1>0, <1>4, <1>t DEF JobInv, TypeOK, CancelCommit, SucceededIsComplete, Finished, Run
  <2> QED
    BY <1>0, <2>1, <2>4, <2>5, <2>6, <2>7 DEF JobInv
<1>5. ASSUME NEW j \in Jobs, LeaseExpires(j) PROVE JobInv'
  <2>1. run' = [run EXCEPT ![j] = [run[j] EXCEPT !.live = FALSE]] /\ UNCHANGED <<job, step, artifacts, cancel, held, pc>>
    BY <1>5 DEF LeaseExpires
  <2>2. \A k \in Jobs : /\ run'[k].attempts = run[k].attempts /\ run'[k].status = run[k].status
                        /\ run'[k].token = run[k].token /\ (run'[k].live => run[k].live)
    BY <1>0, <1>t, <2>1 DEF TypeOK, Run
  <2>3. AttemptsIssued' /\ AttemptsDiffer'
    BY <1>h, <2>1, <2>2, AttemptsKept DEF JobInv
  <2> QED
    BY <1>0, <1>h, <2>1, <2>2, <2>3 DEF JobInv, LeaseShape, UnsubmittedIsIdle, VerifyingIsCurrent,
       QueuedIsFree, EndsAgree, SucceededIsComplete, Exhausted
<1>6. ASSUME NEW w \in Workers, Heartbeat(w) PROVE JobInv'
  <2> DEFINE j == held[w].job
  <2>1. CASE ~Holds(w)
    BY <1>0, <1>6, <2>1, QuietStep DEF Heartbeat
  <2>2. CASE Holds(w)
    <3>1. run' = [run EXCEPT ![j] = [run[j] EXCEPT !.live = TRUE]] /\ UNCHANGED <<job, step, artifacts, cancel, held, pc>>
      BY <1>6, <2>2 DEF Heartbeat
    <3>2. \A k \in Jobs : /\ run'[k].attempts = run[k].attempts /\ run'[k].status = run[k].status
                          /\ run'[k].token = run[k].token
                          /\ (run'[k].live => run[k].live \/ run[k].status = "running")
      BY <1>0, <1>t, <1>h, <2>2, <3>1 DEF TypeOK, Run, Holds
    <3>3. AttemptsIssued' /\ AttemptsDiffer'
      BY <1>h, <3>1, <3>2, AttemptsKept DEF JobInv
    <3> QED
      BY <1>0, <1>h, <3>1, <3>2, <3>3 DEF JobInv, LeaseShape, UnsubmittedIsIdle,
         VerifyingIsCurrent, QueuedIsFree, EndsAgree, SucceededIsComplete, Exhausted
  <2> QED
    BY <2>1, <2>2
<1>7. ASSUME NEW w \in Workers, Recover(w) PROVE JobInv'
  <2> DEFINE uncertain == {k \in Interrupted : checkpoint[k] = "in_flight"}
             exhausted == {k \in Interrupted \ uncertain : Exhausted(k)}
             stopped   == uncertain \cup exhausted
             requeued  == Interrupted \ stopped
             Stopped(k)  == job'[k] = "failed" /\ run'[k] = Finished(run[k], "failed")
             Requeued(k) == /\ job'[k] = "queued" /\ ~Exhausted(k)
                            /\ run'[k] = Finished(run[k], "queued")
             Cleaned(k)  == artifacts'[k] = artifacts[k] \ Unverified(k)
             Kept(k) == job'[k] = job[k] /\ run'[k] = run[k] /\ step'[k] = step[k]
                        /\ artifacts'[k] = artifacts[k]
  <2>1. \A k \in Jobs : (k \in Interrupted /\ Cleaned(k) /\ (Stopped(k) \/ Requeued(k))) \/ Kept(k)
    <3> SUFFICES ASSUME NEW k \in Jobs
                 PROVE  (k \in Interrupted /\ Cleaned(k) /\ (Stopped(k) \/ Requeued(k))) \/ Kept(k)
      OBVIOUS
    <3>1. CASE k \in stopped
      <4>1. Stopped(k)
        BY <1>7, <3>1 DEF Recover
      <4>2. Cleaned(k) /\ k \in Interrupted
        BY <1>7, <3>1 DEF Recover
      <4> QED
        BY <4>1, <4>2
    <3>2. CASE k \in requeued
      <4>1. Requeued(k)
        BY <1>7, <3>2 DEF Recover
      <4>2. Cleaned(k) /\ k \in Interrupted
        BY <1>7, <3>2 DEF Recover
      <4> QED
        BY <4>1, <4>2
    <3>3. CASE k \notin Interrupted
      BY <1>7, <3>3 DEF Recover
    <3> QED
      BY <3>1, <3>2, <3>3
  <2>2. \A k \in Interrupted : job[k] \in ActiveStatus
    BY DEF Interrupted
  <2>3. UNCHANGED <<held, cancel>> /\ pc' = [pc EXCEPT ![w] = "claiming"]
    BY <1>7 DEF Recover, Goto
  <2>4. \A v \in Workers : /\ pc'[v] \in Busy => pc[v] \in Busy
                           /\ pc'[v] = "verifying" => pc[v] = "verifying"
    BY <1>0, <2>3 DEF TypeOK, Busy, Sections
  <2>5. \A k \in Jobs : run'[k].attempts = run[k].attempts
    BY <1>t, <2>1 DEF Finished, Run
  <2>6. AttemptsIssued' /\ AttemptsDiffer'
    BY <1>h, <2>3, <2>4, <2>5, AttemptsKept DEF JobInv
  <2>7. LeaseShape' /\ QueuedIsFree' /\ EndsAgree'
    BY <1>t, <2>1, <2>5
       DEF JobInv, LeaseShape, QueuedIsFree, EndsAgree, Finished, Run, Exhausted
  <2>8. UnsubmittedIsIdle'
    BY <2>1, <2>3, <2>5 DEF JobInv, UnsubmittedIsIdle, Finished, Run
  <2>9. VerifyingIsCurrent'
    BY <1>h, <2>1, <2>3, <2>4, <2>5 DEF JobInv, VerifyingIsCurrent, Unverified
  <2>10. SucceededIsComplete'
    BY <2>1, <2>2, <2>5 DEF JobInv, SucceededIsComplete, ActiveStatus
  <2> QED
    BY <1>0, <2>6, <2>7, <2>8, <2>9, <2>10 DEF JobInv
<1>9. ASSUME NEW w \in Workers, NEW j \in Jobs, Claim(w, j) PROVE JobInv'
  <2> DEFINE attempt == run[j].attempts + 1
  <2>1. /\ job' = [job EXCEPT ![j] = "running"] /\ job[j] = "queued"
        /\ run' = [run EXCEPT ![j] = [status |-> "running", attempts |-> attempt,
                                      token |-> attempt, live |-> TRUE]]
        /\ held' = [held EXCEPT ![w] = [job |-> j, attempt |-> attempt]]
        /\ UNCHANGED <<artifacts, cancel>>
        /\ \A k \in Jobs : k # j => step'[k] = step[k]
        /\ pc' = [pc EXCEPT ![w] = "claimed"] /\ pc[w] = "claiming"
    <3>1. ~Exhausted(j)
      BY <1>9 DEF Claim, JobInv, QueuedIsFree
    <3> QED
      BY <1>0, <1>9, <3>1 DEF Claim, Goto, TypeOK
  <2>2. \A k \in Jobs : IF k = j THEN run'[k].attempts = attempt ELSE run'[k] = run[k]
    BY <1>0, <2>1 DEF TypeOK
  <2>3. \A v \in Workers : v # w => held'[v] = held[v] /\ pc'[v] = pc[v]
    BY <1>0, <2>1 DEF TypeOK
  <2>4. held'[w] = [job |-> j, attempt |-> attempt] /\ pc'[w] = "claimed"
    BY <1>0, <2>1 DEF TypeOK
  <2>5. \A v \in Workers : held[v].attempt <= run[held[v].job].attempts
    BY DEF JobInv, AttemptsIssued
  <2>6. AttemptsIssued'
    BY <1>t, <1>h, <2>2, <2>3, <2>4 DEF JobInv, AttemptsIssued
  <2>7. AttemptsDiffer'
    BY <1>t, <1>h, <2>3, <2>4, <2>5 DEF JobInv, AttemptsDiffer
  <2>8. LeaseShape' /\ QueuedIsFree' /\ EndsAgree'
    BY <1>0, <1>t, <2>1, <2>2
       DEF JobInv, TypeOK, LeaseShape, QueuedIsFree, EndsAgree, Exhausted
  <2>9. UnsubmittedIsIdle' /\ SucceededIsComplete'
    BY <1>0, <2>1, <2>2 DEF JobInv, TypeOK, UnsubmittedIsIdle, SucceededIsComplete
  <2>10. VerifyingIsCurrent'
    BY <1>0, <1>h, <2>1, <2>2, <2>3, <2>4 DEF JobInv, TypeOK, VerifyingIsCurrent
  <2> QED
    BY <1>0, <2>6, <2>7, <2>8, <2>9, <2>10 DEF JobInv
\* A Worker that ends, or finds ended, an attempt whose job is cancelled.
<1>10. ASSUME NEW w \in Workers, SettleCancelled(w) \/ Begin(w) PROVE JobInv'
  <2> DEFINE j == held[w].job
  <2>1. /\ UNCHANGED <<job, artifacts, cancel, held>> /\ pc[w] \in Busy
        /\ run' = [run EXCEPT ![j] = Finished(run[j], "cancelled")] \/ run' = run
    BY <1>0, <1>h, <1>10 DEF SettleCancelled, Begin, TypeOK, Busy
  <2>c. \A k \in Jobs : step[k]["verify"] \in {"succeeded", "skipped"}
                       => step'[k]["verify"] \in {"succeeded", "skipped"}
    <3>1. /\ Settle(step[j], "skipped", "skipped")["verify"] \in {"skipped", step[j]["verify"]}
          /\ [s \in Steps |-> "skipped"]["verify"] = "skipped"
      BY DEF Settle, Steps
    <3>2. \/ step' = [step EXCEPT ![j] = Settle(step[j], "skipped", "skipped")]
          \/ step' = [step EXCEPT ![j] = [s \in Steps |-> "skipped"]]
          \/ step' = step
      BY <1>10 DEF SettleCancelled, Begin
    <3> QED
      BY <1>0, <1>h, <3>1, <3>2 DEF TypeOK
  <2>2. \A v \in Workers : /\ pc'[v] \in Busy => pc[v] \in Busy
                           /\ pc'[v] = "verifying" => pc[v] = "verifying"
    BY <1>0, <1>10 DEF SettleCancelled, Begin, Leave, Goto, TypeOK, Busy, Sections
  <2>a. \A k \in Jobs : \/ run'[k] = run[k]
                        \/ k = j /\ run'[k] = Finished(run[k], "cancelled")
    BY <1>0, <2>1 DEF TypeOK
  <2>b. \A k \in Jobs : LET f == Finished(run[k], "cancelled") IN
          /\ f.status = "cancelled" /\ f.attempts = run[k].attempts
          /\ f.token = 0 /\ f.live = FALSE
    BY <1>t DEF Finished, Run
  <2>3. \A k \in Jobs : run'[k].attempts = run[k].attempts
    BY <2>a, <2>b
  <2>4. AttemptsIssued' /\ AttemptsDiffer'
    BY <1>h, <2>1, <2>2, <2>3, AttemptsKept DEF JobInv
  <2>5. job[j] # "none"
    BY <2>1, BusyIsSubmitted
  <2>6. LeaseShape' /\ QueuedIsFree'
    BY <2>1, <2>3, <2>a, <2>b DEF JobInv, LeaseShape, QueuedIsFree, Exhausted
  <2>7. EndsAgree'
    BY <2>1, <2>a, <2>b DEF JobInv, EndsAgree
  <2>8. UnsubmittedIsIdle'
    BY <2>1, <2>3, <2>5, <2>a DEF JobInv, UnsubmittedIsIdle
  <2>9. VerifyingIsCurrent'
    BY <1>h, <2>1, <2>2, <2>3 DEF JobInv, VerifyingIsCurrent
  <2>10. SucceededIsComplete'
    BY <2>1, <2>3, <2>c DEF JobInv, SucceededIsComplete
  <2> QED
    BY <1>0, <2>4, <2>6, <2>7, <2>8, <2>9, <2>10 DEF JobInv
<1>11. ASSUME NEW w \in Workers, Produce(w) \/ Store(w) PROVE JobInv'
  <2> DEFINE j == held[w].job
             mine == [attempt |-> held[w].attempt, verified |-> FALSE]
  <2>1. /\ UNCHANGED <<run, cancel, held>>
        /\ job' = [job EXCEPT ![j] = "producing_artifacts"] \/ job' = [job EXCEPT ![j] = "verifying"]
        /\ \A k \in Jobs : k # j => step'[k] = step[k]
        /\ pc[w] \in Busy
        /\ pc' = [pc EXCEPT ![w] = "collecting"] \/ pc' = [pc EXCEPT ![w] = "stored"]
        /\ artifacts' = artifacts \/ artifacts' = [artifacts EXCEPT ![j] = @ \cup {mine}]
    BY <1>0, <1>h, <1>11 DEF Produce, Store, Goto, TypeOK, Busy, Sections
  <2>2. \A v \in Workers : /\ pc'[v] \in Busy => pc[v] \in Busy
                           /\ pc'[v] = "verifying" => pc[v] = "verifying" /\ v # w
    BY <1>0, <2>1 DEF TypeOK
  <2>3. AttemptsIssued' /\ AttemptsDiffer'
    BY <2>1, <2>2, AttemptsKept DEF JobInv
  <2>4. job[j] # "none"
    BY <2>1, BusyIsSubmitted
  <2>5. VerifyingIsCurrent'
    <3> SUFFICES ASSUME NEW v \in Workers, pc'[v] = "verifying",
                        [attempt |-> held[v].attempt, verified |-> FALSE] \in artifacts'[held[v].job]
                 PROVE  held[v].attempt = run[held[v].job].attempts /\ job'[held[v].job] # "queued"
      BY <2>1 DEF VerifyingIsCurrent
    <3>1. pc[v] = "verifying" /\ v # w /\ pc[v] \in Busy
      BY <2>2 DEF Busy, Sections
    <3>2. held[v].job = j => held[v].attempt # held[w].attempt
      BY <2>1, <3>1 DEF JobInv, AttemptsDiffer
    <3>3. [attempt |-> held[v].attempt, verified |-> FALSE] \in artifacts[held[v].job]
      BY <1>0, <1>h, <2>1, <3>2 DEF TypeOK
    <3> QED
      BY <1>0, <1>h, <2>1, <3>1, <3>3 DEF JobInv, VerifyingIsCurrent, TypeOK
  <2>6. LeaseShape' /\ QueuedIsFree' /\ EndsAgree' /\ UnsubmittedIsIdle'
    BY <1>0, <1>h, <2>1, <2>4
       DEF JobInv, TypeOK, LeaseShape, QueuedIsFree, EndsAgree, UnsubmittedIsIdle, Exhausted
  <2>7. SucceededIsComplete'
    BY <1>0, <1>h, <2>1 DEF JobInv, TypeOK, SucceededIsComplete
  <2> QED
    BY <1>0, <2>3, <2>5, <2>6, <2>7 DEF JobInv
<1>12. ASSUME NEW w \in Workers, StoredCheck(w) PROVE JobInv'
  <2> DEFINE j == held[w].job
  <2>1. UNCHANGED <<job, run, step, artifacts, cancel, held>> /\ pc[w] = "stored"
        /\ pc' = [pc EXCEPT ![w] = "verifying"]
    BY <1>12 DEF StoredCheck, Goto, rows
  <2>2. run[j].status = "running" /\ run[j].token = held[w].attempt
    BY <1>12 DEF StoredCheck, FreshLease, Holds
  <2>3. held[w].attempt = run[j].attempts /\ job[j] # "queued"
    BY <1>h, <2>2 DEF JobInv, LeaseShape, QueuedIsFree
  <2>4. \A v \in Workers : /\ pc'[v] \in Busy => pc[v] \in Busy
                           /\ pc'[v] = "verifying" => pc[v] = "verifying" \/ v = w
    BY <1>0, <2>1 DEF TypeOK, Busy, Sections
  <2>5. AttemptsIssued' /\ AttemptsDiffer'
    BY <2>1, <2>4, AttemptsKept DEF JobInv
  <2>6. VerifyingIsCurrent'
    BY <2>1, <2>3, <2>4 DEF JobInv, VerifyingIsCurrent
  <2> QED
    BY <1>0, <2>1, <2>5, <2>6 DEF JobInv, LeaseShape, UnsubmittedIsIdle, QueuedIsFree,
       EndsAgree, SucceededIsComplete, Exhausted
<1>13. ASSUME NEW w \in Workers, Succeed(w) PROVE JobInv'
  <2> DEFINE j == held[w].job
             mine == [attempt |-> held[w].attempt, verified |-> FALSE]
             done == [attempt |-> held[w].attempt, verified |-> TRUE]
  <2>1. /\ pc[w] = "verifying" /\ mine \in artifacts[j]
        /\ job' = [job EXCEPT ![j] = "succeeded"]
        /\ run' = [run EXCEPT ![j] = Finished(run[j], "succeeded")]
        /\ UNCHANGED <<cancel, held>>
        /\ pc' = [pc EXCEPT ![w] = "recovering"]
    BY <1>13 DEF Succeed, Leave, Goto
  <2>2. artifacts' = [artifacts EXCEPT ![j] = (@ \ {mine}) \cup {done}]
    BY <1>13 DEF Succeed
  <2>3. step'[j]["verify"] = "succeeded" /\ \A k \in Jobs : k # j => step'[k] = step[k]
    BY <1>0, <1>h, <1>13 DEF Succeed, TypeOK, Steps
  <2>4. \A k \in Jobs : run'[k].attempts = run[k].attempts
    BY <1>0, <1>t, <2>1 DEF TypeOK, Finished, Run
  <2>5. \A v \in Workers : /\ pc'[v] \in Busy => pc[v] \in Busy
                           /\ pc'[v] = "verifying" => pc[v] = "verifying"
    BY <1>0, <2>1 DEF TypeOK, Busy, Sections
  <2>6. AttemptsIssued' /\ AttemptsDiffer'
    BY <1>h, <2>1, <2>4, <2>5, AttemptsKept DEF JobInv
  <2>7. held[w].attempt = run[j].attempts
    BY <2>1 DEF JobInv, VerifyingIsCurrent
  <2>8. LeaseShape' /\ QueuedIsFree' /\ EndsAgree'
    BY <1>0, <1>t, <2>1, <2>4
       DEF JobInv, TypeOK, LeaseShape, QueuedIsFree, EndsAgree, Finished, Run, Exhausted
  <2>9. UnsubmittedIsIdle'
    BY <1>0, <2>1 DEF JobInv, TypeOK, UnsubmittedIsIdle
  <2>10. VerifyingIsCurrent'
    BY <1>0, <1>h, <2>1, <2>2, <2>4, <2>5 DEF JobInv, TypeOK, VerifyingIsCurrent
  <2>11. SucceededIsComplete'
    BY <1>0, <1>h, <2>1, <2>2, <2>3, <2>4, <2>7 DEF JobInv, TypeOK, SucceededIsComplete
  <2> QED
    BY <1>0, <2>6, <2>8, <2>9, <2>10, <2>11 DEF JobInv
<1>14. ASSUME NEW w \in Workers, FailAttempt(w) \/ Timeout(w) PROVE JobInv'
  <2> DEFINE j == held[w].job
  <2>1. /\ UNCHANGED <<artifacts, cancel, held>>
        /\ pc' = [pc EXCEPT ![w] = "recovering"]
        /\ pc[w] \in Busy
    BY <1>14 DEF FailAttempt, Timeout, Leave, Goto, rows, Busy, Sections
  <2>2. \A v \in Workers : /\ pc'[v] \in Busy => pc[v] \in Busy
                           /\ pc'[v] = "verifying" => pc[v] = "verifying"
    BY <1>0, <2>1 DEF TypeOK, Busy, Sections
  <2>3. CASE UNCHANGED <<job, run, step>>
    BY <1>0, <2>1, <2>2, <2>3, QuietStep
  <2>4. CASE ~UNCHANGED <<job, run, step>>
    <3>1. /\ job' = [job EXCEPT ![j] = "failed"] \/ job' = [job EXCEPT ![j] = "blocked"]
          /\ run' = [run EXCEPT ![j] = Finished(run[j], "failed")]
          /\ \A k \in Jobs : k # j => step'[k] = step[k]
      BY <1>0, <1>h, <1>14, <2>4 DEF FailAttempt, Timeout, rows, TypeOK
    <3>2. \A k \in Jobs : run'[k].attempts = run[k].attempts
      BY <1>0, <1>t, <3>1 DEF TypeOK, Finished, Run
    <3>3. AttemptsIssued' /\ AttemptsDiffer'
      BY <1>h, <2>1, <2>2, <3>2, AttemptsKept DEF JobInv
    <3>4. LeaseShape' /\ QueuedIsFree' /\ EndsAgree'
      BY <1>0, <1>t, <3>1, <3>2
         DEF JobInv, TypeOK, LeaseShape, QueuedIsFree, EndsAgree, Finished, Run, Exhausted
    <3>5. UnsubmittedIsIdle' /\ SucceededIsComplete'
      BY <1>0, <2>1, <3>1 DEF JobInv, TypeOK, UnsubmittedIsIdle, SucceededIsComplete
    <3>6. VerifyingIsCurrent'
      <4>1. \A k \in Jobs : job'[k] = "queued" => job[k] = "queued"
        BY <1>0, <3>1 DEF TypeOK
      <4> QED
        BY <1>h, <2>1, <2>2, <3>2, <4>1 DEF JobInv, VerifyingIsCurrent
    <3> QED
      BY <1>0, <3>3, <3>4, <3>5, <3>6 DEF JobInv
  <2> QED
    BY <2>3, <2>4
<1>15. CASE UNCHANGED vars
  BY <1>0, <1>15, QuietStep DEF vars, rows
<1> QED
  BY <1>1, <1>2, <1>3, <1>4, <1>5, <1>6, <1>7, <1>9, <1>10, <1>11, <1>12, <1>13, <1>14, <1>15
  DEF Next, WorkerStep, JobStep, Loop, EndOfWork, Proceed

-----------------------------------------------------------------------------
(* The theorems.                                                           *)

\* The invariant holds of every behaviour of the job rows and the Workers.
THEOREM JobInvariant == Spec => []JobInv
<1> QED
  BY InvInit, InvStep, PTL DEF Spec

\* Every variable of the job rows and of the Workers keeps its type.
THEOREM TypeCorrect == Spec => []TypeOK
<1>1. JobInv => TypeOK
  BY DEF JobInv
<1> QED
  BY <1>1, JobInvariant, PTL

\* A queued job has no lease and an attempt left.
THEOREM QueuedJobsAreFree == Spec => []QueuedIsFree
<1>1. JobInv => QueuedIsFree
  BY DEF JobInv
<1> QED
  BY <1>1, JobInvariant, PTL

\* A finished job and its run tell the same end.
THEOREM RowsAgree == Spec => []EndsAgree
<1>1. JobInv => EndsAgree
  BY DEF JobInv
<1> QED
  BY <1>1, JobInvariant, PTL

\* A job that succeeded has delivered verified artifacts of its last attempt.
THEOREM SuccessDelivers == Spec => []SucceededIsComplete
<1>1. JobInv => SucceededIsComplete
  BY DEF JobInv
<1> QED
  BY <1>1, JobInvariant, PTL

\* Only the attempt started last publishes the outcome of a job.
THEOREM LastAttemptPublishes == Spec => OutcomeOfLastAttempt
<1> DEFINE Publishes == \A w \in Workers : (Succeed(w) \/ FailAttempt(w) \/ Timeout(w)) =>
              \A j \in Jobs : job'[j] # job[j] =>
                  j = held[w].job /\ held[w].attempt = run[j].attempts
<1>1. JobInv /\ [Next]_vars => [Publishes]_vars
  <2> SUFFICES ASSUME JobInv, NEW w \in Workers, Succeed(w) \/ FailAttempt(w) \/ Timeout(w),
                      NEW j \in Jobs, job'[j] # job[j]
               PROVE  j = held[w].job /\ held[w].attempt = run[j].attempts
    OBVIOUS
  <2>1. TypeOK /\ held[w].job \in Jobs
    BY DEF JobInv, TypeOK
  <2>2. CASE Succeed(w)
    BY <2>1, <2>2 DEF Succeed, JobInv, TypeOK, VerifyingIsCurrent
  <2>3. CASE FailAttempt(w) \/ Timeout(w)
    <3>1. j = held[w].job /\ FreshLease(w)
      BY <2>1, <2>3 DEF FailAttempt, Timeout, rows, TypeOK
    <3> QED
      BY <3>1 DEF FreshLease, Holds, JobInv, LeaseShape
  <2> QED
    BY <2>2, <2>3
<1> QED
  BY <1>1, JobInvariant, PTL DEF Spec, OutcomeOfLastAttempt

\* No failure replaces an end that a job already has.
THEOREM EndsSurviveFailures == Spec => FailureNeverReplacesAnEnd
<1> DEFINE Fails == \A j \in Jobs : job'[j] \in {"failed", "blocked"} /\ job'[j] # job[j] =>
              job[j] \notin Terminal
<1>1. JobInv /\ [Next]_vars => [Fails]_vars
  <2> SUFFICES ASSUME JobInv, Next, NEW j \in Jobs,
                      job'[j] \in {"failed", "blocked"}, job'[j] # job[j]
               PROVE  job[j] \notin Terminal
    OBVIOUS
  <2>1. TypeOK /\ \A w \in Workers : held[w].job \in Jobs
    BY DEF JobInv, TypeOK
  <2>2. ASSUME NEW w \in Workers, Recover(w) PROVE job[j] \notin Terminal
    <3>1. j \in Interrupted
      BY <2>2 DEF Recover
    <3> QED
      BY <3>1 DEF Interrupted, ActiveStatus, Terminal
  <2>3. ASSUME NEW w \in Workers, NEW k \in Jobs, Claim(w, k)
        PROVE  job[j] \notin Terminal
    BY <2>1, <2>3 DEF Claim, Terminal, TypeOK
  <2>4. ASSUME NEW w \in Workers, FailAttempt(w) \/ Timeout(w)
        PROVE  job[j] \notin Terminal
    <3>1. j = held[w].job /\ FreshLease(w)
      BY <2>1, <2>4 DEF FailAttempt, Timeout, rows, TypeOK
    <3> QED
      BY <3>1 DEF FreshLease, Holds, JobInv, EndsAgree, Terminal
  <2>5. ASSUME NEW w \in Workers, Produce(w) \/ Store(w) \/ Succeed(w)
        PROVE  FALSE
    BY <2>1, <2>5 DEF Produce, Store, Succeed, TypeOK
  <2>6. ASSUME NEW k \in Jobs, Submit(k) \/ CancelCommit(k) PROVE FALSE
    BY <2>1, <2>6 DEF Submit, CancelCommit, TypeOK
  <2>7. ASSUME NEW w \in Workers,
               \/ WorkerStart(w) \/ WorkerCrash(w) \/ ClaimNothing(w) \/ Begin(w)
               \/ Heartbeat(w) \/ HeartbeatError(w) \/ SeenExpires(w) \/ Poll(w)
               \/ WorkDone(w) \/ LeaseLost(w) \/ Raise(w) \/ PollAnswer(w) \/ SettleCancelled(w)
               \/ Persist(w) \/ StoredCheck(w)
               \/ \E status \in {"ready", "in_flight"} : PublishCheckpoint(w, status)
        PROVE  FALSE
    BY <2>7 DEF WorkerStart, WorkerCrash, ClaimNothing, Begin, Heartbeat, HeartbeatError,
       SeenExpires, Poll, WorkDone, LeaseLost, Raise, PollAnswer, SettleCancelled, Persist, StoredCheck,
       PublishCheckpoint, rows
  <2>8. ASSUME NEW k \in Jobs, CancelRead(k) \/ LeaseExpires(k) PROVE FALSE
    BY <2>8 DEF CancelRead, LeaseExpires, rows
  <2> QED
    BY <2>2, <2>3, <2>4, <2>5, <2>6, <2>7, <2>8
    DEF Next, WorkerStep, JobStep, Loop, EndOfWork, Proceed
<1> QED
  BY <1>1, JobInvariant, PTL DEF Spec, FailureNeverReplacesAnEnd

-----------------------------------------------------------------------------
(* The promise to the callers.                                             *)

LEMMA ResultsInit == Init => ResultsOnce
<1> SUFFICES ASSUME Init PROVE ResultsOnce
  OBVIOUS
<1>1. \A w \in Workers : pc[w] = "down" /\ held[w].job \in Jobs
  BY DEF Init
<1>2. \A j \in Jobs : artifacts[j] = {}
  BY DEF Init
<1> QED
  BY <1>1, <1>2 DEF ResultsOnce, Busy, Sections

Mine(w) == [attempt |-> held[w].attempt, verified |-> FALSE]

\* A step that starts and publishes nothing, stores at most an unverified artifact
\* of an attempt at work, and declares no job failed preserves ResultsOnce.
LEMMA ResultsKept ==
    ASSUME JobInv, ResultsOnce, held' = held,
           \A w \in Workers : pc'[w] \in Busy => pc[w] \in Busy,
           \A j \in Jobs : run'[j].attempts = run[j].attempts,
           \A j \in Jobs : \A a \in artifacts'[j] :
               a \in artifacts[j] \/ \E w \in Workers : held[w].job = j /\ a = Mine(w),
           \A w \in Workers : pc'[w] = "verifying" /\ Mine(w) \in artifacts'[held[w].job]
               => job'[held[w].job] \notin {"failed", "blocked"}
    PROVE  ResultsOnce'
<1>1. \A w \in Workers : held[w].job \in Jobs
  BY DEF JobInv, TypeOK
<1>2. \A w \in Workers : held[w].attempt <= run[held[w].job].attempts
  BY DEF JobInv, AttemptsIssued
<1>3. \A w \in Workers : Mine(w).attempt = held[w].attempt /\ ~Mine(w).verified
  BY DEF Mine
<1>4. \A j \in Jobs : \A a \in artifacts'[j] : a.attempt <= run'[j].attempts
  BY <1>1, <1>2, <1>3 DEF ResultsOnce
<1>5. \A w \in Workers : pc'[w] \in Busy =>
         \A a \in artifacts'[held[w].job] : a.verified => a.attempt # held[w].attempt
  BY <1>1, <1>3 DEF ResultsOnce
<1> QED
  BY <1>4, <1>5 DEF ResultsOnce, Mine

\* What a step may do to one job, as its caller sees it.
LEMMA Moves ==
    ASSUME NEW j \in Jobs, TypeOK, TypeOK',
           run'[j].attempts = run[j].attempts, Published(j)' = Published(j),
           \/ job'[j] = job[j]
           \/ job[j] = "none" /\ job'[j] = "queued"
           \/ job[j] \in ActiveStatus /\ job'[j] = "queued" /\ run[j].attempts < MaxAttempts
           \/ job[j] \in ActiveStatus \cup {"queued"} /\ job'[j] \in {"failed", "blocked"}
           \/ job[j] # "none" /\ job'[j] = "cancelled"
           \/ job[j] # "none" /\ job'[j] \in ActiveStatus
    PROVE  Promise!Move(j)
<1>1. job[j] \in JobStatus /\ job'[j] \in JobStatus
  BY DEF TypeOK
<1>2. /\ ([k \in Jobs |-> View(job[k])])[j] = View(job[j])
      /\ ([k \in Jobs |-> View(job'[k])])[j] = View(job'[j])
      /\ ([k \in Jobs |-> run[k].attempts])[j] = run[j].attempts
      /\ ([k \in Jobs |-> run'[k].attempts])[j] = run'[j].attempts
  OBVIOUS
<1> QED
  BY <1>1, <1>2 DEF Promise!Move, Promise!Rest, Promise!Accept, Promise!GiveBack, Promise!Refuse,
     Promise!Withdraw, Promise!Relapse, Promise!Goes, Promise!Keeps, View, JobStatus, ActiveStatus, Terminal

\* A step that leaves statuses, attempts and artifacts alone shows nothing.
LEMMA UnseenStep ==
    ASSUME JobInv, TypeOK', ResultsOnce, UNCHANGED <<job, artifacts, held>>,
           \A w \in Workers : pc'[w] \in Busy => pc[w] \in Busy,
           \A w \in Workers : pc'[w] = "verifying" =>
               pc[w] = "verifying" \/ job[held[w].job] \notin {"failed", "blocked"},
           \A j \in Jobs : run'[j].attempts = run[j].attempts
    PROVE  ResultsOnce' /\ \A j \in Jobs : Promise!Move(j)
<1>0. TypeOK /\ \A w \in Workers : held[w].job \in Jobs
  BY DEF JobInv, TypeOK
<1>1. ResultsOnce'
  <2>1. \A w \in Workers : pc'[w] = "verifying" /\ Mine(w) \in artifacts'[held[w].job]
               => job'[held[w].job] \notin {"failed", "blocked"}
    BY DEF ResultsOnce, Mine
  <2> QED
    BY <2>1, ResultsKept
<1>2. \A j \in Jobs : Published(j)' = Published(j)
  BY DEF Published
<1> QED
  BY <1>0, <1>1, <1>2, Moves

\* Every step preserves ResultsOnce and is one of the promise, for each job.
LEMMA PromiseStep ==
    ASSUME JobInv, ResultsOnce, Next
    PROVE  ResultsOnce' /\ \A j \in Jobs : Promise!Move(j)
<1>0. TypeOK /\ TypeOK'
  BY TypeStep DEF JobInv
<1>t. \A j \in Jobs : run[j] \in Run /\ run[j].attempts \in Nat
  BY <1>0, JobLifecycleAssumption DEF TypeOK, Run, Attempts
<1>h. \A w \in Workers : held[w].job \in Jobs /\ held[w].attempt \in Nat
  BY <1>0, JobLifecycleAssumption DEF TypeOK, Attempts
<1>f. \A r \in Run : \A s \in RunStatus : Finished(r, s).attempts = r.attempts
  BY DEF Finished, Run
\* Steps of a Worker that touch no status, attempt count or artifact.
<1>1. ASSUME NEW w \in Workers,
             \/ WorkerStart(w) \/ WorkerCrash(w) \/ ClaimNothing(w)
             \/ HeartbeatError(w) \/ SeenExpires(w) \/ Poll(w) \/ PollAnswer(w)
             \/ WorkDone(w) \/ LeaseLost(w) \/ Raise(w) \/ Persist(w)
             \/ \E status \in {"ready", "in_flight"} : PublishCheckpoint(w, status)
      PROVE  ResultsOnce' /\ \A j \in Jobs : Promise!Move(j)
  <2>1. UNCHANGED <<job, run, artifacts, held>>
    BY <1>1 DEF WorkerStart, WorkerCrash, ClaimNothing, HeartbeatError, SeenExpires,
       Poll, PollAnswer, WorkDone, LeaseLost, Raise, Persist, PublishCheckpoint, Leave, rows
  <2>2. \A v \in Workers : /\ pc'[v] \in Busy => pc[v] \in Busy
                           /\ pc'[v] = "verifying" => pc[v] = "verifying"
    BY <1>0, <1>1 DEF WorkerStart, WorkerCrash, ClaimNothing, HeartbeatError, SeenExpires,
       Poll, PollAnswer, WorkDone, LeaseLost, Raise, Persist, PublishCheckpoint, Leave, Goto, Busy, Sections,
       TypeOK
  <2> QED
    BY <1>0, <2>1, <2>2, UnseenStep
<1>2. ASSUME NEW w \in Workers, StoredCheck(w)
      PROVE  ResultsOnce' /\ \A j \in Jobs : Promise!Move(j)
  <2>1. /\ UNCHANGED <<job, run, artifacts, held>>
        /\ pc[w] = "stored" /\ pc' = [pc EXCEPT ![w] = "verifying"]
        /\ run[held[w].job].status = "running"
    BY <1>2 DEF StoredCheck, Goto, rows, FreshLease, Holds
  <2>2. job[held[w].job] \notin {"failed", "blocked"}
    BY <1>h, <2>1 DEF JobInv, EndsAgree
  <2>3. \A v \in Workers : /\ pc'[v] \in Busy => pc[v] \in Busy
                           /\ pc'[v] = "verifying" => pc[v] = "verifying" \/ v = w
    BY <1>0, <2>1 DEF Busy, Sections, TypeOK
  <2> QED
    BY <1>0, <2>1, <2>2, <2>3, UnseenStep
<1>3. ASSUME NEW w \in Workers, Begin(w) \/ Heartbeat(w) \/ SettleCancelled(w)
      PROVE  ResultsOnce' /\ \A j \in Jobs : Promise!Move(j)
  <2>1. /\ UNCHANGED <<job, artifacts, held>>
        /\ \/ run' = run
           \/ run' = [run EXCEPT ![held[w].job] = Finished(run[held[w].job], "cancelled")]
           \/ run' = [run EXCEPT ![held[w].job] = [run[held[w].job] EXCEPT !.live = TRUE]]
    BY <1>3 DEF Begin, Heartbeat, SettleCancelled
  <2>r. run \in [Jobs -> Run] /\ "cancelled" \in RunStatus
    BY <1>0 DEF TypeOK, RunStatus
  <2>l. \A r \in Run : [r EXCEPT !.live = TRUE].attempts = r.attempts
    BY DEF Run
  <2>2. \A j \in Jobs : run'[j].attempts = run[j].attempts
    <3> HIDE DEF Run, RunStatus
    <3> DEFINE k == held[w].job
    <3>1. k \in Jobs /\ run[k] \in Run
      BY <1>h, <2>r
    <3>2. Finished(run[k], "cancelled").attempts = run[k].attempts
      BY <1>f, <2>r, <3>1
    <3>3. [run[k] EXCEPT !.live = TRUE].attempts = run[k].attempts
      BY <2>l, <3>1
    <3>4. \E r : /\ run' = run \/ run' = [run EXCEPT ![k] = r]
                 /\ r.attempts = run[k].attempts
      BY <2>1, <3>2, <3>3
    <3> QED
      BY <2>r, <3>1, <3>4
  <2>3. \A v \in Workers : /\ pc'[v] \in Busy => pc[v] \in Busy
                           /\ pc'[v] = "verifying" => pc[v] = "verifying"
    BY <1>0, <1>3 DEF Begin, Heartbeat, SettleCancelled, Goto, Leave, Busy, Sections, TypeOK
  <2> QED
    BY <1>0, <2>1, <2>2, <2>3, UnseenStep
<1>4. ASSUME NEW k \in Jobs, CancelRead(k) \/ LeaseExpires(k)
      PROVE  ResultsOnce' /\ \A j \in Jobs : Promise!Move(j)
  <2>1. /\ UNCHANGED <<job, artifacts, held, pc>>
        /\ run' = run \/ run' = [run EXCEPT ![k].live = FALSE]
    BY <1>4 DEF CancelRead, LeaseExpires, rows
  <2>2. \A j \in Jobs : run'[j].attempts = run[j].attempts
    BY <1>0, <1>t, <2>1 DEF TypeOK, Run
  <2> QED
    BY <1>0, <2>1, <2>2, UnseenStep
<1>5. ASSUME NEW k \in Jobs, Submit(k) \/ CancelCommit(k)
      PROVE  ResultsOnce' /\ \A j \in Jobs : Promise!Move(j)
  <2>1. /\ UNCHANGED <<artifacts, held, pc>>
        /\ run' = run \/ run' = [run EXCEPT ![k] = Finished(@, "cancelled")]
        /\ \/ job[k] = "none" /\ job' = [job EXCEPT ![k] = "queued"]
           \/ job[k] # "none" /\ job' = [job EXCEPT ![k] = "cancelled"]
    BY <1>5 DEF Submit, CancelCommit, JobInv, UnsubmittedIsIdle
  <2>2. \A j \in Jobs : run'[j].attempts = run[j].attempts
    BY <1>0, <1>t, <1>f, <2>1 DEF TypeOK, Run, RunStatus
  <2>3. \A j \in Jobs : job'[j] = job[j] \/ job'[j] \notin {"failed", "blocked"}
    BY <1>0, <2>1 DEF TypeOK
  <2>4. ResultsOnce'
    <3>1. \A w \in Workers : pc'[w] = "verifying" /\ Mine(w) \in artifacts'[held[w].job]
               => job'[held[w].job] \notin {"failed", "blocked"}
      BY <1>h, <2>1, <2>3 DEF ResultsOnce, Mine
    <3> QED
      BY <2>1, <2>2, <3>1, ResultsKept
  <2>5. \A j \in Jobs : Published(j)' = Published(j)
    BY <2>1 DEF Published
  <2>6. \A j \in Jobs : \/ job'[j] = job[j]
                        \/ job[j] = "none" /\ job'[j] = "queued"
                        \/ job[j] # "none" /\ job'[j] = "cancelled"
    BY <1>0, <2>1 DEF TypeOK
  <2> QED
    BY <1>0, <2>2, <2>4, <2>5, <2>6, Moves
<1>6. ASSUME NEW w \in Workers, Produce(w) \/ Store(w)
      PROVE  ResultsOnce' /\ \A j \in Jobs : Promise!Move(j)
  <2> DEFINE k == held[w].job
  <2>0. job[k] # "none" /\ k \in Jobs
    BY <1>6, BusyIsSubmitted DEF Produce, Store, Busy, Sections
  <2>1. /\ UNCHANGED <<run, held>>
        /\ job' = [job EXCEPT ![k] = "producing_artifacts"] \/ job' = [job EXCEPT ![k] = "verifying"]
        /\ artifacts' = artifacts \/ artifacts' = [artifacts EXCEPT ![k] = @ \cup {Mine(w)}]
        /\ pc[w] \in {"finishing", "persisting"}
        /\ pc' = [pc EXCEPT ![w] = "collecting"] \/ pc' = [pc EXCEPT ![w] = "stored"]
    BY <1>6 DEF Produce, Store, Goto, Mine
  <2>2. \A j \in Jobs : run'[j].attempts = run[j].attempts
    BY <2>1
  <2>3. \A j \in Jobs : job'[j] = job[j] \/ (job[j] # "none" /\ job'[j] \in ActiveStatus)
    BY <1>0, <2>0, <2>1 DEF TypeOK, ActiveStatus
  <2>4. \A j \in Jobs : \A a \in artifacts'[j] : a \in artifacts[j] \/ (j = k /\ a = Mine(w))
    BY <1>0, <2>0, <2>1 DEF TypeOK
  <2>5. \A v \in Workers : /\ pc'[v] \in Busy => pc[v] \in Busy
                           /\ pc'[v] = "verifying" => pc[v] = "verifying" /\ v # w
    BY <1>0, <2>1 DEF Busy, Sections, TypeOK
  <2>6. ResultsOnce'
    <3>1. \A v \in Workers : pc'[v] = "verifying" /\ Mine(v) \in artifacts'[held[v].job]
               => job'[held[v].job] \notin {"failed", "blocked"}
      <4> SUFFICES ASSUME NEW v \in Workers, pc'[v] = "verifying", Mine(v) \in artifacts'[held[v].job]
                   PROVE  job'[held[v].job] \notin {"failed", "blocked"}
        OBVIOUS
      <4>1. CASE job'[held[v].job] # job[held[v].job]
        BY <1>h, <2>3, <4>1 DEF ActiveStatus
      <4>2. CASE job'[held[v].job] = job[held[v].job]
        <5>1. pc[v] = "verifying" /\ v # w
          BY <2>5
        <5>2. CASE held[v].job # k
          BY <1>h, <2>4, <5>1, <5>2, <4>2 DEF ResultsOnce, Mine
        <5>3. CASE held[v].job = k
          BY <1>0, <2>0, <2>1, <5>3 DEF TypeOK
        <5> QED
          BY <5>2, <5>3
      <4> QED
        BY <4>1, <4>2
    <3> QED
      BY <2>1, <2>2, <2>4, <2>5, <3>1, ResultsKept
  <2>7. \A j \in Jobs : Published(j)' = Published(j)
    <3>1. \A j \in Jobs : artifacts[j] \subseteq artifacts'[j]
      BY <1>0, <2>0, <2>1, SMTT(30) DEF TypeOK
    <3>2. ~Mine(w).verified
      BY DEF Mine
    <3>3. \A j \in Jobs : \A a \in Attempts :
            [attempt |-> a, verified |-> TRUE] \in artifacts'[j] <=> [attempt |-> a, verified |-> TRUE] \in artifacts[j]
      BY <2>4, <3>1, <3>2
    <3> QED
      BY <3>3 DEF Published
  <2> QED
    BY <1>0, <2>2, <2>3, <2>6, <2>7, Moves
<1>7. ASSUME NEW w \in Workers, FailAttempt(w) \/ Timeout(w)
      PROVE  ResultsOnce' /\ \A j \in Jobs : Promise!Move(j)
  <2> DEFINE k == held[w].job
  <2>1. UNCHANGED <<artifacts, held>> /\ pc' = [pc EXCEPT ![w] = "recovering"]
        /\ pc[w] \in {"failing", "working"}
    BY <1>7 DEF FailAttempt, Timeout, rows, Leave, Goto
  <2>2. \A v \in Workers : /\ pc'[v] \in Busy => pc[v] \in Busy
                           /\ pc'[v] = "verifying" => pc[v] = "verifying" /\ v # w
    BY <1>0, <2>1 DEF Busy, Sections, TypeOK
  <2>3. CASE UNCHANGED <<job, run>>
    BY <1>0, <2>1, <2>2, <2>3, UnseenStep
  <2>4. CASE ~UNCHANGED <<job, run>>
    <3>1. /\ job' = [job EXCEPT ![k] = "failed"] \/ job' = [job EXCEPT ![k] = "blocked"]
          /\ run' = [run EXCEPT ![k] = Finished(@, "failed")]
          /\ FreshLease(w)
      BY <1>7, <2>4 DEF FailAttempt, Timeout, rows
    <3>2. \A j \in Jobs : run'[j].attempts = run[j].attempts
      BY <1>0, <1>t, <1>f, <1>h, <3>1 DEF TypeOK, RunStatus
    <3>3. k \in Jobs /\ run[k].status = "running" /\ run[k].attempts = held[w].attempt
      BY <1>h, <3>1 DEF FreshLease, Holds, JobInv, LeaseShape
    <3>4. job[k] \in ActiveStatus \cup {"queued"}
      <4>1. job[k] # "none"
        BY <2>1, BusyIsSubmitted DEF Busy, Sections
      <4>2. job[k] \in JobStatus
        BY <1>0, <3>3 DEF TypeOK
      <4>3. job[k] \notin Terminal
        BY <3>3 DEF JobInv, EndsAgree, Terminal
      <4> QED
        BY <4>1, <4>2, <4>3 DEF JobStatus
    <3>5. \A v \in Workers : pc'[v] = "verifying" /\ Mine(v) \in artifacts'[held[v].job]
               => job'[held[v].job] \notin {"failed", "blocked"}
      <4> SUFFICES ASSUME NEW v \in Workers, pc'[v] = "verifying", Mine(v) \in artifacts[held[v].job]
                   PROVE  job'[held[v].job] \notin {"failed", "blocked"}
        BY <2>1
      <4>1. pc[v] = "verifying" /\ v # w
        BY <2>2
      <4>2. held[v].attempt = run[held[v].job].attempts
        BY <4>1 DEF JobInv, VerifyingIsCurrent, Mine
      <4>3. held[v].job # k
        BY <2>1, <3>3, <4>1, <4>2 DEF JobInv, AttemptsDiffer, Busy, Sections
      <4>4. job[held[v].job] \notin {"failed", "blocked"}
        BY <4>1 DEF ResultsOnce, Mine
      <4> QED
        BY <1>0, <1>h, <3>1, <3>3, <4>3, <4>4 DEF TypeOK
    <3>6. ResultsOnce'
      BY <2>1, <2>2, <3>2, <3>5, ResultsKept
    <3>7. \A j \in Jobs : Published(j)' = Published(j)
      BY <2>1 DEF Published
    <3>8. \A j \in Jobs : \/ job'[j] = job[j]
                          \/ job[j] \in ActiveStatus \cup {"queued"} /\ job'[j] \in {"failed", "blocked"}
      BY <1>0, <3>1, <3>3, <3>4 DEF TypeOK
    <3> QED
      BY <1>0, <3>2, <3>6, <3>7, <3>8, Moves
  <2> QED
    BY <2>3, <2>4
<1>8. ASSUME NEW w \in Workers, Recover(w)
      PROVE  ResultsOnce' /\ \A j \in Jobs : Promise!Move(j)
  <2>1. UNCHANGED held /\ pc[w] = "recovering" /\ pc' = [pc EXCEPT ![w] = "claiming"]
    BY <1>8 DEF Recover, Goto
  <2>2. \A v \in Workers : /\ pc'[v] \in Busy => pc[v] \in Busy
                           /\ pc'[v] = "verifying" => pc[v] = "verifying"
    BY <1>0, <2>1 DEF Busy, Sections, TypeOK
  <2>3. \A j \in Jobs :
          \/ job'[j] = job[j] /\ run'[j] = run[j]
          \/ /\ j \in Interrupted
             /\ \/ job'[j] = "failed" /\ run'[j] = Finished(run[j], "failed")
                \/ job'[j] = "queued" /\ run'[j] = Finished(run[j], "queued") /\ ~Exhausted(j)
    <3> DEFINE uncertain == {j \in Interrupted : checkpoint[j] = "in_flight"}
               exhausted == {j \in Interrupted \ uncertain : Exhausted(j)}
               requeued  == Interrupted \ (uncertain \cup exhausted)
    <3>1. job' = [j \in Jobs |-> CASE j \in uncertain \cup exhausted -> "failed"
                                   [] j \in requeued -> "queued"
                                   [] OTHER -> job[j]]
      BY <1>8 DEF Recover
    <3>2. run' = [j \in Jobs |-> CASE j \in uncertain \cup exhausted -> Finished(run[j], "failed")
                                   [] j \in requeued -> Finished(run[j], "queued")
                                   [] OTHER -> run[j]]
      BY <1>8 DEF Recover
    <3>3. uncertain \cup exhausted \subseteq Interrupted /\ requeued \subseteq Interrupted
          /\ (uncertain \cup exhausted) \cap requeued = {}
          /\ \A j \in requeued : ~Exhausted(j)
      OBVIOUS
    <3> HIDE DEF uncertain, exhausted, requeued
    <3> QED
      BY <3>1, <3>2, <3>3
  <2>4. \A j \in Jobs : artifacts'[j] = IF j \in Interrupted THEN artifacts[j] \ Unverified(j) ELSE artifacts[j]
    BY <1>8 DEF Recover
  <2>5. \A j \in Jobs : run'[j].attempts = run[j].attempts
    BY <1>t, <1>f, <2>3 DEF RunStatus
  <2>6. \A v \in Workers : pc'[v] = "verifying" /\ Mine(v) \in artifacts'[held[v].job]
             => job'[held[v].job] \notin {"failed", "blocked"}
    <3> SUFFICES ASSUME NEW v \in Workers, pc'[v] = "verifying", Mine(v) \in artifacts'[held[v].job]
                 PROVE  job'[held[v].job] \notin {"failed", "blocked"}
      OBVIOUS
    <3>m. ~Mine(v).verified
      BY DEF Mine
    <3>1. held[v].job \notin Interrupted
      <4> SUFFICES ASSUME held[v].job \in Interrupted PROVE FALSE
        OBVIOUS
      <4>1. Mine(v) \in artifacts[held[v].job] /\ Mine(v) \notin Unverified(held[v].job)
        BY <1>h, <2>4
      <4> QED
        BY <3>m, <4>1 DEF Unverified
    <3>2. Mine(v) \in artifacts[held[v].job] /\ job'[held[v].job] = job[held[v].job]
      BY <1>h, <2>3, <2>4, <3>1
    <3> QED
      BY <2>2, <3>2 DEF ResultsOnce, Mine
  <2>7. ResultsOnce'
    <3>1. \A j \in Jobs : artifacts'[j] \subseteq artifacts[j]
      BY <2>4
    <3> QED
      BY <2>1, <2>2, <2>5, <2>6, <3>1, ResultsKept
  <2>8. \A j \in Jobs : Published(j)' = Published(j)
    BY <2>4 DEF Published, Unverified
  <2>9. \A j \in Jobs : \/ job'[j] = job[j]
                        \/ /\ job[j] \in ActiveStatus
                           /\ job'[j] = "failed" \/ (job'[j] = "queued" /\ run[j].attempts < MaxAttempts)
    BY <1>t, <2>3, JobLifecycleAssumption DEF Interrupted, Exhausted
  <2> QED
    BY <1>0, <2>5, <2>7, <2>8, <2>9, Moves
<1>9. ASSUME NEW w \in Workers, NEW k \in Jobs, Claim(w, k)
      PROVE  ResultsOnce' /\ \A j \in Jobs : Promise!Move(j)
  <2>1. job[k] = "queued" /\ UNCHANGED artifacts /\ pc[w] = "claiming"
    BY <1>9 DEF Claim
  <2>p. \A j \in Jobs : Published(j)' = Published(j)
    BY <2>1 DEF Published
  <2>v. \A v \in Workers : pc[v] = "verifying" /\ Mine(v) \in artifacts[held[v].job] => held[v].job # k
    BY <2>1 DEF JobInv, VerifyingIsCurrent, Mine
  <2>2. CASE Exhausted(k)
    <3>1. /\ job' = [job EXCEPT ![k] = "failed"] /\ run' = [run EXCEPT ![k] = Finished(@, "failed")]
          /\ held' = held /\ pc' = [pc EXCEPT ![w] = "recovering"]
      BY <1>9, <2>2 DEF Claim, Goto
    <3>2. \A j \in Jobs : run'[j].attempts = run[j].attempts
      BY <1>0, <1>t, <1>f, <3>1 DEF TypeOK, RunStatus
    <3>3. \A v \in Workers : /\ pc'[v] \in Busy => pc[v] \in Busy
                             /\ pc'[v] = "verifying" => pc[v] = "verifying"
      BY <1>0, <3>1 DEF Busy, Sections, TypeOK
    <3>4. \A v \in Workers : pc'[v] = "verifying" /\ Mine(v) \in artifacts'[held[v].job]
             => job'[held[v].job] \notin {"failed", "blocked"}
      BY <1>0, <1>h, <2>1, <2>v, <3>1, <3>3 DEF TypeOK, ResultsOnce, Mine
    <3>5. ResultsOnce'
      BY <2>1, <3>1, <3>2, <3>3, <3>4, ResultsKept
    <3>6. \A j \in Jobs : job'[j] = job[j] \/ (job[j] = "queued" /\ job'[j] = "failed")
      BY <1>0, <2>1, <3>1 DEF TypeOK
    <3> QED
      BY <1>0, <2>p, <3>2, <3>5, <3>6, Moves
  <2>3. CASE ~Exhausted(k)
    <3> DEFINE attempt == run[k].attempts + 1
    <3>1. /\ job' = [job EXCEPT ![k] = "running"]
          /\ run' = [run EXCEPT ![k] = [status |-> "running", attempts |-> attempt,
                                        token |-> attempt, live |-> TRUE]]
          /\ held' = [held EXCEPT ![w] = [job |-> k, attempt |-> attempt]]
          /\ pc' = [pc EXCEPT ![w] = "claimed"]
      BY <1>9, <2>3 DEF Claim, Goto
    <3>2. /\ job'[k] = "running" /\ run'[k].attempts = attempt
          /\ held'[w].job = k /\ held'[w].attempt = attempt /\ pc'[w] = "claimed"
          /\ \A j \in Jobs : j # k => job'[j] = job[j] /\ run'[j] = run[j]
          /\ \A v \in Workers : v # w => held'[v] = held[v] /\ pc'[v] = pc[v]
      BY <1>0, <3>1 DEF TypeOK
    <3>3. \A a \in artifacts[k] : a.attempt \in Nat /\ a.attempt < attempt
      BY <1>0, <1>t, JobLifecycleAssumption DEF ResultsOnce, TypeOK, Artifact, Attempts
    <3>4. \A j \in Jobs : \A a \in artifacts'[j] : a.attempt <= run'[j].attempts
      BY <1>t, <2>1, <3>2, <3>3 DEF ResultsOnce
    <3>5. \A v \in Workers : pc'[v] \in Busy =>
             \A a \in artifacts'[held'[v].job] : a.verified => a.attempt # held'[v].attempt
      BY <1>t, <2>1, <3>2, <3>3 DEF ResultsOnce
    <3>6. \A v \in Workers : pc'[v] = "verifying" /\ [attempt |-> held'[v].attempt, verified |-> FALSE] \in artifacts'[held'[v].job]
             => job'[held'[v].job] \notin {"failed", "blocked"}
      BY <1>h, <2>1, <3>2 DEF ResultsOnce
    <3>7. ResultsOnce'
      BY <3>4, <3>5, <3>6 DEF ResultsOnce
    <3>8. Promise!Move(k)
      <4>1. run[k].attempts < MaxAttempts
        BY <1>t, <2>3, JobLifecycleAssumption DEF Exhausted
      <4>2. View(job[k]) = "waiting" /\ View(job'[k]) = "working"
        BY <2>1, <3>2 DEF View, ActiveStatus
      <4>3. Promise!Try(k)
        BY <2>p, <3>2, <4>1, <4>2 DEF Promise!Try, Promise!Goes
      <4> QED
        BY <4>3 DEF Promise!Move
    <3>9. \A j \in Jobs : j # k => Promise!Move(j)
      BY <1>0, <2>p, <3>2, Moves
    <3> QED
      BY <3>7, <3>8, <3>9
  <2> QED
    BY <2>2, <2>3
<1>10. ASSUME NEW w \in Workers, Succeed(w)
      PROVE  ResultsOnce' /\ \A j \in Jobs : Promise!Move(j)
  <2> SUFFICES ASSUME NEW k \in Jobs, held[w].job = k
               PROVE  ResultsOnce' /\ \A j \in Jobs : Promise!Move(j)
    BY <1>h
  <2> DEFINE done == [attempt |-> held[w].attempt, verified |-> TRUE]
  <2>1. /\ pc[w] = "verifying" /\ Mine(w) \in artifacts[k]
        /\ artifacts' = [artifacts EXCEPT ![k] = (@ \ {Mine(w)}) \cup {done}]
        /\ job' = [job EXCEPT ![k] = "succeeded"]
        /\ run' = [run EXCEPT ![k] = Finished(@, "succeeded")]
        /\ pc' = [pc EXCEPT ![w] = "recovering"] /\ held' = held
    BY <1>10 DEF Succeed, Leave, Goto, Mine
  <2>2. k \in Jobs /\ held[w].attempt = run[k].attempts /\ job[k] # "queued"
    BY <1>h, <2>1 DEF JobInv, VerifyingIsCurrent, Mine
  <2>3. /\ artifacts'[k] = (artifacts[k] \ {Mine(w)}) \cup {done} /\ job'[k] = "succeeded"
        /\ \A j \in Jobs : j # k => artifacts'[j] = artifacts[j] /\ job'[j] = job[j]
        /\ \A j \in Jobs : run'[j].attempts = run[j].attempts
    BY <1>0, <1>t, <1>f, <2>1, <2>2 DEF TypeOK, RunStatus
  <2>4. \A v \in Workers : /\ pc'[v] \in Busy => pc[v] \in Busy /\ v # w
                           /\ pc'[v] = "verifying" => pc[v] = "verifying"
    BY <1>0, <2>1 DEF Busy, Sections, TypeOK
  <2>5. \A j \in Jobs : \A a \in artifacts'[j] : a.attempt <= run'[j].attempts
    BY <1>t, <2>2, <2>3 DEF ResultsOnce
  <2>6. \A v \in Workers : pc'[v] \in Busy =>
           \A a \in artifacts'[held[v].job] : a.verified => a.attempt # held[v].attempt
    <3> SUFFICES ASSUME NEW v \in Workers, pc'[v] \in Busy,
                        NEW a \in artifacts'[held[v].job], a.verified
                 PROVE  a.attempt # held[v].attempt
      OBVIOUS
    <3>1. CASE a \in artifacts[held[v].job]
      BY <2>4, <3>1 DEF ResultsOnce
    <3>2. CASE a \notin artifacts[held[v].job]
      <4>1. held[v].job = k /\ a = done
        BY <1>h, <2>3, <3>2
      <4>2. held[v].attempt # held[w].attempt
        BY <2>1, <2>4, <4>1 DEF JobInv, AttemptsDiffer, Busy, Sections
      <4> QED
        BY <4>1, <4>2
    <3> QED
      BY <3>1, <3>2
  <2>7. \A v \in Workers : pc'[v] = "verifying" /\ Mine(v) \in artifacts'[held[v].job]
           => job'[held[v].job] \notin {"failed", "blocked"}
    <3> SUFFICES ASSUME NEW v \in Workers, pc'[v] = "verifying", Mine(v) \in artifacts'[held[v].job],
                        held[v].job # k
                 PROVE  job'[held[v].job] \notin {"failed", "blocked"}
      BY <2>3
    <3> QED
      BY <1>h, <2>3, <2>4 DEF ResultsOnce, Mine
  <2>8. ResultsOnce'
    BY <2>1, <2>5, <2>6, <2>7 DEF ResultsOnce, Mine
  <2>9. Promise!Move(k)
    <3>1. run[k].attempts \notin Published(k)
      BY <2>1, <2>2 DEF ResultsOnce, Published, Busy, Sections
    <3>2. Published(k)' = Published(k) \cup {run[k].attempts}
      <4>1. run[k].attempts \in Attempts
        BY <1>t DEF Run
      <4>2. \A a \in Attempts : [attempt |-> a, verified |-> TRUE] \in artifacts'[k] <=>
                  [attempt |-> a, verified |-> TRUE] \in artifacts[k] \/ a = run[k].attempts
        BY <2>2, <2>3 DEF Mine
      <4> QED
        BY <4>1, <4>2 DEF Published
    <3>3. job[k] \in ActiveStatus \cup {"cancelled"}
      <4>1. job[k] # "none"
        BY <2>1, BusyIsSubmitted DEF Busy, Sections
      <4>2. job[k] \notin {"failed", "blocked"}
        BY <2>1 DEF ResultsOnce, Mine
      <4>3. job[k] # "succeeded"
        BY <2>1, <2>2 DEF JobInv, SucceededIsComplete, ResultsOnce, Busy, Sections
      <4> QED
        BY <1>0, <2>2, <4>1, <4>2, <4>3 DEF TypeOK, JobStatus, Terminal
    <3>4. View(job[k]) \in {"working", "withdrawn"} /\ View(job'[k]) = "delivered"
      BY <2>3, <3>3 DEF View, ActiveStatus
    <3>5. Promise!Deliver(k)
      BY <2>2, <2>3, <3>1, <3>2, <3>4 DEF Promise!Deliver, Promise!Goes
    <3> QED
      BY <3>5 DEF Promise!Move
  <2>10. \A j \in Jobs : j # k => Promise!Move(j)
    <3>1. \A j \in Jobs : j # k => Published(j)' = Published(j)
      BY <2>3 DEF Published
    <3> QED
      BY <1>0, <2>3, <3>1, Moves
  <2> QED
    BY <2>8, <2>9, <2>10
<1> QED
  BY <1>1, <1>2, <1>3, <1>4, <1>5, <1>6, <1>7, <1>8, <1>9, <1>10
  DEF Next, WorkerStep, JobStep, Loop, EndOfWork, Proceed

LEMMA PromiseInit == Init => Promise!Init
<1> SUFFICES ASSUME Init PROVE Promise!Init
  OBVIOUS
<1>1. \A j \in Jobs : job[j] = "none" /\ run[j].attempts = 0 /\ artifacts[j] = {}
  BY DEF Init
<1>2. \A j \in Jobs : View(job[j]) = "absent" /\ Published(j) = {}
  BY <1>1 DEF View, Published, ActiveStatus
<1> QED
  BY <1>1, <1>2 DEF Promise!Init

\* JobLifecycle implements JobPromise: bounded tries, one delivery per try and
\* only by the last, results that are never withdrawn, and failures that replace
\* no end, for any jobs, Workers and number of attempts.
THEOREM PromiseImplemented == Spec => PromiseKept
<1>1. JobInv /\ ResultsOnce /\ [Next]_vars => ResultsOnce' /\ [Promise!Next]_(Promise!promise)
  <2> SUFFICES ASSUME JobInv, ResultsOnce, [Next]_vars
               PROVE  ResultsOnce' /\ [Promise!Next]_(Promise!promise)
    OBVIOUS
  <2>1. CASE Next
    BY <2>1, PromiseStep DEF Promise!Next
  <2>2. CASE UNCHANGED vars
    <3>1. UNCHANGED <<job, run, artifacts, pc, held>>
      BY <2>2 DEF vars, rows
    <3>2. ResultsOnce'
      BY <3>1 DEF ResultsOnce
    <3>3. \A j \in Jobs : Published(j)' = Published(j)
      BY <3>1 DEF Published
    <3> QED
      BY <3>1, <3>2, <3>3 DEF Promise!promise
  <2> QED
    BY <2>1, <2>2
<1>2. Spec => [](JobInv /\ ResultsOnce)
  BY <1>1, JobInvariant, ResultsInit, PTL DEF Spec
<1> QED
  BY <1>1, <1>2, PromiseInit, PTL DEF Spec, PromiseKept, Promise!Spec

=============================================================================
