---------------------------- MODULE AgentExecution ----------------------------
(***************************************************************************)
(* The agent's turn loop on one sandbox job: the model calls tools, the    *)
(* AgentExecutionState decides what they may do, and what counts as        *)
(* evidence that the deliverables were verified.                           *)
(*                                                                         *)
(* One action is one tool call, split where the handler awaits the sandbox *)
(* and a process that an earlier command left behind can change a file.    *)
(* The model's choices are nondeterministic; a call that is refused        *)
(* changes nothing and is no action.  Tasks are those created now, whose   *)
(* plan is an outline (plan_status_tracking is off).                       *)
(***************************************************************************)
EXTENDS Naturals, Sequences, FiniteSets

CONSTANTS
    Outputs,          \* files under /workspace/output, the deliverables
    Files,            \* every file of the workspace that matters
    Source,           \* the file a deliverable is collected from, or itself
    PlanFile,         \* /workspace/work/skillgo-plan.json
    Readable,         \* bound: files the model reads with read_file
    MaxBytes,         \* bound: contents that are told apart; 0 is no file
    Criteria,         \* bound: the success_criteria an update_plan may carry
    Tasks,            \* what jobs there are
    Policies,         \* the values delivery_only_job takes in this deployment
    FlowLength,       \* commands of the workflow in the stage catalog
    ExportStage,      \* the one that exports, and
    ExportOutput,     \* the deliverable collected from its export
    FailureLimit,     \* failures of the verifier that are forgiven: 2
    InspectionLimit,  \* PRE_PLAN_INSPECTION_LIMIT
    MaxOperations,    \* sandbox_max_agent_tool_calls
    MaxBackground     \* bound: writes of processes left running

Bytes == 0 .. MaxBytes
Snapshot == UNION {[S -> Bytes] : S \in SUBSET Outputs}
Nothing == [o \in {} |-> 0]

Task == [skills : Nat \ {0}, ordered : BOOLEAN, planRequired : BOOLEAN, fixed : SUBSET Nat]

ASSUME AgentAssumption ==
    /\ Outputs \subseteq Files
    /\ Source \in [Outputs -> Files]
    /\ PlanFile \in Files \ Outputs
    /\ Readable \subseteq Files
    /\ MaxBytes \in Nat \ {0}
    /\ Criteria \subseteq Seq(STRING)
    /\ <<>> \notin Criteria
    /\ Tasks \subseteq Task
    /\ \A t \in Tasks : /\ t.fixed \subseteq 1 .. t.skills
                        /\ t.ordered => t.skills > 1
                        /\ ~t.planRequired => t.skills = 1
                        /\ t.skills = 1 => t.fixed = {}
    /\ Policies \subseteq BOOLEAN
    /\ FlowLength \in Nat
    /\ ExportStage \in Nat
    /\ ExportOutput \in Outputs
    /\ FailureLimit \in Nat
    /\ InspectionLimit \in Nat
    /\ MaxOperations \in Nat
    /\ MaxBackground \in Nat

VARIABLES
    task,          \* the frozen policy of the job
    deliveryOnly,  \* execution_state.delivery_only
    files,         \* the workspace
    plan,          \* the text of the plan; 0 is none
    requirements,  \* the criteria recorded so far, r1, r2, ...
    loaded,        \* loaded_skills
    completed,     \* completed_skill_indexes
    executed,      \* the fixed Skills with fixed_executed
    evidence,      \* epochs, verification and validation
    failures,      \* validation_failures
    inspections,   \* pre_plan_inspection_calls
    cache,         \* what a read of a file would be answered with; 0 is nothing
    flow,          \* workflow_runs of the workflow
    call,          \* the handler that is under way
    delivery,      \* an automatic delivery that is under way
    operations,    \* tool_operation_count
    status,
    delivered,     \* what the loop returned, with the hashes it recorded
    background,    \* writes of background processes so far
    demanded,      \* history: every criterion ever recorded
    proofs,        \* history: what verifiers have really passed, on what
    stages         \* history: times each workflow command has succeeded

vars == <<task, deliveryOnly, files, plan, requirements, loaded, completed, executed,
          evidence, failures, inspections, cache, flow, call, delivery, operations,
          status, delivered, background, demanded, proofs, stages>>
history == <<demanded, proofs, stages>>
skills == <<loaded, completed, executed>>

Skills == 1 .. task.skills

\* A result of the verifier, or the validation recorded from one.
Report == [known : BOOLEAN, ok : BOOLEAN, artifacts : Snapshot, epoch : Nat]
NoReport == [known |-> FALSE, ok |-> FALSE, artifacts |-> Nothing, epoch |-> 0]

\* epoch: mutation_epoch, counted from 1; verification and validation: the last report and
\* the proof taken from it; blocked: verifier_anchor_mutation_epoch, with 0
\* for "no failure since"; managed: managed_artifacts.
Evidence == [epoch : Nat \ {0}, verification : Report, validation : Report,
             blocked : Nat, managed : Snapshot]

Flow == [next : 0 .. FlowLength, failed : BOOLEAN, signal : Bytes]
Call == [kind : {"none", "flow", "finish"}, paths : SUBSET Outputs]
NoCall == [kind |-> "none", paths |-> {}]

\* base: the declared files before the final operations; want: after them.
Delivery == [phase : {"none", "begun", "ran", "received", "copied", "done"},
             paths : SUBSET Outputs, base : Snapshot, want : Snapshot]
NoDelivery == [phase |-> "none", paths |-> {}, base |-> Nothing, want |-> Nothing]

NoCache == [f \in Files |-> 0]
NoStage == [i \in 1 .. FlowLength |-> 0]

TypeOK ==
    /\ task \in Tasks
    /\ deliveryOnly \in Policies
    /\ files \in [Files -> Bytes]
    /\ plan \in Bytes
    /\ requirements \in Criteria \cup {<<>>}
    /\ loaded \subseteq Skills
    /\ completed \subseteq Skills
    /\ executed \subseteq task.fixed
    /\ evidence \in Evidence
    /\ failures \in 0 .. FailureLimit + 1
    /\ inspections \in 0 .. InspectionLimit
    /\ cache \in [Files -> Bytes]
    /\ flow \in Flow
    /\ call \in Call
    /\ delivery \in Delivery
    /\ operations \in 0 .. MaxOperations
    /\ status \in {"running", "finished", "failed"}
    /\ delivered \in Snapshot
    /\ background \in 0 .. MaxBackground

Init ==
    /\ task \in Tasks
    /\ deliveryOnly \in Policies
    /\ files = NoCache
    /\ plan = 0
    /\ requirements = <<>>
    /\ loaded = IF task.skills = 1 THEN {1} ELSE {}
    /\ completed = {}
    /\ executed = {}
    /\ evidence = [epoch |-> 1, verification |-> NoReport, validation |-> NoReport,
                   blocked |-> 0, managed |-> Nothing]
    /\ failures = 0
    /\ inspections = 0
    /\ cache = NoCache
    /\ flow = [next |-> 0, failed |-> FALSE, signal |-> 0]
    /\ call = NoCall
    /\ delivery = NoDelivery
    /\ operations = 0
    /\ status = "running"
    /\ delivered = Nothing
    /\ background = 0
    /\ demanded = {}
    /\ proofs = {}
    /\ stages = NoStage

-----------------------------------------------------------------------------
(* Evidence.                                                               *)

\* Fault: a mutation leaves the recorded validation in place.
MutatedKeeping(e) == [e EXCEPT !.epoch = @ + 1, !.verification = NoReport]

\* A program that ran, or a write: whatever was verified is in doubt.
Mutated(e) ==
    [e EXCEPT !.epoch = @ + 1, !.verification = NoReport, !.validation = NoReport]

Reference(e) ==
    IF e.validation.known THEN e.validation.artifacts
    ELSE IF e.verification.known THEN e.verification.artifacts
    ELSE e.managed

Differs(e, snapshot) ==
    \E o \in DOMAIN snapshot : \/ o \notin DOMAIN Reference(e)
                               \/ Reference(e)[o] # snapshot[o]

Merged(m, snapshot) ==
    [o \in DOMAIN m \cup DOMAIN snapshot |->
        IF o \in DOMAIN snapshot THEN snapshot[o] ELSE m[o]]

\* register_artifact_collection: bytes that the last report does not name
\* count as a change of the workspace, and let the verifier run again.
Registered(e, snapshot) ==
    LET m == [e EXCEPT !.managed = Merged(@, snapshot)]
    IN  IF Differs(e, snapshot) THEN [Mutated(m) EXCEPT !.blocked = 0] ELSE m

\* Fault: what was read before stays.
CacheKept(e, snapshot) == cache

CacheAfter(e, snapshot) == IF Differs(e, snapshot) THEN NoCache ELSE cache

\* verifier_retry_blocked
Blocked(e) == e.blocked # 0 /\ e.epoch = e.blocked

-----------------------------------------------------------------------------
(* Files.                                                                  *)

\* What a program may do: write or remove at most one file.
Touched(fs) == {[fs EXCEPT ![f] = b] : f \in Files, b \in Bytes}

\* Copying the originals of the deliverables in S into the output directory.
Sources(fs, S) == {o \in S : fs[Source[o]] # 0}

Collected(fs, S) ==
    [f \in Files |-> IF f \in Sources(fs, S) THEN fs[Source[f]] ELSE fs[f]]

Bound(fs, S) == [o \in S |-> fs[o]]
Present(fs) == {o \in Outputs : fs[o] # 0}

\* snapshot_sandbox_artifacts: of the files in D, or of all when D is {};
\* one that is missing leaves no snapshot.
Read(fs, D) ==
    IF D = {} THEN Bound(fs, Present(fs))
    ELSE IF D \subseteq Present(fs) THEN Bound(fs, D)
    ELSE Nothing

-----------------------------------------------------------------------------
(* Tool calls.                                                             *)

\* The loop takes a tool call: none is under way.
Free == status = "running" /\ call = NoCall /\ delivery.phase = "none"

\* ... or the next one of a final operation group.
Operating ==
    /\ status = "running"
    /\ call = NoCall
    /\ delivery.phase \in {"none", "begun", "ran"}

Counted == operations < MaxOperations /\ operations' = operations + 1

\* ensure_active_step of an outline, and pre_plan_inspection_allowed.
MayWork == plan # 0 \/ ~task.planRequired

\* Fault: one inspection too many.
MayInspectOnceMore == ~MayWork /\ inspections <= InspectionLimit

MayInspect == ~MayWork /\ inspections < InspectionLimit

\* A failed operation ends the group.
GroupAfter(ok) ==
    IF ~ok THEN NoDelivery
    ELSE IF delivery.phase = "begun" THEN [delivery EXCEPT !.phase = "ran"] ELSE delivery

ReadSkill(i) ==
    /\ Free /\ Counted
    /\ task.ordered /\ i \notin loaded => i = Cardinality(loaded) + 1
    /\ loaded' = loaded \cup {i}
    /\ UNCHANGED <<task, deliveryOnly, files, plan, requirements, completed, executed,
                   evidence, failures, inspections, cache, flow, call, delivery,
                   status, delivered, background, history>>

\* Fault: the fixed entry point need not have run.
CompletableUnrun(i) ==
    /\ i \in loaded
    /\ task.ordered => i = Cardinality(completed) + 1

Completable(i) ==
    /\ i \in loaded
    /\ task.ordered => i = Cardinality(completed) + 1
    /\ i \in task.fixed => i \in executed

CompleteSkill(i) ==
    /\ Free /\ Counted
    /\ Completable(i)
    /\ completed' = completed \cup {i}
    /\ UNCHANGED <<task, deliveryOnly, files, plan, requirements, loaded, executed,
                   evidence, failures, inspections, cache, flow, call, delivery,
                   status, delivered, background, history>>

\* run_fixed_skill, recorded as a command.
RunFixedSkill(i) ==
    /\ Free /\ Counted /\ MayWork
    /\ i \in loaded \cap task.fixed
    /\ task.ordered => 1 .. i - 1 \subseteq completed
    /\ files' \in Touched(files)
    /\ executed' = executed \cup {i}
    /\ evidence' = Mutated(evidence)
    /\ cache' = NoCache
    /\ UNCHANGED <<task, deliveryOnly, plan, requirements, loaded, completed, failures,
                   inspections, flow, call, delivery, status, delivered, background,
                   history>>

\* Fault: recorded criteria may be replaced.
PreservingNone(c) == c # requirements

\* New criteria may only be added behind the recorded ones, and then what was
\* verified against the old ones proves nothing.
Preserving(c) ==
    /\ Len(c) >= Len(requirements)
    /\ SubSeq(c, 1, Len(requirements)) = requirements

\* Fault: the validation survives new criteria.
ReplannedKeeping(e, c) == e

Replanned(e, c) ==
    IF c = requirements THEN e
    ELSE [e EXCEPT !.verification = NoReport, !.validation = NoReport]

UpdatePlan(p, c) ==
    /\ Free /\ Counted
    /\ p # 0
    /\ Preserving(c)
    /\ evidence' = Replanned(evidence, c)
    /\ requirements' = c
    /\ demanded' = demanded \cup {c[i] : i \in DOMAIN c}
    /\ plan' = p
    /\ files' = [files EXCEPT ![PlanFile] = p]
    /\ UNCHANGED <<task, deliveryOnly, skills, failures, inspections, cache, flow, call,
                   delivery, status, delivered, background, proofs, stages>>

\* read_file: answered from the caches, or read and cached.
ReadFile(f) ==
    /\ Free /\ Counted
    /\ cache' = IF cache[f] # 0 THEN cache ELSE [cache EXCEPT ![f] = files[f]]
    /\ UNCHANGED <<task, deliveryOnly, files, plan, requirements, skills, evidence,
                   failures, inspections, flow, call, delivery, status, delivered,
                   background, history>>

\* write_file: a write that fails may still have begun.
Invalidated(f) == [cache EXCEPT ![f] = 0]

WriteFile(f, b, ok) ==
    /\ Operating /\ Counted /\ MayWork
    /\ files' = IF ok THEN [files EXCEPT ![f] = b] ELSE files
    /\ evidence' = Mutated(evidence)
    /\ cache' = Invalidated(f)
    /\ delivery' = GroupAfter(ok)
    /\ UNCHANGED <<task, deliveryOnly, plan, requirements, skills, failures, inspections,
                   flow, call, status, delivered, background, history>>

\* command and run_python, alone or in run_commands.
Command(ok) ==
    /\ Operating /\ Counted
    /\ \/ MayWork /\ UNCHANGED inspections
       \/ MayInspect /\ inspections' = inspections + 1
    /\ files' \in Touched(files)
    /\ evidence' = Mutated(evidence)
    /\ cache' = NoCache
    /\ delivery' = GroupAfter(ok)
    /\ UNCHANGED <<task, deliveryOnly, plan, requirements, skills, failures, flow, call,
                   status, delivered, background, history>>

-----------------------------------------------------------------------------
(* run_skill_workflow.                                                     *)

\* Fault: every run starts with the first command.
ResumedAtStart == 0

Resumed == flow.next

StartFlow(restart, retry) ==
    LET start == IF restart THEN 0 ELSE Resumed IN
    /\ Operating /\ MayWork
    /\ 1 \in loaded
    /\ restart \/ retry \/ ~flow.failed
    /\ start < FlowLength
    /\ flow' = [next |-> start, failed |-> FALSE, signal |-> 0]
    /\ call' = [NoCall EXCEPT !.kind = "flow"]
    /\ stages' = IF restart THEN NoStage ELSE stages
    /\ UNCHANGED <<task, deliveryOnly, files, plan, requirements, skills, evidence,
                   failures, inspections, cache, delivery, operations, status, delivered,
                   background, demanded, proofs>>

\* configured_export_command: delivered without a call of finish.
AutoExport == task.skills = 1 /\ deliveryOnly

Exported(before, after) ==
    /\ before[Source[ExportOutput]] = 0
    /\ after[Source[ExportOutput]] # 0

\* One command of the workflow.  capture_export collects what the exporter
\* has created; the last command hands it over to the delivery.
FlowCommand(ok) ==
    /\ status = "running" /\ call.kind = "flow" /\ Counted
    /\ \E fs \in Touched(files) :
         LET i == flow.next + 1
             captured == ok /\ i = ExportStage /\ AutoExport /\ Exported(files, fs)
             signal == IF captured THEN fs[Source[ExportOutput]] ELSE flow.signal
         IN  /\ files' = IF captured THEN Collected(fs, {ExportOutput}) ELSE fs
             /\ flow' = IF ok THEN [flow EXCEPT !.next = i, !.signal = signal]
                        ELSE [flow EXCEPT !.failed = TRUE]
             /\ stages' = IF ok THEN [stages EXCEPT ![i] = @ + 1] ELSE stages
             /\ call' = IF ok /\ i < FlowLength THEN call ELSE NoCall
             /\ delivery' =
                  IF ok /\ i = FlowLength /\ delivery.phase = "none" /\ signal # 0
                  THEN [phase |-> "received", paths |-> {ExportOutput},
                        base |-> [o \in {ExportOutput} |-> 0],
                        want |-> [o \in {ExportOutput} |-> signal]]
                  ELSE GroupAfter(ok)
    /\ evidence' = Mutated(evidence)
    /\ cache' = NoCache
    /\ UNCHANGED <<task, deliveryOnly, plan, requirements, skills, failures, inspections,
                   status, delivered, background, demanded, proofs>>

-----------------------------------------------------------------------------
(* Verifying.                                                              *)

\* Collecting a declared file fails after others were copied: no call that
\* declares artifacts goes on, and nothing is registered.
CollectFails(S) ==
    /\ Free /\ Counted
    /\ Sources(files, S) # {}
    /\ files' = Collected(files, S)
    /\ UNCHANGED <<task, deliveryOnly, plan, requirements, skills, evidence, failures,
                   inspections, cache, flow, call, delivery, status, delivered,
                   background, history>>

\* The deliverables D, of which S are declared by their original; {} declares
\* nothing.  With delivery_only the files are registered and that is all.
Prepared(D, S) ==
    /\ Sources(files, S) = S
    /\ D \subseteq Present(Collected(files, S))

CollectOnly(D, S) ==
    LET fs == Collected(files, S) IN
    /\ Free /\ Counted
    /\ D # {} /\ Prepared(D, S)
    /\ deliveryOnly \/ Blocked(Registered(evidence, Bound(fs, D)))
    /\ files' = fs
    /\ evidence' = Registered(evidence, Bound(fs, D))
    /\ cache' = CacheAfter(evidence, Bound(fs, D))
    /\ UNCHANGED <<task, deliveryOnly, plan, requirements, skills, failures, inspections,
                   flow, call, delivery, status, delivered, background, history>>

\* Nothing to verify: an output directory without files.
VerifyNothing ==
    /\ Free /\ Counted
    /\ ~deliveryOnly /\ ~Blocked(evidence)
    /\ Present(files) = {}
    /\ evidence' = [evidence EXCEPT
                        !.verification = [known |-> TRUE, ok |-> FALSE,
                                          artifacts |-> Nothing, epoch |-> evidence.epoch],
                        !.validation = NoReport]
    /\ UNCHANGED <<task, deliveryOnly, files, plan, requirements, skills, failures,
                   inspections, cache, flow, call, delivery, status, delivered,
                   background, history>>

\* Fault: the bytes are not read again after the verifier.
PassedUnread(before, between, after, checks) == checks

Passed(before, between, after, checks) == checks /\ before = between /\ between = after

\* run_verifier: read the deliverables, run the program, read them again,
\* collect the originals again and compare; a pass is recorded at once.
Verify(D, S, checks) ==
    /\ Free /\ Counted
    /\ ~deliveryOnly
    /\ D # {} => Prepared(D, S)
    /\ \E fs \in Touched(Collected(files, S)) :
         LET first == Collected(files, S)
             again == Collected(fs, S)
             before == Read(first, D)
             after == Read(again, D)
             e1 == IF D = {} THEN evidence ELSE Registered(evidence, before)
             ok == Passed(before, Read(fs, D), after, checks /\ Sources(fs, S) = S)
             e2 == IF D = {} THEN e1 ELSE Registered(e1, after)
             report == [known |-> TRUE, ok |-> ok, artifacts |-> after, epoch |-> e2.epoch]
         IN  /\ Present(first) # {}
             /\ ~Blocked(e1)
             /\ files' = again
             /\ evidence' = [e2 EXCEPT !.verification = report,
                                !.validation = IF ok THEN report ELSE NoReport,
                                !.blocked = IF ok THEN 0 ELSE e2.epoch]
             /\ failures' = IF ok THEN failures ELSE failures + 1
             /\ status' = IF failures' > FailureLimit THEN "failed" ELSE status
             /\ proofs' = IF ok /\ before = after
                          THEN proofs \cup {[artifacts |-> after,
                                             requirements |-> requirements]}
                          ELSE proofs
             /\ cache' = IF D = {} THEN cache
                         ELSE IF Differs(e1, after) THEN NoCache
                         ELSE CacheAfter(evidence, before)
    /\ UNCHANGED <<task, deliveryOnly, plan, requirements, skills, inspections, flow,
                   call, delivery, delivered, background, demanded, stages>>

\* Fault: a failed report is as good as a passed one.
AcceptableFailed(snapshot) ==
    /\ snapshot # Nothing
    /\ evidence.verification.known
    /\ evidence.verification.artifacts = snapshot
    /\ evidence.verification.epoch = evidence.epoch

\* record_validation: the model's own word, which only a verifier's counts for.
Acceptable(snapshot) ==
    /\ snapshot # Nothing
    /\ evidence.verification.known
    /\ evidence.verification.artifacts = snapshot
    /\ evidence.verification.ok
    /\ evidence.verification.epoch = evidence.epoch

RecordValidation(passed) ==
    LET snapshot == Bound(files, Present(files)) IN
    /\ Free /\ Counted
    /\ Acceptable(snapshot)
    /\ evidence' = [evidence EXCEPT !.validation =
                        IF passed THEN [known |-> TRUE, ok |-> TRUE, artifacts |-> snapshot,
                                        epoch |-> evidence.epoch]
                        ELSE NoReport]
    /\ failures' = IF passed THEN failures ELSE failures + 1
    /\ status' = IF failures' > FailureLimit THEN "failed" ELSE status
    /\ UNCHANGED <<task, deliveryOnly, files, plan, requirements, skills, inspections,
                   cache, flow, call, delivery, delivered, background, history>>

-----------------------------------------------------------------------------
(* Finishing.                                                              *)

\* Fault: the validation need not be of the current bytes.
CompleteAnyBytes(e, snapshot) ==
    /\ task.planRequired => plan # 0
    /\ Skills \subseteq loaded
    /\ task.skills > 1 => Skills \subseteq completed
    /\ deliveryOnly \/ e.validation.known

\* Fault: phases may be missing.
CompleteAnySkill(e, snapshot) ==
    /\ task.planRequired => plan # 0
    /\ \/ deliveryOnly
       \/ /\ e.validation.known
          /\ e.validation.epoch = e.epoch
          /\ e.validation.artifacts = snapshot

\* finish_blocker, for evidence e and the current bytes.
Complete(e, snapshot) ==
    /\ task.planRequired => plan # 0
    /\ Skills \subseteq loaded
    /\ task.skills > 1 => Skills \subseteq completed
    /\ \/ deliveryOnly
       \/ /\ e.validation.known
          /\ e.validation.epoch = e.epoch
          /\ e.validation.artifacts = snapshot

Accepted(snapshot) ==
    /\ status' = "finished"
    /\ delivered' = snapshot
    /\ completed' = IF task.skills = 1 THEN completed \cup {1} ELSE completed

FinishCollect(D, S) ==
    /\ Free /\ Counted
    /\ D # {} /\ Sources(files, S) = S
    /\ files' = Collected(files, S)
    /\ call' = [kind |-> "finish", paths |-> D]
    /\ UNCHANGED <<task, deliveryOnly, plan, requirements, skills, evidence, failures,
                   inspections, cache, flow, delivery, status, delivered, background,
                   history>>

\* The declared files must exist; every file of the output is read again, and
\* with a verifier every one must have been declared.
FinishJudge ==
    LET snapshot == Bound(files, IF deliveryOnly THEN call.paths ELSE Present(files))
        e == Registered(evidence, snapshot)
        missing == call.paths \ Present(files) # {}
    IN  /\ status = "running" /\ call.kind = "finish"
        /\ call' = NoCall
        /\ evidence' = IF missing THEN evidence ELSE e
        /\ cache' = IF missing THEN cache ELSE CacheAfter(evidence, snapshot)
        /\ IF missing \/ ~Complete(e, snapshot) \/ ~(DOMAIN snapshot \subseteq call.paths)
           THEN UNCHANGED <<status, delivered, completed>>
           ELSE Accepted(snapshot)
        /\ UNCHANGED <<task, deliveryOnly, files, plan, requirements, loaded, executed,
                       failures, inspections, flow, delivery, operations, background,
                       history>>

-----------------------------------------------------------------------------
(* Automatic delivery.                                                     *)

\* A final operation group: the declared files are fingerprinted first.
BeginGroup(D) ==
    /\ Free
    /\ deliveryOnly /\ D # {}
    /\ delivery' = [phase |-> "begun", paths |-> D, want |-> Nothing,
                    base |-> [o \in D |-> files[Source[o]]]]
    /\ UNCHANGED <<task, deliveryOnly, files, plan, requirements, skills, evidence,
                   failures, inspections, cache, flow, call, operations, status,
                   delivered, background, history>>

\* Fault: a file the group has not changed is delivered again.
FreshOrKept(after) == \A o \in delivery.paths : after[o] # 0

Fresh(after) ==
    \A o \in delivery.paths : after[o] # 0 /\ after[o] # delivery.base[o]

\* The group is over; one that is only begun had its operations refused.
ReceiveGroup ==
    LET after == [o \in delivery.paths |-> files[Source[o]]] IN
    /\ status = "running" /\ call = NoCall /\ delivery.phase \in {"begun", "ran"}
    /\ delivery' = IF delivery.phase = "ran" /\ Fresh(after)
                   THEN [delivery EXCEPT !.phase = "received", !.want = after]
                   ELSE NoDelivery
    /\ UNCHANGED <<task, deliveryOnly, files, plan, requirements, skills, evidence,
                   failures, inspections, cache, flow, call, operations, status,
                   delivered, background, history>>

\* receive_workflow_delivery: collect, download and compare with the signal.
CopyDelivery ==
    LET S == delivery.paths IN
    /\ status = "running" /\ delivery.phase = "received"
    /\ files' = Collected(files, S)
    /\ delivery' = IF Sources(files, S) = S THEN [delivery EXCEPT !.phase = "copied"]
                   ELSE NoDelivery
    /\ UNCHANGED <<task, deliveryOnly, plan, requirements, skills, evidence, failures,
                   inspections, cache, flow, call, operations, status, delivered,
                   background, history>>

\* Fault: the bytes are not compared with the signal.
UnchangedUnread(snapshot) == TRUE

Unchanged(snapshot) == snapshot = delivery.want

AcceptDelivery ==
    LET snapshot == Bound(files, delivery.paths)
        e == Registered(evidence, snapshot)
        same == Unchanged(snapshot)
    IN  /\ status = "running" /\ delivery.phase = "copied"
        /\ evidence' = IF same THEN e ELSE evidence
        /\ cache' = IF same THEN CacheAfter(evidence, snapshot) ELSE cache
        /\ IF same /\ Complete(e, snapshot)
           THEN /\ Accepted(snapshot)
                /\ delivery' = [delivery EXCEPT !.phase = "done"]
           ELSE /\ delivery' = NoDelivery
                /\ UNCHANGED <<status, delivered, completed>>
        /\ UNCHANGED <<task, deliveryOnly, files, plan, requirements, loaded, executed,
                       failures, inspections, flow, call, operations, background, history>>

-----------------------------------------------------------------------------
(* What happens to the loop.                                               *)

\* An approved capability: the sandbox is replaced, what was verified in the
\* old one proves nothing.
Upgrade ==
    /\ Free /\ Counted
    /\ evidence' = [evidence EXCEPT !.verification = NoReport, !.validation = NoReport,
                                    !.blocked = 0]
    /\ cache' = NoCache
    /\ UNCHANGED <<task, deliveryOnly, files, plan, requirements, skills, failures,
                   inspections, flow, call, delivery, status, delivered, background,
                   history>>

\* A Worker resumes the snapshot taken between two turns: everything but the
\* caches, under the policy in force now.
Resume(policy) ==
    /\ Free
    /\ deliveryOnly' = policy
    /\ cache' = NoCache
    /\ UNCHANGED <<task, files, plan, requirements, skills, evidence, failures,
                   inspections, flow, call, delivery, operations, status, delivered,
                   background, history>>

\* A process that a command left running writes a file.
BackgroundWrite(f, b) ==
    /\ status = "running" /\ background < MaxBackground
    /\ background' = background + 1
    /\ files' = [files EXCEPT ![f] = b]
    /\ UNCHANGED <<task, deliveryOnly, plan, requirements, skills, evidence, failures,
                   inspections, cache, flow, call, delivery, operations, status,
                   delivered, history>>

\* The loop raises: a limit, a stalled agent, repeated errors, a blocked goal,
\* a cancelled job, a model or a sandbox that does not answer.
Abort ==
    /\ status = "running"
    /\ status' = "failed"
    /\ UNCHANGED <<task, deliveryOnly, files, plan, requirements, skills, evidence,
                   failures, inspections, cache, flow, call, delivery, operations,
                   delivered, background, history>>

Next ==
    \/ \E i \in Skills : ReadSkill(i) \/ CompleteSkill(i) \/ RunFixedSkill(i)
    \/ \E p \in Bytes, c \in Criteria : UpdatePlan(p, c)
    \/ \E f \in Readable : ReadFile(f)
    \/ \E f \in Files, b \in Bytes \ {0}, ok \in BOOLEAN : WriteFile(f, b, ok)
    \/ \E ok \in BOOLEAN : Command(ok) \/ FlowCommand(ok) \/ RecordValidation(ok)
    \/ \E restart, retry \in BOOLEAN : StartFlow(restart, retry)
    \/ \E D \in SUBSET Outputs : \E S \in SUBSET D :
         \/ CollectOnly(D, S)
         \/ \E checks \in BOOLEAN : Verify(D, S, checks)
         \/ FinishCollect(D, S)
    \/ \E S \in SUBSET Outputs : CollectFails(S) \/ BeginGroup(S)
    \/ VerifyNothing
    \/ FinishJudge
    \/ ReceiveGroup \/ CopyDelivery \/ AcceptDelivery
    \/ Upgrade
    \/ \E policy \in Policies : Resume(policy)
    \/ \E f \in Files, b \in Bytes : BackgroundWrite(f, b)
    \/ Abort

Spec == Init /\ [][Next]_vars

-----------------------------------------------------------------------------
(* Properties.                                                             *)

\* What a report proves: a verifier passed on exactly these bytes, asked about
\* every criterion on record.
Proven(report) ==
    [artifacts |-> report.artifacts, requirements |-> requirements] \in proofs

\* The recorded validation, and a report that passed, are always the latest
\* verifier's about the present plan: no write, replanning, collection, failed
\* verifier or upgrade leaves one standing that is about something else.
EvidenceInv ==
    /\ demanded = {requirements[i] : i \in DOMAIN requirements}
    /\ \A report \in {evidence.verification, evidence.validation} :
         report.known /\ report.ok => /\ Proven(report)
                                     /\ report.epoch = evidence.epoch
    /\ evidence.validation.known =>
         /\ evidence.validation.ok
         /\ evidence.verification.known
         /\ evidence.verification.artifacts = evidence.validation.artifacts

\* The variables keep their types, and the evidence is never out of date.
AgentInv == TypeOK /\ EvidenceInv

\* Unless the deployment asks for delivery only, the files a job returns are
\* byte for byte those of one verifier run that passed, no file more or less,
\* and that run was asked about every criterion ever put on record.
FinishedIsVerified ==
    status = "finished" /\ ~deliveryOnly =>
        \E proof \in proofs :
            /\ proof.artifacts = delivered
            /\ demanded \subseteq {proof.requirements[i] : i \in DOMAIN proof.requirements}

\* Skills the user has put in order are loaded and completed in that order, one
\* with a fixed entry point not before that has run, and a job of several is
\* finished only when all are complete, whatever is resumed in between.
PhasesInOrder ==
    /\ task.ordered => /\ loaded = 1 .. Cardinality(loaded)
                       /\ completed = 1 .. Cardinality(completed)
    /\ completed \subseteq loaded
    /\ completed \cap task.fixed \subseteq executed
    /\ status = "finished" => completed = Skills

\* What is delivered without a call of finish was made by these very
\* operations: each file is there, is not what it was before, and is what the
\* operations left, though a process may have written it since.
FreshDelivery ==
    delivery.phase = "done" =>
        \A o \in delivery.paths :
            /\ delivered[o] \notin {0, delivery.base[o]}
            /\ delivered[o] = delivery.want[o]

\* A command of a declared workflow that has succeeded is not run again, however
\* often the workflow fails and is retried, unless a restart is asked for.
NoStageReplayed == \A i \in DOMAIN stages : stages[i] <= 1

\* A step that counts as a change of the workspace leaves no earlier reading of
\* a file it has changed to answer the next read_file with.
ChangesAreReadAgain ==
    [][evidence'.epoch # evidence.epoch =>
        \A f \in Files : files'[f] # files[f] => cache'[f] \in {0, files'[f]}]_vars

\* "Reused a prior observation because the workspace has not changed."
\* (agent_policy.py, cached_observation): a reading that would be answered from
\* the caches is what the file holds.
CacheIsCurrent == \A f \in Files : cache[f] # 0 => cache[f] = files[f]
=============================================================================
