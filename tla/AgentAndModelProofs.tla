------------------------- MODULE AgentAndModelProofs --------------------------
(***************************************************************************)
(* Theorems about the agent loop and the model it asks.                    *)
(*                                                                         *)
(* AgentExecution, for every workspace, plan and deployment: the evidence  *)
(* on record is the latest verifier's, and what a job returns was verified *)
(* byte for byte.                                                          *)
(*                                                                         *)
(* ModelCalls, for any connections and answers: an answer that is acted on *)
(* is whole, generation is never replayed by the transport, no budget is   *)
(* overrun, and a turn is sent at most twelve times.                       *)
(***************************************************************************)
EXTENDS AgentExecution, ModelCalls, FiniteSetTheorems, TLAPS

-----------------------------------------------------------------------------
(* The operators on snapshots and on evidence.                             *)

\* The bytes of a set of deliverables are a snapshot.
LEMMA BoundIsSnapshot ==
    ASSUME NEW fs \in [Files -> Bytes], NEW S \in SUBSET Outputs
    PROVE  Bound(fs, S) \in [S -> Bytes] /\ Bound(fs, S) \in Snapshot
<1>1. Bound(fs, S) \in [S -> Bytes]
  BY AgentAssumption DEF Bound
<1> QED
  BY <1>1 DEF Snapshot

\* No bytes at all are a snapshot.
LEMMA NothingIsSnapshot == Nothing \in Snapshot /\ NoReport \in Report
<1>1. Nothing \in [{} -> Bytes]
  BY DEF Nothing
<1>2. Nothing \in Snapshot
  BY <1>1 DEF Snapshot
<1> QED
  BY <1>2 DEF NoReport, Report

\* Collecting keeps the workspace a workspace.
LEMMA CollectedIsWorkspace ==
    ASSUME NEW fs \in [Files -> Bytes], NEW S \in SUBSET Outputs
    PROVE  Collected(fs, S) \in [Files -> Bytes]
BY AgentAssumption DEF Collected, Sources

\* What is read of the deliverables is a snapshot, and of exactly those asked for.
LEMMA ReadIsSnapshot ==
    ASSUME NEW fs \in [Files -> Bytes], NEW D \in SUBSET Outputs
    PROVE  Read(fs, D) \in Snapshot
BY BoundIsSnapshot, NothingIsSnapshot DEF Read, Present

\* Merging two snapshots gives one.
LEMMA MergedIsSnapshot ==
    ASSUME NEW m \in Snapshot, NEW snapshot \in Snapshot
    PROVE  Merged(m, snapshot) \in Snapshot
<1>1. PICK S \in SUBSET Outputs : m \in [S -> Bytes]
  BY DEF Snapshot
<1>2. PICK T \in SUBSET Outputs : snapshot \in [T -> Bytes]
  BY DEF Snapshot
<1>3. Merged(m, snapshot) \in [S \cup T -> Bytes]
  BY <1>1, <1>2 DEF Merged
<1> QED
  BY <1>3 DEF Snapshot

\* A mutation leaves no report and raises the epoch by one.
LEMMA MutatedFacts ==
    ASSUME NEW e \in Evidence
    PROVE  /\ Mutated(e) \in Evidence
           /\ Mutated(e).epoch = e.epoch + 1
           /\ Mutated(e).verification = NoReport
           /\ Mutated(e).validation = NoReport
<1> DEFINE e1 == [e EXCEPT !.epoch = e.epoch + 1]
           e2 == [e1 EXCEPT !.verification = NoReport]
           e3 == [e2 EXCEPT !.validation = NoReport]
<1>1. NoReport \in Report
  BY NothingIsSnapshot
<1>2. e1 \in Evidence /\ e1.epoch = e.epoch + 1
  BY DEF Evidence
<1>3. /\ e2 \in Evidence /\ e2.epoch = e1.epoch
      /\ e2.verification = NoReport
  <2> HIDE DEF e1
  <2> QED
    BY <1>1, <1>2 DEF Evidence
<1>4. /\ e3 \in Evidence /\ e3.epoch = e2.epoch
      /\ e3.verification = e2.verification
      /\ e3.validation = NoReport
  <2> HIDE DEF e2
  <2> QED
    BY <1>1, <1>3 DEF Evidence
<1>5. Mutated(e) = e3
  BY Zenon DEF Mutated
<1> QED
  BY <1>2, <1>3, <1>4, <1>5

\* Replacing the two reports, and the failure they are blocked by.
Reports(e, v, w) == [e EXCEPT !.verification = v, !.validation = w]
Judged(e, v, w, b) == [e EXCEPT !.verification = v, !.validation = w, !.blocked = b]

LEMMA ReportedFacts ==
    ASSUME NEW e \in Evidence, NEW v \in Report, NEW w \in Report, NEW b \in Nat
    PROVE  /\ Reports(e, v, w) \in Evidence
           /\ Reports(e, v, w).verification = v
           /\ Reports(e, v, w).validation = w
           /\ Reports(e, v, w).epoch = e.epoch
           /\ Judged(e, v, w, b) \in Evidence
           /\ Judged(e, v, w, b).verification = v
           /\ Judged(e, v, w, b).validation = w
           /\ Judged(e, v, w, b).epoch = e.epoch
<1> DEFINE e1 == [e EXCEPT !.verification = v]
           e2 == [e1 EXCEPT !.validation = w]
           e3 == [e2 EXCEPT !.blocked = b]
<1>1. e1 \in Evidence /\ e1.epoch = e.epoch /\ e1.verification = v
  BY DEF Evidence
<1>2. /\ e2 \in Evidence /\ e2.epoch = e1.epoch
      /\ e2.verification = e1.verification /\ e2.validation = w
  <2> HIDE DEF e1
  <2> QED
    BY <1>1 DEF Evidence
<1>3. /\ e3 \in Evidence /\ e3.epoch = e2.epoch
      /\ e3.verification = e2.verification /\ e3.validation = e2.validation
  <2> HIDE DEF e2
  <2> QED
    BY <1>2 DEF Evidence
<1>4. Reports(e, v, w) = e2 /\ Judged(e, v, w, b) = e3
  BY Zenon DEF Reports, Judged
<1> HIDE DEF e1, e2, e3
<1> QED
  BY <1>1, <1>2, <1>3, <1>4

\* Replacing the validation alone.
LEMMA ValidatedFacts ==
    ASSUME NEW e \in Evidence, NEW w \in Report
    PROVE  /\ [e EXCEPT !.validation = w] \in Evidence
           /\ [e EXCEPT !.validation = w].verification = e.verification
           /\ [e EXCEPT !.validation = w].validation = w
           /\ [e EXCEPT !.validation = w].epoch = e.epoch
BY DEF Evidence

\* Registering a collection either keeps both reports and the epoch, or leaves
\* no report; it keeps them only if they name every file of the collection.
LEMMA RegisteredFacts ==
    ASSUME NEW e \in Evidence, NEW snapshot \in Snapshot
    PROVE  /\ Registered(e, snapshot) \in Evidence
           /\ \/ /\ Registered(e, snapshot).verification = NoReport
                 /\ Registered(e, snapshot).validation = NoReport
              \/ /\ Registered(e, snapshot).verification = e.verification
                 /\ Registered(e, snapshot).validation = e.validation
                 /\ Registered(e, snapshot).epoch = e.epoch
<1> DEFINE m == [e EXCEPT !.managed = Merged(@, snapshot)]
<1>1. /\ m \in Evidence
      /\ m.verification = e.verification
      /\ m.validation = e.validation
      /\ m.epoch = e.epoch
  BY MergedIsSnapshot DEF Evidence
<1>2. CASE Differs(e, snapshot)
  <2>1. Registered(e, snapshot) = [Mutated(m) EXCEPT !.blocked = 0]
    BY <1>2 DEF Registered
  <2>2. Mutated(m) \in Evidence /\ Mutated(m).verification = NoReport
                               /\ Mutated(m).validation = NoReport
    BY <1>1, MutatedFacts
  <2> HIDE DEF m
  <2> QED
    BY <2>1, <2>2 DEF Evidence
<1>3. CASE ~Differs(e, snapshot)
  BY <1>1, <1>3 DEF Registered
<1> QED
  BY <1>2, <1>3

-----------------------------------------------------------------------------
(* Types.                                                                  *)

\* What keeps the types: a workflow that is under way has a command left, a
\* loop that runs has failed no more often than is forgiven, and a command is
\* counted by a number.
TypeInv ==
    /\ TypeOK
    /\ call.kind = "flow" => flow.next < FlowLength
    /\ status = "running" => failures <= FailureLimit
    /\ stages \in [1 .. FlowLength -> Nat]

LEMMA TypeInit == Init => TypeInv
<1> SUFFICES ASSUME Init PROVE TypeInv
  OBVIOUS
<1>1. evidence \in Evidence
  BY NothingIsSnapshot DEF Init, Evidence
<1>2. delivery \in Delivery /\ delivered \in Snapshot
  BY NothingIsSnapshot DEF Init, Delivery, NoDelivery
<1>3. task \in Task /\ loaded \subseteq Skills
  BY AgentAssumption DEF Init, Skills, Task
<1> QED
  BY <1>1, <1>2, <1>3, AgentAssumption
  DEF Init, TypeInv, TypeOK, Bytes, NoCache, NoStage, Flow, Call, NoCall

\* The bounds, as numbers.
LEMMA Bounds ==
    /\ FlowLength \in Nat /\ FailureLimit \in Nat /\ InspectionLimit \in Nat
    /\ MaxOperations \in Nat /\ MaxBackground \in Nat /\ MaxBytes \in Nat \ {0}
BY AgentAssumption

\* The types, once the variables that hold numbers and sets are looked at.
LEMMA Counting ==
    ASSUME operations \in 0 .. MaxOperations, Counted
    PROVE  operations' \in 0 .. MaxOperations
BY Bounds DEF Counted

\* An empty cache, and whatever a program does, leave a workspace.
LEMMA Workspaces ==
    /\ NoCache \in [Files -> Bytes]
    /\ \A fs \in [Files -> Bytes] : Touched(fs) \subseteq [Files -> Bytes]
BY Bounds DEF NoCache, Touched, Bytes

\* A cache that a collection may empty stays one.
LEMMA CacheAfterIsCache ==
    ASSUME cache \in [Files -> Bytes], NEW e, NEW snapshot
    PROVE  CacheAfter(e, snapshot) \in [Files -> Bytes]
BY Workspaces DEF CacheAfter

\* What an operation leaves of a delivery.
LEMMA GroupAfterIsDelivery ==
    ASSUME delivery \in Delivery, NEW ok \in BOOLEAN
    PROVE  GroupAfter(ok) \in Delivery /\ NoDelivery \in Delivery
<1>1. NoDelivery \in Delivery
  BY NothingIsSnapshot DEF NoDelivery, Delivery
<1>2. [delivery EXCEPT !.phase = "ran"] \in Delivery
  BY DEF Delivery
<1> QED
  BY <1>1, <1>2 DEF GroupAfter

LEMMA TypeNext == TypeInv /\ [Next]_vars => TypeInv'
<1> SUFFICES ASSUME TypeInv, [Next]_vars
             PROVE  TypeInv'
  OBVIOUS
<1> USE DEF TypeInv, TypeOK, history, skills
<1>0. Skills' = Skills \/ task' # task
  BY DEF Skills
<1>1. ASSUME NEW i \in Skills,
             ReadSkill(i)
      PROVE  TypeInv'
  BY <1>1, <1>0, Counting DEF ReadSkill
<1>2. ASSUME NEW i \in Skills,
             CompleteSkill(i)
      PROVE  TypeInv'
  BY <1>2, <1>0, Counting DEF CompleteSkill, Completable
<1>3. ASSUME NEW i \in Skills,
             RunFixedSkill(i)
      PROVE  TypeInv'
  BY <1>3, <1>0, Counting, MutatedFacts, Workspaces DEF RunFixedSkill
<1>4. ASSUME NEW p \in Bytes, NEW c \in Criteria,
             UpdatePlan(p, c)
      PROVE  TypeInv'
  <2>1. evidence' \in Evidence
    <3>1. evidence' = evidence \/ evidence' = Reports(evidence, NoReport, NoReport)
      BY <1>4, Zenon DEF UpdatePlan, Replanned, Reports
    <3> QED
      BY <3>1, NothingIsSnapshot, ReportedFacts
  <2>2. files' \in [Files -> Bytes]
    BY <1>4 DEF UpdatePlan
  <2> QED
    BY <1>4, <1>0, <2>1, <2>2, Counting DEF UpdatePlan
<1>5. ASSUME NEW f \in Readable,
             ReadFile(f)
      PROVE  TypeInv'
  BY <1>5, <1>0, Counting, AgentAssumption DEF ReadFile
<1>6. ASSUME NEW f \in Files, NEW b \in Bytes \ {0}, NEW ok \in BOOLEAN,
             WriteFile(f, b, ok)
      PROVE  TypeInv'
  BY <1>6, <1>0, Counting, MutatedFacts, GroupAfterIsDelivery, Bounds DEF WriteFile, Invalidated, Bytes
<1>7. ASSUME NEW ok \in BOOLEAN,
             Command(ok)
      PROVE  TypeInv'
  BY <1>7, <1>0, Counting, MutatedFacts, GroupAfterIsDelivery, Workspaces, Bounds DEF Command, MayInspect
<1>8. ASSUME NEW ok \in BOOLEAN,
             FlowCommand(ok)
      PROVE  TypeInv'
  <2> DEFINE i == flow.next + 1
             captured(fs) == ok /\ i = ExportStage /\ AutoExport /\ Exported(files, fs)
             signal(fs) == IF captured(fs) THEN fs[Source[ExportOutput]] ELSE flow.signal
             declared(fs) == [phase |-> "received", paths |-> {ExportOutput},
                              base |-> [o \in {ExportOutput} |-> 0],
                              want |-> [o \in {ExportOutput} |-> signal(fs)]]
  <2>1. PICK fs \in Touched(files) :
          /\ files' = IF captured(fs) THEN Collected(fs, {ExportOutput}) ELSE fs
          /\ flow' = IF ok THEN [flow EXCEPT !.next = i, !.signal = signal(fs)]
                     ELSE [flow EXCEPT !.failed = TRUE]
          /\ stages' = IF ok THEN [stages EXCEPT ![i] = @ + 1] ELSE stages
          /\ call' = IF ok /\ i < FlowLength THEN call ELSE NoCall
          /\ delivery' = IF ok /\ i = FlowLength /\ delivery.phase = "none" /\ signal(fs) # 0
                         THEN declared(fs) ELSE GroupAfter(ok)
    BY <1>8, Zenon DEF FlowCommand
  <2>2. /\ fs \in [Files -> Bytes]
        /\ {ExportOutput} \in SUBSET Outputs
        /\ Source[ExportOutput] \in Files
        /\ i \in 1 .. FlowLength
        /\ call.kind = "flow"
    BY <1>8, <2>1, Workspaces, AgentAssumption, SMTT(30) DEF FlowCommand, Flow
  <2>3. files' \in [Files -> Bytes]
    BY <2>1, <2>2, CollectedIsWorkspace
  <2>4. signal(fs) \in Bytes
    BY <2>2 DEF Flow
  <2> HIDE DEF captured, signal
  <2>5. flow' \in Flow /\ (ok => flow'.next = i)
    <3>1. CASE ok
      <4>1. flow' = [[flow EXCEPT !.next = i] EXCEPT !.signal = signal(fs)]
        BY <2>1, <3>1, Zenon
      <4>2. [flow EXCEPT !.next = i] \in Flow /\ [flow EXCEPT !.next = i].next = i
        BY <2>2 DEF Flow
      <4> QED
        BY <2>4, <4>1, <4>2 DEF Flow
    <3>2. CASE ~ok
      BY <2>1, <3>2 DEF Flow
    <3> QED
      BY <3>1, <3>2
  <2>6. call' \in Call /\ (call'.kind = "flow" => ok /\ i < FlowLength)
    BY <2>1 DEF NoCall, Call
  <2>7. stages' \in [1 .. FlowLength -> Nat]
    BY <2>1, <2>2
  <2>8. declared(fs) \in Delivery
    <3>1. [o \in {ExportOutput} |-> 0] \in Snapshot
      <4>1. [o \in {ExportOutput} |-> 0] \in [{ExportOutput} -> Bytes]
        BY Bounds DEF Bytes
      <4> QED
        BY <2>2, <4>1 DEF Snapshot
    <3>2. [o \in {ExportOutput} |-> signal(fs)] \in Snapshot
      <4>1. [o \in {ExportOutput} |-> signal(fs)] \in [{ExportOutput} -> Bytes]
        BY <2>4
      <4> QED
        BY <2>2, <4>1 DEF Snapshot
    <3> QED
      BY <2>2, <3>1, <3>2 DEF Delivery
  <2>9. delivery' \in Delivery
    BY <2>1, <2>8, GroupAfterIsDelivery
  <2>10. /\ evidence' \in Evidence
         /\ cache' \in [Files -> Bytes]
         /\ UNCHANGED <<task, deliveryOnly, plan, requirements, skills, failures,
                        inspections, status, delivered, background>>
         /\ Counted
    BY <1>8, MutatedFacts, Workspaces DEF FlowCommand
  <2> HIDE DEF i, declared
  <2> QED
    BY <1>0, <2>3, <2>5, <2>6, <2>7, <2>9, <2>10, Counting
<1>9. ASSUME NEW ok \in BOOLEAN,
             RecordValidation(ok)
      PROVE  TypeInv'
  <2> DEFINE snapshot == Bound(files, Present(files))
             report == [known |-> TRUE, ok |-> TRUE, artifacts |-> snapshot,
                        epoch |-> evidence.epoch]
  <2>1. snapshot \in Snapshot
    BY BoundIsSnapshot DEF Present
  <2>2. report \in Report
    BY <2>1 DEF Report, Evidence
  <2>3. evidence' = [evidence EXCEPT !.validation = report]
          \/ evidence' = [evidence EXCEPT !.validation = NoReport]
    BY <1>9 DEF RecordValidation
  <2>4. evidence' \in Evidence
    <3> HIDE DEF report
    <3> QED
      BY <2>2, <2>3, NothingIsSnapshot, ValidatedFacts
  <2>5. status = "running" /\ failures' \in 0 .. FailureLimit + 1
        /\ (status' = "running" => failures' <= FailureLimit)
        /\ status' \in {"running", "finished", "failed"}
    BY <1>9, Bounds DEF RecordValidation, Free
  <2> QED
    BY <1>9, <1>0, <2>4, <2>5, Counting DEF RecordValidation
<1>10. ASSUME NEW restart \in BOOLEAN, NEW retry \in BOOLEAN,
             StartFlow(restart, retry)
      PROVE  TypeInv'
  <2>1. flow' \in Flow
    BY <1>10, Bounds DEF StartFlow, Resumed, Flow, Bytes
  <2>2. call' \in Call
    BY <1>10 DEF StartFlow, Call, NoCall
  <2>3. stages' \in [1 .. FlowLength -> Nat]
    BY <1>10 DEF StartFlow, NoStage
  <2>4. flow'.next < FlowLength
    BY <1>10 DEF StartFlow, Resumed
  <2> QED
    BY <1>10, <1>0, <2>1, <2>2, <2>3, <2>4 DEF StartFlow
<1>11. ASSUME NEW D \in SUBSET Outputs, NEW S \in SUBSET D,
             CollectOnly(D, S)
      PROVE  TypeInv'
  BY <1>11, <1>0, Counting, CollectedIsWorkspace, RegisteredFacts, BoundIsSnapshot, CacheAfterIsCache DEF CollectOnly
<1>12. ASSUME NEW D \in SUBSET Outputs, NEW S \in SUBSET D, NEW checks \in BOOLEAN,
             Verify(D, S, checks)
      PROVE  TypeInv'
  <2> DEFINE first == Collected(files, S)
             before == Read(first, D)
             e1 == IF D = {} THEN evidence ELSE Registered(evidence, before)
             again(fs) == Collected(fs, S)
             after(fs) == Read(again(fs), D)
             e2(fs) == IF D = {} THEN e1 ELSE Registered(e1, after(fs))
             ok(fs) == Passed(before, Read(fs, D), after(fs), checks /\ Sources(fs, S) = S)
             report(fs) == [known |-> TRUE, ok |-> ok(fs), artifacts |-> after(fs),
                            epoch |-> e2(fs).epoch]
  <2>1. PICK fs \in Touched(first) :
          /\ files' = again(fs)
          /\ evidence' = Judged(e2(fs), report(fs),
                                IF ok(fs) THEN report(fs) ELSE NoReport,
                                IF ok(fs) THEN 0 ELSE e2(fs).epoch)
          /\ failures' = IF ok(fs) THEN failures ELSE failures + 1
          /\ status' = IF failures' > FailureLimit THEN "failed" ELSE status
          /\ cache' = IF D = {} THEN cache
                      ELSE IF Differs(e1, after(fs)) THEN NoCache
                      ELSE CacheAfter(evidence, before)
    BY <1>12, Zenon DEF Verify, Judged
  <2>2. S \in SUBSET Outputs /\ first \in [Files -> Bytes] /\ fs \in [Files -> Bytes]
    BY <2>1, CollectedIsWorkspace, Workspaces
  <2>3. again(fs) \in [Files -> Bytes]
    BY <2>2, CollectedIsWorkspace
  <2>4. before \in Snapshot /\ after(fs) \in Snapshot
    BY <2>2, <2>3, ReadIsSnapshot
  <2>5. e1 \in Evidence
    BY <2>4, RegisteredFacts
  <2>6. e2(fs) \in Evidence
    BY <2>4, <2>5, RegisteredFacts
  <2>7. report(fs) \in Report
    <3>1. ok(fs) \in BOOLEAN
      BY DEF Passed
    <3>2. e2(fs).epoch \in Nat
      BY <2>6 DEF Evidence
    <3> HIDE DEF ok, after, e2
    <3> QED
      BY <3>1, <3>2, <2>4 DEF Report
  <2>8. evidence' \in Evidence
    <3>1. (IF ok(fs) THEN 0 ELSE e2(fs).epoch) \in Nat
      BY <2>6 DEF Evidence
    <3>2. (IF ok(fs) THEN report(fs) ELSE NoReport) \in Report
      BY <2>7, NothingIsSnapshot
    <3> HIDE DEF ok, report, e2
    <3> QED
      BY <2>1, <2>6, <2>7, <3>1, <3>2, ReportedFacts
  <2>9. cache' \in [Files -> Bytes]
    BY <2>1, CacheAfterIsCache, Workspaces
  <2>10. /\ failures' \in 0 .. FailureLimit + 1
         /\ status' = "running" => failures' <= FailureLimit
         /\ status' \in {"running", "finished", "failed"}
    <3>1. status = "running" /\ (failures' = failures \/ failures' = failures + 1)
      BY <1>12, <2>1 DEF Verify, Free
    <3>2. \/ status' = "failed" /\ failures' > FailureLimit
          \/ status' = status /\ ~(failures' > FailureLimit)
      BY <2>1, Zenon
    <3> QED
      BY <3>1, <3>2, Bounds
  <2>11. /\ UNCHANGED <<task, deliveryOnly, plan, requirements, skills, inspections,
                        flow, call, delivery, delivered, background, stages>>
         /\ Counted
    BY <1>12 DEF Verify
  <2>12. files' \in [Files -> Bytes]
    BY <2>1, <2>3
  <2> HIDE DEF first, before, e1, again, after, e2, ok, report
  <2> QED
    BY <1>0, <2>8, <2>9, <2>10, <2>11, <2>12, Counting
<1>13. ASSUME NEW D \in SUBSET Outputs, NEW S \in SUBSET D,
             FinishCollect(D, S)
      PROVE  TypeInv'
  BY <1>13, <1>0, Counting, CollectedIsWorkspace DEF FinishCollect, Call, NoCall
<1>14. ASSUME NEW S \in SUBSET Outputs,
             CollectFails(S)
      PROVE  TypeInv'
  BY <1>14, <1>0, Counting, CollectedIsWorkspace DEF CollectFails
<1>15. ASSUME NEW S \in SUBSET Outputs,
             BeginGroup(S)
      PROVE  TypeInv'
  <2>1. [o \in S |-> files[Source[o]]] \in Snapshot
    BY AgentAssumption DEF Snapshot
  <2>2. delivery' \in Delivery
    BY <1>15, <2>1, NothingIsSnapshot DEF BeginGroup, Delivery
  <2> QED
    BY <1>15, <1>0, <2>2 DEF BeginGroup
<1>16. CASE VerifyNothing
  <2> DEFINE report == [known |-> TRUE, ok |-> FALSE, artifacts |-> Nothing,
                        epoch |-> evidence.epoch]
  <2>1. report \in Report
    BY NothingIsSnapshot DEF Report, Evidence
  <2>2. evidence' = Reports(evidence, report, NoReport)
    BY <1>16, Zenon DEF VerifyNothing, Reports
  <2>3. evidence' \in Evidence
    <3> HIDE DEF report
    <3> QED
      BY <2>1, <2>2, NothingIsSnapshot, ReportedFacts
  <2> QED
    BY <1>16, <1>0, <2>3, Counting DEF VerifyNothing
<1>17. CASE FinishJudge
  <2> DEFINE snapshot == Bound(files, IF deliveryOnly THEN call.paths ELSE Present(files))
  <2>1. snapshot \in Snapshot
    BY BoundIsSnapshot DEF Present, Call
  <2>2. evidence' \in Evidence /\ cache' \in [Files -> Bytes]
    BY <1>17, <2>1, RegisteredFacts, CacheAfterIsCache DEF FinishJudge
  <2>3. completed' \subseteq Skills /\ delivered' \in Snapshot
        /\ status' \in {"running", "finished", "failed"}
        /\ (status' = "running" => status = "running")
    <3>1. UNCHANGED <<status, delivered, completed>> \/ Accepted(snapshot)
      BY <1>17, Zenon DEF FinishJudge
    <3>2. task' = task
      BY <1>17 DEF FinishJudge
    <3> HIDE DEF snapshot
    <3>3. CASE UNCHANGED <<status, delivered, completed>>
      BY <3>2, <3>3 DEF Skills
    <3>4. CASE Accepted(snapshot)
      <4>1. completed' \subseteq Skills
        <5>1. task.skills = 1 => 1 \in Skills
          BY DEF Skills
        <5> QED
          BY <3>4, <5>1 DEF Accepted
      <4> QED
        BY <2>1, <3>4, <4>1 DEF Accepted
    <3> QED
      BY <3>1, <3>3, <3>4
  <2>4. call' = NoCall /\ NoCall \in Call /\ NoCall.kind # "flow"
    BY <1>17 DEF FinishJudge, NoCall, Call
  <2> QED
    BY <1>17, <1>0, <2>2, <2>3, <2>4 DEF FinishJudge
<1>18. CASE ReceiveGroup
  <2> DEFINE after == [o \in delivery.paths |-> files[Source[o]]]
  <2>1. after \in Snapshot
    BY AgentAssumption DEF Snapshot, Delivery
  <2>2. delivery' \in Delivery
    <3>1. delivery' = NoDelivery
            \/ delivery' = [[delivery EXCEPT !.phase = "received"] EXCEPT !.want = after]
      BY <1>18, Zenon DEF ReceiveGroup
    <3>2. [delivery EXCEPT !.phase = "received"] \in Delivery
      BY DEF Delivery
    <3> HIDE DEF after
    <3>3. [[delivery EXCEPT !.phase = "received"] EXCEPT !.want = after] \in Delivery
      BY <3>2, <2>1 DEF Delivery
    <3> QED
      BY <3>1, <3>3, GroupAfterIsDelivery
  <2> QED
    BY <1>18, <1>0, <2>2 DEF ReceiveGroup
<1>19. CASE CopyDelivery
  <2>1. delivery.paths \in SUBSET Outputs
    BY DEF Delivery
  <2>2. files' \in [Files -> Bytes]
    BY <1>19, <2>1, CollectedIsWorkspace DEF CopyDelivery
  <2>3. delivery' \in Delivery
    BY <1>19, GroupAfterIsDelivery DEF CopyDelivery, Delivery
  <2> QED
    BY <1>19, <1>0, <2>2, <2>3 DEF CopyDelivery
<1>20. CASE AcceptDelivery
  <2> DEFINE snapshot == Bound(files, delivery.paths)
  <2>1. snapshot \in Snapshot
    BY BoundIsSnapshot DEF Delivery
  <2>2. evidence' \in Evidence /\ cache' \in [Files -> Bytes]
    BY <1>20, <2>1, RegisteredFacts, CacheAfterIsCache DEF AcceptDelivery
  <2>3. completed' \subseteq Skills /\ delivered' \in Snapshot
        /\ status' \in {"running", "finished", "failed"}
        /\ (status' = "running" => status = "running")
    BY <1>20, <2>1 DEF AcceptDelivery, Accepted, Skills
  <2>4. delivery' \in Delivery
    <3>1. [delivery EXCEPT !.phase = "done"] \in Delivery
      BY DEF Delivery
    <3> QED
      BY <1>20, <3>1, GroupAfterIsDelivery DEF AcceptDelivery
  <2> QED
    BY <1>20, <1>0, <2>2, <2>3, <2>4 DEF AcceptDelivery
<1>21. CASE Upgrade
  <2>1. evidence' = Judged(evidence, NoReport, NoReport, 0)
    BY <1>21, Zenon DEF Upgrade, Judged
  <2>2. evidence' \in Evidence
    BY <2>1, NothingIsSnapshot, ReportedFacts
  <2> QED
    BY <1>21, <1>0, <2>2, Counting, Workspaces DEF Upgrade
<1>22. ASSUME NEW policy \in Policies,
             Resume(policy)
      PROVE  TypeInv'
  BY <1>22, <1>0, AgentAssumption DEF Resume, NoCache, Bytes
<1>23. ASSUME NEW f \in Files, NEW b \in Bytes,
             BackgroundWrite(f, b)
      PROVE  TypeInv'
  BY <1>23, <1>0, Bounds DEF BackgroundWrite
<1>24. CASE Abort
  BY <1>24, <1>0 DEF Abort
<1>25. CASE UNCHANGED vars
  BY <1>25, <1>0 DEF vars, Skills
<1> QED
  BY <1>1, <1>2, <1>3, <1>4, <1>5, <1>6, <1>7, <1>8, <1>9, <1>10, <1>11, <1>12, <1>13, <1>14, <1>15, <1>16, <1>17, <1>18, <1>19, <1>20, <1>21, <1>22, <1>23, <1>24, <1>25 DEF Next

\* The variables keep their types, whatever the workspace and the deployment.
THEOREM TypeCorrect == Spec => []TypeOK
<1>1. Spec => []TypeInv
  BY TypeInit, TypeNext, PTL DEF Spec
<1> QED
  BY <1>1, PTL DEF TypeInv

-----------------------------------------------------------------------------
(* Evidence.                                                               *)

\* A step that keeps both reports with their epoch, or leaves none, keeps the
\* evidence.
LEMMA EvidenceFrame ==
    ASSUME EvidenceInv,
           \/ evidence'.verification = NoReport /\ evidence'.validation = NoReport
           \/ /\ evidence'.verification = evidence.verification
              /\ evidence'.validation = evidence.validation
              /\ evidence'.epoch = evidence.epoch,
           UNCHANGED <<requirements, demanded, proofs>>
    PROVE  EvidenceInv'
<1>1. demanded' = {requirements'[i] : i \in DOMAIN requirements'}
  BY DEF EvidenceInv
<1>2. CASE evidence'.verification = NoReport /\ evidence'.validation = NoReport
  BY <1>1, <1>2 DEF EvidenceInv, NoReport
<1>3. CASE /\ evidence'.verification = evidence.verification
           /\ evidence'.validation = evidence.validation
           /\ evidence'.epoch = evidence.epoch
  <2>1. \A report : Proven(report) => Proven(report)'
    BY DEF Proven
  <2> QED
    BY <1>1, <1>3, <2>1 DEF EvidenceInv
<1> QED
  BY <1>2, <1>3

LEMMA EvidenceInit == Init => EvidenceInv
BY DEF Init, EvidenceInv, NoReport

\* Criteria that only grow at the end are all kept.
LEMMA GrowingKeeps ==
    ASSUME NEW r \in Seq(STRING), NEW c \in Seq(STRING),
           Len(c) >= Len(r), SubSeq(c, 1, Len(r)) = r
    PROVE  {r[i] : i \in DOMAIN r} \subseteq {c[i] : i \in DOMAIN c}
<1> SUFFICES ASSUME NEW i \in DOMAIN r
             PROVE  i \in DOMAIN c /\ r[i] = c[i]
  OBVIOUS
<1>1. i \in 1 .. Len(r)
  OBVIOUS
<1>2. SubSeq(c, 1, Len(r))[i] = c[i]
  BY <1>1
<1> QED
  BY <1>1, <1>2

LEMMA EvidenceNext == TypeInv /\ EvidenceInv /\ [Next]_vars => EvidenceInv'
<1> SUFFICES ASSUME TypeInv, EvidenceInv, [Next]_vars
             PROVE  EvidenceInv'
  OBVIOUS
<1> USE DEF TypeInv, TypeOK, history
<1>1. ASSUME UNCHANGED <<evidence, requirements, demanded, proofs>>
      PROVE  EvidenceInv'
  BY <1>1, EvidenceFrame
<1>2. ASSUME evidence' = Mutated(evidence), UNCHANGED <<requirements, demanded, proofs>>
      PROVE  EvidenceInv'
  BY <1>2, EvidenceFrame, MutatedFacts
<1>3. ASSUME NEW snapshot \in Snapshot, evidence' = Registered(evidence, snapshot),
             UNCHANGED <<requirements, demanded, proofs>>
      PROVE  EvidenceInv'
  BY <1>3, EvidenceFrame, RegisteredFacts
<1>4. ASSUME NEW p \in Bytes, NEW c \in Criteria, UpdatePlan(p, c)
      PROVE  EvidenceInv'
  <2>1. requirements \in Seq(STRING) /\ c \in Seq(STRING)
    <3>1. Criteria \subseteq Seq(STRING)
      BY AgentAssumption
    <3>2. requirements \in Criteria \/ requirements = <<>>
      OBVIOUS
    <3>3. <<>> \in Seq(STRING)
      OBVIOUS
    <3> QED
      BY <3>1, <3>2, <3>3, Zenon
  <2>2. demanded' = {requirements'[i] : i \in DOMAIN requirements'}
    BY <1>4, <2>1, GrowingKeeps DEF UpdatePlan, Preserving, EvidenceInv
  <2>3. CASE c = requirements
    <3>1. UNCHANGED <<evidence, requirements, demanded, proofs>>
      BY <1>4, <2>2, <2>3 DEF UpdatePlan, Replanned, EvidenceInv
    <3> QED
      BY <3>1, <1>1
  <2>4. CASE c # requirements
    <3>1. evidence' = Reports(evidence, NoReport, NoReport)
      BY <1>4, <2>4, Zenon DEF UpdatePlan, Replanned, Reports
    <3>2. evidence'.verification = NoReport /\ evidence'.validation = NoReport
      BY <3>1, NothingIsSnapshot, ReportedFacts
    <3> QED
      BY <2>2, <3>2 DEF EvidenceInv, NoReport
  <2> QED
    BY <2>3, <2>4
<1>5. ASSUME NEW ok \in BOOLEAN, RecordValidation(ok)
      PROVE  EvidenceInv'
  <2> DEFINE snapshot == Bound(files, Present(files))
             report == [known |-> TRUE, ok |-> TRUE, artifacts |-> snapshot,
                        epoch |-> evidence.epoch]
  <2>1. snapshot \in Snapshot /\ report \in Report
    BY BoundIsSnapshot DEF Present, Report, Evidence
  <2>2. /\ evidence.verification.known /\ evidence.verification.ok
        /\ evidence.verification.artifacts = snapshot
        /\ evidence.verification.epoch = evidence.epoch
    BY <1>5 DEF RecordValidation, Acceptable
  <2>3. /\ UNCHANGED <<requirements, demanded, proofs>>
        /\ evidence' = [evidence EXCEPT !.validation = IF ok THEN report ELSE NoReport]
    BY <1>5 DEF RecordValidation
  <2>4. \/ evidence' = [evidence EXCEPT !.validation = report]
        \/ evidence' = [evidence EXCEPT !.validation = NoReport]
    BY <2>3
  <2>5. report.artifacts = snapshot /\ report.epoch = evidence.epoch /\ report.ok
    OBVIOUS
  <2> HIDE DEF snapshot, report
  <2>6. /\ evidence'.verification = evidence.verification
        /\ evidence'.epoch = evidence.epoch
        /\ evidence'.validation = report \/ evidence'.validation = NoReport
    <3>1. evidence \in Evidence /\ NoReport \in Report
      BY NothingIsSnapshot
    <3>2. CASE evidence' = [evidence EXCEPT !.validation = report]
      BY <2>1, <3>1, <3>2, ValidatedFacts, Zenon
    <3>3. CASE evidence' = [evidence EXCEPT !.validation = NoReport]
      BY <3>1, <3>3, ValidatedFacts, Zenon
    <3> QED
      BY <2>4, <3>2, <3>3
  <2>7. Proven(evidence.verification)
    BY <2>2 DEF EvidenceInv
  <2>8. \A r : r.artifacts = snapshot => Proven(r)'
    BY <2>2, <2>3, <2>7 DEF Proven
  <2>9. NoReport.known = FALSE
    BY DEF NoReport
  <2> QED
    BY <2>2, <2>3, <2>5, <2>6, <2>8, <2>9 DEF EvidenceInv
<1>6. ASSUME NEW D \in SUBSET Outputs, NEW S \in SUBSET D, NEW checks \in BOOLEAN,
             Verify(D, S, checks)
      PROVE  EvidenceInv'
  <2> DEFINE first == Collected(files, S)
             before == Read(first, D)
             e1 == IF D = {} THEN evidence ELSE Registered(evidence, before)
             after(fs) == Read(Collected(fs, S), D)
             e2(fs) == IF D = {} THEN e1 ELSE Registered(e1, after(fs))
             ok(fs) == Passed(before, Read(fs, D), after(fs), checks /\ Sources(fs, S) = S)
             report(fs) == [known |-> TRUE, ok |-> ok(fs), artifacts |-> after(fs),
                            epoch |-> e2(fs).epoch]
  <2>1. PICK fs \in Touched(first) :
          /\ evidence' = Judged(e2(fs), report(fs),
                                IF ok(fs) THEN report(fs) ELSE NoReport,
                                IF ok(fs) THEN 0 ELSE e2(fs).epoch)
          /\ proofs' = IF ok(fs) /\ before = after(fs)
                       THEN proofs \cup {[artifacts |-> after(fs),
                                          requirements |-> requirements]}
                       ELSE proofs
    BY <1>6, Zenon DEF Verify, Judged
  <2>2. S \in SUBSET Outputs /\ first \in [Files -> Bytes] /\ fs \in [Files -> Bytes]
    BY <2>1, CollectedIsWorkspace, Workspaces
  <2>3. before \in Snapshot /\ after(fs) \in Snapshot
    BY <2>2, CollectedIsWorkspace, ReadIsSnapshot
  <2>4. e2(fs) \in Evidence
    BY <2>3, RegisteredFacts
  <2>5. /\ report(fs).known /\ report(fs).ok = ok(fs)
        /\ report(fs).artifacts = after(fs) /\ report(fs).epoch = e2(fs).epoch
    OBVIOUS
  <2>6. report(fs) \in Report
    <3>1. ok(fs) \in BOOLEAN
      BY DEF Passed
    <3>2. e2(fs).epoch \in Nat
      BY <2>4 DEF Evidence
    <3> HIDE DEF ok, after, e2
    <3> QED
      BY <3>1, <3>2, <2>3 DEF Report
  <2>7. ok(fs) => [artifacts |-> after(fs), requirements |-> requirements] \in proofs'
    BY <2>1 DEF Passed
  <2>8. requirements' = requirements /\ demanded' = demanded
    BY <1>6 DEF Verify
  <2>9. (IF ok(fs) THEN 0 ELSE e2(fs).epoch) \in Nat
    BY <2>4 DEF Evidence
  <2>10. (IF ok(fs) THEN report(fs) ELSE NoReport) \in Report
    BY <2>6, NothingIsSnapshot
  <2> HIDE DEF first, before, e1, after, e2, ok, report
  <2>11. /\ evidence'.verification = report(fs)
         /\ evidence'.validation = IF ok(fs) THEN report(fs) ELSE NoReport
         /\ evidence'.epoch = e2(fs).epoch
    <3> DEFINE w == IF ok(fs) THEN report(fs) ELSE NoReport
               b == IF ok(fs) THEN 0 ELSE e2(fs).epoch
    <3>1. evidence' = Judged(e2(fs), report(fs), w, b) /\ w \in Report /\ b \in Nat
      BY <2>1, <2>9, <2>10
    <3>2. w = IF ok(fs) THEN report(fs) ELSE NoReport
      OBVIOUS
    <3> HIDE DEF w, b, TypeInv, TypeOK
    <3> QED
      BY <2>4, <2>6, <3>1, <3>2, ReportedFacts
  <2>12. \A r : ok(fs) /\ r.artifacts = after(fs) => Proven(r)'
    BY <2>7, <2>8 DEF Proven
  <2>13. NoReport.known = FALSE
    BY DEF NoReport
  <2> QED
    BY <2>5, <2>8, <2>11, <2>12, <2>13 DEF EvidenceInv
<1>7. CASE VerifyNothing
  <2> DEFINE report == [known |-> TRUE, ok |-> FALSE, artifacts |-> Nothing,
                        epoch |-> evidence.epoch]
  <2>1. report \in Report /\ report.ok = FALSE
    BY NothingIsSnapshot DEF Report, Evidence
  <2>2. /\ evidence' = Reports(evidence, report, NoReport)
        /\ UNCHANGED <<requirements, demanded, proofs>>
    BY <1>7, Zenon DEF VerifyNothing, Reports
  <2>3. evidence \in Evidence /\ NoReport \in Report /\ 0 \in Nat
    BY NothingIsSnapshot
  <2> HIDE DEF report, TypeInv, TypeOK
  <2>4. evidence'.verification = report /\ evidence'.validation = NoReport
    BY <2>1, <2>2, <2>3, ReportedFacts
  <2> QED
    BY <2>1, <2>2, <2>4 DEF EvidenceInv, NoReport
<1>8. CASE Upgrade
  <2>1. evidence'.verification = NoReport /\ evidence'.validation = NoReport
    <3>1. evidence' = Judged(evidence, NoReport, NoReport, 0)
      BY <1>8, Zenon DEF Upgrade, Judged
    <3> QED
      BY <3>1, NothingIsSnapshot, ReportedFacts
  <2> QED
    BY <1>8, <2>1, EvidenceFrame DEF Upgrade
<1>9. ASSUME NEW D \in SUBSET Outputs, NEW S \in SUBSET D, CollectOnly(D, S)
      PROVE  EvidenceInv'
  <2>1. Bound(Collected(files, S), D) \in Snapshot
    BY CollectedIsWorkspace, BoundIsSnapshot
  <2> QED
    BY <1>3, <1>9, <2>1 DEF CollectOnly
<1>10. CASE FinishJudge
  <2> DEFINE snapshot == Bound(files, IF deliveryOnly THEN call.paths ELSE Present(files))
  <2>1. snapshot \in Snapshot
    BY BoundIsSnapshot DEF Present, Call
  <2>2. /\ evidence' = evidence \/ evidence' = Registered(evidence, snapshot)
        /\ UNCHANGED <<requirements, demanded, proofs>>
    BY <1>10 DEF FinishJudge
  <2> QED
    BY <1>1, <1>3, <2>1, <2>2
<1>11. CASE AcceptDelivery
  <2> DEFINE snapshot == Bound(files, delivery.paths)
  <2>1. snapshot \in Snapshot
    BY BoundIsSnapshot DEF Delivery
  <2>2. /\ evidence' = evidence \/ evidence' = Registered(evidence, snapshot)
        /\ UNCHANGED <<requirements, demanded, proofs>>
    BY <1>11 DEF AcceptDelivery
  <2> QED
    BY <1>1, <1>3, <2>1, <2>2
<1>12. ASSUME NEW i \in Skills, RunFixedSkill(i)
       PROVE  EvidenceInv'
  BY <1>2, <1>12 DEF RunFixedSkill
<1>13. ASSUME NEW f \in Files, NEW b \in Bytes \ {0}, NEW ok \in BOOLEAN,
              WriteFile(f, b, ok)
       PROVE  EvidenceInv'
  BY <1>2, <1>13 DEF WriteFile
<1>14. ASSUME NEW ok \in BOOLEAN, Command(ok) \/ FlowCommand(ok)
       PROVE  EvidenceInv'
  <2>1. CASE Command(ok)
    BY <1>2, <2>1 DEF Command
  <2>2. CASE FlowCommand(ok)
    <3>1. evidence' = Mutated(evidence) /\ UNCHANGED <<requirements, demanded, proofs>>
      BY <2>2, Zenon DEF FlowCommand
    <3> QED
      BY <1>2, <3>1
  <2> QED
    BY <1>14, <2>1, <2>2
<1>15. ASSUME NEW i \in Skills, ReadSkill(i) \/ CompleteSkill(i)
       PROVE  EvidenceInv'
  BY <1>1, <1>15 DEF ReadSkill, CompleteSkill
<1>16. ASSUME NEW f \in Readable, ReadFile(f)
       PROVE  EvidenceInv'
  BY <1>1, <1>16 DEF ReadFile
<1>17. ASSUME NEW restart \in BOOLEAN, NEW retry \in BOOLEAN, StartFlow(restart, retry)
       PROVE  EvidenceInv'
  BY <1>1, <1>17 DEF StartFlow
<1>18. ASSUME NEW D \in SUBSET Outputs, NEW S \in SUBSET D, FinishCollect(D, S)
       PROVE  EvidenceInv'
  BY <1>1, <1>18 DEF FinishCollect
<1>19. ASSUME NEW S \in SUBSET Outputs, CollectFails(S) \/ BeginGroup(S)
       PROVE  EvidenceInv'
  BY <1>1, <1>19 DEF CollectFails, BeginGroup
<1>20. CASE ReceiveGroup \/ CopyDelivery \/ Abort \/ UNCHANGED vars
  BY <1>1, <1>20 DEF ReceiveGroup, CopyDelivery, Abort, vars
<1>21. ASSUME NEW policy \in Policies, Resume(policy)
       PROVE  EvidenceInv'
  BY <1>1, <1>21 DEF Resume
<1>22. ASSUME NEW f \in Files, NEW b \in Bytes, BackgroundWrite(f, b)
       PROVE  EvidenceInv'
  BY <1>1, <1>22 DEF BackgroundWrite
<1> QED
  BY <1>4, <1>5, <1>6, <1>7, <1>8, <1>9, <1>10, <1>11, <1>12, <1>13, <1>14, <1>15,
     <1>16, <1>17, <1>18, <1>19, <1>20, <1>21, <1>22 DEF Next

\* Init and every step keep the evidence on record what the latest verifier
\* passed: no write, plan, collection or upgrade leaves an older one standing.
THEOREM EvidenceInvariant == Spec => []EvidenceInv
<1>1. Init => TypeInv /\ EvidenceInv
  BY TypeInit, EvidenceInit
<1>2. TypeInv /\ EvidenceInv /\ [Next]_vars => (TypeInv /\ EvidenceInv)'
  BY TypeNext, EvidenceNext
<1> QED
  BY <1>1, <1>2, PTL DEF Spec

\* Types and evidence together, which the runs check as one invariant.
THEOREM AgentInvariant == Spec => []AgentInv
BY TypeCorrect, EvidenceInvariant, PTL DEF AgentInv

-----------------------------------------------------------------------------
(* Finishing.                                                              *)

\* The step that returns the snapshot.
Finishes(snapshot) ==
    /\ Accepted(snapshot)
    /\ Complete(Registered(evidence, snapshot), snapshot)
    /\ evidence' = Registered(evidence, snapshot)
    /\ UNCHANGED <<task, deliveryOnly, requirements, loaded, executed, demanded, proofs>>

\* Nothing moves once the loop has ended, and only an accepted call of finish
\* or an accepted delivery ends it well.
LEMMA Finishing ==
    ASSUME TypeInv, [Next]_vars
    PROVE  \/ UNCHANGED vars
           \/ status = "running" /\ status' # "finished"
           \/ status = "running" /\ \E S \in SUBSET Outputs : Finishes(Bound(files, S))
<1> USE DEF TypeInv, TypeOK, history, Free, Operating
<1>1. ASSUME NEW i \in Skills, ReadSkill(i) \/ CompleteSkill(i) \/ RunFixedSkill(i)
      PROVE  status = "running" /\ status' # "finished"
  BY <1>1 DEF ReadSkill, CompleteSkill, RunFixedSkill
<1>2. ASSUME NEW p \in Bytes, NEW c \in Criteria, UpdatePlan(p, c)
      PROVE  status = "running" /\ status' # "finished"
  BY <1>2 DEF UpdatePlan
<1>3. ASSUME NEW f \in Readable, ReadFile(f)
      PROVE  status = "running" /\ status' # "finished"
  BY <1>3 DEF ReadFile
<1>4. ASSUME NEW f \in Files, NEW b \in Bytes \ {0}, NEW ok \in BOOLEAN, WriteFile(f, b, ok)
      PROVE  status = "running" /\ status' # "finished"
  BY <1>4 DEF WriteFile
<1>5. ASSUME NEW ok \in BOOLEAN, Command(ok)
      PROVE  status = "running" /\ status' # "finished"
  BY <1>5 DEF Command
<1>6. ASSUME NEW ok \in BOOLEAN, FlowCommand(ok)
      PROVE  status = "running" /\ status' # "finished"
  <2>1. status = "running" /\ status' = status
    BY <1>6, Zenon DEF FlowCommand
  <2> QED
    BY <2>1
<1>7. ASSUME NEW ok \in BOOLEAN, RecordValidation(ok)
      PROVE  status = "running" /\ status' # "finished"
  <2>1. /\ status = "running"
        /\ status' = IF failures' > FailureLimit THEN "failed" ELSE status
    BY <1>7, Zenon DEF RecordValidation
  <2> QED
    BY <2>1
<1>8. ASSUME NEW restart \in BOOLEAN, NEW retry \in BOOLEAN, StartFlow(restart, retry)
      PROVE  status = "running" /\ status' # "finished"
  BY <1>8 DEF StartFlow
<1>9. ASSUME NEW D \in SUBSET Outputs, NEW S \in SUBSET D,
             CollectOnly(D, S) \/ FinishCollect(D, S)
      PROVE  status = "running" /\ status' # "finished"
  BY <1>9 DEF CollectOnly, FinishCollect
<1>10. ASSUME NEW D \in SUBSET Outputs, NEW S \in SUBSET D, NEW checks \in BOOLEAN,
              Verify(D, S, checks)
       PROVE  status = "running" /\ status' # "finished"
  <2>1. /\ status = "running"
        /\ status' = IF failures' > FailureLimit THEN "failed" ELSE status
    BY <1>10, Zenon DEF Verify
  <2> QED
    BY <2>1
<1>11. ASSUME NEW S \in SUBSET Outputs, CollectFails(S) \/ BeginGroup(S)
       PROVE  status = "running" /\ status' # "finished"
  BY <1>11 DEF CollectFails, BeginGroup
<1>12. CASE VerifyNothing \/ ReceiveGroup \/ CopyDelivery \/ Upgrade \/ Abort
  BY <1>12 DEF VerifyNothing, ReceiveGroup, CopyDelivery, Upgrade, Abort
<1>13. ASSUME NEW policy \in Policies, Resume(policy)
       PROVE  status = "running" /\ status' # "finished"
  BY <1>13 DEF Resume
<1>14. ASSUME NEW f \in Files, NEW b \in Bytes, BackgroundWrite(f, b)
       PROVE  status = "running" /\ status' # "finished"
  BY <1>14 DEF BackgroundWrite
<1>15. CASE FinishJudge
  <2> DEFINE S == IF deliveryOnly THEN call.paths ELSE Present(files)
  <2>1. S \in SUBSET Outputs
    BY DEF Present, Call
  <2>2. status = "running" /\ (status' = status \/ Finishes(Bound(files, S)))
    BY <1>15, Zenon DEF FinishJudge, Finishes
  <2> HIDE DEF S
  <2> QED
    BY <2>1, <2>2
<1>16. CASE AcceptDelivery
  <2>1. delivery.paths \in SUBSET Outputs
    BY DEF Delivery
  <2>2. status = "running" /\ (status' = status \/ Finishes(Bound(files, delivery.paths)))
    BY <1>16, Zenon DEF AcceptDelivery, Finishes
  <2> QED
    BY <2>1, <2>2
<1>17. CASE UNCHANGED vars
  BY <1>17
<1> QED
  BY <1>1, <1>2, <1>3, <1>4, <1>5, <1>6, <1>7, <1>8, <1>9, <1>10, <1>11, <1>12,
     <1>13, <1>14, <1>15, <1>16, <1>17 DEF Next

LEMMA VerifiedNext ==
    TypeInv /\ EvidenceInv /\ FinishedIsVerified /\ [Next]_vars => FinishedIsVerified'
<1> SUFFICES ASSUME TypeInv, EvidenceInv, FinishedIsVerified, [Next]_vars,
                    EvidenceInv', status' = "finished", ~deliveryOnly'
             PROVE  \E proof \in proofs' :
                      /\ proof.artifacts = delivered'
                      /\ demanded' \subseteq {proof.requirements[i] : i \in DOMAIN proof.requirements}
  BY EvidenceNext DEF FinishedIsVerified
<1>1. CASE UNCHANGED vars
  BY <1>1 DEF vars, FinishedIsVerified
<1>2. CASE status = "running" /\ \E S \in SUBSET Outputs : Finishes(Bound(files, S))
  <2>1. PICK S \in SUBSET Outputs : Finishes(Bound(files, S))
    BY <1>2
  <2> DEFINE snapshot == Bound(files, S)
             proof == [artifacts |-> snapshot, requirements |-> requirements']
  <2>2. /\ delivered' = snapshot
        /\ evidence'.validation.known
        /\ evidence'.validation.artifacts = snapshot
    BY <2>1, Zenon DEF Finishes, Accepted, Complete
  <2>3. proof \in proofs'
    BY <2>2 DEF EvidenceInv, Proven
  <2>4. demanded' = {requirements'[i] : i \in DOMAIN requirements'}
    BY DEF EvidenceInv
  <2>5. proof.artifacts = snapshot /\ proof.requirements = requirements'
    OBVIOUS
  <2> HIDE DEF proof, snapshot
  <2> QED
    BY <2>2, <2>3, <2>4, <2>5
<1> QED
  BY <1>1, <1>2, Finishing

\* Whatever the workspace, the policies and the tasks: unless the deployment asks
\* for delivery only, a finished job returns exactly the bytes that one verifier
\* run has passed, and that run was asked about every criterion on record.
THEOREM VerifiedDelivery == Spec => []FinishedIsVerified
<1>1. Init => TypeInv /\ EvidenceInv /\ FinishedIsVerified
  BY TypeInit, EvidenceInit DEF Init, FinishedIsVerified
<1>2. TypeInv /\ EvidenceInv /\ FinishedIsVerified /\ [Next]_vars
        => (TypeInv /\ EvidenceInv /\ FinishedIsVerified)'
  BY TypeNext, EvidenceNext, VerifiedNext
<1> QED
  BY <1>1, <1>2, PTL DEF Spec

-----------------------------------------------------------------------------
(* Workflows.                                                              *)

\* A workflow stands before its first command that has not succeeded.
StageInv == \A i \in 1 .. FlowLength : stages[i] \in 0 .. 1 /\ (i > flow.next => stages[i] = 0)

LEMMA StageNext == TypeInv /\ StageInv /\ [Next]_vars => StageInv'
<1> SUFFICES ASSUME TypeInv, StageInv, [Next]_vars
             PROVE  StageInv'
  OBVIOUS
<1> USE DEF TypeInv, TypeOK, history
<1>1. CASE UNCHANGED <<stages, flow>>
  BY <1>1 DEF StageInv
<1>2. ASSUME NEW restart \in BOOLEAN, NEW retry \in BOOLEAN, StartFlow(restart, retry)
      PROVE  StageInv'
  <2>1. flow'.next = IF restart THEN 0 ELSE flow.next
    BY <1>2 DEF StartFlow, Resumed
  <2>2. stages' = IF restart THEN NoStage ELSE stages
    BY <1>2 DEF StartFlow
  <2> QED
    BY <2>1, <2>2 DEF StageInv, NoStage
<1>3. ASSUME NEW ok \in BOOLEAN, FlowCommand(ok)
      PROVE  StageInv'
  <2>1. call.kind = "flow"
    BY <1>3, Zenon DEF FlowCommand
  <2>2. flow.next \in Nat /\ flow.next + 1 \in 1 .. FlowLength /\ FlowLength \in Nat
    BY <2>1, Bounds DEF Flow
  <2>3. CASE ok
    <3>1. \E signal : flow' = [flow EXCEPT !.next = flow.next + 1, !.signal = signal]
      BY <1>3, <2>3, Zenon DEF FlowCommand
    <3>2. PICK signal : flow' = [[flow EXCEPT !.next = flow.next + 1] EXCEPT !.signal = signal]
      BY <3>1, Zenon
    <3>3. [flow EXCEPT !.next = flow.next + 1].next = flow.next + 1
      BY DEF Flow
    <3>4. flow'.next = flow.next + 1
      BY <3>2, <3>3 DEF Flow
    <3>5. stages' = [stages EXCEPT ![flow.next + 1] = @ + 1]
      BY <1>3, <2>3, Zenon DEF FlowCommand
    <3>6. stages[flow.next + 1] = 0
      BY <2>2 DEF StageInv
    <3> QED
      BY <2>2, <3>4, <3>5, <3>6 DEF StageInv
  <2>4. CASE ~ok
    <3>1. stages' = stages /\ flow' = [flow EXCEPT !.failed = TRUE]
      BY <1>3, <2>4, Zenon DEF FlowCommand
    <3>2. flow'.next = flow.next
      BY <3>1 DEF Flow
    <3> QED
      BY <3>1, <3>2 DEF StageInv
  <2> QED
    BY <2>3, <2>4
<1>4. ASSUME NEW D \in SUBSET Outputs, NEW S \in SUBSET D, NEW checks \in BOOLEAN,
             Verify(D, S, checks)
      PROVE  UNCHANGED <<stages, flow>>
  BY <1>4, Zenon DEF Verify
<1> QED
  BY <1>1, <1>2, <1>3, <1>4
  DEF Next, ReadSkill, CompleteSkill, RunFixedSkill, UpdatePlan, ReadFile, WriteFile,
      Command, RecordValidation, CollectOnly, FinishCollect, CollectFails, BeginGroup,
      VerifyNothing, FinishJudge, ReceiveGroup, CopyDelivery, AcceptDelivery, Upgrade,
      Resume, BackgroundWrite, Abort, vars

\* However long the workflow, and however often it fails and is retried, a
\* command that has succeeded is not run again until a restart is asked for.
THEOREM StagesRunOnce == Spec => []NoStageReplayed
<1>1. Init => TypeInv /\ StageInv
  BY TypeInit, Bounds DEF Init, StageInv, NoStage
<1>2. TypeInv /\ StageInv /\ [Next]_vars => (TypeInv /\ StageInv)'
  BY TypeNext, StageNext
<1>3. TypeInv /\ StageInv => NoStageReplayed
  BY DEF TypeInv, StageInv, NoStageReplayed
<1> QED
  BY <1>1, <1>2, <1>3, PTL DEF Spec

-----------------------------------------------------------------------------
(* Skills.                                                                 *)

\* The phases in order, with the sets written as intervals.
PhaseInv ==
    /\ task.ordered => /\ \E n \in Nat : loaded = 1 .. n
                       /\ \E n \in Nat : completed = 1 .. n
    /\ completed \subseteq loaded
    /\ completed \cap task.fixed \subseteq executed
    /\ status = "finished" => completed = Skills

\* The next of an interval makes a longer one.
LEMMA Growing ==
    ASSUME NEW n \in Nat, NEW i, i \in 1 .. n \/ i = Cardinality(1 .. n) + 1
    PROVE  \E m \in Nat : (1 .. n) \cup {i} = 1 .. m
<1>1. CASE i \in 1 .. n
  <2>1. (1 .. n) \cup {i} = 1 .. n
    BY <1>1
  <2> QED
    BY <2>1
<1>2. CASE i = Cardinality(1 .. n) + 1
  <2>1. Cardinality(1 .. n) = IF 1 > n THEN 0 ELSE n - 1 + 1
    BY FS_Interval
  <2>2. (1 .. n) \cup {i} = 1 .. n + 1
    BY <1>2, <2>1
  <2> QED
    BY <2>2
<1> QED
  BY <1>1, <1>2

\* What a job's policy guarantees.
LEMMA TaskFacts ==
    ASSUME task \in Tasks
    PROVE  /\ task.skills \in Nat \ {0}
           /\ task.ordered => task.skills > 1
           /\ task.skills = 1 => task.fixed = {}
BY AgentAssumption DEF Task

LEMMA PhaseNext == TypeInv /\ PhaseInv /\ [Next]_vars => PhaseInv'
<1> SUFFICES ASSUME TypeInv, PhaseInv, [Next]_vars
             PROVE  PhaseInv'
  OBVIOUS
<1> USE DEF TypeInv, TypeOK, history, skills
<1>1. ASSUME UNCHANGED <<task, loaded, completed, executed>>, status' # "finished"
      PROVE  PhaseInv'
  BY <1>1 DEF PhaseInv
<1>2. CASE UNCHANGED vars
  BY <1>2 DEF PhaseInv, Skills, vars
<1>3. CASE status = "running" /\ \E S \in SUBSET Outputs : Finishes(Bound(files, S))
  <2>1. PICK snapshot : Finishes(snapshot)
    BY <1>3
  <2>2. /\ UNCHANGED <<task, loaded, executed>>
        /\ completed' = IF task.skills = 1 THEN completed \cup {1} ELSE completed
        /\ Skills \subseteq loaded
        /\ task.skills > 1 => Skills \subseteq completed
    BY <2>1, Zenon DEF Finishes, Accepted, Complete
  <2>3. CASE task.skills = 1
    <3>1. Skills = {1} /\ Skills' = {1}
      BY <2>2, <2>3 DEF Skills
    <3>2. ~task.ordered /\ task.fixed = {}
      BY <2>3, TaskFacts
    <3>3. completed' = {1} /\ 1 \in loaded
      BY <2>2, <2>3, <3>1
    <3> QED
      BY <2>2, <3>1, <3>2, <3>3 DEF PhaseInv
  <2>4. CASE task.skills # 1
    <3>1. task.skills > 1
      BY <2>4, TaskFacts
    <3>2. completed' = completed /\ completed = Skills /\ Skills' = Skills
      BY <2>2, <2>4, <3>1 DEF Skills
    <3> QED
      BY <2>2, <3>2 DEF PhaseInv
  <2> QED
    BY <2>3, <2>4
<1>4. CASE status = "running" /\ status' # "finished"
  <2>1. ASSUME NEW i \in Skills, ReadSkill(i)
        PROVE  PhaseInv'
    <3>1. /\ UNCHANGED <<task, completed, executed>> /\ loaded' = loaded \cup {i}
          /\ task.ordered => i \in loaded \/ i = Cardinality(loaded) + 1
      BY <2>1 DEF ReadSkill
    <3>2. ASSUME task.ordered
          PROVE  \E n \in Nat : loaded' = 1 .. n
      <4>1. PICK n \in Nat : loaded = 1 .. n
        BY <3>2 DEF PhaseInv
      <4>2. i \in 1 .. n \/ i = Cardinality(1 .. n) + 1
        BY <3>1, <3>2, <4>1
      <4>3. \E m \in Nat : (1 .. n) \cup {i} = 1 .. m
        BY <4>2, Growing
      <4> QED
        BY <3>1, <4>1, <4>3
    <3> QED
      BY <1>4, <3>1, <3>2 DEF PhaseInv
  <2>2. ASSUME NEW i \in Skills, CompleteSkill(i)
        PROVE  PhaseInv'
    <3>1. /\ UNCHANGED <<task, loaded, executed>> /\ completed' = completed \cup {i}
          /\ i \in loaded
          /\ i \in task.fixed => i \in executed
          /\ task.ordered => i = Cardinality(completed) + 1
      BY <2>2 DEF CompleteSkill, Completable
    <3>2. ASSUME task.ordered
          PROVE  \E n \in Nat : completed' = 1 .. n
      <4>1. PICK n \in Nat : completed = 1 .. n
        BY <3>2 DEF PhaseInv
      <4>2. i \in 1 .. n \/ i = Cardinality(1 .. n) + 1
        BY <3>1, <3>2, <4>1
      <4>3. \E m \in Nat : (1 .. n) \cup {i} = 1 .. m
        BY <4>2, Growing
      <4> QED
        BY <3>1, <4>1, <4>3
    <3> QED
      BY <1>4, <3>1, <3>2 DEF PhaseInv
  <2>3. ASSUME NEW i \in Skills, RunFixedSkill(i)
        PROVE  PhaseInv'
    BY <1>4, <2>3 DEF RunFixedSkill, PhaseInv
  <2>4. ASSUME NEW ok \in BOOLEAN, FlowCommand(ok)
        PROVE  UNCHANGED <<task, loaded, completed, executed>>
    BY <2>4, Zenon DEF FlowCommand
  <2>5. ASSUME NEW D \in SUBSET Outputs, NEW S \in SUBSET D, NEW checks \in BOOLEAN,
               Verify(D, S, checks)
        PROVE  UNCHANGED <<task, loaded, completed, executed>>
    BY <2>5, Zenon DEF Verify
  <2>6. CASE FinishJudge
    <3>1. UNCHANGED <<task, loaded, executed>> /\ (completed' = completed \/ status' = "finished")
      BY <2>6, Zenon DEF FinishJudge, Accepted
    <3> QED
      BY <1>1, <1>4, <3>1
  <2>7. CASE AcceptDelivery
    <3>1. UNCHANGED <<task, loaded, executed>> /\ (completed' = completed \/ status' = "finished")
      BY <2>7, Zenon DEF AcceptDelivery, Accepted
    <3> QED
      BY <1>1, <1>4, <3>1
  <2> QED
    BY <1>1, <1>2, <1>4, <2>1, <2>2, <2>3, <2>4, <2>5, <2>6, <2>7
    DEF Next, UpdatePlan, ReadFile, WriteFile, Command, RecordValidation, StartFlow,
        CollectOnly, FinishCollect, CollectFails, BeginGroup, VerifyNothing,
        ReceiveGroup, CopyDelivery, Upgrade, Resume, BackgroundWrite, Abort
<1> QED
  BY <1>2, <1>3, <1>4, Finishing

\* For every number of Skills and every choice of fixed ones, whatever is resumed
\* under whatever policy: the order the user gave is the order they are loaded
\* and completed in, and a finished job has completed them all.
THEOREM PhasesKeepOrder == Spec => []PhasesInOrder
<1>1. Init => TypeInv /\ PhaseInv
  <2> SUFFICES ASSUME Init PROVE PhaseInv
    BY TypeInit
  <2>1. task.ordered => loaded = {}
    BY TaskFacts DEF Init
  <2>2. {} = 1 .. 0 /\ 0 \in Nat
    OBVIOUS
  <2> QED
    BY <2>1, <2>2 DEF Init, PhaseInv
<1>2. TypeInv /\ PhaseInv /\ [Next]_vars => (TypeInv /\ PhaseInv)'
  BY TypeNext, PhaseNext
<1>3. PhaseInv => PhasesInOrder
  <2>1. \A n \in Nat : Cardinality(1 .. n) = n
    <3> SUFFICES ASSUME NEW n \in Nat PROVE Cardinality(1 .. n) = n
      OBVIOUS
    <3>1. Cardinality(1 .. n) = IF 1 > n THEN 0 ELSE n - 1 + 1
      BY FS_Interval
    <3> QED
      BY <3>1
  <2> QED
    BY <2>1 DEF PhaseInv, PhasesInOrder
<1> QED
  BY <1>1, <1>2, <1>3, PTL DEF Spec

-----------------------------------------------------------------------------
(* Automatic delivery.                                                     *)

\* What waits to be delivered was made by the operations, and is delivered only
\* as they left it.
Made(d) == \A o \in d.paths : d.want[o] \notin {0, d.base[o]}

DeliveryInv ==
    /\ delivery.phase \in {"received", "copied", "done"} => Made(delivery)
    /\ delivery.phase = "done" => /\ status = "finished"
                                  /\ \A o \in delivery.paths : delivered[o] = delivery.want[o]

\* A new phase is all that changes of a delivery.
LEMMA PhaseFacts ==
    ASSUME NEW d \in Delivery, NEW phase \in {"ran", "copied", "received", "done"}
    PROVE  /\ [d EXCEPT !.phase = phase] \in Delivery
           /\ [d EXCEPT !.phase = phase].phase = phase
           /\ [d EXCEPT !.phase = phase].paths = d.paths
           /\ [d EXCEPT !.phase = phase].base = d.base
           /\ [d EXCEPT !.phase = phase].want = d.want
BY DEF Delivery

LEMMA DeliveryNext == TypeInv /\ DeliveryInv /\ [Next]_vars => DeliveryInv'
<1> SUFFICES ASSUME TypeInv, DeliveryInv, [Next]_vars
             PROVE  DeliveryInv'
  OBVIOUS
<1> USE DEF TypeInv, TypeOK, history, Free, Operating
<1>1. CASE UNCHANGED vars
  BY <1>1 DEF DeliveryInv, Made, vars
<1>2. ASSUME status = "running",
             delivery' = delivery \/ delivery'.phase \in {"none", "begun", "ran"}
      PROVE  DeliveryInv'
  BY <1>2 DEF DeliveryInv, Made
<1>3. ASSUME status = "running", NEW ok \in BOOLEAN, delivery' = GroupAfter(ok)
      PROVE  DeliveryInv'
  <2>1. NoDelivery.phase = "none"
    BY DEF NoDelivery
  <2>2. [delivery EXCEPT !.phase = "ran"].phase = "ran"
    BY PhaseFacts
  <2> QED
    BY <1>2, <1>3, <2>1, <2>2 DEF GroupAfter
<1>4. ASSUME NEW ok \in BOOLEAN, FlowCommand(ok)
      PROVE  DeliveryInv'
  <2> DEFINE i == flow.next + 1
             captured(fs) == ok /\ i = ExportStage /\ AutoExport /\ Exported(files, fs)
             signal(fs) == IF captured(fs) THEN fs[Source[ExportOutput]] ELSE flow.signal
             declared(fs) == [phase |-> "received", paths |-> {ExportOutput},
                              base |-> [o \in {ExportOutput} |-> 0],
                              want |-> [o \in {ExportOutput} |-> signal(fs)]]
  <2>1. status = "running"
    BY <1>4, Zenon DEF FlowCommand
  <2>2. PICK fs \in Touched(files) :
          delivery' = IF ok /\ i = FlowLength /\ delivery.phase = "none" /\ signal(fs) # 0
                      THEN declared(fs) ELSE GroupAfter(ok)
    BY <1>4, Zenon DEF FlowCommand
  <2> HIDE DEF i, captured, signal
  <2>3. CASE delivery' = GroupAfter(ok)
    BY <1>3, <2>1, <2>3
  <2>4. CASE signal(fs) # 0 /\ delivery' = declared(fs)
    <3>1. Made(declared(fs)) /\ declared(fs).phase = "received"
      BY <2>4 DEF Made
    <3> QED
      BY <2>4, <3>1 DEF DeliveryInv
  <2> QED
    BY <2>2, <2>3, <2>4
<1>5. CASE ReceiveGroup
  <2> DEFINE after == [o \in delivery.paths |-> files[Source[o]]]
  <2>1. /\ status = "running"
        /\ \/ delivery' = NoDelivery
           \/ /\ delivery' = [[delivery EXCEPT !.phase = "received"] EXCEPT !.want = after]
              /\ Fresh(after)
    BY <1>5, Zenon DEF ReceiveGroup
  <2>2. after \in Snapshot
    BY AgentAssumption DEF Snapshot, Delivery
  <2> HIDE DEF after
  <2>3. CASE delivery' = NoDelivery
    BY <1>2, <2>1, <2>3 DEF NoDelivery
  <2>4. CASE delivery' # NoDelivery
    <3> DEFINE d == [delivery EXCEPT !.phase = "received"]
    <3>1. /\ d \in Delivery /\ d.paths = delivery.paths /\ d.base = delivery.base
          /\ d.phase = "received"
      BY PhaseFacts
    <3>2. delivery' = [d EXCEPT !.want = after] /\ Fresh(after)
      BY <2>1, <2>4
    <3> HIDE DEF d
    <3>3. /\ delivery'.paths = d.paths /\ delivery'.base = d.base
          /\ delivery'.phase = "received" /\ delivery'.want = after
      BY <2>2, <3>1, <3>2 DEF Delivery
    <3> QED
      BY <3>1, <3>2, <3>3 DEF DeliveryInv, Made, Fresh
  <2> QED
    BY <2>3, <2>4
<1>6. CASE CopyDelivery
  <2>1. /\ status = "running" /\ delivery.phase = "received"
        /\ delivery' = [delivery EXCEPT !.phase = "copied"] \/ delivery' = NoDelivery
    BY <1>6 DEF CopyDelivery
  <2>2. CASE delivery' = NoDelivery
    BY <1>2, <2>1, <2>2 DEF NoDelivery
  <2>3. CASE delivery' = [delivery EXCEPT !.phase = "copied"]
    <3>1. /\ delivery'.phase = "copied" /\ delivery'.paths = delivery.paths
          /\ delivery'.base = delivery.base /\ delivery'.want = delivery.want
      BY <2>3, PhaseFacts
    <3> QED
      BY <2>1, <3>1 DEF DeliveryInv, Made
  <2> QED
    BY <2>1, <2>2, <2>3
<1>7. CASE AcceptDelivery
  <2> DEFINE snapshot == Bound(files, delivery.paths)
  <2>1. /\ status = "running" /\ delivery.phase = "copied"
        /\ \/ /\ delivery' = [delivery EXCEPT !.phase = "done"]
              /\ Unchanged(snapshot) /\ status' = "finished" /\ delivered' = snapshot
           \/ delivery' = NoDelivery
    BY <1>7, Zenon DEF AcceptDelivery, Accepted
  <2>2. CASE delivery' = NoDelivery
    BY <1>2, <2>1, <2>2 DEF NoDelivery
  <2>3. CASE delivery' # NoDelivery
    <3>0. delivery' = [delivery EXCEPT !.phase = "done"]
      BY <2>1, <2>3, Zenon
    <3>1. /\ delivery'.phase = "done" /\ delivery'.paths = delivery.paths
          /\ delivery'.base = delivery.base /\ delivery'.want = delivery.want
      BY <3>0, PhaseFacts
    <3>2. status' = "finished" /\ delivered' = delivery.want
      BY <2>1, <2>3 DEF Unchanged
    <3>3. Made(delivery)
      BY <2>1 DEF DeliveryInv
    <3> QED
      BY <3>1, <3>2, <3>3 DEF DeliveryInv, Made
  <2> QED
    BY <2>2, <2>3
<1>8. ASSUME NEW f \in Files, NEW b \in Bytes \ {0}, NEW ok \in BOOLEAN, WriteFile(f, b, ok)
      PROVE  DeliveryInv'
  BY <1>3, <1>8 DEF WriteFile
<1>9. ASSUME NEW ok \in BOOLEAN, Command(ok)
      PROVE  DeliveryInv'
  BY <1>3, <1>9 DEF Command
<1>10. ASSUME NEW S \in SUBSET Outputs, BeginGroup(S)
       PROVE  DeliveryInv'
  BY <1>2, <1>10 DEF BeginGroup
<1>11. CASE status = "running" /\ delivery' = delivery
  BY <1>2, <1>11
<1>12. ASSUME NEW D \in SUBSET Outputs, NEW S \in SUBSET D, NEW checks \in BOOLEAN,
              Verify(D, S, checks)
       PROVE  status = "running" /\ delivery' = delivery
  BY <1>12, Zenon DEF Verify
<1> QED
  BY <1>1, <1>4, <1>5, <1>6, <1>7, <1>8, <1>9, <1>10, <1>11, <1>12
  DEF Next, ReadSkill, CompleteSkill, RunFixedSkill, UpdatePlan, ReadFile,
      RecordValidation, StartFlow, CollectOnly, FinishCollect, CollectFails,
      VerifyNothing, FinishJudge, Upgrade, Resume, BackgroundWrite, Abort

\* Whatever a group of final operations or a workflow does, and whatever a process
\* writes in between: what is delivered without a call of finish was made by them
\* and is what they left.
THEOREM DeliveryIsFresh == Spec => []FreshDelivery
<1>1. Init => TypeInv /\ DeliveryInv
  BY TypeInit DEF Init, DeliveryInv, NoDelivery
<1>2. TypeInv /\ DeliveryInv /\ [Next]_vars => (TypeInv /\ DeliveryInv)'
  BY TypeNext, DeliveryNext
<1>3. DeliveryInv => FreshDelivery
  BY DEF DeliveryInv, Made, FreshDelivery
<1> QED
  BY <1>1, <1>2, <1>3, PTL DEF Spec

-----------------------------------------------------------------------------
(* Readings.                                                               *)

\* Registering what is already known of does not count as a change.
LEMMA EpochKept ==
    ASSUME NEW e \in Evidence, NEW snapshot \in Snapshot, ~Differs(e, snapshot)
    PROVE  Registered(e, snapshot).epoch = e.epoch
<1> DEFINE m == [e EXCEPT !.managed = Merged(@, snapshot)]
<1>1. Registered(e, snapshot) = m
  BY DEF Registered
<1>2. m.epoch = e.epoch
  BY DEF Evidence
<1> QED
  BY <1>1, <1>2

ReadAgain ==
    evidence'.epoch # evidence.epoch =>
        \A f \in Files : files'[f] # files[f] => cache'[f] \in {0, files'[f]}

LEMMA ReadAgainNext == TypeInv /\ Next => ReadAgain
<1> SUFFICES ASSUME TypeInv, Next
             PROVE  ReadAgain
  OBVIOUS
<1> USE DEF TypeInv, TypeOK, history
<1>1. CASE cache' = NoCache
  BY <1>1 DEF ReadAgain, NoCache
<1>2. CASE evidence' = evidence \/ files' = files
  BY <1>2 DEF ReadAgain
<1>3. ASSUME NEW p \in Bytes, NEW c \in Criteria, UpdatePlan(p, c)
      PROVE  ReadAgain
  <2>1. evidence' = evidence \/ evidence' = Reports(evidence, NoReport, NoReport)
    BY <1>3, Zenon DEF UpdatePlan, Replanned, Reports
  <2>2. evidence'.epoch = evidence.epoch
    BY <2>1, NothingIsSnapshot, ReportedFacts
  <2> QED
    BY <2>2 DEF ReadAgain
<1>4. ASSUME NEW f \in Files, NEW b \in Bytes \ {0}, NEW ok \in BOOLEAN, WriteFile(f, b, ok)
      PROVE  ReadAgain
  <2>1. /\ cache' = [cache EXCEPT ![f] = 0]
        /\ files' = files \/ files' = [files EXCEPT ![f] = b]
    BY <1>4 DEF WriteFile, Invalidated
  <2> QED
    BY <2>1 DEF ReadAgain
<1>5. ASSUME NEW D \in SUBSET Outputs, NEW S \in SUBSET D, CollectOnly(D, S)
      PROVE  ReadAgain
  <2> DEFINE snapshot == Bound(Collected(files, S), D)
  <2>1. snapshot \in Snapshot
    BY CollectedIsWorkspace, BoundIsSnapshot
  <2>2. evidence' = Registered(evidence, snapshot) /\ cache' = CacheAfter(evidence, snapshot)
    BY <1>5 DEF CollectOnly
  <2> HIDE DEF snapshot
  <2>3. CASE Differs(evidence, snapshot)
    BY <1>1, <2>2, <2>3 DEF CacheAfter
  <2>4. CASE ~Differs(evidence, snapshot)
    BY <2>1, <2>2, <2>4, EpochKept DEF ReadAgain
  <2> QED
    BY <2>3, <2>4
<1>6. ASSUME NEW D \in SUBSET Outputs, NEW S \in SUBSET D, NEW checks \in BOOLEAN,
             Verify(D, S, checks)
      PROVE  ReadAgain
  <2> DEFINE first == Collected(files, S)
             before == Read(first, D)
             e1 == IF D = {} THEN evidence ELSE Registered(evidence, before)
             after(fs) == Read(Collected(fs, S), D)
             e2(fs) == IF D = {} THEN e1 ELSE Registered(e1, after(fs))
             ok(fs) == Passed(before, Read(fs, D), after(fs), checks /\ Sources(fs, S) = S)
             report(fs) == [known |-> TRUE, ok |-> ok(fs), artifacts |-> after(fs),
                            epoch |-> e2(fs).epoch]
             w(fs) == IF ok(fs) THEN report(fs) ELSE NoReport
             b(fs) == IF ok(fs) THEN 0 ELSE e2(fs).epoch
  <2>1. PICK fs \in Touched(first) :
          /\ evidence' = Judged(e2(fs), report(fs), w(fs), b(fs))
          /\ cache' = IF D = {} THEN cache
                      ELSE IF Differs(e1, after(fs)) THEN NoCache
                      ELSE CacheAfter(evidence, before)
    BY <1>6, Zenon DEF Verify, Judged
  <2>2. first \in [Files -> Bytes] /\ fs \in [Files -> Bytes]
    BY <2>1, CollectedIsWorkspace, Workspaces
  <2>3. before \in Snapshot /\ after(fs) \in Snapshot
    BY <2>2, CollectedIsWorkspace, ReadIsSnapshot
  <2>4. e1 \in Evidence /\ e2(fs) \in Evidence
    BY <2>3, RegisteredFacts
  <2>5. report(fs) \in Report /\ w(fs) \in Report /\ b(fs) \in Nat
    <3>1. ok(fs) \in BOOLEAN
      BY DEF Passed
    <3>2. e2(fs).epoch \in Nat
      BY <2>4 DEF Evidence
    <3> HIDE DEF ok, after, e2
    <3>3. report(fs) \in Report
      BY <3>1, <3>2, <2>3 DEF Report
    <3> HIDE DEF report
    <3> QED
      BY <3>2, <3>3, NothingIsSnapshot
  <2> HIDE DEF first, before, after, ok, report, w, b
  <2>6. evidence'.epoch = e2(fs).epoch
    <3>1. evidence' = Judged(e2(fs), report(fs), w(fs), b(fs))
      BY <2>1
    <3> HIDE DEF e1, e2, TypeInv, TypeOK
    <3> QED
      BY <2>4, <2>5, <3>1, ReportedFacts, SMTT(30)
  <2>7. CASE D = {}
    BY <2>6, <2>7 DEF ReadAgain
  <2>8. CASE D # {} /\ (Differs(e1, after(fs)) \/ Differs(evidence, before))
    BY <1>1, <2>1, <2>8 DEF CacheAfter
  <2>9. CASE D # {} /\ ~Differs(e1, after(fs)) /\ ~Differs(evidence, before)
    <3>1. e1.epoch = evidence.epoch
      BY <2>3, <2>9, EpochKept
    <3> HIDE DEF e1
    <3>2. e2(fs).epoch = e1.epoch
      BY <2>3, <2>4, <2>9, EpochKept
    <3> QED
      BY <2>6, <3>1, <3>2 DEF ReadAgain
  <2> QED
    BY <2>7, <2>8, <2>9
<1>7. ASSUME NEW ok \in BOOLEAN, FlowCommand(ok)
      PROVE  cache' = NoCache
  BY <1>7, Zenon DEF FlowCommand
<1>8. ASSUME NEW ok \in BOOLEAN, RecordValidation(ok)
      PROVE  files' = files
  BY <1>8, Zenon DEF RecordValidation
<1> QED
  BY <1>1, <1>2, <1>3, <1>4, <1>5, <1>6, <1>7, <1>8
  DEF Next, ReadSkill, CompleteSkill, RunFixedSkill, ReadFile, Command, StartFlow,
      FinishCollect, CollectFails, BeginGroup, VerifyNothing, FinishJudge, ReceiveGroup,
      CopyDelivery, AcceptDelivery, Upgrade, Resume, BackgroundWrite, Abort

\* In every workspace a step that counts as a change leaves no earlier reading of
\* a file it has changed.
THEOREM ReadingsGoOutOfUse == Spec => ChangesAreReadAgain
<1>1. TypeInv /\ [Next]_vars => [ReadAgain]_vars
  BY ReadAgainNext
<1> QED
  BY <1>1, TypeInit, TypeNext, PTL DEF Spec, ChangesAreReadAgain, ReadAgain

-----------------------------------------------------------------------------
(* ModelCalls: rows.                                                       *)

Post == [at : {"none", "sending", "streaming", "reading", "pausing"},
         attempt : 0..MaxAttempts - 1, reply : {"answer", "unsupported", "refused"},
         answer : Said, received : Seq(Pieces), heard : BOOLEAN,
         complete : BOOLEAN, elapsed : Nat, silent : Nat, pause : Nat]
Turn == [mode : {"idle", "native", "text", "answered", "raised", "over"},
         repeated : BOOLEAN, said : Said, taken : Takings, way : {"none", "native", "text"}]

LEMMA CallsTypes ==
    CallsTypeOK <=>
        /\ connection \in Connections
        /\ native \in BOOLEAN /\ cancelled \in BOOLEAN /\ spent \in BOOLEAN
        /\ sent \in Nat /\ refusals \in Nat
        /\ turn \in Turn /\ post \in Post
BY DEF CallsTypeOK, Turn, Post

LEMMA ConnectionBudgets ==
    ASSUME CallsTypeOK
    PROVE  /\ connection.timeout \in Nat /\ connection.first \in Nat /\ connection.stall \in Nat
           /\ connection.native \in BOOLEAN
BY ConnectionAssumption DEF CallsTypeOK, Connection

LEMMA SaidIsSequence == Said \subseteq Seq(Pieces) /\ <<>> \in Said /\ <<>> \in Takings
<1>1. <<>> \in Seq(Pieces)
  OBVIOUS
<1>2. Answers \subseteq Seq(Pieces)
  BY AnswerAssumption
<1> QED
  BY <1>1, <1>2 DEF Said, Takings

\* No request, the first or a later attempt, and the pause before it.
LEMMA FreshPosts ==
    /\ NoPost \in Post /\ NoPost.at = "none" /\ NoPost.received = <<>> /\ NoPost.complete = FALSE
    /\ NoPost.reply = "answer" /\ NoPost.elapsed = 0 /\ NoPost.silent = 0 /\ NoPost.pause = 0
BY SaidIsSequence DEF NoPost, Post, MaxAttempts

LEMMA Attempts ==
    ASSUME NEW n \in 0 .. MaxAttempts - 1, NEW elapsed \in Nat, post' = Attempt(n, elapsed)
    PROVE  /\ post' \in Post /\ post'.at = "sending" /\ post'.attempt = n
           /\ post'.received = <<>> /\ post'.complete = FALSE /\ post'.reply = "answer"
           /\ post'.elapsed = elapsed /\ post'.silent = 0 /\ post'.pause = 0
BY SaidIsSequence DEF Attempt, NoPost, Post, MaxAttempts

\* The pause ends before the deadline does.
LEMMA PauseFits ==
    ASSUME CallsTypeOK, BudgetsHold
    PROVE  /\ Pause(post.attempt) \in Nat
           /\ connection.timeout > 0 => post.elapsed + Pause(post.attempt) <= connection.timeout
<1>1. /\ post.elapsed \in Nat /\ post.pause \in Nat /\ connection.timeout \in Nat
      /\ post.attempt \in {0, 1, 2}
  BY CallsTypes, ConnectionBudgets DEF Post, MaxAttempts
<1> DEFINE backoff == <<1, 2, 4>>[post.attempt + 1]
<1>2. backoff \in Nat
  BY <1>1
<1> HIDE DEF backoff
<1> QED
  BY <1>1, <1>2 DEF Pause, Remaining, BudgetsHold, backoff

LEMMA PausedPost ==
    ASSUME CallsTypeOK, BudgetsHold
    PROVE  /\ Paused \in Post
           /\ Paused.at = "pausing" /\ Paused.received = <<>> /\ Paused.complete = FALSE
           /\ Paused.reply = "answer" /\ Paused.elapsed = post.elapsed /\ Paused.silent = 0
           /\ Paused.pause = Pause(post.attempt) /\ Paused.attempt = post.attempt
<1>1. Pause(post.attempt) \in Nat /\ post.elapsed \in Nat /\ post.attempt \in 0 .. MaxAttempts - 1
  BY PauseFits, CallsTypes DEF Post
<1> DEFINE pause == Pause(post.attempt)
<1> HIDE DEF pause
<1>2. /\ [NoPost EXCEPT !.at = "pausing", !.attempt = post.attempt,
                        !.elapsed = post.elapsed, !.pause = pause] \in Post
  BY <1>1, SaidIsSequence DEF NoPost, Post, pause
<1> QED
  BY <1>2 DEF Paused, pause, NoPost

LEMMA AskingTurn ==
    ASSUME NEW mode \in {"idle", "native", "text", "over"}, NEW repeated \in BOOLEAN,
           NEW row, row = [Idle EXCEPT !.mode = mode, !.repeated = repeated]
    PROVE  row \in Turn /\ row.mode = mode /\ row.repeated = repeated
BY SaidIsSequence DEF Idle, Turn

LEMMA DoneTurn ==
    ASSUME NEW mode \in {"answered", "raised", "over"}, NEW way \in {"none", "native", "text"},
           NEW said \in Said, NEW taken \in Takings, Done(mode, way, said, taken)
    PROVE  /\ turn' \in Turn /\ turn'.mode = mode
           /\ turn'.way = way /\ turn'.said = said /\ turn'.taken = taken
BY DEF Idle, Turn, Done

LEMMA CallsTypesNext ==
    CallsTypeOK' <=>
        /\ connection' \in Connections
        /\ native' \in BOOLEAN /\ cancelled' \in BOOLEAN /\ spent' \in BOOLEAN
        /\ sent' \in Nat /\ refusals' \in Nat
        /\ turn' \in Turn /\ post' \in Post
BY DEF CallsTypeOK, Turn, Post

-----------------------------------------------------------------------------
(* ModelCalls: answers.                                                    *)

\* The calls of an answer are its pieces that are calls.
LEMMA CallsOfAnswer ==
    ASSUME NEW pieces \in Said
    PROVE  /\ Calls(pieces) \in Takings /\ Objects(pieces) \in Takings
           /\ Unusable \in Range(pieces) => Unusable \in Range(Calls(pieces))
           /\ Alone \in Range(pieces) => Alone \in Range(Calls(pieces))
           /\ Object \in Range(pieces) => DOMAIN Objects(pieces) # {}
<1>1. Calls(pieces) \in Takings /\ Objects(pieces) \in Takings
  BY DEF Takings
<1>2. ASSUME NEW p \in CallPieces, p \in Range(pieces) PROVE p \in Range(Calls(pieces))
  BY <1>2 DEF Calls, Restrict, Range
<1>3. Object \in Range(pieces) => DOMAIN Objects(pieces) # {}
  BY DEF Objects, Restrict, Range
<1> QED
  BY <1>1, <1>2, <1>3 DEF CallPieces

\* A batch that may be acted on has a call, none of them unusable, and finish or
\* block alone.
LEMMA UsableBatch ==
    ASSUME NEW pieces \in Said, UsableCalls(pieces)
    PROVE  /\ DOMAIN Calls(pieces) # {} /\ Unusable \notin Range(pieces)
           /\ Alone \in Range(pieces) => Cardinality(DOMAIN Calls(pieces)) = 1
<1>1. Cardinality(DOMAIN Calls(pieces)) # 0
  BY DEF UsableCalls, MaxCalls
<1>2. DOMAIN Calls(pieces) # {}
  BY <1>1, FS_EmptySet
<1> QED
  BY <1>2, CallsOfAnswer DEF UsableCalls

-----------------------------------------------------------------------------
(* ModelCalls: what a step does to the turn and the request.               *)

\* The state of the connection is such that the turn may be in this mode.
ToolsKnown(mode) ==
    /\ native' \in BOOLEAN /\ refusals' \in 0 .. 1 /\ cancelled' \in BOOLEAN
    /\ refusals' = 1 => ~native'
    /\ mode = "native" => native'

LEMMA RequestKeeps ==
    ASSUME CallsInv, NEW mode \in {"native", "text"}, NEW repeated \in BOOLEAN,
           Request(mode, repeated), UNCHANGED connection, ToolsKnown(mode),
           sent <= MaxAttempts * Behind(mode, repeated)
    PROVE  CallsInv'
<1>1. CallsTypeOK
  BY DEF CallsInv
<1>2. turn' \in Turn /\ turn'.mode = mode /\ turn'.repeated = repeated
  BY AskingTurn DEF Request
<1>3. /\ post' \in Post /\ post'.at = "sending" /\ post'.received = <<>> /\ post'.complete = FALSE
      /\ post'.reply = "answer" /\ post'.elapsed = 0 /\ post'.silent = 0 /\ post'.pause = 0
      /\ post'.attempt = 0
  <2>1. 0 \in 0 .. MaxAttempts - 1 /\ 0 \in Nat /\ post' = Attempt(0, 0)
    BY DEF Request, MaxAttempts
  <2> QED
    BY <2>1, Attempts
<1>4. connection' = connection /\ spent' = FALSE
  BY DEF Request
<1>0. /\ sent' \in Nat /\ sent' = sent + 1
  BY <1>1, CallsTypes DEF Request
<1>5. CallsTypeOK'
  <2>1. refusals' \in Nat /\ native' \in BOOLEAN /\ cancelled' \in BOOLEAN
    BY DEF ToolsKnown
  <2>2. connection' \in Connections
    BY <1>1, <1>4, CallsTypes
  <2> QED
    BY <1>2, <1>3, <1>4, <1>0, <2>1, <2>2, CallsTypesNext
<1>6. NoReplay' /\ AnswersAreWhole' /\ ToolsRefusedAtMostOnce'
  BY <1>2, <1>3, <1>4 DEF NoReplay, AnswersAreWhole, ToolsRefusedAtMostOnce, ToolsKnown
<1>7. BudgetsHold'
  BY <1>1, <1>3, <1>4, ConnectionBudgets DEF BudgetsHold
<1>8. PostsMatchTurns'
  BY <1>2, <1>3, <1>4 DEF PostsMatchTurns, Asking, Progress, ToolsKnown
<1>9. TurnIsBounded'
  <2>1. Behind(mode, repeated) \in 0 .. 3
    BY DEF Behind
  <2>2. sent \in Nat /\ sent' <= MaxAttempts * Behind(mode, repeated) + 1
    BY <1>1, <1>0, <2>1, CallsTypes DEF MaxAttempts
  <2>3. Behind(turn'.mode, turn'.repeated) = Behind(mode, repeated)
    BY <1>2
  <2> QED
    BY <1>2, <1>3, <1>0, <2>1, <2>2, <2>3 DEF TurnIsBounded, MaxAttempts
<1> QED
  BY <1>5, <1>6, <1>7, <1>8, <1>9 DEF CallsInv

LEMMA DoneKeeps ==
    ASSUME CallsInv, NEW mode \in {"answered", "raised", "over"}, NEW way \in {"none", "native", "text"},
           NEW said \in Said, NEW taken \in Takings,
           Done(mode, way, said, taken), UNCHANGED connection, ToolsKnown(mode),
           mode = "answered" =>
               \/ /\ way = "native"
                  /\ taken = Calls(said) /\ DOMAIN taken # {}
                  /\ Unusable \notin Range(said)
                  /\ Alone \in Range(said) => Cardinality(DOMAIN taken) = 1
               \/ /\ way = "text"
                  /\ taken = Objects(said) /\ DOMAIN taken # {}
    PROVE  CallsInv'
<1>1. CallsTypeOK
  BY DEF CallsInv
<1>2. /\ turn' \in Turn /\ turn'.mode = mode
      /\ turn'.way = way /\ turn'.said = said /\ turn'.taken = taken
  BY DoneTurn
<1>3. post' = NoPost /\ spent' = FALSE /\ connection' = connection /\ sent' = sent
  BY DEF Done
<1>4. CallsTypeOK'
  <2>1. refusals' \in Nat /\ native' \in BOOLEAN /\ cancelled' \in BOOLEAN
    BY DEF ToolsKnown
  <2>2. connection' \in Connections
    BY <1>1, <1>3, CallsTypes
  <2>3. sent' \in Nat
    BY <1>1, <1>3, CallsTypes
  <2> QED
    BY <1>2, <1>3, <2>1, <2>2, <2>3, FreshPosts, CallsTypesNext
<1>5. NoReplay' /\ ToolsRefusedAtMostOnce'
  BY <1>2, <1>3 DEF NoReplay, ToolsRefusedAtMostOnce, ToolsKnown
<1>6. AnswersAreWhole'
  BY <1>2 DEF AnswersAreWhole
<1>7. BudgetsHold'
  BY <1>1, <1>3, FreshPosts, ConnectionBudgets DEF BudgetsHold, Working
<1>8. PostsMatchTurns'
  BY <1>2, <1>3, FreshPosts DEF PostsMatchTurns, Asking, Progress, ToolsKnown
<1>9. TurnIsBounded'
  BY <1>2, <1>3 DEF CallsInv, TurnIsBounded, Asking
<1> QED
  BY <1>4, <1>5, <1>6, <1>7, <1>8, <1>9 DEF CallsInv

\* A step of the request under way.
LEMMA PostKeeps ==
    ASSUME CallsInv, UNCHANGED <<connection, native, turn, cancelled, refusals>>,
           post' \in Post, post'.at # "none", post.at # "none", spent' \in BOOLEAN,
           sent' \in Nat, sent' + post.attempt <= sent + post'.attempt,
           post'.reply = "unsupported" => turn.mode = "native",
           post'.at # "pausing" => post'.pause = 0,
           post'.received # <<>> \/ post'.complete => post'.at = "streaming",
           spent' => post'.received # <<>>,
           post'.complete => post'.received = post'.answer,
           connection.timeout > 0 => post'.elapsed + post'.pause <= connection.timeout,
           post'.received = <<>> /\ post'.at # "pausing" /\ connection.first > 0
               => post'.silent <= connection.first,
           post'.received # <<>> /\ connection.stall > 0 => post'.silent <= connection.stall
    PROVE  CallsInv'
<1>1. CallsTypeOK'
  BY CallsTypes, CallsTypesNext DEF CallsInv
<1>2. NoReplay' /\ AnswersAreWhole' /\ ToolsRefusedAtMostOnce'
  BY DEF CallsInv, NoReplay, AnswersAreWhole, ToolsRefusedAtMostOnce
<1>3. BudgetsHold'
  BY DEF BudgetsHold, Progress, Working
<1>4. PostsMatchTurns'
  BY DEF CallsInv, PostsMatchTurns, Asking, Progress
<1>5. TurnIsBounded'
  <2>1. /\ sent \in Nat /\ sent' \in Nat /\ turn \in Turn
        /\ post.attempt \in 0 .. 2 /\ post'.attempt \in 0 .. 2
    BY CallsTypes DEF CallsInv, Post, MaxAttempts
  <2>2. Asking /\ turn.mode # "idle" /\ turn' = turn
    BY DEF CallsInv, PostsMatchTurns, Asking
  <2>3. sent <= MaxAttempts * Behind(turn.mode, turn.repeated) + post.attempt + 1
    BY <2>2 DEF CallsInv, TurnIsBounded
  <2>4. Behind(turn.mode, turn.repeated) \in 0 .. 3
    BY DEF Behind
  <2>5. sent' <= MaxAttempts * Behind(turn.mode, turn.repeated) + post'.attempt + 1
    <3> DEFINE most == MaxAttempts * Behind(turn.mode, turn.repeated)
    <3>1. most \in Nat
      BY <2>4 DEF MaxAttempts
    <3>2. sent <= most + post.attempt + 1
      BY <2>3
    <3> HIDE DEF most
    <3>3. sent' <= most + post'.attempt + 1
      BY <2>1, <3>1, <3>2
    <3> QED
      BY <3>3 DEF most
  <2> QED
    BY <2>1, <2>2, <2>4, <2>5 DEF TurnIsBounded, MaxAttempts
<1> QED
  BY <1>1, <1>2, <1>3, <1>4, <1>5 DEF CallsInv

LEMMA RaisedKeeps ==
    ASSUME CallsInv, Raised, UNCHANGED <<connection, native, cancelled, refusals>>
    PROVE  CallsInv'
<1>1. ToolsKnown("raised")
  BY DEF CallsInv, CallsTypeOK, ToolsKnown, ToolsRefusedAtMostOnce
<1>2. Done("raised", "none", <<>>, <<>>)
  BY DEF Raised
<1> QED
  BY <1>1, <1>2, DoneKeeps, SaidIsSequence

LEMMA PausedKeeps ==
    ASSUME CallsInv, post.at # "none", post.received = <<>>,
           post' = Paused, UNCHANGED <<connection, native, turn, cancelled, refusals, spent, sent>>
    PROVE  CallsInv'
<1>1. CallsTypeOK /\ BudgetsHold /\ spent = FALSE /\ sent \in Nat
  BY DEF CallsInv, CallsTypeOK, PostsMatchTurns, Progress
<1>2. /\ post' \in Post
      /\ post'.at = "pausing" /\ post'.received = <<>> /\ post'.complete = FALSE
      /\ post'.reply = "answer" /\ post'.elapsed = post.elapsed /\ post'.silent = 0
      /\ post'.pause = Pause(post.attempt) /\ post'.attempt = post.attempt
  BY <1>1, PausedPost
<1>5. post.attempt \in Nat
  BY <1>1, CallsTypes DEF Post
<1>3. connection.timeout > 0 => post'.elapsed + post'.pause <= connection.timeout
  BY <1>1, <1>2, PauseFits
<1>4. sent' \in Nat /\ sent' + post.attempt <= sent + post'.attempt
  BY <1>1, <1>2, <1>5
<1> QED
  BY <1>1, <1>2, <1>3, <1>4, PostKeeps

LEMMA BrokenKeeps ==
    ASSUME CallsInv, Broken, post.at # "none", UNCHANGED <<connection, native, cancelled, refusals>>
    PROVE  CallsInv'
BY RaisedKeeps, PausedKeeps DEF Broken, MayTryAgain, Progress

\* A response that has come whole is acted on, asked for anew, or raised.
LEMMA AnsweredKeeps ==
    ASSUME CallsInv, Asking, Answered(post.answer), UNCHANGED <<connection, native, cancelled, refusals>>
    PROVE  CallsInv'
<1> DEFINE pieces == post.answer
<1>1. pieces \in Said
  BY CallsTypes DEF CallsInv, Post
<1>2. ASSUME NEW mode \in {"native", "text", "answered", "raised"}, mode = "native" => turn.mode = "native"
      PROVE  ToolsKnown(mode)
  BY <1>2 DEF CallsInv, CallsTypeOK, ToolsKnown, ToolsRefusedAtMostOnce, PostsMatchTurns
<1>0. /\ turn.mode \in {"native", "text"} /\ turn.repeated \in BOOLEAN /\ sent \in Nat
      /\ post.attempt \in 0 .. 2
      /\ sent <= MaxAttempts * Behind(turn.mode, turn.repeated) + post.attempt + 1
  BY CallsTypes DEF CallsInv, TurnIsBounded, Asking, Turn, Post, MaxAttempts
<1>3. CASE turn.mode = "native"
  <2>1. CASE UsableCalls(pieces)
    <3>1. Done("answered", "native", pieces, Calls(pieces))
      BY <1>3, <2>1 DEF Answered, NativeAnswer
    <3>2. Calls(pieces) \in Takings
      BY <1>1, CallsOfAnswer
    <3> QED
      BY <1>1, <1>2, <2>1, <3>1, <3>2, DoneKeeps, UsableBatch
  <2>2. CASE ~UsableCalls(pieces)
    <3>1. (Request("native", TRUE) /\ ~turn.repeated) \/ Request("text", FALSE)
      BY <1>3, <2>2 DEF Answered, NativeAnswer
    <3>2. /\ ~turn.repeated => sent <= MaxAttempts * Behind("native", TRUE)
          /\ sent <= MaxAttempts * Behind("text", FALSE)
      BY <1>3, <1>0 DEF Behind, MaxAttempts
    <3> QED
      BY <1>2, <1>3, <3>1, <3>2, RequestKeeps
  <2> QED
    BY <2>1, <2>2
<1>4. CASE turn.mode # "native"
  <2>1. CASE HasObject(pieces)
    <3>1. Done("answered", "text", pieces, Objects(pieces))
      BY <1>4, <2>1 DEF Answered, TextAnswer
    <3>2. Objects(pieces) \in Takings /\ DOMAIN Objects(pieces) # {}
      BY <1>1, <2>1, CallsOfAnswer DEF HasObject, Texts
    <3> QED
      BY <1>1, <1>2, <3>1, <3>2, DoneKeeps
  <2>2. CASE ~HasObject(pieces)
    <3>1. (Request("text", TRUE) /\ ~turn.repeated) \/ Raised
      BY <1>4, <2>2 DEF Answered, TextAnswer
    <3>2. ~turn.repeated => sent <= MaxAttempts * Behind("text", TRUE)
      BY <1>4, <1>0 DEF Behind, MaxAttempts
    <3> QED
      BY <1>2, <3>1, <3>2, RequestKeeps, RaisedKeeps
  <2> QED
    BY <2>1, <2>2
<1> QED
  BY <1>3, <1>4

-----------------------------------------------------------------------------
(* ModelCalls: every step.                                                 *)

LEMMA CallsInitHolds == CallsInit => CallsInv
<1> SUFFICES ASSUME CallsInit PROVE CallsInv
  OBVIOUS
<1>1. connection \in Connection
  BY ConnectionAssumption DEF CallsInit
<1>2. turn \in Turn /\ turn.mode = "idle"
  BY SaidIsSequence DEF CallsInit, Idle, Turn
<1>3. CallsTypeOK
  BY <1>1, <1>2, FreshPosts, CallsTypes DEF CallsInit, Connection
<1>4. /\ NoReplay /\ AnswersAreWhole /\ ToolsRefusedAtMostOnce
      /\ TurnIsBounded /\ PostsMatchTurns
  BY <1>2, FreshPosts DEF CallsInit, NoReplay, AnswersAreWhole, ToolsRefusedAtMostOnce,
     TurnIsBounded, PostsMatchTurns, Asking, Progress, MaxAttempts
<1>5. BudgetsHold
  BY <1>1, FreshPosts DEF CallsInit, BudgetsHold, Working, Connection
<1> QED
  BY <1>3, <1>4, <1>5 DEF CallsInv

\* The fields of the request under way.
LEMMA PostFields ==
    ASSUME CallsInv
    PROVE  /\ post \in Post /\ post.elapsed \in Nat /\ post.silent \in Nat /\ post.pause \in Nat
           /\ post.received \in Seq(Pieces) /\ post.answer \in Said
           /\ connection.timeout \in Nat /\ connection.first \in Nat /\ connection.stall \in Nat
           /\ post.attempt \in 0 .. MaxAttempts - 1 /\ post.attempt \in Nat
           /\ spent \in BOOLEAN /\ sent \in Nat /\ turn \in Turn
<1>1. post \in Post /\ spent \in BOOLEAN /\ sent \in Nat /\ turn \in Turn /\ CallsTypeOK
  BY CallsTypes DEF CallsInv
<1>2. post.attempt \in 0 .. MaxAttempts - 1 /\ post.attempt \in Nat
  BY <1>1 DEF Post
<1> QED
  BY <1>1, <1>2, ConnectionBudgets DEF Post

\* A tick cannot pass a timer that is due.
LEMMA TickKeeps == ASSUME CallsInv, Tick PROVE CallsInv'
<1> DEFINE elapsed == IF connection.timeout > 0 THEN post.elapsed + 1 ELSE post.elapsed
           silent == IF Working /\ Budget > 0 THEN post.silent + 1 ELSE post.silent
           pause == IF post.at = "pausing" THEN post.pause - 1 ELSE post.pause
<1>1. post' = [post EXCEPT !.elapsed = elapsed, !.silent = silent, !.pause = pause]
  BY DEF Tick
<1>2. post.at # "none"
  BY DEF Tick, CallsInv, PostsMatchTurns
<1>3. elapsed \in Nat /\ silent \in Nat /\ pause \in Nat
  BY PostFields DEF Tick
<1>4. connection.timeout > 0 => elapsed + pause <= connection.timeout
  <2>1. connection.timeout > 0 => post.elapsed + post.pause <= connection.timeout
    BY DEF CallsInv, BudgetsHold
  <2>2. CASE post.at = "pausing"
    BY <2>1, <2>2, PostFields
  <2>3. CASE post.at # "pausing"
    <3>1. post.pause = 0 /\ Working
      BY <1>2, <2>3, PostFields DEF CallsInv, PostsMatchTurns, Working, Post
    <3>2. connection.timeout > 0 => post.elapsed < connection.timeout
      BY <3>1, PostFields DEF Tick, DeadlineDue, Remaining
    <3> QED
      BY <2>3, <3>1, <3>2, PostFields
  <2> QED
    BY <2>2, <2>3
<1>5. /\ post.received = <<>> /\ post.at # "pausing" /\ connection.first > 0
          => silent <= connection.first
      /\ post.received # <<>> /\ connection.stall > 0 => silent <= connection.stall
  <2>1. CASE post.at = "pausing"
    BY <2>1 DEF CallsInv, PostsMatchTurns, Progress
  <2>2. CASE post.at # "pausing"
    <3>1. Working
      BY <1>2, <2>2, PostFields DEF Working, Post
    <3>2. Budget > 0 => post.silent < Budget
      BY <3>1, PostFields DEF Tick, BudgetDue, Budget
    <3> QED
      BY <3>1, <3>2, PostFields DEF Budget, Progress
  <2> QED
    BY <2>1, <2>2
<1>6. pause = 0 \/ post.at = "pausing"
  BY DEF CallsInv, PostsMatchTurns
<1> HIDE DEF elapsed, silent, pause
<1>7. /\ post' \in Post /\ post'.at = post.at /\ post'.reply = post.reply
      /\ post'.received = post.received /\ post'.answer = post.answer
      /\ post'.complete = post.complete /\ post'.attempt = post.attempt
      /\ post'.elapsed = elapsed /\ post'.silent = silent /\ post'.pause = pause
  BY <1>1, <1>3, PostFields DEF Post
<1>8. UNCHANGED <<connection, native, turn, cancelled, spent, sent, refusals>>
  BY DEF Tick
<1>9. /\ spent => post.received # <<>>
      /\ post.received # <<>> \/ post.complete => post.at = "streaming"
      /\ post.complete => post.received = post.answer
      /\ post.reply = "unsupported" => turn.mode = "native"
  BY DEF CallsInv, PostsMatchTurns, Progress
<1> QED
  BY <1>2, <1>4, <1>5, <1>6, <1>7, <1>8, <1>9, PostFields, PostKeeps

LEMMA TryNextKeeps == ASSUME CallsInv, TryNext PROVE CallsInv'
<1>1. CASE Raised
  BY <1>1, RaisedKeeps DEF TryNext
<1>2. CASE ~Raised
  <2>1. /\ post.at = "pausing" /\ post.attempt < MaxAttempts - 1
        /\ post' = Attempt(post.attempt + 1, post.elapsed)
        /\ sent' = sent + 1
        /\ UNCHANGED <<connection, native, turn, cancelled, spent, refusals>>
    BY <1>2 DEF TryNext
  <2>2. post.attempt + 1 \in 0 .. MaxAttempts - 1 /\ post.elapsed \in Nat
    BY <2>1, PostFields DEF Post, MaxAttempts
  <2>3. /\ post' \in Post /\ post'.at = "sending" /\ post'.received = <<>>
        /\ post'.complete = FALSE /\ post'.reply = "answer"
        /\ post'.elapsed = post.elapsed /\ post'.silent = 0 /\ post'.pause = 0
        /\ post'.attempt = post.attempt + 1
    BY <2>1, <2>2, Attempts
  <2>4. spent = FALSE /\ (connection.timeout > 0 => post.elapsed <= connection.timeout)
    BY <2>1, PostFields DEF CallsInv, NoReplay, BudgetsHold
  <2>5. sent' \in Nat /\ sent' + post.attempt <= sent + post'.attempt
    BY <2>1, <2>3, PostFields
  <2> QED
    BY <2>1, <2>3, <2>4, <2>5, PostFields, PostKeeps
<1> QED
  BY <1>1, <1>2

LEMMA RespondKeeps ==
    ASSUME CallsInv, NEW at \in {"streaming", "reading"},
           NEW reply \in {"answer", "unsupported", "refused"}, NEW answer \in Said,
           Respond(at, reply, answer)
    PROVE  CallsInv'
<1>1. /\ post.at = "sending" /\ post' = [post EXCEPT !.at = at, !.reply = reply, !.answer = answer]
      /\ UNCHANGED <<connection, native, turn, cancelled, spent, sent, refusals>>
      /\ reply = "unsupported" => turn.mode = "native"
  BY DEF Respond
<1>2. /\ post' \in Post /\ post'.at = at /\ post'.reply = reply
      /\ post'.received = post.received /\ post'.complete = post.complete
      /\ post'.attempt = post.attempt
      /\ post'.elapsed = post.elapsed /\ post'.silent = post.silent /\ post'.pause = post.pause
  BY <1>1, PostFields DEF Post
<1>3. post.received = <<>> /\ post.complete = FALSE /\ spent = FALSE /\ post.pause = 0
  BY <1>1, PostFields DEF CallsInv, PostsMatchTurns, Progress, Post
<1>4. /\ connection.timeout > 0 => post.elapsed + post.pause <= connection.timeout
      /\ connection.first > 0 => post.silent <= connection.first
  BY <1>1, <1>3 DEF CallsInv, BudgetsHold, Working, Progress
<1> QED
  BY <1>1, <1>2, <1>3, <1>4, PostFields, PostKeeps

LEMMA PieceKeeps == ASSUME CallsInv, Piece PROVE CallsInv'
<1> DEFINE piece == post.answer[Len(post.received) + 1]
<1>1. piece \in Pieces
  <2>1. post.answer \in Seq(Pieces)
    BY PostFields, SaidIsSequence
  <2> QED
    BY <2>1, PostFields DEF Piece
<1>2. /\ Append(post.received, piece) \in Seq(Pieces)
      /\ Append(post.received, piece) # <<>>
  <2>1. post.received \in Seq(Pieces)
    BY PostFields
  <2> HIDE DEF piece
  <2> QED
    BY <1>1, <2>1
<1>3. post' = [post EXCEPT !.received = Append(post.received, piece), !.heard = TRUE, !.silent = 0]
  BY DEF Piece
<1> DEFINE received == Append(post.received, piece)
<1> HIDE DEF received, piece
<1>4. /\ post' \in Post /\ post'.at = post.at /\ post'.reply = post.reply
      /\ post'.received = received /\ post'.complete = post.complete /\ post'.attempt = post.attempt
      /\ post'.elapsed = post.elapsed /\ post'.silent = 0 /\ post'.pause = post.pause
  BY <1>2, <1>3, PostFields DEF Post, received
<1>5. /\ post.at = "streaming" /\ ~post.complete /\ spent' = TRUE
      /\ UNCHANGED <<connection, native, turn, cancelled, sent, refusals>>
  BY DEF Piece
<1>6. /\ connection.timeout > 0 => post.elapsed + post.pause <= connection.timeout
      /\ post.pause = 0
      /\ post.reply = "unsupported" => turn.mode = "native"
  BY <1>5 DEF CallsInv, BudgetsHold, PostsMatchTurns
<1>7. received # <<>>
  BY <1>2 DEF received
<1> QED
  BY <1>4, <1>5, <1>6, <1>7, PostFields, PostKeeps

LEMMA LineKeeps == ASSUME CallsInv, Line PROVE CallsInv'
<1>1. PICK complete \in BOOLEAN :
          /\ complete => post.received = post.answer
          /\ post' = [post EXCEPT !.heard = TRUE, !.complete = complete]
  BY DEF Line
<1>2. /\ post' \in Post /\ post'.at = post.at /\ post'.reply = post.reply
      /\ post'.received = post.received /\ post'.answer = post.answer
      /\ post'.complete = complete /\ post'.attempt = post.attempt
      /\ post'.elapsed = post.elapsed /\ post'.silent = post.silent /\ post'.pause = post.pause
  BY <1>1, PostFields DEF Post
<1>3. /\ post.at = "streaming"
      /\ UNCHANGED <<connection, native, turn, cancelled, spent, sent, refusals>>
  BY DEF Line
<1>4. /\ connection.timeout > 0 => post.elapsed + post.pause <= connection.timeout
      /\ post.received = <<>> /\ connection.first > 0 => post.silent <= connection.first
      /\ post.received # <<>> /\ connection.stall > 0 => post.silent <= connection.stall
  BY <1>3 DEF CallsInv, BudgetsHold, Working, Progress
<1>5. /\ spent => post.received # <<>>
      /\ post.pause = 0
      /\ post.reply = "unsupported" => turn.mode = "native"
  BY <1>3 DEF CallsInv, PostsMatchTurns, Progress
<1> QED
  BY <1>1, <1>2, <1>3, <1>4, <1>5, PostFields, PostKeeps

LEMMA EndKeeps == ASSUME CallsInv, End PROVE CallsInv'
<1>1. post.at = "streaming" /\ UNCHANGED <<connection, native, cancelled, refusals>> /\ Asking
  BY DEF End, CallsInv, PostsMatchTurns
<1>2. CASE ~Ended /\ Broken
  BY <1>1, <1>2, BrokenKeeps
<1>3. CASE post.received = post.answer /\ Answered(post.received)
  BY <1>1, <1>3, AnsweredKeeps
<1>4. CASE Ended /\ Answered(post.received)
  BY <1>1, <1>4, AnsweredKeeps DEF CallsInv, PostsMatchTurns, Ended
<1> QED
  BY <1>2, <1>3, <1>4 DEF End

\* A refusal of native tools is met while they are asked for, so it is the first.
LEMMA BodyKeeps == ASSUME CallsInv, Body PROVE CallsInv'
<1>1. UNCHANGED <<connection, cancelled>> /\ Asking
  BY DEF Body, CallsInv, PostsMatchTurns
<1>2. CASE post.reply = "answer" /\ Answered(post.answer) /\ UNCHANGED <<native, refusals>>
  BY <1>1, <1>2, AnsweredKeeps
<1>3. CASE post.reply = "refused" /\ Raised /\ UNCHANGED <<native, refusals>>
  BY <1>1, <1>3, RaisedKeeps
<1>4. CASE /\ post.reply = "unsupported" /\ ToolsRefused
           /\ refusals' = refusals + 1 /\ Request("text", FALSE)
  <2>1. refusals = 0 /\ cancelled \in BOOLEAN
    <3>1. native /\ refusals \in Nat /\ cancelled \in BOOLEAN
      BY <1>4 DEF CallsInv, PostsMatchTurns, CallsTypeOK
    <3> QED
      BY <3>1 DEF CallsInv, ToolsRefusedAtMostOnce
  <2>2. refusals' \in 0 .. 1
    BY <1>4, <2>1
  <2>3. native' = FALSE /\ cancelled' \in BOOLEAN
    BY <1>1, <1>4, <2>1 DEF ToolsRefused
  <2>4. ToolsKnown("text")
    BY <2>2, <2>3 DEF ToolsKnown
  <2>5. sent <= MaxAttempts * Behind("text", FALSE)
    <3>1. /\ turn.mode = "native" /\ turn.repeated \in BOOLEAN
          /\ sent <= MaxAttempts * Behind(turn.mode, turn.repeated) + post.attempt + 1
      BY <1>1, <1>4, PostFields DEF CallsInv, PostsMatchTurns, TurnIsBounded, Turn
    <3>2. post.attempt \in 0 .. 2 /\ sent \in Nat
      BY PostFields DEF MaxAttempts
    <3> QED
      BY <3>1, <3>2 DEF Behind, MaxAttempts
  <2> QED
    BY <1>1, <1>4, <2>4, <2>5, RequestKeeps
<1> QED
  BY <1>2, <1>3, <1>4 DEF Body

LEMMA AskKeeps == ASSUME CallsInv, Ask PROVE CallsInv'
<1> DEFINE mode == IF native THEN "native" ELSE "text"
<1>1. Request(mode, FALSE) /\ mode \in {"native", "text"}
  BY DEF Ask
<1>2. UNCHANGED <<connection, native, cancelled, refusals>>
  BY DEF Ask
<1>3. ToolsKnown(mode)
  BY <1>2 DEF CallsInv, CallsTypeOK, ToolsKnown, ToolsRefusedAtMostOnce
<1>4. sent <= MaxAttempts * Behind(mode, FALSE)
  BY DEF Ask, CallsInv, TurnIsBounded, Behind, MaxAttempts
<1> HIDE DEF mode
<1> QED
  BY <1>1, <1>2, <1>3, <1>4, RequestKeeps

\* Outside a request, the turn may be put back or closed.
LEMMA DeliverKeeps == ASSUME CallsInv, Deliver PROVE CallsInv'
<1> DEFINE mode == IF turn.mode = "answered" THEN "idle" ELSE "over"
<1>1. turn' = [Idle EXCEPT !.mode = mode] /\ mode \in {"idle", "over"}
  BY DEF Deliver
<1>2. UNCHANGED <<connection, native, post, cancelled, spent, refusals>> /\ sent' = 0 /\ ~Asking
  BY DEF Deliver, Asking
<1> HIDE DEF mode
<1>3. turn' \in Turn /\ turn'.mode = mode
  BY <1>1, SaidIsSequence DEF Idle, Turn
<1>4. post = NoPost
  BY <1>2 DEF CallsInv, PostsMatchTurns
<1>5. CallsTypeOK'
  BY <1>2, <1>3, CallsTypes, CallsTypesNext DEF CallsInv
<1>6. NoReplay' /\ AnswersAreWhole' /\ ToolsRefusedAtMostOnce'
  BY <1>1, <1>2, <1>3 DEF CallsInv, NoReplay, AnswersAreWhole, ToolsRefusedAtMostOnce
<1>7. BudgetsHold'
  BY <1>2 DEF CallsInv, BudgetsHold, Working, Progress
<1>8. PostsMatchTurns'
  BY <1>1, <1>2, <1>3, <1>4, FreshPosts DEF CallsInv, PostsMatchTurns, Asking, Progress
<1>9. TurnIsBounded'
  BY <1>1, <1>2, <1>3 DEF TurnIsBounded, Asking, MaxAttempts
<1> QED
  BY <1>5, <1>6, <1>7, <1>8, <1>9 DEF CallsInv

LEMMA CancelKeeps ==
    ASSUME CallsInv, UNCHANGED <<connection, native, turn, post, spent, sent, refusals>>,
           cancelled' \in BOOLEAN
    PROVE  CallsInv'
BY DEF CallsInv, CallsTypeOK, NoReplay, BudgetsHold, AnswersAreWhole, ToolsRefusedAtMostOnce,
   TurnIsBounded, PostsMatchTurns, Working, Progress, Asking

LEMMA AbandonKeeps == ASSUME CallsInv, Abandon PROVE CallsInv'
<1>1. ToolsKnown("over")
  BY DEF Abandon, CallsInv, CallsTypeOK, ToolsKnown, ToolsRefusedAtMostOnce
<1>2. Done("over", "none", <<>>, <<>>) /\ UNCHANGED connection
  BY DEF Abandon
<1> QED
  BY <1>1, <1>2, DoneKeeps, SaidIsSequence

LEMMA NextJobKeeps == ASSUME CallsInv, NextJob PROVE CallsInv'
<1>1. post' = NoPost /\ spent' = FALSE
  BY FreshPosts DEF NextJob, CallsInv, PostsMatchTurns, Progress, Asking, CallsTypeOK
<1>2. connection' \in Connection
  BY ConnectionAssumption DEF NextJob
<1>3. turn' \in Turn /\ turn'.mode = "idle"
  BY SaidIsSequence DEF NextJob, Idle, Turn
<1>4. CallsTypeOK'
  BY <1>1, <1>2, <1>3, FreshPosts, CallsTypesNext DEF NextJob, Connection
<1>5. /\ NoReplay' /\ AnswersAreWhole' /\ ToolsRefusedAtMostOnce'
      /\ TurnIsBounded' /\ PostsMatchTurns'
  BY <1>1, <1>3, FreshPosts DEF NextJob, NoReplay, AnswersAreWhole, ToolsRefusedAtMostOnce,
     TurnIsBounded, PostsMatchTurns, Asking, Progress, MaxAttempts
<1>6. BudgetsHold'
  BY <1>1, <1>2, FreshPosts DEF BudgetsHold, Working, Connection
<1> QED
  BY <1>4, <1>5, <1>6 DEF CallsInv

LEMMA CallsStep == CallsInv /\ [CallsNext]_callsVars => CallsInv'
<1> SUFFICES ASSUME CallsInv, [CallsNext]_callsVars PROVE CallsInv'
  OBVIOUS
<1>1. CASE Break
  BY <1>1, BrokenKeeps, RaisedKeeps DEF Break, Working
<1>2. CASE Busy
  <2>1. post.received = <<>>
    BY <1>2 DEF Busy, CallsInv, PostsMatchTurns, Progress
  <2> QED
    BY <1>2, <2>1, PausedKeeps DEF Busy
<1>3. CASE Stream \/ Buffer \/ Refuse
  BY <1>3, SaidIsSequence, RespondKeeps DEF Stream, Buffer, Refuse, Said
<1>4. CASE Piece
  BY <1>4, PieceKeeps
<1>5. CASE Line
  BY <1>5, LineKeeps
<1>6. CASE End
  BY <1>6, EndKeeps
<1>7. CASE Body
  BY <1>7, BodyKeeps
<1>8. CASE Tick
  BY <1>8, TickKeeps
<1>9. CASE RunOut
  BY <1>9, BrokenKeeps DEF RunOut, BudgetDue, Working
<1>10. CASE Deadline
  BY <1>10, RaisedKeeps DEF Deadline
<1>11. CASE TryNext
  BY <1>11, TryNextKeeps
<1>12. CASE Ask
  BY <1>12, AskKeeps
<1>13. CASE Deliver
  BY <1>13, DeliverKeeps
<1>14. CASE Abandon
  BY <1>14, AbandonKeeps
<1>15. CASE Cancel
  BY <1>15, CancelKeeps DEF Cancel
<1>16. CASE NextJob
  BY <1>16, NextJobKeeps
<1>17. CASE UNCHANGED callsVars
  BY <1>17, CancelKeeps DEF callsVars, CallsInv, CallsTypeOK
<1> QED
  BY <1>1, <1>2, <1>3, <1>4, <1>5, <1>6, <1>7, <1>8, <1>9, <1>10, <1>11, <1>12, <1>13, <1>14,
     <1>15, <1>16, <1>17 DEF CallsNext, Service, Gateway, Loop

-----------------------------------------------------------------------------
(* ModelCalls: the theorems.                                               *)

\* Whatever is answered and whatever breaks, for any connections, tools and
\* answers: a turn is sent at most twelve times, what the model has begun to
\* generate is not asked for again by the transport, the loop acts on whole
\* answers only, and a gateway meets the refusal of tools at most once.
THEOREM CallsInvHolds == CallsSpec => []CallsInv
<1>1. CallsInit => CallsInv
  BY CallsInitHolds
<1>2. CallsInv /\ [CallsNext]_callsVars => CallsInv'
  BY CallsStep
<1> QED
  BY <1>1, <1>2, PTL DEF CallsSpec

\* The type invariant by itself.
THEOREM CallsTypesHold == CallsSpec => []CallsTypeOK
<1>1. CallsInv => CallsTypeOK
  BY DEF CallsInv
<1> QED
  BY <1>1, CallsInvHolds, PTL
=============================================================================
