------------------------ MODULE DurableCheckpointProofs ------------------------
(***************************************************************************)
(* Theorems about DurableCheckpoint, for any set of Workers and any number *)
(* of turns and attempts.                                                  *)
(***************************************************************************)
EXTENDS DurableCheckpoint, TLAPS

\* The records are of their types.
LEMMA RecordTypes ==
    /\ NoRef \in Ref /\ Idle \in Worker
    /\ \A r \in Ref : ObjectOf(r) \in Object /\ Marked(r) \in Ref
    /\ \A a \in Attempts, t \in Turns :
          [attempt |-> a, turn |-> t] \in Object /\ Ready([attempt |-> a, turn |-> t]) \in Ref
BY CheckpointAssumption DEF NoRef, Ref, Idle, Worker, Phase, ObjectOf, Object, Marked,
   Ready,
   Attempts, Turns

\* A Worker's record keeps its type when its fields do.
LEMMA WorkerTypes ==
    ASSUME NEW r \in Worker
    PROVE  /\ \A p \in Phase : [r EXCEPT !.phase = p] \in Worker
           /\ \A p \in Phase, m \in Ref : [r EXCEPT !.mine = m, !.phase = p] \in Worker
           /\ \A p \in Phase, m, o \in Ref :
                 [r EXCEPT !.old = o, !.mine = m, !.phase = p] \in Worker
           /\ \A p \in Phase, t \in Turns : [r EXCEPT !.phase = p, !.turn = t] \in Worker
           /\ \A p \in Phase, m \in Ref, d \in BOOLEAN :
                 [r EXCEPT !.durable = d, !.mine = m, !.phase = p] \in Worker
           /\ \A p \in Phase, a \in Attempts : [r EXCEPT !.phase = p, !.attempt = a] \in Worker
           /\ \A p \in Phase, m \in Ref, d \in BOOLEAN, t \in Turns :
                 [r EXCEPT !.mine = m, !.durable = d, !.turn = t, !.phase = p] \in Worker
BY DEF Worker

LEMMA TypeInit == Init => TypeOK
<1>1. NoRef \in Ref /\ Idle \in Worker /\ 0 \in Attempts
  BY RecordTypes, CheckpointAssumption DEF Attempts
<1> QED
  BY <1>1 DEF Init, TypeOK, JobStatus

\* The type invariant is preserved by every step.
LEMMA TypeStep == TypeOK /\ [Next]_vars => TypeOK'
<1> SUFFICES ASSUME TypeOK, [Next]_vars PROVE TypeOK'
  OBVIOUS
<1> USE CheckpointAssumption DEF TypeOK, Goto, Leave
<1>1. ASSUME NEW w \in Workers, Claim(w) PROVE TypeOK'
  <2>1. attempt + 1 \in Attempts
    BY <1>1 DEF Claim, Attempts
  <2>2. [Idle EXCEPT !.phase = "claimed", !.attempt = attempt + 1] \in Worker
    BY <2>1, RecordTypes, WorkerTypes DEF Phase
  <2> QED
    BY <1>1, <2>1, <2>2 DEF Claim, JobStatus
<1>2. ASSUME NEW w \in Workers, Heartbeat(w) PROVE TypeOK'
  BY <1>2 DEF Heartbeat
<1>3. ASSUME NEW w \in Workers, Crash(w) PROVE TypeOK'
  BY <1>3, RecordTypes DEF Crash
<1>4. ASSUME NEW w \in Workers, Begin(w) PROVE TypeOK'
  <2>1. CASE ~Holds(w)
    BY <1>4, <2>1, RecordTypes DEF Begin
  <2>2. CASE Holds(w)
    <3> DEFINE turn == IF ref.status = "none" THEN 1 ELSE ref.turn
               phase == IF \/ ref.status = "in_flight"
                           \/ ref.status = "ready" /\ ObjectOf(ref) \notin objects
                        THEN "failing" ELSE "preparing"
    <3>1. turn \in Turns /\ phase \in Phase
      BY DEF Turns, Ref, Phase
    <3>2. [worker[w] EXCEPT !.mine = ref, !.durable = TRUE, !.turn = turn, !.phase = phase] \in Worker
      BY <3>1, WorkerTypes
    <3>3. worker' = [worker EXCEPT ![w] =
                [worker[w] EXCEPT !.mine = ref, !.durable = TRUE, !.turn = turn, !.phase = phase]]
      BY <1>4, <2>2 DEF Begin
    <3> HIDE DEF turn, phase
    <3> QED
      BY <1>4, <3>2, <3>3 DEF Begin
  <2> QED
    BY <2>1, <2>2
<1>5. ASSUME NEW w \in Workers, Prepare(w) PROVE TypeOK'
  BY <1>5 DEF Prepare, WriteMemory, Worker, Phase
<1>6. ASSUME NEW w \in Workers, Save(w) PROVE TypeOK'
  <2>1. [attempt |-> worker[w].attempt, turn |-> worker[w].turn] \in Object
    BY RecordTypes DEF Worker
  <2> QED
    BY <1>6, <2>1 DEF Save, Worker, Phase
<1>7. ASSUME NEW w \in Workers, SaveUnavailable(w) PROVE TypeOK'
  BY <1>7 DEF SaveUnavailable, Worker, Phase
<1>8. ASSUME NEW w \in Workers, SkipSave(w) PROVE TypeOK'
  BY <1>8 DEF SkipSave, Worker, Phase
<1>9. ASSUME NEW w \in Workers, Publish(w) PROVE TypeOK'
  <2> DEFINE new == [status |-> "ready", attempt |-> worker[w].attempt, turn |-> worker[w].turn]
  <2>1. new \in Ref
    BY DEF Worker, Ref
  <2>2. ref' \in Ref
    BY <1>9, <2>1 DEF Publish
  <2>3. worker' \in [Workers -> Worker]
    <3>1. worker[w] \in Worker /\ worker[w].mine \in Ref /\ "replaced" \in Phase /\ "failing" \in Phase
      BY DEF Worker, Phase
    <3>2. \/ worker' = [worker EXCEPT ![w] = [worker[w] EXCEPT
                !.old = worker[w].mine, !.mine = new, !.phase = "replaced"]]
          \/ worker' = [worker EXCEPT ![w] = [worker[w] EXCEPT !.phase = "failing"]]
      BY <1>9 DEF Publish
    <3> HIDE DEF new
    <3>3. /\ [worker[w] EXCEPT !.old = worker[w].mine, !.mine = new, !.phase = "replaced"] \in Worker
          /\ [worker[w] EXCEPT !.phase = "failing"] \in Worker
      BY <2>1, <3>1, WorkerTypes
    <3> QED
      BY <3>2, <3>3
  <2> QED
    BY <1>9, <2>2, <2>3 DEF Publish
<1>10. ASSUME NEW w \in Workers, DeleteOld(w) PROVE TypeOK'
  BY <1>10 DEF DeleteOld, Worker, Phase
<1>11. ASSUME NEW w \in Workers, Mark(w) PROVE TypeOK'
  <2>1. Marked(worker[w].mine) \in Ref
    BY RecordTypes DEF Worker
  <2>2. worker' \in [Workers -> Worker]
    <3>1. /\ [worker[w] EXCEPT !.mine = Marked(worker[w].mine), !.phase = "tools"] \in Worker
          /\ [worker[w] EXCEPT !.phase = "tools"] \in Worker
      BY <2>1, WorkerTypes DEF Phase
    <3> QED
      BY <1>11, <3>1 DEF Mark
  <2> QED
    BY <1>11, <2>1, <2>2 DEF Mark
<1>12. ASSUME NEW w \in Workers, CheckCall(w) PROVE TypeOK'
  BY <1>12 DEF CheckCall, Worker, Phase
<1>13. ASSUME NEW w \in Workers, Dispatch(w) PROVE TypeOK'
  <2>1. worker' \in [Workers -> Worker]
    BY <1>13, WorkerTypes DEF Dispatch, Phase
  <2>2. executed' \in SUBSET Execution
    <3>1. [attempt |-> worker[w].attempt, turn |-> worker[w].turn,
           durable |-> worker[w].durable] \in Execution
      BY DEF Worker, Execution
    <3> QED
      BY <1>13, <3>1 DEF Dispatch
  <2>3. ref' \in Ref /\ overwritten' \in BOOLEAN
    BY <1>13 DEF Dispatch, WriteMemory, Worker
  <2> QED
    BY <1>13, <2>1, <2>2, <2>3 DEF Dispatch
<1>14. ASSUME NEW w \in Workers, EndTurn(w) PROVE TypeOK'
  <2>1. CASE TurnLimit(w)
    BY <1>14, <2>1 DEF EndTurn, Worker, Phase
  <2>2. CASE ~TurnLimit(w)
    <3>1. worker[w].turn + 1 \in Turns
      BY <2>2 DEF TurnLimit, Turns, Worker
    <3>2. worker' = [worker EXCEPT ![w].phase = "turn", ![w].turn = worker[w].turn + 1]
      BY <1>14, <2>2 DEF EndTurn, Worker
    <3>3. worker' \in [Workers -> Worker]
      BY <3>1, <3>2, ZenonT(40) DEF Worker, Phase
    <3> QED
      BY <1>14, <3>3 DEF EndTurn
  <2> QED
    BY <2>1, <2>2
<1>15. ASSUME NEW w \in Workers, Succeed(w) PROVE TypeOK'
  BY <1>15, RecordTypes DEF Succeed, JobStatus
<1>16. ASSUME NEW w \in Workers, Raise(w) PROVE TypeOK'
  BY <1>16 DEF Raise, Worker, Phase
<1>17. ASSUME NEW w \in Workers, Fail(w) PROVE TypeOK'
  BY <1>17, RecordTypes DEF Fail, JobStatus
<1>18. ASSUME NEW w \in Workers, LeaseLost(w) PROVE TypeOK'
  BY <1>18, RecordTypes DEF LeaseLost
<1>19. CASE LeaseExpires
  BY <1>19 DEF LeaseExpires
<1>20. CASE Recover
  BY <1>20 DEF Recover, JobStatus
<1>21. CASE Purge
  BY <1>21, RecordTypes DEF Purge
<1>22. ASSUME NEW o \in Object, SweepOrphan(o) PROVE TypeOK'
  BY <1>22 DEF SweepOrphan
<1>23. CASE UNCHANGED vars
  BY <1>23 DEF vars
<1> QED
  BY <1>1, <1>2, <1>3, <1>4, <1>5, <1>6, <1>7, <1>8, <1>9, <1>10, <1>11, <1>12, <1>13,
     <1>14,
     <1>15, <1>16, <1>17, <1>18, <1>19, <1>20, <1>21, <1>22, <1>23 DEF Next, WorkerStep

-----------------------------------------------------------------------------
(* What a step of w does to the Workers, field by field.                   *)

Others(w) == \A v \in Workers : v # w => worker'[v] = worker[v]

Keeps(w) ==
    /\ worker'[w].attempt = worker[w].attempt
    /\ worker'[w].turn = worker[w].turn
    /\ worker'[w].old = worker[w].old

LEMMA GotoEffect ==
    ASSUME TypeOK, NEW w \in Workers, NEW p, Goto(w, p)
    PROVE  /\ Others(w) /\ Keeps(w)
           /\ worker'[w].phase = p
           /\ worker'[w].durable = worker[w].durable
           /\ worker'[w].mine = worker[w].mine
BY DEF TypeOK, Goto, Others, Keeps, Worker

LEMMA LeaveEffect ==
    ASSUME TypeOK, NEW w \in Workers, Leave(w)
    PROVE  Others(w) /\ worker'[w].phase = "idle"
BY DEF TypeOK, Leave, Others, Idle

LEMMA ClaimEffect ==
    ASSUME TypeOK, NEW w \in Workers, Claim(w)
    PROVE  /\ Others(w)
           /\ worker'[w].phase = "claimed"
           /\ worker'[w].attempt = attempt + 1
           /\ ~worker'[w].durable
           /\ job = "queued" /\ job' = "running" /\ attempt' = attempt + 1
           /\ UNCHANGED <<ref, objects, executed>>
BY DEF TypeOK, Claim, Others, Idle

LEMMA BeginEffect ==
    ASSUME TypeOK, NEW w \in Workers, Begin(w), Holds(w)
    PROVE  /\ worker[w].phase = "claimed" /\ Current(w)
           /\ UNCHANGED <<job, attempt, ref, objects, executed>>
           /\ Others(w)
           /\ worker'[w].attempt = worker[w].attempt
           /\ worker'[w].turn = (IF ref.status = "none" THEN 1 ELSE ref.turn)
           /\ worker'[w].mine = ref
           /\ worker'[w].phase \in {"failing", "preparing"}
           /\ worker'[w].phase = "preparing" => ref.status # "in_flight"
<1>1. /\ Others(w)
      /\ worker[w].phase = "claimed" /\ Current(w)
      /\ UNCHANGED <<job, attempt, ref, objects, executed>>
  BY DEF TypeOK, Begin, Others, Holds, Current
<1> DEFINE turn == IF ref.status = "none" THEN 1 ELSE ref.turn
           phase == IF \/ ref.status = "in_flight"
                       \/ ref.status = "ready" /\ ObjectOf(ref) \notin objects
                    THEN "failing" ELSE "preparing"
<1>2. worker' = [worker EXCEPT ![w] =
         [worker[w] EXCEPT !.mine = ref, !.durable = TRUE, !.turn = turn, !.phase = phase]]
  BY DEF Begin
<1>3. phase \in {"failing", "preparing"} /\ (phase = "preparing" => ref.status # "in_flight")
  OBVIOUS
<1> HIDE DEF turn, phase
<1>4. /\ worker'[w].attempt = worker[w].attempt
      /\ worker'[w].turn = turn
      /\ worker'[w].mine = ref
      /\ worker'[w].phase = phase
  BY <1>2 DEF TypeOK, Worker
<1> QED
  BY <1>1, <1>3, <1>4 DEF turn

LEMMA SaveUnavailableEffect ==
    ASSUME TypeOK, NEW w \in Workers, SaveUnavailable(w)
    PROVE  /\ worker[w].phase = "turn" /\ Current(w)
           /\ UNCHANGED <<job, attempt, ref, objects, executed>>
           /\ Others(w) /\ Keeps(w)
           /\ worker'[w].phase = "thinking"
           /\ ~worker'[w].durable
           /\ worker'[w].mine = ref
BY DEF TypeOK, SaveUnavailable, Others, Keeps, Worker, Holds, Current

LEMMA PublishEffect ==
    ASSUME TypeOK, NEW w \in Workers, Publish(w)
    PROVE  /\ worker[w].phase = "publishing" /\ Current(w)
           /\ UNCHANGED <<job, attempt, objects, executed>>
           /\ Others(w)
           /\ worker'[w].attempt = worker[w].attempt
           /\ worker'[w].turn = worker[w].turn
           /\ worker'[w].durable = worker[w].durable
           /\ \/ ref' = ref
              \/ ref'.status = "ready" /\ ObjectOf(ref') = OwnObject(w)
           /\ \/ worker'[w].phase = "failing"
              \/ /\ worker'[w].phase = "replaced"
                 /\ worker'[w].mine = ref'
                 /\ worker'[w].old = worker[w].mine
                 /\ ref'.status = "ready" /\ ObjectOf(ref') = OwnObject(w)
<1> DEFINE new == [status |-> "ready", attempt |-> worker[w].attempt, turn |-> worker[w].turn]
<1>0. /\ worker[w].phase = "publishing" /\ Current(w)
      /\ UNCHANGED <<job, attempt, objects, executed>>
  BY DEF Publish, Holds, Current
<1>1. new.status = "ready" /\ ObjectOf(new) = OwnObject(w)
  BY DEF ObjectOf, OwnObject
<1>2. CASE Goto(w, "failing") /\ ref' \in {ref, new}
  <2>1. Others(w) /\ Keeps(w) /\ worker'[w].phase = "failing"
        /\ worker'[w].durable = worker[w].durable
    BY <1>2, GotoEffect
  <2> QED
    BY <1>0, <1>1, <1>2, <2>1 DEF Keeps
<1>3. CASE /\ ref' = new
           /\ worker' = [worker EXCEPT ![w] = [worker[w] EXCEPT
                 !.old = worker[w].mine, !.mine = new, !.phase = "replaced"]]
  <2> HIDE DEF new
  <2>1. /\ Others(w) /\ worker'[w].phase = "replaced"
        /\ worker'[w].mine = new /\ worker'[w].old = worker[w].mine
        /\ worker'[w].attempt = worker[w].attempt
        /\ worker'[w].turn = worker[w].turn
        /\ worker'[w].durable = worker[w].durable
    BY <1>3 DEF TypeOK, Worker, Others
  <2> QED
    BY <1>0, <1>1, <1>3, <2>1
<1> QED
  BY <1>2, <1>3 DEF Publish

LEMMA MarkEffect ==
    ASSUME TypeOK, NEW w \in Workers, Mark(w)
    PROVE  /\ worker[w].phase = "thinking" /\ Current(w)
           /\ UNCHANGED <<job, attempt, objects, executed>>
           /\ Others(w) /\ Keeps(w)
           /\ worker'[w].phase = "tools"
           /\ worker'[w].durable = worker[w].durable
           /\ IF worker[w].durable
              THEN ref' = worker'[w].mine /\ worker'[w].mine = Marked(worker[w].mine)
              ELSE ref' = ref /\ worker'[w].mine = worker[w].mine
<1>0. /\ worker[w].phase = "thinking" /\ Current(w)
      /\ UNCHANGED <<job, attempt, objects, executed>>
  BY DEF Mark, Holds, Current
<1>1. CASE worker[w].durable
  <2> DEFINE marked == Marked(worker[w].mine)
  <2>1. /\ ref' = marked
        /\ worker' = [worker EXCEPT ![w] = [worker[w] EXCEPT !.mine = marked, !.phase = "tools"]]
    BY <1>1 DEF Mark
  <2> HIDE DEF marked
  <2>2. /\ Others(w) /\ Keeps(w)
        /\ worker'[w].phase = "tools"
        /\ worker'[w].durable = worker[w].durable
        /\ worker'[w].mine = marked
    BY <2>1 DEF TypeOK, Worker, Others, Keeps
  <2> QED
    BY <1>0, <1>1, <2>1, <2>2 DEF marked
<1>2. CASE ~worker[w].durable
  BY <1>0, <1>2, GotoEffect DEF Mark
<1> QED
  BY <1>1, <1>2

\* Marking keeps the object and, if there is one, the mark stays on.
LEMMA MarkedRef ==
    ASSUME NEW r \in Ref
    PROVE  /\ ObjectOf(Marked(r)) = ObjectOf(r)
           /\ Marked(r).attempt = r.attempt /\ Marked(r).turn = r.turn
           /\ r.status # "none" => Marked(r).status = "in_flight"
BY DEF Ref, Marked, ObjectOf

LEMMA EndTurnEffect ==
    ASSUME TypeOK, NEW w \in Workers, EndTurn(w)
    PROVE  /\ Others(w)
           /\ worker'[w].attempt = worker[w].attempt
           /\ worker'[w].durable = worker[w].durable
           /\ worker'[w].mine = worker[w].mine
           /\ \/ worker'[w].phase = "failing"
              \/ worker'[w].phase = "turn" /\ worker'[w].turn = worker[w].turn + 1
           /\ worker[w].phase = "tools"
           /\ UNCHANGED <<job, attempt, ref, objects, executed>>
<1>1. CASE TurnLimit(w)
  BY <1>1, GotoEffect DEF EndTurn, Keeps
<1>2. CASE ~TurnLimit(w)
  <2>1. worker' = [worker EXCEPT ![w].phase = "turn", ![w].turn = worker[w].turn + 1]
    BY <1>2 DEF EndTurn, TypeOK, Worker
  <2> QED
    BY <2>1 DEF TypeOK, Worker, Others, EndTurn
<1> QED
  BY <1>1, <1>2

\* A write of the memory that leaves the history unmarked leaves the pointer.
LEMMA InTimeWrite ==
    ASSUME NEW w \in Workers, WriteMemory(w), ~overwritten'
    PROVE  ref' = ref
<1>1. CASE UNCHANGED <<ref, overwritten>>
  BY <1>1
<1>2. CASE ref' = worker[w].mine /\ overwritten' = (overwritten \/ ref # worker[w].mine)
  <2>1. ~(overwritten \/ ref # worker[w].mine)
    BY <1>2
  <2> QED
    BY <1>2, <2>1
<1> QED
  BY <1>1, <1>2 DEF WriteMemory

\* The history is never unmarked.
LEMMA OverwrittenStays == TypeOK /\ [Next]_vars /\ ~overwritten' => ~overwritten
<1> SUFFICES ASSUME TypeOK, [Next]_vars, overwritten PROVE overwritten'
  BY DEF TypeOK
<1>1. ASSUME NEW w \in Workers, WriteMemory(w) PROVE overwritten'
  BY <1>1 DEF WriteMemory
<1> QED
  BY <1>1 DEF Next, WorkerStep, vars, Claim, Heartbeat, Crash, Begin, Prepare, Save,
     SaveUnavailable, SkipSave, Publish, DeleteOld, Mark, CheckCall, Dispatch, EndTurn, Succeed,
     Raise, Fail, LeaseLost, LeaseExpires, Recover, Purge, SweepOrphan

-----------------------------------------------------------------------------
\* A fresh attempt number goes to one Worker only.
LEMMA AttemptsHeldStep ==
    ASSUME TypeOK, AttemptsHeld, [Next]_vars
    PROVE  AttemptsHeld'
<1> USE DEF TypeOK, AttemptsHeld, Worker, Attempts
<1>1. ASSUME NEW w \in Workers, Claim(w) PROVE AttemptsHeld'
  BY <1>1, ClaimEffect DEF Others
<1>2. ASSUME NEW w \in Workers, Heartbeat(w) PROVE AttemptsHeld'
  BY <1>2 DEF Heartbeat
<1>3. ASSUME NEW w \in Workers, Crash(w) PROVE AttemptsHeld'
  BY <1>3, LeaveEffect DEF Crash, Others
<1>4. ASSUME NEW w \in Workers, Begin(w) PROVE AttemptsHeld'
  <2>1. CASE ~Holds(w)
    BY <1>4, <2>1, LeaveEffect DEF Begin, Others
  <2>2. CASE Holds(w)
    BY <1>4, <2>2, BeginEffect DEF Others
  <2> QED
    BY <2>1, <2>2
<1>5. ASSUME NEW w \in Workers, Prepare(w) PROVE AttemptsHeld'
  BY <1>5, GotoEffect DEF Prepare, Others, Keeps
<1>6. ASSUME NEW w \in Workers, Save(w) PROVE AttemptsHeld'
  BY <1>6, GotoEffect DEF Save, Others, Keeps, Holds
<1>7. ASSUME NEW w \in Workers, SaveUnavailable(w) PROVE AttemptsHeld'
  BY <1>7, SaveUnavailableEffect DEF Others, Keeps
<1>8. ASSUME NEW w \in Workers, SkipSave(w) PROVE AttemptsHeld'
  BY <1>8, GotoEffect DEF SkipSave, Others, Keeps, Holds
<1>9. ASSUME NEW w \in Workers, Publish(w) PROVE AttemptsHeld'
  BY <1>9, PublishEffect DEF Others
<1>10. ASSUME NEW w \in Workers, DeleteOld(w) PROVE AttemptsHeld'
  BY <1>10, GotoEffect DEF DeleteOld, Others, Keeps
<1>11. ASSUME NEW w \in Workers, Mark(w) PROVE AttemptsHeld'
  BY <1>11, MarkEffect DEF Others, Keeps
<1>12. ASSUME NEW w \in Workers, CheckCall(w) PROVE AttemptsHeld'
  BY <1>12, GotoEffect DEF CheckCall, Others, Keeps, Holds
<1>13. ASSUME NEW w \in Workers, Dispatch(w) PROVE AttemptsHeld'
  BY <1>13, GotoEffect DEF Dispatch, Others, Keeps
<1>14. ASSUME NEW w \in Workers, EndTurn(w) PROVE AttemptsHeld'
  BY <1>14, EndTurnEffect DEF Others
<1>15. ASSUME NEW w \in Workers, Succeed(w) PROVE AttemptsHeld'
  BY <1>15, LeaveEffect DEF Succeed, Others, Holds
<1>16. ASSUME NEW w \in Workers, Raise(w) PROVE AttemptsHeld'
  BY <1>16, GotoEffect DEF Raise, Others, Keeps
<1>17. ASSUME NEW w \in Workers, Fail(w) PROVE AttemptsHeld'
  BY <1>17, LeaveEffect DEF Fail, Others, Holds
<1>18. ASSUME NEW w \in Workers, LeaseLost(w) PROVE AttemptsHeld'
  BY <1>18, LeaveEffect DEF LeaseLost, Others
<1>19. CASE LeaseExpires
  BY <1>19 DEF LeaseExpires
<1>20. CASE Recover
  BY <1>20 DEF Recover
<1>21. CASE Purge
  BY <1>21 DEF Purge
<1>22. ASSUME NEW o \in Object, SweepOrphan(o) PROVE AttemptsHeld'
  BY <1>22 DEF SweepOrphan
<1>23. CASE UNCHANGED vars
  BY <1>23 DEF vars
<1> QED
  BY <1>1, <1>2, <1>3, <1>4, <1>5, <1>6, <1>7, <1>8, <1>9, <1>10, <1>11, <1>12, <1>13,
     <1>14, <1>15, <1>16, <1>17, <1>18, <1>19, <1>20, <1>21, <1>22, <1>23 DEF Next, WorkerStep

\* Only the current attempt moves the pointer.
LEMMA MineIsRefStep ==
    ASSUME TypeOK, AttemptsHeld, MineIsRef, PointersAdvance, [Next]_vars, ~overwritten'
    PROVE  MineIsRef'
<1> USE DEF TypeOK, AttemptsHeld, MineIsRef, Current, Working, Worker, Attempts
<1>1. ASSUME NEW w \in Workers, Claim(w) PROVE MineIsRef'
  <2>1. ref.attempt < attempt + 1
    BY DEF PointersAdvance, Ref
  <2> QED
    BY <1>1, <2>1, ClaimEffect DEF Others
<1>2. ASSUME NEW w \in Workers, Heartbeat(w) PROVE MineIsRef'
  BY <1>2 DEF Heartbeat
<1>3. ASSUME NEW w \in Workers, Crash(w) PROVE MineIsRef'
  BY <1>3, LeaveEffect DEF Crash, Others
<1>4. ASSUME NEW w \in Workers, Begin(w) PROVE MineIsRef'
  <2>1. CASE ~Holds(w)
    BY <1>4, <2>1, LeaveEffect DEF Begin, Others
  <2>2. CASE Holds(w)
    BY <1>4, <2>2, BeginEffect DEF Others
  <2> QED
    BY <2>1, <2>2
<1>5. ASSUME NEW w \in Workers, Prepare(w) PROVE MineIsRef'
  <2>1. ref' = ref
    BY <1>5, InTimeWrite DEF Prepare
  <2> QED
    BY <1>5, <2>1, GotoEffect DEF Prepare, Others, Keeps
<1>6. ASSUME NEW w \in Workers, Save(w) PROVE MineIsRef'
  BY <1>6, GotoEffect DEF Save, Others, Keeps, Holds
<1>7. ASSUME NEW w \in Workers, SaveUnavailable(w) PROVE MineIsRef'
  BY <1>7, SaveUnavailableEffect DEF Others, Keeps
<1>8. ASSUME NEW w \in Workers, SkipSave(w) PROVE MineIsRef'
  BY <1>8, GotoEffect DEF SkipSave, Others, Keeps, Holds
<1>9. ASSUME NEW w \in Workers, Publish(w) PROVE MineIsRef'
  BY <1>9, PublishEffect DEF Others
<1>10. ASSUME NEW w \in Workers, DeleteOld(w) PROVE MineIsRef'
  BY <1>10, GotoEffect DEF DeleteOld, Others, Keeps
<1>11. ASSUME NEW w \in Workers, Mark(w) PROVE MineIsRef'
  BY <1>11, MarkEffect DEF Others, Keeps
<1>12. ASSUME NEW w \in Workers, CheckCall(w) PROVE MineIsRef'
  BY <1>12, GotoEffect DEF CheckCall, Others, Keeps, Holds
<1>13. ASSUME NEW w \in Workers, Dispatch(w) PROVE MineIsRef'
  <2>1. ref' = ref
    BY <1>13, InTimeWrite DEF Dispatch
  <2> QED
    BY <1>13, <2>1, GotoEffect DEF Dispatch, Others, Keeps
<1>14. ASSUME NEW w \in Workers, EndTurn(w) PROVE MineIsRef'
  BY <1>14, EndTurnEffect DEF Others
<1>15. ASSUME NEW w \in Workers, Succeed(w) PROVE MineIsRef'
  BY <1>15, LeaveEffect DEF Succeed, Others, Holds
<1>16. ASSUME NEW w \in Workers, Raise(w) PROVE MineIsRef'
  BY <1>16, GotoEffect DEF Raise, Others, Keeps
<1>17. ASSUME NEW w \in Workers, Fail(w) PROVE MineIsRef'
  BY <1>17, LeaveEffect DEF Fail, Others, Holds
<1>18. ASSUME NEW w \in Workers, LeaseLost(w) PROVE MineIsRef'
  BY <1>18, LeaveEffect DEF LeaseLost, Others
<1>19. CASE LeaseExpires
  BY <1>19 DEF LeaseExpires
<1>20. CASE Recover
  BY <1>20 DEF Recover
<1>21. CASE Purge
  BY <1>21 DEF Purge
<1>22. ASSUME NEW o \in Object, SweepOrphan(o) PROVE MineIsRef'
  BY <1>22 DEF SweepOrphan
<1>23. CASE UNCHANGED vars
  BY <1>23 DEF vars
<1> QED
  BY <1>1, <1>2, <1>3, <1>4, <1>5, <1>6, <1>7, <1>8, <1>9, <1>10, <1>11, <1>12, <1>13,
     <1>14, <1>15, <1>16, <1>17, <1>18, <1>19, <1>20, <1>21, <1>22, <1>23 DEF Next, WorkerStep

\* A turn publishes its snapshot before its tools, and marks it.
LEMMA OwnSnapshotStep ==
    ASSUME TypeOK, OwnSnapshot, [Next]_vars
    PROVE  OwnSnapshot'
<1> USE DEF TypeOK, OwnSnapshot, OwnObject, Calling, Worker
<1>1. ASSUME NEW w \in Workers, Claim(w) PROVE OwnSnapshot'
  BY <1>1, ClaimEffect DEF Others
<1>2. ASSUME NEW w \in Workers, Heartbeat(w) PROVE OwnSnapshot'
  BY <1>2 DEF Heartbeat
<1>3. ASSUME NEW w \in Workers, Crash(w) PROVE OwnSnapshot'
  BY <1>3, LeaveEffect DEF Crash, Others
<1>4. ASSUME NEW w \in Workers, Begin(w) PROVE OwnSnapshot'
  <2>1. CASE ~Holds(w)
    BY <1>4, <2>1, LeaveEffect DEF Begin, Others
  <2>2. CASE Holds(w)
    BY <1>4, <2>2, BeginEffect DEF Others
  <2> QED
    BY <2>1, <2>2
<1>5. ASSUME NEW w \in Workers, Prepare(w) PROVE OwnSnapshot'
  BY <1>5, GotoEffect DEF Prepare, Others, Keeps
<1>6. ASSUME NEW w \in Workers, Save(w) PROVE OwnSnapshot'
  BY <1>6, GotoEffect DEF Save, Others, Keeps, Holds
<1>7. ASSUME NEW w \in Workers, SaveUnavailable(w) PROVE OwnSnapshot'
  BY <1>7, SaveUnavailableEffect DEF Others, Keeps
<1>8. ASSUME NEW w \in Workers, SkipSave(w) PROVE OwnSnapshot'
  BY <1>8, GotoEffect DEF SkipSave, Others, Keeps, Holds
<1>9. ASSUME NEW w \in Workers, Publish(w) PROVE OwnSnapshot'
  BY <1>9, PublishEffect DEF Others
<1>10. ASSUME NEW w \in Workers, DeleteOld(w) PROVE OwnSnapshot'
  BY <1>10, GotoEffect DEF DeleteOld, Others, Keeps
<1>11. ASSUME NEW w \in Workers, Mark(w) PROVE OwnSnapshot'
  BY <1>11, MarkEffect, MarkedRef DEF Others, Keeps
<1>12. ASSUME NEW w \in Workers, CheckCall(w) PROVE OwnSnapshot'
  BY <1>12, GotoEffect DEF CheckCall, Others, Keeps, Holds
<1>13. ASSUME NEW w \in Workers, Dispatch(w) PROVE OwnSnapshot'
  BY <1>13, GotoEffect DEF Dispatch, Others, Keeps
<1>14. ASSUME NEW w \in Workers, EndTurn(w) PROVE OwnSnapshot'
  BY <1>14, EndTurnEffect DEF Others
<1>15. ASSUME NEW w \in Workers, Succeed(w) PROVE OwnSnapshot'
  BY <1>15, LeaveEffect DEF Succeed, Others, Holds
<1>16. ASSUME NEW w \in Workers, Raise(w) PROVE OwnSnapshot'
  BY <1>16, GotoEffect DEF Raise, Others, Keeps
<1>17. ASSUME NEW w \in Workers, Fail(w) PROVE OwnSnapshot'
  BY <1>17, LeaveEffect DEF Fail, Others, Holds
<1>18. ASSUME NEW w \in Workers, LeaseLost(w) PROVE OwnSnapshot'
  BY <1>18, LeaveEffect DEF LeaseLost, Others
<1>19. CASE LeaseExpires
  BY <1>19 DEF LeaseExpires
<1>20. CASE Recover
  BY <1>20 DEF Recover
<1>21. CASE Purge
  BY <1>21 DEF Purge
<1>22. ASSUME NEW o \in Object, SweepOrphan(o) PROVE OwnSnapshot'
  BY <1>22 DEF SweepOrphan
<1>23. CASE UNCHANGED vars
  BY <1>23 DEF vars
<1> QED
  BY <1>1, <1>2, <1>3, <1>4, <1>5, <1>6, <1>7, <1>8, <1>9, <1>10, <1>11, <1>12, <1>13,
     <1>14, <1>15, <1>16, <1>17, <1>18, <1>19, <1>20, <1>21, <1>22, <1>23 DEF Next, WorkerStep

\* A Worker that does not step is not disturbed: the pointer stays, goes, is
\* marked, or moves to a later attempt.
LEMMA AdvancingFrame ==
    ASSUME NEW v \in Workers, worker'[v] = worker[v], Advancing(v),
           \/ ref' = ref
           \/ ref'.status = "none" \/ worker[v].phase # "replaced"
           \/ ref'.attempt = ref.attempt /\ ref'.turn = ref.turn /\ ref.status # "none"
           \/ worker[v] \in Worker /\ ref' \in Ref /\ worker[v].attempt < ref'.attempt
    PROVE  Advancing(v)'
BY DEF Advancing, Precedes, OwnObject, ObjectOf, Calling, Worker, Ref, Attempts, Turns

\* Pointers only move forward.
LEMMA PointersAdvanceStep ==
    ASSUME TypeOK, AttemptsHeld, MineIsRef, OwnSnapshot, PointersAdvance, [Next]_vars,
           ~overwritten'
    PROVE  PointersAdvance'
<1> USE DEF TypeOK, AttemptsHeld, PointersAdvance, Worker, Attempts, Turns, Ref
<1>1. ASSUME NEW w \in Workers, Claim(w) PROVE PointersAdvance'
  <2>1. ref' = ref /\ attempt' = attempt + 1 /\ ref.attempt <= attempt + 1
    BY <1>1, ClaimEffect
  <2>2. Advancing(w)'
    BY <1>1, ClaimEffect DEF Advancing, Calling
  <2> QED
    BY <1>1, <2>1, <2>2, AdvancingFrame, ClaimEffect DEF Others
<1>2. ASSUME NEW w \in Workers, Heartbeat(w) PROVE PointersAdvance'
  BY <1>2, AdvancingFrame DEF Heartbeat
<1>3. ASSUME NEW w \in Workers, Crash(w) PROVE PointersAdvance'
  <2>1. ref' = ref /\ attempt' = attempt /\ Others(w)
    BY <1>3, LeaveEffect DEF Crash
  <2>2. Advancing(w)'
    BY <1>3, <2>1, LeaveEffect DEF Crash, Keeps, Advancing, Precedes, OwnObject, ObjectOf,
       Calling
  <2> QED
    BY <2>1, <2>2, AdvancingFrame DEF Others
<1>4. ASSUME NEW w \in Workers, Begin(w) PROVE PointersAdvance'
  <2>1. CASE ~Holds(w)
    <3>1. ref' = ref /\ attempt' = attempt /\ Leave(w)
      BY <1>4, <2>1 DEF Begin
    <3>2. Advancing(w)'
      BY <3>1, LeaveEffect DEF Advancing, Calling
    <3> QED
      BY <3>1, <3>2, AdvancingFrame, LeaveEffect DEF Others
  <2>2. CASE Holds(w)
    <3>1. ref' = ref /\ attempt' = attempt /\ ref.attempt < attempt
      BY <1>4, <2>2, BeginEffect DEF MineIsRef
    <3>2. Advancing(w)'
      BY <1>4, <2>2, <3>1, BeginEffect DEF Advancing, Precedes, Calling, Current
    <3> QED
      BY <1>4, <2>2, <3>1, <3>2, AdvancingFrame, BeginEffect DEF Others
  <2> QED
    BY <2>1, <2>2
<1>5. ASSUME NEW w \in Workers, Prepare(w) PROVE PointersAdvance'
  <2>1. ref' = ref /\ attempt' = attempt /\ Others(w)
    BY <1>5, InTimeWrite, GotoEffect DEF Prepare
  <2>2. Advancing(w)'
    BY <1>5, <2>1, GotoEffect DEF Prepare, Keeps, Advancing, Precedes, OwnObject,
       ObjectOf, Calling
  <2> QED
    BY <2>1, <2>2, AdvancingFrame DEF Others
<1>6. ASSUME NEW w \in Workers, Save(w) PROVE PointersAdvance'
  <2>1. ref' = ref /\ attempt' = attempt /\ Others(w)
    BY <1>6, GotoEffect DEF Save
  <2>2. Advancing(w)'
    BY <1>6, <2>1, GotoEffect DEF Save, Keeps, Advancing, Precedes, OwnObject, ObjectOf,
       Calling
  <2> QED
    BY <2>1, <2>2, AdvancingFrame DEF Others
<1>7. ASSUME NEW w \in Workers, SaveUnavailable(w) PROVE PointersAdvance'
  <2>1. ref' = ref /\ attempt' = attempt /\ worker[w].mine = ref
    BY <1>7, SaveUnavailableEffect DEF MineIsRef, Working
  <2>2. Advancing(w)'
    BY <1>7, <2>1, SaveUnavailableEffect DEF Keeps, Advancing, Precedes, OwnObject,
       ObjectOf, Calling
  <2> QED
    BY <1>7, <2>1, <2>2, AdvancingFrame, SaveUnavailableEffect DEF Others
<1>8. ASSUME NEW w \in Workers, SkipSave(w) PROVE PointersAdvance'
  <2>1. ref' = ref /\ attempt' = attempt /\ Others(w)
    BY <1>8, GotoEffect DEF SkipSave
  <2>2. Advancing(w)'
    BY <1>8, <2>1, GotoEffect DEF SkipSave, Keeps, Advancing, Precedes, OwnObject,
       ObjectOf, Calling
  <2> QED
    BY <2>1, <2>2, AdvancingFrame DEF Others
<1>9. ASSUME NEW w \in Workers, Publish(w) PROVE PointersAdvance'
  <2>1. attempt' = attempt /\ ref'.attempt <= attempt
    BY <1>9, PublishEffect DEF Current, ObjectOf, OwnObject
  <2>2. Advancing(w)'
    <3>1. CASE worker'[w].phase = "failing"
      BY <3>1 DEF Advancing, Calling
    <3>2. CASE worker'[w].phase # "failing"
      <4>1. /\ worker'[w].phase = "replaced" /\ worker'[w].old = worker[w].mine
            /\ worker'[w].attempt = worker[w].attempt /\ worker'[w].turn = worker[w].turn
            /\ ref'.attempt = worker[w].attempt /\ ref'.turn = worker[w].turn
        BY <1>9, <3>2, PublishEffect DEF ObjectOf, OwnObject
      <4>2. Precedes(worker[w].mine, w)
        BY <1>9, PublishEffect DEF Advancing
      <4>3. Precedes(worker[w].old, w)' /\ ~Precedes(ref, w)'
        BY <4>1, <4>2 DEF Precedes
      <4> QED
        BY <4>1, <4>3 DEF Advancing, Calling
    <3> QED
      BY <3>1, <3>2
  <2>3. ASSUME NEW v \in Workers, v # w PROVE Advancing(v)'
    <3>1. CASE ref' = ref
      BY <1>9, <2>3, <3>1, AdvancingFrame, PublishEffect DEF Others
    <3>2. CASE ref'.status = "ready" /\ ObjectOf(ref') = OwnObject(w)
      <4>1. CASE worker[v].phase = "replaced"
        <5>1. worker[v].attempt < ref'.attempt
          BY <1>9, <2>3, <3>2, <4>1, PublishEffect, SMTT(30) DEF Current, ObjectOf, OwnObject
        <5> QED
          BY <1>9, <2>3, <5>1, AdvancingFrame, PublishEffect, TypeStep DEF Others
      <4>2. CASE worker[v].phase # "replaced"
        BY <1>9, <2>3, <4>2, AdvancingFrame, PublishEffect DEF Others
      <4> QED
        BY <4>1, <4>2
    <3> QED
      BY <1>9, <3>1, <3>2, PublishEffect
  <2> QED
    BY <2>1, <2>2, <2>3
<1>10. ASSUME NEW w \in Workers, DeleteOld(w) PROVE PointersAdvance'
  <2>1. ref' = ref /\ attempt' = attempt /\ Others(w)
    BY <1>10, GotoEffect DEF DeleteOld
  <2>2. Advancing(w)'
    BY <1>10, <2>1, GotoEffect DEF DeleteOld, OwnSnapshot, Keeps, Advancing, Precedes,
       OwnObject, ObjectOf, Calling
  <2> QED
    BY <2>1, <2>2, AdvancingFrame DEF Others
<1>11. ASSUME NEW w \in Workers, Mark(w) PROVE PointersAdvance'
  <2>1. CASE worker[w].durable
    <3>1. /\ worker[w].mine = ref /\ ref' = Marked(ref) /\ worker'[w].mine = ref'
          /\ ref.status = "ready"
      BY <1>11, <2>1, MarkEffect DEF MineIsRef, OwnSnapshot, Working
    <3>2. /\ ref'.attempt = ref.attempt /\ ref'.turn = ref.turn
          /\ ObjectOf(ref') = ObjectOf(ref) /\ attempt' = attempt
      BY <1>11, <3>1, MarkedRef, MarkEffect
    <3>3. Advancing(w)'
      BY <1>11, <3>1, <3>2, MarkEffect DEF Keeps, Advancing, Precedes, OwnObject,
         ObjectOf, Calling
    <3> QED
      BY <1>11, <3>1, <3>2, <3>3, AdvancingFrame, MarkEffect DEF Others
  <2>2. CASE ~worker[w].durable
    <3>1. ref' = ref /\ attempt' = attempt /\ worker'[w].mine = worker[w].mine
      BY <1>11, <2>2, MarkEffect
    <3>2. Advancing(w)'
      BY <1>11, <3>1, MarkEffect DEF Keeps, Advancing, Precedes, OwnObject, ObjectOf,
         Calling
    <3> QED
      BY <1>11, <3>1, <3>2, AdvancingFrame, MarkEffect DEF Others
  <2> QED
    BY <2>1, <2>2
<1>12. ASSUME NEW w \in Workers, CheckCall(w) PROVE PointersAdvance'
  <2>1. ref' = ref /\ attempt' = attempt /\ Others(w)
    BY <1>12, GotoEffect DEF CheckCall
  <2>2. Advancing(w)'
    BY <1>12, <2>1, GotoEffect DEF CheckCall, Keeps, Advancing, Precedes, OwnObject,
       ObjectOf, Calling
  <2> QED
    BY <2>1, <2>2, AdvancingFrame DEF Others
<1>13. ASSUME NEW w \in Workers, Dispatch(w) PROVE PointersAdvance'
  <2>1. ref' = ref /\ attempt' = attempt /\ Others(w)
    BY <1>13, InTimeWrite, GotoEffect DEF Dispatch
  <2>2. Advancing(w)'
    BY <1>13, <2>1, GotoEffect DEF Dispatch, Keeps, Advancing, Precedes, OwnObject,
       ObjectOf, Calling
  <2> QED
    BY <2>1, <2>2, AdvancingFrame DEF Others
<1>14. ASSUME NEW w \in Workers, EndTurn(w) PROVE PointersAdvance'
  <2>1. ref' = ref /\ attempt' = attempt /\ Others(w)
    BY <1>14, EndTurnEffect
  <2>2. Advancing(w)'
    <3>1. CASE worker'[w].phase = "failing"
      BY <3>1 DEF Advancing, Calling
    <3>2. CASE worker'[w].phase # "failing"
      <4>1. /\ worker'[w].phase = "turn" /\ worker'[w].mine = worker[w].mine
            /\ worker'[w].attempt = worker[w].attempt /\ worker'[w].turn = worker[w].turn + 1
        BY <1>14, <3>2, EndTurnEffect
      <4>2. \/ Precedes(worker[w].mine, w)
            \/ /\ worker[w].mine.attempt = worker[w].attempt
               /\ worker[w].mine.turn = worker[w].turn
        BY <1>14, EndTurnEffect DEF Advancing, Calling, ObjectOf, OwnObject
      <4>3. Precedes(worker[w].mine, w)'
        BY <4>1, <4>2 DEF Precedes
      <4> QED
        BY <4>1, <4>3 DEF Advancing, Calling
    <3> QED
      BY <3>1, <3>2
  <2> QED
    BY <2>1, <2>2, AdvancingFrame DEF Others
<1>15. ASSUME NEW w \in Workers, Succeed(w) PROVE PointersAdvance'
  <2>1. (ref' = ref \/ ref' = NoRef) /\ attempt' = attempt /\ Leave(w)
    BY <1>15 DEF Succeed
  <2>2. Advancing(w)'
    BY <2>1, LeaveEffect DEF Advancing, Calling
  <2> QED
    BY <2>1, <2>2, AdvancingFrame, LeaveEffect DEF Others, NoRef
<1>16. ASSUME NEW w \in Workers, Raise(w) PROVE PointersAdvance'
  <2>1. ref' = ref /\ attempt' = attempt /\ Others(w)
    BY <1>16, GotoEffect DEF Raise
  <2>2. Advancing(w)'
    BY <1>16, <2>1, GotoEffect DEF Raise, Keeps, Advancing, Precedes, OwnObject, ObjectOf,
       Calling
  <2> QED
    BY <2>1, <2>2, AdvancingFrame DEF Others
<1>17. ASSUME NEW w \in Workers, Fail(w) PROVE PointersAdvance'
  <2>1. ref' = ref /\ attempt' = attempt /\ Others(w)
    BY <1>17, LeaveEffect DEF Fail
  <2>2. Advancing(w)'
    BY <1>17, <2>1, LeaveEffect DEF Fail, Keeps, Advancing, Precedes, OwnObject, ObjectOf,
       Calling
  <2> QED
    BY <2>1, <2>2, AdvancingFrame DEF Others
<1>18. ASSUME NEW w \in Workers, LeaseLost(w) PROVE PointersAdvance'
  <2>1. ref' = ref /\ attempt' = attempt /\ Others(w)
    BY <1>18, LeaveEffect DEF LeaseLost
  <2>2. Advancing(w)'
    BY <1>18, <2>1, LeaveEffect DEF LeaseLost, Keeps, Advancing, Precedes, OwnObject,
       ObjectOf, Calling
  <2> QED
    BY <2>1, <2>2, AdvancingFrame DEF Others
<1>19. CASE LeaseExpires
  BY <1>19, AdvancingFrame DEF LeaseExpires
<1>20. CASE Recover
  BY <1>20, AdvancingFrame DEF Recover
<1>21. CASE Purge
  BY <1>21, AdvancingFrame DEF Purge, NoRef
<1>22. ASSUME NEW o \in Object, SweepOrphan(o) PROVE PointersAdvance'
  BY <1>22, AdvancingFrame DEF SweepOrphan
<1>23. CASE UNCHANGED vars
  BY <1>23 DEF vars, Advancing, Precedes, OwnObject, ObjectOf, Calling
<1> QED
  BY <1>1, <1>2, <1>3, <1>4, <1>5, <1>6, <1>7, <1>8, <1>9, <1>10, <1>11, <1>12, <1>13,
     <1>14, <1>15, <1>16, <1>17, <1>18, <1>19, <1>20, <1>21, <1>22, <1>23 DEF Next, WorkerStep

\* Neither a replacement nor the sweep takes an object that is needed.
LEMMA ObjectsKeptStep ==
    ASSUME TypeOK, AttemptsHeld, MineIsRef, OwnSnapshot, PointersAdvance, ObjectsKept,
           [Next]_vars, ~overwritten'
    PROVE  ObjectsKept'
<1> USE DEF TypeOK, AttemptsHeld, ObjectsKept, Current, Worker, Attempts, Turns, Ref
<1>1. ASSUME NEW w \in Workers, Claim(w) PROVE ObjectsKept'
  BY <1>1, ClaimEffect DEF Others, OwnObject
<1>2. ASSUME NEW w \in Workers, Heartbeat(w) PROVE ObjectsKept'
  BY <1>2 DEF Heartbeat, OwnObject
<1>3. ASSUME NEW w \in Workers, Crash(w) PROVE ObjectsKept'
  BY <1>3, LeaveEffect DEF Crash, Others, OwnObject
<1>4. ASSUME NEW w \in Workers, Begin(w) PROVE ObjectsKept'
  <2>1. CASE ~Holds(w)
    BY <1>4, <2>1, LeaveEffect DEF Begin, Others, OwnObject
  <2>2. CASE Holds(w)
    BY <1>4, <2>2, BeginEffect DEF Others, OwnObject
  <2> QED
    BY <2>1, <2>2
<1>5. ASSUME NEW w \in Workers, Prepare(w) PROVE ObjectsKept'
  <2>1. ref' = ref
    BY <1>5, InTimeWrite DEF Prepare
  <2> QED
    BY <1>5, <2>1, GotoEffect DEF Prepare, Others, Keeps, OwnObject
<1>6. ASSUME NEW w \in Workers, Save(w) PROVE ObjectsKept'
  <2>1. /\ ref' = ref /\ Others(w) /\ job' = job /\ attempt' = attempt
        /\ objects' = objects \cup {OwnObject(w)}
        /\ worker'[w].attempt = worker[w].attempt /\ worker'[w].turn = worker[w].turn
    BY <1>6, GotoEffect DEF Save, OwnObject, Keeps
  <2> QED
    BY <2>1 DEF Others, OwnObject
<1>7. ASSUME NEW w \in Workers, SaveUnavailable(w) PROVE ObjectsKept'
  BY <1>7, SaveUnavailableEffect DEF Others, Keeps, OwnObject
<1>8. ASSUME NEW w \in Workers, SkipSave(w) PROVE ObjectsKept'
  BY <1>8, GotoEffect DEF SkipSave, Others, Keeps, Holds, OwnObject
<1>9. ASSUME NEW w \in Workers, Publish(w) PROVE ObjectsKept'
  <2>1. OwnObject(w) \in objects
    BY <1>9, PublishEffect
  <2>2. ref'.status # "none" => ObjectOf(ref') \in objects'
    BY <1>9, <2>1, PublishEffect
  <2> QED
    BY <1>9, <2>2, PublishEffect DEF Others, OwnObject
<1>10. ASSUME NEW w \in Workers, DeleteOld(w) PROVE ObjectsKept'
  <2>1. ref' = ref /\ Others(w) /\ worker'[w].phase = "thinking" /\ job' = job /\ attempt' = attempt
    BY <1>10, GotoEffect DEF DeleteOld
  <2>2. ASSUME NEW o \in objects, o \notin objects'
        PROVE  worker[w].old.status # "none" /\ o = ObjectOf(worker[w].old)
    BY <1>10, <2>2 DEF DeleteOld, Superseded
  <2>3. Precedes(worker[w].old, w) /\ (ref.status = "none" \/ ~Precedes(ref, w))
    BY <1>10 DEF DeleteOld, PointersAdvance, Advancing
  <2>4. ref'.status # "none" => ObjectOf(ref') \in objects'
    BY <2>1, <2>2, <2>3 DEF ObjectOf, Precedes
  <2>5. ASSUME NEW v \in Workers, worker'[v].phase = "publishing", Current(v)'
        PROVE  OwnObject(v)' \in objects'
    <3>1. v # w /\ worker'[v] = worker[v] /\ Current(v)
      BY <2>1, <2>5 DEF Others
    <3>2. worker[w].phase = "replaced" /\ worker[v].phase = "publishing"
      BY <1>10, <2>5, <3>1 DEF DeleteOld
    <3>3. worker[w].attempt < worker[v].attempt
      <4>1. worker[w].attempt # worker[v].attempt /\ worker[w].attempt <= attempt
        BY <3>2, <3>1
      <4> QED
        BY <3>1, <4>1
    <3>4. OwnObject(v) \in objects /\ OwnObject(v) # ObjectOf(worker[w].old)
      BY <2>3, <2>5, <3>1, <3>3 DEF ObjectOf, OwnObject, Precedes
    <3> QED
      BY <2>2, <3>1, <3>4 DEF OwnObject
  <2> QED
    BY <2>4, <2>5
<1>11. ASSUME NEW w \in Workers, Mark(w) PROVE ObjectsKept'
  <2>1. ref'.status # "none" => ObjectOf(ref') \in objects'
    <3>1. CASE worker[w].durable
      BY <1>11, <3>1, MarkEffect, MarkedRef DEF MineIsRef, OwnSnapshot, Working
    <3>2. CASE ~worker[w].durable
      BY <1>11, <3>2, MarkEffect
    <3> QED
      BY <3>1, <3>2
  <2> QED
    BY <1>11, <2>1, MarkEffect DEF Others, OwnObject
<1>12. ASSUME NEW w \in Workers, CheckCall(w) PROVE ObjectsKept'
  BY <1>12, GotoEffect DEF CheckCall, Others, Keeps, Holds, OwnObject
<1>13. ASSUME NEW w \in Workers, Dispatch(w) PROVE ObjectsKept'
  <2>1. ref' = ref
    BY <1>13, InTimeWrite DEF Dispatch
  <2> QED
    BY <1>13, <2>1, GotoEffect DEF Dispatch, Others, Keeps, OwnObject
<1>14. ASSUME NEW w \in Workers, EndTurn(w) PROVE ObjectsKept'
  BY <1>14, EndTurnEffect DEF Others, OwnObject
<1>15. ASSUME NEW w \in Workers, Succeed(w) PROVE ObjectsKept'
  BY <1>15, LeaveEffect DEF Succeed, Others, Holds, NoRef, OwnObject
<1>16. ASSUME NEW w \in Workers, Raise(w) PROVE ObjectsKept'
  BY <1>16, GotoEffect DEF Raise, Others, Keeps, OwnObject
<1>17. ASSUME NEW w \in Workers, Fail(w) PROVE ObjectsKept'
  BY <1>17, LeaveEffect DEF Fail, Others, Holds, OwnObject
<1>18. ASSUME NEW w \in Workers, LeaseLost(w) PROVE ObjectsKept'
  BY <1>18, LeaveEffect DEF LeaseLost, Others, OwnObject
<1>19. CASE LeaseExpires
  BY <1>19 DEF LeaseExpires, OwnObject
<1>20. CASE Recover
  BY <1>20 DEF Recover, OwnObject
<1>21. CASE Purge
  BY <1>21 DEF Purge, NoRef
<1>22. ASSUME NEW o \in Object, SweepOrphan(o) PROVE ObjectsKept'
  BY <1>22 DEF SweepOrphan, OwnObject
<1>23. CASE UNCHANGED vars
  BY <1>23 DEF vars, OwnObject
<1> QED
  BY <1>1, <1>2, <1>3, <1>4, <1>5, <1>6, <1>7, <1>8, <1>9, <1>10, <1>11, <1>12, <1>13,
     <1>14, <1>15, <1>16, <1>17, <1>18, <1>19, <1>20, <1>21, <1>22, <1>23 DEF Next, WorkerStep

\* Nothing is queued, and nobody claims, while tools run under a snapshot.
LEMMA ToolsAreLastStep ==
    ASSUME TypeOK, AttemptsHeld, MineIsRef, OwnSnapshot, ToolsAreLast, [Next]_vars,
           ~overwritten'
    PROVE  ToolsAreLast'
<1> USE DEF TypeOK, AttemptsHeld, ToolsAreLast, Current, Calling, Worker, Attempts
<1>1. ASSUME NEW w \in Workers, Claim(w) PROVE ToolsAreLast'
  BY <1>1, ClaimEffect DEF Others
<1>2. ASSUME NEW w \in Workers, Heartbeat(w) PROVE ToolsAreLast'
  BY <1>2 DEF Heartbeat
<1>3. ASSUME NEW w \in Workers, Crash(w) PROVE ToolsAreLast'
  BY <1>3, LeaveEffect DEF Crash, Others
<1>4. ASSUME NEW w \in Workers, Begin(w) PROVE ToolsAreLast'
  <2>1. CASE ~Holds(w)
    BY <1>4, <2>1, LeaveEffect DEF Begin, Others
  <2>2. CASE Holds(w)
    BY <1>4, <2>2, BeginEffect DEF Others
  <2> QED
    BY <2>1, <2>2
<1>5. ASSUME NEW w \in Workers, Prepare(w) PROVE ToolsAreLast'
  <2>1. ref' = ref
    BY <1>5, InTimeWrite DEF Prepare
  <2> QED
    BY <1>5, <2>1, GotoEffect DEF Prepare, Others, Keeps
<1>6. ASSUME NEW w \in Workers, Save(w) PROVE ToolsAreLast'
  BY <1>6, GotoEffect DEF Save, Others, Keeps, Holds
<1>7. ASSUME NEW w \in Workers, SaveUnavailable(w) PROVE ToolsAreLast'
  BY <1>7, SaveUnavailableEffect DEF Others, Keeps
<1>8. ASSUME NEW w \in Workers, SkipSave(w) PROVE ToolsAreLast'
  BY <1>8, GotoEffect DEF SkipSave, Others, Keeps, Holds
<1>9. ASSUME NEW w \in Workers, Publish(w) PROVE ToolsAreLast'
  BY <1>9, PublishEffect DEF Others
<1>10. ASSUME NEW w \in Workers, DeleteOld(w) PROVE ToolsAreLast'
  BY <1>10, GotoEffect DEF DeleteOld, Others, Keeps
<1>11. ASSUME NEW w \in Workers, Mark(w) PROVE ToolsAreLast'
  BY <1>11, MarkEffect DEF Others, Keeps, Current
<1>12. ASSUME NEW w \in Workers, CheckCall(w) PROVE ToolsAreLast'
  BY <1>12, GotoEffect DEF CheckCall, Others, Keeps, Holds
<1>13. ASSUME NEW w \in Workers, Dispatch(w) PROVE ToolsAreLast'
  <2>1. ref' = ref
    BY <1>13, InTimeWrite DEF Dispatch
  <2> QED
    BY <1>13, <2>1, GotoEffect DEF Dispatch, Others, Keeps
<1>14. ASSUME NEW w \in Workers, EndTurn(w) PROVE ToolsAreLast'
  BY <1>14, EndTurnEffect DEF Others
<1>15. ASSUME NEW w \in Workers, Succeed(w) PROVE ToolsAreLast'
  BY <1>15, LeaveEffect DEF Succeed, Others, Holds
<1>16. ASSUME NEW w \in Workers, Raise(w) PROVE ToolsAreLast'
  BY <1>16, GotoEffect DEF Raise, Others, Keeps
<1>17. ASSUME NEW w \in Workers, Fail(w) PROVE ToolsAreLast'
  BY <1>17, LeaveEffect DEF Fail, Others, Holds
<1>18. ASSUME NEW w \in Workers, LeaseLost(w) PROVE ToolsAreLast'
  BY <1>18, LeaveEffect DEF LeaseLost, Others
<1>19. CASE LeaseExpires
  BY <1>19 DEF LeaseExpires
<1>20. CASE Recover
  BY <1>20 DEF Recover, MineIsRef, OwnSnapshot, Working, Uncertain
<1>21. CASE Purge
  BY <1>21 DEF Purge
<1>22. ASSUME NEW o \in Object, SweepOrphan(o) PROVE ToolsAreLast'
  BY <1>22 DEF SweepOrphan
<1>23. CASE UNCHANGED vars
  BY <1>23 DEF vars
<1> QED
  BY <1>1, <1>2, <1>3, <1>4, <1>5, <1>6, <1>7, <1>8, <1>9, <1>10, <1>11, <1>12, <1>13,
     <1>14, <1>15, <1>16, <1>17, <1>18, <1>19, <1>20, <1>21, <1>22, <1>23 DEF Next, WorkerStep

\* A queued job has no tool turn in flight.
LEMMA QueuedIsResumableStep ==
    ASSUME TypeOK, QueuedIsResumable, ~overwritten, [Next]_vars, ~overwritten'
    PROVE  QueuedIsResumable'
<1> USE DEF TypeOK, QueuedIsResumable
<1>1. ASSUME NEW w \in Workers, Claim(w) PROVE QueuedIsResumable'
  BY <1>1, ClaimEffect DEF Others
<1>2. ASSUME NEW w \in Workers, Heartbeat(w) PROVE QueuedIsResumable'
  BY <1>2 DEF Heartbeat
<1>3. ASSUME NEW w \in Workers, Crash(w) PROVE QueuedIsResumable'
  BY <1>3, LeaveEffect DEF Crash, Others
<1>4. ASSUME NEW w \in Workers, Begin(w) PROVE QueuedIsResumable'
  <2>1. CASE ~Holds(w)
    BY <1>4, <2>1, LeaveEffect DEF Begin, Others
  <2>2. CASE Holds(w)
    BY <1>4, <2>2, BeginEffect DEF Others
  <2> QED
    BY <2>1, <2>2
<1>5. ASSUME NEW w \in Workers, Prepare(w) PROVE QueuedIsResumable'
  <2>1. ref' = ref
    BY <1>5, InTimeWrite DEF Prepare
  <2> QED
    BY <1>5, <2>1, GotoEffect DEF Prepare, Others, Keeps
<1>6. ASSUME NEW w \in Workers, Save(w) PROVE QueuedIsResumable'
  BY <1>6, GotoEffect DEF Save, Others, Keeps, Holds
<1>7. ASSUME NEW w \in Workers, SaveUnavailable(w) PROVE QueuedIsResumable'
  BY <1>7, SaveUnavailableEffect DEF Others, Keeps
<1>8. ASSUME NEW w \in Workers, SkipSave(w) PROVE QueuedIsResumable'
  BY <1>8, GotoEffect DEF SkipSave, Others, Keeps, Holds
<1>9. ASSUME NEW w \in Workers, Publish(w) PROVE QueuedIsResumable'
  BY <1>9, PublishEffect DEF Others, Current
<1>10. ASSUME NEW w \in Workers, DeleteOld(w) PROVE QueuedIsResumable'
  BY <1>10, GotoEffect DEF DeleteOld, Others, Keeps
<1>11. ASSUME NEW w \in Workers, Mark(w) PROVE QueuedIsResumable'
  BY <1>11, MarkEffect DEF Others, Keeps, Current
<1>12. ASSUME NEW w \in Workers, CheckCall(w) PROVE QueuedIsResumable'
  BY <1>12, GotoEffect DEF CheckCall, Others, Keeps, Holds
<1>13. ASSUME NEW w \in Workers, Dispatch(w) PROVE QueuedIsResumable'
  <2>1. ref' = ref
    BY <1>13, InTimeWrite DEF Dispatch
  <2> QED
    BY <1>13, <2>1, GotoEffect DEF Dispatch, Others, Keeps
<1>14. ASSUME NEW w \in Workers, EndTurn(w) PROVE QueuedIsResumable'
  BY <1>14, EndTurnEffect DEF Others
<1>15. ASSUME NEW w \in Workers, Succeed(w) PROVE QueuedIsResumable'
  BY <1>15, LeaveEffect DEF Succeed, Others, Holds, NoRef
<1>16. ASSUME NEW w \in Workers, Raise(w) PROVE QueuedIsResumable'
  BY <1>16, GotoEffect DEF Raise, Others, Keeps
<1>17. ASSUME NEW w \in Workers, Fail(w) PROVE QueuedIsResumable'
  BY <1>17, LeaveEffect DEF Fail, Others, Holds
<1>18. ASSUME NEW w \in Workers, LeaseLost(w) PROVE QueuedIsResumable'
  BY <1>18, LeaveEffect DEF LeaseLost, Others
<1>19. CASE LeaseExpires
  BY <1>19 DEF LeaseExpires
<1>20. CASE Recover
  BY <1>20 DEF Recover, Uncertain
<1>21. CASE Purge
  BY <1>21 DEF Purge, NoRef
<1>22. ASSUME NEW o \in Object, SweepOrphan(o) PROVE QueuedIsResumable'
  BY <1>22 DEF SweepOrphan
<1>23. CASE UNCHANGED vars
  BY <1>23 DEF vars
<1> QED
  BY <1>1, <1>2, <1>3, <1>4, <1>5, <1>6, <1>7, <1>8, <1>9, <1>10, <1>11, <1>12, <1>13,
     <1>14, <1>15, <1>16, <1>17, <1>18, <1>19, <1>20, <1>21, <1>22, <1>23 DEF Next, WorkerStep

\* What a call leaves behind in the history.
LEMMA DispatchEffect ==
    ASSUME TypeOK, NEW w \in Workers, Dispatch(w), NEW e \in executed', e \notin executed
    PROVE  /\ e.attempt = worker[w].attempt
           /\ e.turn = worker[w].turn
           /\ e.durable = worker[w].durable
BY DEF Dispatch

LEMMA AheadOfFrame ==
    ASSUME NEW v \in Workers, worker'[v] = worker[v], NEW e, AheadOf(v, e)
    PROVE  AheadOf(v, e)'
BY DEF AheadOf

\* Every attempt stays ahead of what was started before it.
LEMMA TurnsAheadStep ==
    ASSUME TypeOK, AttemptsHeld, OwnSnapshot, TurnsAhead, ToolsAreLast, RefIsAhead,
           [Next]_vars, ~overwritten'
    PROVE  TurnsAhead'
<1> USE DEF TypeOK, AttemptsHeld, TurnsAhead, Worker, Attempts, Turns, Execution
<1>1. ASSUME NEW w \in Workers, Claim(w) PROVE TurnsAhead'
  <2>1. executed' = executed /\ attempt' = attempt + 1 /\ Others(w)
    BY <1>1, ClaimEffect
  <2>2. ASSUME NEW e \in executed PROVE e.attempt <= attempt + 1 /\ e.attempt # attempt + 1
    BY DEF Execution
  <2>3. ASSUME NEW e \in executed PROVE AheadOf(w, e)'
    BY <1>1, <2>2, ClaimEffect DEF AheadOf, Working, Calling
  <2> QED
    BY <2>1, <2>2, <2>3, AheadOfFrame DEF Others
<1>2. ASSUME NEW w \in Workers, Heartbeat(w) PROVE TurnsAhead'
  BY <1>2, AheadOfFrame DEF Heartbeat
<1>3. ASSUME NEW w \in Workers, Crash(w) PROVE TurnsAhead'
  <2>1. executed' = executed /\ attempt' = attempt /\ Others(w)
    BY <1>3, LeaveEffect DEF Crash
  <2>2. ASSUME NEW e \in executed PROVE AheadOf(w, e)'
    BY <1>3, LeaveEffect DEF Crash, Keeps, AheadOf, Working, Calling
  <2> QED
    BY <2>1, <2>2, AheadOfFrame DEF Others
<1>4. ASSUME NEW w \in Workers, Begin(w) PROVE TurnsAhead'
  <2>1. CASE ~Holds(w)
    <3>1. executed' = executed /\ attempt' = attempt /\ Leave(w)
      BY <1>4, <2>1 DEF Begin
    <3>2. ASSUME NEW e \in executed PROVE AheadOf(w, e)'
      BY <3>1, LeaveEffect DEF AheadOf, Working, Calling
    <3> QED
      BY <3>1, <3>2, AheadOfFrame, LeaveEffect DEF Others
  <2>2. CASE Holds(w)
    <3>1. executed' = executed /\ attempt' = attempt /\ Others(w)
      BY <1>4, <2>2, BeginEffect
    <3>2. ASSUME NEW e \in executed PROVE AheadOf(w, e)'
      <4>1. CASE worker'[w].phase = "failing"
        BY <4>1 DEF AheadOf, Working, Calling
      <4>2. CASE worker'[w].phase = "preparing"
        <5>1. e.attempt # worker'[w].attempt
          BY <1>4, <2>2, BeginEffect DEF AheadOf
        <5>2. e.durable => ref.status = "ready" /\ e.turn < ref.turn
          BY <1>4, <2>2, <4>2, BeginEffect DEF RefIsAhead, Current, Ref
        <5>3. e.durable => e.turn < worker'[w].turn
          BY <1>4, <2>2, <5>2, BeginEffect
        <5> QED
          BY <4>2, <5>1, <5>3 DEF AheadOf
      <4> QED
        BY <1>4, <2>2, <4>1, <4>2, BeginEffect
    <3> QED
      BY <3>1, <3>2, AheadOfFrame DEF Others
  <2> QED
    BY <2>1, <2>2
<1>5. ASSUME NEW w \in Workers, Prepare(w) PROVE TurnsAhead'
  <2>1. executed' = executed /\ attempt' = attempt /\ Others(w)
    BY <1>5, GotoEffect DEF Prepare
  <2>2. ASSUME NEW e \in executed PROVE AheadOf(w, e)'
    BY <1>5, GotoEffect DEF Prepare, Keeps, AheadOf, Working, Calling
  <2> QED
    BY <2>1, <2>2, AheadOfFrame DEF Others
<1>6. ASSUME NEW w \in Workers, Save(w) PROVE TurnsAhead'
  <2>1. executed' = executed /\ attempt' = attempt /\ Others(w)
    BY <1>6, GotoEffect DEF Save
  <2>2. ASSUME NEW e \in executed PROVE AheadOf(w, e)'
    BY <1>6, GotoEffect DEF Save, Keeps, AheadOf, Working, Calling
  <2> QED
    BY <2>1, <2>2, AheadOfFrame DEF Others
<1>7. ASSUME NEW w \in Workers, SaveUnavailable(w) PROVE TurnsAhead'
  <2>1. executed' = executed /\ attempt' = attempt /\ Others(w)
    BY <1>7, SaveUnavailableEffect
  <2>2. ASSUME NEW e \in executed PROVE AheadOf(w, e)'
    BY <1>7, SaveUnavailableEffect DEF Keeps, AheadOf, Working, Calling
  <2> QED
    BY <2>1, <2>2, AheadOfFrame DEF Others
<1>8. ASSUME NEW w \in Workers, SkipSave(w) PROVE TurnsAhead'
  <2>1. executed' = executed /\ attempt' = attempt /\ Others(w)
    BY <1>8, GotoEffect DEF SkipSave
  <2>2. ASSUME NEW e \in executed PROVE AheadOf(w, e)'
    BY <1>8, GotoEffect DEF SkipSave, Keeps, AheadOf, Working, Calling
  <2> QED
    BY <2>1, <2>2, AheadOfFrame DEF Others
<1>9. ASSUME NEW w \in Workers, Publish(w) PROVE TurnsAhead'
  <2>1. executed' = executed /\ attempt' = attempt /\ Others(w)
    BY <1>9, PublishEffect
  <2>2. ASSUME NEW e \in executed PROVE AheadOf(w, e)'
    BY <1>9, PublishEffect DEF Keeps, AheadOf, Working, Calling
  <2> QED
    BY <2>1, <2>2, AheadOfFrame DEF Others
<1>10. ASSUME NEW w \in Workers, DeleteOld(w) PROVE TurnsAhead'
  <2>1. executed' = executed /\ attempt' = attempt /\ Others(w)
    BY <1>10, GotoEffect DEF DeleteOld
  <2>2. ASSUME NEW e \in executed PROVE AheadOf(w, e)'
    BY <1>10, GotoEffect DEF DeleteOld, Keeps, AheadOf, Working, Calling
  <2> QED
    BY <2>1, <2>2, AheadOfFrame DEF Others
<1>11. ASSUME NEW w \in Workers, Mark(w) PROVE TurnsAhead'
  <2>1. executed' = executed /\ attempt' = attempt /\ Others(w)
    BY <1>11, MarkEffect
  <2>2. ASSUME NEW e \in executed PROVE AheadOf(w, e)'
    BY <1>11, MarkEffect DEF Keeps, AheadOf, Working, Calling
  <2> QED
    BY <2>1, <2>2, AheadOfFrame DEF Others
<1>12. ASSUME NEW w \in Workers, CheckCall(w) PROVE TurnsAhead'
  <2>1. executed' = executed /\ attempt' = attempt /\ Others(w)
    BY <1>12, GotoEffect DEF CheckCall
  <2>2. ASSUME NEW e \in executed PROVE AheadOf(w, e)'
    BY <1>12, GotoEffect DEF CheckCall, Keeps, AheadOf, Working, Calling
  <2> QED
    BY <2>1, <2>2, AheadOfFrame DEF Others
<1>13. ASSUME NEW w \in Workers, Dispatch(w) PROVE TurnsAhead'
  <2>1. /\ attempt' = attempt /\ Others(w) /\ Keeps(w)
        /\ worker[w].phase = "dispatching" /\ worker'[w].phase = "tools"
    BY <1>13, GotoEffect DEF Dispatch
  <2>2. ASSUME NEW e \in executed' PROVE e.attempt <= attempt
    BY <1>13, <2>1, DispatchEffect
  <2>3. ASSUME NEW e \in executed' PROVE AheadOf(w, e)'
    <3>1. CASE e \in executed
      BY <2>1, <3>1 DEF Keeps, AheadOf, Working, Calling
    <3>2. CASE e \notin executed
      BY <1>13, <2>1, <3>2, DispatchEffect DEF Keeps, AheadOf, Working, Calling
    <3> QED
      BY <3>1, <3>2
  <2>4. ASSUME NEW v \in Workers, v # w, NEW e \in executed' PROVE AheadOf(v, e)'
    <3>1. CASE e \in executed
      BY <2>1, <2>4, <3>1, AheadOfFrame DEF Others
    <3>2. CASE e \notin executed
      <4>1. worker[v].phase # "idle" => e.attempt # worker[v].attempt
        BY <1>13, <2>1, <2>4, <3>2, DispatchEffect
      <4>2. worker[v].phase # "idle" /\ e.durable => ~(e.attempt < worker[v].attempt)
        BY <1>13, <2>1, <2>4, <3>2, DispatchEffect DEF ToolsAreLast, Calling
      <4> QED
        BY <2>1, <2>4, <4>1, <4>2 DEF Others, AheadOf, Working, Calling
    <3> QED
      BY <3>1, <3>2
  <2> QED
    BY <2>1, <2>2, <2>3, <2>4
<1>14. ASSUME NEW w \in Workers, EndTurn(w) PROVE TurnsAhead'
  <2>1. executed' = executed /\ attempt' = attempt /\ Others(w)
    BY <1>14, EndTurnEffect
  <2>2. ASSUME NEW e \in executed PROVE AheadOf(w, e)'
    BY <1>14, EndTurnEffect DEF Keeps, AheadOf, Working, Calling
  <2> QED
    BY <2>1, <2>2, AheadOfFrame DEF Others
<1>15. ASSUME NEW w \in Workers, Succeed(w) PROVE TurnsAhead'
  <2>1. executed' = executed /\ attempt' = attempt /\ Others(w)
    BY <1>15, LeaveEffect DEF Succeed
  <2>2. ASSUME NEW e \in executed PROVE AheadOf(w, e)'
    BY <1>15, LeaveEffect DEF Succeed, Keeps, AheadOf, Working, Calling
  <2> QED
    BY <2>1, <2>2, AheadOfFrame DEF Others
<1>16. ASSUME NEW w \in Workers, Raise(w) PROVE TurnsAhead'
  <2>1. executed' = executed /\ attempt' = attempt /\ Others(w)
    BY <1>16, GotoEffect DEF Raise
  <2>2. ASSUME NEW e \in executed PROVE AheadOf(w, e)'
    BY <1>16, GotoEffect DEF Raise, Keeps, AheadOf, Working, Calling
  <2> QED
    BY <2>1, <2>2, AheadOfFrame DEF Others
<1>17. ASSUME NEW w \in Workers, Fail(w) PROVE TurnsAhead'
  <2>1. executed' = executed /\ attempt' = attempt /\ Others(w)
    BY <1>17, LeaveEffect DEF Fail
  <2>2. ASSUME NEW e \in executed PROVE AheadOf(w, e)'
    BY <1>17, LeaveEffect DEF Fail, Keeps, AheadOf, Working, Calling
  <2> QED
    BY <2>1, <2>2, AheadOfFrame DEF Others
<1>18. ASSUME NEW w \in Workers, LeaseLost(w) PROVE TurnsAhead'
  <2>1. executed' = executed /\ attempt' = attempt /\ Others(w)
    BY <1>18, LeaveEffect DEF LeaseLost
  <2>2. ASSUME NEW e \in executed PROVE AheadOf(w, e)'
    BY <1>18, LeaveEffect DEF LeaseLost, Keeps, AheadOf, Working, Calling
  <2> QED
    BY <2>1, <2>2, AheadOfFrame DEF Others
<1>19. CASE LeaseExpires
  BY <1>19, AheadOfFrame DEF LeaseExpires
<1>20. CASE Recover
  BY <1>20, AheadOfFrame DEF Recover
<1>21. CASE Purge
  BY <1>21, AheadOfFrame DEF Purge
<1>22. ASSUME NEW o \in Object, SweepOrphan(o) PROVE TurnsAhead'
  BY <1>22, AheadOfFrame DEF SweepOrphan
<1>23. CASE UNCHANGED vars
  BY <1>23 DEF vars, AheadOf, Working, Calling
<1> QED
  BY <1>1, <1>2, <1>3, <1>4, <1>5, <1>6, <1>7, <1>8, <1>9, <1>10, <1>11, <1>12, <1>13,
     <1>14, <1>15, <1>16, <1>17, <1>18, <1>19, <1>20, <1>21, <1>22, <1>23 DEF Next, WorkerStep

\* A snapshot that may be resumed stays ahead of what was started.
LEMMA RefIsAheadStep ==
    ASSUME TypeOK, AttemptsHeld, MineIsRef, OwnSnapshot, TurnsAhead, ToolsAreLast,
           RefIsAhead, [Next]_vars, ~overwritten'
    PROVE  RefIsAhead'
<1> USE DEF TypeOK, AttemptsHeld, RefIsAhead, Worker, Attempts, Turns, Execution
<1>1. ASSUME NEW w \in Workers, Claim(w) PROVE RefIsAhead'
  BY <1>1, ClaimEffect DEF Others
<1>2. ASSUME NEW w \in Workers, Heartbeat(w) PROVE RefIsAhead'
  BY <1>2 DEF Heartbeat
<1>3. ASSUME NEW w \in Workers, Crash(w) PROVE RefIsAhead'
  BY <1>3, LeaveEffect DEF Crash, Others
<1>4. ASSUME NEW w \in Workers, Begin(w) PROVE RefIsAhead'
  <2>1. CASE ~Holds(w)
    BY <1>4, <2>1, LeaveEffect DEF Begin, Others
  <2>2. CASE Holds(w)
    BY <1>4, <2>2, BeginEffect DEF Others
  <2> QED
    BY <2>1, <2>2
<1>5. ASSUME NEW w \in Workers, Prepare(w) PROVE RefIsAhead'
  <2>1. ref' = ref
    BY <1>5, InTimeWrite DEF Prepare
  <2> QED
    BY <1>5, <2>1, GotoEffect DEF Prepare, Others, Keeps
<1>6. ASSUME NEW w \in Workers, Save(w) PROVE RefIsAhead'
  BY <1>6, GotoEffect DEF Save, Others, Keeps, Holds
<1>7. ASSUME NEW w \in Workers, SaveUnavailable(w) PROVE RefIsAhead'
  BY <1>7, SaveUnavailableEffect DEF Others, Keeps
<1>8. ASSUME NEW w \in Workers, SkipSave(w) PROVE RefIsAhead'
  BY <1>8, GotoEffect DEF SkipSave, Others, Keeps, Holds
<1>9. ASSUME NEW w \in Workers, Publish(w) PROVE RefIsAhead'
  <2>1. CASE ref' = ref
    BY <1>9, <2>1, PublishEffect
  <2>2. CASE ref'.status = "ready" /\ ObjectOf(ref') = OwnObject(w)
    <3>1. ref'.turn = worker[w].turn
      BY <2>2 DEF ObjectOf, OwnObject
    <3>2. ASSUME NEW e \in executed, e.durable PROVE e.turn < worker[w].turn
      BY <1>9, <3>2, PublishEffect DEF TurnsAhead, Current, AheadOf, Working, Calling
    <3> QED
      BY <1>9, <2>2, <3>1, <3>2, PublishEffect
  <2> QED
    BY <1>9, <2>1, <2>2, PublishEffect
<1>10. ASSUME NEW w \in Workers, DeleteOld(w) PROVE RefIsAhead'
  BY <1>10, GotoEffect DEF DeleteOld, Others, Keeps
<1>11. ASSUME NEW w \in Workers, Mark(w) PROVE RefIsAhead'
  <2>1. CASE worker[w].durable
    <3>1. ref'.status = "in_flight"
      BY <1>11, <2>1, MarkEffect, MarkedRef DEF OwnSnapshot
    <3> QED
      BY <1>11, <3>1, MarkEffect
  <2>2. CASE ~worker[w].durable
    BY <1>11, <2>2, MarkEffect
  <2> QED
    BY <2>1, <2>2
<1>12. ASSUME NEW w \in Workers, CheckCall(w) PROVE RefIsAhead'
  BY <1>12, GotoEffect DEF CheckCall, Others, Keeps, Holds
<1>13. ASSUME NEW w \in Workers, Dispatch(w) PROVE RefIsAhead'
  <2>1. ref' = ref /\ job' = job
    BY <1>13, InTimeWrite DEF Dispatch
  <2>2. ASSUME NEW e \in executed', e \notin executed, e.durable, job # "ended"
        PROVE  ref.status = "in_flight"
    <3>1. worker[w].durable /\ worker[w].phase = "dispatching"
      BY <1>13, <2>2, DispatchEffect DEF Dispatch
    <3>2. Current(w)
      BY <2>2, <3>1 DEF ToolsAreLast, Calling, Current, JobStatus
    <3> QED
      BY <3>1, <3>2 DEF MineIsRef, OwnSnapshot, Working, Calling
  <2> QED
    BY <2>1, <2>2
<1>14. ASSUME NEW w \in Workers, EndTurn(w) PROVE RefIsAhead'
  BY <1>14, EndTurnEffect DEF Others
<1>15. ASSUME NEW w \in Workers, Succeed(w) PROVE RefIsAhead'
  BY <1>15, LeaveEffect DEF Succeed, Others, Holds
<1>16. ASSUME NEW w \in Workers, Raise(w) PROVE RefIsAhead'
  BY <1>16, GotoEffect DEF Raise, Others, Keeps
<1>17. ASSUME NEW w \in Workers, Fail(w) PROVE RefIsAhead'
  BY <1>17, LeaveEffect DEF Fail, Others, Holds
<1>18. ASSUME NEW w \in Workers, LeaseLost(w) PROVE RefIsAhead'
  BY <1>18, LeaveEffect DEF LeaseLost, Others
<1>19. CASE LeaseExpires
  BY <1>19 DEF LeaseExpires
<1>20. CASE Recover
  BY <1>20 DEF Recover
<1>21. CASE Purge
  BY <1>21 DEF Purge
<1>22. ASSUME NEW o \in Object, SweepOrphan(o) PROVE RefIsAhead'
  BY <1>22 DEF SweepOrphan
<1>23. CASE UNCHANGED vars
  BY <1>23 DEF vars
<1> QED
  BY <1>1, <1>2, <1>3, <1>4, <1>5, <1>6, <1>7, <1>8, <1>9, <1>10, <1>11, <1>12, <1>13,
     <1>14, <1>15, <1>16, <1>17, <1>18, <1>19, <1>20, <1>21, <1>22, <1>23 DEF Next, WorkerStep

\* A call is made for a turn that nobody has started before.
LEMMA NeverReplayedStep ==
    ASSUME TypeOK, TurnsAhead, ToolsAreLast, NeverReplayed, ~overwritten, [Next]_vars,
           ~overwritten'
    PROVE  NeverReplayed'
<1> USE DEF TypeOK, NeverReplayed, Worker, Attempts, Turns, Execution
<1>1. ASSUME NEW w \in Workers, Claim(w) PROVE NeverReplayed'
  BY <1>1, ClaimEffect DEF Others
<1>2. ASSUME NEW w \in Workers, Heartbeat(w) PROVE NeverReplayed'
  BY <1>2 DEF Heartbeat
<1>3. ASSUME NEW w \in Workers, Crash(w) PROVE NeverReplayed'
  BY <1>3, LeaveEffect DEF Crash, Others
<1>4. ASSUME NEW w \in Workers, Begin(w) PROVE NeverReplayed'
  <2>1. CASE ~Holds(w)
    BY <1>4, <2>1, LeaveEffect DEF Begin, Others
  <2>2. CASE Holds(w)
    BY <1>4, <2>2, BeginEffect DEF Others
  <2> QED
    BY <2>1, <2>2
<1>5. ASSUME NEW w \in Workers, Prepare(w) PROVE NeverReplayed'
  <2>1. ref' = ref
    BY <1>5, InTimeWrite DEF Prepare
  <2> QED
    BY <1>5, <2>1, GotoEffect DEF Prepare, Others, Keeps
<1>6. ASSUME NEW w \in Workers, Save(w) PROVE NeverReplayed'
  BY <1>6, GotoEffect DEF Save, Others, Keeps, Holds
<1>7. ASSUME NEW w \in Workers, SaveUnavailable(w) PROVE NeverReplayed'
  BY <1>7, SaveUnavailableEffect DEF Others, Keeps
<1>8. ASSUME NEW w \in Workers, SkipSave(w) PROVE NeverReplayed'
  BY <1>8, GotoEffect DEF SkipSave, Others, Keeps, Holds
<1>9. ASSUME NEW w \in Workers, Publish(w) PROVE NeverReplayed'
  BY <1>9, PublishEffect DEF Others
<1>10. ASSUME NEW w \in Workers, DeleteOld(w) PROVE NeverReplayed'
  BY <1>10, GotoEffect DEF DeleteOld, Others, Keeps
<1>11. ASSUME NEW w \in Workers, Mark(w) PROVE NeverReplayed'
  BY <1>11, MarkEffect DEF Others, Keeps
<1>12. ASSUME NEW w \in Workers, CheckCall(w) PROVE NeverReplayed'
  BY <1>12, GotoEffect DEF CheckCall, Others, Keeps, Holds
<1>13. ASSUME NEW w \in Workers, Dispatch(w) PROVE NeverReplayed'
  <2> SUFFICES ASSUME NEW e \in executed', NEW f \in executed',
                      e.durable, e.attempt < f.attempt
               PROVE  e.turn < f.turn
    OBVIOUS
  <2>1. CASE e \in executed /\ f \in executed
    BY <2>1
  <2>2. CASE e \in executed /\ f \notin executed
    BY <1>13, <2>2, DispatchEffect DEF TurnsAhead, AheadOf, Working, Dispatch
  <2>3. CASE e \notin executed /\ f \in executed
    <3>1. e.attempt = attempt
      BY <1>13, <2>3, DispatchEffect DEF ToolsAreLast, Calling, Dispatch
    <3>2. f.attempt <= attempt
      BY <2>3 DEF TurnsAhead
    <3> QED
      BY <2>3, <3>1, <3>2 DEF Execution
  <2>4. CASE e \notin executed /\ f \notin executed
    BY <1>13, <2>4, DispatchEffect
  <2> QED
    BY <2>1, <2>2, <2>3, <2>4
<1>14. ASSUME NEW w \in Workers, EndTurn(w) PROVE NeverReplayed'
  BY <1>14, EndTurnEffect DEF Others
<1>15. ASSUME NEW w \in Workers, Succeed(w) PROVE NeverReplayed'
  BY <1>15, LeaveEffect DEF Succeed, Others, Holds
<1>16. ASSUME NEW w \in Workers, Raise(w) PROVE NeverReplayed'
  BY <1>16, GotoEffect DEF Raise, Others, Keeps
<1>17. ASSUME NEW w \in Workers, Fail(w) PROVE NeverReplayed'
  BY <1>17, LeaveEffect DEF Fail, Others, Holds
<1>18. ASSUME NEW w \in Workers, LeaseLost(w) PROVE NeverReplayed'
  BY <1>18, LeaveEffect DEF LeaseLost, Others
<1>19. CASE LeaseExpires
  BY <1>19 DEF LeaseExpires
<1>20. CASE Recover
  BY <1>20 DEF Recover
<1>21. CASE Purge
  BY <1>21 DEF Purge
<1>22. ASSUME NEW o \in Object, SweepOrphan(o) PROVE NeverReplayed'
  BY <1>22 DEF SweepOrphan
<1>23. CASE UNCHANGED vars
  BY <1>23 DEF vars
<1> QED
  BY <1>1, <1>2, <1>3, <1>4, <1>5, <1>6, <1>7, <1>8, <1>9, <1>10, <1>11, <1>12, <1>13,
     <1>14, <1>15, <1>16, <1>17, <1>18, <1>19, <1>20, <1>21, <1>22, <1>23 DEF Next, WorkerStep

-----------------------------------------------------------------------------
LEMMA InvInit == Init => CheckpointInv
<1> SUFFICES ASSUME Init PROVE CheckpointInv
  OBVIOUS
<1>1. TypeOK
  BY TypeInit
<1>2. /\ \A w \in Workers : worker[w].phase = "idle"
      /\ executed = {} /\ ref.status = "none" /\ ref.attempt = 0 /\ attempt = 0
  BY DEF Init, Idle, NoRef
<1>3. AttemptsHeld /\ MineIsRef /\ OwnSnapshot /\ PointersAdvance
  BY <1>2 DEF AttemptsHeld, MineIsRef, OwnSnapshot, PointersAdvance, Advancing, Working,
     Calling
<1>4. ObjectsKept /\ TurnsAhead /\ ToolsAreLast /\ RefIsAhead
  BY <1>2 DEF ObjectsKept, TurnsAhead, ToolsAreLast, RefIsAhead, Calling
<1>5. NeverReplayed /\ QueuedIsResumable
  BY <1>2 DEF NeverReplayed, QueuedIsResumable
<1> QED
  BY <1>1, <1>3, <1>4, <1>5 DEF CheckpointInv

LEMMA InvStep == CheckpointInv /\ [Next]_vars => CheckpointInv'
<1> SUFFICES ASSUME CheckpointInv, [Next]_vars PROVE CheckpointInv'
  OBVIOUS
<1>1. TypeOK' /\ AttemptsHeld'
  BY TypeStep, AttemptsHeldStep DEF CheckpointInv
<1>2. ASSUME ~overwritten'
      PROVE  /\ MineIsRef' /\ OwnSnapshot' /\ PointersAdvance' /\ ObjectsKept'
             /\ TurnsAhead' /\ ToolsAreLast' /\ RefIsAhead'
             /\ NeverReplayed' /\ QueuedIsResumable'
  <2>1. /\ ~overwritten
        /\ TypeOK /\ AttemptsHeld
        /\ MineIsRef /\ OwnSnapshot /\ PointersAdvance /\ ObjectsKept
        /\ TurnsAhead /\ ToolsAreLast /\ RefIsAhead
        /\ NeverReplayed /\ QueuedIsResumable
    BY <1>2, OverwrittenStays DEF CheckpointInv
  <2>2. MineIsRef' /\ OwnSnapshot' /\ PointersAdvance' /\ ObjectsKept'
    BY <1>2, <2>1, MineIsRefStep, OwnSnapshotStep, PointersAdvanceStep, ObjectsKeptStep
  <2>3. TurnsAhead' /\ ToolsAreLast' /\ RefIsAhead'
    BY <1>2, <2>1, TurnsAheadStep, ToolsAreLastStep, RefIsAheadStep
  <2>4. NeverReplayed' /\ QueuedIsResumable'
    BY <1>2, <2>1, NeverReplayedStep, QueuedIsResumableStep
  <2> QED
    BY <2>2, <2>3, <2>4
<1> QED
  BY <1>1, <1>2 DEF CheckpointInv

-----------------------------------------------------------------------------
\* The inductive invariant of the pointer, the objects and the attempts
\* (sandbox_worker.py, sandbox_agent_loop.py, durable_checkpoint.py) holds.
THEOREM CheckpointInvariant == Spec => []CheckpointInv
<1>1. Init => CheckpointInv
  BY InvInit
<1>2. CheckpointInv /\ [Next]_vars => CheckpointInv'
  BY InvStep
<1> QED
  BY <1>1, <1>2, PTL DEF Spec

\* Type correctness; in particular no turn passes sandbox_max_agent_turns.
THEOREM CheckpointTypeCorrect == Spec => []TypeOK
<1>1. CheckpointInv => TypeOK
  BY DEF CheckpointInv
<1> QED
  BY <1>1, CheckpointInvariant, PTL

\* save_checkpoint and mark_inflight keep what load_bundle relies on: a tool
\* turn that was started under a snapshot is not started by a later attempt.
THEOREM ToolsNeverReplayed == Spec => []NeverReplayed
<1>1. CheckpointInv => NeverReplayed
  BY DEF CheckpointInv, NeverReplayed
<1> QED
  BY <1>1, CheckpointInvariant, PTL

\* The object the pointer names is in the storage, whatever save_checkpoint
\* replaces and cleanup_expired_storage sweeps.
THEOREM SnapshotSurvives == Spec => []SnapshotKept
<1>1. CheckpointInv => SnapshotKept
  BY DEF CheckpointInv, SnapshotKept, ObjectsKept
<1> QED
  BY <1>1, CheckpointInvariant, PTL

\* recover_interrupted_sandbox_jobs queues no job with a tool turn in flight.
THEOREM RecoveryIsSafe == Spec => []QueuedIsResumable
<1>1. CheckpointInv => QueuedIsResumable
  BY DEF CheckpointInv, QueuedIsResumable
<1> QED
  BY <1>1, CheckpointInvariant, PTL
=============================================================================
