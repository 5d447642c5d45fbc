--------------------------- MODULE RunAndJobProofs ----------------------------
(***************************************************************************)
(* Theorems about the two ways instructions are executed over the API.     *)
(*                                                                         *)
(* ConversationRuns, for any number of requests and runs and however long  *)
(* calls last: only runs that outlive the lock, or begin beside one that   *)
(* has, overlap; any other is one step of ConversationPromise.             *)
(*                                                                         *)
(* JobSubmission, for any number of jobs and keys: the events of a job are *)
(* numbered without gaps up to its end, a key answers with one job, a      *)
(* deleted job stays deleted, and the handlers, each of several steps,     *)
(* implement SubmissionPromise, in which each is one.                      *)
(***************************************************************************)
EXTENDS ConversationRuns, JobSubmission, TLAPS

\* What is known of the state before every step.
Base == TypeOK /\ RunsNumbered /\ RecordedWereClaimed

Request == [phase : Phase, run : 0 .. MaxRuns]

Row == [exists : BOOLEAN, running : BOOLEAN, fresh : BOOLEAN]

\* The next-state relation action by action.
LEMMA NextCases ==
    ASSUME [Next]_vars
    PROVE  \/ \E r \in Requests :
                 \/ Claim(r) \/ ReadContext(r)
                 \/ \E outcome \in {"succeeded", "failed"} : CallEnds(r, outcome)
                 \/ Record(r) \/ Release(r) \/ Abandon(r)
                 \/ \E change \in {"clearing", "deleting"} : Check(r, change)
                 \/ Clear(r) \/ Delete(r)
           \/ LockGoesStale
           \/ UNCHANGED vars
BY DEF Next, Proceed

LEMMA AtWorkIsRuns ==
    ASSUME Base
    PROVE  /\ AtWork \subseteq Runs /\ AtWork \cap messages = {}
           /\ \A r \in Requests : req[r].phase \in Running => req[r].run \in AtWork
BY DEF Base, RunsNumbered, AtWork

LEMMA GotoEffect ==
    ASSUME Base, NEW r \in Requests, NEW phase \in Phase, Goto(r, phase),
           phase \in Running => req[r].phase \in Running
    PROVE  /\ req' \in [Requests -> Request]
           /\ req'[r].phase = phase /\ req'[r].run = req[r].run
           /\ \A s \in Requests \ {r} : req'[s] = req[s]
BY DEF Base, TypeOK, Goto, Request

LEMMA LeaveEffect ==
    ASSUME Base, NEW r \in Requests, Leave(r)
    PROVE  /\ req' \in [Requests -> Request]
           /\ req'[r].phase = "idle"
           /\ \A s \in Requests \ {r} : req'[s] = req[s]
           /\ \A s \in Requests : req'[s].phase \in Running => s # r /\ req'[s] = req[s]
<1>1. Idle \in Request /\ Idle.phase = "idle"
  BY ConversationAssumption DEF Idle, Request, Phase
<1> QED
  BY <1>1 DEF Base, TypeOK, Leave, Request, Running

LEMMA ClaimEffect ==
    ASSUME Base, NEW r \in Requests, Claim(r)
    PROVE  /\ claims' = claims + 1 /\ claims' \in Runs /\ claims \in Nat
           /\ req' \in [Requests -> Request]
           /\ req'[r].phase = "claimed" /\ req'[r].run = claims'
           /\ \A s \in Requests \ {r} : req'[s] = req[s]
<1>1. claims' = claims + 1 /\ claims' \in Runs /\ claims \in Nat
  BY ConversationAssumption DEF Base, TypeOK, Claim, Runs
<1>2. [phase |-> "claimed", run |-> claims'] \in Request
  BY <1>1, ConversationAssumption DEF Request, Phase, Runs
<1>3. req' = [req EXCEPT ![r] = [phase |-> "claimed", run |-> claims']]
  BY DEF Claim
<1> QED
  BY <1>1, <1>2, <1>3 DEF Base, TypeOK, Request

LEMMA BaseInit == Init => Base
BY ConversationAssumption
   DEF Init, Base, TypeOK, RunsNumbered, RecordedWereClaimed, Idle, Phase, Runs, Running

\* What the actions make of the row.
LEMMA RowTyped ==
    ASSUME TypeOK
    PROVE  /\ Released \in Row
           /\ Released.exists = conv.exists
           /\ [conv EXCEPT !.fresh = FALSE] \in Row
           /\ [conv EXCEPT !.fresh = FALSE].exists = conv.exists
           /\ [conv EXCEPT !.fresh = FALSE].running = conv.running
           /\ [conv EXCEPT !.running = TRUE, !.fresh = TRUE] \in Row
           /\ [conv EXCEPT !.running = TRUE, !.fresh = TRUE].exists = conv.exists
           /\ [conv EXCEPT !.running = TRUE, !.fresh = TRUE].running
           /\ [conv EXCEPT !.running = TRUE, !.fresh = TRUE].fresh
           /\ [exists |-> FALSE, running |-> FALSE, fresh |-> FALSE] \in Row
BY DEF TypeOK, Row, Released

\* A step after which no run is at work, and none on record, that was not before.
LEMMA NoNewRun ==
    ASSUME Base, conv' \in Row, req' \in [Requests -> Request], messages' \subseteq messages,
           UNCHANGED <<claims, context, disturbed>>,
           \A s \in Requests : req'[s].phase \in Running =>
              req[s].phase \in Running /\ req'[s].run = req[s].run
    PROVE  Base'
<1>1. TypeOK'
  BY DEF Base, TypeOK, Request, Row
<1> QED
  BY <1>1 DEF Base, RunsNumbered, RecordedWereClaimed

LEMMA BaseStep == Base /\ [Next]_vars => Base'
<1> SUFFICES ASSUME Base, [Next]_vars PROVE Base'
  OBVIOUS
<1> TypeOK /\ conv \in Row
  BY DEF Base, TypeOK, Row
<1>1. ASSUME NEW r \in Requests, Claim(r) PROVE Base'
  <2>1. claims' \in 0 .. MaxRuns /\ claims \in Nat /\ messages \subseteq Nat
        /\ messages' = messages /\ claims' = claims + 1 /\ claims' \in Runs
    BY <1>1, ClaimEffect, ConversationAssumption DEF Runs, Claim, TypeOK
  <2>2. conv' \in Row
    BY <1>1, RowTyped DEF Claim
  <2>3. disturbed' \in SUBSET Runs
    BY <1>1, <2>1 DEF Claim, TypeOK
  <2>4. TypeOK'
    BY <1>1, <2>1, <2>2, <2>3, ClaimEffect DEF Claim, TypeOK, Request, Row
  <2>5. \A m \in messages' : m < claims'
    BY <2>1 DEF Base, RecordedWereClaimed
  <2>6. \A s \in Requests \ {r} : req'[s] = req[s] /\ req[s].run \in Nat
    BY <1>1, ClaimEffect DEF TypeOK
  <2>7. \A s \in Requests \ {r} : req'[s].phase \in Running => req'[s].run < claims'
    BY <2>1, <2>6 DEF Base, RunsNumbered
  <2>8. RecordedWereClaimed'
    BY <2>1, <2>5 DEF RecordedWereClaimed
  <2>9. req'[r].phase = "claimed" /\ req'[r].run = claims'
    BY <1>1, ClaimEffect
  <2>10. RunsNumbered'
    <3> SUFFICES ASSUME NEW s \in Requests, req'[s].phase \in Running
                 PROVE  /\ req'[s].run \in Runs /\ req'[s].run <= claims' /\ req'[s].run \notin messages'
                        /\ \A t \in Requests : req'[t].phase \in Running /\ req'[t].run = req'[s].run => t = s
      BY DEF RunsNumbered
    <3>1. CASE s = r
      BY <2>1, <2>5, <2>7, <2>9, <3>1
    <3>2. CASE s # r
      <4>1. /\ req[s].phase \in Running /\ req'[s] = req[s] /\ req'[s].run < claims'
        BY <2>6, <2>7, <3>2
      <4>2. /\ req[s].run \in Runs /\ req[s].run <= claims /\ req[s].run \notin messages
        BY <4>1 DEF Base, RunsNumbered
      <4>3. ASSUME NEW t \in Requests, req'[t].phase \in Running, req'[t].run = req'[s].run
            PROVE  t = s
        <5>1. t # r
          BY <2>1, <2>9, <4>1, <4>3
        <5> QED
          BY <2>6, <4>1, <4>3, <5>1 DEF Base, RunsNumbered
      <4>4. req'[s].run <= claims'
        BY <2>1, <2>6, <3>2, <4>1
      <4> QED
        BY <2>1, <4>1, <4>2, <4>3, <4>4
    <3> QED
      BY <3>1, <3>2
  <2> QED
    BY <2>4, <2>8, <2>10 DEF Base
<1>2. ASSUME NEW r \in Requests, ReadContext(r) PROVE Base'
  <2>1. req[r].run \in Runs /\ Goto(r, "calling") /\ req[r].phase \in Running
    BY <1>2 DEF ReadContext, Base, RunsNumbered, Running
  <2>2. "calling" \in Phase
    BY DEF Phase
  <2>3. req' \in [Requests -> Request]
    BY <2>1, <2>2, GotoEffect
  <2>4. \A s \in Requests : req'[s].phase \in Running =>
           req[s].phase \in Running /\ req'[s].run = req[s].run
    BY <2>1, <2>2, GotoEffect
  <2>5. UNCHANGED <<conv, claims, messages, disturbed>>
    BY <1>2 DEF ReadContext
  <2>6. TypeOK'
    BY <1>2, <2>3, <2>5 DEF ReadContext, TypeOK, Request
  <2> QED
    BY <2>4, <2>5, <2>6 DEF Base, RunsNumbered, RecordedWereClaimed
<1>3. ASSUME NEW r \in Requests, NEW outcome \in {"succeeded", "failed"},
             CallEnds(r, outcome)
      PROVE  Base'
  <2>1. Goto(r, outcome) /\ req[r].phase \in Running /\ outcome \in Phase
    BY <1>3 DEF CallEnds, Running, Phase
  <2>2. /\ req' \in [Requests -> Request]
        /\ \A s \in Requests : req'[s].phase \in Running =>
              req[s].phase \in Running /\ req'[s].run = req[s].run
    BY <2>1, GotoEffect
  <2> QED
    BY <1>3, <2>2, NoNewRun DEF CallEnds
<1>4. ASSUME NEW r \in Requests, Leave(r), conv' \in Row, messages' \subseteq messages,
             UNCHANGED <<claims, context, disturbed>>
      PROVE  Base'
  BY <1>4, LeaveEffect, NoNewRun
<1>5. ASSUME NEW r \in Requests, Record(r) PROVE Base'
  <2>1. req[r].phase \in Running /\ Leave(r) /\ messages' = messages \cup {req[r].run}
        /\ UNCHANGED <<claims, context, disturbed>>
    BY <1>5 DEF Record, Running
  <2>2. req[r].run \in Runs /\ req[r].run <= claims
    BY <2>1 DEF Base, RunsNumbered
  <2>3. conv' \in Row
    BY <1>5, RowTyped DEF Record
  <2>4. /\ req' \in [Requests -> Request]
        /\ \A s \in Requests : req'[s].phase \in Running => s # r /\ req'[s] = req[s]
    BY <2>1, LeaveEffect
  <2>5. TypeOK'
    BY <2>1, <2>2, <2>3, <2>4 DEF TypeOK, Request, Row
  <2>6. RecordedWereClaimed'
    BY <2>1, <2>2 DEF Base, RecordedWereClaimed
  <2>7. RunsNumbered'
    BY <2>1, <2>4 DEF Base, RunsNumbered
  <2> QED
    BY <2>5, <2>6, <2>7 DEF Base
<1>6. ASSUME NEW r \in Requests, Release(r) PROVE Base'
  BY <1>4, <1>6, RowTyped DEF Release
<1>7. ASSUME NEW r \in Requests, Abandon(r) \/ Clear(r) PROVE Base'
  BY <1>4, <1>7 DEF Abandon, Clear
<1>8. ASSUME NEW r \in Requests, Delete(r) PROVE Base'
  BY <1>4, <1>8, RowTyped DEF Delete
<1>9. ASSUME NEW r \in Requests, NEW change \in {"clearing", "deleting"}, Check(r, change)
      PROVE  Base'
  <2>1. Goto(r, change) /\ change \notin Running /\ change \in Phase
    BY <1>9 DEF Check, Running, Phase
  <2>2. /\ req' \in [Requests -> Request]
        /\ \A s \in Requests : req'[s].phase \in Running =>
              req[s].phase \in Running /\ req'[s].run = req[s].run
    BY <2>1, GotoEffect
  <2> QED
    BY <1>9, <2>2, NoNewRun DEF Check
<1>10. CASE LockGoesStale
  <2>1. disturbed' \in SUBSET Runs /\ conv' \in Row
    BY <1>10, RowTyped, AtWorkIsRuns DEF LockGoesStale, TypeOK
  <2> QED
    BY <1>10, <2>1 DEF LockGoesStale, Base, TypeOK, RunsNumbered, RecordedWereClaimed, Row
<1>11. CASE UNCHANGED vars
  BY <1>11 DEF vars, Base, TypeOK, RunsNumbered, RecordedWereClaimed
<1> QED
  BY NextCases, <1>1, <1>2, <1>3, <1>5, <1>6, <1>7, <1>8, <1>9, <1>10, <1>11

-----------------------------------------------------------------------------
\* The foreign key, and the deletion of the messages with their conversation.
LEMMA EmptyStep == TypeOK /\ DeletedStaysEmpty /\ [Next]_vars => DeletedStaysEmpty'
<1> SUFFICES ASSUME TypeOK, DeletedStaysEmpty, [Next]_vars PROVE DeletedStaysEmpty'
  OBVIOUS
<1>1. ASSUME conv'.exists = conv.exists, messages' = messages \/ messages' = {}
      PROVE  DeletedStaysEmpty'
  BY <1>1 DEF DeletedStaysEmpty
<1>2. ASSUME NEW r \in Requests, Record(r) PROVE DeletedStaysEmpty'
  BY <1>2, RowTyped DEF Record, Recordable, DeletedStaysEmpty
<1>3. ASSUME NEW r \in Requests, Delete(r) PROVE DeletedStaysEmpty'
  BY <1>3 DEF Delete, DeletedStaysEmpty
<1>4. ASSUME NEW r \in Requests, Claim(r) PROVE DeletedStaysEmpty'
  <2>1. conv'.exists = conv.exists /\ messages' = messages
    BY <1>4, RowTyped DEF Claim
  <2> QED
    BY <1>1, <2>1
<1>10. ASSUME NEW r \in Requests, Release(r) PROVE DeletedStaysEmpty'
  <2>1. conv'.exists = conv.exists /\ messages' = messages
    BY <1>10, RowTyped DEF Release
  <2> QED
    BY <1>1, <2>1
<1>5. ASSUME NEW r \in Requests, ReadContext(r) \/ Abandon(r) \/ Clear(r)
      PROVE  DeletedStaysEmpty'
  BY <1>1, <1>5 DEF ReadContext, Abandon, Clear
<1>6. ASSUME NEW r \in Requests, NEW outcome \in {"succeeded", "failed"},
             CallEnds(r, outcome)
      PROVE  DeletedStaysEmpty'
  BY <1>1, <1>6 DEF CallEnds
<1>7. ASSUME NEW r \in Requests, NEW change \in {"clearing", "deleting"}, Check(r, change)
      PROVE  DeletedStaysEmpty'
  BY <1>1, <1>7 DEF Check
<1>8. CASE LockGoesStale
  BY <1>1, <1>8, RowTyped DEF LockGoesStale
<1>9. CASE UNCHANGED vars
  BY <1>1, <1>9 DEF vars
<1> QED
  BY NextCases, <1>2, <1>3, <1>4, <1>5, <1>6, <1>7, <1>8, <1>9, <1>10

-----------------------------------------------------------------------------
(* The lock, and what it means for the record.                             *)

Lock == RunsAlone /\ HolderIsLast /\ ExchangesInOrder /\ LackedIsDisturbed

LEMMA LockInit == Init => Lock
BY DEF Init, Lock, RunsAlone, ExchangesInOrder, HolderIsLast, LackedIsDisturbed, Idle, Running

\* When an undisturbed run leaves, nobody is at work.
LEMMA AloneAfterLeave ==
    ASSUME Base, RunsAlone, NEW r \in Requests, req[r].phase \in Running, Leave(r),
           req[r].run \notin disturbed
    PROVE  \A s \in Requests : req'[s].phase \notin Running
BY LeaveEffect DEF RunsAlone, Running

\* Who is still at work when the lock can be claimed has been disturbed.
LEMMA ClaimableIsFree ==
    ASSUME HolderIsLast, Claimable, NEW s \in Requests, req[s].phase \in Running
    PROVE  req[s].run \in disturbed
BY DEF HolderIsLast, Claimable

\* A step after which no request is at work that was not before, as the same
\* run and at the same point, and that takes the row from no undisturbed one.
LEMMA QuietStep ==
    ASSUME Lock, UNCHANGED <<claims, context>>, messages' = messages \/ messages' = {},
           disturbed \subseteq disturbed',
           \A s \in Requests : req'[s].phase \in Running => req'[s] = req[s],
           \/ conv' = conv \/ ~conv'.exists
           \/ \A s \in Requests : req'[s].phase \in Running => req'[s].run \in disturbed'
    PROVE  Lock'
<1>1. RunsAlone'
  BY DEF Lock, RunsAlone
<1>2. ExchangesInOrder'
  BY DEF Lock, ExchangesInOrder
<1>3. HolderIsLast'
  BY DEF Lock, HolderIsLast
<1>4. LackedIsDisturbed'
  BY DEF Lock, LackedIsDisturbed
<1> QED
  BY <1>1, <1>2, <1>3, <1>4 DEF Lock

LEMMA LockStep ==
    ASSUME Base, Lock, [Next]_vars
    PROVE  Lock'
<1> TypeOK /\ RunsNumbered /\ RecordedWereClaimed
  BY DEF Base
<1> RunsAlone /\ HolderIsLast /\ ExchangesInOrder /\ LackedIsDisturbed
  BY DEF Lock
<1>1. ASSUME NEW r \in Requests, Claim(r) PROVE Lock'
  <2>1. /\ req'[r].phase = "claimed" /\ req'[r].run = claims'
        /\ \A s \in Requests \ {r} : req'[s] = req[s]
        /\ UNCHANGED <<messages, context>> /\ disturbed \subseteq disturbed'
    BY <1>1, ClaimEffect DEF Claim
  <2>2. claims' = claims + 1 /\ claims \in Nat /\ messages \subseteq Nat
    BY <1>1, ClaimEffect, ConversationAssumption DEF TypeOK, Runs
  <2>3. \A m \in messages' : m < claims' /\ ~(claims' < m)
    BY <2>1, <2>2 DEF RecordedWereClaimed
  <2>4. ASSUME NEW s \in Requests \ {r}, req'[s].phase \in Running
        PROVE  {req'[s].run, claims'} \subseteq disturbed'
    <3>1. req[s].run \in AtWork \cap disturbed
      BY <1>1, <2>1, <2>4, ClaimableIsFree, AtWorkIsRuns DEF Claim
    <3>2. claims' \in disturbed'
      BY <1>1, <2>2, <3>1 DEF Claim
    <3> QED
      BY <2>1, <2>4, <3>1, <3>2
  <2>5. RunsAlone'
    BY <2>1, <2>4 DEF RunsAlone
  <2>6. ExchangesInOrder'
    BY <2>1 DEF ExchangesInOrder
  <2>7. conv'.running /\ conv'.fresh
    BY <1>1, RowTyped DEF Claim
  <2>8. HolderIsLast'
    BY <2>1, <2>3, <2>4, <2>7 DEF HolderIsLast
  <2>9. LackedIsDisturbed'
    BY <2>1, <2>3 DEF LackedIsDisturbed
  <2> QED
    BY <2>5, <2>6, <2>8, <2>9 DEF Lock
<1>2. ASSUME NEW r \in Requests, ReadContext(r) PROVE Lock'
  <2> DEFINE n == req[r].run
  <2>1. req[r].phase \in Running /\ n \in Runs /\ n \notin messages /\ "calling" \in Phase
    BY <1>2 DEF ReadContext, Running, RunsNumbered, Phase
  <2>2. /\ req'[r].phase = "calling" /\ req'[r].run = n
        /\ \A s \in Requests \ {r} : req'[s] = req[s]
    BY <1>2, <2>1, GotoEffect DEF ReadContext
  <2>3. /\ context'[n] = messages
        /\ \A m \in Runs : m # n => context'[m] = context[m]
    BY <1>2, <2>1 DEF ReadContext, TypeOK
  <2>4. UNCHANGED <<conv, claims, messages, disturbed>> /\ messages \subseteq Runs
    BY <1>2 DEF ReadContext, TypeOK
  <2>5. \A s \in Requests \ {r} : req'[s].phase \in Running =>
           req[s].phase \in Running /\ req'[s].run \in Runs /\ req'[s].run # n
    BY <2>1, <2>2 DEF RunsNumbered
  <2>6. RunsAlone'
    BY <2>1, <2>2, <2>4 DEF RunsAlone
  <2>7. ExchangesInOrder'
    BY <2>1, <2>3, <2>4 DEF ExchangesInOrder
  <2>8. HolderIsLast'
    <3> SUFFICES ASSUME NEW s \in Requests, req'[s].phase \in Running, req'[s].run \notin disturbed'
                 PROVE  /\ req'[s].run = claims'
                        /\ conv'.exists => conv'.running /\ conv'.fresh
                        /\ \A m \in messages' : m < claims'
                        /\ req'[s].phase # "claimed" =>
                              /\ messages' \in {{}, context'[req'[s].run]}
                              /\ \A m \in context'[req'[s].run] : m < claims'
      BY DEF HolderIsLast
    <3>1. CASE s = r
      BY <2>1, <2>2, <2>3, <2>4, <3>1 DEF HolderIsLast
    <3>2. CASE s # r
      BY <2>2, <2>3, <2>4, <2>5, <3>2 DEF HolderIsLast
    <3> QED
      BY <3>1, <3>2
  <2>9. LackedIsDisturbed'
    <3> SUFFICES ASSUME NEW s \in Requests, req'[s].phase \in Running, NEW m \in messages'
                 PROVE  /\ req'[s].phase # "claimed" /\ m < req'[s].run =>
                              m \in context'[req'[s].run] \/ {m, req'[s].run} \subseteq disturbed'
                        /\ req'[s].run < m => {m, req'[s].run} \subseteq disturbed'
      BY DEF LackedIsDisturbed
    <3>1. CASE s = r
      BY <2>1, <2>2, <2>3, <2>4, <3>1 DEF LackedIsDisturbed
    <3>2. CASE s # r
      BY <2>2, <2>3, <2>4, <2>5, <3>2 DEF LackedIsDisturbed
    <3> QED
      BY <3>1, <3>2
  <2> QED
    BY <2>6, <2>7, <2>8, <2>9 DEF Lock
<1>3. ASSUME NEW r \in Requests, NEW outcome \in {"succeeded", "failed"},
             CallEnds(r, outcome)
      PROVE  Lock'
  <2>1. req[r].phase = "calling" /\ Goto(r, outcome) /\ outcome \in Phase
        /\ outcome \in Running /\ "calling" \in Running
    BY <1>3 DEF CallEnds, Phase, Running
  <2>2. /\ req'[r].phase = outcome /\ req'[r].run = req[r].run
        /\ \A s \in Requests \ {r} : req'[s] = req[s]
    BY <2>1, GotoEffect
  <2>3. UNCHANGED <<conv, claims, messages, context, disturbed>>
    BY <1>3 DEF CallEnds
  <2>4. RunsAlone'
    BY <2>1, <2>2, <2>3 DEF RunsAlone
  <2>5. HolderIsLast'
    BY <2>1, <2>2, <2>3 DEF HolderIsLast
  <2>6. LackedIsDisturbed'
    BY <2>1, <2>2, <2>3 DEF LackedIsDisturbed
  <2> QED
    BY <2>3, <2>4, <2>5, <2>6 DEF Lock, ExchangesInOrder
<1>4. ASSUME NEW r \in Requests, Record(r) PROVE Lock'
  <2> DEFINE n == req[r].run
  <2>1. /\ req[r].phase \in Running /\ req[r].phase # "claimed" /\ Leave(r)
        /\ messages' = messages \cup {n} /\ UNCHANGED <<claims, context, disturbed>>
    BY <1>4 DEF Record, Running
  <2>2. \A s \in Requests : req'[s].phase \in Running =>
           s # r /\ req'[s] = req[s] /\ {n, req[s].run} \subseteq disturbed
    BY <2>1, LeaveEffect DEF RunsAlone
  <2>3. n \in Nat /\ messages \subseteq Nat
    BY <2>1, ConversationAssumption DEF TypeOK, RunsNumbered, Runs
  <2>4. ExchangesInOrder'
    <3> SUFFICES ASSUME NEW m \in messages', NEW k \in messages', m < k
                 PROVE  m \in context'[k] \/ {m, k} \subseteq disturbed'
      BY DEF ExchangesInOrder
    <3>1. CASE m = n /\ k = n
      BY <2>3, <3>1
    <3>2. CASE m \in messages /\ k \in messages
      BY <2>1, <3>2 DEF ExchangesInOrder
    <3>3. CASE m \in messages /\ k = n
      BY <2>1, <3>3 DEF LackedIsDisturbed
    <3>4. CASE m = n /\ k \in messages
      BY <2>1, <3>4 DEF LackedIsDisturbed
    <3> QED
      BY <2>1, <3>1, <3>2, <3>3, <3>4
  <2>5. RunsAlone' /\ HolderIsLast'
    BY <2>1, <2>2 DEF RunsAlone, HolderIsLast
  <2>6. LackedIsDisturbed'
    <3> SUFFICES ASSUME NEW s \in Requests, req'[s].phase \in Running, NEW m \in messages'
                 PROVE  /\ req'[s].phase # "claimed" /\ m < req'[s].run =>
                              m \in context'[req'[s].run] \/ {m, req'[s].run} \subseteq disturbed'
                        /\ req'[s].run < m => {m, req'[s].run} \subseteq disturbed'
      BY DEF LackedIsDisturbed
    <3>1. CASE m = n
      BY <2>1, <2>2, <3>1
    <3>2. CASE m \in messages
      BY <2>1, <2>2, <3>2 DEF LackedIsDisturbed
    <3> QED
      BY <2>1, <3>1, <3>2
  <2> QED
    BY <2>4, <2>5, <2>6 DEF Lock
<1>5. ASSUME NEW r \in Requests, Release(r) PROVE Lock'
  <2>1. req[r].phase \in Running /\ Leave(r) /\ UNCHANGED <<claims, messages, context, disturbed>>
    BY <1>5 DEF Release
  <2>2. \A s \in Requests : req'[s].phase \in Running => req'[s] = req[s] /\ req'[s].run \in disturbed
    BY <2>1, LeaveEffect DEF RunsAlone
  <2> QED
    BY <2>1, <2>2, QuietStep
<1>6. ASSUME NEW r \in Requests, Abandon(r) \/ Clear(r) PROVE Lock'
  <2>1. \A s \in Requests : req'[s].phase \in Running => req'[s] = req[s]
    BY <1>6, LeaveEffect DEF Abandon, Clear
  <2> QED
    BY <1>6, <2>1, QuietStep DEF Abandon, Clear
<1>7. ASSUME NEW r \in Requests, Delete(r) PROVE Lock'
  <2>1. \A s \in Requests : req'[s].phase \in Running => req'[s] = req[s]
    BY <1>7, LeaveEffect DEF Delete
  <2>2. ~conv'.exists
    BY <1>7 DEF Delete
  <2> QED
    BY <1>7, <2>1, <2>2, QuietStep DEF Delete
<1>8. ASSUME NEW r \in Requests, NEW change \in {"clearing", "deleting"}, Check(r, change)
      PROVE  Lock'
  <2>1. Goto(r, change) /\ change \in Phase /\ change \notin Running
    BY <1>8 DEF Check, Phase, Running
  <2>2. \A s \in Requests : req'[s].phase \in Running => req'[s] = req[s]
    BY <2>1, GotoEffect
  <2> QED
    BY <1>8, <2>2, QuietStep DEF Check
<1>9. CASE LockGoesStale
  <2>1. \A s \in Requests : req'[s].phase \in Running => req'[s] = req[s] /\ req'[s].run \in disturbed'
    BY <1>9, AtWorkIsRuns DEF LockGoesStale
  <2> QED
    BY <1>9, <2>1, QuietStep DEF LockGoesStale
<1>10. CASE UNCHANGED vars
  BY <1>10, QuietStep DEF vars
<1> QED
  BY NextCases, <1>1, <1>2, <1>3, <1>4, <1>5, <1>6, <1>7, <1>8, <1>9, <1>10

-----------------------------------------------------------------------------
\* The invariant of the conversation, its lock, its messages and the runs at
\* work holds in every state (claim_conversation, record_exchange).
THEOREM ConversationInvariant == Spec => []ConversationInv
<1>1. Init => ConversationInv
  BY BaseInit, LockInit DEF ConversationInv, Base, Lock, Init, DeletedStaysEmpty
<1>2. ConversationInv /\ [Next]_vars => ConversationInv'
  <2> SUFFICES ASSUME ConversationInv, [Next]_vars PROVE ConversationInv'
    OBVIOUS
  <2>1. Base' /\ DeletedStaysEmpty'
    BY BaseStep, EmptyStep DEF ConversationInv, Base
  <2>2. Lock'
    BY LockStep DEF ConversationInv, Base, Lock
  <2> QED
    BY <2>1, <2>2 DEF ConversationInv, Base, Lock
<1> QED
  BY <1>1, <1>2, PTL DEF Spec

\* Nothing is ever recorded for a deleted conversation, however long calls last.
THEOREM DeletedIsEmpty == Spec => []DeletedStaysEmpty
<1>1. ConversationInv => DeletedStaysEmpty
  BY DEF ConversationInv
<1> QED
  BY <1>1, ConversationInvariant, PTL

\* Two runs are at work together only if both have outlived the lock or begun
\* beside one that had, however long calls last: claim_conversation keeps all
\* other runs apart.
THEOREM OneRunAtATime == Spec => []RunsAlone
<1>1. ConversationInv => RunsAlone
  BY DEF ConversationInv
<1> QED
  BY <1>1, ConversationInvariant, PTL

\* Every exchange on record was made with the earlier ones in its context, but
\* for those of runs that were disturbed as it was.
THEOREM ContextIsComplete == Spec => []ExchangesInOrder
<1>1. ConversationInv => ExchangesInOrder
  BY DEF ConversationInv
<1> QED
  BY <1>1, ConversationInvariant, PTL

-----------------------------------------------------------------------------
(* ConversationRuns implements ConversationPromise, action by action.      *)

\* What a step of ConversationPromise that is a stutter leaves alone.
LEMMA ExchangesStutter ==
    ASSUME conv'.exists = conv.exists, messages' = messages, disturbed' = disturbed,
           \A n \in messages : context'[n] = context[n]
    PROVE  UNCHANGED Exchanges!promise
<1>1. GivenOnRecord' = GivenOnRecord
  BY DEF GivenOnRecord
<1> QED
  BY <1>1 DEF Exchanges!promise

LEMMA ForgetPromised ==
    ASSUME messages' = {}, disturbed' = disturbed
    PROVE  Exchanges!Forget
BY DEF Exchanges!Forget, GivenOnRecord

\* Whom the lock has not kept apart is not on record yet.
LEMMA DisturbPromised ==
    ASSUME NEW runs \in SUBSET Runs, runs \cap messages = {}, disturbed' = disturbed \cup runs,
           conv'.exists = conv.exists, UNCHANGED <<messages, context>>
    PROVE  Exchanges!Next
<1>1. GivenOnRecord' = GivenOnRecord
  BY DEF GivenOnRecord
<1>2. Exchanges!Disturb(runs)
  BY <1>1 DEF Exchanges!Disturb
<1> QED
  BY <1>2 DEF Exchanges!Next

\* An undisturbed run that records comes after all on record, all of which it was
\* given; a disturbed one lacks and precedes only disturbed ones.
LEMMA RecordPromised ==
    ASSUME Base, Lock, NEW r \in Requests, Record(r)
    PROVE  Exchanges!Next
<1> DEFINE n == req[r].run
<1>1. /\ n \in Runs /\ n \notin messages
      /\ req[r].phase \in Running /\ req[r].phase # "claimed"
  BY DEF Base, RunsNumbered, Record, Running
<1>2. /\ conv.exists /\ conv'.exists = conv.exists
      /\ messages' = messages \cup {n} /\ context' = context /\ disturbed' = disturbed
  BY RowTyped DEF Base, Record, Recordable
<1>3. messages \subseteq Runs /\ context[n] \in SUBSET Runs
  BY <1>1 DEF Base, TypeOK
<1>4. Exchanges!AtOnce(n, context[n]) \/ Exchanges!InPieces(n, context[n])
  <2>1. CASE n \notin disturbed
    <3>1. /\ \A m \in messages : m < n
          /\ messages \in {{}, context[n]}
          /\ \A m \in context[n] : m < n
      BY <1>1, <2>1 DEF Lock, HolderIsLast
    <3>2. messages \subseteq Exchanges!Earlier(n) /\ context[n] \subseteq Exchanges!Earlier(n)
      BY <1>3, <3>1 DEF Exchanges!Earlier
    <3> QED
      BY <3>1, <3>2 DEF Exchanges!AtOnce
  <2>2. CASE n \in disturbed
    <3>1. \A m \in messages : n < m => m \in disturbed
      BY <1>1 DEF Lock, LackedIsDisturbed
    <3>2. \A m \in messages : m < n => m \in context[n] \/ m \in disturbed
      BY <1>1 DEF Lock, LackedIsDisturbed
    <3> QED
      BY <2>2, <3>1, <3>2 DEF Exchanges!InPieces, Exchanges!Earlier
  <2> QED
    BY <2>1, <2>2
<1>5. GivenOnRecord' = [GivenOnRecord EXCEPT ![n] = context[n]]
  BY <1>1, <1>2 DEF GivenOnRecord
<1>6. Exchanges!Exchange(n, context[n])
  BY <1>1, <1>2, <1>4, <1>5 DEF Exchanges!Exchange
<1> QED
  BY <1>1, <1>3, <1>6 DEF Exchanges!Next

LEMMA ConversationStepPromised ==
    ASSUME ConversationInv, [Next]_vars
    PROVE  [Exchanges!Next]_(Exchanges!promise)
<1> Base /\ Lock /\ TypeOK /\ DeletedStaysEmpty
  BY DEF ConversationInv, Base, Lock
<1>1. ASSUME NEW r \in Requests, Record(r) PROVE Exchanges!Next
  BY <1>1, RecordPromised
<1>2. ASSUME NEW r \in Requests, ReadContext(r) PROVE UNCHANGED Exchanges!promise
  <2>1. req[r].run \notin messages
    BY <1>2 DEF ReadContext, Running, Base, RunsNumbered
  <2>2. \A m \in messages : context'[m] = context[m]
    BY <1>2, <2>1 DEF ReadContext, TypeOK
  <2> QED
    BY <1>2, <2>2, ExchangesStutter DEF ReadContext
<1>3. ASSUME NEW r \in Requests, Clear(r) PROVE [Exchanges!Next]_(Exchanges!promise)
  <2>1. CASE conv.exists
    <3>1. Exchanges!Clear
      BY <1>3, <2>1, ForgetPromised DEF Clear, Exchanges!Clear
    <3> QED
      BY <3>1 DEF Exchanges!Next
  <2>2. CASE ~conv.exists
    BY <1>3, <2>2, ExchangesStutter DEF Clear
  <2> QED
    BY <2>1, <2>2
<1>4. ASSUME NEW r \in Requests, Delete(r) PROVE [Exchanges!Next]_(Exchanges!promise)
  <2>1. conv'.exists = FALSE /\ messages' = {} /\ context' = context /\ disturbed' = disturbed
    BY <1>4 DEF Delete
  <2>2. CASE conv.exists
    <3>1. Exchanges!Delete
      BY <2>1, <2>2, ForgetPromised DEF Exchanges!Delete
    <3> QED
      BY <3>1 DEF Exchanges!Next
  <2>3. CASE ~conv.exists
    <3>1. conv.exists = FALSE /\ messages = {}
      BY <2>3 DEF TypeOK, DeletedStaysEmpty
    <3> QED
      BY <2>1, <3>1, ExchangesStutter
  <2> QED
    BY <2>2, <2>3
<1>5. ASSUME NEW r \in Requests, Claim(r) PROVE Exchanges!Next
  <2> DEFINE runs == {n \in {claims + 1} : AtWork \cap disturbed # {}}
  <2>1. runs \in SUBSET Runs
    BY <1>5, ClaimEffect
  <2>2. claims + 1 \notin messages
    <3>1. claims \in Nat /\ messages \subseteq Nat
      BY ConversationAssumption DEF TypeOK, Runs
    <3> QED
      BY <3>1 DEF Base, RecordedWereClaimed
  <2>3. conv'.exists = conv.exists
    BY <1>5, RowTyped DEF Claim
  <2> QED
    BY <1>5, <2>1, <2>2, <2>3, DisturbPromised DEF Claim
<1>6. ASSUME NEW r \in Requests,
             Release(r) \/ Abandon(r)
                \/ (\E outcome \in {"succeeded", "failed"} : CallEnds(r, outcome))
                \/ (\E change \in {"clearing", "deleting"} : Check(r, change))
      PROVE  UNCHANGED Exchanges!promise
  <2>1. conv'.exists = conv.exists
    BY <1>6, RowTyped DEF Release, Abandon, CallEnds, Check
  <2>2. messages' = messages /\ context' = context /\ disturbed' = disturbed
    BY <1>6 DEF Release, Abandon, CallEnds, Check
  <2> QED
    BY <2>1, <2>2, ExchangesStutter
<1>7. CASE LockGoesStale
  BY <1>7, RowTyped, AtWorkIsRuns, DisturbPromised DEF LockGoesStale
<1>8. CASE UNCHANGED vars
  BY <1>8, ExchangesStutter DEF vars
<1> QED
  BY NextCases, <1>1, <1>2, <1>3, <1>4, <1>5, <1>6, <1>7, <1>8

\* However long calls last, an undisturbed run, its claim, its call and its
\* recording taken together, is one step of ConversationPromise; so are a clearing
\* and a deletion, whoever is at work between their check and their write.
THEOREM ConversationImplementsPromise == Spec => ConversationPromised
<1>1. Init => Exchanges!Init
  BY DEF Init, Exchanges!Init, GivenOnRecord
<1>2. ConversationInv /\ [Next]_vars => [Exchanges!Next]_(Exchanges!promise)
  BY ConversationStepPromised
<1> QED
  BY <1>1, <1>2, ConversationInvariant, PTL DEF Spec, ConversationPromised, Exchanges!Spec

-----------------------------------------------------------------------------
(* JobSubmission: the timeline of a job.                                   *)

JobRow == [status : Status, run : {"none", "QUEUED", "RUNNING", "SUCCEEDED", "FAILED", "CANCELLED"}]
JobRequest == [phase : {"idle", "open", "over"}, way : Way,
               key : Keys \cup {NoKey}, answer : Jobs \cup {NoJob}]
JobExecutor == [phase : {"idle", "due", "entered", "starting", "waiting", "ending", "over"},
                next : Nat]
CancelRow == [phase : {"idle", "read", "numbered"}, next : Nat]
JobCanceller == [Cancellers -> CancelRow]

Cancels(j, c) == Cancel(j, c) \/ CancelNumber(j, c) \/ CancelCommits(j, c) \/ CancelFails(j, c)

\* The next-state relation action by action.
LEMMA SubmissionCases ==
    ASSUME [SubmissionNext]_submissionVars
    PROVE  \/ \E j \in Jobs :
                 \/ \E way \in Way : Begin(j, way)
                 \/ \E key \in Keys \cup {NoKey} : Call(j, key)
                 \/ CallCommits(j) \/ CallReplays(j) \/ Refuse(j)
                 \/ \E status \in Status : Placed(j, status) /\ request[j].way # "endpoint"
                 \/ \E status \in Status : End(j, status)
                 \/ Enter(j) \/ StartNumber(j) \/ Start(j) \/ Answered(j)
                 \/ Collide(j) \/ Restart(j)
                 \/ \E c \in Cancellers : Cancels(j, c)
                 \/ BeginDelete(j) \/ DeleteCommits(j) \/ DeleteFails(j)
           \/ UNCHANGED submissionVars
BY DEF SubmissionNext, Submit, Resubmit, Cancels

\* The number that is read of a timeline follows its last one.
LEMMA NextNumberFollows ==
    ASSUME SubmissionTypeOK, NumbersFollow, NEW j \in Jobs, events[j] # {}
    PROVE  /\ NextNumber(j) \in Number
           /\ Follows(j, NextNumber(j))
           /\ \A e \in events[j] : e.seq < NextNumber(j)
<1> DEFINE Numbers == {0} \cup {e.seq : e \in events[j]}
           Largest(n) == \A e \in events[j] : e.seq <= n
<1>1. \A e \in events[j] : e.seq \in Nat \ {0}
  BY DEF SubmissionTypeOK, Event, Number
<1>2. \E n \in Numbers : Largest(n)
  <2>1. PICK e \in events[j] : \A d \in events[j] : d.seq <= e.seq
    BY DEF NumbersFollow
  <2> QED
    BY <2>1
<1>3. LastNumber(j) = CHOOSE n \in Numbers : Largest(n)
  BY DEF LastNumber
<1>4. LastNumber(j) \in Numbers /\ Largest(LastNumber(j))
  BY <1>2, <1>3
<1>5. PICK e \in events[j] : e.seq = LastNumber(j)
  <2>1. PICK d \in events[j] : TRUE
    OBVIOUS
  <2>2. LastNumber(j) # 0
    BY <1>1, <1>4, <2>1
  <2> QED
    BY <1>4, <2>2
<1> QED
  BY <1>1, <1>4, <1>5 DEF Follows, NextNumber, Number

\* What an append does to a timeline: the number it uses is the largest.
LEMMA AppendIsLast ==
    ASSUME SubmissionTypeOK, NumbersFollow, NEW j \in Jobs, NEW n \in Nat,
           Follows(j, n), Appendable(j, n)
    PROVE  /\ n \in Number
           /\ \A e \in events[j] : e.seq < n
<1>1. \A e \in events[j] : e.seq \in Nat \ {0}
  BY DEF SubmissionTypeOK, Event, Number
<1>2. PICK d \in events[j] : d.seq = n - 1
  BY DEF Follows
<1>3. n \in Number
  BY <1>1, <1>2 DEF Number
<1>4. \A e \in events[j] : e.seq < n
  <2> SUFFICES ASSUME NEW e \in events[j], ~(e.seq < n) PROVE FALSE
    OBVIOUS
  <2>1. n \in 1 .. e.seq
    BY <1>1, <1>3 DEF Number
  <2>2. \E f \in events[j] : f.seq = n
    BY <2>1 DEF NumbersFollow
  <2> QED
    BY <2>2 DEF Appendable
<1> QED
  BY <1>3, <1>4

-----------------------------------------------------------------------------
(* JobSubmission: types.                                                   *)

\* SubmissionTypeOK row by row.
LEMMA SubmissionRows ==
    SubmissionTypeOK <=>
        /\ job \in [Jobs -> JobRow] /\ events \in [Jobs -> SUBSET Event]
        /\ binding \in [Keys -> Jobs \cup {NoJob}]
        /\ request \in [Jobs -> JobRequest] /\ executor \in [Jobs -> JobExecutor]
        /\ canceller \in [Jobs -> JobCanceller]
        /\ deleting \in SUBSET Jobs /\ lost \in SUBSET Jobs
BY DEF SubmissionTypeOK, JobRow, JobRequest, JobExecutor, JobCanceller, CancelRow

\* An event under a number of the timeline's range keeps the types.
LEMMA AnnounceTypes ==
    ASSUME SubmissionTypeOK, NEW j \in Jobs, NEW n \in Number,
           NEW status \in Status, NEW run \in {"QUEUED", "RUNNING", "SUCCEEDED", "FAILED", "CANCELLED"},
           Announce(j, n, status, run)
    PROVE  /\ job' \in [Jobs -> JobRow] /\ events' \in [Jobs -> SUBSET Event]
           /\ job'[j] = [status |-> status, run |-> run]
           /\ events'[j] = events[j] \cup {[seq |-> n, status |-> status]}
           /\ \A i \in Jobs \ {j} : job'[i] = job[i] /\ events'[i] = events[i]
<1>1. [status |-> status, run |-> run] \in JobRow
  BY DEF JobRow
<1>2. [seq |-> n, status |-> status] \in Event
  BY DEF Event
<1> QED
  BY <1>1, <1>2, SubmissionRows DEF Announce

\* A request is over: it keeps its way and its key.
LEMMA DoneEffect ==
    ASSUME SubmissionTypeOK, NEW j \in Jobs, NEW answer \in Jobs \cup {NoJob}, Done(j, answer)
    PROVE  /\ request' \in [Jobs -> JobRequest]
           /\ request'[j].phase = "over" /\ request'[j].answer = answer
           /\ request'[j].key = request[j].key /\ request'[j].way = request[j].way
           /\ \A i \in Jobs \ {j} : request'[i] = request[i]
<1> DEFINE row == [request[j] EXCEPT !.phase = "over", !.answer = answer]
<1>1. request \in [Jobs -> JobRequest]
  BY SubmissionRows
<1>2. /\ row \in JobRequest
      /\ row.phase = "over" /\ row.answer = answer
      /\ row.key = request[j].key /\ row.way = request[j].way
  BY <1>1 DEF JobRequest
<1>3. request' = [request EXCEPT ![j] = row]
  BY <1>1 DEF Done
<1> HIDE DEF row
<1> QED
  BY <1>1, <1>2, <1>3

\* An executor's phase changes: it keeps its number.
LEMMA ExecutorEffect ==
    ASSUME SubmissionTypeOK, NEW j \in Jobs,
           NEW phase \in {"due", "entered", "waiting", "over"},
           executor' = [executor EXCEPT ![j].phase = phase]
    PROVE  /\ executor' \in [Jobs -> JobExecutor]
           /\ executor'[j].phase = phase /\ executor'[j].next = executor[j].next
           /\ \A i \in Jobs \ {j} : executor'[i] = executor[i]
<1> DEFINE row == [executor[j] EXCEPT !.phase = phase]
<1>1. executor \in [Jobs -> JobExecutor]
  BY SubmissionRows
<1>2. row \in JobExecutor /\ row.phase = phase /\ row.next = executor[j].next
  BY <1>1 DEF JobExecutor
<1>3. executor' = [executor EXCEPT ![j] = row]
  BY <1>1
<1> HIDE DEF row
<1> QED
  BY <1>1, <1>2, <1>3

\* What one request that cancels writes of its own.
LEMMA CancellerEffect ==
    ASSUME SubmissionTypeOK, NEW j \in Jobs, NEW c \in Cancellers,
           NEW phase \in {"idle", "read", "numbered"}, NEW next \in Nat,
           Cancelling(j, c, phase, next)
    PROVE  /\ canceller' \in [Jobs -> JobCanceller]
           /\ canceller'[j][c].phase = phase /\ canceller'[j][c].next = next
           /\ \A d \in Cancellers \ {c} : canceller'[j][d] = canceller[j][d]
           /\ \A i \in Jobs \ {j} : canceller'[i] = canceller[i]
<1> DEFINE own == [phase |-> phase, next |-> next]
           row == [canceller[j] EXCEPT ![c] = own]
<1>1. canceller \in [Jobs -> JobCanceller]
  BY SubmissionRows
<1>2. own \in CancelRow /\ own.phase = phase /\ own.next = next
  BY DEF CancelRow
<1>3. canceller' = [canceller EXCEPT ![j] = row]
  BY <1>1 DEF Cancelling
<1> HIDE DEF own
<1>4. /\ row \in JobCanceller /\ row[c] = own
      /\ \A d \in Cancellers \ {c} : row[d] = canceller[j][d]
  BY <1>1, <1>2 DEF JobCanceller
<1> HIDE DEF row
<1>5. canceller' \in [Jobs -> JobCanceller] /\ canceller'[j] = row
  BY <1>1, <1>3, <1>4
<1>6. \A i \in Jobs \ {j} : canceller'[i] = canceller[i]
  BY <1>1, <1>3
<1> QED
  BY <1>2, <1>4, <1>5, <1>6

\* The numbers that an executor or a request that cancels has read.
LEMMA NumbersRead ==
    ASSUME SubmissionTypeOK, NEW j \in Jobs
    PROVE  /\ executor[j].next \in Nat
           /\ \A c \in Cancellers : canceller[j][c].next \in Nat
BY SubmissionRows DEF JobExecutor, JobCanceller, CancelRow

\* The number an append uses is the largest of its timeline.
LEMMA PendingNumbersFit ==
    ASSUME SubmissionTypeOK, NumbersFollow, NEW j \in Jobs
    PROVE  /\ executor[j].phase \in {"starting", "ending"} /\ Appendable(j, executor[j].next)
                => /\ executor[j].next \in Number
                   /\ \A e \in events[j] : e.seq < executor[j].next
                   /\ Follows(j, executor[j].next)
           /\ \A c \in Cancellers :
                 canceller[j][c].phase = "numbered" /\ Appendable(j, canceller[j][c].next)
                => /\ canceller[j][c].next \in Number
                   /\ \A e \in events[j] : e.seq < canceller[j][c].next
                   /\ Follows(j, canceller[j][c].next)
<1>1. ASSUME executor[j].phase \in {"starting", "ending"}, Appendable(j, executor[j].next)
      PROVE  /\ executor[j].next \in Number
             /\ \A e \in events[j] : e.seq < executor[j].next
             /\ Follows(j, executor[j].next)
  <2>1. Follows(j, executor[j].next)
    BY <1>1 DEF NumbersFollow, Appendable
  <2> QED
    BY <1>1, <2>1, NumbersRead, AppendIsLast
<1>2. ASSUME NEW c \in Cancellers,
             canceller[j][c].phase = "numbered", Appendable(j, canceller[j][c].next)
      PROVE  /\ canceller[j][c].next \in Number
             /\ \A e \in events[j] : e.seq < canceller[j][c].next
             /\ Follows(j, canceller[j][c].next)
  <2>1. Follows(j, canceller[j][c].next)
    BY <1>2 DEF NumbersFollow, Appendable
  <2> QED
    BY <1>2, <2>1, NumbersRead, AppendIsLast
<1> QED
  BY <1>1, <1>2

\* The step of the type invariant.
LEMMA SubmissionTypeStep ==
    ASSUME SubmissionTypeOK, NumbersFollow, MadeByRequest, [SubmissionNext]_submissionVars
    PROVE  SubmissionTypeOK'
<1> USE DEF JobRequest, JobExecutor
<1> SUFFICES ASSUME NEW j \in Jobs,
                    \/ \E way \in Way : Begin(j, way)
                    \/ \E key \in Keys \cup {NoKey} : Call(j, key)
                    \/ CallCommits(j) \/ CallReplays(j) \/ Refuse(j)
                    \/ \E status \in Status : Placed(j, status)
                    \/ \E status \in Status : End(j, status)
                    \/ Enter(j) \/ StartNumber(j) \/ Start(j) \/ Answered(j)
                    \/ Collide(j) \/ Restart(j)
                    \/ \E c \in Cancellers : Cancels(j, c)
                    \/ BeginDelete(j) \/ DeleteCommits(j) \/ DeleteFails(j)
             PROVE  SubmissionTypeOK'
  BY SubmissionCases DEF SubmissionTypeOK, submissionVars
<1>1. ASSUME NEW way \in Way, Begin(j, way) PROVE SubmissionTypeOK'
  <2>1. request' \in [Jobs -> JobRequest]
    BY <1>1, SubmissionRows DEF Begin, Open, Way
  <2> QED
    BY <1>1, <2>1 DEF Begin, SubmissionTypeOK
<1>2. ASSUME NEW key \in Keys \cup {NoKey}, Call(j, key) PROVE SubmissionTypeOK'
  <2>1. ~Free(key) => binding[key] \in Jobs \cup {NoJob}
    BY SubmissionRows DEF Free
  <2>2. request' \in [Jobs -> JobRequest]
    BY <1>2, <2>1, SubmissionRows DEF Call, Open, Way
  <2> QED
    BY <1>2, <2>2 DEF Call, SubmissionTypeOK
<1>3. ASSUME CallCommits(j) PROVE SubmissionTypeOK'
  <2>1. Made(j, "QUEUED") /\ Done(j, j)
    BY <1>3 DEF CallCommits
  <2>2. job' \in [Jobs -> JobRow] /\ events' \in [Jobs -> SUBSET Event]
    <3>1. 1 \in Number /\ "QUEUED" \in Status
      BY DEF Number, Status
    <3>2. Announce(j, 1, "QUEUED", "QUEUED")
      BY <2>1 DEF Made
    <3> QED
      BY <3>1, <3>2, AnnounceTypes
  <2>3. request' \in [Jobs -> JobRequest]
    BY <2>1, DoneEffect
  <2>4. binding' \in [Keys -> Jobs \cup {NoJob}]
    BY <1>3, SubmissionRows DEF CallCommits
  <2> QED
    BY <1>3, <2>2, <2>3, <2>4 DEF CallCommits, SubmissionTypeOK, JobRow
<1>4. ASSUME CallReplays(j) PROVE SubmissionTypeOK'
  <2>1. binding[request[j].key] \in Jobs \cup {NoJob}
    BY <1>4, SubmissionRows DEF CallReplays, Free
  <2>2. request' \in [Jobs -> JobRequest]
    BY <1>4, <2>1, DoneEffect DEF CallReplays
  <2> QED
    BY <1>4, <2>2 DEF CallReplays, SubmissionTypeOK
<1>5. ASSUME Refuse(j) PROVE SubmissionTypeOK'
  <2>1. request' \in [Jobs -> JobRequest]
    BY <1>5, DoneEffect DEF Refuse
  <2> QED
    BY <1>5, <2>1 DEF Refuse, SubmissionTypeOK
<1>6. ASSUME NEW status \in Status, Placed(j, status) PROVE SubmissionTypeOK'
  <2>1. Made(j, status) /\ Done(j, j)
    BY <1>6 DEF Placed
  <2>2. job' \in [Jobs -> JobRow] /\ events' \in [Jobs -> SUBSET Event]
    <3>1. 1 \in Number
      BY DEF Number
    <3>2. Announce(j, 1, status, "QUEUED")
      BY <2>1 DEF Made
    <3> QED
      BY <3>1, <3>2, AnnounceTypes
  <2>3. request' \in [Jobs -> JobRequest]
    BY <2>1, DoneEffect
  <2>4. executor' \in [Jobs -> JobExecutor]
    BY <1>6, ExecutorEffect, SubmissionRows DEF Placed
  <2> QED
    BY <1>6, <2>2, <2>3, <2>4 DEF Placed, SubmissionTypeOK, JobRow
<1>7. ASSUME NEW status \in Status, End(j, status) PROVE SubmissionTypeOK'
  <2>1. executor[j].next \in Number
    BY <1>7, PendingNumbersFit DEF End, Number
  <2>2. job' \in [Jobs -> JobRow] /\ events' \in [Jobs -> SUBSET Event]
    BY <1>7, <2>1, AnnounceTypes DEF End, Status
  <2>3. executor' \in [Jobs -> JobExecutor]
    BY <1>7, ExecutorEffect DEF End
  <2> QED
    BY <1>7, <2>2, <2>3 DEF End, SubmissionTypeOK, JobRow
<1>8. ASSUME Start(j) PROVE SubmissionTypeOK'
  <2>1. executor[j].next \in Number
    BY <1>8, PendingNumbersFit DEF Start, Number
  <2>2. job' \in [Jobs -> JobRow] /\ events' \in [Jobs -> SUBSET Event]
    BY <1>8, <2>1, AnnounceTypes DEF Start, Status
  <2>3. executor' \in [Jobs -> JobExecutor]
    BY <1>8, ExecutorEffect DEF Start
  <2> QED
    BY <1>8, <2>2, <2>3 DEF Start, SubmissionTypeOK, JobRow
<1>9. ASSUME StartNumber(j) \/ Answered(j) PROVE SubmissionTypeOK'
  <2>1. Exists(j) => NextNumber(j) \in Nat
    BY NextNumberFollows DEF MadeByRequest, Number
  <2>2. executor' \in [Jobs -> JobExecutor]
    <3> DEFINE next == IF Exists(j) THEN NextNumber(j) ELSE 0
    <3>1. next \in Nat
      BY <2>1
    <3>2. \E phase \in {"starting", "ending"} :
              executor' = [executor EXCEPT ![j] = [phase |-> phase, next |-> next]]
      BY <1>9 DEF StartNumber, Answered
    <3> HIDE DEF next
    <3> QED
      BY <3>1, <3>2, SubmissionRows
  <2> QED
    BY <1>9, <2>2 DEF StartNumber, Answered, SubmissionTypeOK
<1>10. ASSUME Enter(j) \/ Collide(j) \/ Restart(j) PROVE SubmissionTypeOK'
  <2>1. executor' \in [Jobs -> JobExecutor]
    BY <1>10, ExecutorEffect DEF Enter, Collide, Restart
  <2>2. lost' \in SUBSET Jobs
    BY <1>10 DEF Enter, Collide, Restart, SubmissionTypeOK
  <2> QED
    BY <1>10, <2>1, <2>2 DEF Enter, Collide, Restart, SubmissionTypeOK
<1>11. ASSUME NEW c \in Cancellers, Cancel(j, c) \/ CancelFails(j, c) PROVE SubmissionTypeOK'
  <2>1. canceller' \in [Jobs -> JobCanceller]
    BY <1>11, CancellerEffect DEF Cancel, CancelFails
  <2> QED
    BY <1>11, <2>1 DEF Cancel, CancelFails, SubmissionTypeOK, JobCanceller, CancelRow
<1>12. ASSUME NEW c \in Cancellers, CancelNumber(j, c) PROVE SubmissionTypeOK'
  <2>1. NextNumber(j) \in Nat
    BY <1>12, NextNumberFollows DEF MadeByRequest, CancelNumber, Number
  <2>2. canceller' \in [Jobs -> JobCanceller]
    BY <1>12, <2>1, CancellerEffect DEF CancelNumber
  <2> QED
    BY <1>12, <2>2 DEF CancelNumber, SubmissionTypeOK, JobCanceller, CancelRow
<1>13. ASSUME NEW c \in Cancellers, CancelCommits(j, c) PROVE SubmissionTypeOK'
  <2>1. canceller[j][c].next \in Number
    BY <1>13, PendingNumbersFit DEF CancelCommits
  <2>2. job' \in [Jobs -> JobRow] /\ events' \in [Jobs -> SUBSET Event]
    BY <1>13, <2>1, AnnounceTypes DEF CancelCommits, Status
  <2>3. canceller' \in [Jobs -> JobCanceller]
    BY <1>13, CancellerEffect DEF CancelCommits
  <2> QED
    BY <1>13, <2>2, <2>3 DEF CancelCommits, SubmissionTypeOK, JobRow, JobCanceller, CancelRow
<1>14. ASSUME BeginDelete(j) \/ DeleteFails(j) PROVE SubmissionTypeOK'
  BY <1>14 DEF BeginDelete, DeleteFails, SubmissionTypeOK
<1>15. ASSUME DeleteCommits(j) PROVE SubmissionTypeOK'
  <2>1. job' \in [Jobs -> JobRow] /\ events' \in [Jobs -> SUBSET Event]
    BY <1>15, SubmissionRows DEF DeleteCommits, NotMade, JobRow, Status
  <2>2. binding' \in [Keys -> Jobs \cup {NoJob}]
    BY <1>15, SubmissionRows DEF DeleteCommits, Unbind
  <2> QED
    BY <1>15, <2>1, <2>2 DEF DeleteCommits, SubmissionTypeOK, JobRow
<1> QED
  BY <1>1, <1>2, <1>3, <1>4, <1>5, <1>6, <1>7, <1>8, <1>9, <1>10, <1>11, <1>12,
     <1>13, <1>14, <1>15 DEF Cancels

-----------------------------------------------------------------------------
(* JobSubmission: one job.                                                 *)

\* What SubmissionInv says of one job, its key aside: the timeline ...
Timeline(j) ==
    /\ \A d, e \in events[j] : d.seq = e.seq => d = e
    /\ \A e \in events[j] : (\A d \in events[j] : d.seq <= e.seq) => e.status = job[j].status
    /\ \A e \in events[j] : \A n \in 1 .. e.seq : \E d \in events[j] : d.seq = n
    /\ events[j] # {} => \E e \in events[j] : \A d \in events[j] : d.seq <= e.seq
    /\ Exists(j) <=> events[j] # {}

\* ... the statuses of the job and its run, and who works on it ...
Stage(j) ==
    /\ job[j].status = "SUCCEEDED" <=> job[j].run = "SUCCEEDED"
    /\ job[j].status = "CANCELLED" <=> job[j].run = "CANCELLED"
    /\ job[j].run = "FAILED" => job[j].status = "FAILED"
    /\ Exists(j) => request[j].phase = "over" /\ request[j].answer = j
    /\ executor[j].phase \in {"due", "entered", "starting"} => job[j].status \in {"none", "PREPARING", "CANCELLED"}
    /\ executor[j].phase \in {"waiting", "ending"} => job[j].status \in {"none", "RUNNING", "CANCELLED"}
    /\ executor[j].phase = "idle" => job[j].status \notin {"PREPARING", "RUNNING", "SUCCEEDED"}
    /\ request[j].phase # "over" =>
           executor[j].phase = "idle" /\ NobodyCancels(j) /\ request[j].answer = NoJob
    /\ request[j].way # "endpoint" => request[j].key = NoKey

\* ... and the numbers about to be used.
Numbering(j) ==
    /\ Exists(j) /\ executor[j].phase \in {"starting", "ending"} => Follows(j, executor[j].next)
    /\ \A c \in Cancellers : Exists(j) /\ canceller[j][c].phase = "numbered" =>
           Follows(j, canceller[j][c].next)

\* And what it says of keys.
KeysInv ==
    /\ BindingsLead
    /\ \A j \in Jobs : Exists(j) /\ request[j].key \in Keys => binding[request[j].key] = j
    /\ \A j \in Jobs : request[j].key \in Keys /\ request[j].answer # NoJob =>
           LET answer == request[request[j].answer] IN
           answer.phase = "over" /\ answer.key = request[j].key

LEMMA SubmissionParts ==
    /\ NumbersDiffer /\ LastEventTells /\ RunsAgree /\ MadeByRequest /\ NumbersFollow
          /\ RequestsFirst /\ BindingsLead
       <=> KeysInv /\ \A j \in Jobs : Timeline(j) /\ Stage(j) /\ Numbering(j)
<1>1. ASSUME NumbersDiffer, LastEventTells, RunsAgree, MadeByRequest, NumbersFollow,
             RequestsFirst, BindingsLead
      PROVE  KeysInv /\ \A j \in Jobs : Timeline(j) /\ Stage(j) /\ Numbering(j)
  <2>1. KeysInv
    BY <1>1 DEF KeysInv, MadeByRequest, RequestsFirst
  <2> SUFFICES ASSUME NEW j \in Jobs PROVE Timeline(j) /\ Stage(j) /\ Numbering(j)
    BY <2>1
  <2>2. Timeline(j)
    BY <1>1 DEF Timeline, NumbersDiffer, LastEventTells, MadeByRequest, NumbersFollow
  <2>3. Stage(j)
    BY <1>1 DEF Stage, RunsAgree, MadeByRequest, NumbersFollow, RequestsFirst
  <2>4. Numbering(j)
    BY <1>1 DEF Numbering, NumbersFollow
  <2> QED
    BY <2>2, <2>3, <2>4
<1>2. ASSUME KeysInv, \A j \in Jobs : Timeline(j) /\ Stage(j) /\ Numbering(j)
      PROVE  /\ NumbersDiffer /\ LastEventTells /\ RunsAgree /\ MadeByRequest
             /\ NumbersFollow /\ RequestsFirst /\ BindingsLead
  <2>1. NumbersDiffer /\ LastEventTells
    BY <1>2 DEF Timeline, NumbersDiffer, LastEventTells
  <2>2. RunsAgree
    BY <1>2 DEF Stage, RunsAgree
  <2>3. MadeByRequest
    BY <1>2 DEF Timeline, Stage, KeysInv, MadeByRequest
  <2>4. NumbersFollow
    BY <1>2 DEF Timeline, Stage, Numbering, NumbersFollow
  <2>5. RequestsFirst /\ BindingsLead
    BY <1>2 DEF Stage, KeysInv, RequestsFirst
  <2> QED
    BY <2>1, <2>2, <2>3, <2>4, <2>5
<1> QED
  BY <1>1, <1>2

\* An event after the last one, or the first event of a job.
LEMMA TimelineGrows ==
    ASSUME SubmissionTypeOK, NEW j \in Jobs, NEW n \in Number, Timeline(j),
           NEW status \in Status \ {"none"},
           NEW run \in {"QUEUED", "RUNNING", "SUCCEEDED", "FAILED", "CANCELLED"},
           Announce(j, n, status, run),
           \A e \in events[j] : e.seq < n,
           n = 1 \/ Follows(j, n)
    PROVE  Timeline(j)'
<1> DEFINE new == [seq |-> n, status |-> status]
<1>1. /\ job'[j].status = status
      /\ events'[j] = events[j] \cup {new}
  <2>1. /\ job'[j] = [status |-> status, run |-> run]
        /\ events'[j] = events[j] \cup {new}
    BY SubmissionRows DEF Announce
  <2> QED
    BY <2>1
<1>2. new.seq = n /\ new.status = status
  OBVIOUS
<1>3. \A e \in events[j] : e.seq \in Nat \ {0}
  BY DEF SubmissionTypeOK, Event, Number
<1>4. n \in Nat \ {0}
  BY DEF Number
<1> HIDE DEF new
<1>5. \A d, e \in events'[j] : d.seq = e.seq => d = e
  BY <1>1, <1>2, <1>3, <1>4 DEF Timeline
<1>6. \A e \in events'[j] : (\A d \in events'[j] : d.seq <= e.seq) => e.status = job'[j].status
  <2> SUFFICES ASSUME NEW e \in events'[j], \A d \in events'[j] : d.seq <= e.seq
               PROVE  e.status = status
    BY <1>1
  <2>1. new.seq <= e.seq
    BY <1>1
  <2>2. e = new
    BY <1>1, <1>2, <1>3, <1>4, <2>1
  <2> QED
    BY <1>2, <2>2
<1>7. \A e \in events'[j] : \A m \in 1 .. e.seq : \E d \in events'[j] : d.seq = m
  <2> SUFFICES ASSUME NEW e \in events'[j], NEW m \in 1 .. e.seq
               PROVE  \E d \in events'[j] : d.seq = m
    OBVIOUS
  <2>1. CASE e \in events[j]
    BY <1>1, <2>1 DEF Timeline
  <2>2. CASE e = new /\ m = n
    BY <1>1, <1>2, <2>2
  <2>3. CASE e = new /\ m # n
    <3>1. Follows(j, n) /\ m \in 1 .. n - 1
      BY <1>2, <1>4, <2>3
    <3>2. PICK d \in events[j] : d.seq = n - 1
      BY <3>1 DEF Follows
    <3> QED
      BY <1>1, <3>1, <3>2 DEF Timeline
  <2> QED
    BY <1>1, <2>1, <2>2, <2>3
<1>8. \A d \in events'[j] : d.seq <= new.seq
  BY <1>1, <1>2, <1>3, <1>4
<1> QED
  BY <1>1, <1>5, <1>6, <1>7, <1>8 DEF Timeline, Exists

\* A step of one job leaves every other job as it is, their keys aside.
LEMMA OtherJobs ==
    ASSUME SubmissionTypeOK, SubmissionTypeOK', NEW i \in Jobs, NEW j \in Jobs, i # j,
           \/ \E way \in Way : Begin(j, way)
           \/ \E key \in Keys \cup {NoKey} : Call(j, key)
           \/ CallCommits(j) \/ CallReplays(j) \/ Refuse(j)
           \/ \E status \in Status : Placed(j, status)
           \/ \E status \in Status : End(j, status)
           \/ Enter(j) \/ StartNumber(j) \/ Start(j) \/ Answered(j)
           \/ Collide(j) \/ Restart(j)
           \/ \E c \in Cancellers : Cancels(j, c)
           \/ BeginDelete(j) \/ DeleteCommits(j) \/ DeleteFails(j)
    PROVE  /\ job'[i] = job[i] /\ events'[i] = events[i] /\ request'[i] = request[i]
           /\ executor'[i] = executor[i] /\ canceller'[i] = canceller[i]
<1>1. ASSUME \/ \E way \in Way : Begin(j, way)
             \/ \E key \in Keys \cup {NoKey} : Call(j, key)
             \/ CallReplays(j) \/ Refuse(j)
      PROVE  request'[i] = request[i] /\ UNCHANGED <<job, events, executor, canceller>>
  BY <1>1, SubmissionRows DEF Begin, Call, CallReplays, Refuse, Open, Done
<1>2. ASSUME CallCommits(j) \/ \E status \in Status : Placed(j, status)
      PROVE  /\ job'[i] = job[i] /\ events'[i] = events[i] /\ request'[i] = request[i]
             /\ executor'[i] = executor[i] /\ UNCHANGED canceller
  BY <1>2, SubmissionRows DEF CallCommits, Placed, Made, Announce, Done
<1>3. ASSUME \/ \E status \in Status : End(j, status)
             \/ Enter(j) \/ StartNumber(j) \/ Start(j) \/ Answered(j)
             \/ Collide(j) \/ Restart(j)
      PROVE  /\ job'[i] = job[i] /\ events'[i] = events[i] /\ executor'[i] = executor[i]
             /\ UNCHANGED <<request, canceller>>
  BY <1>3, SubmissionRows
     DEF End, Enter, StartNumber, Start, Answered, Collide, Restart, Announce
<1>4. ASSUME BeginDelete(j) \/ DeleteCommits(j) \/ DeleteFails(j)
      PROVE  /\ job'[i] = job[i] /\ events'[i] = events[i] /\ canceller'[i] = canceller[i]
             /\ UNCHANGED <<request, executor>>
  BY <1>4, SubmissionRows DEF BeginDelete, DeleteCommits, DeleteFails
<1>5. ASSUME NEW c \in Cancellers, Cancels(j, c)
      PROVE  /\ job'[i] = job[i] /\ events'[i] = events[i] /\ canceller'[i] = canceller[i]
             /\ UNCHANGED <<request, executor>>
  BY <1>5, SubmissionRows
     DEF Cancels, Cancel, CancelNumber, CancelCommits, CancelFails, Cancelling, Announce
<1> QED
  BY <1>1, <1>2, <1>3, <1>4, <1>5

\* The step that makes a job.
LEMMA MadeStep ==
    ASSUME SubmissionTypeOK, NEW j \in Jobs, Timeline(j), Stage(j), Numbering(j),
           request[j].phase = "open",
           NEW status \in {"BLOCKED", "QUEUED", "FAILED", "PREPARING"},
           Made(j, status), Done(j, j), UNCHANGED canceller,
           IF status = "PREPARING" THEN executor' = [executor EXCEPT ![j].phase = "due"]
           ELSE UNCHANGED executor
    PROVE  Timeline(j)' /\ Stage(j)' /\ Numbering(j)'
<1> DEFINE new == [seq |-> 1, status |-> status]
<1>1. 1 \in Number /\ status \in Status \ {"none"}
  BY DEF Number, Status
<1>2. Announce(j, 1, status, "QUEUED")
  BY DEF Made
<1>3. /\ job'[j] = [status |-> status, run |-> "QUEUED"]
      /\ events'[j] = events[j] \cup {new}
  BY <1>2, SubmissionRows DEF Announce
<1>4. job'[j].status = status /\ job'[j].run = "QUEUED" /\ new.seq = 1
  BY <1>3
<1>5. /\ request'[j].phase = "over" /\ request'[j].answer = j
      /\ request'[j].key = request[j].key /\ request'[j].way = request[j].way
  BY DoneEffect
<1>6. ~Exists(j) /\ events[j] = {} /\ executor[j].phase = "idle" /\ NobodyCancels(j)
  BY DEF Stage, Timeline
<1>7. executor'[j].phase = IF status = "PREPARING" THEN "due" ELSE "idle"
  BY <1>6, ExecutorEffect
<1>8. Timeline(j)'
  BY <1>1, <1>2, <1>6, TimelineGrows
<1> HIDE DEF new
<1>9. Stage(j)'
  BY <1>4, <1>5, <1>6, <1>7 DEF Stage, Exists, NobodyCancels
<1>10. Numbering(j)'
  BY <1>4, <1>6, <1>7 DEF Numbering, NobodyCancels
<1> QED
  BY <1>8, <1>9, <1>10

\* An append of the executor or of a canceller: job, event and number.
LEMMA AppendStep ==
    ASSUME SubmissionTypeOK, NumbersFollow, NEW j \in Jobs, Timeline(j), NEW n \in Number,
           NEW status \in {"RUNNING", "SUCCEEDED", "FAILED", "CANCELLED"},
           Announce(j, n, status, status), Follows(j, n), \A e \in events[j] : e.seq < n
    PROVE  /\ Timeline(j)'
           /\ job'[j].status = status /\ job'[j].run = status
           /\ \A m \in Nat : Follows(j, m) => Follows(j, m)'
<1> DEFINE new == [seq |-> n, status |-> status]
<1>1. status \in Status \ {"none"} /\ status \in Status
  BY DEF Status
<1>2. /\ job'[j] = [status |-> status, run |-> status]
      /\ events'[j] = events[j] \cup {new}
  BY SubmissionRows DEF Announce
<1>3. new.seq = n /\ job'[j].status = status /\ job'[j].run = status
  BY <1>2
<1>4. Timeline(j)'
  BY <1>1, TimelineGrows
<1> HIDE DEF new
<1> QED
  BY <1>2, <1>3, <1>4 DEF Follows

\* A step keeps what is known of the job it is about.
LEMMA OneJobStep ==
    ASSUME SubmissionTypeOK, NumbersFollow, NEW j \in Jobs,
           Timeline(j), Stage(j), Numbering(j),
           \/ \E way \in Way : Begin(j, way)
           \/ \E key \in Keys \cup {NoKey} : Call(j, key)
           \/ CallCommits(j) \/ CallReplays(j) \/ Refuse(j)
           \/ \E status \in Status : Placed(j, status)
           \/ \E status \in Status : End(j, status)
           \/ Enter(j) \/ StartNumber(j) \/ Start(j) \/ Answered(j)
           \/ Collide(j) \/ Restart(j)
           \/ \E c \in Cancellers : Cancels(j, c)
           \/ BeginDelete(j) \/ DeleteCommits(j) \/ DeleteFails(j)
    PROVE  Timeline(j)' /\ Stage(j)' /\ Numbering(j)'
<1>0. executor[j].next \in Nat /\ \A c \in Cancellers : canceller[j][c].next \in Nat
  BY NumbersRead
<1>1. ASSUME NEW way \in Way, Begin(j, way) PROVE Timeline(j)' /\ Stage(j)' /\ Numbering(j)'
  <2>1. /\ request'[j].phase = "open" /\ request'[j].way = way /\ request'[j].key = NoKey
        /\ way # "endpoint" /\ request[j].phase = "idle" /\ request'[j].answer = NoJob
        /\ UNCHANGED <<job, events, executor, canceller>>
    BY <1>1, SubmissionRows DEF Begin, Open
  <2>2. ~Exists(j)
    BY <2>1 DEF Stage
  <2>3. Timeline(j)' /\ Numbering(j)'
    BY <2>1 DEF Timeline, Numbering, Follows, Exists
  <2>4. Stage(j)'
    BY <2>1, <2>2 DEF Stage, Exists, NobodyCancels
  <2> QED
    BY <2>3, <2>4
<1>2. ASSUME NEW key \in Keys \cup {NoKey}, Call(j, key)
      PROVE  Timeline(j)' /\ Stage(j)' /\ Numbering(j)'
  <2>1. /\ request[j].phase = "idle" /\ request'[j].way = "endpoint"
        /\ request'[j].phase = "over" \/ request'[j].answer = NoJob
        /\ UNCHANGED <<job, events, executor, canceller>>
    BY <1>2, SubmissionRows DEF Call, Open
  <2>2. ~Exists(j) /\ executor[j].phase = "idle" /\ NobodyCancels(j)
    BY <2>1 DEF Stage
  <2>3. Timeline(j)' /\ Numbering(j)'
    BY <2>1 DEF Timeline, Numbering, Follows, Exists
  <2>4. Stage(j)'
    BY <2>1, <2>2 DEF Stage, Exists, NobodyCancels
  <2> QED
    BY <2>3, <2>4
<1>3. ASSUME CallReplays(j) \/ Refuse(j) PROVE Timeline(j)' /\ Stage(j)' /\ Numbering(j)'
  <2>1. \E answer \in Jobs \cup {NoJob} : Done(j, answer)
    BY <1>3, SubmissionRows DEF CallReplays, Refuse, Free
  <2>2. /\ request'[j].phase = "over" /\ request[j].phase = "open"
        /\ request'[j].key = request[j].key /\ request'[j].way = request[j].way
        /\ UNCHANGED <<job, events, executor, canceller>>
    BY <1>3, <2>1, DoneEffect DEF CallReplays, Refuse
  <2>3. Timeline(j)' /\ Numbering(j)'
    BY <2>2 DEF Timeline, Numbering, Follows, Exists
  <2>4. Stage(j)'
    BY <2>2 DEF Stage, Exists, NobodyCancels
  <2> QED
    BY <2>3, <2>4
<1>4. ASSUME CallCommits(j) PROVE Timeline(j)' /\ Stage(j)' /\ Numbering(j)'
  <2>1. /\ request[j].phase = "open" /\ Made(j, "QUEUED") /\ Done(j, j)
        /\ UNCHANGED <<executor, canceller>>
    BY <1>4 DEF CallCommits
  <2> QED
    BY <2>1, MadeStep
<1>5. ASSUME NEW status \in Status, Placed(j, status)
      PROVE  Timeline(j)' /\ Stage(j)' /\ Numbering(j)'
  <2>1. /\ request[j].phase = "open" /\ Made(j, status) /\ Done(j, j) /\ UNCHANGED canceller
        /\ status \in {"BLOCKED", "QUEUED", "FAILED", "PREPARING"}
        /\ IF status = "PREPARING" THEN executor' = [executor EXCEPT ![j].phase = "due"]
           ELSE UNCHANGED executor
    BY <1>5 DEF Placed
  <2> QED
    BY <2>1, MadeStep
<1>6. ASSUME NEW status \in Status, End(j, status)
      PROVE  Timeline(j)' /\ Stage(j)' /\ Numbering(j)'
  <2> DEFINE n == executor[j].next
  <2>1. /\ executor[j].phase = "ending" /\ status \in {"SUCCEEDED", "FAILED"}
        /\ Appendable(j, n) /\ Announce(j, n, status, status)
        /\ UNCHANGED <<request, canceller>>
    BY <1>6 DEF End
  <2>2. n \in Number /\ Follows(j, n) /\ \A e \in events[j] : e.seq < n
    BY <2>1, PendingNumbersFit
  <2>3. executor'[j].phase = "over"
    BY <1>6, ExecutorEffect DEF End
  <2> HIDE DEF n
  <2>4. /\ Timeline(j)' /\ job'[j].status = status /\ job'[j].run = status
        /\ \A m \in Nat : Follows(j, m) => Follows(j, m)'
    BY <2>1, <2>2, AppendStep
  <2>5. Exists(j)
    BY <2>1 DEF Appendable
  <2>6. Stage(j)'
    BY <2>1, <2>3, <2>4, <2>5 DEF Stage, Exists, NobodyCancels
  <2> QED
    BY <1>0, <2>1, <2>3, <2>4, <2>5, <2>6 DEF Numbering
<1>7. ASSUME Start(j) PROVE Timeline(j)' /\ Stage(j)' /\ Numbering(j)'
  <2> DEFINE n == executor[j].next
  <2>1. /\ executor[j].phase = "starting"
        /\ Appendable(j, n) /\ Announce(j, n, "RUNNING", "RUNNING")
        /\ UNCHANGED <<request, canceller>>
    BY <1>7 DEF Start
  <2>2. n \in Number /\ Follows(j, n) /\ \A e \in events[j] : e.seq < n
    BY <2>1, PendingNumbersFit
  <2>3. executor'[j].phase = "waiting"
    BY <1>7, ExecutorEffect DEF Start
  <2> HIDE DEF n
  <2>4. /\ Timeline(j)' /\ job'[j].status = "RUNNING" /\ job'[j].run = "RUNNING"
        /\ \A m \in Nat : Follows(j, m) => Follows(j, m)'
    BY <2>1, <2>2, AppendStep
  <2>5. Exists(j)
    BY <2>1 DEF Appendable
  <2>6. Stage(j)'
    BY <2>1, <2>3, <2>4, <2>5 DEF Stage, Exists, NobodyCancels
  <2> QED
    BY <1>0, <2>1, <2>3, <2>4, <2>5, <2>6 DEF Numbering
<1>8. ASSUME StartNumber(j) \/ Answered(j) PROVE Timeline(j)' /\ Stage(j)' /\ Numbering(j)'
  <2>1. /\ \/ executor[j].phase = "entered" /\ executor'[j].phase = "starting"
           \/ executor[j].phase = "waiting" /\ executor'[j].phase = "ending"
        /\ executor'[j].next = IF Exists(j) THEN NextNumber(j) ELSE 0
        /\ UNCHANGED <<job, events, request, canceller>>
    BY <1>8, SubmissionRows DEF StartNumber, Answered
  <2>2. Exists(j) => Follows(j, NextNumber(j))
    BY NextNumberFollows DEF Timeline
  <2>3. Timeline(j)'
    BY <2>1 DEF Timeline, Exists
  <2>4. Stage(j)'
    BY <2>1 DEF Stage, Exists, NobodyCancels
  <2>5. Numbering(j)'
    BY <2>1, <2>2 DEF Numbering, Follows, Exists
  <2> QED
    BY <2>3, <2>4, <2>5
<1>9. ASSUME Enter(j) PROVE Timeline(j)' /\ Stage(j)' /\ Numbering(j)'
  <2>1. /\ executor[j].phase = "due"
        /\ executor'[j].phase = IF job[j].status \in {"none", "CANCELLED"} THEN "over" ELSE "entered"
        /\ UNCHANGED <<job, events, request, canceller>>
    BY <1>9, ExecutorEffect DEF Enter
  <2>2. Timeline(j)'
    BY <2>1 DEF Timeline, Exists
  <2>3. Stage(j)'
    BY <2>1 DEF Stage, Exists, NobodyCancels
  <2> QED
    BY <2>1, <2>2, <2>3 DEF Numbering, Follows, Exists
<1>10. ASSUME Collide(j) \/ Restart(j) PROVE Timeline(j)' /\ Stage(j)' /\ Numbering(j)'
  <2>1. /\ executor[j].phase \notin {"idle", "over"} /\ executor'[j].phase = "over"
        /\ UNCHANGED <<job, events, request, canceller>>
    BY <1>10, ExecutorEffect DEF Collide, Restart
  <2>2. Timeline(j)'
    BY <2>1 DEF Timeline, Exists
  <2>3. Stage(j)'
    BY <2>1 DEF Stage, Exists, NobodyCancels
  <2> QED
    BY <2>1, <2>2, <2>3 DEF Numbering, Follows, Exists
<1>11. ASSUME NEW c \in Cancellers, Cancel(j, c)
       PROVE  Timeline(j)' /\ Stage(j)' /\ Numbering(j)'
  <2>1. /\ canceller'[j][c].phase = "read" /\ Exists(j)
        /\ \A d \in Cancellers \ {c} : canceller'[j][d] = canceller[j][d]
        /\ UNCHANGED <<job, events, request, executor>>
    BY <1>11, CancellerEffect DEF Cancel, Cancellable
  <2>2. Timeline(j)'
    BY <2>1 DEF Timeline, Exists
  <2>3. Stage(j)'
    BY <2>1 DEF Stage, Exists, NobodyCancels
  <2>4. Numbering(j)'
    BY <2>1 DEF Numbering, Follows, Exists
  <2> QED
    BY <2>2, <2>3, <2>4
<1>12. ASSUME NEW c \in Cancellers, CancelNumber(j, c)
       PROVE  Timeline(j)' /\ Stage(j)' /\ Numbering(j)'
  <2>1. Exists(j) /\ Cancelling(j, c, "numbered", NextNumber(j))
        /\ UNCHANGED <<job, events, request, executor>>
    BY <1>12 DEF CancelNumber
  <2>2. Follows(j, NextNumber(j)) /\ NextNumber(j) \in Nat
    BY <2>1, NextNumberFollows DEF Timeline, Number
  <2>3. /\ canceller'[j][c].next = NextNumber(j)
        /\ \A d \in Cancellers \ {c} : canceller'[j][d] = canceller[j][d]
    BY <2>1, <2>2, CancellerEffect
  <2>4. Timeline(j)'
    BY <2>1 DEF Timeline, Exists
  <2>5. Stage(j)'
    BY <2>1 DEF Stage, Exists, NobodyCancels
  <2>6. Numbering(j)'
    BY <2>1, <2>2, <2>3 DEF Numbering, Follows, Exists
  <2> QED
    BY <2>4, <2>5, <2>6
<1>13. ASSUME NEW c \in Cancellers, CancelCommits(j, c)
       PROVE  Timeline(j)' /\ Stage(j)' /\ Numbering(j)'
  <2> DEFINE n == canceller[j][c].next
  <2>1. /\ canceller[j][c].phase = "numbered"
        /\ Appendable(j, n) /\ Announce(j, n, "CANCELLED", "CANCELLED")
        /\ UNCHANGED <<request, executor>>
    BY <1>13 DEF CancelCommits
  <2>2. n \in Number /\ Follows(j, n) /\ \A e \in events[j] : e.seq < n
    BY <2>1, PendingNumbersFit
  <2>3. /\ canceller'[j][c].phase = "idle"
        /\ \A d \in Cancellers \ {c} : canceller'[j][d] = canceller[j][d]
    BY <1>13, CancellerEffect DEF CancelCommits
  <2> HIDE DEF n
  <2>4. /\ Timeline(j)' /\ job'[j].status = "CANCELLED" /\ job'[j].run = "CANCELLED"
        /\ \A m \in Nat : Follows(j, m) => Follows(j, m)'
    BY <2>1, <2>2, AppendStep
  <2>5. Exists(j)
    BY <2>1 DEF Appendable
  <2>6. Stage(j)'
    BY <2>1, <2>4, <2>5 DEF Stage, Exists, NobodyCancels
  <2> QED
    BY <1>0, <2>1, <2>3, <2>4, <2>5, <2>6 DEF Numbering
<1>14. ASSUME NEW c \in Cancellers, CancelFails(j, c)
       PROVE  Timeline(j)' /\ Stage(j)' /\ Numbering(j)'
  <2>1. /\ canceller'[j][c].phase = "idle"
        /\ \A d \in Cancellers \ {c} : canceller'[j][d] = canceller[j][d]
        /\ UNCHANGED <<job, events, request, executor>>
    BY <1>14, CancellerEffect DEF CancelFails
  <2>2. Timeline(j)'
    BY <2>1 DEF Timeline, Exists
  <2>3. Stage(j)'
    BY <2>1 DEF Stage, Exists, NobodyCancels
  <2>4. Numbering(j)'
    BY <2>1 DEF Numbering, Follows, Exists
  <2> QED
    BY <2>2, <2>3, <2>4
<1>15. ASSUME BeginDelete(j) \/ DeleteFails(j) PROVE Timeline(j)' /\ Stage(j)' /\ Numbering(j)'
  <2>1. UNCHANGED <<job, events, request, executor, canceller>>
    BY <1>15 DEF BeginDelete, DeleteFails
  <2> QED
    BY <2>1 DEF Timeline, Stage, Numbering, Follows, Exists, NobodyCancels
<1>16. ASSUME DeleteCommits(j) PROVE Timeline(j)' /\ Stage(j)' /\ Numbering(j)'
  <2>1. /\ job'[j].status = "none" /\ job'[j].run = "none" /\ events'[j] = {}
        /\ UNCHANGED <<request, executor, canceller>>
    BY <1>16, SubmissionRows DEF DeleteCommits, NotMade
  <2> QED
    BY <2>1 DEF Timeline, Stage, Numbering, Exists, NobodyCancels
<1> QED
  BY <1>1, <1>2, <1>3, <1>4, <1>5, <1>6, <1>7, <1>8, <1>9, <1>10, <1>11, <1>12,
     <1>13, <1>14, <1>15, <1>16 DEF Cancels

-----------------------------------------------------------------------------
(* JobSubmission: keys.                                                    *)

\* A binding leads to the job of its key, and the answer of a call is bound as
\* long as it is there: calls with one key are answered with one job.
LEMMA KeysGiveOneJob ==
    ASSUME SubmissionTypeOK, KeysInv
    PROVE  OneJobPerKey
<1> SUFFICES ASSUME NEW c \in Jobs, NEW d \in Jobs,
                    request[c].key = request[d].key, request[c].key \in Keys,
                    \A r \in {c, d} : request[r].answer # NoJob /\ Exists(request[r].answer)
             PROVE  request[c].answer = request[d].answer
  BY DEF OneJobPerKey
<1>1. request[c].answer \in Jobs /\ request[d].answer \in Jobs
  BY SubmissionRows DEF JobRequest
<1>2. binding[request[c].key] = request[c].answer
  BY <1>1 DEF KeysInv
<1>3. binding[request[d].key] = request[d].answer
  BY <1>1 DEF KeysInv
<1> QED
  BY <1>2, <1>3

\* A request that is answered with a job of its key, or with none, keeps the rest.
LEMMA KeysAnswered ==
    ASSUME SubmissionTypeOK, KeysInv, NEW j \in Jobs, NEW answer \in Jobs \cup {NoJob},
           \A i \in Jobs \ {j} : request'[i] = request[i],
           request'[j].phase = "over", request'[j].answer = answer,
           request[j].phase # "over",
           ~Exists(j),
           request'[j].key \in Keys /\ answer # NoJob =>
               answer \in Jobs \ {j} /\ request[answer].phase = "over"
               /\ request[answer].key = request'[j].key,
           UNCHANGED <<job, binding>>
    PROVE  KeysInv'
<1>1. \A k \in Keys : binding[k] # NoJob => binding[k] \in Jobs \ {j}
  BY SubmissionRows DEF KeysInv, BindingsLead
<1>2. BindingsLead'
  BY <1>1 DEF KeysInv, BindingsLead, Exists
<1>3. \A i \in Jobs : Exists(i)' /\ request'[i].key \in Keys => binding'[request'[i].key] = i
  BY DEF KeysInv, Exists
<1>4. ASSUME NEW i \in Jobs, request'[i].key \in Keys, request'[i].answer # NoJob
      PROVE  /\ request'[request'[i].answer].phase = "over"
             /\ request'[request'[i].answer].key = request'[i].key
  <2>1. CASE i = j
    BY <1>4, <2>1
  <2>2. CASE i # j
    <3>1. /\ request'[i] = request[i] /\ request[i].answer \in Jobs
          /\ request[request[i].answer].phase = "over"
          /\ request[request[i].answer].key = request[i].key
      BY <1>4, <2>2, SubmissionRows DEF KeysInv, JobRequest
    <3>2. request[i].answer # j
      BY <3>1
    <3> QED
      BY <3>1, <3>2
  <2> QED
    BY <2>1, <2>2
<1> QED
  BY <1>2, <1>3, <1>4 DEF KeysInv

\* The step that makes a job, bound to its key if it has one.
LEMMA KeysMade ==
    ASSUME SubmissionTypeOK, KeysInv, NEW j \in Jobs,
           \A i \in Jobs \ {j} : request'[i] = request[i] /\ job'[i] = job[i],
           request'[j].phase = "over", request'[j].answer = j,
           request'[j].key = request[j].key,
           request[j].phase # "over",
           ~Exists(j), Exists(j)',
           IF request[j].key \in Keys
           THEN binding[request[j].key] = NoJob /\ binding' = [binding EXCEPT ![request[j].key] = j]
           ELSE UNCHANGED binding
    PROVE  KeysInv'
<1>1. \A k \in Keys : binding[k] # NoJob => binding[k] \in Jobs \ {j}
  BY SubmissionRows DEF KeysInv, BindingsLead
<1>2. j # NoJob
  BY SubmissionAssumption
<1>3. \A k \in Keys : binding'[k] = IF k = request[j].key THEN j ELSE binding[k]
  BY SubmissionRows
<1>4. BindingsLead'
  <2> SUFFICES ASSUME NEW k \in Keys, binding'[k] # NoJob
               PROVE  job'[binding'[k]].status # "none" /\ request'[binding'[k]].key = k
    BY DEF BindingsLead, Exists
  <2>1. CASE k = request[j].key
    BY <1>3, <2>1 DEF Exists
  <2>2. CASE k # request[j].key
    BY <1>1, <1>3, <2>2 DEF KeysInv, BindingsLead, Exists
  <2> QED
    BY <2>1, <2>2
<1>5. ASSUME NEW i \in Jobs, Exists(i)', request'[i].key \in Keys
      PROVE  binding'[request'[i].key] = i
  <2>1. CASE i = j
    BY <1>3, <1>5, <2>1
  <2>2. CASE i # j
    <3>1. binding[request[i].key] = i /\ request'[i] = request[i]
      BY <1>5, <2>2 DEF KeysInv, Exists
    <3>2. i # NoJob
      BY SubmissionAssumption
    <3> QED
      BY <1>3, <1>5, <2>2, <3>1, <3>2
  <2> QED
    BY <2>1, <2>2
<1>6. ASSUME NEW i \in Jobs, request'[i].key \in Keys, request'[i].answer # NoJob
      PROVE  /\ request'[request'[i].answer].phase = "over"
             /\ request'[request'[i].answer].key = request'[i].key
  <2>1. CASE i = j
    BY <1>6, <2>1
  <2>2. CASE i # j
    <3>1. /\ request'[i] = request[i] /\ request[i].answer \in Jobs
          /\ request[request[i].answer].phase = "over"
          /\ request[request[i].answer].key = request[i].key
      BY <1>6, <2>2, SubmissionRows DEF KeysInv, JobRequest
    <3>2. request[i].answer # j
      BY <3>1
    <3> QED
      BY <3>1, <3>2
  <2> QED
    BY <2>1, <2>2
<1> QED
  BY <1>4, <1>5, <1>6 DEF KeysInv

\* A step that makes, deletes and answers nothing keeps the keys.
LEMMA KeysKept ==
    ASSUME SubmissionTypeOK, KeysInv, UNCHANGED <<request, binding>>,
           \A i \in Jobs : Exists(i)' <=> Exists(i)
    PROVE  KeysInv'
<1>1. \A k \in Keys : binding[k] \in Jobs \cup {NoJob}
  BY SubmissionRows
<1>2. BindingsLead'
  BY <1>1 DEF KeysInv, BindingsLead
<1> QED
  BY <1>2 DEF KeysInv

LEMMA KeysStep ==
    ASSUME SubmissionTypeOK, NumbersFollow, KeysInv, NEW j \in Jobs,
           \A i \in Jobs : Timeline(i) /\ Stage(i) /\ Numbering(i),
           \/ \E way \in Way : Begin(j, way)
           \/ \E key \in Keys \cup {NoKey} : Call(j, key)
           \/ CallCommits(j) \/ CallReplays(j) \/ Refuse(j)
           \/ \E status \in Status : Placed(j, status) /\ request[j].way # "endpoint"
           \/ \E status \in Status : End(j, status)
           \/ Enter(j) \/ StartNumber(j) \/ Start(j) \/ Answered(j)
           \/ Collide(j) \/ Restart(j)
           \/ \E c \in Cancellers : Cancels(j, c)
           \/ BeginDelete(j) \/ DeleteCommits(j) \/ DeleteFails(j)
    PROVE  KeysInv'
<1>0. \A k \in Keys : binding[k] \in Jobs \cup {NoJob}
  BY SubmissionRows
<1>1. ASSUME NEW way \in Way, NEW key \in Keys \cup {NoKey},
             request[j].phase = "idle", Open(j, way, key), UNCHANGED <<job, binding>>
      PROVE  KeysInv'
  <2>1. ~Exists(j) /\ request'[j].answer = NoJob
        /\ \A i \in Jobs \ {j} : request'[i] = request[i]
    BY <1>1, SubmissionRows DEF Open, Stage
  <2>2. \A k \in Keys : binding[k] # NoJob => binding[k] \in Jobs \ {j}
    BY <1>0, <2>1 DEF KeysInv, BindingsLead
  <2>3. BindingsLead'
    BY <1>1, <2>1, <2>2 DEF KeysInv, BindingsLead, Exists
  <2>4. ASSUME NEW i \in Jobs, request'[i].key \in Keys, request'[i].answer # NoJob
        PROVE  /\ request'[request'[i].answer].phase = "over"
               /\ request'[request'[i].answer].key = request'[i].key
    <3>1. /\ i # j /\ request'[i] = request[i] /\ request[i].answer \in Jobs
          /\ request[request[i].answer].phase = "over"
          /\ request[request[i].answer].key = request[i].key
      BY <2>1, <2>4, SubmissionRows DEF KeysInv, JobRequest
    <3>2. request[i].answer # j
      BY <1>1, <3>1
    <3> QED
      BY <2>1, <3>1, <3>2
  <2> QED
    BY <1>1, <2>1, <2>3, <2>4 DEF KeysInv, Exists
<1>2. ASSUME NEW way \in Way, Begin(j, way) PROVE KeysInv'
  BY <1>1, <1>2 DEF Begin
<1>3. ASSUME NEW key \in Keys \cup {NoKey}, Call(j, key) PROVE KeysInv'
  <2>1. CASE Free(key)
    BY <1>1, <1>3, <2>1 DEF Call, Way
  <2>2. CASE ~Free(key)
    <3>1. /\ key \in Keys /\ binding[key] \in Jobs
          /\ request[binding[key]].key = key /\ Exists(binding[key])
      BY <1>0, <2>2 DEF Free, KeysInv, BindingsLead
    <3>2. request[binding[key]].phase = "over"
      BY <3>1 DEF Stage
    <3>3. /\ request[j].phase = "idle" /\ UNCHANGED <<job, binding>>
          /\ \A i \in Jobs \ {j} : request'[i] = request[i]
          /\ request'[j].phase = "over" /\ request'[j].answer = binding[key]
          /\ request'[j].key = key
      BY <1>3, <2>2, SubmissionRows DEF Call
    <3>4. ~Exists(j) /\ binding[key] # j
      BY <3>2, <3>3 DEF Stage
    <3> QED
      BY <3>1, <3>2, <3>3, <3>4, KeysAnswered
  <2> QED
    BY <2>1, <2>2
<1>4. ASSUME CallReplays(j) PROVE KeysInv'
  <2> DEFINE key == request[j].key
  <2>1. /\ key \in Keys /\ binding[key] \in Jobs
        /\ request[binding[key]].key = key /\ Exists(binding[key])
    BY <1>0, <1>4 DEF CallReplays, Free, KeysInv, BindingsLead
  <2>2. request[binding[key]].phase = "over"
    BY <2>1 DEF Stage
  <2>3. /\ request[j].phase = "open" /\ UNCHANGED <<job, binding>> /\ Done(j, binding[key])
    BY <1>4 DEF CallReplays
  <2>4. ~Exists(j) /\ binding[key] # j
    BY <2>2, <2>3 DEF Stage
  <2>5. /\ \A i \in Jobs \ {j} : request'[i] = request[i]
        /\ request'[j].phase = "over" /\ request'[j].answer = binding[key]
        /\ request'[j].key = key
    BY <2>1, <2>3, DoneEffect
  <2> QED
    BY <2>1, <2>2, <2>3, <2>4, <2>5, KeysAnswered
<1>5. ASSUME Refuse(j) PROVE KeysInv'
  <2>1. /\ request[j].phase = "open" /\ UNCHANGED <<job, binding>> /\ Done(j, NoJob)
    BY <1>5 DEF Refuse
  <2>2. ~Exists(j)
    BY <2>1 DEF Stage
  <2>3. /\ \A i \in Jobs \ {j} : request'[i] = request[i]
        /\ request'[j].phase = "over" /\ request'[j].answer = NoJob
    BY <2>1, DoneEffect
  <2> QED
    BY <2>1, <2>2, <2>3, KeysAnswered
<1>6. ASSUME NEW status \in Status, status # "none", Made(j, status), Done(j, j),
             request[j].phase = "open",
             IF request[j].key \in Keys
             THEN binding[request[j].key] = NoJob /\ binding' = [binding EXCEPT ![request[j].key] = j]
             ELSE UNCHANGED binding
      PROVE  KeysInv'
  <2>1. ~Exists(j)
    BY <1>6 DEF Stage
  <2>2. Exists(j)' /\ \A i \in Jobs \ {j} : job'[i] = job[i]
    BY <1>6, SubmissionRows DEF Made, Announce, Exists
  <2>3. /\ \A i \in Jobs \ {j} : request'[i] = request[i]
        /\ request'[j].phase = "over" /\ request'[j].answer = j
        /\ request'[j].key = request[j].key
    BY <1>6, DoneEffect
  <2> QED
    BY <1>6, <2>1, <2>2, <2>3, KeysMade
<1>7. ASSUME CallCommits(j) PROVE KeysInv'
  <2>1. "QUEUED" \in Status
    BY DEF Status
  <2> QED
    BY <1>6, <1>7, <2>1 DEF CallCommits, Free
<1>8. ASSUME NEW status \in Status, Placed(j, status), request[j].way # "endpoint" PROVE KeysInv'
  <2>1. request[j].key \notin Keys
    BY <1>8, SubmissionAssumption DEF Stage
  <2> QED
    BY <1>6, <1>8, <2>1 DEF Placed
<1>9. ASSUME NEW n \in Nat, NEW status \in {"RUNNING", "SUCCEEDED", "FAILED", "CANCELLED"},
             Appendable(j, n), Announce(j, n, status, status), UNCHANGED <<request, binding>>
      PROVE  KeysInv'
  <2>1. \A i \in Jobs : Exists(i)' <=> Exists(i)
    BY <1>9, SubmissionRows DEF Appendable, Announce, Exists
  <2> QED
    BY <1>9, <2>1, KeysKept
<1>10. executor[j].next \in Nat /\ \A c \in Cancellers : canceller[j][c].next \in Nat
  BY NumbersRead
<1>11. ASSUME \/ \E status \in Status : End(j, status)
              \/ Start(j) \/ \E c \in Cancellers : CancelCommits(j, c)
       PROVE  KeysInv'
  BY <1>9, <1>10, <1>11 DEF End, Start, CancelCommits
<1>12. ASSUME \/ Enter(j) \/ StartNumber(j) \/ Answered(j) \/ Collide(j) \/ Restart(j)
              \/ \E c \in Cancellers : Cancel(j, c) \/ CancelNumber(j, c) \/ CancelFails(j, c)
              \/ BeginDelete(j) \/ DeleteFails(j)
       PROVE  KeysInv'
  <2>1. UNCHANGED <<job, request, binding>>
    BY <1>12 DEF Enter, StartNumber, Answered, Collide, Restart, Cancel, CancelNumber,
                 CancelFails, BeginDelete, DeleteFails
  <2> QED
    BY <2>1, KeysKept DEF Exists
<1>13. ASSUME DeleteCommits(j) PROVE KeysInv'
  <2>1. /\ ~Exists(j)' /\ UNCHANGED request
        /\ \A i \in Jobs \ {j} : job'[i] = job[i]
        /\ \A k \in Keys : binding'[k] = IF binding[k] = j THEN NoJob ELSE binding[k]
    BY <1>13, SubmissionRows DEF DeleteCommits, Unbind, Exists, NotMade
  <2>2. BindingsLead'
    BY <1>0, <2>1 DEF KeysInv, BindingsLead, Exists
  <2>3. \A i \in Jobs : Exists(i)' /\ request'[i].key \in Keys => binding'[request'[i].key] = i
    BY <2>1 DEF KeysInv, Exists
  <2> QED
    BY <2>1, <2>2, <2>3 DEF KeysInv
<1> QED
  BY <1>2, <1>3, <1>4, <1>5, <1>7, <1>8, <1>11, <1>12, <1>13 DEF Cancels

-----------------------------------------------------------------------------
(* JobSubmission: jobs and keys.                                          *)

\* SubmissionInv job by job, which is inductive.
JobsAndKeys ==
    /\ SubmissionTypeOK /\ KeysInv
    /\ \A j \in Jobs : Timeline(j) /\ Stage(j) /\ Numbering(j)

\* All of SubmissionInv but what timelines tell.
SubmissionCore ==
    /\ SubmissionTypeOK
    /\ NumbersDiffer /\ LastEventTells /\ RunsAgree
    /\ BindingsLead /\ MadeByRequest /\ OneJobPerKey
    /\ NumbersFollow /\ RequestsFirst

LEMMA JobsAndKeysGive == JobsAndKeys => SubmissionCore
BY SubmissionParts, KeysGiveOneJob DEF JobsAndKeys, SubmissionCore

LEMMA JobsAndKeysInit == SubmissionInit => JobsAndKeys
<1> SUFFICES ASSUME SubmissionInit PROVE JobsAndKeys
  OBVIOUS
<1>1. SubmissionTypeOK
  BY DEF SubmissionInit, SubmissionTypeOK, NotMade, Quiet, Unsent, Status, Way
<1>2. \A j \in Jobs : Timeline(j) /\ Stage(j) /\ Numbering(j)
  BY DEF SubmissionInit, NotMade, Quiet, Unsent, Timeline, Stage, Numbering, Exists,
             NobodyCancels
<1>3. KeysInv
  BY DEF SubmissionInit, NotMade, Unsent, KeysInv, BindingsLead, Exists
<1> QED
  BY <1>1, <1>2, <1>3 DEF JobsAndKeys

LEMMA JobsAndKeysStep ==
    ASSUME JobsAndKeys, [SubmissionNext]_submissionVars
    PROVE  JobsAndKeys'
<1>1. SubmissionCore
  BY JobsAndKeysGive
<1>2. SubmissionTypeOK'
  BY <1>1, SubmissionTypeStep DEF SubmissionCore
<1>3. KeysInv /\ \A j \in Jobs : Timeline(j) /\ Stage(j) /\ Numbering(j)
  BY DEF JobsAndKeys
<1>4. SubmissionTypeOK /\ NumbersFollow
  BY <1>1 DEF SubmissionCore
<1>5. CASE UNCHANGED submissionVars
  <2>1. KeysInv'
    BY <1>3, <1>5 DEF submissionVars, KeysInv, BindingsLead, Exists
  <2>2. \A j \in Jobs : Timeline(j)' /\ Stage(j)' /\ Numbering(j)'
    BY <1>3, <1>5 DEF submissionVars, Timeline, Stage, Numbering, Exists, Follows, NobodyCancels
  <2> QED
    BY <1>2, <2>1, <2>2 DEF JobsAndKeys
<1>6. ASSUME NEW j \in Jobs,
             \/ \E way \in Way : Begin(j, way)
             \/ \E key \in Keys \cup {NoKey} : Call(j, key)
             \/ CallCommits(j) \/ CallReplays(j) \/ Refuse(j)
             \/ \E status \in Status : Placed(j, status) /\ request[j].way # "endpoint"
             \/ \E status \in Status : End(j, status)
             \/ Enter(j) \/ StartNumber(j) \/ Start(j) \/ Answered(j)
             \/ Collide(j) \/ Restart(j)
             \/ \E c \in Cancellers : Cancels(j, c)
             \/ BeginDelete(j) \/ DeleteCommits(j) \/ DeleteFails(j)
      PROVE  JobsAndKeys'
  <2>1. KeysInv'
    BY <1>3, <1>4, <1>6, KeysStep
  <2>2. ASSUME NEW i \in Jobs PROVE Timeline(i)' /\ Stage(i)' /\ Numbering(i)'
    <3>1. CASE i = j
      BY <1>3, <1>4, <1>6, <3>1, OneJobStep
    <3>2. CASE i # j
      <4>1. /\ job'[i] = job[i] /\ events'[i] = events[i] /\ request'[i] = request[i]
            /\ executor'[i] = executor[i] /\ canceller'[i] = canceller[i]
        BY <1>2, <1>4, <1>6, <3>2, OtherJobs
      <4> QED
        BY <1>3, <4>1 DEF Timeline, Stage, Numbering, Exists, Follows, NobodyCancels
    <3> QED
      BY <3>1, <3>2
  <2> QED
    BY <1>2, <2>1, <2>2 DEF JobsAndKeys
<1> QED
  BY <1>5, <1>6, SubmissionCases

-----------------------------------------------------------------------------
(* JobSubmission: what timelines tell.                                     *)

\* What TimelinesTell says of one job.
Tells(j) ==
    /\ j \in deleting => request[j].phase = "over"
    /\ Exists(j) =>
          /\ job[j].status \in Told(j)
          /\ executor[j].phase \in {"idle", "due", "entered", "starting"} =>
                 Told(j) \cap {"RUNNING", "SUCCEEDED"} = {}
          /\ executor[j].phase \in {"due", "entered", "starting", "waiting", "ending"} =>
                 "PREPARING" \in Told(j) /\ Told(j) \cap {"SUCCEEDED", "FAILED"} = {}
          /\ executor[j].phase \in {"waiting", "ending"} => "RUNNING" \in Told(j)
          /\ "RUNNING" \in Told(j) => "PREPARING" \in Told(j)
          /\ NobodyCancels(j) \/ Told(j) \cap {"PREPARING", "QUEUED"} # {}
          /\ j \in deleting => Told(j) \cap Terminal # {}

\* A new event tells its status, and it is the job's.
LEMMA ToldGrows ==
    ASSUME SubmissionTypeOK, NEW j \in Jobs, NEW n, NEW status, NEW run, Announce(j, n, status, run)
    PROVE  /\ Told(j)' = Told(j) \cup {status}
           /\ job'[j].status = status
           /\ \A i \in Jobs \ {j} : Told(i)' = Told(i) /\ job'[i] = job[i]
<1> DEFINE new == [seq |-> n, status |-> status]
<1>1. /\ job'[j] = [status |-> status, run |-> run]
      /\ events'[j] = events[j] \cup {new}
      /\ \A i \in Jobs \ {j} : job'[i] = job[i] /\ events'[i] = events[i]
  BY SubmissionRows DEF Announce
<1>2. new.status = status
  OBVIOUS
<1> HIDE DEF new
<1>3. Told(j)' = Told(j) \cup {status}
  <2>1. Told(j)' = {e.status : e \in events'[j]} /\ Told(j) = {e.status : e \in events[j]}
    BY DEF Told
  <2>2. {e.status : e \in events[j] \cup {new}} = {e.status : e \in events[j]} \cup {new.status}
    OBVIOUS
  <2> QED
    BY <1>1, <1>2, <2>1, <2>2
<1>4. \A i \in Jobs \ {j} : Told(i)' = Told(i)
  BY <1>1 DEF Told
<1> QED
  BY <1>1, <1>3, <1>4

\* A step of the executor, or of a request that cancels or deletes, that appends nothing.
LEMMA QuietTells ==
    ASSUME NEW j \in Jobs, Tells(j), UNCHANGED <<job, events, request>>,
           j \in deleting' => j \in deleting \/ job[j].status \in Terminal,
           Exists(j) => request[j].phase = "over",
           \/ executor'[j].phase \in {executor[j].phase, "over"}
           \/ executor[j].phase = "due" /\ executor'[j].phase = "entered"
           \/ executor[j].phase = "entered" /\ executor'[j].phase = "starting"
           \/ executor[j].phase = "waiting" /\ executor'[j].phase = "ending",
           \/ NobodyCancels(j) => NobodyCancels(j)'
           \/ job[j].status \in {"PREPARING", "QUEUED", "RUNNING"}
    PROVE  Tells(j)'
<1>1. Told(j)' = Told(j) /\ job'[j] = job[j] /\ request'[j] = request[j]
  BY DEF Told
<1>2. Exists(j)' <=> Exists(j)
  BY DEF Exists
<1>3. job[j].status \in Terminal => Exists(j)
  BY DEF Exists, Terminal
<1> QED
  BY <1>1, <1>2, <1>3 DEF Tells

\* The first event of a job.
LEMMA MadeTells ==
    ASSUME SubmissionTypeOK, NEW j \in Jobs, Stage(j), Timeline(j), Tells(j),
           request[j].phase = "open",
           NEW status \in {"BLOCKED", "QUEUED", "FAILED", "PREPARING"},
           Made(j, status), Done(j, j), UNCHANGED <<canceller, deleting>>,
           IF status = "PREPARING" THEN executor' = [executor EXCEPT ![j].phase = "due"]
           ELSE UNCHANGED executor
    PROVE  Tells(j)'
<1>1. events[j] = {} /\ executor[j].phase = "idle" /\ NobodyCancels(j) /\ j \notin deleting
  BY DEF Stage, Timeline, Tells
<1>2. Told(j)' = {status} /\ job'[j].status = status
  <2>1. Told(j) = {}
    BY <1>1 DEF Told
  <2> QED
    BY <2>1, ToldGrows DEF Made
<1>3. executor'[j].phase = IF status = "PREPARING" THEN "due" ELSE "idle"
  BY <1>1, ExecutorEffect
<1>4. NobodyCancels(j)' /\ j \notin deleting'
  BY <1>1 DEF NobodyCancels
<1> QED
  BY <1>2, <1>3, <1>4 DEF Tells

LEMMA TellsStep ==
    ASSUME SubmissionTypeOK, NEW j \in Jobs, Stage(j), Timeline(j), Tells(j),
           \/ \E way \in Way : Begin(j, way)
           \/ \E key \in Keys \cup {NoKey} : Call(j, key)
           \/ CallCommits(j) \/ CallReplays(j) \/ Refuse(j)
           \/ \E status \in Status : Placed(j, status)
           \/ \E status \in Status : End(j, status)
           \/ Enter(j) \/ StartNumber(j) \/ Start(j) \/ Answered(j)
           \/ Collide(j) \/ Restart(j)
           \/ \E c \in Cancellers : Cancels(j, c)
           \/ BeginDelete(j) \/ DeleteCommits(j) \/ DeleteFails(j)
    PROVE  Tells(j)'
<1>1. ASSUME \/ \E way \in Way : Begin(j, way)
             \/ \E key \in Keys \cup {NoKey} : Call(j, key)
             \/ CallReplays(j) \/ Refuse(j)
      PROVE  Tells(j)'
  <2>1. ~Exists(j) /\ j \notin deleting
    BY <1>1 DEF Stage, Tells, Begin, Call, CallReplays, Refuse
  <2>2. UNCHANGED <<job, deleting>>
    BY <1>1 DEF Begin, Call, CallReplays, Refuse
  <2> QED
    BY <2>1, <2>2 DEF Tells, Exists
<1>2. ASSUME CallCommits(j) PROVE Tells(j)'
  BY <1>2, MadeTells DEF CallCommits
<1>3. ASSUME NEW status \in Status, Placed(j, status) PROVE Tells(j)'
  BY <1>3, MadeTells DEF Placed
<1>4. ASSUME Start(j) PROVE Tells(j)'
  <2>1. Told(j)' = Told(j) \cup {"RUNNING"} /\ job'[j].status = "RUNNING"
    BY <1>4, ToldGrows DEF Start
  <2>3. executor'[j].phase = "waiting" /\ UNCHANGED <<request, canceller, deleting>>
    BY <1>4, ExecutorEffect DEF Start
  <2>2. Exists(j) /\ executor[j].phase = "starting"
    BY <1>4 DEF Start, Appendable
  <2> QED
    BY <2>1, <2>2, <2>3 DEF Tells, NobodyCancels
<1>5. ASSUME NEW status \in Status, End(j, status) PROVE Tells(j)'
  <2>1. Told(j)' = Told(j) \cup {status} /\ job'[j].status = status
    BY <1>5, ToldGrows DEF End
  <2>3. /\ executor'[j].phase = "over" /\ status \in {"SUCCEEDED", "FAILED"}
        /\ UNCHANGED <<request, canceller, deleting>>
    BY <1>5, ExecutorEffect DEF End
  <2>2. Exists(j) /\ executor[j].phase = "ending"
    BY <1>5 DEF End, Appendable
  <2> QED
    BY <2>1, <2>2, <2>3 DEF Tells, NobodyCancels
<1>6. ASSUME NEW c \in Cancellers, CancelCommits(j, c) PROVE Tells(j)'
  <2>1. /\ Told(j)' = Told(j) \cup {"CANCELLED"} /\ job'[j].status = "CANCELLED"
        /\ UNCHANGED <<request, executor, deleting>>
    BY <1>6, ToldGrows DEF CancelCommits
  <2>2. ~NobodyCancels(j) /\ Exists(j)
    BY <1>6 DEF CancelCommits, Appendable, NobodyCancels
  <2> QED
    BY <2>1, <2>2 DEF Tells
<1>7. ASSUME DeleteCommits(j) PROVE Tells(j)'
  <2>1. ~Exists(j)' /\ j \notin deleting'
    BY <1>7, SubmissionRows DEF DeleteCommits, Exists, NotMade
  <2> QED
    BY <2>1 DEF Tells
<1>8. ASSUME Enter(j) \/ StartNumber(j) \/ Answered(j) \/ Collide(j) \/ Restart(j) PROVE Tells(j)'
  <2>1. UNCHANGED <<job, events, request, canceller, deleting>>
    BY <1>8 DEF Enter, StartNumber, Answered, Collide, Restart
  <2>2. \/ executor'[j].phase = "over"
        \/ executor[j].phase = "due" /\ executor'[j].phase = "entered"
        \/ executor[j].phase = "entered" /\ executor'[j].phase = "starting"
        \/ executor[j].phase = "waiting" /\ executor'[j].phase = "ending"
    <3>1. CASE Enter(j) \/ Collide(j) \/ Restart(j)
      BY <3>1, ExecutorEffect DEF Enter, Collide, Restart
    <3>2. CASE StartNumber(j) \/ Answered(j)
      BY <3>2, SubmissionRows DEF StartNumber, Answered
    <3> QED
      BY <1>8, <3>1, <3>2
  <2>3. Exists(j) => request[j].phase = "over"
    BY DEF Stage
  <2>4. NobodyCancels(j)' <=> NobodyCancels(j)
    BY <2>1 DEF NobodyCancels
  <2> QED
    BY <2>1, <2>2, <2>3, <2>4, QuietTells
<1>9. ASSUME BeginDelete(j) \/ DeleteFails(j) PROVE Tells(j)'
  <2>1. /\ UNCHANGED <<job, events, request, executor, canceller>>
        /\ j \in deleting' => j \in deleting \/ job[j].status \in Terminal
    BY <1>9 DEF BeginDelete, DeleteFails
  <2>2. Exists(j) => request[j].phase = "over"
    BY DEF Stage
  <2>3. NobodyCancels(j)' <=> NobodyCancels(j)
    BY <2>1 DEF NobodyCancels
  <2> QED
    BY <2>1, <2>2, <2>3, QuietTells
<1>10. ASSUME NEW c \in Cancellers, Cancel(j, c) \/ CancelNumber(j, c) \/ CancelFails(j, c)
       PROVE  Tells(j)'
  <2>1. UNCHANGED <<job, events, request, executor, deleting>>
    BY <1>10 DEF Cancel, CancelNumber, CancelFails
  <2>2. Exists(j) => request[j].phase = "over"
    BY DEF Stage
  <2>3. CASE Cancel(j, c)
    <3>1. job[j].status \in Status \ (Terminal \cup {"none"})
      BY <2>3, SubmissionRows DEF Cancel, Cancellable, Exists, JobRow
    <3>2. job[j].status \in {"PREPARING", "QUEUED", "RUNNING"}
      BY <3>1 DEF Status, Terminal
    <3> QED
      BY <2>1, <2>2, <3>2, QuietTells
  <2>4. CASE CancelNumber(j, c) \/ CancelFails(j, c)
    <3>1. ~NobodyCancels(j)
      BY <2>4 DEF CancelNumber, CancelFails, NobodyCancels
    <3> QED
      BY <2>1, <2>2, <3>1, QuietTells
  <2> QED
    BY <1>10, <2>3, <2>4
<1> QED
  BY <1>1, <1>2, <1>3, <1>4, <1>5, <1>6, <1>7, <1>8, <1>9, <1>10 DEF Cancels

LEMMA TimelinesTellInit == SubmissionInit => TimelinesTell
<1> SUFFICES ASSUME SubmissionInit, NEW j \in Jobs PROVE ~Exists(j) /\ j \notin deleting
  BY DEF TimelinesTell
<1>1. job[j] = NotMade /\ deleting = {}
  BY DEF SubmissionInit
<1> QED
  BY <1>1 DEF Exists, NotMade

LEMMA TimelinesTellStep ==
    ASSUME JobsAndKeys, JobsAndKeys', TimelinesTell, [SubmissionNext]_submissionVars
    PROVE  TimelinesTell'
<1>1. SubmissionTypeOK /\ SubmissionTypeOK' /\ \A j \in Jobs : Timeline(j) /\ Stage(j)
  BY DEF JobsAndKeys
<1>2. \A j \in Jobs : Tells(j)
  BY DEF TimelinesTell, Tells
<1>3. SUFFICES \A j \in Jobs : Tells(j)'
  BY DEF TimelinesTell, Tells
<1>4. CASE UNCHANGED submissionVars
  BY <1>2, <1>4 DEF submissionVars, Tells, Told, Exists, NobodyCancels
<1>5. ASSUME NEW j \in Jobs,
             \/ \E way \in Way : Begin(j, way)
             \/ \E key \in Keys \cup {NoKey} : Call(j, key)
             \/ CallCommits(j) \/ CallReplays(j) \/ Refuse(j)
             \/ \E status \in Status : Placed(j, status)
             \/ \E status \in Status : End(j, status)
             \/ Enter(j) \/ StartNumber(j) \/ Start(j) \/ Answered(j)
             \/ Collide(j) \/ Restart(j)
             \/ \E c \in Cancellers : Cancels(j, c)
             \/ BeginDelete(j) \/ DeleteCommits(j) \/ DeleteFails(j),
             NEW i \in Jobs
      PROVE  Tells(i)'
  <2>1. CASE i = j
    BY <1>1, <1>2, <1>5, <2>1, TellsStep
  <2>2. CASE i # j
    <3>1. /\ job'[i] = job[i] /\ events'[i] = events[i] /\ request'[i] = request[i]
          /\ executor'[i] = executor[i] /\ canceller'[i] = canceller[i]
      BY <1>1, <1>5, <2>2, OtherJobs
    <3>2. i \in deleting' => i \in deleting
      BY <1>5, <2>2
      DEF Begin, Call, CallCommits, CallReplays, Refuse, Placed, End, Enter, StartNumber, Start,
          Answered, Collide, Restart, Cancels, Cancel, CancelNumber, CancelCommits, CancelFails,
          BeginDelete, DeleteCommits, DeleteFails
    <3> QED
      BY <1>2, <3>1, <3>2 DEF Tells, Told, Exists, NobodyCancels
  <2> QED
    BY <2>1, <2>2
<1> QED
  BY <1>4, <1>5, SubmissionCases

-----------------------------------------------------------------------------
(* JobSubmission: the theorems.                                            *)

\* Timelines without gaps or twins, statuses that agree with them, and one job
\* for one key, for any number of jobs, keys and requests.
THEOREM SubmissionInvHolds == SubmissionSpec => []SubmissionInv
<1>1. SubmissionInit => JobsAndKeys /\ TimelinesTell
  BY JobsAndKeysInit, TimelinesTellInit
<1>2. JobsAndKeys /\ TimelinesTell /\ [SubmissionNext]_submissionVars =>
          JobsAndKeys' /\ TimelinesTell'
  BY JobsAndKeysGive, JobsAndKeysStep, TimelinesTellStep
<1>3. JobsAndKeys /\ TimelinesTell => SubmissionInv
  BY JobsAndKeysGive DEF SubmissionCore, SubmissionInv
<1> QED
  BY <1>1, <1>2, <1>3, PTL DEF SubmissionSpec

\* The type invariant by itself.
THEOREM SubmissionTypesHold == SubmissionSpec => []SubmissionTypeOK
<1>1. SubmissionInv => SubmissionTypeOK
  BY DEF SubmissionInv
<1> QED
  BY <1>1, SubmissionInvHolds, PTL

\* What a request has made and somebody has deleted is not made again, neither by
\* the executor that goes on nor by a cancel.
THEOREM DeletedStaysHolds == SubmissionSpec => DeletedStays
<1>1. SubmissionInv /\ [SubmissionNext]_submissionVars =>
          [\A j \in Jobs : ~Exists(j) /\ request[j].phase = "over" => ~Exists(j)']_submissionVars
  <2> SUFFICES ASSUME SubmissionInv, [SubmissionNext]_submissionVars,
                      NEW i \in Jobs, ~Exists(i), request[i].phase = "over"
               PROVE  ~Exists(i)'
    BY DEF Exists
  <2>1. SubmissionTypeOK
    BY DEF SubmissionInv
  <2>2. ASSUME NEW j \in Jobs,
               \/ CallCommits(j)
               \/ \E status \in Status : Placed(j, status)
        PROVE  ~Exists(i)'
    <3>1. i # j /\ job'[i] = job[i]
      BY <2>1, <2>2, SubmissionRows DEF CallCommits, Placed, Made, Announce
    <3> QED
      BY <3>1 DEF Exists
  <2>3. ASSUME NEW j \in Jobs,
               \/ \E status \in Status : End(j, status)
               \/ Start(j) \/ \E c \in Cancellers : CancelCommits(j, c)
        PROVE  ~Exists(i)'
    <3>1. i # j /\ job'[i] = job[i]
      BY <2>1, <2>3, SubmissionRows DEF End, Start, CancelCommits, Appendable, Announce
    <3> QED
      BY <3>1 DEF Exists
  <2>4. ASSUME NEW j \in Jobs, DeleteCommits(j) PROVE ~Exists(i)'
    BY <2>1, <2>4, SubmissionRows DEF DeleteCommits, Exists, NotMade
  <2>5. ASSUME UNCHANGED job PROVE ~Exists(i)'
    BY <2>5 DEF Exists
  <2> QED
    BY <2>2, <2>3, <2>4, <2>5, SubmissionCases
    DEF Begin, Call, CallReplays, Refuse, Enter, StartNumber, Answered, Collide, Restart,
        Cancels, Cancel, CancelNumber, CancelFails, BeginDelete, DeleteFails, submissionVars
<1> QED
  BY <1>1, SubmissionInvHolds, PTL DEF SubmissionSpec, DeletedStays

-----------------------------------------------------------------------------
(* JobSubmission: the promise.                                             *)

\* What the promise sees of a request.
Given(j) == [given |-> request[j].phase = "over",
             key |-> IF request[j].phase = "over" THEN request[j].key ELSE NoKey,
             job |-> request[j].answer]

\* An open request has no answer yet.
LEMMA OpenIsUnanswered ==
    ASSUME SubmissionTypeOK, NEW j \in Jobs, request[j].phase # "over", request[j].answer = NoJob
    PROVE  Given(j) = Promise!Unanswered
BY DEF Given, Promise!Unanswered

\* A request is answered.
LEMMA AnswersPromised ==
    ASSUME SubmissionTypeOK, NEW j \in Jobs, NEW key, NEW answer,
           request[j].phase # "over", request[j].answer = NoJob,
           request'[j].phase = "over", request'[j].key = key, request'[j].answer = answer,
           \A i \in Jobs \ {j} : request'[i] = request[i]
    PROVE  Promise!Answers(j, key, answer)
<1>1. Given(j) = Promise!Unanswered
  BY OpenIsUnanswered
<1>2. Given(j)' = Promise!Reply(key, answer)
  BY DEF Given, Promise!Reply
<1>3. \A i \in Jobs \ {j} : Given(i)' = Given(i)
  BY DEF Given
<1>4. [i \in Jobs |-> Given(i)'] = [[i \in Jobs |-> Given(i)] EXCEPT ![j] = Promise!Reply(key, answer)]
  BY <1>2, <1>3
<1> QED
  BY <1>1, <1>4 DEF Promise!Answers, Given

\* A timeline tells a status.
LEMMA TellsPromised ==
    ASSUME SubmissionTypeOK, NEW j \in Jobs, NEW n, NEW status, NEW run, Announce(j, n, status, run)
    PROVE  Promise!Tells(j, status)
<1>1. /\ Told(j)' = Told(j) \cup {status} /\ job'[j].status = status
      /\ \A i \in Jobs \ {j} : Told(i)' = Told(i) /\ job'[i].status = job[i].status
  BY ToldGrows
<1>2. [i \in Jobs |-> Told(i)'] = [[i \in Jobs |-> Told(i)] EXCEPT ![j] = @ \cup {status}]
  BY <1>1
<1>3. [i \in Jobs |-> job'[i].status] = [[i \in Jobs |-> job[i].status] EXCEPT ![j] = status]
  BY <1>1
<1> QED
  BY <1>2, <1>3 DEF Promise!Tells

\* Everything the promise sees, of a step that changes nothing of it.
LEMMA StuttersPromised ==
    ASSUME UNCHANGED <<job, events, binding>>, \A i \in Jobs : Given(i)' = Given(i)
    PROVE  UNCHANGED Promise!promise
<1>1. [i \in Jobs |-> job'[i].status] = [i \in Jobs |-> job[i].status]
  OBVIOUS
<1>2. [i \in Jobs |-> Told(i)'] = [i \in Jobs |-> Told(i)]
  BY DEF Told
<1>3. [i \in Jobs |-> Given(i)'] = [i \in Jobs |-> Given(i)]
  OBVIOUS
<1> QED
  BY <1>1, <1>2, <1>3 DEF Promise!promise, Given

\* A job is made and its request answered with it.
LEMMA AcceptPromised ==
    ASSUME SubmissionInv, NEW j \in Jobs, request[j].phase = "open",
           NEW status \in {"PREPARING", "QUEUED", "FAILED", "BLOCKED"},
           Made(j, status), Done(j, j),
           IF request[j].key \in Keys
           THEN /\ status = "QUEUED" /\ binding[request[j].key] = NoJob
                /\ binding' = [binding EXCEPT ![request[j].key] = j]
           ELSE UNCHANGED binding
    PROVE  Promise!Accept(j, request[j].key, status)
<1>1. SubmissionTypeOK /\ request[j].answer = NoJob /\ ~Exists(j) /\ events[j] = {}
  BY DEF SubmissionInv, MadeByRequest, RequestsFirst
<1>2. Told(j) = {}
  BY <1>1 DEF Told
<1>3. Promise!Answers(j, request[j].key, j)
  <2>1. /\ request'[j].phase = "over" /\ request'[j].answer = j
        /\ request'[j].key = request[j].key
        /\ \A i \in Jobs \ {j} : request'[i] = request[i]
    BY <1>1, DoneEffect
  <2> QED
    BY <1>1, <2>1, AnswersPromised
<1>4. Promise!Tells(j, status)
  BY <1>1, TellsPromised DEF Made
<1>5. binding' = [k \in Keys |-> IF k = request[j].key THEN j ELSE binding[k]]
  BY <1>1, SubmissionRows
<1> QED
  BY <1>2, <1>3, <1>4, <1>5 DEF Promise!Accept

\* A request whose key leads to a job is answered with it.
LEMMA ReplayPromised ==
    ASSUME SubmissionInv, NEW j \in Jobs, NEW key \in Keys, ~Free(key),
           request[j].phase # "over",
           request'[j].phase = "over", request'[j].key = key, request'[j].answer = binding[key],
           \A i \in Jobs \ {j} : request'[i] = request[i],
           UNCHANGED <<job, events, binding>>
    PROVE  Promise!Replay(j, key)
<1>1. SubmissionTypeOK /\ request[j].answer = NoJob
  BY DEF SubmissionInv, RequestsFirst
<1>2. binding[key] \in Jobs /\ binding[key] # NoJob /\ job[binding[key]].status # "none"
  BY <1>1, SubmissionRows DEF Free, SubmissionInv, BindingsLead, Exists
<1>3. Promise!Answers(j, key, binding[key])
  <2>1. PICK answer \in Jobs : answer = binding[key]
    BY <1>2
  <2>2. Promise!Answers(j, key, answer)
    BY <1>1, <2>1, AnswersPromised
  <2> QED
    BY <2>1, <2>2 DEF Promise!Answers
<1>4. [i \in Jobs |-> Told(i)'] = [i \in Jobs |-> Told(i)]
  BY DEF Told
<1> QED
  BY <1>2, <1>3, <1>4 DEF Promise!Replay

\* A request is refused.
LEMMA DeclinePromised ==
    ASSUME SubmissionInv, NEW j \in Jobs, Refuse(j)
    PROVE  Promise!Decline(j, request[j].key)
<1>1. /\ SubmissionTypeOK /\ request[j].answer = NoJob
      /\ request[j].phase = "open" /\ Done(j, NoJob) /\ UNCHANGED <<job, events, binding>>
  BY DEF SubmissionInv, RequestsFirst, Refuse
<1>2. /\ request'[j].phase = "over" /\ request'[j].answer = NoJob
      /\ request'[j].key = request[j].key
      /\ \A i \in Jobs \ {j} : request'[i] = request[i]
  BY <1>1, DoneEffect
<1>3. Promise!Answers(j, request[j].key, NoJob)
  BY <1>1, <1>2, AnswersPromised
<1>4. [i \in Jobs |-> Told(i)'] = [i \in Jobs |-> Told(i)]
  BY <1>1 DEF Told
<1> QED
  BY <1>1, <1>3, <1>4 DEF Promise!Decline

\* A step that answers nothing.
LEMMA RepliesKept ==
    ASSUME UNCHANGED request
    PROVE  [i \in Jobs |-> Given(i)'] = [i \in Jobs |-> Given(i)]
BY DEF Given

\* The executor starts its job.
LEMMA StartPromised ==
    ASSUME SubmissionInv, NEW j \in Jobs, Start(j)
    PROVE  Promise!Start(j)
<1>1. /\ SubmissionTypeOK /\ executor[j].phase = "starting" /\ Exists(j)
      /\ Announce(j, executor[j].next, "RUNNING", "RUNNING")
      /\ UNCHANGED <<request, binding>>
  BY DEF SubmissionInv, Start, Appendable
<1>2. job[j].status \in {"PREPARING", "CANCELLED"}
  BY <1>1 DEF SubmissionInv, MadeByRequest, Exists
<1>3. "PREPARING" \in Told(j) /\ Told(j) \cap {"RUNNING", "SUCCEEDED", "FAILED"} = {}
  BY <1>1 DEF SubmissionInv, TimelinesTell
<1>4. Promise!Tells(j, "RUNNING")
  BY <1>1, TellsPromised
<1>5. [i \in Jobs |-> Given(i)'] = [i \in Jobs |-> Given(i)]
  BY <1>1, RepliesKept
<1> QED
  BY <1>1, <1>2, <1>3, <1>4, <1>5 DEF Promise!Start, Promise!Results, Given

\* The executor ends its job.
LEMMA ConcludePromised ==
    ASSUME SubmissionInv, NEW j \in Jobs, NEW status \in Status, End(j, status)
    PROVE  status \in Promise!Results /\ Promise!Conclude(j, status)
<1>1. /\ SubmissionTypeOK /\ executor[j].phase = "ending" /\ Exists(j)
      /\ status \in {"SUCCEEDED", "FAILED"}
      /\ Announce(j, executor[j].next, status, status)
      /\ UNCHANGED <<request, binding>>
  BY DEF SubmissionInv, End, Appendable
<1>2. job[j].status \in {"RUNNING", "CANCELLED"}
  BY <1>1 DEF SubmissionInv, MadeByRequest, Exists
<1>3. "RUNNING" \in Told(j) /\ Told(j) \cap {"SUCCEEDED", "FAILED"} = {}
  BY <1>1 DEF SubmissionInv, TimelinesTell
<1>4. Promise!Tells(j, status)
  BY <1>1, TellsPromised
<1>5. [i \in Jobs |-> Given(i)'] = [i \in Jobs |-> Given(i)]
  BY <1>1, RepliesKept
<1> QED
  BY <1>1, <1>2, <1>3, <1>4, <1>5 DEF Promise!Conclude, Promise!Results, Given

\* A job is cancelled; a second cancel that had found it unfinished tells nothing
\* new.
LEMMA WithdrawPromised ==
    ASSUME SubmissionInv, NEW j \in Jobs, NEW c \in Cancellers, CancelCommits(j, c)
    PROVE  Promise!Withdraw(j) \/ UNCHANGED Promise!promise
<1>1. /\ SubmissionTypeOK /\ ~NobodyCancels(j) /\ Exists(j)
      /\ Announce(j, canceller[j][c].next, "CANCELLED", "CANCELLED")
      /\ UNCHANGED <<request, binding>>
  BY DEF SubmissionInv, CancelCommits, Appendable, NobodyCancels
<1>2. Told(j) \cap {"PREPARING", "QUEUED"} # {} /\ job[j].status \in Told(j)
  BY <1>1 DEF SubmissionInv, TimelinesTell
<1>3. Promise!Tells(j, "CANCELLED")
  BY <1>1, TellsPromised
<1>4. [i \in Jobs |-> Given(i)'] = [i \in Jobs |-> Given(i)]
  BY <1>1, RepliesKept
<1>5. CASE job[j].status # "CANCELLED"
  BY <1>1, <1>2, <1>3, <1>4, <1>5 DEF Promise!Withdraw, Given, Exists
<1>6. CASE job[j].status = "CANCELLED"
  <2>1. /\ Told(j)' = Told(j) /\ job'[j].status = job[j].status
        /\ \A i \in Jobs \ {j} : Told(i)' = Told(i) /\ job'[i] = job[i]
    BY <1>1, <1>2, <1>6, ToldGrows
  <2>2. [i \in Jobs |-> job'[i].status] = [i \in Jobs |-> job[i].status]
    BY <2>1
  <2>3. [i \in Jobs |-> Told(i)'] = [i \in Jobs |-> Told(i)]
    BY <2>1
  <2> QED
    BY <1>1, <1>4, <2>2, <2>3 DEF Promise!promise, Given
<1> QED
  BY <1>5, <1>6

\* A job is deleted.
LEMMA RemovePromised ==
    ASSUME SubmissionInv, NEW j \in Jobs, DeleteCommits(j)
    PROVE  Promise!Remove(j)
<1>1. /\ SubmissionTypeOK /\ j \in deleting /\ Exists(j)
      /\ job' = [job EXCEPT ![j] = NotMade] /\ events' = [events EXCEPT ![j] = {}]
      /\ binding' = [k \in Keys |-> IF binding[k] = j THEN NoJob ELSE binding[k]]
      /\ UNCHANGED request
  BY DEF SubmissionInv, DeleteCommits, Unbind
<1>2. Told(j) \cap Terminal # {}
  BY <1>1 DEF SubmissionInv, TimelinesTell
<1>3. /\ job'[j].status = "none" /\ events'[j] = {}
      /\ \A i \in Jobs \ {j} : job'[i] = job[i] /\ events'[i] = events[i]
  BY <1>1, SubmissionRows DEF NotMade
<1>4. [i \in Jobs |-> job'[i].status] = [[i \in Jobs |-> job[i].status] EXCEPT ![j] = "none"]
  BY <1>3
<1>5. [i \in Jobs |-> Told(i)'] = [[i \in Jobs |-> Told(i)] EXCEPT ![j] = {}]
  <2>1. Told(j)' = {} /\ \A i \in Jobs \ {j} : Told(i)' = Told(i)
    BY <1>3 DEF Told
  <2> QED
    BY <2>1
<1>6. [i \in Jobs |-> Given(i)'] = [i \in Jobs |-> Given(i)]
  BY <1>1, RepliesKept
<1> QED
  BY <1>1, <1>2, <1>4, <1>5, <1>6 DEF Promise!Remove, Promise!Terminal, Terminal, Given

\* A step of the program is one of the promise, or changes nothing of it.
LEMMA SubmissionStepPromised ==
    ASSUME SubmissionInv, [SubmissionNext]_submissionVars
    PROVE  [Promise!Next]_(Promise!promise)
<1>1. SubmissionTypeOK
  BY DEF SubmissionInv
<1>2. CASE UNCHANGED submissionVars
  BY <1>2, StuttersPromised DEF submissionVars, Given
<1>3. ASSUME NEW j \in Jobs, NEW way \in Way, Begin(j, way) PROVE UNCHANGED Promise!promise
  <2>1. /\ request[j].phase = "idle" /\ request[j].answer = NoJob
        /\ UNCHANGED <<job, events, binding>>
        /\ request'[j].phase = "open" /\ request'[j].answer = NoJob
        /\ \A i \in Jobs \ {j} : request'[i] = request[i]
    BY <1>1, <1>3, SubmissionRows DEF SubmissionInv, RequestsFirst, Begin, Open
  <2> QED
    BY <2>1, StuttersPromised DEF Given
<1>4. ASSUME NEW j \in Jobs, NEW key \in Keys \cup {NoKey}, Call(j, key)
      PROVE  [Promise!Next]_(Promise!promise)
  <2>1. CASE Free(key)
    <3>1. /\ request[j].phase = "idle" /\ request[j].answer = NoJob
          /\ UNCHANGED <<job, events, binding>>
          /\ request'[j].phase = "open" /\ request'[j].answer = NoJob
          /\ \A i \in Jobs \ {j} : request'[i] = request[i]
      BY <1>1, <1>4, <2>1, SubmissionRows DEF SubmissionInv, RequestsFirst, Call, Open
    <3> QED
      BY <3>1, StuttersPromised DEF Given
  <2>2. CASE ~Free(key)
    <3>1. /\ request[j].phase = "idle" /\ key \in Keys
          /\ UNCHANGED <<job, events, binding>>
          /\ request'[j].phase = "over" /\ request'[j].key = key
          /\ request'[j].answer = binding[key]
          /\ \A i \in Jobs \ {j} : request'[i] = request[i]
      BY <1>1, <1>4, <2>2, SubmissionRows DEF Call, Free
    <3>2. Promise!Replay(j, key)
      BY <2>2, <3>1, ReplayPromised
    <3> QED
      BY <3>2 DEF Promise!Next
  <2> QED
    BY <2>1, <2>2
<1>5. ASSUME NEW j \in Jobs, CallCommits(j) PROVE Promise!Next
  <2>1. /\ request[j].phase = "open" /\ Made(j, "QUEUED") /\ Done(j, j)
        /\ IF request[j].key \in Keys
           THEN /\ binding[request[j].key] = NoJob
                /\ binding' = [binding EXCEPT ![request[j].key] = j]
           ELSE UNCHANGED binding
    BY <1>5 DEF CallCommits, Free
  <2>2. Promise!Accept(j, request[j].key, "QUEUED")
    BY <2>1, AcceptPromised
  <2>3. request[j].key \in Keys \cup {NoKey}
    BY <1>1, SubmissionRows DEF JobRequest
  <2> QED
    BY <2>2, <2>3 DEF Promise!Next
<1>6. ASSUME NEW j \in Jobs, CallReplays(j) PROVE Promise!Next
  <2> DEFINE key == request[j].key
  <2>1. /\ request[j].phase = "open" /\ key \in Keys /\ ~Free(key)
        /\ UNCHANGED <<job, events, binding>> /\ Done(j, binding[key])
    BY <1>6 DEF CallReplays, Free
  <2>2. /\ request'[j].phase = "over" /\ request'[j].key = key
        /\ request'[j].answer = binding[key]
        /\ \A i \in Jobs \ {j} : request'[i] = request[i]
    <3>1. binding[key] \in Jobs \cup {NoJob}
      BY <1>1, <2>1, SubmissionRows
    <3> QED
      BY <1>1, <2>1, <3>1, DoneEffect
  <2> HIDE DEF key
  <2>3. Promise!Replay(j, key)
    BY <2>1, <2>2, ReplayPromised
  <2> QED
    BY <2>1, <2>3 DEF Promise!Next
<1>7. ASSUME NEW j \in Jobs, Refuse(j) PROVE Promise!Next
  <2>1. request[j].key \in Keys \cup {NoKey}
    BY <1>1, SubmissionRows DEF JobRequest
  <2> QED
    BY <1>7, <2>1, DeclinePromised DEF Promise!Next
<1>8. ASSUME NEW j \in Jobs, NEW status \in Status, Placed(j, status), request[j].way # "endpoint"
      PROVE  Promise!Next
  <2>1. /\ request[j].phase = "open" /\ Made(j, status) /\ Done(j, j) /\ UNCHANGED binding
        /\ status \in {"PREPARING", "QUEUED", "FAILED", "BLOCKED"}
    BY <1>8 DEF Placed
  <2>2. request[j].key = NoKey /\ NoKey \notin Keys
    BY <1>8, SubmissionAssumption DEF SubmissionInv, RequestsFirst
  <2>3. Promise!Accept(j, request[j].key, status)
    BY <2>1, <2>2, AcceptPromised
  <2> QED
    BY <2>1, <2>2, <2>3 DEF Promise!Next
<1>9. ASSUME NEW j \in Jobs, NEW status \in Status, End(j, status) PROVE Promise!Next
  BY <1>9, ConcludePromised DEF Promise!Next
<1>10. ASSUME NEW j \in Jobs, Start(j) \/ DeleteCommits(j) PROVE Promise!Next
  BY <1>10, StartPromised, RemovePromised DEF Promise!Next
<1>11. ASSUME NEW j \in Jobs, NEW c \in Cancellers, CancelCommits(j, c)
       PROVE  Promise!Next \/ UNCHANGED Promise!promise
  BY <1>11, WithdrawPromised DEF Promise!Next
<1>12. ASSUME NEW j \in Jobs,
              \/ Enter(j) \/ StartNumber(j) \/ Answered(j) \/ Collide(j) \/ Restart(j)
              \/ \E c \in Cancellers : Cancel(j, c) \/ CancelNumber(j, c) \/ CancelFails(j, c)
              \/ BeginDelete(j) \/ DeleteFails(j)
       PROVE  UNCHANGED Promise!promise
  <2>1. UNCHANGED <<job, events, binding, request>>
    BY <1>12 DEF Enter, StartNumber, Answered, Collide, Restart, Cancel, CancelNumber,
                 CancelFails, BeginDelete, DeleteFails
  <2> QED
    BY <2>1, StuttersPromised DEF Given
<1> QED
  BY <1>2, <1>3, <1>4, <1>5, <1>6, <1>7, <1>8, <1>9, <1>10, <1>11, <1>12, SubmissionCases
  DEF Cancels

\* Whatever the handlers of any number of jobs do between their reads and their
\* commits, what the API has promised is kept as if each were one step.
THEOREM SubmissionImplementsPromise == SubmissionSpec => SubmissionPromised
<1>1. SubmissionInit => Promise!Init
  <2> SUFFICES ASSUME SubmissionInit PROVE Promise!Init
    OBVIOUS
  <2>1. \A j \in Jobs : job[j] = NotMade /\ events[j] = {} /\ request[j] = Unsent
    BY DEF SubmissionInit
  <2>2. \A j \in Jobs : Told(j) = {} /\ job[j].status = "none" /\ Given(j) = Promise!Unanswered
    <3> SUFFICES ASSUME NEW j \in Jobs
                 PROVE  Told(j) = {} /\ job[j].status = "none" /\ Given(j) = Promise!Unanswered
      OBVIOUS
    <3>1. Told(j) = {}
      BY <2>1 DEF Told
    <3>2. job[j].status = "none"
      BY <2>1 DEF NotMade
    <3>3. Given(j) = Promise!Unanswered
      <4>1. request[j].phase = "idle" /\ request[j].answer = NoJob
        BY <2>1 DEF Unsent
      <4>2. SubmissionTypeOK
        BY JobsAndKeysInit DEF JobsAndKeys
      <4> QED
        BY <4>1, <4>2, OpenIsUnanswered
    <3> QED
      BY <3>1, <3>2, <3>3
  <2>3. binding = [k \in Keys |-> NoJob]
    BY DEF SubmissionInit
  <2> QED
    BY <2>2, <2>3 DEF Promise!Init, Given
<1>2. SubmissionInv /\ [SubmissionNext]_submissionVars => [Promise!Next]_(Promise!promise)
  BY SubmissionStepPromised
<1> QED
  BY <1>1, <1>2, SubmissionInvHolds, PTL DEF SubmissionSpec, SubmissionPromised, Promise!Spec
=============================================================================
