------------------------- MODULE ChatAndCatalogProofs -------------------------
(***************************************************************************)
(* Theorems about a workspace conversation and the models it is held with. *)
(*                                                                         *)
(* ChatTurns, for any number of turns: the inductive invariant of the      *)
(* conversation, its runs and the cleanup loop, and that the end of a run  *)
(* is final.                                                               *)
(*                                                                         *)
(* ModelCatalog, for any models: the catalog keeps one default of every    *)
(* capability it has, and what a request changes leaves the others alone.  *)
(***************************************************************************)
EXTENDS ChatTurns, ModelCatalog, TLAPS

RunRow == [status : Status, old : BOOLEAN, request : BOOLEAN, reply : BOOLEAN]
Handler == [phase : Phase, mode : Mode, next : 0 .. 3]
Closer == [phase : {"idle", "picked", "numbered"}, runs : SUBSET Turns,
           next : [Turns -> 0 .. 3]]

-----------------------------------------------------------------------------
(* Numbers.                                                                *)

\* While a run has its first two numbers at most, the next is one of three.
LEMMA NextNumberIsLow ==
    ASSUME NEW t \in Turns, \A e \in events[t] : e.seq \in {1, 2}
    PROVE  NextNumber(t) \in 1 .. 3 /\ \A e \in events[t] : e.seq # NextNumber(t)
<1> DEFINE Next1(n) == /\ \A e \in events[t] : e.seq < n
                       /\ n = 1 \/ \E e \in events[t] : e.seq = n - 1
<1>1. \E n \in 1 .. 4 : Next1(n)
  <2>1. CASE \E e \in events[t] : e.seq = 2
    <3>1. Next1(3)
      BY <2>1
    <3> QED
      BY <3>1
  <2>2. CASE ~(\E e \in events[t] : e.seq = 2) /\ \E e \in events[t] : e.seq = 1
    <3>1. Next1(2)
      BY <2>2
    <3> QED
      BY <3>1
  <2>3. CASE \A e \in events[t] : e.seq # 1 /\ e.seq # 2
    <3>1. Next1(1)
      BY <2>3
    <3> QED
      BY <3>1
  <2> QED
    BY <2>1, <2>2, <2>3
<1>2. NextNumber(t) \in 1 .. 4 /\ Next1(NextNumber(t))
  BY <1>1 DEF NextNumber
<1> QED
  BY <1>2

\* After the event of the start comes the second number.
LEMMA SecondNumber ==
    ASSUME NEW t \in Turns, events[t] = {[seq |-> 1, type |-> "started"]}
    PROVE  NextNumber(t) = 2
<1> DEFINE Next1(n) == /\ \A e \in events[t] : e.seq < n
                       /\ n = 1 \/ \E e \in events[t] : e.seq = n - 1
<1>1. Next1(2) /\ \A n \in 1 .. 4 : Next1(n) => n = 2
  OBVIOUS
<1> QED
  BY <1>1 DEF NextNumber

-----------------------------------------------------------------------------
(* Types.                                                                  *)

LEMMA TypeStep == TurnsInv /\ [Next]_vars => TypeOK'
<1> SUFFICES ASSUME TurnsInv, [Next]_vars PROVE TypeOK'
  OBVIOUS
<1>t. TypeOK
  BY DEF TurnsInv
<1>0. CASE UNCHANGED vars
  BY <1>t, <1>0 DEF TypeOK, vars
<1>1. ASSUME NEW t \in Turns, NEW mode \in Mode, Begin(t, mode) PROVE TypeOK'
  BY <1>t, <1>1 DEF TypeOK, Begin, Phase
<1>2. ASSUME NEW t \in Turns, Open(t) PROVE TypeOK'
  <2>1. run' \in [Turns -> RunRow]
    BY <1>t, <1>2 DEF TypeOK, Open, RunRow, Status
  <2>2. events' \in [Turns -> SUBSET Event]
    BY <1>t, <1>2 DEF TypeOK, Open, Append, Event, Number
  <2>3. turn' \in [Turns -> Handler]
    BY <1>t, <1>2 DEF TypeOK, Open, Goto, Handler, Phase
  <2> QED
    BY <1>t, <1>2, <2>1, <2>2, <2>3 DEF TypeOK, Open, RunRow, Handler
<1>3. ASSUME NEW t \in Turns, NEW outcome \in {"replying", "failing"}, Answered(t, outcome)
      PROVE  TypeOK'
  <2>1. NextNumber(t) \in 0 .. 3
    <3>1. CASE exists
      BY <1>3, <3>1, NextNumberIsLow DEF TurnsInv, NumbersRead, Answered
    <3>2. CASE ~exists
      BY <3>2, NextNumberIsLow DEF TurnsInv, DeletedLeavesNothing
    <3> QED
      BY <3>1, <3>2
  <2>2. turn' \in [Turns -> Handler]
    <3> DEFINE handler == [turn[t] EXCEPT !.phase = outcome, !.next = NextNumber(t)]
    <3>1. turn \in [Turns -> Handler] /\ turn[t] \in Handler
      BY <1>t DEF TypeOK, Handler
    <3>2. handler \in Handler
      BY <2>1, <3>1 DEF Handler, Phase
    <3>3. turn' = [turn EXCEPT ![t] = handler]
      BY <1>3 DEF Answered
    <3> HIDE DEF handler
    <3> QED
      BY <3>1, <3>2, <3>3
  <2> QED
    BY <1>t, <1>3, <2>2 DEF TypeOK, Answered, Handler
<1>4. ASSUME NEW t \in Turns, Reply(t) PROVE TypeOK'
  <2>1. run' \in [Turns -> RunRow]
    <3> DEFINE row == [run[t] EXCEPT !.status = "SUCCEEDED", !.request = TRUE, !.reply = TRUE]
    <3>0. run \in [Turns -> RunRow] /\ run[t] \in RunRow
      BY <1>t DEF TypeOK, RunRow
    <3>1. row \in RunRow /\ run \in [Turns -> RunRow]
      BY <3>0 DEF RunRow, Status
    <3>2. run' = [run EXCEPT ![t] = row]
      BY <1>4 DEF Reply
    <3> HIDE DEF row
    <3> QED
      BY <3>1, <3>2
  <2>2. turn[t].next \in Number
    BY <1>t, <1>4 DEF TypeOK, Reply, TurnsInv, HandlersRead, Number
  <2>3. events' \in [Turns -> SUBSET Event]
    BY <1>t, <1>4, <2>2 DEF TypeOK, Reply, Append, Event
  <2>4. turn' \in [Turns -> Handler]
    BY <1>t, <1>4 DEF TypeOK, Reply, Goto, Handler, Phase
  <2> QED
    BY <1>t, <1>4, <2>1, <2>3, <2>4 DEF TypeOK, Reply, RunRow, Handler
<1>5. ASSUME NEW t \in Turns, Fail(t) PROVE TypeOK'
  <2>1. run' \in [Turns -> RunRow]
    BY <1>t, <1>5 DEF TypeOK, Fail, RunRow, Status
  <2>3. events' \in [Turns -> SUBSET Event]
    BY <1>t, <1>5 DEF TypeOK, Fail, Append, Event, TurnsInv, HandlersRead, Number
  <2>4. turn' \in [Turns -> Handler]
    BY <1>t, <1>5 DEF TypeOK, Fail, Goto, Handler, Phase
  <2> QED
    BY <1>t, <1>5, <2>1, <2>3, <2>4 DEF TypeOK, Fail, RunRow, Handler
<1>6. ASSUME NEW t \in Turns, Abort(t) \/ GrowOld(t) \/ Prune(t) PROVE TypeOK'
  <2>1. CASE Abort(t)
    <3>1. turn' \in [Turns -> Handler]
      BY <1>t, <2>1 DEF TypeOK, Abort, Goto, Handler, Phase
    <3> QED
      BY <1>t, <2>1, <3>1 DEF TypeOK, Abort, Handler
  <2>2. CASE GrowOld(t)
    <3>1. run' \in [Turns -> RunRow]
      BY <1>t, <2>2 DEF TypeOK, GrowOld, RunRow
    <3> QED
      BY <1>t, <2>2, <3>1 DEF TypeOK, GrowOld, RunRow
  <2>3. CASE Prune(t)
    BY <1>t, <2>3 DEF TypeOK, Prune
  <2> QED
    BY <1>6, <2>1, <2>2, <2>3
<1>7. CASE Delete \/ Pick \/ CloseFails \/ Restart
  <2>1. Resting \in Closer
    BY DEF Resting, Closer
  <2>2. CASE Delete
    <3>1. NoRun \in RunRow
      BY DEF NoRun, RunRow, Status
    <3>2. run' \in [Turns -> RunRow] /\ events' \in [Turns -> SUBSET Event]
      BY <2>2, <3>1 DEF Delete
    <3> QED
      BY <1>t, <2>2, <3>2 DEF TypeOK, Delete, RunRow
  <2>3. CASE Pick
    <3>1. closer' \in Closer
      BY <1>t, <2>3 DEF TypeOK, Pick, Closer
    <3> QED
      BY <1>t, <2>3, <3>1 DEF TypeOK, Pick, Closer
  <2>4. CASE CloseFails
    BY <1>t, <2>1, <2>4 DEF TypeOK, CloseFails, Closer
  <2>5. CASE Restart
    <3>1. turn' \in [Turns -> Handler]
      BY <1>t, <2>5 DEF TypeOK, Restart, Handler, Phase
    <3> QED
      BY <1>t, <2>1, <2>5, <3>1 DEF TypeOK, Restart, Closer, Handler
  <2> QED
    BY <1>7, <2>2, <2>3, <2>4, <2>5
<1>8. CASE Count
  <2>1. \A t \in closer.runs : NextNumber(t) \in 0 .. 3
    <3>1. CASE exists
      BY <1>t, <1>8, <3>1, NextNumberIsLow DEF TypeOK, Count, TurnsInv, NumbersRead
    <3>2. CASE ~exists
      <4>1. \A t \in closer.runs : t \in Turns /\ events[t] = {}
        BY <1>t, <3>2 DEF TypeOK, TurnsInv, DeletedLeavesNothing
      <4> QED
        BY <4>1, NextNumberIsLow
    <3> QED
      BY <3>1, <3>2
  <2>2. [t \in Turns |-> IF t \in closer.runs THEN NextNumber(t) ELSE 0] \in [Turns -> 0 .. 3]
    BY <2>1
  <2>3. closer' \in Closer
    BY <1>t, <1>8, <2>2 DEF TypeOK, Count, Closer
  <2> QED
    BY <1>t, <1>8, <2>3 DEF TypeOK, Count, Closer
<1>9. CASE Close
  <2>1. run' \in [Turns -> RunRow]
    <3>1. run' = [t \in Turns |-> IF t \in closer.runs THEN [run[t] EXCEPT !.status = "FAILED"]
                                 ELSE run[t]]
      BY <1>9 DEF Close
    <3>2. \A t \in Turns : run[t] \in RunRow /\ [run[t] EXCEPT !.status = "FAILED"] \in RunRow
      BY <1>t DEF TypeOK, RunRow, Status
    <3> QED
      BY <3>1, <3>2
  <2>2. events' \in [Turns -> SUBSET Event]
    BY <1>t, <1>9 DEF TypeOK, Close, Event, TurnsInv, HandlersRead, Number
  <2> QED
    BY <1>t, <1>9, <2>1, <2>2 DEF TypeOK, Close, RunRow, Resting
<1> QED
  BY <1>0, <1>1, <1>2, <1>3, <1>4, <1>5, <1>6, <1>7, <1>8, <1>9 DEF Next
-----------------------------------------------------------------------------
(* The invariant.                                                          *)

\* All of the invariant but the types.
Agreement ==
    /\ NumbersRead /\ HandlersRead
    /\ RepliesAgree /\ NumbersDiffer /\ RunningHasStarted /\ DeletedLeavesNothing
    /\ LinksHold /\ ServedIsOpen /\ PickedAreOld

LEMMA InvInit == Init => TurnsInv
<1> SUFFICES ASSUME Init PROVE TurnsInv
  OBVIOUS
<1>1. TypeOK
  BY DEF Init, TypeOK, NoRun, Resting, Status, Phase, Mode
<1>2. NumbersRead /\ HandlersRead
  BY DEF Init, NumbersRead, HandlersRead, NoRun, Resting, Serving
<1>3. RepliesAgree /\ NumbersDiffer /\ RunningHasStarted /\ DeletedLeavesNothing
  BY DEF Init, RepliesAgree, NumbersDiffer, RunningHasStarted, DeletedLeavesNothing, NoRun
<1>4. LinksHold /\ ServedIsOpen /\ PickedAreOld
  BY DEF Init, LinksHold, ServedIsOpen, PickedAreOld, NoRun, Resting
<1> QED
  BY <1>1, <1>2, <1>3, <1>4 DEF TurnsInv

LEMMA HandlerStep ==
    ASSUME TurnsInv, NEW t \in Turns, NEW mode \in Mode, NEW outcome \in {"replying", "failing"},
           Begin(t, mode) \/ Answered(t, outcome) \/ Abort(t)
    PROVE  Agreement'
<1>t. TypeOK
  BY DEF TurnsInv
<1>0. UNCHANGED <<exists, messages, run, events, closer>>
  BY DEF Begin, Answered, Abort
<1>1. \A u \in Turns \ {t} : turn'[u] = turn[u]
  BY <1>t DEF Begin, Answered, Abort, Goto, TypeOK
<1>2. \/ turn[t].phase = "idle" /\ turn'[t].phase = "resolving"
      \/ /\ turn[t].phase = "calling" /\ turn'[t].phase \in {"replying", "failing"}
         /\ turn'[t].next = NextNumber(t) /\ turn'[t].mode = turn[t].mode
      \/ turn'[t].phase = "over"
  <2>1. CASE Begin(t, mode)
    BY <1>t, <2>1 DEF Begin, TypeOK
  <2>2. CASE Answered(t, outcome)
    BY <1>t, <2>2 DEF Answered, TypeOK
  <2>3. CASE Abort(t)
    BY <1>t, <2>3 DEF Abort, Goto, TypeOK
  <2> QED
    BY <2>1, <2>2, <2>3
<1>3. run[t].status = "RUNNING" => NextNumber(t) = 2
  BY SecondNumber DEF TurnsInv, RunningHasStarted
<1>4. turn[t].phase = "calling" => NextNumber(t) # 0
  <2>1. CASE exists
    BY <2>1, NextNumberIsLow DEF TurnsInv, NumbersRead
  <2>2. CASE ~exists
    BY <2>2, NextNumberIsLow DEF TurnsInv, DeletedLeavesNothing
  <2> QED
    BY <2>1, <2>2
<1>5. NumbersRead'
  BY <1>0, <1>1, <1>2, <1>3 DEF TurnsInv, NumbersRead, Serving
<1>6. HandlersRead'
  BY <1>0, <1>1, <1>2, <1>4 DEF TurnsInv, HandlersRead
<1>7. ServedIsOpen'
  BY <1>0, <1>1, <1>2 DEF TurnsInv, ServedIsOpen
<1>8. (RepliesAgree /\ NumbersDiffer /\ RunningHasStarted /\ DeletedLeavesNothing)'
  BY <1>0 DEF TurnsInv, RepliesAgree, NumbersDiffer, RunningHasStarted, DeletedLeavesNothing
<1>9. (LinksHold /\ PickedAreOld)'
  BY <1>0 DEF TurnsInv, LinksHold, PickedAreOld
<1> QED
  BY <1>5, <1>6, <1>7, <1>8, <1>9 DEF Agreement

LEMMA OpenStep == ASSUME TurnsInv, NEW t \in Turns, Open(t) PROVE Agreement'
<1>t. TypeOK /\ closer.runs \subseteq Turns
  BY DEF TurnsInv, TypeOK
<1>0. exists' = exists /\ closer' = closer /\ exists /\ turn[t].phase = "resolving"
  BY DEF Open
<1>1. \A u \in Turns \ {t} : turn'[u] = turn[u] /\ run'[u] = run[u] /\ events'[u] = events[u]
  BY <1>t DEF Open, Goto, Append, TypeOK
<1>2. turn'[t].phase = "calling" /\ turn'[t].mode = turn[t].mode
  BY <1>t DEF Open, Goto, TypeOK
<1>3. /\ run'[t].status = "RUNNING" /\ ~run'[t].reply
      /\ run'[t].request <=> turn[t].mode = "stream"
  BY <1>t DEF Open, TypeOK
<1>4. run[t] = NoRun /\ events[t] = {}
  BY <1>0 DEF TurnsInv, ServedIsOpen
<1>5. events'[t] = {[seq |-> 1, type |-> "started"]}
  BY <1>t, <1>4 DEF Open, Append, TypeOK
<1>6. t \notin closer.runs
  BY <1>0, <1>4 DEF TurnsInv, PickedAreOld, NoRun
<1>7. messages' = IF turn[t].mode = "stream" THEN messages \cup {<<t, "user">>} ELSE messages
  BY DEF Open
<1>8. <<t, "user">> \notin messages /\ <<t, "assistant">> \notin messages
  BY <1>4 DEF TurnsInv, LinksHold, NoRun
<1>9. NumbersRead'
  BY <1>0, <1>1, <1>2, <1>3, <1>5, <1>6 DEF TurnsInv, NumbersRead, Serving
<1>10. HandlersRead'
  BY <1>0, <1>1, <1>2 DEF TurnsInv, HandlersRead
<1>11. ServedIsOpen'
  BY <1>0, <1>1, <1>2, <1>3 DEF TurnsInv, ServedIsOpen
<1>12. RepliesAgree'
  BY <1>1, <1>3, <1>7, <1>8 DEF TurnsInv, RepliesAgree
<1>13. (NumbersDiffer /\ RunningHasStarted)'
  BY <1>1, <1>5 DEF TurnsInv, NumbersDiffer, RunningHasStarted
<1>14. (DeletedLeavesNothing /\ PickedAreOld)'
  BY <1>t, <1>0, <1>1, <1>6 DEF TurnsInv, DeletedLeavesNothing, PickedAreOld
<1>15. LinksHold'
  BY <1>1, <1>3, <1>7, <1>8 DEF TurnsInv, LinksHold
<1> QED
  BY <1>9, <1>10, <1>11, <1>12, <1>13, <1>14, <1>15 DEF Agreement

LEMMA ReplyStep == ASSUME TurnsInv, NEW t \in Turns, Reply(t) PROVE Agreement'
<1>t. TypeOK /\ closer.runs \subseteq Turns
  BY DEF TurnsInv, TypeOK
<1>0. exists' = exists /\ closer' = closer /\ exists /\ turn[t].phase = "replying"
  BY DEF Reply, Appendable
<1>1. \A u \in Turns \ {t} : turn'[u] = turn[u] /\ run'[u] = run[u] /\ events'[u] = events[u]
  BY <1>t DEF Reply, Goto, Append, TypeOK
<1>2. turn'[t].phase = "over"
  BY <1>t DEF Reply, Goto, TypeOK
<1>3. /\ run'[t].status = "SUCCEEDED" /\ run'[t].reply /\ run'[t].request
      /\ run'[t].old = run[t].old
  BY <1>t DEF Reply, TypeOK
<1>4. events'[t] = events[t] \cup {[seq |-> turn[t].next, type |-> "completed"]}
  BY <1>t DEF Reply, Append, TypeOK
<1>5. \A e \in events[t] : e.seq # turn[t].next
  BY DEF Reply, Appendable
<1>6. messages' = messages \cup {<<t, "user">>, <<t, "assistant">>}
  BY DEF Reply
<1>7. t \in closer.runs => turn[t].next = 2 /\ events[t] = {[seq |-> 1, type |-> "started"]}
  BY <1>0 DEF TurnsInv, NumbersRead, Serving, RunningHasStarted
<1>9. NumbersRead'
  BY <1>0, <1>1, <1>2, <1>3, <1>4, <1>7 DEF TurnsInv, NumbersRead, Serving
<1>10. HandlersRead'
  BY <1>0, <1>1, <1>2 DEF TurnsInv, HandlersRead
<1>11. ServedIsOpen'
  BY <1>0, <1>1, <1>2, <1>3 DEF TurnsInv, ServedIsOpen
<1>12. RepliesAgree'
  BY <1>1, <1>3, <1>6 DEF TurnsInv, RepliesAgree
<1>13. (NumbersDiffer /\ RunningHasStarted)'
  BY <1>1, <1>3, <1>4, <1>5 DEF TurnsInv, NumbersDiffer, RunningHasStarted
<1>14. (DeletedLeavesNothing /\ PickedAreOld)'
  BY <1>t, <1>0, <1>1, <1>3 DEF TurnsInv, DeletedLeavesNothing, PickedAreOld
<1>15. LinksHold'
  BY <1>1, <1>3, <1>6 DEF TurnsInv, LinksHold
<1> QED
  BY <1>9, <1>10, <1>11, <1>12, <1>13, <1>14, <1>15 DEF Agreement

LEMMA FailStep == ASSUME TurnsInv, NEW t \in Turns, Fail(t) PROVE Agreement'
<1>t. TypeOK /\ closer.runs \subseteq Turns
  BY DEF TurnsInv, TypeOK
<1>0. UNCHANGED <<exists, closer, messages>> /\ exists /\ turn[t].phase = "failing"
  BY DEF Fail, Appendable
<1>1. \A u \in Turns \ {t} : turn'[u] = turn[u] /\ run'[u] = run[u] /\ events'[u] = events[u]
  BY <1>t DEF Fail, Goto, Append, TypeOK
<1>2. turn'[t].phase = "over"
  BY <1>t DEF Fail, Goto, TypeOK
<1>3. /\ run'[t].status = "FAILED" /\ run'[t].reply = run[t].reply
      /\ run'[t].request = run[t].request /\ run'[t].old = run[t].old
  BY <1>t DEF Fail, TypeOK
<1>4. events'[t] = events[t] \cup {[seq |-> turn[t].next, type |-> "failed"]}
  BY <1>t DEF Fail, Append, TypeOK
<1>5. \A e \in events[t] : e.seq # turn[t].next
  BY DEF Fail, Appendable
<1>6. <<t, "assistant">> \notin messages
  BY <1>0 DEF TurnsInv, ServedIsOpen, LinksHold
<1>7. t \in closer.runs => turn[t].next = 2 /\ events[t] = {[seq |-> 1, type |-> "started"]}
  BY <1>0 DEF TurnsInv, NumbersRead, Serving, RunningHasStarted
<1>9. NumbersRead'
  BY <1>0, <1>1, <1>2, <1>3, <1>4, <1>7 DEF TurnsInv, NumbersRead, Serving
<1>10. HandlersRead'
  BY <1>0, <1>1, <1>2 DEF TurnsInv, HandlersRead
<1>11. ServedIsOpen'
  BY <1>0, <1>1, <1>2, <1>3 DEF TurnsInv, ServedIsOpen
<1>12. RepliesAgree'
  BY <1>0, <1>1, <1>3, <1>6 DEF TurnsInv, RepliesAgree
<1>13. (NumbersDiffer /\ RunningHasStarted)'
  BY <1>1, <1>3, <1>4, <1>5 DEF TurnsInv, NumbersDiffer, RunningHasStarted
<1>14. (DeletedLeavesNothing /\ PickedAreOld)'
  BY <1>t, <1>0, <1>1, <1>3 DEF TurnsInv, DeletedLeavesNothing, PickedAreOld
<1>15. LinksHold'
  BY <1>0, <1>1, <1>3, <1>6 DEF TurnsInv, LinksHold
<1> QED
  BY <1>9, <1>10, <1>11, <1>12, <1>13, <1>14, <1>15 DEF Agreement
LEMMA AgeStep == ASSUME TurnsInv, NEW t \in Turns, GrowOld(t) \/ Prune(t) PROVE Agreement'
<1>t. TypeOK /\ closer.runs \subseteq Turns
  BY DEF TurnsInv, TypeOK
<1>0. UNCHANGED <<exists, messages, turn, closer>>
  BY DEF GrowOld, Prune
<1>1. \A u \in Turns :
        /\ run'[u].status = run[u].status /\ run'[u].request = run[u].request
        /\ run'[u].reply = run[u].reply /\ (run[u].old => run'[u].old)
        /\ run'[u] # run[u] => run[u].status = "RUNNING"
  BY <1>t DEF GrowOld, Prune, TypeOK
<1>2. \A u \in Turns :
        \/ events'[u] = events[u]
        \/ /\ events'[u] = {} /\ u \notin closer.runs
           /\ turn[u].phase \notin AtWork /\ run[u].status \in Ended
  BY <1>t DEF GrowOld, Prune, Prunable, TypeOK
<1>3. NumbersRead'
  BY <1>0, <1>1, <1>2 DEF TurnsInv, NumbersRead, Serving, AtWork, Phase
<1>4. HandlersRead'
  BY <1>0 DEF TurnsInv, HandlersRead
<1>5. ServedIsOpen'
  <2>1. \A u \in Turns : turn[u].phase \in {"idle", "resolving"} => run'[u] = run[u] /\ events'[u] = {}
    BY <1>1, <1>2 DEF TurnsInv, ServedIsOpen, NoRun
  <2>2. \A u \in Turns : run[u].status = "none" => events'[u] = {}
    BY <1>2 DEF TurnsInv, ServedIsOpen
  <2> QED
    BY <1>0, <1>1, <2>1, <2>2 DEF TurnsInv, ServedIsOpen
<1>6. RepliesAgree'
  BY <1>0, <1>1 DEF TurnsInv, RepliesAgree
<1>7. (NumbersDiffer /\ RunningHasStarted)'
  BY <1>1, <1>2 DEF TurnsInv, NumbersDiffer, RunningHasStarted, Ended
<1>8. DeletedLeavesNothing'
  BY <1>0, <1>1, <1>2 DEF TurnsInv, DeletedLeavesNothing, NoRun
<1>9. PickedAreOld'
  BY <1>t, <1>0, <1>1 DEF TurnsInv, PickedAreOld
<1>10. LinksHold'
  BY <1>0, <1>1 DEF TurnsInv, LinksHold
<1> QED
  BY <1>3, <1>4, <1>5, <1>6, <1>7, <1>8, <1>9, <1>10 DEF Agreement

LEMMA DeleteStep == ASSUME TurnsInv, Delete PROVE Agreement'
<1>0. ~exists' /\ messages' = {} /\ UNCHANGED <<turn, closer>>
  BY DEF Delete
<1>1. \A u \in Turns : run'[u] = NoRun /\ events'[u] = {}
  BY DEF Delete
<1>2. (NumbersRead /\ HandlersRead)'
  BY <1>0 DEF TurnsInv, NumbersRead, HandlersRead
<1>3. (RepliesAgree /\ NumbersDiffer /\ RunningHasStarted /\ DeletedLeavesNothing)'
  BY <1>0, <1>1 DEF RepliesAgree, NumbersDiffer, RunningHasStarted, DeletedLeavesNothing, NoRun
<1>4. (LinksHold /\ ServedIsOpen /\ PickedAreOld)'
  BY <1>0, <1>1 DEF LinksHold, ServedIsOpen, PickedAreOld, NoRun
<1> QED
  BY <1>2, <1>3, <1>4 DEF Agreement

LEMMA LoopStep == ASSUME TurnsInv, Pick \/ Count \/ CloseFails PROVE Agreement'
<1>t. TypeOK
  BY DEF TurnsInv
<1>0. UNCHANGED <<exists, messages, run, events, turn>>
  BY DEF Pick, Count, CloseFails
<1>1. (RepliesAgree /\ NumbersDiffer /\ RunningHasStarted /\ DeletedLeavesNothing)'
  BY <1>0 DEF TurnsInv, RepliesAgree, NumbersDiffer, RunningHasStarted, DeletedLeavesNothing
<1>2. (LinksHold /\ ServedIsOpen)'
  BY <1>0 DEF TurnsInv, LinksHold, ServedIsOpen
<1>3. CASE Pick
  <2>1. closer'.phase = "picked" /\ closer'.runs = {t \in Turns : Stale(t)}
    BY <1>t, <1>3 DEF Pick, TypeOK
  <2>2. \A t \in closer'.runs :
          run[t].status = "RUNNING" /\ run[t].old /\ \A e \in events[t] : e.seq = 1
    BY <2>1 DEF Stale, TurnsInv, RunningHasStarted
  <2>3. (NumbersRead /\ HandlersRead)'
    BY <1>0, <2>1, <2>2 DEF TurnsInv, NumbersRead, HandlersRead
  <2>4. PickedAreOld'
    BY <1>0, <2>2 DEF PickedAreOld
  <2> QED
    BY <1>1, <1>2, <2>3, <2>4 DEF Agreement
<1>4. CASE Count
  <2>1. /\ closer.phase = "picked" /\ closer'.phase = "numbered" /\ closer'.runs = closer.runs
        /\ \A t \in closer.runs : closer'.next[t] = NextNumber(t)
    BY <1>t, <1>4 DEF Count, TypeOK
  <2>2. \A t \in closer.runs : NextNumber(t) # 0
    <3>1. CASE exists
      BY <1>t, <2>1, <3>1, NextNumberIsLow DEF TypeOK, TurnsInv, NumbersRead
    <3>2. CASE ~exists
      <4>1. \A t \in closer.runs : t \in Turns /\ events[t] = {}
        BY <1>t, <3>2 DEF TypeOK, TurnsInv, DeletedLeavesNothing
      <4>2. ASSUME NEW t \in closer.runs PROVE NextNumber(t) # 0
        <5>1. NextNumber(t) \in 1 .. 3
          BY <4>1, NextNumberIsLow
        <5> QED
          BY <5>1
      <4> QED
        BY <4>2
    <3> QED
      BY <3>1, <3>2
  <2>3. \A t \in Turns : run[t].status = "RUNNING" => NextNumber(t) = 2
    BY SecondNumber DEF TurnsInv, RunningHasStarted
  <2>4. HandlersRead'
    BY <1>0, <2>1, <2>2 DEF TurnsInv, HandlersRead
  <2>5. NumbersRead'
    BY <1>0, <2>1, <2>3 DEF TurnsInv, NumbersRead
  <2>6. PickedAreOld'
    BY <1>0, <2>1 DEF TurnsInv, PickedAreOld
  <2> QED
    BY <1>1, <1>2, <2>4, <2>5, <2>6 DEF Agreement
<1>5. CASE CloseFails
  <2>1. closer'.phase = "idle" /\ closer'.runs = {}
    BY <1>5 DEF CloseFails, Resting
  <2>2. (NumbersRead /\ HandlersRead /\ PickedAreOld)'
    BY <1>0, <2>1 DEF TurnsInv, NumbersRead, HandlersRead, PickedAreOld
  <2> QED
    BY <1>1, <1>2, <2>2 DEF Agreement
<1> QED
  BY <1>3, <1>4, <1>5

LEMMA CloseStep == ASSUME TurnsInv, Close PROVE Agreement'
<1>t. TypeOK /\ closer.runs \subseteq Turns
  BY DEF TurnsInv, TypeOK
<1>0. UNCHANGED <<exists, messages, turn>> /\ closer'.phase = "idle" /\ closer'.runs = {}
  BY DEF Close, Resting
<1>1. \A u \in Turns \ closer.runs : run'[u] = run[u] /\ events'[u] = events[u]
  BY <1>t DEF Close, TypeOK
<1>2. \A u \in closer.runs :
        /\ run'[u].status = "FAILED" /\ run'[u].old = run[u].old
        /\ run'[u].request = run[u].request /\ run'[u].reply = run[u].reply
        /\ events'[u] = events[u] \cup {[seq |-> closer.next[u], type |-> "failed"]}
        /\ \A e \in events[u] : e.seq # closer.next[u]
  BY <1>t DEF Close, Appendable, TypeOK
<1>3. closer.runs # {} => exists
  BY DEF Close, Appendable
<1>4. \A u \in closer.runs : run[u].old
  BY <1>3 DEF TurnsInv, PickedAreOld
<1>5. \A u \in closer.runs : turn[u].phase = "calling" =>
        closer.next[u] = 2 /\ events[u] = {[seq |-> 1, type |-> "started"]}
  <2>1. closer.phase = "numbered"
    BY DEF Close
  <2> QED
    BY <1>t, <1>3, <2>1 DEF TurnsInv, NumbersRead, Serving, RunningHasStarted
<1>6. NumbersRead'
  BY <1>t, <1>0, <1>1, <1>2, <1>5 DEF TurnsInv, NumbersRead
<1>7. HandlersRead'
  BY <1>0 DEF TurnsInv, HandlersRead
<1>8. ServedIsOpen'
  <2>1. \A u \in closer.runs : turn[u].phase \notin {"idle", "resolving"}
    BY <1>t, <1>4 DEF TurnsInv, ServedIsOpen, NoRun
  <2> QED
    BY <1>t, <1>0, <1>1, <1>2, <1>4, <2>1 DEF TurnsInv, ServedIsOpen
<1>9. RepliesAgree'
  <2>1. ASSUME NEW u \in closer.runs
        PROVE  run'[u].status = "FAILED" /\ run'[u].old
    BY <1>2, <1>4, <2>1
  <2>2. ASSUME NEW u \in Turns \ closer.runs PROVE run'[u] = run[u]
    BY <1>1, <2>2
  <2>3. messages' = messages
    BY <1>0
  <2> QED
    BY <2>1, <2>2, <2>3 DEF TurnsInv, RepliesAgree
<1>10. (NumbersDiffer /\ RunningHasStarted)'
  BY <1>t, <1>1, <1>2 DEF TurnsInv, NumbersDiffer, RunningHasStarted
<1>11. DeletedLeavesNothing'
  BY <1>t, <1>0, <1>1, <1>3 DEF TurnsInv, DeletedLeavesNothing
<1>12. (LinksHold /\ PickedAreOld)'
  BY <1>t, <1>0, <1>1, <1>2 DEF TurnsInv, LinksHold, PickedAreOld
<1> QED
  BY <1>6, <1>7, <1>8, <1>9, <1>10, <1>11, <1>12 DEF Agreement

LEMMA RestartStep == ASSUME TurnsInv, Restart PROVE Agreement'
<1>t. TypeOK
  BY DEF TurnsInv
<1>0. /\ UNCHANGED <<exists, messages, run, events>>
      /\ closer'.phase = "idle" /\ closer'.runs = {}
  BY DEF Restart, Resting
<1>1. \A u \in Turns : turn'[u] = turn[u] \/ turn'[u].phase = "over"
  BY <1>t DEF Restart, TypeOK
<1>2. (NumbersRead /\ HandlersRead)'
  BY <1>0, <1>1 DEF TurnsInv, NumbersRead, HandlersRead, Serving
<1>3. (RepliesAgree /\ NumbersDiffer /\ RunningHasStarted /\ DeletedLeavesNothing)'
  BY <1>0 DEF TurnsInv, RepliesAgree, NumbersDiffer, RunningHasStarted, DeletedLeavesNothing
<1>4. (LinksHold /\ PickedAreOld)'
  BY <1>0 DEF TurnsInv, LinksHold, PickedAreOld
<1>5. ServedIsOpen'
  BY <1>0, <1>1 DEF TurnsInv, ServedIsOpen
<1> QED
  BY <1>2, <1>3, <1>4, <1>5 DEF Agreement

LEMMA InvStep == TurnsInv /\ [Next]_vars => TurnsInv'
<1> SUFFICES ASSUME TurnsInv, [Next]_vars PROVE TurnsInv'
  OBVIOUS
<1>1. TypeOK'
  BY TypeStep
<1>2. Agreement'
  <2>1. CASE UNCHANGED vars
    BY <2>1 DEF vars, TurnsInv, Agreement, NumbersRead, HandlersRead, RepliesAgree, NumbersDiffer,
       RunningHasStarted, DeletedLeavesNothing, LinksHold, ServedIsOpen, PickedAreOld
  <2>2. CASE Next
    BY <2>2, HandlerStep, OpenStep, ReplyStep, FailStep, AgeStep, DeleteStep, LoopStep,
       CloseStep, RestartStep DEF Next, Mode
  <2> QED
    BY <2>1, <2>2
<1> QED
  BY <1>1, <1>2 DEF TurnsInv, Agreement

\* Replies, runs and events agree, the loop and a handler never give one number
\* twice, and a deleted conversation keeps nothing, for any number of turns.
THEOREM TurnsInvariant == Spec => []TurnsInv
BY InvInit, InvStep, PTL DEF Spec

-----------------------------------------------------------------------------
(* The end of a run.                                                       *)

\* No step gives a run that has ended another end, unless its turn lasted longer
\* than the limit.
THEOREM EndsAreFinal == Spec => EndIsFinal
<1> DEFINE Final(t) == run[t].status \in Ended /\ ~run[t].old
                          => run'[t].status \in {run[t].status, "none"}
<1>1. ASSUME TurnsInv, [Next]_vars, NEW t \in Turns PROVE Final(t)
  <2>t. TypeOK /\ closer.runs \subseteq Turns
    BY <1>1 DEF TurnsInv, TypeOK
  <2>1. CASE UNCHANGED run
    BY <2>1
  <2>2. ASSUME NEW u \in Turns, Open(u) PROVE Final(t)
    BY <1>1, <2>t, <2>2 DEF Open, TypeOK, TurnsInv, ServedIsOpen, NoRun, Ended
  <2>3. ASSUME NEW u \in Turns, Reply(u) \/ Fail(u) PROVE Final(t)
    BY <1>1, <2>t, <2>3
       DEF Reply, Fail, Appendable, TypeOK, TurnsInv, ServedIsOpen, Ended
  <2>4. ASSUME NEW u \in Turns, GrowOld(u) PROVE Final(t)
    BY <2>t, <2>4 DEF GrowOld, TypeOK
  <2>5. CASE Delete
    BY <2>5 DEF Delete, NoRun
  <2>6. CASE Close
    BY <1>1, <2>t, <2>6 DEF Close, Appendable, TypeOK, TurnsInv, PickedAreOld
  <2> QED
    BY <1>1, <2>1, <2>2, <2>3, <2>4, <2>5, <2>6
       DEF Next, vars, Begin, Answered, Abort, Prune, Pick, Count, CloseFails, Restart
<1>2. TurnsInv /\ [Next]_vars => [\A t \in Turns : Final(t)]_vars
  BY <1>1
<1> QED
  BY <1>2, TurnsInvariant, PTL DEF Spec, EndIsFinal

-----------------------------------------------------------------------------
(* ModelCatalog: catalogs.                                                 *)

\* What DefaultsAgree says of one capability of a catalog.
Agree(catalog, c) ==
    IF Able(catalog, c) = {} THEN Flagged(catalog, c) = {}
    ELSE \E n \in Able(catalog, c) : Flagged(catalog, c) = {n}

LEMMA NoRowIsNone ==
    /\ NoRow.enabled = FALSE /\ NoRow.caps = {} /\ NoRow.default = {}
    /\ NoRow \notin Row
<1>1. NoRow.enabled = FALSE /\ NoRow.caps = {} /\ NoRow.default = {}
  BY DEF NoRow
<1>2. \A row \in Row : row.caps # {}
  BY DEF Row
<1> QED
  BY <1>1, <1>2

\* The rows of a catalog.
LEMMA CatalogRows ==
    ASSUME NEW catalog \in Catalog, NEW n \in Models
    PROVE  /\ n \in Names(catalog) <=> catalog[n] \in Row
           /\ n \notin Names(catalog) <=> catalog[n] = NoRow
           /\ catalog[n].enabled \in BOOLEAN /\ catalog[n].caps \subseteq Capabilities
           /\ catalog[n].default \subseteq Capabilities
<1>1. catalog[n] \in Row \cup {NoRow}
  BY DEF Catalog
<1>2. n \in Names(catalog) <=> catalog[n] # NoRow
  BY DEF Names
<1>3. catalog[n] \in Row => /\ catalog[n].enabled \in BOOLEAN /\ catalog[n].caps \subseteq Capabilities
                            /\ catalog[n].default \subseteq Capabilities
  BY DEF Row
<1> QED
  BY <1>1, <1>2, <1>3, NoRowIsNone

\* A model that is able or flagged has a row.
LEMMA NamedWhenAble ==
    ASSUME NEW catalog \in Catalog, NEW c
    PROVE  Able(catalog, c) \subseteq Names(catalog) /\ Flagged(catalog, c) \subseteq Names(catalog)
BY NoRowIsNone DEF Able, Flagged, Names

\* The default that is chosen is able, and there is one if any model is.
LEMMA ChosenIsAble ==
    ASSUME NEW catalog \in Catalog, NEW c, NEW preferred, NEW x \in Chosen(catalog, c, preferred)
    PROVE  IF Able(catalog, c) = {} THEN x = None ELSE x \in Able(catalog, c)
BY DEF Chosen

\* A catalog with its defaults set has the rows it had.
LEMMA DefaultsSet ==
    ASSUME NEW catalog \in Catalog, NEW caps \in SUBSET Capabilities,
           NEW choice \in [caps -> Models \cup {None}],
           \A c \in caps : choice[c] \in Names(catalog) \cup {None}
    PROVE  LET new == WithDefaults(catalog, caps, choice) IN
           /\ new \in Catalog
           /\ Names(new) = Names(catalog)
           /\ \A c : Able(new, c) = Able(catalog, c)
           /\ \A c \in caps : Flagged(new, c) = {choice[c]} \ {None}
           /\ \A c \in Capabilities \ caps : Flagged(new, c) = Flagged(catalog, c)
<1> DEFINE new == WithDefaults(catalog, caps, choice)
           default(n) == (catalog[n].default \ caps) \cup {c \in caps : choice[c] = n}
<1>1. ASSUME NEW n \in Names(catalog)
      PROVE  /\ new[n] \in Row
             /\ new[n].enabled = catalog[n].enabled /\ new[n].caps = catalog[n].caps
             /\ new[n].default = default(n)
  <2>1. n \in Models /\ catalog[n] # NoRow
    BY DEF Names
  <2>2. catalog[n] \in Row
    BY <2>1, CatalogRows
  <2>3. new[n] = [catalog[n] EXCEPT !.default = default(n)]
    BY <2>1 DEF WithDefaults
  <2>4. default(n) \in SUBSET Capabilities
    BY <2>2 DEF Row
  <2> HIDE DEF default, new
  <2> QED
    BY <2>2, <2>3, <2>4 DEF Row
<1>2. ASSUME NEW n \in Models \ Names(catalog) PROVE new[n] = NoRow /\ catalog[n] = NoRow
  BY DEF Names, WithDefaults
<1>3. DOMAIN new = Models /\ new = [n \in Models |-> new[n]]
  BY DEF WithDefaults
<1>4. Names(catalog) \subseteq Models
  BY DEF Names
<1> HIDE DEF new
<1>5. new \in Catalog
  BY <1>1, <1>2, <1>3, <1>4 DEF Catalog
<1>6. Names(new) = Names(catalog)
  <2>1. \A n \in Names(catalog) : n \in Names(new)
    BY <1>1, <1>4, <1>5, CatalogRows
  <2>2. \A n \in Models \ Names(catalog) : n \notin Names(new)
    BY <1>2 DEF Names
  <2> QED
    BY <1>4, <2>1, <2>2 DEF Names
<1>7. \A c : Able(new, c) = Able(catalog, c)
  <2>1. \A n \in Models : new[n].enabled = catalog[n].enabled /\ new[n].caps = catalog[n].caps
    BY <1>1, <1>2
  <2> QED
    BY <2>1 DEF Able
<1>8. ASSUME NEW c \in caps PROVE Flagged(new, c) = {choice[c]} \ {None}
  <2>1. \A n \in Models \ Names(catalog) : c \notin new[n].default
    BY <1>2, NoRowIsNone
  <2>2. \A n \in Names(catalog) : c \in new[n].default <=> choice[c] = n
    BY <1>1
  <2>3. choice[c] \in Names(catalog) \/ choice[c] = None
    OBVIOUS
  <2> QED
    BY <1>4, <2>1, <2>2, <2>3, NoneAssumption DEF Flagged
<1>9. ASSUME NEW c \in Capabilities \ caps PROVE Flagged(new, c) = Flagged(catalog, c)
  <2>1. \A n \in Models : c \in new[n].default <=> c \in catalog[n].default
    BY <1>1, <1>2
  <2> QED
    BY <2>1 DEF Flagged
<1> QED
  BY <1>5, <1>6, <1>7, <1>8, <1>9 DEF new

\* What normalising capabilities makes of a catalog: rows and what they are
\* able to are kept, and so are the defaults of the other capabilities.
NormalForm(catalog, caps, preferred, new) ==
    /\ new \in Catalog
    /\ Names(new) = Names(catalog)
    /\ \A c : Able(new, c) = Able(catalog, c)
    /\ \A c \in caps : \E x \in Chosen(catalog, c, preferred[c]) : Flagged(new, c) = {x} \ {None}
    /\ \A c \in Capabilities \ caps : Flagged(new, c) = Flagged(catalog, c)
    /\ \A c \in caps : Agree(new, c)

LEMMA NormalisedCatalog ==
    ASSUME NEW catalog \in Catalog, NEW caps \in SUBSET Capabilities, NEW preferred,
           NEW new \in Normalised(catalog, caps, preferred)
    PROVE  NormalForm(catalog, caps, preferred, new)
<1>1. PICK choice \in [caps -> Models \cup {None}] :
          /\ \A c \in caps : choice[c] \in Chosen(catalog, c, preferred[c])
          /\ new = WithDefaults(catalog, caps, choice)
  BY DEF Normalised
<1>2. \A c \in caps : choice[c] \in Names(catalog) \cup {None}
  BY <1>1, ChosenIsAble, NamedWhenAble
<1>3. /\ new \in Catalog
      /\ Names(new) = Names(catalog)
      /\ \A c : Able(new, c) = Able(catalog, c)
      /\ \A c \in caps : Flagged(new, c) = {choice[c]} \ {None}
      /\ \A c \in Capabilities \ caps : Flagged(new, c) = Flagged(catalog, c)
  BY <1>1, <1>2, DefaultsSet
<1>4. ASSUME NEW c \in caps PROVE Agree(new, c)
  <2>1. IF Able(catalog, c) = {} THEN choice[c] = None ELSE choice[c] \in Able(catalog, c)
    BY <1>1, ChosenIsAble
  <2>2. Able(catalog, c) \subseteq Models /\ Able(new, c) = Able(catalog, c)
    BY <1>3 DEF Able
  <2> QED
    BY <1>3, <2>1, <2>2, NoneAssumption DEF Agree
<1> QED
  BY <1>1, <1>3, <1>4 DEF NormalForm

\* The catalog of the deployment's configuration.
LEMMA SeededCatalog ==
    /\ Seeded \in Catalog /\ Names(Seeded) = Seeds
    /\ \A c \in Capabilities : Agree(Seeded, c)
<1>1. /\ Seeds \subseteq Models /\ SeedDefault \in Seeds /\ Chat \in Capabilities
  BY SeedAssumption
<1>2. ASSUME NEW n \in Seeds
      PROVE  /\ Seeded[n].enabled = TRUE /\ Seeded[n].caps = {Chat}
             /\ Seeded[n].default = IF n = SeedDefault THEN {Chat} ELSE {}
             /\ Seeded[n] \in Row
  BY <1>1 DEF Seeded, Row
<1>3. ASSUME NEW n \in Models \ Seeds PROVE Seeded[n] = NoRow
  BY DEF Seeded
<1>4. Seeded \in [Models -> Row \cup {NoRow}]
  <2>1. Seeded = [n \in Models |-> Seeded[n]]
    BY DEF Seeded
  <2> QED
    BY <1>1, <1>2, <1>3, <2>1
<1>5. \A n \in Seeds : Seeded[n] # NoRow
  BY <1>2, NoRowIsNone
<1>6. Names(Seeded) = Seeds
  BY <1>1, <1>3, <1>5 DEF Names
<1>7. Able(Seeded, Chat) = Seeds /\ Flagged(Seeded, Chat) = {SeedDefault}
  BY <1>1, <1>2, <1>3, NoRowIsNone DEF Able, Flagged
<1>8. \A c \in Capabilities \ {Chat} : Able(Seeded, c) = {} /\ Flagged(Seeded, c) = {}
  BY <1>1, <1>2, <1>3, NoRowIsNone DEF Able, Flagged
<1>9. ASSUME NEW c \in Capabilities PROVE Agree(Seeded, c)
  BY <1>1, <1>7, <1>8 DEF Agree
<1> QED
  BY <1>4, <1>6, <1>9 DEF Catalog

-----------------------------------------------------------------------------
(* ModelCatalog: transactions.                                             *)

CatalogRequest == [phase : {"idle", "read"}, read : Catalog, lost : SUBSET Models, fresh : BOOLEAN]
GatewayRow == [phase : {"none", "one", "two"}, own : Models \cup {None},
               models : SUBSET Models, connections : SUBSET Models]

LEMMA CatalogTypes ==
    CatalogTypeOK <=>
        /\ rows \in Catalog /\ request \in [Requests -> CatalogRequest]
        /\ raced \in SUBSET Capabilities /\ gateway \in GatewayRow
BY DEF CatalogTypeOK, CatalogRequest, GatewayRow

LEMMA IdleRequests ==
    /\ Empty \in Catalog /\ Names(Empty) = {}
    /\ Idle \in CatalogRequest /\ Idle.phase = "idle"
    /\ NoGateway \in GatewayRow /\ NoGateway.phase = "none"
<1>1. Empty \in Catalog /\ Names(Empty) = {}
  BY DEF Empty, Catalog, Names
<1>2. Idle \in CatalogRequest /\ Idle.phase = "idle"
  BY <1>1 DEF Idle, CatalogRequest
<1>3. NoGateway \in GatewayRow /\ NoGateway.phase = "none"
  BY DEF NoGateway, GatewayRow
<1> QED
  BY <1>1, <1>2, <1>3

\* The columns that differ are written to a row that is there.
LEMMA UpdatedRow ==
    ASSUME NEW now \in Row, NEW read \in Row, NEW new \in Row
    PROVE  /\ Updated(now, read, new) \in Row
           /\ now = read => Updated(now, read, new) = new
<1>1. Merged(now.default, read.default, new.default) \in SUBSET Capabilities
  BY DEF Merged
<1>2. Updated(now, read, new) \in Row
  BY <1>1 DEF Updated, Row
<1>3. ASSUME now = read PROVE Updated(now, read, new) = new
  <2>1. Merged(now.default, read.default, new.default) = new.default
    BY <1>3 DEF Merged, Row
  <2>2. Updated(now, read, new) = [enabled |-> new.enabled, caps |-> new.caps, default |-> new.default]
    BY <1>3, <2>1 DEF Updated
  <2> QED
    BY <2>2 DEF Row
<1> QED
  BY <1>2, <1>3

\* What a transaction does to each row.
LEMMA CommitRows ==
    ASSUME CatalogTypeOK, ReadingsHold, NEW r \in Requests, request[r].phase = "read",
           NEW new \in Catalog, NEW repaired, Commit(r, new, repaired), NEW n \in Models
    PROVE  /\ rows'[n] \in Row \cup {NoRow}
           /\ n \in Names(rows) /\ rows'[n] = NoRow => n \in (Names(request[r].read) \ Names(new))
           /\ request[r].fresh => rows'[n] = new[n]
<1> DEFINE read == request[r].read
           inserted == Names(new) \ Names(read)
           deleted == Names(read) \ Names(new)
           updated == {m \in Names(read) \cap Names(new) : read[m] # new[m]}
<1>1. /\ read \in Catalog /\ rows \in Catalog
      /\ Names(read) \ request[r].lost \subseteq Names(rows)
      /\ request[r].fresh => read = rows
  BY CatalogTypes DEF CatalogRequest, ReadingsHold
<1>2. /\ inserted \cap Names(rows) = {} /\ updated \cap request[r].lost = {}
      /\ rows'[n] = CASE n \in deleted -> NoRow
                      [] n \in inserted -> new[n]
                      [] n \in updated -> Updated(rows[n], read[n], new[n])
                      [] OTHER -> rows[n]
  BY DEF Commit
<1> HIDE DEF read
<1>3. CASE n \in deleted
  <2>1. rows'[n] = NoRow
    BY <1>2, <1>3
  <2>2. new[n] = NoRow
    BY <1>3, CatalogRows
  <2> QED
    BY <1>3, <2>1, <2>2 DEF read
<1>4. CASE n \in inserted
  <2>1. rows'[n] = new[n]
    BY <1>2, <1>4
  <2>2. new[n] \in Row
    BY <1>4, CatalogRows
  <2> QED
    BY <2>1, <2>2, NoRowIsNone
<1>5. CASE n \in updated
  <2>1. rows'[n] = Updated(rows[n], read[n], new[n])
    BY <1>2, <1>5
  <2>2. read[n] \in Row /\ new[n] \in Row
    BY <1>1, <1>5, CatalogRows
  <2>3. rows[n] \in Row
    BY <1>1, <1>2, <1>5, CatalogRows
  <2>4. /\ Updated(rows[n], read[n], new[n]) \in Row
        /\ request[r].fresh => Updated(rows[n], read[n], new[n]) = new[n]
    BY <1>1, <2>2, <2>3, UpdatedRow
  <2> QED
    BY <2>1, <2>4, NoRowIsNone
<1>6. CASE n \notin deleted \cup inserted \cup updated
  <2>1. rows'[n] = rows[n]
    BY <1>2, <1>6
  <2>2. read[n] = new[n]
    BY <1>1, <1>6, CatalogRows
  <2>3. rows[n] \in Row \cup {NoRow}
    BY <1>1, CatalogRows
  <2>4. n \in Names(rows) => rows[n] # NoRow
    BY DEF Names
  <2> QED
    BY <1>1, <2>1, <2>2, <2>3, <2>4
<1> QED
  BY <1>3, <1>4, <1>5, <1>6

\* A transaction keeps what is known of the other requests' readings, and one
\* that nobody overlapped leaves the catalog it has made.
LEMMA CommitEffect ==
    ASSUME CatalogTypeOK, ReadingsHold, NEW r \in Requests, request[r].phase = "read",
           NEW new \in Catalog, NEW repaired \in SUBSET Capabilities, Commit(r, new, repaired)
    PROVE  /\ CatalogTypeOK' /\ ReadingsHold'
           /\ gateway' = NoGateway
           /\ request[r].fresh => rows' = new /\ rows = request[r].read /\ raced' = raced \ repaired
           /\ ~request[r].fresh => raced' = Capabilities
<1>1. ASSUME NEW n \in Models
      PROVE  /\ rows'[n] \in Row \cup {NoRow}
             /\ n \in Names(rows) /\ rows'[n] = NoRow => n \in (Names(request[r].read) \ Names(new))
             /\ request[r].fresh => rows'[n] = new[n]
  BY CommitRows
<1>2. DOMAIN rows' = Models /\ rows' = [n \in Models |-> rows'[n]]
  BY DEF Commit
<1>3. rows' \in Catalog
  BY <1>1, <1>2 DEF Catalog
<1>4. request[r].fresh => rows' = new
  BY <1>1, <1>2 DEF Catalog
<1>5. gateway' = NoGateway /\ raced' = IF request[r].fresh THEN raced \ repaired ELSE Capabilities
  BY DEF Commit
<1> DEFINE gone == (Names(request[r].read) \ Names(new)) \cap Names(rows)
           after(q) == [request[q] EXCEPT !.fresh = FALSE, !.lost = @ \cup gone]
<1>6. ASSUME NEW q \in Requests, q # r, request[q].phase # "idle"
      PROVE  /\ after(q) \in CatalogRequest
             /\ after(q).fresh = FALSE /\ after(q).read = request[q].read
             /\ after(q).lost = request[q].lost \cup gone
  <2>1. request[q] \in CatalogRequest
    BY CatalogTypes
  <2>2. gone \in SUBSET Models
    BY DEF Names
  <2> HIDE DEF gone
  <2> QED
    BY <2>1, <2>2 DEF CatalogRequest
<1>7. request' = [q \in Requests |->
                     IF q = r \/ request[q].phase = "idle" THEN Idle ELSE after(q)]
  BY DEF Commit
<1> HIDE DEF after
<1>8. request' \in [Requests -> CatalogRequest]
  BY <1>6, <1>7, IdleRequests
<1>9. CatalogTypeOK'
  BY <1>3, <1>5, <1>8, CatalogTypes, IdleRequests DEF CatalogTypeOK, CatalogRequest, GatewayRow
<1>10. ReadingsHold'
  <2> SUFFICES ASSUME NEW q \in Requests, request'[q].phase = "read"
               PROVE  /\ request'[q].fresh = FALSE
                      /\ \A n \in Names(request'[q].read) \ request'[q].lost : n \in Names(rows')
    BY DEF ReadingsHold, Names
  <2>1. q # r /\ request[q].phase # "idle" /\ request'[q] = after(q)
    BY <1>7, IdleRequests
  <2>2. request[q].phase = "read"
    BY <2>1, CatalogTypes DEF CatalogRequest
  <2>3. ASSUME NEW n \in Names(request[q].read) \ (request[q].lost \cup gone)
        PROVE  n \in Names(rows')
    <3>1. n \in Models /\ n \in Names(rows)
      BY <2>2, <2>3 DEF ReadingsHold, Names
    <3>2. rows'[n] # NoRow
      BY <1>1, <2>3, <3>1
    <3> QED
      BY <3>1, <3>2 DEF Names
  <2> QED
    BY <1>6, <2>1, <2>3
<1>11. request[r].fresh => rows = request[r].read
  BY DEF ReadingsHold
<1> QED
  BY <1>4, <1>5, <1>9, <1>10, <1>11

\* What a request may make of the catalog it has read: every capability keeps
\* one default or gets one, and rows that come or go take no default away from
\* a model that stays able.
Sound(read, new, repaired) ==
    /\ new \in Catalog
    /\ \A c \in repaired : Agree(new, c)
    /\ \A c \in Capabilities \ repaired : Agree(read, c) => Agree(new, c)
    /\ Names(new) # Names(read) =>
           \A c \in Capabilities : \A n \in Able(new, c) :
               Flagged(read, c) = {n} => Flagged(new, c) \subseteq {n} \cup (Names(new) \ Names(read))

LEMMA CreateIsSound ==
    ASSUME NEW read \in Catalog, NEW n \in Models, NEW row \in Row, read[n] = NoRow,
           NEW new \in Normalised([read EXCEPT ![n] = row], Capabilities, Preferred(n, row.default))
    PROVE  Sound(read, new, Capabilities)
<1> DEFINE added == [read EXCEPT ![n] = row]
<1>1. added \in Catalog /\ added[n] = row /\ \A m \in Models \ {n} : added[m] = read[m]
  BY DEF Catalog
<1>2. n \in Names(added) \ Names(read)
  BY <1>1, NoRowIsNone DEF Names
<1> HIDE DEF added
<1>0. NormalForm(added, Capabilities, Preferred(n, row.default), new)
  BY <1>1, NormalisedCatalog DEF added
<1>3. /\ new \in Catalog /\ Names(new) = Names(added)
      /\ \A c : Able(new, c) = Able(added, c)
      /\ \A c \in Capabilities :
             \E x \in Chosen(added, c, Preferred(n, row.default)[c]) : Flagged(new, c) = {x} \ {None}
      /\ \A c \in Capabilities : Agree(new, c)
  BY <1>0 DEF NormalForm
<1>4. ASSUME NEW c \in Capabilities, NEW m \in Able(new, c), Flagged(read, c) = {m}
      PROVE  Flagged(new, c) \subseteq {m, n}
  <2>1. PICK x \in Chosen(added, c, Preferred(n, row.default)[c]) : Flagged(new, c) = {x} \ {None}
    BY <1>3
  <2>2. Flagged(added, c) \subseteq {m, n} /\ m \in Models
    BY <1>1, <1>4 DEF Flagged, Able
  <2>3. m # n => m \in Flagged(added, c)
    BY <1>1, <1>4, <2>2 DEF Flagged
  <2>4. m \in Able(added, c)
    BY <1>3, <1>4
  <2>5. c \notin row.default => n \notin Flagged(added, c)
    BY <1>1 DEF Flagged
  <2>6. Preferred(n, row.default)[c] \in {n, None}
    BY DEF Preferred
  <2>7. None \notin Able(added, c)
    BY NoneAssumption DEF Able
  <2>8. Able(added, c) \subseteq Models
    BY DEF Able
  <2>9. CASE x \in {n, None}
    BY <2>1, <2>9
  <2>10. CASE x \notin {n, None}
    <3>1. x \in Able(added, c) \cap Flagged(added, c) \/ m = n
      BY <2>1, <2>3, <2>4, <2>6, <2>7, <2>10 DEF Chosen
    <3>2. m # n
      <4>1. n \notin Flagged(read, c)
        BY <1>1, NoRowIsNone DEF Flagged
      <4> QED
        BY <1>4, <4>1
    <3> QED
      BY <2>1, <2>2, <3>1, <3>2
  <2> QED
    BY <2>9, <2>10
<1> QED
  BY <1>2, <1>3, <1>4 DEF Sound

LEMMA UpdateIsSound ==
    ASSUME NEW read \in Catalog, NEW n \in Models, NEW row \in Row, NEW preferred, read[n] # NoRow,
           NEW new \in Normalised([read EXCEPT ![n] = row], Capabilities, preferred)
    PROVE  Sound(read, new, Capabilities)
<1> DEFINE changed == [read EXCEPT ![n] = row]
<1>1. changed \in Catalog /\ changed[n] = row /\ \A m \in Models \ {n} : changed[m] = read[m]
  BY DEF Catalog
<1>2. Names(changed) = Names(read)
  BY <1>1, NoRowIsNone DEF Names
<1> HIDE DEF changed
<1>0. NormalForm(changed, Capabilities, preferred, new)
  BY <1>1, NormalisedCatalog DEF changed
<1>3. new \in Catalog /\ Names(new) = Names(changed) /\ \A c \in Capabilities : Agree(new, c)
  BY <1>0 DEF NormalForm
<1> QED
  BY <1>2, <1>3 DEF Sound

LEMMA SetDefaultIsSound ==
    ASSUME NEW read \in Catalog, NEW c \in Capabilities, NEW preferred,
           NEW new \in Normalised(read, {c}, preferred)
    PROVE  Sound(read, new, {c})
<1>0. NormalForm(read, {c}, preferred, new)
  BY {c} \in SUBSET Capabilities, NormalisedCatalog
<1>1. /\ new \in Catalog /\ Names(new) = Names(read)
      /\ \A d : Able(new, d) = Able(read, d)
      /\ \A d \in {c} : Agree(new, d)
      /\ \A d \in Capabilities \ {c} : Flagged(new, d) = Flagged(read, d)
  BY <1>0 DEF NormalForm
<1>2. \A d \in Capabilities \ {c} : Agree(read, d) => Agree(new, d)
  BY <1>1 DEF Agree
<1> QED
  BY <1>1, <1>2 DEF Sound

LEMMA RemoveIsSound ==
    ASSUME NEW read \in Catalog, NEW n \in Models, read[n] # NoRow
    PROVE  LET left == [read EXCEPT ![n] = NoRow] IN
           /\ read[n].default = {} => Sound(read, left, {})
           /\ \A new \in Normalised(left, Capabilities, Preferred(n, {})) : Sound(read, new, Capabilities)
<1> DEFINE left == [read EXCEPT ![n] = NoRow]
<1>1. left \in Catalog /\ left[n] = NoRow /\ \A m \in Models \ {n} : left[m] = read[m]
  BY DEF Catalog
<1> HIDE DEF left
<1>2. \A c : Able(left, c) = Able(read, c) \ {n} /\ Flagged(left, c) = Flagged(read, c) \ {n}
  BY <1>1, NoRowIsNone DEF Able, Flagged
<1>3. ASSUME read[n].default = {} PROVE Sound(read, left, {})
  <2>1. \A c : n \notin Flagged(read, c)
    BY <1>3 DEF Flagged
  <2>2. \A c \in Capabilities : Agree(read, c) => Agree(left, c)
    BY <1>2, <2>1 DEF Agree
  <2> QED
    BY <1>1, <1>2, <2>2 DEF Sound
<1>4. ASSUME NEW new \in Normalised(left, Capabilities, Preferred(n, {}))
      PROVE  Sound(read, new, Capabilities)
  <2>1. /\ new \in Catalog
        /\ \A c : Able(new, c) = Able(left, c)
        /\ \A c \in Capabilities :
               \E x \in Chosen(left, c, Preferred(n, {})[c]) : Flagged(new, c) = {x} \ {None}
        /\ \A c \in Capabilities : Agree(new, c)
    <3>1. NormalForm(left, Capabilities, Preferred(n, {}), new)
      BY <1>1, <1>4, NormalisedCatalog
    <3> QED
      BY <3>1 DEF NormalForm
  <2>2. ASSUME NEW c \in Capabilities, NEW m \in Able(new, c), Flagged(read, c) = {m}
        PROVE  Flagged(new, c) \subseteq {m}
    <3>1. PICK x \in Chosen(left, c, Preferred(n, {})[c]) : Flagged(new, c) = {x} \ {None}
      BY <2>1
    <3>2. m \in Able(left, c) /\ m # n /\ Flagged(left, c) = {m}
      BY <1>2, <2>1, <2>2
    <3>3. Preferred(n, {})[c] = None /\ None \notin Able(left, c)
      BY NoneAssumption DEF Preferred, Able
    <3>4. x = m
      BY <3>1, <3>2, <3>3 DEF Chosen
    <3> QED
      BY <3>1, <3>4
  <2> QED
    BY <2>1, <2>2 DEF Sound
<1> QED
  BY <1>3, <1>4 DEF left

LEMMA SeedIsSound ==
    ASSUME NEW read \in Catalog, Names(read) = {}
    PROVE  Sound(read, Seeded, {})
<1>1. \A c : Flagged(read, c) = {}
  BY NamedWhenAble
<1> QED
  BY <1>1, SeededCatalog DEF Sound

\* Every transaction is a commit of something sound.
LEMMA WritesAreSound ==
    ASSUME CatalogTypeOK, NEW r \in Requests,
           \/ \E n \in Models, row \in Row : Create(r, n, row) \/ Update(r, n, row)
           \/ \E n \in Models, c \in Capabilities : SetDefault(r, n, c)
           \/ \E n \in Models : Remove(r, n)
           \/ Seed(r)
    PROVE  /\ request[r].phase = "read"
           /\ \E new \in Catalog, repaired \in SUBSET Capabilities :
                  Commit(r, new, repaired) /\ Sound(request[r].read, new, repaired)
<1>0. request[r].read \in Catalog
  BY CatalogTypes DEF CatalogRequest
<1>1. ASSUME NEW n \in Models, NEW row \in Row, Create(r, n, row)
      PROVE  \E new \in Catalog, repaired \in SUBSET Capabilities :
                 Commit(r, new, repaired) /\ Sound(request[r].read, new, repaired)
  <2>1. PICK new \in Normalised([request[r].read EXCEPT ![n] = row], Capabilities,
                                Preferred(n, row.default)) : Commit(r, new, Capabilities)
    BY <1>1 DEF Create
  <2>2. Sound(request[r].read, new, Capabilities)
    BY <1>0, <1>1, CreateIsSound DEF Create
  <2> QED
    BY <2>1, <2>2 DEF Sound
<1>2. ASSUME NEW n \in Models, NEW row \in Row, Update(r, n, row)
      PROVE  \E new \in Catalog, repaired \in SUBSET Capabilities :
                 Commit(r, new, repaired) /\ Sound(request[r].read, new, repaired)
  <2> DEFINE default == IF row.enabled THEN row.default ELSE {}
             written == [row EXCEPT !.default = default]
  <2>1. written \in Row
    <3>1. default \in SUBSET Capabilities
      BY DEF Row
    <3> HIDE DEF default
    <3> QED
      BY <3>1 DEF Row
  <2>2. PICK new \in Normalised([request[r].read EXCEPT ![n] = written], Capabilities,
                                Preferred(n, default)) : Commit(r, new, Capabilities)
    BY <1>2 DEF Update
  <2>3. request[r].read[n] # NoRow
    BY <1>2 DEF Update
  <2> HIDE DEF default, written
  <2>4. Sound(request[r].read, new, Capabilities)
    BY <1>0, <2>1, <2>3, UpdateIsSound
  <2> QED
    BY <2>2, <2>4 DEF Sound
<1>3. ASSUME NEW n \in Models, NEW c \in Capabilities, SetDefault(r, n, c)
      PROVE  \E new \in Catalog, repaired \in SUBSET Capabilities :
                 Commit(r, new, repaired) /\ Sound(request[r].read, new, repaired)
  <2>1. PICK new \in Normalised(request[r].read, {c}, [d \in {c} |-> n]) : Commit(r, new, {c})
    BY <1>3 DEF SetDefault
  <2>2. Sound(request[r].read, new, {c})
    BY <1>0, SetDefaultIsSound
  <2> QED
    BY <2>1, <2>2 DEF Sound
<1>4. ASSUME NEW n \in Models, Remove(r, n)
      PROVE  \E new \in Catalog, repaired \in SUBSET Capabilities :
                 Commit(r, new, repaired) /\ Sound(request[r].read, new, repaired)
  <2> DEFINE left == [request[r].read EXCEPT ![n] = NoRow]
  <2>1. /\ request[r].read[n] # NoRow
        /\ IF request[r].read[n].default = {} THEN Commit(r, left, {})
           ELSE \E new \in Normalised(left, Capabilities, Preferred(n, {})) : Commit(r, new, Capabilities)
    BY <1>4 DEF Remove
  <2>2. /\ request[r].read[n].default = {} => Sound(request[r].read, left, {})
        /\ \A new \in Normalised(left, Capabilities, Preferred(n, {})) :
               Sound(request[r].read, new, Capabilities)
    BY <1>0, <2>1, RemoveIsSound
  <2> HIDE DEF left
  <2> QED
    BY <2>1, <2>2 DEF Sound
<1>5. ASSUME Seed(r)
      PROVE  \E new \in Catalog, repaired \in SUBSET Capabilities :
                 Commit(r, new, repaired) /\ Sound(request[r].read, new, repaired)
  BY <1>0, <1>5, SeedIsSound, SeededCatalog DEF Seed
<1>6. request[r].phase = "read"
  BY DEF Create, Update, SetDefault, Remove, Seed
<1> QED
  BY <1>1, <1>2, <1>3, <1>4, <1>5, <1>6

-----------------------------------------------------------------------------
(* ModelCatalog: the theorems.                                             *)

\* What a gateway reads in its two sessions.
LEMMA GatewayReads ==
    ASSUME CatalogInv, Serve
    PROVE  CatalogInv'
<1>0. rows \in Catalog /\ gateway \in GatewayRow /\ EnsureRows(rows) \in Catalog
  BY CatalogTypes, SeededCatalog DEF CatalogInv, EnsureRows
<1>1. UNCHANGED <<rows, request, raced>>
  BY DEF Serve, ReadConnection, ReadConnections, Discard
<1>2. DefaultsAgree' /\ ReadingsHold'
  BY <1>1 DEF CatalogInv, DefaultsAgree, ReadingsHold
<1>3. ASSUME NEW own \in Models \cup {None}, ReadConnection(own) PROVE CatalogInv'
  <2> DEFINE able == Able(EnsureRows(rows), Chat)
  <2>1. /\ own \in Chosen(EnsureRows(rows), Chat, None)
        /\ gateway' = [phase |-> "one", own |-> own, connections |-> {},
                       models |-> IF able = {} THEN Seeds ELSE able]
    BY <1>3 DEF ReadConnection
  <2>2. own # None => able # {}
    BY <1>0, <2>1, ChosenIsAble
  <2>3. able \in SUBSET Models
    BY DEF Able
  <2> HIDE DEF able
  <2>4. gateway' \in GatewayRow
    BY <2>1, <2>3, SeedAssumption DEF GatewayRow
  <2>5. gateway'.phase = "one" /\ gateway'.own = own /\ (own # None => gateway'.models = able)
    BY <2>1, <2>2
  <2>6. GatewayIsCurrent' /\ ModelsHaveConnections'
    BY <1>1, <2>5 DEF GatewayIsCurrent, ModelsHaveConnections, able
  <2> QED
    BY <1>1, <1>2, <2>4, <2>6 DEF CatalogInv, CatalogTypeOK, GatewayRow
<1>4. ASSUME ReadConnections PROVE CatalogInv'
  <2> DEFINE enabled == {n \in Models : EnsureRows(rows)[n].enabled}
             connections == IF enabled = {} THEN Seeds ELSE enabled
             row == [gateway EXCEPT !.phase = "two", !.connections = connections]
  <2>1. gateway.phase = "one" /\ gateway' = row
    BY <1>4 DEF ReadConnections
  <2>2. connections \in SUBSET Models
    BY SeedAssumption
  <2>3. Able(EnsureRows(rows), Chat) \subseteq connections
    BY DEF Able
  <2> HIDE DEF connections
  <2>4. /\ row \in GatewayRow
        /\ row.phase = "two" /\ row.own = gateway.own /\ row.models = gateway.models
        /\ row.connections = connections
    BY <1>0, <2>2 DEF GatewayRow
  <2> HIDE DEF row
  <2>5. gateway.own # None => gateway.models = Able(EnsureRows(rows), Chat)
    BY <2>1 DEF CatalogInv, GatewayIsCurrent
  <2>6. GatewayIsCurrent' /\ ModelsHaveConnections'
    BY <2>1, <2>3, <2>4, <2>5 DEF GatewayIsCurrent, ModelsHaveConnections
  <2> QED
    BY <1>1, <1>2, <2>1, <2>4, <2>6 DEF CatalogInv, CatalogTypeOK, GatewayRow
<1>5. ASSUME Discard PROVE CatalogInv'
  <2>1. gateway' = NoGateway
    BY <1>5 DEF Discard
  <2> QED
    BY <1>1, <1>2, <2>1, IdleRequests
    DEF CatalogInv, CatalogTypeOK, GatewayRow, GatewayIsCurrent, ModelsHaveConnections
<1> QED
  BY <1>3, <1>4, <1>5 DEF Serve

LEMMA CatalogStep ==
    ASSUME CatalogInv, [CatalogNext]_catalogVars
    PROVE  CatalogInv'
<1>0. CatalogTypeOK /\ ReadingsHold /\ DefaultsAgree
  BY DEF CatalogInv
<1>1. CASE UNCHANGED catalogVars
  BY <1>1 DEF catalogVars, CatalogInv, CatalogTypeOK, DefaultsAgree, ModelsHaveConnections,
              ReadingsHold, GatewayIsCurrent
<1>2. ASSUME NEW r \in Requests, Read(r) PROVE CatalogInv'
  <2> DEFINE row == [phase |-> "read", read |-> rows, lost |-> {}, fresh |-> TRUE]
  <2>1. request' = [request EXCEPT ![r] = row] /\ UNCHANGED <<rows, raced, gateway>>
    BY <1>2 DEF Read
  <2>2. /\ row \in CatalogRequest /\ row.phase = "read" /\ row.read = rows /\ row.lost = {}
    BY <1>0, CatalogTypes DEF CatalogRequest
  <2> HIDE DEF row
  <2>3. request' \in [Requests -> CatalogRequest]
    BY <1>0, <2>1, <2>2, CatalogTypes
  <2>4. ReadingsHold'
    BY <1>0, <2>1, <2>2, CatalogTypes DEF ReadingsHold
  <2> QED
    BY <2>1, <2>3, <2>4 DEF CatalogInv, CatalogTypeOK, CatalogRequest, DefaultsAgree,
                             ModelsHaveConnections, GatewayIsCurrent
<1>3. ASSUME NEW r \in Requests, Drop(r) PROVE CatalogInv'
  <2>1. request' = [request EXCEPT ![r] = Idle] /\ UNCHANGED <<rows, raced, gateway>>
    BY <1>3 DEF Drop
  <2>2. request' \in [Requests -> CatalogRequest]
    BY <1>0, <2>1, CatalogTypes, IdleRequests
  <2>3. ReadingsHold'
    BY <1>0, <2>1, CatalogTypes, IdleRequests DEF ReadingsHold
  <2> QED
    BY <2>1, <2>2, <2>3 DEF CatalogInv, CatalogTypeOK, CatalogRequest, DefaultsAgree,
                             ModelsHaveConnections, GatewayIsCurrent
<1>4. ASSUME NEW r \in Requests, request[r].phase = "read",
             NEW new \in Catalog, NEW repaired \in SUBSET Capabilities,
             Commit(r, new, repaired), Sound(request[r].read, new, repaired)
      PROVE  CatalogInv'
  <2>1. /\ CatalogTypeOK' /\ ReadingsHold' /\ gateway' = NoGateway
        /\ request[r].fresh => rows' = new /\ rows = request[r].read /\ raced' = raced \ repaired
        /\ ~request[r].fresh => raced' = Capabilities
    BY <1>0, <1>4, CommitEffect
  <2>2. \A c \in Capabilities \ raced : Agree(rows, c)
    BY <1>0 DEF DefaultsAgree, Agree
  <2>3. \A c \in Capabilities \ raced' : Agree(rows', c)
    BY <1>4, <2>1, <2>2 DEF Sound
  <2>4. DefaultsAgree'
    BY <2>3 DEF DefaultsAgree, Agree
  <2>5. GatewayIsCurrent' /\ ModelsHaveConnections'
    BY <2>1, IdleRequests DEF GatewayIsCurrent, ModelsHaveConnections
  <2> QED
    BY <2>1, <2>4, <2>5 DEF CatalogInv
<1>5. ASSUME NEW r \in Requests,
             \/ \E n \in Models, row \in Row : Create(r, n, row) \/ Update(r, n, row)
             \/ \E n \in Models, c \in Capabilities : SetDefault(r, n, c)
             \/ \E n \in Models : Remove(r, n)
             \/ Seed(r)
      PROVE  CatalogInv'
  BY <1>0, <1>4, <1>5, WritesAreSound
<1> QED
  BY <1>1, <1>2, <1>3, <1>5, GatewayReads DEF CatalogNext, Administer

\* Defaults agree, and a gateway finds a connection for every model it lists, for
\* any number of models, capabilities and requests.
THEOREM CatalogInvHolds == CatalogSpec => []CatalogInv
<1>1. CatalogInit => CatalogInv
  <2> SUFFICES ASSUME CatalogInit PROVE CatalogInv
    OBVIOUS
  <2>1. CatalogTypeOK
    BY IdleRequests, CatalogTypes DEF CatalogInit
  <2>2. \A c : Able(rows, c) = {} /\ Flagged(rows, c) = {}
    BY IdleRequests, NamedWhenAble DEF CatalogInit
  <2>3. DefaultsAgree
    BY <2>2 DEF DefaultsAgree
  <2>4. ModelsHaveConnections /\ ReadingsHold /\ GatewayIsCurrent
    BY IdleRequests DEF CatalogInit, ModelsHaveConnections, ReadingsHold, GatewayIsCurrent
  <2> QED
    BY <2>1, <2>3, <2>4 DEF CatalogInv
<1> QED
  BY <1>1, CatalogStep, PTL DEF CatalogSpec

\* The type invariant by itself.
THEOREM CatalogTypesHold == CatalogSpec => []CatalogTypeOK
<1>1. CatalogInv => CatalogTypeOK
  BY DEF CatalogInv
<1> QED
  BY <1>1, CatalogInvHolds, PTL

\* A model that comes or goes takes no default from one that stays able.
THEOREM DefaultsOutliveOthersHolds == CatalogSpec => DefaultsOutliveOthers
<1>1. CatalogInv /\ [CatalogNext]_catalogVars =>
          [Names(rows) # Names(rows') =>
             \A c \in Capabilities \ (raced \cup raced') : \A n \in Able(rows', c) :
                  Flagged(rows, c) = {n} =>
                      Flagged(rows', c) \subseteq {n} \cup (Names(rows') \ Names(rows))]_catalogVars
  <2> SUFFICES ASSUME CatalogInv, CatalogNext, Names(rows) # Names(rows'),
                      NEW c \in Capabilities \ (raced \cup raced'), NEW n \in Able(rows', c),
                      Flagged(rows, c) = {n}
               PROVE  Flagged(rows', c) \subseteq {n} \cup (Names(rows') \ Names(rows))
    BY DEF catalogVars
  <2>0. CatalogTypeOK /\ ReadingsHold
    BY DEF CatalogInv
  <2>1. ASSUME NEW r \in Requests, request[r].phase = "read",
               NEW new \in Catalog, NEW repaired \in SUBSET Capabilities,
               Commit(r, new, repaired), Sound(request[r].read, new, repaired)
        PROVE  Flagged(rows', c) \subseteq {n} \cup (Names(rows') \ Names(rows))
    <3>1. /\ request[r].fresh => rows' = new /\ rows = request[r].read
          /\ ~request[r].fresh => raced' = Capabilities
      BY <2>0, <2>1, CommitEffect
    <3>2. rows' = new /\ rows = request[r].read
      BY <3>1
    <3> QED
      BY <2>1, <3>2 DEF Sound
  <2>2. ASSUME NEW r \in Requests, Administer(r)
        PROVE  Flagged(rows', c) \subseteq {n} \cup (Names(rows') \ Names(rows))
    <3>1. CASE Read(r) \/ Drop(r)
      BY <3>1 DEF Read, Drop
    <3>2. CASE ~(Read(r) \/ Drop(r))
      BY <2>0, <2>1, <2>2, <3>2, WritesAreSound DEF Administer
    <3> QED
      BY <3>1, <3>2
  <2>3. CASE Serve
    BY <2>3 DEF Serve, ReadConnection, ReadConnections, Discard
  <2> QED
    BY <2>2, <2>3 DEF CatalogNext
<1> QED
  BY <1>1, CatalogInvHolds, PTL DEF CatalogSpec, DefaultsOutliveOthers
=============================================================================
