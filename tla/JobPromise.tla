----------------------------- MODULE JobPromise -----------------------------
(***************************************************************************)
(* What sandboxed jobs promise to the callers who poll them, whatever the  *)
(* Workers, leases, crashes and cancellations behind them: JobLifecycle    *)
(* implements this specification.                                          *)
(***************************************************************************)
EXTENDS Naturals

CONSTANTS Jobs, Limit      \* a job may be tried Limit times

VARIABLES
    view,       \* what each job's status tells its caller
    tries,      \* how many attempts of it have been started
    results     \* the attempts that have results which were verified

promise == <<view, tries, results>>

Init ==
    /\ view = [j \in Jobs |-> "absent"]
    /\ tries = [j \in Jobs |-> 0]
    /\ results = [j \in Jobs |-> {}]

Goes(j, from, to) == view[j] \in from /\ view'[j] = to
Keeps(j) == tries'[j] = tries[j] /\ results'[j] = results[j]

Accept(j) == Goes(j, {"absent"}, "waiting") /\ Keeps(j)

Try(j) ==
    /\ Goes(j, {"waiting"}, "working")
    /\ tries[j] < Limit
    /\ tries'[j] = tries[j] + 1
    /\ results'[j] = results[j]

\* A job goes back to the queue only while it may be tried again.
GiveBack(j) == Goes(j, {"working"}, "waiting") /\ tries[j] < Limit /\ Keeps(j)

\* A job is delivered with the result of its last try, which has not delivered
\* before; the try may have been past its last look at a cancellation.
Deliver(j) ==
    /\ Goes(j, {"working", "withdrawn"}, "delivered")
    /\ tries[j] \notin results[j]
    /\ results'[j] = results[j] \cup {tries[j]}
    /\ tries'[j] = tries[j]

\* A failure is an end of a job that had none.
Refuse(j) == Goes(j, {"waiting", "working"}, "refused") /\ Keeps(j)

\* A cancellation that was accepted takes effect, even after another end.
Withdraw(j) ==
    Goes(j, {"waiting", "working", "delivered", "refused", "withdrawn"}, "withdrawn") /\ Keeps(j)

\* The commit of an attempt that was overtaken shows the job at work again: it
\* starts no try and adds and removes no result.
Relapse(j) ==
    Goes(j, {"waiting", "delivered", "refused", "withdrawn"}, "working") /\ Keeps(j)

Rest(j) == view'[j] = view[j] /\ Keeps(j)

Move(j) ==
    \/ Accept(j) \/ Try(j) \/ GiveBack(j) \/ Deliver(j) \/ Refuse(j)
    \/ Withdraw(j) \/ Relapse(j) \/ Rest(j)

\* The recovery of a Worker may move several jobs at once.
Next == \A j \in Jobs : Move(j)

Spec == Init /\ [][Next]_promise
=============================================================================
