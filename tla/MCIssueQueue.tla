----------------------------- MODULE MCIssueQueue -----------------------------
(***************************************************************************)
(* Small instances of IssueQueue for TLC.                                  *)
(***************************************************************************)
EXTENDS IssueQueue

(* One turn of one issue. *)
SingleTurn == [t \in {1} |-> 1]

(* Two turns of one issue. *)
OneIssue == [t \in {1, 2} |-> 1]

-----------------------------------------------------------------------------
(* Liveness is checked on two instances in one run: the turns the          *)
(* configuration names without a restart, and a single turn with a restart *)
(* and a request.  They are told apart by the tasks that have a row.       *)

Restart == INSTANCE IssueQueue WITH
    Tasks <- {1}, Issues <- {1}, IssueOf <- SingleTurn, MaxCrashes <- 1, MaxRequests <- 1

Turns2 == DOMAIN status = Tasks
Turns1 == ~Turns2

ProgressInit == Init \/ Restart!Init
ProgressNext == (Turns2 /\ Next) \/ (Turns1 /\ Restart!Next)

(* Fairness of IssueQueue, of whichever of the two instances runs.         *)
ProgressFairness ==
    /\ WF_vars(\/ Turns2 /\ (LoopNext \/ BeginRecovery)
               \/ Turns1 /\ (Restart!LoopNext \/ Restart!BeginRecovery))
    /\ WF_vars(\/ Turns2 /\ \E t \in Tasks : HandleStep(t)
               \/ Turns1 /\ Restart!HandleStep(1))
    /\ SF_vars((Turns2 /\ EventualSteps) \/ (Turns1 /\ Restart!EventualSteps))
    /\ SF_vars((Turns2 /\ Promote(Tasks)) \/ (Turns1 /\ Restart!Promote({1})))
    /\ SF_vars(\/ Turns2 /\ \E t \in Tasks : SelectNext(t)
               \/ Turns1 /\ Restart!SelectNext(1))
    /\ SF_vars(\/ Turns2 /\ \E t \in Tasks : ResumeAttaches(t)
               \/ Turns1 /\ Restart!ResumeAttaches(1))
    /\ SF_vars(\/ Turns2 /\ \E t \in Tasks : StreamEnds(t) \/ StreamTimesOut(t)
               \/ Turns1 /\ (Restart!StreamEnds(1) \/ Restart!StreamTimesOut(1)))
    /\ SF_vars(\/ Turns2 /\ \E t \in Tasks : FinalizeLogs(t)
               \/ Turns1 /\ Restart!FinalizeLogs(1))

ProgressSpec == ProgressInit /\ [][ProgressNext]_vars /\ ProgressFairness

Exists(t) == t \in DOMAIN status

(* Every turn that was created ends: no retained container, lost lock, stale *)
(* in-memory slot, restart or waiting predecessor stops an issue for good    *)
(* (_run_cycle, _run_task_background and _crash_recovery of scheduler.py).   *)
EveryTurnEnds ==
    \A t \in Tasks : (Exists(t) /\ status[t] \in Active) ~> (Exists(t) /\ IsTerminal(t))

=============================================================================
