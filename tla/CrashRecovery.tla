----------------------------- MODULE CrashRecovery -----------------------------
(***************************************************************************)
(* Restarts of the scheduler process. A crash loses the in-memory sets,    *)
(* every worker thread and coordinator, and the cycle in progress; rows,   *)
(* locks, containers and API requests survive. Scheduler.start then runs   *)
(* _crash_recovery to its end before the first cycle.                      *)
(***************************************************************************)
EXTENDS QueueState

Crash ==
    /\ crashes < MaxCrashes
    /\ crashes' = crashes + 1
    /\ phase' = "boot"
    /\ candidate' = NoTask
    /\ snapshot' = [t \in Tasks |-> "other"]
    /\ worker' = [t \in Tasks |-> "none"]
    /\ runningTasks' = {}
    /\ runningIssues' = {}
    /\ blockedIssues' = {}
    /\ UNCHANGED <<rowVars, lock, container, callVars>>

(* The running tasks a recovery that is retried finds with a live handle. *)
AlreadyOwned == {t \in Tasks : status[t] = "running" /\ worker[t] # "none"}

(* Inactive locks are cleaned up, then the rows are read and classified:     *)
(* running tasks (with and without a cancellation intent) need an owner,     *)
(* other tasks with a reference keep their container until its log is final. *)
BeginRecovery ==
    /\ phase = "boot"
    /\ phase' = "recover"
    /\ lock' = LocksWithoutInactive
    /\ snapshot' = [t \in Tasks |->
            CASE t \in AlreadyOwned -> "owned"
              [] status[t] = "running" /\ worker[t] = "none" ->
                    IF t \in cancelRequested THEN "unwanted" ELSE "running"
              [] status[t] # "running" /\ t \in containerRef ->
                    IF t \in logsFinal THEN "final" ELSE "retained"
              [] OTHER -> "other"]
    /\ runningTasks' = runningTasks \cup AlreadyOwned
    /\ runningIssues' = runningIssues \cup {IssueOf[t] : t \in AlreadyOwned}
    /\ UNCHANGED <<rowVars, container, blockedIssues, worker, candidate, callVars, crashes>>

(* Recovery raised: it is tried again, with what it already resumed. *)
RecoveryFails ==
    /\ phase = "recover"
    /\ phase' = "boot"
    /\ snapshot' = [t \in Tasks |-> "other"]
    /\ UNCHANGED <<rowVars, lock, container, memoryVars, worker, candidate, callVars, crashes>>

Unowned(t) == phase = "recover" /\ snapshot[t] \in {"running", "unwanted"}

(* The task gets a handle again and its issue is taken in memory. *)
TakesOver(t, where) ==
    /\ worker' = [worker EXCEPT ![t] = where]
    /\ runningTasks' = runningTasks \cup {t}
    /\ runningIssues' = runningIssues \cup {IssueOf[t]}
    /\ snapshot' = [snapshot EXCEPT ![t] = "owned"]
    /\ UNCHANGED <<rowVars, lock, blockedIssues, phase, candidate, callVars, crashes>>

(* A container that ran is resumed; if the row was read with a cancellation  *)
(* intent it is stopped first.                                               *)
RecoverResume(t) ==
    /\ Unowned(t)
    /\ container[t] \in {"running", "exited"}
    /\ container' = [container EXCEPT ![t] = IF snapshot[t] = "unwanted" THEN "exited" ELSE @]
    /\ TakesOver(t, "resume")

(* The daemon cannot be reached, the container cannot be stopped, or it was  *)
(* never started: a coordinator owns the task.                               *)
RecoverDefer(t) ==
    /\ Unowned(t)
    /\ TakesOver(t, "coord")
    /\ UNCHANGED container

(* Mutant: the containers of retained tasks count as orphans. *)
RecoverOrphanAny(t) ==
    /\ phase = "recover"
    /\ snapshot[t] \in {"retained", "final", "other"}
    /\ container[t] # "none"
    /\ container' = [container EXCEPT ![t] = "none"]
    /\ UNCHANGED <<rowVars, lock, memoryVars, worker, loopVars, callVars, crashes>>

(* A container no running and no retained task owns is removed. *)
RecoverOrphan(t) ==
    /\ phase = "recover"
    /\ snapshot[t] \in {"final", "other"}
    /\ container[t] # "none"
    /\ container' = [container EXCEPT ![t] = "none"]
    /\ UNCHANGED <<rowVars, lock, memoryVars, worker, loopVars, callVars, crashes>>

(* A reference whose log is final and whose container is gone is cleared;    *)
(* the lock is left to the next cleanup.                                     *)
RecoverReference(t) ==
    /\ phase = "recover"
    /\ snapshot[t] = "final"
    /\ container[t] = "none"
    /\ containerRef' = containerRef \ {t}
    /\ snapshot' = [snapshot EXCEPT ![t] = "other"]
    /\ UNCHANGED <<status, due, cancelRequested, logsFinal, lock, container, memoryVars>>
    /\ UNCHANGED <<worker, phase, candidate, callVars, crashes>>

(* The last transaction: running tasks whose container a reachable daemon    *)
(* does not have get their outcome and lose their lock; the issues of the    *)
(* retained containers are blocked.                                          *)
EndRecovery ==
    /\ phase = "recover"
    /\ LET lost == {t \in Tasks : Unowned(t)}
       IN  /\ \A t \in lost : container[t] = "none"
           /\ status' = [t \in Tasks |->
                  IF t \in lost
                  THEN IF snapshot[t] = "unwanted" THEN "cancelled" ELSE "failed"
                  ELSE status[t]]
           /\ containerRef' = containerRef \ lost
           /\ logsFinal' = logsFinal \cup lost
           /\ lock' = [i \in Issues |-> IF lock[i] \in lost THEN NoTask ELSE lock[i]]
    /\ blockedIssues' = blockedIssues \cup RetainedIssues
    /\ runningIssues' = runningIssues \cup RetainedIssues
    /\ phase' = "reconcile"
    /\ snapshot' = [t \in Tasks |-> "other"]
    /\ UNCHANGED <<due, cancelRequested, container, runningTasks, worker, candidate>>
    /\ UNCHANGED <<callVars, crashes>>

RecoveryNext ==
    \/ Crash
    \/ BeginRecovery
    \/ RecoveryFails
    \/ EndRecovery
    \/ \E t \in Tasks :
          \/ RecoverResume(t)
          \/ RecoverDefer(t)
          \/ RecoverOrphan(t)
          \/ RecoverReference(t)

=============================================================================
