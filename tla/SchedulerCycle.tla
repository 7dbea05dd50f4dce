---------------------------- MODULE SchedulerCycle ----------------------------
(***************************************************************************)
(* One cycle of the scheduler loop (Scheduler._run_cycle): reconcile the   *)
(* in-memory sets, promote the due head of every free issue, pick the next *)
(* queued head, pass it through the runtime readiness gate and claim it.   *)
(* Every await between two of these steps lets API requests and worker     *)
(* threads commit, so each step is an action of its own. The background    *)
(* reaper of retained containers runs beside the cycle.                    *)
(***************************************************************************)
EXTENDS QueueState

(* _maybe_cleanup_issue_locks: every 300 seconds, before reconciling. *)
CleanupIssueLocks ==
    /\ phase = "reconcile"
    /\ lock' = LocksWithoutInactive
    /\ UNCHANGED <<rowVars, container, memoryVars, worker, loopVars, callVars, crashes>>

(* _worker_handle_is_active: a handle of a cancelled task never counts, the  *)
(* others count until the task was seen out of RUNNING for 120 seconds.      *)
HandleIsActive(t, stuck) ==
    /\ status[t] # "cancelled"
    /\ worker[t] # "none"
    /\ t \notin stuck

(* Mutant: stale issues are never dropped from the in-memory mutex. *)
ReconcileKeepsIssues ==
    /\ phase = "reconcile"
    /\ runningTasks' = {t \in runningTasks : status[t] = "running" \/ HandleIsActive(t, {})}
    /\ runningIssues' = runningIssues \cup RetainedIssues
    /\ blockedIssues' = RetainedIssues
    /\ phase' = "promote"
    /\ UNCHANGED <<rowVars, lock, container, worker, candidate, snapshot, callVars, crashes>>

(* _reconcile_running_state, with _reconcile_retained_issue_blocks first: an *)
(* issue stays in the in-memory mutex while it is retained, or while one of  *)
(* the tracked tasks is running or its handle is still cleaning up.          *)
Reconcile ==
    /\ phase = "reconcile"
    /\ \E stuck \in SUBSET {t \in runningTasks : status[t] # "running" /\ worker[t] # "none"} :
        LET live == {t \in runningTasks : status[t] = "running" \/ HandleIsActive(t, stuck)}
            inDb == {t \in Tasks : status[t] = "running"}
            users == IF runningTasks # {} THEN live ELSE inDb
        IN  /\ runningTasks' = live
            /\ runningIssues' = {i \in runningIssues : \E t \in users : IssueOf[t] = i}
                                    \cup RetainedIssues
    /\ blockedIssues' = RetainedIssues
    /\ phase' = "promote"
    /\ UNCHANGED <<rowVars, lock, container, worker, candidate, snapshot, callVars, crashes>>

-----------------------------------------------------------------------------
(* _normalize_illegal_queued_tasks: a queued task behind an active one. *)
IllegalQueued == {t \in Tasks : status[t] = "queued" /\ HasActivePredecessor(t)}

(* _promote_due_heads: the due head of an issue that nobody holds. *)
DueHeads ==
    {t \in Tasks : /\ status[t] = "pending"
                   /\ t \in due
                   /\ ~HasActivePredecessor(t)
                   /\ lock[IssueOf[t]] = NoTask
                   /\ IssueOf[t] \notin runningIssues}

(* _mark_eligible_as_queued. Heads whose Worker Kit is known to be missing   *)
(* are left pending until an administrator verifies the Kit again.           *)
Promote(kitKnown) ==
    /\ phase = "promote"
    /\ status' = [t \in Tasks |->
                    CASE t \in IllegalQueued -> "pending"
                      [] t \in DueHeads \cap kitKnown -> "queued"
                      [] OTHER -> status[t]]
    /\ phase' = "select"
    /\ UNCHANGED <<due, cancelRequested, containerRef, logsFinal, lock, container>>
    /\ UNCHANGED <<memoryVars, worker, candidate, snapshot, callVars, crashes>>

(* The legal heads _get_next_task chooses from (by priority, then time). *)
ClaimableTasks ==
    {t \in Tasks : /\ status[t] = "queued"
                   /\ ~HasActivePredecessor(t)
                   /\ lock[IssueOf[t]] = NoTask
                   /\ IssueOf[t] \notin runningIssues}

RunningCount == Cardinality({t \in Tasks : status[t] = "running"})

(* Mutant: one task too many. *)
SelectNextAtLimit(t) ==
    /\ phase = "select"
    /\ RunningCount <= MaxConcurrency
    /\ t \in ClaimableTasks
    /\ candidate' = t
    /\ phase' = "claim"
    /\ UNCHANGED <<rowVars, lock, container, memoryVars, worker, snapshot, callVars, crashes>>

(* The concurrency check and _get_next_task. *)
SelectNext(t) ==
    /\ phase = "select"
    /\ RunningCount < MaxConcurrency
    /\ t \in ClaimableTasks
    /\ candidate' = t
    /\ phase' = "claim"
    /\ UNCHANGED <<rowVars, lock, container, memoryVars, worker, snapshot, callVars, crashes>>

SelectNothing ==
    /\ phase = "select"
    /\ RunningCount >= MaxConcurrency \/ ClaimableTasks = {}
    /\ phase' = "reconcile"
    /\ UNCHANGED <<rowVars, lock, container, memoryVars, worker, candidate, snapshot, callVars, crashes>>

-----------------------------------------------------------------------------
(* The end of a cycle that had a candidate. *)
CycleEnds == phase' = "reconcile" /\ candidate' = NoTask /\ UNCHANGED snapshot

(* _park_tasks_for_unavailable_runtime: the gate writes through the object   *)
(* _get_next_task loaded, which read the task as queued; it also parks other *)
(* queued tasks of the same runtime.                                         *)
GateParks(t) ==
    /\ phase = "claim"
    /\ candidate = t
    /\ FreshReads => status[t] = "queued"
    /\ \E others \in SUBSET {u \in Tasks : status[u] = "queued"} :
          status' = [u \in Tasks |-> IF u \in others \cup {t} THEN "pending" ELSE status[u]]
    /\ CycleEnds
    /\ UNCHANGED <<due, cancelRequested, containerRef, logsFinal, lock, container>>
    /\ UNCHANGED <<memoryVars, worker, callVars, crashes>>

(* The gate fails the task: a broken Kit or incomplete identity (which also  *)
(* marks its logs final), or a missing CLI (which does not).                 *)
GateFails(t) ==
    /\ phase = "claim"
    /\ candidate = t
    /\ FreshReads => status[t] = "queued"
    /\ status' = [status EXCEPT ![t] = "failed"]
    /\ logsFinal' \in {logsFinal, logsFinal \cup {t}}
    /\ CycleEnds
    /\ UNCHANGED <<due, cancelRequested, containerRef, lock, container>>
    /\ UNCHANGED <<memoryVars, worker, callVars, crashes>>

(* A cycle that raises, whose gate has no conclusion yet, or whose claim     *)
(* transaction is rolled back (the task is no longer queued, the lock is     *)
(* taken, the commit fails) changes nothing.                                 *)
CycleAbandoned ==
    /\ phase \in {"promote", "select", "claim"}
    /\ CycleEnds
    /\ UNCHANGED <<rowVars, lock, container, memoryVars, worker, callVars, crashes>>

(* _demote_queued_task: the locked re-read finds the task postponed, or      *)
(* behind an active one.                                                     *)
ClaimDemotes(t) ==
    /\ phase = "claim"
    /\ candidate = t
    /\ status[t] = "queued"
    /\ t \notin due \/ HasActivePredecessor(t)
    /\ status' = [status EXCEPT ![t] = "pending"]
    /\ CycleEnds
    /\ UNCHANGED <<due, cancelRequested, containerRef, logsFinal, lock, container>>
    /\ UNCHANGED <<memoryVars, worker, callVars, crashes>>

(* Mutant: the status is not read again. *)
ClaimVerifiedCached(t) ==
    /\ phase = "claim"
    /\ candidate = t
    /\ t \in due
    /\ ~HasActivePredecessor(t)

(* What every claim outcome past the ordering checks has re-read. *)
ClaimVerified(t) ==
    /\ phase = "claim"
    /\ candidate = t
    /\ status[t] = "queued"
    /\ t \in due
    /\ ~HasActivePredecessor(t)

(* The contract is not executable, or the initiator is over a usage limit. *)
ClaimRefused(t) ==
    /\ ClaimVerified(t)
    /\ \E outcome \in {"failed", "cancelled"} : status' = [status EXCEPT ![t] = outcome]
    /\ logsFinal' = logsFinal \cup {t}
    /\ CycleEnds
    /\ UNCHANGED <<due, cancelRequested, containerRef, lock, container>>
    /\ UNCHANGED <<memoryVars, worker, callVars, crashes>>

(* The atomic claim: the lock row and RUNNING are committed together, then   *)
(* the in-memory sets are updated and the worker thread is submitted.        *)
Claim(t) ==
    /\ ClaimVerified(t)
    /\ lock[IssueOf[t]] = NoTask
    /\ lock' = [lock EXCEPT ![IssueOf[t]] = t]
    /\ status' = [status EXCEPT ![t] = "running"]
    /\ runningTasks' = runningTasks \cup {t}
    /\ runningIssues' = runningIssues \cup {IssueOf[t]}
    /\ worker' = [worker EXCEPT ![t] = "submitted"]
    /\ CycleEnds
    /\ UNCHANGED <<due, cancelRequested, containerRef, logsFinal, container>>
    /\ UNCHANGED <<blockedIssues, callVars, crashes>>

-----------------------------------------------------------------------------
(* The reaper of retained containers, started by the cycle, only touches     *)
(* terminal tasks with a reference and no live worker handle.                *)
Reapable(t) ==
    /\ phase \notin {"boot", "recover"}
    /\ IsTerminal(t)
    /\ t \in containerRef
    /\ worker[t] = "none"

ReaperStops(t) ==
    /\ Reapable(t)
    /\ container[t] = "running"
    /\ container' = [container EXCEPT ![t] = "exited"]
    /\ UNCHANGED <<rowVars, lock, memoryVars, worker, loopVars, callVars, crashes>>

ReaperFinalizesLogs(t) ==
    /\ Reapable(t)
    /\ container[t] \in {"created", "exited"}
    /\ t \notin logsFinal
    /\ logsFinal' = logsFinal \cup {t}
    /\ UNCHANGED <<status, due, cancelRequested, containerRef, lock, container, memoryVars>>
    /\ UNCHANGED <<worker, loopVars, callVars, crashes>>

ReaperRemoves(t) ==
    /\ Reapable(t)
    /\ t \in logsFinal
    /\ container[t] \in {"created", "exited"}
    /\ container' = [container EXCEPT ![t] = "none"]
    /\ UNCHANGED <<rowVars, lock, memoryVars, worker, loopVars, callVars, crashes>>

(* _clear_retained_container_reference, once the container is gone: the lock *)
(* is deleted unless another task of the issue still holds a reference.      *)
ReaperClears(t) ==
    /\ Reapable(t)
    /\ container[t] = "none"
    /\ logsFinal' = logsFinal \cup {t}
    /\ containerRef' = containerRef \ {t}
    /\ LET i == IssueOf[t]
           last == \A u \in Tasks \ {t} : IssueOf[u] = i => u \notin containerRef
           releases == last /\ lock[i] = t
       IN  /\ lock' = IF releases THEN LockReleasedBy(t) ELSE lock
           /\ blockedIssues' = IF releases THEN blockedIssues \ {i} ELSE blockedIssues
           /\ runningIssues' = IF releases THEN runningIssues \ {i} ELSE runningIssues
    /\ UNCHANGED <<status, due, cancelRequested, container, runningTasks, worker>>
    /\ UNCHANGED <<loopVars, callVars, crashes>>

LoopNext ==
    \/ Reconcile
    \/ \E kitKnown \in SUBSET Tasks : Promote(kitKnown)
    \/ SelectNothing
    \/ CycleAbandoned
    \/ \E t \in Tasks :
          \/ SelectNext(t)
          \/ GateParks(t)
          \/ GateFails(t)
          \/ ClaimDemotes(t)
          \/ ClaimRefused(t)
          \/ Claim(t)

ReaperNext ==
    \E t \in Tasks :
        \/ ReaperStops(t)
        \/ ReaperFinalizesLogs(t)
        \/ ReaperRemoves(t)
        \/ ReaperClears(t)

CycleNext ==
    \/ LoopNext
    \/ CleanupIssueLocks
    \/ ReaperNext

=============================================================================
