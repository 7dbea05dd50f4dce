---------------------------- MODULE WorkerLifecycle ----------------------------
(***************************************************************************)
(* The worker thread of a claimed task (run_execute_task, run_resume_task  *)
(* and the functions they call), the coroutine that waits for it in the    *)
(* scheduler process (_run_task_background, _resume_task_background) and   *)
(* the harness inside the container.                                       *)
(*                                                                         *)
(* worker[t] says where the handle is:                                     *)
(*   submitted  the thread is queued      setup      before the container  *)
(*   creating   cancellation checked      created    reference not durable *)
(*   owned      reference committed       starting   cancellation checked  *)
(*   discard, discarded   removing a container that was never started      *)
(*   failing    FAILED is to be committed                                  *)
(*   started    container started         monitor    streaming its logs    *)
(*   ended, expired       the stream ended, or the timeout passed          *)
(*   parse, unwanted, overdue   row re-read: outcome to be parsed, of a    *)
(*              task with a cancellation intent, of a timed-out task       *)
(*   cancelling, expiring       outcome parsed, final status to be committed *)
(*   cleanup    final status committed    removed    container removed     *)
(*   resume     thread of a recovered task   coord   deferred recovery     *)
(*   gone, goneUnwanted         it removed the container of a task read    *)
(*              without, with a cancellation intent                        *)
(*   done       thread returned, finally block of the coroutine to run     *)
(*                                                                         *)
(* A Docker call whose answer is lost is inconclusive: the task stays      *)
(* RUNNING and its handle becomes a deferred-recovery coordinator.         *)
(***************************************************************************)
EXTENDS QueueState

MovesTo(t, where) == worker' = [worker EXCEPT ![t] = where]

(* The in-memory sets, the loop and the API requests are not touched by a    *)
(* worker thread.                                                            *)
ThreadStep == UNCHANGED <<memoryVars, loopVars, callVars, crashes>>

CancelSeen(t) == t \in cancelRequested \/ status[t] = "cancelled"

(* prepare_execute_task_context: the thread commits RUNNING once more. *)
WorkerStarts(t) ==
    /\ worker[t] = "submitted"
    /\ status' = [status EXCEPT ![t] = "running"]
    /\ logsFinal' = logsFinal \ {t}
    /\ MovesTo(t, "setup")
    /\ UNCHANGED <<due, cancelRequested, containerRef, lock, container>>
    /\ ThreadStep

(* The setup fails without a container: no valid timeout, no projected       *)
(* lineage, MR creation, image or Docker create refused (fail_execute_task). *)
SetupFails(t) ==
    /\ worker[t] \in Bootstrapping
    /\ status' = [status EXCEPT ![t] = "failed"]
    /\ logsFinal' = IF worker[t] = "submitted" THEN logsFinal \cup {t}
                    ELSE logsFinal \cup ({t} \ containerRef)
    /\ MovesTo(t, "done")
    /\ UNCHANGED <<due, cancelRequested, containerRef, lock, container>>
    /\ ThreadStep

(* finalize_pre_container_cancellation before the container is created. *)
CheckBeforeCreate(t) ==
    /\ worker[t] = "setup"
    /\ IF CancelSeen(t)
       THEN /\ status' = [status EXCEPT ![t] = "cancelled"]
            /\ logsFinal' = logsFinal \cup ({t} \ containerRef)
            /\ MovesTo(t, "done")
       ELSE /\ MovesTo(t, "creating")
            /\ UNCHANGED <<status, logsFinal>>
    /\ UNCHANGED <<due, cancelRequested, containerRef, lock, container>>
    /\ ThreadStep

(* _create_stopped_container. *)
CreateContainer(t) ==
    /\ worker[t] = "creating"
    /\ container[t] = "none"
    /\ container' = [container EXCEPT ![t] = "created"]
    /\ MovesTo(t, "created")
    /\ UNCHANGED <<rowVars, lock>>
    /\ ThreadStep

(* The create request failed, and whether the daemon executed it is unknown. *)
CreateInconclusive(t) ==
    /\ worker[t] = "creating"
    /\ \/ UNCHANGED container
       \/ container[t] = "none" /\ container' = [container EXCEPT ![t] = "created"]
    /\ MovesTo(t, "coord")
    /\ UNCHANGED <<rowVars, lock>>
    /\ ThreadStep

(* _persist_created_container_reference. *)
PersistReference(t) ==
    /\ worker[t] = "created"
    /\ containerRef' = containerRef \cup {t}
    /\ MovesTo(t, "owned")
    /\ UNCHANGED <<status, due, cancelRequested, logsFinal, lock, container>>
    /\ ThreadStep

(* The commit fails: the container nobody could find again is removed, or,   *)
(* when that fails too, left to deferred recovery.                           *)
PersistFails(t) ==
    /\ worker[t] = "created"
    /\ \/ /\ container' = [container EXCEPT ![t] = "none"]
          /\ MovesTo(t, "failing")
       \/ /\ MovesTo(t, "coord")
          /\ UNCHANGED container
    /\ UNCHANGED <<rowVars, lock>>
    /\ ThreadStep

(* finalize_pre_container_cancellation once the reference is committed; when *)
(* it raises, the task fails and the container is kept.                      *)
CheckBeforeStart(t) ==
    /\ worker[t] = "owned"
    /\ \/ /\ CancelSeen(t)
          /\ status' = [status EXCEPT ![t] = "cancelled"]
          /\ MovesTo(t, "discard")
       \/ ~CancelSeen(t) /\ MovesTo(t, "starting") /\ UNCHANGED status
       \/ MovesTo(t, "failing") /\ UNCHANGED status
    /\ UNCHANGED <<due, cancelRequested, containerRef, logsFinal, lock, container>>
    /\ ThreadStep

(* _start_created_container succeeds, perhaps after an error answer. *)
StartContainer(t) ==
    /\ worker[t] = "starting"
    /\ container[t] = "created"
    /\ container' = [container EXCEPT ![t] = "running"]
    /\ MovesTo(t, "started")
    /\ UNCHANGED <<rowVars, lock>>
    /\ ThreadStep

(* Uploading the runtime fails, or starting does: a container still in state *)
(* created is discarded, a dead one is kept for its diagnostics.             *)
StartFails(t) ==
    /\ worker[t] = "starting"
    /\ container[t] = "created"
    /\ \/ MovesTo(t, "discard") /\ UNCHANGED container
       \/ /\ container' = [container EXCEPT ![t] = "exited"]
          /\ MovesTo(t, "failing")
    /\ UNCHANGED <<rowVars, lock>>
    /\ ThreadStep

(* Start timed out, or the container is in no safe state: unknown outcome. *)
StartInconclusive(t) ==
    /\ worker[t] = "starting"
    /\ container[t] = "created"
    /\ \E made \in {"created", "running"} : container' = [container EXCEPT ![t] = made]
    /\ MovesTo(t, "coord")
    /\ UNCHANGED <<rowVars, lock>>
    /\ ThreadStep

(* _remove_created_container: the Docker removal, ... *)
DiscardContainer(t) ==
    /\ worker[t] = "discard"
    /\ container' = [container EXCEPT ![t] = "none"]
    /\ MovesTo(t, "discarded")
    /\ UNCHANGED <<rowVars, lock>>
    /\ ThreadStep

(* ... and its commit, which keeps the reference if the removal failed. The  *)
(* task is already cancelled, or fails next.                                 *)
RecordDiscard(t) ==
    /\ worker[t] \in {"discard", "discarded"}
    /\ logsFinal' = logsFinal \cup {t}
    /\ containerRef' = IF worker[t] = "discard" THEN containerRef ELSE containerRef \ {t}
    /\ MovesTo(t, IF status[t] = "cancelled" THEN "done" ELSE "failing")
    /\ UNCHANGED <<status, due, cancelRequested, lock, container>>
    /\ ThreadStep

(* fail_execute_task without a container object. *)
FailExecute(t) ==
    /\ worker[t] = "failing"
    /\ status' = [status EXCEPT ![t] = "failed"]
    /\ logsFinal' = logsFinal \cup ({t} \ containerRef)
    /\ MovesTo(t, "done")
    /\ UNCHANGED <<due, cancelRequested, containerRef, lock, container>>
    /\ ThreadStep

(* run_execute_task reads the row again after the start and stops the        *)
(* container of a task cancelled meanwhile (inconclusively, perhaps).        *)
CheckStarted(t) ==
    /\ worker[t] = "started"
    /\ \/ /\ MovesTo(t, "monitor")
          /\ container' = [container EXCEPT ![t] =
                              IF CancelSeen(t) /\ @ = "running" THEN "exited" ELSE @]
       \/ CancelSeen(t) /\ MovesTo(t, "coord") /\ UNCHANGED container
    /\ UNCHANGED <<rowVars, lock>>
    /\ ThreadStep

-----------------------------------------------------------------------------
(* The harness in the container finishes by itself. *)
HarnessExits(t) ==
    /\ container[t] = "running"
    /\ container' = [container EXCEPT ![t] = "exited"]
    /\ UNCHANGED <<rowVars, lock, worker>>
    /\ ThreadStep

(* The log stream ends: the container exited, or stream and exit watcher     *)
(* both lost the daemon.                                                     *)
StreamEnds(t) ==
    /\ worker[t] = "monitor"
    /\ MovesTo(t, "ended")
    /\ UNCHANGED <<rowVars, lock, container>>
    /\ ThreadStep

(* The frozen timeout passes: the container is stopped or killed, as far as  *)
(* the daemon obeys.                                                         *)
StreamTimesOut(t) ==
    /\ worker[t] = "monitor"
    /\ \E obeyed \in BOOLEAN :
          container' = [container EXCEPT ![t] = IF obeyed /\ @ = "running" THEN "exited" ELSE @]
    /\ MovesTo(t, "expired")
    /\ UNCHANGED <<rowVars, lock>>
    /\ ThreadStep

(* The raw log is finalized if the daemon gives it, then the row is read     *)
(* again: a cancellation intent recorded later is not seen.                  *)
FinalizeLogs(t) ==
    /\ worker[t] \in {"ended", "expired"}
    /\ logsFinal' \in {logsFinal, logsFinal \cup {t}}
    /\ MovesTo(t, CASE worker[t] = "expired" -> "overdue"
                    [] worker[t] = "ended" /\ t \in cancelRequested -> "unwanted"
                    [] OTHER -> "parse")
    /\ UNCHANGED <<status, due, cancelRequested, containerRef, lock, container>>
    /\ ThreadStep

(* _parse_task_result commits the canonical outcome. Completed needs exit    *)
(* code 0, so an exited container and no timeout. A cancellation intent      *)
(* then wins over a failure, and a timeout over everything.                  *)
ParseResult(t) ==
    /\ worker[t] \in {"parse", "unwanted", "overdue"}
    /\ \E outcome \in Terminal :
        /\ outcome = "completed" => worker[t] # "overdue" /\ container[t] = "exited"
        /\ status' = [status EXCEPT ![t] = outcome]
        /\ MovesTo(t, CASE worker[t] = "overdue" -> "expiring"
                        [] /\ worker[t] # "overdue"
                           /\ outcome = "cancelled" \/ worker[t] = "unwanted"
                           /\ outcome # "completed" -> "cancelling"
                        [] OTHER -> "cleanup")
    /\ UNCHANGED <<due, cancelRequested, containerRef, logsFinal, lock, container>>
    /\ ThreadStep

(* The final status of a cancelled and of a timed-out run. *)
SettleOutcome(t) ==
    /\ worker[t] \in {"cancelling", "expiring"}
    /\ status' = [status EXCEPT ![t] =
                     IF worker[t] = "cancelling" THEN "cancelled" ELSE "failed"]
    /\ MovesTo(t, "cleanup")
    /\ UNCHANGED <<due, cancelRequested, containerRef, logsFinal, lock, container>>
    /\ ThreadStep

(* The container is removed once its raw log is final ... *)
RemoveContainer(t) ==
    /\ worker[t] = "cleanup"
    /\ t \in logsFinal
    /\ container' = [container EXCEPT ![t] = "none"]
    /\ MovesTo(t, "removed")
    /\ UNCHANGED <<rowVars, lock>>
    /\ ThreadStep

(* ... and then its reference cleared; ... *)
ClearReference(t) ==
    /\ worker[t] = "removed"
    /\ containerRef' = containerRef \ {t}
    /\ logsFinal' = logsFinal \cup {t}
    /\ MovesTo(t, "done")
    /\ UNCHANGED <<status, due, cancelRequested, lock, container>>
    /\ ThreadStep

(* Mutant: the reference of a container that could not be removed is cleared. *)
RetainContainerForgets(t) ==
    /\ worker[t] = "cleanup"
    /\ containerRef' = containerRef \ {t}
    /\ MovesTo(t, "done")
    /\ UNCHANGED <<status, due, cancelRequested, logsFinal, lock, container>>
    /\ ThreadStep

(* ... it is retained when the log is not final or the removal fails. *)
RetainContainer(t) ==
    /\ worker[t] = "cleanup"
    /\ MovesTo(t, "done")
    /\ UNCHANGED <<rowVars, lock, container>>
    /\ ThreadStep

(* Any other exception while monitoring (fail_execute_task, fail_resume_task *)
(* with the container): FAILED is committed only once the container is known *)
(* to be gone or stopped; otherwise deferred recovery takes over.            *)
MonitorFails(t) ==
    /\ worker[t] \in Monitoring
    /\ \/ /\ status' = [status EXCEPT ![t] = "failed"]
          /\ container' = [container EXCEPT ![t] = IF @ = "running" THEN "exited" ELSE @]
          /\ MovesTo(t, IF container[t] = "none" THEN "removed" ELSE "cleanup")
       \/ MovesTo(t, "coord") /\ UNCHANGED <<status, container>>
    /\ UNCHANGED <<due, cancelRequested, containerRef, logsFinal, lock>>
    /\ ThreadStep

-----------------------------------------------------------------------------
(* run_resume_task on a recovered container. It is still there: nobody       *)
(* removes the container of a running task that has a handle.                *)
ResumeAttaches(t) ==
    /\ worker[t] = "resume"
    /\ container[t] # "none"
    /\ MovesTo(t, "monitor")
    /\ UNCHANGED <<rowVars, lock, container>>
    /\ ThreadStep

(* The contract, or the frozen timeout (which marks the logs final), is not  *)
(* valid: FAILED is committed and the container is left alone.               *)
ResumeRefused(t) ==
    /\ worker[t] = "resume"
    /\ status' = [status EXCEPT ![t] = "failed"]
    /\ logsFinal' \in {logsFinal, logsFinal \cup {t}}
    /\ MovesTo(t, "done")
    /\ UNCHANGED <<due, cancelRequested, containerRef, lock, container>>
    /\ ThreadStep

(* The resumed container cannot be inspected: back to deferred recovery. *)
ResumeInconclusive(t) ==
    /\ worker[t] = "resume"
    /\ MovesTo(t, "coord")
    /\ UNCHANGED <<rowVars, lock, container>>
    /\ ThreadStep

-----------------------------------------------------------------------------
(* _block_issue_for_retained_container. *)
BlockIssue(t) ==
    /\ blockedIssues' = blockedIssues \cup {IssueOf[t]}
    /\ runningIssues' = runningIssues \cup {IssueOf[t]}

(* The places an exception can escape the worker thread from. *)
Escapable == WorkerStates \ {"none", "created", "coord", "gone", "goneUnwanted", "done"}

(* fail_execute_task had stopped a started container before it raised. *)
Quiesced(t) ==
    [container EXCEPT ![t] = IF @ = "running" /\ worker[t] \in Monitoring THEN "exited" ELSE @]

(* _mark_worker_bootstrap_failed: an exception escaped the worker thread. A  *)
(* task that is still running gets its outcome here.                         *)
WorkerEscapes(t) ==
    /\ worker[t] \in Escapable
    /\ container' = Quiesced(t)
    /\ MovesTo(t, "done")
    /\ IF status[t] # "running"
       THEN UNCHANGED <<status, logsFinal, lock, runningIssues, blockedIssues>>
       ELSE /\ status' = [status EXCEPT ![t] = LostOutcome(t)]
            /\ logsFinal' = logsFinal \cup ({t} \ containerRef)
            /\ IF t \in containerRef
               THEN BlockIssue(t) /\ UNCHANGED lock
               ELSE /\ lock' = LockReleasedBy(t)
                    /\ runningIssues' = runningIssues \ {IssueOf[t]}
                    /\ UNCHANGED blockedIssues
    /\ UNCHANGED <<due, cancelRequested, containerRef, runningTasks>>
    /\ UNCHANGED <<loopVars, callVars, crashes>>

(* The same, but recording the failure fails as well: it is only logged, and *)
(* the task stays as it is.                                                  *)
WorkerLost(t) ==
    /\ LosesFailures
    /\ worker[t] \in Escapable
    /\ container' = Quiesced(t)
    /\ MovesTo(t, "done")
    /\ UNCHANGED <<rowVars, lock>>
    /\ ThreadStep

(* Mutant: the lock is released beside a retained container. *)
WorkerFinallyReleases(t) ==
    /\ worker[t] = "done"
    /\ MovesTo(t, "none")
    /\ runningTasks' = runningTasks \ {t}
    /\ lock' = LockReleasedBy(t)
    /\ runningIssues' = runningIssues \ {IssueOf[t]}
    /\ UNCHANGED <<rowVars, container, blockedIssues, loopVars, callVars, crashes>>

(* The finally block: the handle is dropped; if the lock is not another      *)
(* task's, a container reference blocks the issue, otherwise the issue and   *)
(* the lock are released.                                                    *)
WorkerFinally(t) ==
    /\ worker[t] = "done"
    /\ MovesTo(t, "none")
    /\ runningTasks' = runningTasks \ {t}
    /\ IF lock[IssueOf[t]] \notin {NoTask, t}
       THEN UNCHANGED <<lock, runningIssues, blockedIssues>>
       ELSE IF t \in containerRef
            THEN BlockIssue(t) /\ UNCHANGED lock
            ELSE /\ lock' = LockReleasedBy(t)
                 /\ runningIssues' = runningIssues \ {IssueOf[t]}
                 /\ UNCHANGED blockedIssues
    /\ UNCHANGED <<rowVars, container, loopVars, callVars, crashes>>

(* The finally block loses the database: its effects on the lock and on the  *)
(* issue sets are left to reconciliation and lock cleanup.                   *)
WorkerFinallyFails(t) ==
    /\ worker[t] = "done"
    /\ MovesTo(t, "none")
    /\ runningTasks' = runningTasks \ {t}
    /\ UNCHANGED <<rowVars, lock, container, runningIssues, blockedIssues>>
    /\ UNCHANGED <<loopVars, callVars, crashes>>

-----------------------------------------------------------------------------
(* Deferred recovery, _coordinate_unavailable_recovery, which looks the      *)
(* container up again and again until the daemon answers.                    *)

(* Mutant: the coordinator gives up a task that is still running. *)
CoordStopsAnyway(t) ==
    /\ worker[t] = "coord"
    /\ runningTasks' = runningTasks \ {t}
    /\ runningIssues' = runningIssues \ {IssueOf[t]}
    /\ MovesTo(t, "none")
    /\ UNCHANGED <<rowVars, lock, container, blockedIssues, loopVars, callVars, crashes>>

(* The task is no longer running: only the in-memory slots are given back. *)
CoordStops(t) ==
    /\ worker[t] = "coord"
    /\ status[t] # "running"
    /\ runningTasks' = runningTasks \ {t}
    /\ runningIssues' = runningIssues \ {IssueOf[t]}
    /\ MovesTo(t, "none")
    /\ UNCHANGED <<rowVars, lock, container, blockedIssues, loopVars, callVars, crashes>>

(* A container that ran is resumed, after being stopped if its task has a    *)
(* cancellation intent.                                                      *)
CoordResumes(t) ==
    /\ worker[t] = "coord"
    /\ status[t] = "running"
    /\ container[t] \in {"running", "exited"}
    /\ container' = [container EXCEPT ![t] = IF t \in cancelRequested THEN "exited" ELSE @]
    /\ MovesTo(t, "resume")
    /\ UNCHANGED <<rowVars, lock>>
    /\ ThreadStep

(* The log of a container that was never started is finalized and the        *)
(* container removed; ...                                                    *)
CoordDiscards(t) ==
    /\ worker[t] = "coord"
    /\ status[t] = "running"
    /\ container[t] = "created"
    /\ logsFinal' = logsFinal \cup {t}
    /\ \/ UNCHANGED <<container, worker>>
       \/ /\ container' = [container EXCEPT ![t] = "none"]
          /\ MovesTo(t, IF t \in cancelRequested THEN "goneUnwanted" ELSE "gone")
    /\ UNCHANGED <<status, due, cancelRequested, containerRef, lock>>
    /\ ThreadStep

(* What both ways to learn that there is no container commit. *)
CoordSettles(t, outcome) ==
    /\ status' = [status EXCEPT ![t] = outcome]
    /\ containerRef' = containerRef \ {t}
    /\ logsFinal' = logsFinal \cup {t}
    /\ lock' = LockReleasedBy(t)
    /\ runningTasks' = runningTasks \ {t}
    /\ runningIssues' = runningIssues \ {IssueOf[t]}
    /\ MovesTo(t, "none")
    /\ UNCHANGED <<due, cancelRequested, container, blockedIssues, loopVars, callVars, crashes>>

(* ... then the task gets the outcome its intent asked for when it was read. *)
CoordRemoved(t) ==
    \/ worker[t] = "gone" /\ CoordSettles(t, "failed")
    \/ worker[t] = "goneUnwanted" /\ CoordSettles(t, "cancelled")

(* The daemon answers that there is no container. *)
CoordAbsent(t) ==
    /\ worker[t] = "coord"
    /\ status[t] = "running"
    /\ container[t] = "none"
    /\ CoordSettles(t, LostOutcome(t))

(* The steps of the thread and of the coroutine that own task t. *)
HandleStep(t) ==
    \/ WorkerStarts(t)
    \/ SetupFails(t)
    \/ CheckBeforeCreate(t)
    \/ CreateContainer(t)
    \/ CreateInconclusive(t)
    \/ PersistReference(t)
    \/ PersistFails(t)
    \/ CheckBeforeStart(t)
    \/ StartContainer(t)
    \/ StartFails(t)
    \/ StartInconclusive(t)
    \/ DiscardContainer(t)
    \/ RecordDiscard(t)
    \/ FailExecute(t)
    \/ CheckStarted(t)
    \/ StreamEnds(t)
    \/ StreamTimesOut(t)
    \/ FinalizeLogs(t)
    \/ ParseResult(t)
    \/ SettleOutcome(t)
    \/ RemoveContainer(t)
    \/ ClearReference(t)
    \/ RetainContainer(t)
    \/ MonitorFails(t)
    \/ ResumeAttaches(t)
    \/ ResumeRefused(t)
    \/ ResumeInconclusive(t)
    \/ WorkerEscapes(t)
    \/ WorkerLost(t)
    \/ WorkerFinally(t)
    \/ WorkerFinallyFails(t)
    \/ CoordStops(t)
    \/ CoordResumes(t)
    \/ CoordDiscards(t)
    \/ CoordRemoved(t)
    \/ CoordAbsent(t)

WorkerNext == \E t \in Tasks : HandleStep(t) \/ HarnessExits(t)

=============================================================================
