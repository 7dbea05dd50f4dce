------------------------------- MODULE TaskApi -------------------------------
(***************************************************************************)
(* The task routes of the API process: creation (create_task_record and    *)
(* retry_task_record append the same kind of row), execute-now, the        *)
(* two-phase cancel, reschedule and the manual override of an outcome.     *)
(* The API process is not the scheduler process: its requests survive a    *)
(* scheduler crash and interleave with every scheduler and worker step.    *)
(***************************************************************************)
EXTENDS QueueState

CountRequest == requests < MaxRequests /\ requests' = requests + 1

(* A new turn is appended behind every turn its issue already has, to run    *)
(* at once or at a scheduled time.                                           *)
CreateTask(t) ==
    /\ status[t] = "none"
    /\ \A u \in Earlier(t) : status[u] # "none"
    /\ status' = [status EXCEPT ![t] = "pending"]
    /\ due' \in {due, due \cup {t}}
    /\ UNCHANGED <<cancelRequested, containerRef, logsFinal, lock, container>>
    /\ UNCHANGED <<memoryVars, worker, loopVars, callVars, crashes>>

(* The wall clock passes the task's scheduled_at (which is only read while   *)
(* the task waits).                                                          *)
ScheduleFalls(t) ==
    /\ status[t] \in {"pending", "queued"}
    /\ t \notin due
    /\ due' = due \cup {t}
    /\ UNCHANGED <<status, cancelRequested, containerRef, logsFinal, lock, container>>
    /\ UNCHANGED <<memoryVars, worker, loopVars, callVars, crashes>>

(* Execute-now clears scheduled_at and nothing else. *)
ExecuteNow(t) ==
    /\ status[t] \in {"pending", "queued"}
    /\ t \notin due
    /\ due' = due \cup {t}
    /\ UNCHANGED <<status, cancelRequested, containerRef, logsFinal, lock, container>>
    /\ UNCHANGED <<memoryVars, worker, loopVars, callVars, crashes>>

(* A finished task's outcome is overridden by hand. *)
OverrideStatus(t) ==
    /\ CountRequest
    /\ status[t] \in {"completed", "failed"}
    /\ status' = [status EXCEPT ![t] = IF @ = "completed" THEN "failed" ELSE "completed"]
    /\ UNCHANGED <<due, cancelRequested, containerRef, logsFinal, lock, container>>
    /\ UNCHANGED <<memoryVars, worker, loopVars, cancelCall, rescheduleCall, crashes>>

-----------------------------------------------------------------------------
(* Mutant: a running task is cancelled like a waiting one. *)
CancelPhaseAAtOnce(t) ==
    /\ CountRequest
    /\ cancelCall[t] = "idle"
    /\ status[t] \in Active
    /\ status' = [status EXCEPT ![t] = "cancelled"]
    /\ cancelCall' = [cancelCall EXCEPT ![t] = IF t \in containerRef THEN "byId" ELSE "byName"]
    /\ cancelRequested' = cancelRequested \cup {t}
    /\ UNCHANGED <<due, containerRef, logsFinal, lock, container, rescheduleCall>>
    /\ UNCHANGED <<memoryVars, worker, loopVars, crashes>>

(* Cancel, phase A: under the issue and task row locks. A task that is not   *)
(* running is cancelled at once; a running one only gets its intent recorded, *)
(* and the reference under which its container will be looked up is read.    *)
CancelPhaseA(t) ==
    /\ CountRequest
    /\ cancelCall[t] = "idle"
    /\ status[t] \in Active
    /\ IF status[t] = "running"
       THEN /\ cancelRequested' = cancelRequested \cup {t}
            /\ cancelCall' = [cancelCall EXCEPT ![t] =
                                  IF t \in containerRef THEN "byId" ELSE "byName"]
            /\ UNCHANGED status
       ELSE /\ status' = [status EXCEPT ![t] = "cancelled"]
            /\ cancelCall' = [cancelCall EXCEPT ![t] = "absent"]
            /\ UNCHANGED cancelRequested
    /\ UNCHANGED <<due, containerRef, logsFinal, lock, container, rescheduleCall>>
    /\ UNCHANGED <<memoryVars, worker, loopVars, crashes>>

(* The container is not on the daemon. Under its stable id that proves it    *)
(* absent; under its name it may still be starting: the request ends in 503. *)
CancelFindsNothing(t) ==
    /\ cancelCall[t] \in {"byId", "byName"}
    /\ container[t] = "none"
    /\ cancelCall' = [cancelCall EXCEPT ![t] = IF @ = "byId" THEN "absent" ELSE "idle"]
    /\ UNCHANGED <<rowVars, lock, container, memoryVars, worker, loopVars, crashes>>
    /\ UNCHANGED <<rescheduleCall, requests>>

(* The daemon is unreachable or the container cannot be stopped: 503. *)
CancelDeferred(t) ==
    /\ cancelCall[t] \in {"byId", "byName"}
    /\ cancelCall' = [cancelCall EXCEPT ![t] = "idle"]
    /\ UNCHANGED <<rowVars, lock, container, memoryVars, worker, loopVars, crashes>>
    /\ UNCHANGED <<rescheduleCall, requests>>

(* Stopping or killing works (it does nothing to a container that was never  *)
(* started); the console log can then be read or not.                        *)
CancelStops(t) ==
    /\ cancelCall[t] \in {"byId", "byName"}
    /\ container[t] # "none"
    /\ container' = [container EXCEPT ![t] = IF @ = "running" THEN "exited" ELSE @]
    /\ \E logged \in {"logged", "unlogged"} :
          cancelCall' = [cancelCall EXCEPT ![t] = logged]
    /\ UNCHANGED <<rowVars, lock, memoryVars, worker, loopVars, crashes>>
    /\ UNCHANGED <<rescheduleCall, requests>>

(* Cancel, phase B: the row is read again under the locks; only a terminal   *)
(* task without a container reference gives up its lock.                     *)
CancelPhaseB(t) ==
    /\ cancelCall[t] \in {"absent", "logged", "unlogged"}
    /\ cancelCall' = [cancelCall EXCEPT ![t] = "idle"]
    /\ logsFinal' = IF cancelCall[t] \in {"absent", "logged"} THEN logsFinal \cup {t} ELSE logsFinal
    /\ containerRef' = IF cancelCall[t] # "absent" THEN containerRef ELSE containerRef \ {t}
    /\ lock' = IF IsTerminal(t) /\ t \notin containerRef' THEN LockReleasedBy(t) ELSE lock
    /\ UNCHANGED <<status, due, cancelRequested, container, memoryVars, worker, loopVars>>
    /\ UNCHANGED <<rescheduleCall, requests, crashes>>

-----------------------------------------------------------------------------
(* Mutant: the status is not validated. *)
RescheduleReadAny(t) ==
    /\ rescheduleCall = NoRequest
    /\ CountRequest
    /\ status[t] \in Active
    /\ rescheduleCall' = [task |-> t, seen |-> status[t]]
    /\ UNCHANGED <<rowVars, lock, container, memoryVars, worker, loopVars, cancelCall, crashes>>

(* reschedule_task loads and validates the task before it takes the issue's  *)
(* row lock and never reads the task again. (A pending task that was never   *)
(* scheduled is refused; due does not tell it from one whose time has come.) *)
RescheduleRead(t) ==
    /\ rescheduleCall = NoRequest
    /\ CountRequest
    /\ status[t] \in {"pending", "queued"}
    /\ rescheduleCall' = [task |-> t, seen |-> status[t]]
    /\ UNCHANGED <<rowVars, lock, container, memoryVars, worker, loopVars, cancelCall, crashes>>

(* The commit writes the new time and, when the task was read as queued, the *)
(* status pending, whatever the status is by now.                            *)
RescheduleCommit(t) ==
    /\ rescheduleCall.task = t
    /\ FreshReads /\ rescheduleCall.seen = "queued" => status[t] = "queued"
    /\ due' = due \ {t}
    /\ status' = IF rescheduleCall.seen = "queued"
                 THEN [status EXCEPT ![t] = "pending"] ELSE status
    /\ rescheduleCall' = NoRequest
    /\ UNCHANGED <<cancelRequested, containerRef, logsFinal, lock, container, memoryVars>>
    /\ UNCHANGED <<worker, loopVars, cancelCall, requests, crashes>>

(* The new time is outside the issue's schedule window, or its slot is full. *)
RescheduleRefused ==
    /\ rescheduleCall # NoRequest
    /\ rescheduleCall' = NoRequest
    /\ UNCHANGED <<rowVars, lock, container, memoryVars, worker, loopVars, crashes>>
    /\ UNCHANGED <<cancelCall, requests>>

ApiNext ==
    \/ RescheduleRefused
    \/ \E t \in Tasks :
          \/ CreateTask(t)
          \/ ScheduleFalls(t)
          \/ ExecuteNow(t)
          \/ OverrideStatus(t)
          \/ CancelPhaseA(t)
          \/ CancelFindsNothing(t)
          \/ CancelDeferred(t)
          \/ CancelStops(t)
          \/ CancelPhaseB(t)
          \/ RescheduleRead(t)
          \/ RescheduleCommit(t)

=============================================================================
