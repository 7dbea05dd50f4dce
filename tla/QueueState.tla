------------------------------ MODULE QueueState ------------------------------
(***************************************************************************)
(* The state the task-execution core of Codify works on: the rows of the   *)
(* tasks table, the issue_execution_locks table, the worker containers on  *)
(* the Docker daemons, the memory of the one scheduler process, the worker *)
(* handles it owns and the API requests in flight.                         *)
(*                                                                         *)
(* TaskApi, SchedulerCycle, WorkerLifecycle and CrashRecovery each add the *)
(* actions of one component; IssueQueue composes them.                     *)
(***************************************************************************)
EXTENDS Naturals, FiniteSets

CONSTANTS
    Tasks,           \* task ids, in creation order
    Issues,          \* issue ids
    IssueOf,         \* the issue each task belongs to
    MaxConcurrency,  \* settings.max_concurrency
    MaxCrashes,      \* bound: scheduler restarts in a behaviour
    MaxRequests,     \* bound: cancel, reschedule and override requests
    FreshReads,      \* TRUE: no transaction of another actor falls between the
                     \* unlocked read and the write of reschedule_task or of
                     \* the runtime readiness gate
    LosesFailures    \* TRUE: the database may be down just when the failure of
                     \* a worker thread is to be recorded

NoTask == 0
NoRequest == [task |-> NoTask, seen |-> "none"]

ASSUME TasksAssumption == Tasks \subseteq Nat \ {0}
ASSUME IssueOfAssumption == IssueOf \in [Tasks -> Issues]
ASSUME BoundsAssumption ==
    /\ MaxConcurrency \in Nat \ {0}
    /\ MaxCrashes \in Nat
    /\ MaxRequests \in Nat
    /\ FreshReads \in BOOLEAN
    /\ LosesFailures \in BOOLEAN

VARIABLES
    status,          \* Task.status ("none": the row does not exist yet)
    due,             \* tasks whose scheduled_at is NULL or has passed
    cancelRequested, \* tasks with cancel_requested_at NOT NULL
    containerRef,    \* tasks with container_id NOT NULL
    logsFinal,       \* tasks with raw_logs_finalized_at NOT NULL
    lock,            \* issue_execution_locks: the owner task of each issue
    container,       \* the physical container named after the task
    runningTasks,    \* Scheduler._running_tasks
    runningIssues,   \* Scheduler._running_issues
    blockedIssues,   \* Scheduler._retained_container_blocked_issues
    worker,          \* Scheduler._worker_tasks: where each handle's coroutine is
    phase,           \* where the scheduler loop is
    candidate,       \* the task _get_next_task returned
    snapshot,        \* how _crash_recovery classified each row when it read it
    cancelCall,      \* where the cancel request of each task is
    rescheduleCall,  \* the reschedule request in flight and the status it read
    crashes, requests \* used up bounds

rowVars == <<status, due, cancelRequested, containerRef, logsFinal>>
memoryVars == <<runningTasks, runningIssues, blockedIssues>>
loopVars == <<phase, candidate, snapshot>>
callVars == <<cancelCall, rescheduleCall, requests>>
vars == <<rowVars, lock, container, memoryVars, worker, loopVars, callVars, crashes>>

Active == {"pending", "queued", "running"}
Terminal == {"completed", "failed", "cancelled"}
Statuses == {"none"} \cup Active \cup Terminal

ContainerStates == {"none", "created", "running", "exited"}

(* A worker thread whose container has been started. *)
Monitoring ==
    {"started", "monitor", "ended", "expired", "parse", "unwanted", "overdue",
     "cancelling", "expiring", "cleanup", "removed"}
(* A worker thread that has not created its container yet. *)
Bootstrapping == {"submitted", "setup", "creating"}
(* A worker thread whose container exists and was not started. *)
Launching == {"created", "owned", "starting", "discard", "discarded", "failing"}
WorkerStates ==
    {"none", "resume", "coord", "gone", "goneUnwanted", "done"} \cup Bootstrapping \cup Launching \cup Monitoring

CancelStates == {"idle", "byId", "byName", "absent", "logged", "unlogged"}
Phases == {"boot", "recover", "reconcile", "promote", "select", "claim"}
RowClasses == {"running", "unwanted", "owned", "retained", "final", "other"}

(* Every variable ranges over the values the code can give it. *)
TypeOK ==
    /\ status \in [Tasks -> Statuses]
    /\ due \subseteq Tasks
    /\ cancelRequested \subseteq Tasks
    /\ containerRef \subseteq Tasks
    /\ logsFinal \subseteq Tasks
    /\ lock \in [Issues -> Tasks \cup {NoTask}]
    /\ container \in [Tasks -> ContainerStates]
    /\ runningTasks \subseteq Tasks
    /\ runningIssues \subseteq Issues
    /\ blockedIssues \subseteq Issues
    /\ worker \in [Tasks -> WorkerStates]
    /\ phase \in Phases
    /\ candidate \in Tasks \cup {NoTask}
    /\ snapshot \in [Tasks -> RowClasses]
    /\ cancelCall \in [Tasks -> CancelStates]
    /\ rescheduleCall \in [task : Tasks \cup {NoTask}, seen : {"none", "pending", "queued"}]
    /\ crashes \in 0 .. MaxCrashes
    /\ requests \in 0 .. MaxRequests

Init ==
    /\ status = [t \in Tasks |-> "none"]
    /\ due = {}
    /\ cancelRequested = {}
    /\ containerRef = {}
    /\ logsFinal = {}
    /\ lock = [i \in Issues |-> NoTask]
    /\ container = [t \in Tasks |-> "none"]
    /\ runningTasks = {}
    /\ runningIssues = {}
    /\ blockedIssues = {}
    /\ worker = [t \in Tasks |-> "none"]
    /\ phase = "boot"
    /\ candidate = NoTask
    /\ snapshot = [t \in Tasks |-> "other"]
    /\ cancelCall = [t \in Tasks |-> "idle"]
    /\ rescheduleCall = NoRequest
    /\ crashes = 0
    /\ requests = 0

-----------------------------------------------------------------------------
(* Helpers over the rows. *)

(* A task of the same issue with a smaller issue_sequence; sequences are     *)
(* allocated in creation order under the issue's row lock.                   *)
Earlier(t) == {u \in Tasks : IssueOf[u] = IssueOf[t] /\ u < t}

(* Mutant: only a running predecessor counts. *)
HasRunningPredecessor(t) == \E u \in Earlier(t) : status[u] = "running"

HasActivePredecessor(t) == \E u \in Earlier(t) : status[u] \in Active

IsTerminal(t) == status[t] \in Terminal

(* The issues whose terminal tasks still hold a container reference. *)
RetainedIssues == {IssueOf[t] : t \in {u \in Tasks : IsTerminal(u) /\ u \in containerRef}}

(* release_issue_execution_lock: DELETE ... WHERE issue_id AND task_id. *)
LockReleasedBy(t) ==
    IF lock[IssueOf[t]] = t THEN [lock EXCEPT ![IssueOf[t]] = NoTask] ELSE lock

(* Mutant: cleanup ignores the container reference of the owner. *)
LocksWithoutTerminal ==
    [i \in Issues |->
        IF lock[i] # NoTask /\ IsTerminal(lock[i]) THEN NoTask ELSE lock[i]]

(* Mutant: cleanup never finds an inactive lock. *)
LocksUncleaned == lock

(* cleanup_inactive_issue_execution_locks: the locks of terminal owners that *)
(* hold no container reference are deleted by their exact (issue, task) pair. *)
LocksWithoutInactive ==
    [i \in Issues |->
        IF lock[i] # NoTask /\ IsTerminal(lock[i]) /\ lock[i] \notin containerRef
        THEN NoTask ELSE lock[i]]

(* What a task that lost its container becomes. *)
LostOutcome(t) == IF t \in cancelRequested THEN "cancelled" ELSE "failed"

=============================================================================
