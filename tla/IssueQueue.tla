------------------------------ MODULE IssueQueue ------------------------------
(***************************************************************************)
(* The task-execution core as a whole: API requests, the scheduler cycle,  *)
(* worker threads and coordinators, and restarts of the scheduler, over    *)
(* the shared rows, locks and containers of QueueState.                    *)
(***************************************************************************)
EXTENDS TaskApi, SchedulerCycle, WorkerLifecycle, CrashRecovery

Next ==
    \/ ApiNext
    \/ CycleNext
    \/ WorkerNext
    \/ RecoveryNext

Spec == Init /\ [][Next]_vars

(* The steps that can only be taken finitely often (tasks, restarts and      *)
(* requests are finite), so that fairness of their disjunction is fairness   *)
(* of each of them: time passes, and lock cleanup, the reaper, recovery, the *)
(* claim and the parser are retried for ever until they succeed.             *)
EventualSteps ==
    \/ CleanupIssueLocks
    \/ EndRecovery
    \/ ReaperNext
    \/ \E t \in Tasks :
          \/ ScheduleFalls(t)
          \/ Claim(t)
          \/ ParseResult(t)
          \/ RecoverResume(t)
          \/ RecoverDefer(t)

(* The scheduler loop and the worker threads keep running. A step that       *)
(* Docker, the database or a Worker Kit can refuse, and that the code        *)
(* retries, succeeds if it is retried for ever.                              *)
Fairness ==
    /\ WF_vars(LoopNext \/ BeginRecovery)
    /\ WF_vars(\E t \in Tasks : HandleStep(t))
    /\ SF_vars(EventualSteps)
    /\ SF_vars(Promote(Tasks))
    /\ SF_vars(\E t \in Tasks : SelectNext(t))
    /\ SF_vars(\E t \in Tasks : ResumeAttaches(t))
    /\ SF_vars(\E t \in Tasks : StreamEnds(t) \/ StreamTimesOut(t))
    /\ SF_vars(\E t \in Tasks : FinalizeLogs(t))

FairSpec == Spec /\ Fairness

-----------------------------------------------------------------------------
(* No two worker containers of one issue run at the same time: they would    *)
(* write to the same daemon-local workspace. Claim, worker clean-up, cancel, *)
(* reaper and crash recovery have to agree on who holds the issue.           *)
WorkspaceExclusive ==
    \A t, u \in Tasks :
        t # u /\ IssueOf[t] = IssueOf[u]
            => ~(container[t] = "running" /\ container[u] = "running")

(* A container, even one whose reference was never committed or whose task   *)
(* has ended, keeps its issue locked by its own task until it is removed.    *)
ContainerHoldsLock ==
    \A t \in Tasks : container[t] # "none" => lock[IssueOf[t]] = t

(* Turns run in sequence order: while a task runs, or its container does,    *)
(* every earlier turn of the issue has ended for good.                       *)
TurnsInOrder ==
    \A t \in Tasks :
        status[t] = "running" \/ container[t] = "running" =>
            \A u \in Earlier(t) : IsTerminal(u)

(* The tasks that are running never exceed max_concurrency: the count read   *)
(* before the claim is not overtaken by recovery or by a worker start.       *)
ConcurrencyBounded == RunningCount <= MaxConcurrency

(* Once recovery has finished, every running task is owned by a handle.      *)
NoOrphanRunning ==
    phase \notin {"boot", "recover"} =>
        \A t \in Tasks : status[t] = "running" => worker[t] # "none"

-----------------------------------------------------------------------------
Waiting == {"none", "pending", "queued"}

(* What each component may rely on about a task while the others run; the    *)
(* invariants above follow from it and it is preserved by every step:        *)
(*   - a task that was not claimed has no worker, container or reference;    *)
(*   - up to the start of its container a worker's task is running and holds *)
(*     its issue, and before the creation there is nothing to be found;      *)
(*   - a container that ran is referenced, and one that is not referenced    *)
(*     belongs to a running task between creation and commit, or whose       *)
(*     creation is looked into by a coordinator or awaits a restart;         *)
(*   - a request, thread or coordinator that believes the container gone is  *)
(*     right, and no new one can appear behind its back;                     *)
(*   - a row recovery is to take over is still running and has no handle,    *)
(*     and a container it is to remove as an orphan has its log in the row;  *)
(*   - turns are created in order and are only begun in order.               *)
Ownership(t) ==
    /\ container[t] # "none" => lock[IssueOf[t]] = t
    /\ status[t] \in Waiting =>
          worker[t] = "none" /\ container[t] = "none" /\ t \notin containerRef
    /\ worker[t] \in Bootstrapping =>
          lock[IssueOf[t]] = t /\ container[t] = "none" /\ t \notin containerRef
    /\ worker[t] \in Bootstrapping \cup {"created", "owned", "starting"} => status[t] = "running"
    /\ worker[t] \in Bootstrapping \cup Launching => phase \notin {"boot", "recover"}
    /\ worker[t] \in {"created", "owned", "starting"} => container[t] = "created"
    /\ worker[t] \in {"owned", "starting"} => t \in containerRef
    /\ container[t] \in {"running", "exited"} => t \in containerRef
    /\ container[t] # "none" /\ t \notin containerRef =>
          status[t] = "running" /\ worker[t] \in {"created", "coord", "none"}
    /\ worker[t] = "discard" => container[t] = "created"
    /\ worker[t] \in {"removed", "discarded", "gone", "goneUnwanted"} => container[t] = "none"
    /\ worker[t] \in {"cleanup", "removed"} => IsTerminal(t)
    /\ cancelCall[t] \in {"byId", "absent"} =>
          worker[t] \notin Bootstrapping /\ status[t] \notin Waiting
    /\ cancelCall[t] = "absent" => container[t] = "none"
    /\ snapshot[t] \in {"running", "unwanted"} =>
          phase = "recover" /\ worker[t] = "none" /\ status[t] = "running"
    /\ snapshot[t] = "final" => t \in logsFinal /\ IsTerminal(t)
    /\ phase = "recover" /\ snapshot[t] = "other" => container[t] = "none" /\ status[t] # "running"
    /\ status[t] # "none" => \A u \in Earlier(t) : status[u] # "none"
    /\ status[t] = "running" \/ worker[t] # "none" \/ container[t] # "none" =>
          \A u \in Earlier(t) : IsTerminal(u)

(* What also holds while every failure of a worker thread can be recorded: a *)
(* thread only returns once its task has ended, and recovery misses no task. *)
HandleKept(t) ==
    /\ worker[t] = "done" => IsTerminal(t)
    /\ phase = "recover" /\ status[t] = "running" /\ worker[t] = "none" =>
          snapshot[t] \in {"running", "unwanted"}
    /\ phase \notin {"boot", "recover"} /\ status[t] = "running" => worker[t] # "none"

(* Every task is in a state Ownership allows: no interleaving of requests,   *)
(* cycle, threads, reaper and restarts leaves a request, thread, coordinator *)
(* or recovery acting on a container, reference or lock that is no longer    *)
(* what it took it for. This is the inductive invariant of the safety proofs. *)
OwnershipInvariant == TypeOK /\ \A t \in Tasks : Ownership(t)

(* Every task has the handle HandleKept asks for. *)
HandleInvariant == \A t \in Tasks : HandleKept(t)

-----------------------------------------------------------------------------
CancelKept(t) == status[t] = "cancelled" /\ worker[t] = "none" => status'[t] = "cancelled"

(* A task cancelled while it waited stays cancelled: neither the readiness   *)
(* gate, a reschedule, a claim nor recovery brings it back.                  *)
CancelledStays == [][\A t \in Tasks : CancelKept(t)]_vars

StartAllowed(t) ==
    container[t] # "running" /\ container'[t] = "running" =>
        /\ container[t] = "created"
        /\ status[t] = "running"
        /\ lock[IssueOf[t]] = t

(* A container is only ever started for a task that is running and holds its *)
(* issue's lock, and never twice: a cancellation, a failure or a recovery    *)
(* that got in between keeps the worker from starting it.                    *)
StartsUnderLock == [][\A t \in Tasks : StartAllowed(t)]_vars

LogKept(t) ==
    container[t] \in {"running", "exited"} /\ container'[t] = "none" => t \in logsFinal

(* A container that ran is only removed once its raw log is final, whoever   *)
(* removes it: the worker, the reaper or crash recovery.                     *)
LogsBeforeRemoval == [][\A t \in Tasks : LogKept(t)]_vars

-----------------------------------------------------------------------------
(* How a task looks to its user. *)
TurnOf(t) ==
    CASE status[t] = "none" -> "none"
      [] status[t] \in {"pending", "queued"} -> "waiting"
      [] status[t] = "running" -> "working"
      [] OTHER -> "over"

Turns == INSTANCE TurnOrder WITH
    turn <- [t \in Tasks |-> TurnOf(t)],
    holder <- lock,
    occupied <- {t \in Tasks : container[t] # "none"}

(* The whole core implements TurnOrder: seen through the task statuses, the  *)
(* lock table and the containers, no interleaving of claim, cancel, worker   *)
(* clean-up, reaper and recovery lets a turn begin early, end twice, start   *)
(* over, or give its issue back before its workspace is empty.               *)
ImplementsTurnOrder == Turns!TurnSpec

-----------------------------------------------------------------------------
(* Every lock is given back, also after the finally block of its worker lost *)
(* the database or its container was retained.                               *)
EveryLockIsReleased == \A i \in Issues : lock[i] # NoTask ~> lock[i] = NoTask
=============================================================================
