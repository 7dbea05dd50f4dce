----------------------------- MODULE CiFailures -----------------------------
(***************************************************************************)
(* CI failure runs of one Issue: the pipeline webhook                      *)
(* (webhook_handler.py) records a run, the collector                       *)
(* (ci_failure_collector.py) claims it, passes its gates, lists the failed *)
(* jobs, stores their evidence and creates a repair task.  Every webhook   *)
(* request reads the run and writes it in a later step; the collector's    *)
(* transaction holds the run's row from its first flush to its commit.     *)
(***************************************************************************)
EXTENDS Integers, Sequences, FiniteSets

CONSTANTS Pipelines,     \* 1 .. n, a later pipeline has a greater id
          Requests,      \* webhook requests
          Redelivery,    \* a pipeline's failure may be reported more than once
          Classes,       \* what a job's failure looks like: "code", "infra", "soft"
          MaxRetries,    \* jobs people restart
          MaxAttempts,   \* ci_auto_repair_max_attempts
          MaxFaults,     \* GitLab or runtime errors during a collection
          MaxCrashes,    \* restarts of the collector's process
          MaxUserTasks,  \* tasks people create on the Issue
          Limit,         \* runs claimed at a time
          Verified       \* the Worker Profile carries verification evidence

(* What the constants are. *)
CiAssumption ==
  /\ Pipelines = 1 .. Cardinality(Pipelines) /\ IsFiniteSet(Requests)
  /\ Classes \subseteq {"code", "infra", "soft"}
  /\ {MaxRetries, MaxAttempts, MaxFaults, MaxCrashes, MaxUserTasks, Limit} \subseteq Nat
  /\ {Verified, Redelivery} \subseteq BOOLEAN

VARIABLES pipe,    \* GitLab: the pipelines of the merge request, their jobs
          row,     \* ci_failure_runs, and the ci_failure_jobs of each run
          req,     \* webhook requests in flight
          tasks,   \* CI repair tasks, in order of creation
          issue,   \* the Issue row, its manual task, the attempts since its reset
          col,     \* the collector: step, batch, what it read
          used     \* counters of the bounds

vars == <<pipe, row, req, tasks, issue, col, used>>

Stages == {1, 2}
NoRun == [st |-> "none", lock |-> "free", repair |-> 0, jobs |-> {}, reason |-> "none",
          at |-> 0]
Idle == [pc |-> "idle", batch |-> << >>, evidence |-> {}]
NoRequest == [st |-> "idle", p |-> 0, seen |-> "none"]

Init ==
  /\ pipe = [p \in Pipelines |-> [st |-> "none", job |-> [s \in Stages |->
                [class |-> "code", n |-> 0, failed |-> FALSE]]]]
  /\ row = [p \in Pipelines |-> NoRun]
  /\ req = [r \in Requests |-> NoRequest]
  /\ tasks = << >>
  /\ issue = [closed |-> FALSE, enabled |-> TRUE, manual |-> FALSE, reset |-> 0]
  /\ col = Idle
  /\ used = [retries |-> 0, faults |-> 0, crashes |-> 0, user |-> 0]

Latest == IF \E p \in Pipelines : pipe[p].st # "none"
          THEN CHOOSE p \in Pipelines : /\ pipe[p].st # "none"
                                        /\ \A q \in Pipelines : pipe[q].st # "none" => q <= p
          ELSE 0

---------------------------------------------------------------------------
(* GitLab.  A push starts the next pipeline; a job a person restarts gets a *)
(* new id in the same pipeline, which then fails under its old id.          *)
PipelineStarts ==
  /\ \E p \in Pipelines, class \in [Stages -> Classes] :
       /\ p = Latest + 1
       /\ pipe' = [pipe EXCEPT ![p] = [st |-> "running", job |-> [s \in Stages |->
                      [class |-> class[s], n |-> 1, failed |-> FALSE]]]]
  /\ UNCHANGED <<row, req, tasks, issue, col, used>>

Hard(p) == {s \in Stages : pipe[p].job[s].failed /\ pipe[p].job[s].class # "soft"}

PipelineFails ==
  /\ \E p \in Pipelines, failing \in SUBSET Stages :
       /\ pipe[p].st = "running"
       /\ pipe' = [pipe EXCEPT ![p].st = "failed", ![p].job = [s \in Stages |->
                      [@[s] EXCEPT !.failed = @ \/ s \in failing]]]
       /\ \E s \in Stages : pipe'[p].job[s].failed /\ pipe[p].job[s].class # "soft"
  /\ UNCHANGED <<row, req, tasks, issue, col, used>>

JobRestarted ==
  /\ used.retries < MaxRetries /\ used' = [used EXCEPT !.retries = @ + 1]
  /\ \E p \in Pipelines : \E s \in Stages :
       /\ pipe[p].st = "failed" /\ pipe[p].job[s].failed
       /\ pipe' = [pipe EXCEPT ![p].st = "running", ![p].job[s].failed = FALSE,
                               ![p].job[s].n = @ + 1]
  /\ UNCHANGED <<row, req, tasks, issue, col>>

---------------------------------------------------------------------------
(* receive_gitlab_webhook, event "pipeline" with status "failed": the run   *)
(* is looked up, then inserted, reported as a duplicate or reset.           *)
WebhookReads ==
  /\ \E r \in Requests, p \in Pipelines :
       /\ req[r].st = "idle" /\ pipe[p].st = "failed"
       /\ Redelivery \/ \A q \in Requests : req[q].p # p
       /\ req' = [req EXCEPT ![r] = [st |-> "read", p |-> p, seen |-> row[p].st]]
  /\ UNCHANGED <<pipe, row, tasks, issue, col, used>>

(* The collector's open transaction has written the row of this run.        *)
RowHeld(p) == col.pc \in {"jobs", "create"} /\ Head(col.batch) = p

(* A new row; created_at is the place of the run among those recorded.      *)
NewRun == [NoRun EXCEPT !.st = "collecting",
                        !.at = 1 + Cardinality({q \in Pipelines : row[q] # NoRun})]

Reset(run) == [run EXCEPT !.st = "collecting", !.reason = "none", !.lock = "free"]

WebhookWrites ==
  /\ \E r \in Requests :
       LET p == req[r].p IN
       /\ req[r].st = "read" /\ req' = [req EXCEPT ![r].st = "done"]
       /\ \/ /\ req[r].seen = "none"
             /\ row' = [row EXCEPT ![p] = IF @ = NoRun THEN NewRun
                                          ELSE @]         \* unique constraint: error
          \/ req[r].seen \in {"collecting", "task_created"} /\ UNCHANGED row
          \/ /\ req[r].seen \in {"ignored", "failed"} /\ ~RowHeld(p)
             /\ row' = [row EXCEPT ![p] = Reset(@)]
  /\ UNCHANGED <<pipe, tasks, issue, col, used>>

(* Event "merge_request" with action "merge".                               *)
MergeRequestMerged ==
  /\ ~issue.closed /\ issue' = [issue EXCEPT !.closed = TRUE]
  /\ UNCHANGED <<pipe, row, req, tasks, col, used>>

---------------------------------------------------------------------------
(* People and the workers on the same Issue.                                *)
UserTaskCreated ==
  /\ ~issue.manual /\ ~issue.closed /\ used.user < MaxUserTasks
  /\ used' = [used EXCEPT !.user = @ + 1] /\ issue' = [issue EXCEPT !.manual = TRUE]
  /\ UNCHANGED <<pipe, row, req, tasks, col>>

(* A completed manual delivery restarts the count of repair attempts.       *)
UserTaskEnds ==
  /\ issue.manual
  /\ \E reset \in {issue.reset, Len(tasks)} :
       issue' = [issue EXCEPT !.manual = FALSE, !.reset = reset]
  /\ UNCHANGED <<pipe, row, req, tasks, col, used>>

RepairTaskEnds ==
  /\ \E t \in DOMAIN tasks : tasks[t].active /\ tasks' = [tasks EXCEPT ![t].active = FALSE]
  /\ UNCHANGED <<pipe, row, req, issue, col, used>>

AutoRepairSwitched ==
  /\ used.user < MaxUserTasks /\ used' = [used EXCEPT !.user = @ + 1]
  /\ issue' = [issue EXCEPT !.enabled = ~@]
  /\ UNCHANGED <<pipe, row, req, tasks, col>>

ActiveTask == issue.manual \/ \E t \in DOMAIN tasks : tasks[t].active

---------------------------------------------------------------------------
(* claim_collecting_runs: unlocked or stale, oldest first, one commit.      *)
Claimable(p) == row[p].st = "collecting" /\ row[p].lock \in {"free", "stale"}

(* The runs in order of created_at.                                         *)
OldestFirst(runs) ==
  CHOOSE s \in [1 .. Cardinality(runs) -> runs] :
    \A i, j \in DOMAIN s : i < j => row[s[i]].at < row[s[j]].at

Claim ==
  /\ col.pc = "idle" /\ \E p \in Pipelines : Claimable(p)
  /\ LET oldest == OldestFirst({p \in Pipelines : Claimable(p)})
         batch == SubSeq(oldest, 1, IF Len(oldest) < Limit THEN Len(oldest) ELSE Limit)
     IN /\ row' = [p \in Pipelines |->
                     IF \E i \in DOMAIN batch : batch[i] = p
                     THEN [row[p] EXCEPT !.lock = "held"] ELSE row[p]]
        /\ col' = [Idle EXCEPT !.pc = "gates", !.batch = batch]
  /\ UNCHANGED <<pipe, req, tasks, issue, used>>

(* 300 seconds later.                                                       *)
LockExpires ==
  /\ \E p \in Pipelines : row[p].lock = "held" /\ row' = [row EXCEPT ![p].lock = "stale"]
  /\ UNCHANGED <<pipe, req, tasks, issue, col, used>>

NextRun == IF Len(col.batch) = 1 THEN Idle
           ELSE [Idle EXCEPT !.pc = "gates", !.batch = Tail(col.batch)]

(* _ignore_run commits what the session holds, the job rows included.       *)
Ignored(p, reason, jobs) ==
  /\ row' = [row EXCEPT ![p].st = "ignored", ![p].reason = reason, ![p].jobs = @ \union jobs]
  /\ col' = NextRun

(* The handler of process_ci_failure_run: the run is marked failed, what    *)
(* the session holds is committed, and the error ends the batch.            *)
MarkedFailed(p, jobs) ==
  /\ used.faults < MaxFaults /\ used' = [used EXCEPT !.faults = @ + 1]
  /\ row' = [row EXCEPT ![p].st = "failed", ![p].jobs = @ \union jobs]
  /\ col' = Idle

Spent == Len(tasks) - issue.reset

SpentGateLoose(p) == Spent > MaxAttempts

BudgetSpent(p) == Spent >= MaxAttempts

(* The first gate that closes, in the order of the code.                    *)
ClosedGate(p) ==
  IF issue.closed THEN "issue_closed"
  ELSE IF ~issue.enabled THEN "ci_auto_repair_disabled"
  ELSE IF BudgetSpent(p) THEN "max_attempts_exceeded"
  ELSE IF ActiveTask THEN "active_execute_task_exists"
  ELSE IF Latest # p THEN "stale_pipeline"
  ELSE "none"

AlreadyRepaired(p) == row[p].repair # 0

Gates ==
  /\ col.pc = "gates"
  /\ LET p == Head(col.batch) IN
     \/ /\ AlreadyRepaired(p)
        /\ col' = NextRun /\ UNCHANGED <<row, used>>
     \/ /\ ~AlreadyRepaired(p) /\ ClosedGate(p) # "none"
        /\ Ignored(p, ClosedGate(p), {}) /\ UNCHANGED used
     \/ /\ ~AlreadyRepaired(p) /\ ClosedGate(p) = "none"
        /\ col' = [col EXCEPT !.pc = "jobs"] /\ UNCHANGED <<row, used>>
     \/ ~AlreadyRepaired(p) /\ MarkedFailed(p, {})          \* GitLab error
  /\ UNCHANGED <<pipe, req, tasks, issue>>

(* select_root_cause_jobs: the stage of the failed job that started first;  *)
(* a restarted job starts after every job of the first round.               *)
RootStage(p) ==
  CHOOSE s \in Hard(p) : \A t \in Hard(p) :
    \/ pipe[p].job[s].n < pipe[p].job[t].n
    \/ pipe[p].job[s].n = pipe[p].job[t].n /\ s <= t

RootJobs(p) == IF Hard(p) = {} THEN {} ELSE {RootStage(p)}
JobRows(p) == {<<s, pipe[p].job[s].n>> : s \in Hard(p)}

(* classify_failure over the root jobs.                                     *)
OnlyInfra(p) == RootJobs(p) # {} /\ \A s \in RootJobs(p) : pipe[p].job[s].class = "infra"

(* List the jobs, add their rows, download the traces.  A row that exists   *)
(* already breaks the flush, and with it the handler's own commit: the      *)
(* transaction is rolled back and the run stays claimed.                    *)
Jobs ==
  /\ col.pc = "jobs"
  /\ LET p == Head(col.batch) IN
     \/ /\ JobRows(p) \intersect row[p].jobs # {}
        /\ col' = Idle /\ UNCHANGED <<row, used>>
     \/ /\ JobRows(p) \intersect row[p].jobs = {} /\ OnlyInfra(p)
        /\ Ignored(p, "infra_failure_detected", JobRows(p)) /\ UNCHANGED used
     \/ /\ JobRows(p) \intersect row[p].jobs = {} /\ ~OnlyInfra(p)
        /\ col' = [col EXCEPT !.pc = "create", !.evidence = JobRows(p)]
        /\ UNCHANGED <<row, used>>
     \/ JobRows(p) \intersect row[p].jobs = {} /\ MarkedFailed(p, JobRows(p))
  /\ UNCHANGED <<pipe, req, tasks, issue>>

(* The task is flushed before its snapshot and Runtime Bundle are prepared: *)
(* an error in between commits it with the failed run.                      *)
Task(p, evidence) == [run |-> p, active |-> TRUE, evidence |-> evidence]

CreateRepair ==
  /\ col.pc = "create"
  /\ LET p == Head(col.batch) IN
     \/ /\ Ignored(p, "worker_runtime_unavailable", col.evidence)
        /\ UNCHANGED <<tasks, used>>
     \/ MarkedFailed(p, col.evidence) /\ UNCHANGED tasks    \* Worker, model, order
     \/ /\ Verified
        /\ tasks' = Append(tasks, Task(p, col.evidence))
        /\ row' = [row EXCEPT ![p].st = "task_created", ![p].repair = Len(tasks) + 1,
                              ![p].jobs = @ \union col.evidence]
        /\ col' = NextRun /\ UNCHANGED used
     \/ /\ ~Verified
        /\ tasks' = Append(tasks, Task(p, col.evidence))
        /\ MarkedFailed(p, col.evidence)                    \* bind_runtime_bundle
  /\ UNCHANGED <<pipe, req, issue>>

(* The process restarts: the open transaction is lost, the locks stay.      *)
Crash ==
  /\ col.pc # "idle" /\ used.crashes < MaxCrashes
  /\ used' = [used EXCEPT !.crashes = @ + 1] /\ col' = Idle
  /\ UNCHANGED <<pipe, row, req, tasks, issue>>

Collector == Claim \/ Gates \/ Jobs \/ CreateRepair

Next == \/ PipelineStarts \/ PipelineFails \/ JobRestarted
        \/ WebhookReads \/ WebhookWrites \/ MergeRequestMerged
        \/ UserTaskCreated \/ UserTaskEnds \/ RepairTaskEnds \/ AutoRepairSwitched
        \/ Collector \/ LockExpires \/ Crash

Spec == Init /\ [][Next]_vars
FairSpec == Spec /\ WF_vars(Collector) /\ WF_vars(LockExpires)

---------------------------------------------------------------------------
(* Types, and: a run names its repair among the Issue's tasks and an idle  *)
(* collector holds no batch (ci_failure_collector.py; columns of           *)
(* CIFailureRun).                                                          *)
TypeOK ==
  /\ \A p \in Pipelines :
       /\ row[p].st \in {"none", "collecting", "ignored", "failed", "task_created"}
       /\ row[p].lock \in {"free", "held", "stale"} /\ row[p].repair \in 0 .. Len(tasks)
       /\ row[p].jobs \subseteq Stages \X (1 .. 1 + MaxRetries)
  /\ col.pc \in {"idle", "gates", "jobs", "create"} /\ (col.pc = "idle" <=> col.batch = << >>)
  /\ \A r \in Requests : req[r].p \in {0} \union Pipelines
  /\ issue.reset \in 0 .. Len(tasks)

RepairsOf(p) == {t \in DOMAIN tasks : tasks[t].run = p}

(* Deliveries of one pipeline's failure, repeated, concurrent or arriving   *)
(* while the collector works, create at most one repair task, whatever they *)
(* do to the run's status: the collector returns early on repair_task_id.   *)
NoDuplicateRepair == \A p \in Pipelines : Cardinality(RepairsOf(p)) <= 1

(* The repair tasks created since the last completed manual delivery never  *)
(* exceed ci_auto_repair_max_attempts, although the count is read long      *)
(* before the task is inserted.                                             *)
BudgetKept == Spent <= MaxAttempts

-----------------------------------------------------------------------------
(* What the repository says and the code does not keep (README, Deviations). *)

(* Only a run that names its repair task has one: a failed collection       *)
(* leaves no task behind and spends no attempt.                             *)
FailedSpendsNothing ==
  \A t \in DOMAIN tasks : row[tasks[t].run].repair = t

(* A repair task is created only while no other execute task of the Issue   *)
(* is active.                                                               *)
RepairsAlone == Len(tasks') > Len(tasks) => ~ActiveTask

(* A repair task is created only for the latest pipeline of the merge       *)
(* request at the time of creation.                                         *)
RepairsLatest ==
  Len(tasks') > Len(tasks) => tasks'[Len(tasks')].run = Latest

(* A repair task has the evidence of at least one root-cause job.           *)
RepairHasEvidence == \A t \in DOMAIN tasks : tasks[t].evidence # {}
=============================================================================
