---------------------------- MODULE IssueRemoval ----------------------------
(***************************************************************************)
(* Removing an Issue or its workspace beside the tasks that use it:        *)
(* DELETE /issues/{id} (api/issues.py), DELETE /tasks/{id}/workspace       *)
(* (api/tasks.py), the administrator's cleanup, plain and forced           *)
(* (core/system_data_cleanup.py), the scheduler's retention of workspaces  *)
(* (_cleanup_workspace_batch), and the statistics archived in the deleting *)
(* transaction (core/system_statistics_deletion.py).  Against them run     *)
(* task creation, the claim, and a worker thread with its container.       *)
(*                                                                         *)
(* Steps are the statements between which PostgreSQL (READ COMMITTED) or   *)
(* Docker lets others in.  The Issue row lock is kept over the steps of a  *)
(* removal; creation and claim lock the row within one step.               *)
(***************************************************************************)
EXTENDS Naturals, Sequences, FiniteSets

CONSTANTS
    Issues,    \* Issue ids, numbers
    Requests,  \* concurrent API requests
    Kinds,     \* what they ask for: "delete", "workspace", "cleanup", "force"
    Broken,    \* Issues whose Docker daemon does not answer
    MaxTasks,  \* tasks ever created
    Batch      \* _WORKSPACE_CLEANUP_BATCH_SIZE

(* What the constants are. *)
RemovalAssumption ==
    /\ Issues \subseteq Nat /\ Broken \subseteq Issues
    /\ Kinds \subseteq {"delete", "workspace", "cleanup", "force"}
    /\ MaxTasks \in Nat /\ Batch \in Nat \ {0}
    /\ Requests \cap {"none", "sched"} = {}

ASSUME ConstantsAssumption == RemovalAssumption

VARIABLES
    issue,   \* Issue rows: whether there, used since the cutoff, workspace_deleted_at
    tried,   \* Issues with workspace_delete_attempted_at, oldest first
    holder,  \* who holds the Issue row lock across steps
    task,    \* Task rows: Issue, status, container_id
    cont,    \* the container of a task on the daemon
    thread,  \* where its worker thread is
    dir,     \* the Issue's directory exists on the daemon
    rem,     \* the requests
    ret,     \* the scheduler's retention pass
    stats,   \* what was archived of a deleted Issue: a set of rows
    lost     \* tasks whose workspace an unforced removal took while they were active

vars == <<issue, tried, holder, task, cont, thread, dir, rem, ret, stats, lost>>

rows == <<issue, task, stats>>
workers == <<cont, thread>>

Tasks == 1 .. MaxTasks
Created == {t \in Tasks : task[t].st # "none"}
TasksOf(i) == {t \in Created : task[t].issue = i /\ task[t].st # "deleted"}
ActiveStatus == {"waiting", "running"}
Row(t) == [task |-> t, st |-> task[t].st, ref |-> task[t].ref]

Idle == [kind |-> "none", pc |-> "idle", issue |-> 0, seen |-> {}]
Resting == [pc |-> "idle", batch |-> <<>>]

Init ==
    /\ issue = [i \in Issues |-> [there |-> TRUE, recent |-> TRUE, wsDeleted |-> FALSE]]
    /\ tried = <<>>
    /\ holder = [i \in Issues |-> "none"]
    /\ task = [t \in Tasks |-> [issue |-> 0, st |-> "none", ref |-> FALSE]]
    /\ cont = [t \in Tasks |-> "none"]
    /\ thread = [t \in Tasks |-> "off"]
    /\ dir = [i \in Issues |-> FALSE]
    /\ rem = [r \in Requests |-> Idle]
    /\ ret = Resting
    /\ stats = [i \in Issues |-> {}]
    /\ lost = {}

(***************************************************************************)
(* Tasks.  Creation, retry and CI repair lock the Issue and mark its       *)
(* workspace as used in the transaction that inserts the task.             *)
(***************************************************************************)
Untried(i) == SelectSeq(tried, LAMBDA j : j # i)

Inserted(i, t) == [task EXCEPT ![t] = [issue |-> i, st |-> "waiting", ref |-> FALSE]]

(* A creation that leaves workspace_last_used_at alone.                    *)
CreateUnmarked(i) ==
    /\ issue[i].there /\ holder[i] = "none"
    /\ Cardinality(Created) < MaxTasks
    /\ task' = Inserted(i, Cardinality(Created) + 1)
    /\ UNCHANGED <<issue, tried, holder, cont, thread, dir, rem, ret, stats, lost>>

Create(i) ==
    /\ issue[i].there /\ holder[i] = "none"
    /\ Cardinality(Created) < MaxTasks
    /\ task' = Inserted(i, Cardinality(Created) + 1)
    /\ issue' = [issue EXCEPT ![i].recent = TRUE, ![i].wsDeleted = FALSE]
    /\ tried' = Untried(i)
    /\ UNCHANGED <<holder, cont, thread, dir, rem, ret, stats, lost>>

(* A task without a container ends before its claim: cancelled or failed.  *)
CancelWaiting(t) ==
    /\ task[t].st = "waiting"
    /\ task' = [task EXCEPT ![t].st = "done"]
    /\ UNCHANGED <<issue, tried, holder, workers, dir, rem, ret, stats, lost>>

(* The claim locks the Issue; the execution lock allows one owner of it.   *)
Claim(t) ==
    /\ task[t].st = "waiting" /\ holder[task[t].issue] = "none"
    /\ \A u \in TasksOf(task[t].issue) : task[u].st # "running" /\ ~task[u].ref
    /\ task' = [task EXCEPT ![t].st = "running"]
    /\ thread' = [thread EXCEPT ![t] = "claimed"]
    /\ UNCHANGED <<issue, tried, holder, cont, dir, rem, ret, stats, lost>>

(* The thread creates a stopped container, stores its id, starts it.       *)
CreateContainer(t) ==
    /\ thread[t] = "claimed"
    /\ cont' = [cont EXCEPT ![t] = "created"]
    /\ thread' = [thread EXCEPT ![t] = "created"]
    /\ UNCHANGED <<rows, tried, holder, dir, rem, ret, lost>>

(* _persist_created_container_reference: without the row the commit fails  *)
(* and the container is removed.                                           *)
StoreReference(t) ==
    /\ thread[t] = "created"
    /\ IF task[t].st = "running"
       THEN /\ task' = [task EXCEPT ![t].ref = TRUE]
            /\ thread' = [thread EXCEPT ![t] = "stored"]
            /\ UNCHANGED cont
       ELSE /\ cont' = [cont EXCEPT ![t] = "none"]
            /\ thread' = [thread EXCEPT ![t] = "off"]
            /\ UNCHANGED task
    /\ UNCHANGED <<issue, tried, holder, dir, rem, ret, stats, lost>>

(* A container that is gone, or that does not start and is removed, gives  *)
(* its reference back while the row is there; the thread then fails.       *)
StartContainer(t) ==
    /\ thread[t] = "stored"
    /\ thread' = [thread EXCEPT ![t] = "watching"]
    /\ \/ /\ cont[t] = "created"
          /\ cont' = [cont EXCEPT ![t] = "running"]
          /\ dir' = [dir EXCEPT ![task[t].issue] = TRUE]
          /\ UNCHANGED task
       \/ /\ cont' = [cont EXCEPT ![t] = "none"]
          /\ task' = [task EXCEPT ![t].ref = FALSE]
          /\ UNCHANGED dir
    /\ UNCHANGED <<issue, stats, tried, holder, rem, ret, lost>>

ContainerExits(t) ==
    /\ cont[t] = "running"
    /\ cont' = [cont EXCEPT ![t] = "exited"]
    /\ UNCHANGED <<rows, tried, holder, thread, dir, rem, ret, lost>>

(* The terminal status is committed first; then the Issue's workspace      *)
(* columns, which waits for its row; then the container goes.  A thread    *)
(* whose row is gone fails.                                                *)
Finish(t) ==
    /\ thread[t] = "watching" /\ cont[t] \in {"exited", "none"}
    /\ IF task[t].st = "running"
       THEN /\ task' = [task EXCEPT ![t].st = "done"]
            /\ thread' = [thread EXCEPT ![t] = "ended"]
       ELSE thread' = [thread EXCEPT ![t] = "off"] /\ UNCHANGED task
    /\ UNCHANGED <<issue, tried, holder, cont, dir, rem, ret, stats, lost>>

MarkUsed(t) ==
    LET i == task[t].issue
    IN /\ thread[t] = "ended"
       /\ IF task[t].st = "done"
          THEN /\ holder[i] = "none"
               /\ issue' = [issue EXCEPT ![i].recent = TRUE, ![i].wsDeleted = FALSE]
               /\ tried' = Untried(i)
               /\ thread' = [thread EXCEPT ![t] = "used"]
          ELSE /\ thread' = [thread EXCEPT ![t] = "off"]
               /\ UNCHANGED <<issue, tried>>
       /\ UNCHANGED <<holder, task, cont, dir, rem, ret, stats, lost>>

(* A container Docker does not remove keeps its reference (retained).      *)
RemoveContainer(t) ==
    /\ thread[t] = "used"
    /\ thread' = [thread EXCEPT ![t] = "off"]
    /\ \/ /\ cont' = [cont EXCEPT ![t] = "none"]
          /\ task' = [task EXCEPT ![t].ref = FALSE]
       \/ UNCHANGED <<cont, task>>
    /\ UNCHANGED <<issue, tried, holder, dir, rem, ret, stats, lost>>

(* _cleanup_retained_containers, for a terminal task without a thread.     *)
RemoveRetained(t) ==
    /\ task[t].st = "done" /\ task[t].ref /\ thread[t] = "off"
    /\ cont' = [cont EXCEPT ![t] = "none"]
    /\ task' = [task EXCEPT ![t].ref = FALSE]
    /\ UNCHANGED <<issue, tried, holder, thread, dir, rem, ret, stats, lost>>

(***************************************************************************)
(* Requests.  A request waits for the Issue row; cleanup skips a locked    *)
(* one (SKIP LOCKED), which is no step here.                               *)
(***************************************************************************)
Step(r, pc) == rem' = [rem EXCEPT ![r].pc = pc]

Release(r, i) ==
    /\ rem' = [rem EXCEPT ![r] = Idle]
    /\ holder' = [holder EXCEPT ![i] = "none"]

LockIssue(r, i) ==
    /\ rem[r].pc = "idle" /\ issue[i].there /\ holder[i] = "none"
    /\ \E k \in Kinds :
          rem' = [rem EXCEPT ![r] = [kind |-> k, pc |-> "count", issue |-> i, seen |-> {}]]
    /\ holder' = [holder EXCEPT ![i] = r]
    /\ UNCHANGED <<rows, workers, tried, dir, ret, lost>>

Busy(i) == \E t \in TasksOf(i) : task[t].st \in ActiveStatus \/ task[t].ref

(* The tasks are read by a statement of its own, after the lock.           *)
CountActive(r) ==
    LET i == rem[r].issue
        seen == {Row(t) : t \in TasksOf(i)}
    IN /\ rem[r].pc = "count"
       /\ IF Busy(i) /\ rem[r].kind # "force"
          THEN Release(r, i)
          ELSE /\ rem' = [rem EXCEPT ![r].seen = seen,
                             ![r].pc = IF rem[r].kind = "force" THEN "containers" ELSE "dir"]
               /\ UNCHANGED holder
       /\ UNCHANGED <<rows, workers, tried, dir, ret, lost>>

(* _remove_task_containers of the rows as they were read; a lookup or a    *)
(* removal that fails keeps the Issue.                                     *)
ForceContainers(r) ==
    LET found == {x.task : x \in {y \in rem[r].seen : y.st = "running" \/ y.ref}}
    IN /\ rem[r].pc = "containers"
       /\ \E failed \in SUBSET found :
             /\ cont' = [t \in Tasks |-> IF t \in found \ failed THEN "none" ELSE cont[t]]
             /\ IF failed = {} THEN Step(r, "dir") /\ UNCHANGED holder
                ELSE Release(r, rem[r].issue)
       /\ UNCHANGED <<rows, thread, tried, dir, ret, lost>>

(* remove_issue_workspace_remote: the maintenance container removes the    *)
(* directory, or fails; a failure is noted with its time.                  *)
Removed(i, forced) ==
    /\ i \notin Broken
    /\ dir' = [dir EXCEPT ![i] = FALSE]
    /\ lost' = IF forced THEN lost
               ELSE lost \cup {t \in TasksOf(i) : task[t].st \in ActiveStatus}

Attempted(i) == tried' = Append(Untried(i), i)

RemoveDirectory(r) ==
    LET i == rem[r].issue
        skip == rem[r].kind # "workspace" /\ issue[i].wsDeleted
    IN /\ rem[r].pc = "dir"
       /\ \/ /\ IF skip THEN UNCHANGED <<dir, lost>> ELSE Removed(i, rem[r].kind = "force")
             /\ Step(r, IF rem[r].kind = "workspace" THEN "mark" ELSE "archive")
             /\ UNCHANGED <<holder, tried>>
          \/ /\ ~skip
             /\ Attempted(i) /\ Release(r, i)
             /\ UNCHANGED <<dir, lost>>
       /\ UNCHANGED <<rows, workers, ret>>

MarkDeleted(r) ==
    LET i == rem[r].issue
    IN /\ rem[r].pc = "mark"
       /\ issue' = [issue EXCEPT ![i].wsDeleted = TRUE]
       /\ Attempted(i) /\ Release(r, i)
       /\ UNCHANGED <<task, stats, workers, dir, ret, lost>>

(* archive_issue_statistics_before_delete: the tasks again, FOR UPDATE and *)
(* with populate_existing.                                                 *)
Archive(r) == {Row(t) : t \in TasksOf(rem[r].issue)}

(* Archive, the rows that hang on the Issue, the Issue: one transaction.   *)
DeleteIssue(r) ==
    LET i == rem[r].issue
    IN /\ rem[r].pc = "archive"
       /\ stats' = [stats EXCEPT ![i] = Archive(r)]
       /\ task' = [t \in Tasks |-> IF t \in TasksOf(i) THEN [task[t] EXCEPT !.st = "deleted", !.ref = FALSE]
                                   ELSE task[t]]
       /\ issue' = [issue EXCEPT ![i].there = FALSE]
       /\ tried' = Untried(i)
       /\ Release(r, i)
       /\ UNCHANGED <<workers, dir, ret, lost>>

(***************************************************************************)
(* The scheduler's retention pass.  The candidate is selected again FOR    *)
(* UPDATE SKIP LOCKED: its tasks are looked at in the statement's snapshot,*)
(* and when the row changed meanwhile only the row's own columns are       *)
(* evaluated again.                                                        *)
(***************************************************************************)
Stale(i) == issue[i].there /\ ~issue[i].recent /\ ~issue[i].wsDeleted

ById(S) ==
    CHOOSE q \in [1 .. Cardinality(S) -> S] : \A k, n \in DOMAIN q : k < n => q[k] < q[n]

(* Never tried first, by id; then the longest ago.                         *)
CleanupOrder == ById({i \in Issues : \A k \in DOMAIN tried : tried[k] # i}) \o tried

Scan ==
    /\ ret.pc = "idle"
    /\ LET due == SelectSeq(CleanupOrder, LAMBDA i : Stale(i) /\ ~Busy(i))
       IN /\ due # <<>>
          /\ ret' = [pc |-> "select", batch |-> SubSeq(due, 1, IF Len(due) < Batch THEN Len(due) ELSE Batch)]
    /\ UNCHANGED <<rows, workers, tried, holder, dir, rem, lost>>

NextCandidate ==
    ret' = IF Len(ret.batch) = 1 THEN Resting ELSE [pc |-> "select", batch |-> Tail(ret.batch)]

Select ==
    LET i == Head(ret.batch)
    IN /\ ret.pc = "select"
       /\ IF Stale(i) /\ ~Busy(i) THEN ret' = [ret EXCEPT !.pc = "lock"] ELSE NextCandidate
       /\ UNCHANGED <<rows, workers, tried, holder, dir, rem, lost>>

LockCandidate ==
    LET i == Head(ret.batch)
    IN /\ ret.pc = "lock"
       /\ IF holder[i] = "none" /\ Stale(i)
          THEN holder' = [holder EXCEPT ![i] = "sched"] /\ ret' = [ret EXCEPT !.pc = "dir"]
          ELSE NextCandidate /\ UNCHANGED holder
       /\ UNCHANGED <<rows, workers, tried, dir, rem, lost>>

Retire(i) ==
    /\ ret.pc = "dir" /\ i = Head(ret.batch)
    /\ Removed(i, FALSE)
    /\ ret' = [ret EXCEPT !.pc = "mark"]
    /\ UNCHANGED <<rows, workers, rem, holder, tried>>

RetireFails(i) ==
    /\ ret.pc = "dir" /\ i = Head(ret.batch)
    /\ Attempted(i) /\ NextCandidate
    /\ holder' = [holder EXCEPT ![i] = "none"]
    /\ UNCHANGED <<rows, workers, rem, dir, lost>>

MarkRetired ==
    LET i == Head(ret.batch)
    IN /\ ret.pc = "mark"
       /\ issue' = [issue EXCEPT ![i].wsDeleted = TRUE]
       /\ holder' = [holder EXCEPT ![i] = "none"]
       /\ Attempted(i) /\ NextCandidate
       /\ UNCHANGED <<task, stats, workers, dir, rem, lost>>

(* The retention days pass, which no cleanup pass lasts.                   *)
Age(i) ==
    /\ issue[i].there /\ issue[i].recent /\ ret.pc = "idle"
    /\ issue' = [issue EXCEPT ![i].recent = FALSE]
    /\ UNCHANGED <<task, stats, workers, tried, holder, dir, rem, ret, lost>>

Worker(t) ==
    \/ CreateContainer(t) \/ StoreReference(t) \/ StartContainer(t)
    \/ Finish(t) \/ MarkUsed(t) \/ RemoveContainer(t)

Request(r) ==
    \/ CountActive(r) \/ ForceContainers(r) \/ RemoveDirectory(r)
    \/ MarkDeleted(r) \/ DeleteIssue(r)

Retention ==
    \/ Scan \/ Select \/ LockCandidate \/ MarkRetired
    \/ \E i \in Issues : Retire(i) \/ RetireFails(i)

Next ==
    \/ \E i \in Issues : Create(i) \/ Age(i)
    \/ \E t \in Tasks : CancelWaiting(t) \/ Claim(t) \/ Worker(t) \/ ContainerExits(t) \/ RemoveRetained(t)
    \/ \E r \in Requests : Request(r) \/ \E i \in Issues : LockIssue(r, i)
    \/ Retention

Spec == Init /\ [][Next]_vars

(* The scheduler keeps running, and a daemon that answers lets a removal   *)
(* through in the end.                                                     *)
FairSpec ==
    /\ Spec
    /\ WF_vars(Retention)
    /\ \A i \in Issues : SF_vars(Retire(i))

-----------------------------------------------------------------------------
Containers == {"none", "created", "running", "exited"}
Places == {"off", "claimed", "created", "stored", "watching", "ended", "used"}
Statuses == {"none", "waiting", "running", "done", "deleted"}
IssueType == [there : BOOLEAN, recent : BOOLEAN, wsDeleted : BOOLEAN]
TaskType == [issue : Issues \cup {0}, st : Statuses, ref : BOOLEAN]
RowType == [task : Tasks, st : Statuses, ref : BOOLEAN]
RequestType == [kind : Kinds \cup {"none"},
                pc : {"idle", "count", "containers", "dir", "mark", "archive"},
                issue : Issues \cup {0}, seen : SUBSET RowType]

(* Types; a row lock is held exactly by a request or a pass at work on the *)
(* Issue (with_for_update until commit or rollback).                       *)
TypeOK ==
    /\ issue \in [Issues -> IssueType] /\ task \in [Tasks -> TaskType]
    /\ holder \in [Issues -> Requests \cup {"none", "sched"}]
    /\ cont \in [Tasks -> Containers]
    /\ thread \in [Tasks -> Places]
    /\ rem \in [Requests -> RequestType]
    /\ ret = [pc |-> ret.pc, batch |-> ret.batch]
    /\ ret.pc \in {"idle", "select", "lock", "dir", "mark"}
    /\ stats \in [Issues -> SUBSET RowType]
    /\ \A r \in Requests : rem[r].pc # "idle" => rem[r].issue \in Issues
    /\ \A i \in Issues : /\ \A r \in Requests : holder[i] = r <=> rem[r].pc # "idle" /\ rem[r].issue = i
                         /\ holder[i] = "sched" <=> ret.pc \in {"dir", "mark"} /\ i = Head(ret.batch)

(* No unforced removal takes the workspace of an Issue with an active      *)
(* task, not even of a task created between the statement's snapshot and   *)
(* its row lock ("prevents a task created after the candidate scan from    *)
(* losing its workspace").                                                 *)
WorkspaceKept == lost = {}

(* An Issue deleted without force leaves only finished tasks without a     *)
(* container in the statistics (delete_issue's 409, cleanup's skip).       *)
PlainDeletionIsIdle ==
    "force" \notin Kinds =>
        \A i \in Issues : \A x \in stats[i] : x.st = "done" /\ ~x.ref /\ cont[x.task] = "none"

(* A removal that was not forced harms no task.                            *)
RemovalIsSafe == WorkspaceKept /\ PlainDeletionIsIdle

(* Tasks are created in turn and belong to an Issue.                       *)
TasksInTurn ==
    \E n \in 0 .. MaxTasks : Created = 1 .. n /\ \A t \in 1 .. n : task[t].issue \in Issues

(* Whoever is to remove a workspace without force holds the row of an Issue*)
(* without active tasks; the pass has seen it so before it locks the row,  *)
(* and a creation since then would show in the row's own columns.          *)
RemoversSeeIdle ==
    /\ \A r \in Requests : /\ rem[r].pc \in {"dir", "mark", "archive"} /\ rem[r].kind # "force"
                                => ~Busy(rem[r].issue)
                           /\ rem[r].pc = "containers" => rem[r].kind = "force"
                           /\ rem[r].pc # "idle" => rem[r].kind \in Kinds
    /\ \A i \in Issues : ret.pc \in {"dir", "mark"} \/ (ret.pc = "lock" /\ Stale(i))
                            => (i = Head(ret.batch) => ~Busy(i))

(* Where forced removals are not asked for, the row of a task, its thread  *)
(* and its container go together: a container without a reference is one   *)
(* whose thread is about to store it.                                      *)
Tended(t) ==
    /\ task[t].st \in {"none", "waiting"} => thread[t] = "off" /\ ~task[t].ref
    /\ task[t].st = "running" => thread[t] \in {"claimed", "created", "stored", "watching"}
    /\ task[t].st \in {"done", "deleted"} => thread[t] \in {"ended", "used", "off"}
    /\ task[t].st = "deleted" => ~task[t].ref
    /\ thread[t] = "stored" => task[t].ref
    /\ ~task[t].ref /\ cont[t] # "none" => thread[t] = "created"
    /\ thread[t] = "created" => cont[t] = "created"

(* What was archived is a task that is gone.                               *)
ArchivedAreGone == \A i \in Issues : \A x \in stats[i] : task[x.task].st = "deleted"

(* The inductive invariant behind RemovalIsSafe (delete_issue,             *)
(* delete_task_workspace, _cleanup_workspace_batch).                       *)
RemovalInvariant ==
    /\ TypeOK /\ TasksInTurn /\ RemoversSeeIdle /\ RemovalIsSafe
    /\ "force" \notin Kinds => ArchivedAreGone /\ \A t \in Tasks : Tended(t)

(* The statistics keep every task of a deleted Issue with the status and   *)
(* the container reference (forced_with_active_tasks) it had when its row  *)
(* was deleted, also when a thread finished it while the cleanup was       *)
(* removing containers and the workspace.                                  *)
StatisticsExact ==
    \A i \in Issues : issue[i].there /\ ~issue'[i].there =>
          stats'[i] = {Row(t) : t \in TasksOf(i)}

-----------------------------------------------------------------------------
(* What the repository says and the code does not keep (README, Deviations). *)

(* A forced cleanup leaves no running container of the tasks it deleted    *)
(* ("force cleanup ... stops running containers").                         *)
ForcedIsStopped == \A t \in Tasks : task[t].st = "deleted" => cont[t] # "running"
=============================================================================
