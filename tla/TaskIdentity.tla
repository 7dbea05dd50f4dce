----------------------------- MODULE TaskIdentity -----------------------------
(***************************************************************************)
(* The tasks of one Issue as their writers leave them: what a task will    *)
(* execute (the frozen Worker snapshot and the Runtime Bundle it is bound  *)
(* to) and which conversation it continues (its projected session          *)
(* lineage). Writers are create, retry and PATCH of the task API and the   *)
(* CI auto-repair of the collector; readers are the scheduler's claim and  *)
(* remediation and the worker that resolves and records sessions.          *)
(*                                                                         *)
(* A turn number is a position in the sequence `task'. Every writer that   *)
(* appends holds the Issue row lock from the integrity check to its        *)
(* commit, so an append is one step; what it read before the lock (the     *)
(* active-retry check of retry, the Issue row of the collector) is a step  *)
(* of its own. A namespace is the pair of Harness and endpoint that        *)
(* session_namespace_for hashes; a Bundle is named by the Harness whose    *)
(* verification evidence it froze; a session by the turn that produced it. *)
(***************************************************************************)
EXTENDS Naturals, Sequences, FiniteSets

CONSTANTS
    Harnesses,
    Endpoints,
    Calls,          \* concurrent retry requests
    Writers,        \* which of retry, provider, switch and ci are in use
    MaxTasks,       \* bound: turns of the Issue
    MaxRepairs,     \* ci_auto_repair_max_attempts
    None

(* What the constants are. *)
IdentityAssumption ==
    /\ MaxTasks \in Nat \ {0} /\ MaxRepairs \in Nat
    /\ Writers \subseteq {"retry", "provider", "switch", "ci"}
    /\ None \notin Harnesses \cup Endpoints \cup Nat

VARIABLES
    open,       \* Issue.status is not closed
    task,       \* the turns of the Issue
    lineage,    \* issue_session_lineages: generation -> row
    mirror,     \* issue_harness_sessions in the order of their ids
    retry,      \* retry requests between their checks and the Issue lock
    ci,         \* the collector between its gates and the Issue lock
    local       \* running tasks with a live worker handle in the scheduler

vars == <<open, task, lineage, mirror, retry, ci, local>>

Turns == DOMAIN task
Active == {"pending", "running"}
Namespaces == Harnesses \X Endpoints

Rows == [session : (1 .. MaxTasks) \cup {None}, ns : Namespaces,
         last : (1 .. MaxTasks) \cup {None}]

NewTask(kind, source, mode, ns, place, harness, endpoint, digest, bundle) ==
    [status |-> "pending", kind |-> kind, source |-> source, mode |-> mode,
     ns |-> ns, gen |-> place.gen, reset |-> place.reset,
     harness |-> harness, endpoint |-> endpoint, digest |-> digest,
     bundle |-> bundle, attempt |-> None, input |-> None, out |-> FALSE,
     switched |-> FALSE]

Init ==
    /\ open = TRUE
    /\ task = <<>>
    /\ lineage = [g \in 0 .. MaxTasks |-> None]
    /\ mirror = <<>>
    /\ retry = [c \in Calls |-> None]
    /\ ci = FALSE
    /\ local = {}

-------------------------------------------------------------------------------
(* Execution identity. *)

\* require_task_executable_contract without an attempt: the snapshot pins
\* exactly the Bundle the task is bound to.
Executable(t) == t.bundle # None /\ t.digest = t.bundle

\* The same check with require_attempt_for_v2, for a RUNNING task.
ExecutableAttempt(t) == Executable(t) /\ t.attempt = t.harness

\* bind_runtime_bundle of a new task: the Bundle freezes the evidence of the
\* Harness in the snapshot.
BundleFor(h) == h

-------------------------------------------------------------------------------
(* Session lineage. *)

LastTurn == IF task = <<>> THEN None ELSE task[Len(task)]

\* project_tail_lineage; None is its LineageConflict.
Project(ns, mode) ==
    IF LastTurn = None THEN [gen |-> IF mode = "fresh" THEN 1 ELSE 0, reset |-> None]
    ELSE IF mode = "fresh" THEN [gen |-> LastTurn.gen + 1, reset |-> None]
    ELSE IF ns = LastTurn.ns THEN [gen |-> LastTurn.gen, reset |-> LastTurn.reset]
    ELSE None

\* A fresh generation is its own reset point; the id exists after the flush.
OwnReset(place, fresh) ==
    IF fresh /\ place.reset = None THEN [place EXCEPT !.reset = Len(task) + 1] ELSE place

\* get_issue_latest_harness_key: the row with the highest id wins.
LatestHarness == IF mirror = <<>> THEN None ELSE mirror[Len(mirror)][1]

-------------------------------------------------------------------------------
(* Writers. *)

\* create_task_record.
CreateTask(h, e, mode) ==
    /\ open /\ Len(task) < MaxTasks
    /\ mode = "continue" => LatestHarness \in {None, h}
    /\ LET place == Project(<<h, e>>, mode) IN
         /\ place # None
         /\ task' = Append(task, NewTask("manual", None, mode, <<h, e>>,
                           OwnReset(place, mode = "fresh"), h, e, BundleFor(h), BundleFor(h)))
    /\ UNCHANGED <<open, lineage, mirror, retry, ci, local>>

ActiveRetries(s) ==
    {i \in Turns : task[i].source = s /\ task[i].status \in Active}

\* retry_task_record up to the Issue lock.
RetryCheck(c, s) ==
    /\ "retry" \in Writers /\ retry[c] = None
    /\ task[s].status \in {"failed", "cancelled"}
    /\ Executable(task[s])
    /\ ActiveRetries(s) = {}
    /\ retry' = [retry EXCEPT ![c] = s]
    /\ UNCHANGED <<open, task, lineage, mirror, ci, local>>

RetryMode(s) == IF s.mode = "fresh" /\ ~s.out THEN "fresh" ELSE "continue"

\* The place of a retry: a continue is allowed only on the tail's lineage.
RetryPlace(s, fresh) ==
    IF fresh THEN OwnReset(Project(s.ns, "fresh"), TRUE)
    ELSE IF <<s.ns, s.gen, s.reset>> = <<LastTurn.ns, LastTurn.gen, LastTurn.reset>>
         THEN Project(s.ns, "continue") ELSE None

\* retry_task_record from the Issue lock to the commit: a closed Issue or an
\* older lineage refuses; the snapshot is cloned and the Bundle reused.
RetryInsert(c, strategy) ==
    /\ retry[c] # None
    /\ retry' = [retry EXCEPT ![c] = None]
    /\ LET s == task[retry[c]]
           place == RetryPlace(s, strategy = "fresh_retry" \/ RetryMode(s) = "fresh") IN
         IF ~open \/ place = None \/ Len(task) = MaxTasks THEN UNCHANGED task
         ELSE task' = Append(task, NewTask("retry", retry[c], RetryMode(s), s.ns,
                             place, s.harness, s.endpoint, s.digest, s.bundle))
    /\ UNCHANGED <<open, lineage, mirror, ci, local>>

\* _count_ci_auto_repair_attempts: repairs since the last completed manual task.
RepairAttempts ==
    Cardinality({i \in Turns : task[i].kind = "ci" /\
        \A j \in Turns : task[j].kind = "manual" /\ task[j].status = "completed" => j < i})

\* process_ci_failure_run up to the lock: the Issue row is loaded, the gates
\* pass. The GitLab calls and the trace downloads follow.
CiGate ==
    /\ "ci" \in Writers /\ ~ci
    /\ open
    /\ RepairAttempts < MaxRepairs
    /\ \A i \in Turns : task[i].status \notin Active
    /\ ci' = TRUE
    /\ UNCHANGED <<open, task, lineage, mirror, retry, local>>

\* The rest of process_ci_failure_run. The locked re-read of the Issue keeps the
\* attributes loaded before, so the closed gate tests the value read by CiGate.
\* bind_runtime_bundle binds the task; nothing is frozen into its snapshot.
CiInsert(h, e) ==
    /\ ci
    /\ ci' = FALSE
    /\ LET place == Project(<<h, e>>, "continue") IN
         IF place = None \/ Len(task) = MaxTasks THEN UNCHANGED task
         ELSE task' = Append(task, NewTask("ci", None, "continue", <<h, e>>,
                             OwnReset(place, TRUE), h, e, None, BundleFor(h)))
    /\ UNCHANGED <<open, lineage, mirror, retry, local>>

\* update_task_record with provider_id: the endpoint is frozen anew.
ChangeProvider(i, e) ==
    /\ "provider" \in Writers
    /\ task[i].status = "pending" /\ Executable(task[i])
    /\ task' = [task EXCEPT ![i].endpoint = e]
    /\ UNCHANGED <<open, lineage, mirror, retry, ci, local>>

\* update_task_record with worker_profile_id: replace_task_worker_snapshot
\* deletes the snapshot and builds one from the new profile.
SwitchWorker(i, h) ==
    /\ "switch" \in Writers
    /\ task[i].status = "pending" /\ Executable(task[i])
    /\ task' = [task EXCEPT ![i].harness = h, ![i].digest = None, ![i].switched = TRUE]
    /\ UNCHANGED <<open, lineage, mirror, retry, ci, local>>

\* cancel_task of a task that does not run yet.
CancelTask(i) ==
    /\ task[i].status = "pending"
    /\ task' = [task EXCEPT ![i].status = "cancelled"]
    /\ UNCHANGED <<open, lineage, mirror, retry, ci, local>>

\* close_issue, and update_issue with a status.
ToggleIssue ==
    /\ open' = ~open
    /\ UNCHANGED <<task, lineage, mirror, retry, ci, local>>

-------------------------------------------------------------------------------
(* Scheduler and worker. *)

AtHead(i) == \A j \in 1 .. i - 1 : task[j].status \notin Active

\* _execute_task: the head of the queue is claimed, or fails on its contract.
Claim(i) ==
    /\ task[i].status = "pending" /\ AtHead(i)
    /\ \A j \in Turns : task[j].status # "running"
    /\ IF Executable(task[i])
       THEN task' = [task EXCEPT ![i].status = "running"] /\ local' = local \cup {i}
       ELSE task' = [task EXCEPT ![i].status = "failed"] /\ UNCHANGED local
    /\ UNCHANGED <<open, lineage, mirror, retry, ci>>

\* resolve_projected_resume_session.
Resumed(t) ==
    LET row == lineage[t.gen] IN
    IF t.mode = "continue" /\ row # None /\ row.ns = t.ns THEN row.session ELSE None

\* Its write: a fresh task clears the session of its generation.
ResolvedRow(t) ==
    LET row == lineage[t.gen] IN
    IF t.mode = "continue" THEN row
    ELSE IF row = None THEN [session |-> None, ns |-> t.ns, last |-> None]
    ELSE [row EXCEPT !.session = None]

\* create_execute_container: the durable attempt and the session decision.
Bootstrap(i) ==
    /\ task[i].status = "running" /\ i \in local /\ task[i].attempt = None
    /\ task' = [task EXCEPT ![i].attempt = task[i].harness, ![i].input = Resumed(task[i])]
    /\ lineage' = [lineage EXCEPT ![task[i].gen] = ResolvedRow(task[i])]
    /\ UNCHANGED <<open, mirror, retry, ci, local>>

\* record_projected_output_session: the row of the turn's generation.
RecordedRow(i) ==
    LET t == task[i] row == lineage[t.gen] IN
    IF row = None THEN [session |-> i, ns |-> t.ns, last |-> i]
    ELSE IF row.ns # t.ns \/ (row.last # None /\ i < row.last) THEN row
    ELSE [row EXCEPT !.session = i, !.last = i]

\* record_task_output_session: the row of the executed Harness and endpoint is
\* updated in place or inserted.
MirrorOf(t) ==
    LET ns == <<t.harness, t.endpoint>> IN
    IF \E k \in DOMAIN mirror : mirror[k] = ns THEN mirror ELSE Append(mirror, ns)

\* The run ends, with or without a session of the Harness; a run without an
\* attempt fails before its container.
Finish(i, status, out) ==
    /\ task[i].status = "running"
    /\ task[i].attempt = None => i \in local /\ status = "failed" /\ ~out
    /\ task' = [task EXCEPT ![i].status = status, ![i].out = out]
    /\ lineage' = IF out THEN [lineage EXCEPT ![task[i].gen] = RecordedRow(i)] ELSE lineage
    /\ mirror' = IF out THEN MirrorOf(task[i]) ELSE mirror
    /\ local' = local \ {i}
    /\ UNCHANGED <<open, retry, ci>>

\* The scheduler process dies and starts again: worker handles are lost, and a
\* collector loses the run it was processing.
Crash ==
    /\ local # {} \/ ci
    /\ local' = {} /\ ci' = FALSE
    /\ UNCHANGED <<open, task, lineage, mirror, retry>>

\* _remediate_legacy_contracts: the tasks it finds not executable, all in one
\* transaction. A task that its local worker still bootstraps is left alone.
Unfit(i) ==
    LET t == task[i] IN
    \/ t.status = "pending" /\ ~Executable(t)
    \/ t.status = "running" /\ ~(t.attempt = None /\ i \in local) /\ ~ExecutableAttempt(t)

Remediate ==
    /\ \E i \in Turns : Unfit(i)
    /\ task' = [i \in Turns |->
         IF Unfit(i)
         THEN [task[i] EXCEPT !.status = IF @ = "running" THEN "failed" ELSE "cancelled"]
         ELSE task[i]]
    /\ UNCHANGED <<open, lineage, mirror, retry, ci, local>>

-------------------------------------------------------------------------------

Writing ==
    \/ \E h \in Harnesses, e \in Endpoints, mode \in {"fresh", "continue"} :
         CreateTask(h, e, mode)
    \/ \E c \in Calls : \E s \in Turns : RetryCheck(c, s)
    \/ \E c \in Calls, strategy \in {"default", "fresh_retry"} : RetryInsert(c, strategy)
    \/ CiGate
    \/ \E h \in Harnesses, e \in Endpoints : CiInsert(h, e)
    \/ \E i \in Turns, e \in Endpoints : ChangeProvider(i, e)
    \/ \E i \in Turns, h \in Harnesses : SwitchWorker(i, h)
    \/ \E i \in Turns : CancelTask(i)
    \/ ToggleIssue

Execution ==
    \/ \E i \in Turns : Claim(i) \/ Bootstrap(i)
    \/ \E i \in Turns, status \in {"completed", "failed", "cancelled"}, out \in BOOLEAN :
         Finish(i, status, out)
    \/ Crash
    \/ Remediate

Next == Writing \/ Execution

Spec == Init /\ [][Next]_vars

-------------------------------------------------------------------------------

(* The rows have the columns of models.py: the input of a turn is an earlier *)
(* one, and a lineage row names a turn of its own generation.                *)
TypeOK ==
    /\ \A i \in Turns :
         /\ task[i].status \in Active \cup {"completed", "failed", "cancelled"}
         /\ task[i].ns \in Namespaces /\ task[i].gen \in 0 .. MaxTasks
         /\ task[i].reset \in (1 .. i) \cup {None}
         /\ task[i].input \in (1 .. i - 1) \cup {None}
    /\ \A g \in DOMAIN lineage :
         lineage[g] = None \/ (lineage[g] \in Rows /\
             (lineage[g].session # None => task[lineage[g].session].gen = g))

(* What runs is a whole identity: whatever the writers did to a task, the    *)
(* claim and the remediation leave no RUNNING task whose snapshot and Bundle *)
(* disagree (require_task_executable_contract).                              *)
RunsWholeIdentity == \A i \in Turns : task[i].status = "running" => Executable(task[i])

(* Create, retry and provider edits leave a task executable until it ends,   *)
(* so that neither claim nor remediation ends it for its contract.           *)
WritersFreezeIdentity ==
    \A i \in Turns :
        task[i].status \in Active /\ task[i].kind # "ci" /\ ~task[i].switched
            => Executable(task[i])

(* A continued turn resumes the newest session of its own lineage: one that  *)
(* an earlier turn of the same generation and namespace produced, with no    *)
(* turn of that generation in between that produced another                  *)
(* (resolve_projected_resume_session, record_projected_output_session).      *)
ResumesNewestTurn ==
    \A i \in Turns : task[i].input # None =>
        LET u == task[i].input IN
        /\ task[u].out /\ task[u].gen = task[i].gen /\ task[u].ns = task[i].ns
        /\ \A v \in u + 1 .. i - 1 : task[v].gen = task[i].gen => ~task[v].out

(* The lineage of an Issue never forks: generations do not decrease along    *)
(* its turns, and the turns of one generation share Harness and namespace    *)
(* (project_tail_lineage under the Issue lock).                              *)
LineageNeverForks ==
    \A i, j \in Turns : i < j =>
        /\ task[i].gen <= task[j].gen
        /\ task[i].gen = task[j].gen => task[i].ns = task[j].ns

-----------------------------------------------------------------------------
(* What the repository says and the code does not keep (README, Deviations). *)

(* Every active task has the exact canonical identity that "every executable *)
(* writer boundary requires" (harness_execution_policy.py).                  *)
ActiveTasksExecutable ==
    \A i \in Turns : task[i].status \in Active => Executable(task[i])

(* At most one retry of a task is active (the 409 of retry_task_record).     *)
OneActiveRetry == \A s \in Turns : Cardinality(ActiveRetries(s)) <= 1

(* A session is resumed only under the Harness and endpoint it was produced  *)
(* under: an endpoint edit never resumes a foreign conversation              *)
(* (harness_sessions.py).                                                    *)
ResumesOwnConversation ==
    \A i \in Turns : task[i].input # None =>
        LET u == task[task[i].input] IN
        <<u.harness, u.endpoint>> = <<task[i].harness, task[i].endpoint>>

(* The Harness a continue must use is the one of the most recent session     *)
(* (get_issue_latest_harness_key).                                           *)
LatestHarnessIsRecent ==
    \A i \in Turns :
        task[i].out /\ (\A j \in Turns : j > i => ~task[j].out)
            => LatestHarness = task[i].harness

(* No task is appended to a closed Issue, whoever appends it: the collector  *)
(* locks the Issue and checks its status once more.                          *)
ClosedIssueStaysQuiet == ~open => Len(task') = Len(task)

(* The reset point of a generation is the turn that established it, and      *)
(* generation 0 has none (IssueSessionLineage).                              *)
GenerationHasOneReset ==
    \A i, j \in Turns : task[i].gen = task[j].gen => task[i].reset = task[j].reset
===============================================================================
