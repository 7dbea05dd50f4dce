-------------------------- MODULE RuntimeReadiness --------------------------
(***************************************************************************)
(* Whether the Worker Kit of one Docker host may be used: the readiness    *)
(* rows of core/worker_runtime_readiness.py, written by concurrent checks  *)
(* through a generation/CAS protocol, and the three places that read them: *)
(* task creation, promotion and the gate the scheduler runs before a task. *)
(*                                                                         *)
(* One Kit locator is modelled.  It has one row per verification level     *)
(* ("scope"): v1 checks the manifest, v2 the whole content.  A row with    *)
(* gen = 0 does not exist.  Checks run in the API (an administrator's      *)
(* Verify) and, under the name GateCheck, in the scheduler.                *)
(***************************************************************************)
EXTENDS Naturals, FiniteSets

CONSTANTS
    Tasks,       \* tasks whose snapshot names this locator
    V1Tasks,     \* those whose frozen contract is not harness/v2
    Admins,      \* concurrent Verify requests
    GateCheck,   \* the check the scheduler's gate runs
    NoTask,
    KitStates,   \* states the directory on the host goes through
    DeclaresV2,  \* the profile's harness_runtimes names the v2 contract
    MaxKits,     \* bound on the different states it goes through
    MaxStarts    \* bound on the number of checks started

(* What the constants are. *)
ReadinessAssumption ==
    /\ V1Tasks \subseteq Tasks
    /\ NoTask \notin Tasks /\ GateCheck \notin Admins
    /\ KitStates \subseteq {"ok", "bare", "v1only", "gone", "broken"}
    /\ DeclaresV2 \in BOOLEAN /\ MaxStarts \in Nat /\ MaxKits \in Nat
ASSUME ConstantsAssumption == ReadinessAssumption

VARIABLES
    kit,    \* the directory on the Docker host
    row,    \* worker_runtime_readiness, by scope
    check,  \* the checks in flight
    task,   \* task status
    gate,   \* the task whose gate waits for its own probe
    starts, \* checks started so far; a check is named by its number
    why,    \* the conclusion that parked or failed a task
    seen    \* history: the states the Kit has been in

vars == <<kit, row, check, task, gate, starts, why, seen>>

Scopes == {"v1", "v2"}
Checks == Admins \cup {GateCheck}
Scope(t) == IF t \in V1Tasks THEN "v1" ELSE "v2"

NoRow == [gen |-> 0, status |-> "unknown", code |-> "none", has |-> FALSE,
          by |-> 0, born |-> 0]
Idle == [phase |-> "idle", scope |-> "v1", gen |-> 0, start |-> 0,
         result |-> NoRow, committed |-> FALSE]
NoCause == [code |-> "none", own |-> TRUE]

-----------------------------------------------------------------------------
(* Mutants of the definitions below. *)

CurrentOrNewer(r, c) == r.gen >= c.gen
WaitsNever(r) == r.status = "ready"
-----------------------------------------------------------------------------
\* runtime_readiness_fingerprint: the two levels have rows of their own.
RowKey(s) == s

Row(s) == row[RowKey(s)]

Unavailable(r) == r.status = "unavailable"

Missing(r) == r.status = "unavailable" /\ r.code = "not_found"

\* What probe_worker_kit concludes from the directory it mounts.  A Kit without
\* a content inventory is ready at v1 and invalid at v2.
Conclusion(k, s) ==
    [status |-> IF k \in {"ok", "bare"} \/ (k = "v1only" /\ s = "v1")
                THEN "ready" ELSE "unavailable",
     code   |-> IF k = "gone" THEN "not_found"
                ELSE IF k = "broken" \/ (k = "v1only" /\ s = "v2")
                     THEN "invalid" ELSE "none",
     has    |-> k = "ok"]

Codes == {"none", "not_found", "invalid"}
RowType == [gen : Nat, status : {"unknown", "ready", "unavailable"}, code : Codes,
            has : BOOLEAN, by : Nat, born : Nat]
Results == {NoRow} \cup [status : {"ready", "unavailable"}, code : Codes, has : BOOLEAN]
CheckType == [phase : {"idle", "probing", "probed", "transient", "written"}, scope : Scopes,
              gen : Nat, start : Nat, result : Results, committed : BOOLEAN]

(* Types; a row has a status other than unknown exactly when a check has   *)
(* written it (WorkerRuntimeReadiness columns).                            *)
TypeOK ==
    /\ kit \in KitStates /\ kit \in seen /\ seen \subseteq KitStates
    /\ starts \in 0..MaxStarts
    /\ gate \in Tasks \cup {NoTask}
    /\ task \in [Tasks -> {"new", "PENDING", "QUEUED", "CLAIMED", "FAILED"}]
    /\ why \in [Tasks -> [code : Codes \cup {"no_harness"}, own : BOOLEAN]]
    /\ row \in [Scopes -> RowType] /\ check \in [Checks -> CheckType]
    /\ \A s \in Scopes :
          /\ row[s].gen \in 0..starts /\ row[s].by \in 0..starts /\ row[s].born \in 0..starts
          /\ row[s].status = "unknown" <=> row[s].by = 0
          /\ row[s].gen = 0 => row[s] = NoRow
          /\ row[s].born = 0 => row[s].gen = 0
    /\ \A c \in Checks :
          /\ check[c].gen \in 0..check[c].start /\ check[c].start \in 0..starts
          /\ check[c].phase # "idle" => check[c].gen > 0 /\ check[c].start > 0

Init ==
    /\ kit \in KitStates
    /\ seen = {kit}
    /\ row = [s \in Scopes |-> NoRow]
    /\ check = [c \in Checks |-> Idle]
    /\ task = [t \in Tasks |-> IF t \in V1Tasks THEN "QUEUED" ELSE "new"]
    /\ gate = NoTask
    /\ starts = 0
    /\ why = [t \in Tasks |-> NoCause]

-----------------------------------------------------------------------------
(* Checks: begin, remote probe, then finish or discard. *)

\* An administrator installs, removes or damages the directory.
KitChanges ==
    /\ \E k \in KitStates \ {kit} : kit' = k /\ seen' = seen \cup {k}
    /\ Cardinality(seen') <= MaxKits
    /\ UNCHANGED <<row, check, task, gate, starts, why>>

\* begin_runtime_check and the commit after it.  The last conclusion stays.
BeginRuntimeCheck(c, s) ==
    LET r == Row(s)
    IN  /\ check[c].phase = "idle"
        /\ starts < MaxStarts
        /\ starts' = starts + 1
        /\ row' = [row EXCEPT ![RowKey(s)] =
                     [r EXCEPT !.gen = r.gen + 1,
                               !.born = IF r.born = 0 THEN starts + 1 ELSE r.born]]
        /\ check' = [check EXCEPT ![c] =
                       [Idle EXCEPT !.phase = "probing", !.scope = s,
                                    !.gen = r.gen + 1, !.start = starts + 1]]

\* verify_task_worker_runtime and layer 1 of verify_worker_profile_runtime.
VerifyBegins(c, s) ==
    /\ gate # NoTask /\ check[GateCheck].phase = "idle" => starts + 1 < MaxStarts
    /\ BeginRuntimeCheck(c, s)
    /\ UNCHANGED <<kit, task, gate, why, seen>>

\* probe_worker_kit reads the mounted directory.
ProbeConcludes(c) ==
    /\ check[c].phase = "probing"
    /\ check' = [check EXCEPT ![c].phase = "probed",
                              ![c].result = Conclusion(kit, check[c].scope)]
    /\ UNCHANGED <<kit, row, task, gate, starts, why, seen>>

\* RuntimeProbeTransientError: the daemon or the image is not there.
ProbeIsTransient(c) ==
    /\ check[c].phase = "probing"
    /\ check' = [check EXCEPT ![c].phase = "transient"]
    /\ UNCHANGED <<kit, row, task, gate, starts, why, seen>>

\* The UPDATE of finish_runtime_check matches this row.
Current(r, c) == r.gen = c.gen

\* finish_runtime_check and the commit after it.
FinishRuntimeCheck(c) ==
    LET r == Row(check[c].scope)
        n == check[c].result
        ok == Current(r, check[c])
    IN  /\ check[c].phase = "probed"
        /\ row' = IF ok
                  THEN [row EXCEPT ![RowKey(check[c].scope)] =
                          [r EXCEPT !.status = n.status, !.code = n.code,
                                    !.has = n.has, !.by = check[c].start]]
                  ELSE row
        /\ check' = [check EXCEPT ![c].phase = "written", ![c].committed = ok]
        /\ UNCHANGED <<kit, task, gate, starts, why, seen>>

\* The row carries no conclusion and no newer check has begun.
Discardable(r, c) == r.gen = c.gen /\ r.status = "unknown" /\ r.by = 0

\* _discard_incomplete_runtime_check; the gate leaves its task QUEUED.
DiscardIncompleteCheck(c) ==
    /\ check[c].phase = "transient"
    /\ row' = IF Discardable(Row(check[c].scope), check[c])
              THEN [row EXCEPT ![RowKey(check[c].scope)] = NoRow]
              ELSE row
    /\ check' = [check EXCEPT ![c] = Idle]
    /\ gate' = IF c = GateCheck THEN NoTask ELSE gate
    /\ UNCHANGED <<kit, task, starts, why, seen>>

\* The Verify request answers with the row it re-reads.
VerifyAnswers(c) ==
    /\ check[c].phase = "written"
    /\ check' = [check EXCEPT ![c] = Idle]
    /\ UNCHANGED <<kit, row, task, gate, starts, why, seen>>

-----------------------------------------------------------------------------
(* Readers: task creation, promotion, the scheduler's gate. *)

\* profile_requires_content_inventory: the level the creation gate reads.
ProfileScope == IF DeclaresV2 THEN "v2" ELSE "v1"

\* A known unavailable runtime other than a missing Kit answers 409.
Refuses(r) == r.status = "unavailable" /\ r.code # "not_found"

\* _create_task's readiness gate; a new task always carries the v2 contract.
CreateTask(t) ==
    /\ task[t] = "new"
    /\ ~ Refuses(Row(ProfileScope))
    /\ Row(ProfileScope).status = "ready" => Row(ProfileScope).has
    /\ task' = [task EXCEPT ![t] = "PENDING"]
    /\ UNCHANGED <<kit, row, check, gate, starts, why, seen>>

\* A known missing Kit keeps the task PENDING until a Verify changes the row.
Waits(r) == Missing(r)

PromoteDueHead(t) ==
    /\ task[t] = "PENDING"
    /\ ~ Waits(Row(Scope(t)))
    /\ task' = [task EXCEPT ![t] = "QUEUED"]
    /\ UNCHANGED <<kit, row, check, gate, starts, why, seen>>

\* _park_tasks_for_unavailable_runtime: every QUEUED task of locator and scope.
Park(s, own) ==
    LET parked == {t \in Tasks : task[t] = "QUEUED" /\ Scope(t) = s}
    IN  /\ task' = [t \in Tasks |-> IF t \in parked THEN "PENDING" ELSE task[t]]
        /\ why' = [t \in Tasks |-> IF t \in parked
                                   THEN [code |-> "not_found", own |-> own]
                                   ELSE why[t]]

\* _fail_task_for_runtime_check and the failure of _harness_availability_gate.
Fail(t, code, own) ==
    /\ task' = [task EXCEPT ![t] = "FAILED"]
    /\ why' = [why EXCEPT ![t] = [code |-> code, own |-> own]]

\* The gate's verdict on a conclusion; own: no other check superseded it.
Verdict(t, r, own) ==
    \/ /\ Missing(r)
       /\ Park(Scope(t), own)
    \/ /\ Unavailable(r) /\ ~ Missing(r)
       /\ Fail(t, r.code, own)
    \/ /\ r.status = "ready" /\ Scope(t) = "v2" /\ ~ r.has
       /\ Fail(t, "no_harness", own)
    \/ /\ ~ Unavailable(r) /\ (r.status = "ready" \/ Scope(t) = "v2")
       /\ r.status = "ready" /\ Scope(t) = "v2" => r.has
       /\ task' = [task EXCEPT ![t] = "CLAIMED"]
       /\ UNCHANGED why

\* _apply_runtime_readiness_gate when the stored row decides.
GateDecides(t) ==
    /\ gate = NoTask /\ task[t] = "QUEUED"
    /\ Verdict(t, Row(Scope(t)), TRUE)
    /\ UNCHANGED <<kit, row, check, gate, starts, seen>>

\* A v1 task of unknown readiness is probed.
GateProbes(t) ==
    /\ gate = NoTask /\ task[t] = "QUEUED"
    /\ Scope(t) = "v1" /\ Row("v1").status = "unknown"
    /\ starts < MaxStarts
    /\ gate' = t
    /\ UNCHANGED <<kit, row, check, task, starts, why, seen>>

GateBegins ==
    /\ gate # NoTask
    /\ BeginRuntimeCheck(GateCheck, Scope(gate))
    /\ UNCHANGED <<kit, task, gate, why, seen>>

\* run_deterministic_kit_probe returns the row it re-reads; unknown decides
\* nothing.
GateAnswers ==
    LET r == Row(Scope(gate))
    IN  /\ gate # NoTask /\ check[GateCheck].phase = "written"
        /\ check' = [check EXCEPT ![GateCheck] = Idle]
        /\ gate' = NoTask
        /\ \/ r.status = "unknown" /\ UNCHANGED <<task, why>>
           \/ r.status # "unknown" /\ Verdict(gate, r, check[GateCheck].committed)
        /\ UNCHANGED <<kit, row, starts, seen>>

CheckStep(c) ==
    ProbeConcludes(c) \/ ProbeIsTransient(c) \/ FinishRuntimeCheck(c)
       \/ DiscardIncompleteCheck(c)

Next ==
    \/ KitChanges
    \/ \E c \in Admins, s \in Scopes : VerifyBegins(c, s)
    \/ \E c \in Checks : CheckStep(c)
    \/ \E c \in Admins : VerifyAnswers(c)
    \/ \E t \in Tasks : CreateTask(t) \/ PromoteDueHead(t) \/ GateDecides(t) \/ GateProbes(t)
    \/ GateBegins
    \/ GateAnswers

\* The scheduler ticks for ever and a probe ends: Docker calls time out.
Fairness ==
    /\ \A c \in Checks : WF_vars(CheckStep(c))
    /\ \A t \in Tasks : WF_vars(PromoteDueHead(t)) /\ SF_vars(GateDecides(t))
    /\ WF_vars(GateBegins) /\ WF_vars(GateAnswers)

Spec == Init /\ [][Next]_vars /\ Fairness

-----------------------------------------------------------------------------
(* Properties. *)

\* A stored conclusion is never lost: neither a check in flight nor one that
\* ends in a transient Docker failure erases what an earlier check found
\* (begin_runtime_check, _discard_incomplete_runtime_check).
ConclusionsKept ==
    \A s \in Scopes : row[s].by > 0 => row'[s].by > 0

\* Among the checks begun in a row's lifetime only the one begun last writes
\* its result: the CAS of finish_runtime_check drops every other one.
SupersededIsDropped ==
    \A s \in Scopes :
          row'[s].by # row[s].by /\ row'[s].by >= row[s].born
             => \A c \in Checks : check[c].scope = s => check[c].start <= row'[s].by

\* A task is parked or failed only if the Kit was at some time in a state that
\* its own level calls unusable; a Kit without a content inventory never
\* stops a v1 task (runtime_readiness_fingerprint, _park_other_queued_tasks).
NoBlameWithoutCause ==
    \A t \in Tasks : why[t] # NoCause =>
       seen \cap (IF t \in V1Tasks THEN {"gone", "broken"}
                  ELSE {"gone", "broken", "v1only", "bare"}) # {}

\* A missing Kit parks a task and never fails it, whichever path finds it: the
\* stored row, the gate's own probe or a concurrent check
\* (_apply_runtime_readiness_gate).
MissingKitOnlyParks ==
    \A t \in Tasks : task[t] = "FAILED" => why[t].code \notin {"none", "not_found"}

\* What stops a task has a cause at its own level, and a missing Kit is never a
\* cause to fail it.
BlameHasCause == NoBlameWithoutCause /\ MissingKitOnlyParks

\* No task is created while the runtime it will use is known to be unusable
\* (the readiness gate of _create_task).
CreationIsGated ==
    \A t \in Tasks : DeclaresV2 /\ task[t] = "new" /\ task'[t] # "new"
          => ~ (row["v2"].status = "unavailable" /\ row["v2"].code # "not_found")

\* What the readiness rows promise: no blame without a cause, and no check that
\* erases a conclusion or overwrites the one begun after it
\* (core/worker_runtime_readiness.py, _apply_runtime_readiness_gate).
ReadinessHolds ==
    []BlameHasCause /\ [][ConclusionsKept /\ SupersededIsDropped /\ CreationIsGated]_vars

\* A conclusion r of level s is what the Kit looked like at some time.
Witnessed(r, s) ==
    \E k \in seen : /\ r.status = Conclusion(k, s).status /\ r.code = Conclusion(k, s).code
                    /\ r.has = Conclusion(k, s).has

\* Of the checks begun in the lifetime of their row none has a later generation
\* than the row, and the one of the row's generation is the last one begun.
LastBegunIsCurrent(c) ==
    LET k == check[c]
        r == row[k.scope]
    IN  k.start > 0 /\ r.gen > 0 /\ k.start >= r.born =>
           /\ k.gen <= r.gen
           /\ k.gen = r.gen => \A d \in Checks : check[d].scope = k.scope => check[d].start <= k.start

\* The inductive invariant behind ReadinessHolds (begin_runtime_check,
\* finish_runtime_check, _discard_incomplete_runtime_check).
ReadinessInvariant ==
    /\ TypeOK /\ BlameHasCause
    /\ gate # NoTask => task[gate] # "new"
    /\ \A s \in Scopes : row[s].status # "unknown" => Witnessed(row[s], s)
    /\ \A c \in Checks : /\ check[c].phase = "probed" => Witnessed(check[c].result, check[c].scope)
                         /\ LastBegunIsCurrent(c)

-----------------------------------------------------------------------------
(* What the repository says and the code does not keep (README, Deviations). *)

\* A result never replaces the result of a check that started later: the
\* promise of the module's docstring, over the deletion of rows too.
LaterStartedWins ==
    \A s \in Scopes :
          row'[s].by # row[s].by /\ row'[s].by > 0 => row'[s].by > row[s].by

\* A task that is failed after a probe is failed by that probe's own committed
\* conclusion (docstring of RuntimeProbeOutcome).
FailsOnOwnConclusion ==
    \A t \in Tasks : task[t] = "FAILED" => why[t].own
=============================================================================
