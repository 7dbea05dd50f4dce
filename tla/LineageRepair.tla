---------------------------- MODULE LineageRepair ----------------------------
(***************************************************************************)
(* Turn numbers and projected session lineages of one Issue across the     *)
(* upgrade that introduced them: migration 068 backfills the rows of the   *)
(* previous release, the runtime repairs what it left NULL or what a       *)
(* writer of the previous release still inserts, and new turns continue    *)
(* from the tail.  A namespace stands for a Harness with its endpoint.     *)
(***************************************************************************)
EXTENDS Naturals, Sequences, FiniteSets

CONSTANTS Namespaces, MaxRows, StrayActive

(* What the constants are. *)
LineageAssumption ==
    /\ "legacy" \notin Namespaces /\ "none" \notin Namespaces
    /\ MaxRows \in Nat /\ StrayActive \in BOOLEAN

VARIABLES
    rows,       \* the Issue's tasks in (created_at, id) order
    lineage,    \* generation -> its issue_session_lineages row, or NoRow
    migrated,   \* migration 068 has run
    refused     \* turns whose produced session was not recorded

vars == <<rows, lineage, migrated, refused>>

Ids == 1..Len(rows)
Active == {"pending", "running"}
NoProj == [ns |-> "none", gen |-> 0, reset |-> 0, reason |-> "none"]
NoRow == [ns |-> "none", reset |-> 0, session |-> 0, seq |-> 0]

Init ==
    /\ rows = <<>>
    /\ lineage = [g \in 0..MaxRows |-> NoRow]
    /\ migrated = FALSE
    /\ refused = {}

-----------------------------------------------------------------------------
(* Deriving a projection from the row before it. *)

(* The namespace a row can prove: its snapshot's, or the placeholder of a   *)
(* terminal row without one; "none" for an active row without a snapshot.   *)
Evidence(row) ==
    IF row.snap # "none" THEN row.snap
    ELSE IF row.status \in Active THEN "none" ELSE "legacy"

(* The generation a row gets behind a tail; NoProj is an empty tail.        *)
Derive(tail, t, ns, mode) ==
    IF tail = NoProj
    THEN [ns |-> ns, gen |-> IF mode = "fresh" THEN 1 ELSE 0,
          reset |-> IF mode = "fresh" THEN t ELSE 0, reason |-> "initial"]
    ELSE IF mode = "fresh"
    THEN [ns |-> ns, gen |-> tail.gen + 1, reset |-> t, reason |-> "fresh"]
    ELSE IF ns = tail.ns
    THEN [ns |-> ns, gen |-> tail.gen, reset |-> tail.reset, reason |-> "inherited"]
    ELSE [ns |-> ns, gen |-> tail.gen + 1, reset |-> t, reason |-> "legacy_namespace_change"]

(* _has_full_projection *)
Full(row) == row.proj # NoProj /\ (row.proj.gen > 0 => row.proj.reset # 0)

(* _backfill_lineage: every row in order; a row without evidence stays NULL *)
(* and does not become the tail.                                            *)
Backfill(rs) ==
    LET pass[k \in 0..Len(rs)] ==
            IF k = 0 THEN [out |-> <<>>, tail |-> NoProj]
            ELSE LET before == pass[k - 1]
                     p == IF Evidence(rs[k]) = "none" THEN NoProj
                          ELSE Derive(before.tail, k, Evidence(rs[k]), rs[k].mode)
                 IN  [out |-> Append(before.out, [rs[k] EXCEPT !.proj = p, !.seq = k]),
                      tail |-> IF p = NoProj THEN before.tail ELSE p]
    IN  pass[Len(rs)].out

(* ensure_issue_order_integrity_locked with repair_nulls: ranks for missing *)
(* numbers, then _repair_lineage_projections. Rows with a projection keep   *)
(* it. Blocked by an active row without evidence, or by an active continue  *)
(* that crosses namespaces.                                                 *)
Repair(rs) ==
    LET pass[k \in 0..Len(rs)] ==
            IF k = 0 THEN [out |-> <<>>, tail |-> NoProj, blocked |-> FALSE]
            ELSE LET before == pass[k - 1]
                     p == IF Full(rs[k]) THEN rs[k].proj
                          ELSE IF Evidence(rs[k]) = "none" THEN NoProj
                          ELSE Derive(before.tail, k, Evidence(rs[k]), rs[k].mode)
                     crosses == /\ ~Full(rs[k]) /\ rs[k].status \in Active
                                /\ p.reason = "legacy_namespace_change"
                 IN  [out |-> Append(before.out, [rs[k] EXCEPT !.proj = p, !.seq = k]),
                      tail |-> IF p = NoProj THEN before.tail ELSE p,
                      blocked |-> before.blocked \/ p = NoProj \/ crosses]
    IN  pass[Len(rs)]

(* The first pass: a number that is not the rank fails the Issue closed.    *)
Mismatch(rs) == \E t \in 1..Len(rs) : rs[t].seq \notin {0, t}

(* _backfill_session_lineages: one row for each generation, with the        *)
(* session of its latest terminal producer.                                 *)
GenRow(rs, g) ==
    LET turns == {t \in 1..Len(rs) : rs[t].proj # NoProj /\ rs[t].proj.gen = g}
        last == CHOOSE t \in turns : \A u \in turns : u <= t
        made == {t \in turns : rs[t].status \notin Active /\ rs[t].out}
        best == CHOOSE t \in made : \A u \in made : u <= t
    IN  IF turns = {} THEN NoRow
        ELSE [ns |-> rs[last].proj.ns, reset |-> rs[last].proj.reset,
              session |-> IF made = {} THEN 0 ELSE best, seq |-> IF made = {} THEN 0 ELSE best]

(* project_tail_lineage for a new turn; NoProj is its LineageConflict. A    *)
(* placeholder tail counts as no tail.                                      *)
Project(tail, t, ns, mode) ==
    IF tail # NoProj /\ tail.ns # "legacy" /\ mode = "continue" /\ ns # tail.ns THEN NoProj
    ELSE Derive(IF tail.ns = "legacy" THEN NoProj ELSE tail, t, ns, mode)

-----------------------------------------------------------------------------
(* Steps. *)

(* The previous release inserts a task: without a Worker snapshot only      *)
(* before any task had one, and then terminal unless StrayActive.           *)
OldInsert(ns, mode, status) ==
    /\ Len(rows) < MaxRows
    /\ ns = "none" => /\ ~migrated /\ mode = "continue"
                      /\ \A t \in Ids : rows[t].snap = "none"
                      /\ StrayActive \/ status = "done"
    /\ rows' = Append(rows, [snap |-> ns, mode |-> mode, status |-> status, seq |-> 0,
                             proj |-> NoProj, out |-> FALSE])
    /\ UNCHANGED <<lineage, migrated, refused>>

Migrate ==
    /\ ~migrated
    /\ migrated' = TRUE
    /\ rows' = Backfill(rows)
    /\ lineage' = [g \in 0..MaxRows |-> GenRow(Backfill(rows), g)]
    /\ UNCHANGED refused

(* create_task_record: repair under the Issue lock, project, append.        *)
Create(ns, mode) ==
    LET r == Repair(rows)
        p == Project(r.tail, Len(rows) + 1, ns, mode)
    IN  /\ migrated /\ Len(rows) < MaxRows
        /\ ~Mismatch(rows) /\ ~r.blocked /\ p # NoProj
        /\ rows' = Append(r.out, [snap |-> ns, mode |-> mode, status |-> "pending",
                                  seq |-> Len(rows) + 1, proj |-> p, out |-> FALSE])
        /\ UNCHANGED <<lineage, migrated, refused>>

(* _repair_active_null_sequence_issues; a blocked repair rolls back.        *)
SchedulerRepair ==
    /\ migrated
    /\ \E t \in Ids : rows[t].status \in Active /\ rows[t].seq = 0
    /\ ~Mismatch(rows) /\ ~Repair(rows).blocked
    /\ rows' = Repair(rows).out
    /\ UNCHANGED <<lineage, migrated, refused>>

(* The head is claimed: every earlier task is terminal and the order holds. *)
Start(t) ==
    /\ rows[t].status = "pending" /\ \A u \in 1..(t - 1) : rows[u].status \notin Active
    /\ migrated => rows[t].seq = t /\ rows[t].proj # NoProj
    /\ rows' = [rows EXCEPT ![t].status = "running"]
    /\ lineage' = IF migrated /\ rows[t].mode = "fresh"
                  THEN [lineage EXCEPT ![rows[t].proj.gen] =
                           IF @ = NoRow THEN [NoRow EXCEPT !.ns = rows[t].proj.ns,
                                                           !.reset = rows[t].proj.reset]
                           ELSE [@ EXCEPT !.session = 0]]
                  ELSE lineage
    /\ UNCHANGED <<migrated, refused>>

(* record_projected_output_session of a completed turn: a row of another    *)
(* namespace refuses, and the refusal is only logged.                       *)
Produce(t) ==
    LET p == rows[t].proj
        row == lineage[p.gen]
    IN  /\ rows[t].status = "running"
        /\ rows' = [rows EXCEPT ![t].status = "done", ![t].out = TRUE]
        /\ IF ~migrated \/ p = NoProj THEN UNCHANGED <<lineage, refused>>
           ELSE IF row # NoRow /\ (row.ns # p.ns \/ rows[t].seq < row.seq)
           THEN refused' = refused \cup {t} /\ UNCHANGED lineage
           ELSE /\ lineage' = [lineage EXCEPT ![p.gen] =
                       [ns |-> p.ns, reset |-> IF row = NoRow THEN p.reset ELSE row.reset,
                        session |-> t, seq |-> rows[t].seq]]
                /\ UNCHANGED refused
        /\ UNCHANGED migrated

(* Cancellation needs no valid order.                                       *)
Cancel(t) ==
    /\ rows[t].status \in Active
    /\ rows' = [rows EXCEPT ![t].status = "done"]
    /\ UNCHANGED <<lineage, migrated, refused>>

Next ==
    \/ Migrate \/ SchedulerRepair
    \/ \E ns \in Namespaces \cup {"none"}, mode \in {"continue", "fresh"},
          status \in {"pending", "done"} : OldInsert(ns, mode, status)
    \/ \E ns \in Namespaces, mode \in {"continue", "fresh"} : Create(ns, mode)
    \/ \E t \in Ids : Start(t) \/ Produce(t) \/ Cancel(t)

Spec == Init /\ [][Next]_vars

-----------------------------------------------------------------------------
(* Properties. *)

(* Types of the task rows and of the lineage: a projected reset point is   *)
(* never later than its task (columns of Task, IssueSessionLineage).       *)
TypeOK ==
    /\ \A t \in Ids : /\ rows[t].snap \in Namespaces \cup {"none"}
                      /\ rows[t].status \in Active \cup {"done"}
                      /\ rows[t].proj.ns \in Namespaces \cup {"none", "legacy"}
                      /\ rows[t].proj.gen \in 0..MaxRows /\ rows[t].proj.reset \in 0..t
    /\ \A g \in 0..MaxRows : lineage[g].session \in 0..Len(rows)
    /\ refused \subseteq Ids

(* issue_task_order.py: a stored issue_sequence is always the rank of its    *)
(* task, whoever inserted rows in between, so the Issue never fails closed   *)
(* with sequence_mismatch.                                                   *)
SequenceIsRank == ~Mismatch(rows)

(* _repair_lineage_projections "mirrors migration 068": on rows of the       *)
(* previous release the runtime repair, when it does not block the Issue,    *)
(* writes exactly what the migration writes.                                 *)
RepairMirrorsMigration ==
    ~migrated /\ ~Repair(rows).blocked => Repair(rows).out = Backfill(rows)

(* Two turns of the Issue that share a generation share namespace and reset  *)
(* point, however repairs, old writers and new turns interleave.             *)
GenerationHasOneLineage ==
    \A t, u \in Ids : /\ rows[t].proj # NoProj /\ rows[u].proj # NoProj
                      /\ rows[t].proj.gen = rows[u].proj.gen
                      /\ rows[t].proj.ns # "legacy" /\ rows[u].proj.ns # "legacy"
                      => /\ rows[t].proj.ns = rows[u].proj.ns
                         /\ rows[t].proj.reset = rows[u].proj.reset

(* A session kept for a generation was produced by a turn of that lineage's  *)
(* own namespace: no turn resumes a foreign conversation.                    *)
LineageOwnsSession ==
    \A g \in 0..MaxRows : lineage[g].session # 0 =>
        rows[lineage[g].session].proj.ns = lineage[g].ns

-----------------------------------------------------------------------------
(* What the repository says and the code does not keep (README, Deviations). *)

(* project_tail_lineage: a turn on a placeholder tail establishes the real   *)
(* lineage, so the session it produces is recorded for the turns after it.   *)
NoSessionLost == refused = {}
=============================================================================
