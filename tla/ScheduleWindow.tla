--------------------------- MODULE ScheduleWindow ---------------------------
(***************************************************************************)
(* Reservations: the schedule window of an Issue queue, the capacity of an *)
(* hour slot, and the queue context that responses report.  Creation and   *)
(* rescheduling lock the Issue row, then its task rows, then the slot; the *)
(* scheduler promotes due heads.  Times are half hours, 0 is "no time".    *)
(* A legacy writer may insert rows without a sequence number (0).          *)
(***************************************************************************)
EXTENDS Naturals, Sequences, FiniteSets

CONSTANTS Issues, Requests, NoReq, MaxTasks, MaxTime, SlotMax, MaxMoves, Legacy, Kits

(* What the constants are. *)
ScheduleAssumption ==
    /\ NoReq \notin Requests
    /\ MaxTasks \in Nat /\ MaxTime \in Nat /\ SlotMax \in Nat \ {0}
    /\ MaxMoves \in Nat /\ Legacy \in BOOLEAN
    /\ "ok" \in Kits /\ Kits \subseteq {"ok", "missing", "broken"}
ASSUME ConstantsAssumption == ScheduleAssumption

VARIABLES
    tasks,      \* the tasks table in creation order
    owner,      \* issue -> task holding its execution lock, 0 for none
    kit,        \* readiness of the workers' Kit: "ok", "missing" or "broken"
    now,        \* the clock, in half hours
    rowLock,    \* issue -> request whose transaction holds its rows
    slotLock,   \* slot -> request holding its advisory lock
    req,        \* request -> its progress
    moves,      \* reschedules started, at most MaxMoves
    revived     \* tasks a reschedule put back after they had left the queue

vars == <<tasks, owner, kit, now, rowLock, slotLock, req, moves, revived>>

Times == 1..MaxTime
Slot(at) == at \div 2
Slots == {Slot(at) : at \in Times}
Active == {"pending", "queued", "running"}
Ids == 1..Len(tasks)
ActiveOf(i) == {t \in Ids : tasks[t].issue = i /\ tasks[t].status \in Active}
Idle == [pc |-> "idle", issue |-> NoReq, task |-> 0, at |-> 0, seen |-> "none", seenAt |-> 0]

Init ==
    /\ tasks = <<>>
    /\ owner = [i \in Issues |-> 0]
    /\ kit = "ok" /\ now = 0
    /\ rowLock = [i \in Issues |-> NoReq]
    /\ slotLock = [s \in Slots |-> NoReq]
    /\ req = [r \in Requests |-> Idle]
    /\ moves = 0 /\ revived = {}

-----------------------------------------------------------------------------
(* The schedule window. *)

SetMax(S) == CHOOSE x \in S : \A y \in S : y <= x
SetMin(S) == CHOOSE x \in S : \A y \in S : x <= y

ActiveNull(i) == \E t \in ActiveOf(i) : tasks[t].seq = 0
Rank(t) == Cardinality({u \in 1..t : tasks[u].issue = tasks[t].issue})

(* compute_schedule_window for an append (t = 0) or for task t: the floor and *)
(* the ceiling, 0 where there is none. A task that is not active any more has *)
(* no sequence to compare with, which turns its window into an append's.      *)
WindowFloorOnly(i, t) ==
    LET below == {u \in ActiveOf(i) \ {t} : tasks[u].at # 0 /\ (t \in ActiveOf(i) => u < t)}
    IN  [min |-> IF below = {} THEN 0 ELSE SetMax({tasks[u].at : u \in below}), max |-> 0]
Window(i, t) ==
    LET active == ActiveOf(i)
        booked == {u \in active \ {t} : tasks[u].at # 0}
        below == {u \in booked : t \in active => u < t}
        above == {u \in booked : t \in active /\ u > t}
    IN  [min |-> IF below = {} THEN 0 ELSE SetMax({tasks[u].at : u \in below}),
         max |-> IF above = {} THEN 0 ELSE SetMin({tasks[u].at : u \in above})]

(* validate_schedule_time_locked: both ends are inclusive. *)
Within(w, at) ==
    /\ w.min = 0 \/ w.max = 0 \/ w.min <= w.max
    /\ at >= w.min
    /\ w.max = 0 \/ at <= w.max
InWindow(i, t, at) == Within(Window(i, t), at)

(* check_slot_capacity: active tasks booked in the hour, t left out. *)
SlotCount(at, t) ==
    Cardinality({u \in Ids \ {t} : /\ tasks[u].status \in Active
                                   /\ tasks[u].at # 0
                                   /\ Slot(tasks[u].at) = Slot(at)})

-----------------------------------------------------------------------------
(* The queue context of responses. *)

HeadOf(i) == SetMin({t \in ActiveOf(i) : tasks[t].seq # 0})

NoContext == [position |-> 0, blocker |-> 0, reason |-> "none"]

(* compute_queue_context for one task. *)
QueueContext(t) ==
    LET i == tasks[t].issue
        cleanup == owner[i] # 0 /\ tasks[owner[i]].status \notin Active
    IN  IF tasks[t].status \notin Active THEN NoContext
        ELSE IF ActiveNull(i) THEN [NoContext EXCEPT !.reason = "repair"]
        ELSE IF t # HeadOf(i)
             THEN [position |-> Cardinality({u \in ActiveOf(i) : u <= t}),
                   blocker |-> HeadOf(i), reason |-> "predecessor"]
             ELSE [position |-> 1, blocker |-> 0,
                   reason |-> IF cleanup THEN "workspace_cleanup"
                              ELSE IF kit # "ok" THEN "runtime"
                              ELSE IF tasks[t].at > now THEN "scheduled" ELSE "none"]

(* execute_task answers "after its predecessors" or "immediate". *)
ExecuteReply(t) == IF QueueContext(t).position > 1 THEN "waits" ELSE "immediate"

-----------------------------------------------------------------------------
(* Requests. *)

Free(i) == rowLock[i] = NoReq

(* create_task_record with a time locks the Issue and its task rows, repairs *)
(* missing sequence numbers and checks the window.                           *)
CreateLock(r, i, at) ==
    /\ req[r] = Idle /\ Len(tasks) < MaxTasks /\ at > now /\ Free(i)
    /\ IF InWindow(i, 0, at)
       THEN /\ rowLock' = [rowLock EXCEPT ![i] = r]
            /\ req' = [req EXCEPT ![r] = [Idle EXCEPT !.pc = "slot", !.issue = i, !.at = at]]
       ELSE UNCHANGED <<rowLock, req>>
    /\ UNCHANGED <<tasks, owner, kit, now, slotLock, moves, revived>>

Repaired(i) == [t \in Ids |-> IF tasks[t].issue = i THEN [tasks[t] EXCEPT !.seq = Rank(t)]
                              ELSE tasks[t]]
Inserted(i, at) ==
    Append(Repaired(i), [issue |-> i, seq |-> 1 + Cardinality({t \in Ids : tasks[t].issue = i}),
                         status |-> "pending", at |-> at])

(* Without a time there is no window and no slot: one transaction. *)
CreateNow(i) ==
    /\ Len(tasks) < MaxTasks /\ Free(i)
    /\ tasks' = Inserted(i, 0)
    /\ UNCHANGED <<owner, kit, now, rowLock, slotLock, req, moves, revived>>

(* A writer of the previous release inserts without a sequence number. *)
LegacyInsert(i) ==
    /\ Legacy /\ Len(tasks) < MaxTasks /\ Free(i)
    /\ tasks' = Append(tasks, [issue |-> i, seq |-> 0, status |-> "pending", at |-> 0])
    /\ UNCHANGED <<owner, kit, now, rowLock, slotLock, req, moves, revived>>

(* reschedule_task loads and validates the task before any lock. *)
RescheduleReadSlotFirst(r, t, at) ==
    /\ req[r] = Idle /\ at > now /\ moves < MaxMoves
    /\ \/ tasks[t].status = "queued"
       \/ tasks[t].status = "pending" /\ tasks[t].at # 0
    /\ slotLock[Slot(at)] = NoReq
    /\ slotLock' = [slotLock EXCEPT ![Slot(at)] = r]
    /\ req' = [req EXCEPT ![r] = [pc |-> "row", issue |-> tasks[t].issue, task |-> t, at |-> at,
                                  seen |-> tasks[t].status, seenAt |-> tasks[t].at]]
    /\ moves' = moves + 1
    /\ UNCHANGED <<tasks, owner, kit, now, rowLock, revived>>
RescheduleRead(r, t, at) ==
    /\ req[r] = Idle /\ at > now /\ moves < MaxMoves
    /\ \/ tasks[t].status = "queued"
       \/ tasks[t].status = "pending" /\ tasks[t].at # 0
    /\ req' = [req EXCEPT ![r] = [pc |-> "row", issue |-> tasks[t].issue, task |-> t, at |-> at,
                                  seen |-> tasks[t].status, seenAt |-> tasks[t].at]]
    /\ moves' = moves + 1
    /\ UNCHANGED <<tasks, owner, kit, now, rowLock, slotLock, revived>>

(* Under the Issue lock the order is verified, without repairing it, and the *)
(* window checked. A refusal rolls back.                                     *)
RescheduleLock(r) ==
    LET q == req[r]
    IN  /\ q.pc = "row" /\ Free(q.issue)
        /\ IF ~ActiveNull(q.issue) /\ InWindow(q.issue, q.task, q.at)
           THEN /\ rowLock' = [rowLock EXCEPT ![q.issue] = r]
                /\ req' = [req EXCEPT ![r].pc = "slot"]
           ELSE /\ req' = [req EXCEPT ![r] = Idle]
                /\ UNCHANGED rowLock
        /\ UNCHANGED <<tasks, owner, kit, now, slotLock, moves, revived>>

(* check_slot_capacity with acquire_lock: the count is read once the advisory *)
(* lock of the hour is held; a full hour refuses the request.                 *)
TakeSlotUnlocked(r) ==
    LET q == req[r]
    IN  /\ q.pc = "slot"
        /\ IF SlotCount(q.at, q.task) < SlotMax
           THEN req' = [req EXCEPT ![r].pc = "write"] /\ UNCHANGED rowLock
           ELSE /\ req' = [req EXCEPT ![r] = Idle]
                /\ rowLock' = [rowLock EXCEPT ![q.issue] = NoReq]
        /\ UNCHANGED <<tasks, owner, kit, now, slotLock, moves, revived>>
TakeSlot(r) ==
    LET q == req[r]
    IN  /\ q.pc = "slot" /\ slotLock[Slot(q.at)] \in {NoReq, r}
        /\ IF SlotCount(q.at, q.task) < SlotMax
           THEN /\ slotLock' = [slotLock EXCEPT ![Slot(q.at)] = r]
                /\ req' = [req EXCEPT ![r].pc = "write"]
                /\ UNCHANGED rowLock
           ELSE /\ req' = [req EXCEPT ![r] = Idle]
                /\ rowLock' = [rowLock EXCEPT ![q.issue] = NoReq]
                /\ slotLock' = [s \in Slots |-> IF slotLock[s] = r THEN NoReq ELSE slotLock[s]]
        /\ UNCHANGED <<tasks, owner, kit, now, moves, revived>>

(* The commit inserts, or writes the columns that differ from what was read: *)
(* the time, and pending over a status read as queued. It ends all locks.    *)
Commit(r) ==
    LET q == req[r]
        row == tasks[q.task]
    IN  /\ q.pc = "write"
        /\ IF q.task = 0
           THEN tasks' = Inserted(q.issue, q.at) /\ UNCHANGED revived
           ELSE /\ tasks' = [tasks EXCEPT ![q.task] =
                       [row EXCEPT !.at = IF q.at = q.seenAt THEN @ ELSE q.at,
                                   !.status = IF q.seen = "queued" THEN "pending" ELSE @]]
                /\ revived' = IF row.status \in {"pending", "queued"} THEN revived
                              ELSE revived \cup {q.task}
        /\ rowLock' = [rowLock EXCEPT ![q.issue] = NoReq]
        /\ slotLock' = [s \in Slots |-> IF slotLock[s] = r THEN NoReq ELSE slotLock[s]]
        /\ req' = [req EXCEPT ![r] = Idle]
        /\ UNCHANGED <<owner, kit, now, moves>>

RequestStep(r) == RescheduleLock(r) \/ TakeSlot(r) \/ Commit(r)

-----------------------------------------------------------------------------
(* Updates of single rows wait for a transaction that locked them. *)

Row(t, old, new) ==
    /\ Free(tasks[t].issue) /\ tasks[t].status \in old
    /\ tasks' = [tasks EXCEPT ![t].status = new]

(* execute_task clears the task's own time. *)
ExecuteNow(t) ==
    /\ Free(tasks[t].issue) /\ tasks[t].status \in {"pending", "queued"} /\ tasks[t].at # 0
    /\ tasks' = [tasks EXCEPT ![t].at = 0]
    /\ UNCHANGED <<owner, kit, now, rowLock, slotLock, req, moves, revived>>

Cancel(t) ==
    /\ Row(t, {"pending", "queued"}, "done")
    /\ UNCHANGED <<owner, kit, now, rowLock, slotLock, req, moves, revived>>

(* _repair_active_null_sequence_issues. *)
RepairNulls(i) ==
    /\ ActiveNull(i) /\ Free(i)
    /\ tasks' = Repaired(i)
    /\ UNCHANGED <<owner, kit, now, rowLock, slotLock, req, moves, revived>>

Predecessor(t) == \E u \in ActiveOf(tasks[t].issue) : u < t

(* _promote_due_heads: the due head of an unlocked Issue, unless its Kit is *)
(* known to be missing.                                                     *)
Promotable(t) ==
    /\ ~ActiveNull(tasks[t].issue) /\ ~Predecessor(t) /\ tasks[t].at <= now
    /\ owner[tasks[t].issue] = 0 /\ kit # "missing"
Promote(t) ==
    /\ Row(t, {"pending"}, "queued") /\ Promotable(t)
    /\ UNCHANGED <<owner, kit, now, rowLock, slotLock, req, moves, revived>>

Claim(t) ==
    /\ Row(t, {"queued"}, "running")
    /\ ~Predecessor(t) /\ ~ActiveNull(tasks[t].issue) /\ owner[tasks[t].issue] = 0
    /\ owner' = [owner EXCEPT ![tasks[t].issue] = t]
    /\ UNCHANGED <<kit, now, rowLock, slotLock, req, moves, revived>>

Finish(t) ==
    /\ Row(t, {"running"}, "done")
    /\ UNCHANGED <<owner, kit, now, rowLock, slotLock, req, moves, revived>>

Release(i) ==
    /\ owner[i] # 0 /\ tasks[owner[i]].status \notin Active
    /\ owner' = [owner EXCEPT ![i] = 0]
    /\ UNCHANGED <<tasks, kit, now, rowLock, slotLock, req, moves, revived>>

(* A verification of the Kit changes its readiness. *)
KitChanges ==
    /\ kit' \in Kits \ {kit}
    /\ UNCHANGED <<tasks, owner, now, rowLock, slotLock, req, moves, revived>>

Tick ==
    /\ now < MaxTime /\ now' = now + 1
    /\ UNCHANGED <<tasks, owner, kit, rowLock, slotLock, req, moves, revived>>

Next ==
    \/ KitChanges \/ Tick
    \/ \E i \in Issues : CreateNow(i) \/ LegacyInsert(i) \/ RepairNulls(i) \/ Release(i)
    \/ \E t \in Ids : ExecuteNow(t) \/ Cancel(t) \/ Promote(t) \/ Claim(t) \/ Finish(t)
    \/ \E r \in Requests, at \in Times :
          \/ \E i \in Issues : CreateLock(r, i, at)
          \/ \E t \in Ids : RescheduleRead(r, t, at)
    \/ \E r \in Requests : RequestStep(r)

Spec == Init /\ [][Next]_vars

-----------------------------------------------------------------------------
(* Properties. *)

TaskRow == [issue : Issues, seq : Nat, status : Active \cup {"done"}, at : 0..MaxTime]
Progress == [pc : {"idle", "row", "slot", "write"}, issue : Issues \cup {NoReq},
             task : 0..Len(tasks), at : 0..MaxTime,
             seen : Active \cup {"done", "none"}, seenAt : 0..MaxTime]

(* Types; a request between its first lock and its commit holds exactly    *)
(* one Issue row (task creation and reschedule).                           *)
TypeOK ==
    /\ tasks \in Seq(TaskRow) /\ owner \in [Issues -> 0..Len(tasks)]
    /\ kit \in Kits /\ now \in 0..MaxTime
    /\ rowLock \in [Issues -> Requests \cup {NoReq}]
    /\ slotLock \in [Slots -> Requests \cup {NoReq}]
    /\ req \in [Requests -> Progress] /\ moves \in Nat /\ revived \subseteq Ids
    /\ \A r \in Requests : req[r].pc \in {"slot", "write"} <=> \E i \in Issues : rowLock[i] = r

(* The tasks booked in an hour that no reschedule put back into the queue.   *)
Booked(s) == {t \in Ids \ revived : /\ tasks[t].status \in Active /\ tasks[t].at # 0
                                    /\ Slot(tasks[t].at) = s}

(* slot_capacity.py: with enforcement on, no hour ever holds more active     *)
(* booked tasks than slot_max_tasks, however creations and reschedules of    *)
(* different Issues interleave, for tasks that no reschedule has put back.   *)
SlotBounded == \A s \in Slots : Cardinality(Booked(s)) <= SlotMax

(* r is blocked on a lock that s holds. *)
WaitsFor(r, s) ==
    /\ r # s
    /\ \/ req[r].pc = "row" /\ rowLock[req[r].issue] = s
       \/ req[r].pc = "slot" /\ slotLock[Slot(req[r].at)] = s

(* Creations and reschedules take the Issue before the slot                  *)
(* (create_task_record, reschedule_task, check_slot_capacity): no set of     *)
(* requests waits for each other's locks in a circle.                        *)
NoWaitCycle ==
    \A S \in (SUBSET Requests) \ {{}} : \E r \in S : \A s \in S : ~WaitsFor(r, s)

InOrder(S) ==
    \A t, u \in S : t < u /\ tasks[t].issue = tasks[u].issue
                    /\ tasks[t].at # 0 /\ tasks[u].at # 0 => tasks[t].at <= tasks[u].at
ActiveIds == {t \in Ids : tasks[t].status \in Active}

(* issue_task_order.py: the bookings of one Issue's active tasks follow its  *)
(* turn order, for tasks that no reschedule has put back into the queue.     *)
ReservationsInTurnOrder == InOrder(ActiveIds \ revived)

(* The time at keeps the bookings of Issue i in turn order when task t takes *)
(* it, and when it is appended if t is not active.                           *)
FitsAmong(active, t, at) ==
    \A u \in active \ {t} : tasks[u].at # 0 =>
        IF t \in active /\ u > t THEN at <= tasks[u].at ELSE tasks[u].at <= at
Fits(i, t, at) == FitsAmong(ActiveOf(i), t, at)

(* compute_schedule_window and validate_schedule_time_locked accept exactly  *)
(* the times that keep the bookings of the Issue in turn order: no legal     *)
(* time is refused and no illegal one accepted, at both ends.                *)
WindowIsExact ==
    \A i \in Issues, t \in Ids \cup {0} :
        LET w == Window(i, t)
            active == ActiveOf(i)
        IN  \A at \in Times : Within(w, at) <=> FitsAmong(active, t, at)

(* What the API promises of its bookings: no hour overbooked, the bookings   *)
(* of an Issue in turn order, and the window exact at both ends              *)
(* (slot_capacity, issue_task_order, create_task_record, reschedule_task).   *)
BookingsKept == SlotBounded /\ ReservationsInTurnOrder /\ WindowIsExact

(* A lock is held by the request that needs it: the Issue row from the       *)
(* window check to the commit, the slot from the count to the commit.        *)
LocksOf(r) ==
    LET q == req[r]
    IN  /\ \A i \in Issues : rowLock[i] = r => q.pc \in {"slot", "write"} /\ q.issue = i
        /\ q.pc \in {"slot", "write"} => q.issue \in Issues /\ rowLock[q.issue] = r
        /\ \A s \in Slots : slotLock[s] = r => q.pc = "write"
        /\ q.pc = "write" => slotLock[Slot(q.at)] = r
        /\ q.pc # "idle" => q.issue \in Issues /\ q.at \in Times
        /\ q.task # 0 => tasks[q.task].issue = q.issue

(* What a request has checked holds until it commits. *)
ChecksOf(r) ==
    LET q == req[r]
    IN  /\ q.pc \in {"slot", "write"} => Fits(q.issue, q.task, q.at)
        /\ q.pc = "write" => Cardinality(Booked(Slot(q.at)) \ {q.task}) < SlotMax

(* The inductive invariant of the reservations: types, locks, what a request *)
(* checked under them, and the bookings (create_task_record,                 *)
(* reschedule_task, check_slot_capacity).                                    *)
ScheduleInvariant ==
    /\ TypeOK /\ SlotBounded /\ ReservationsInTurnOrder
    /\ \A r \in Requests : LocksOf(r) /\ ChecksOf(r)

(* compute_queue_context and _promote_due_heads are written separately and   *)
(* agree: a pending task whose context gives no reason to wait is the one    *)
(* the scheduler may promote, and a task it may promote shows no reason but  *)
(* a runtime that is unavailable for another cause than a missing Kit.       *)
ContextExplainsWaiting ==
    \A t \in Ids : tasks[t].status = "pending" /\ revived = {} =>
        /\ QueueContext(t).reason = "none" => Promotable(t)
        /\ Promotable(t) => QueueContext(t).reason \in {"none", "runtime"}

-----------------------------------------------------------------------------
(* What the repository says and the code does not keep (README, Deviations). *)

(* slot_capacity.py: no hour holds more active booked tasks than             *)
(* slot_max_tasks, those included that a stale reschedule put back.          *)
SlotNeverOverbooked ==
    \A s \in Slots : Cardinality({t \in Ids : /\ tasks[t].status \in Active /\ tasks[t].at # 0
                                              /\ Slot(tasks[t].at) = s}) <= SlotMax

(* task_action_routes.py reschedule_task: the window is checked under the    *)
(* Issue lock so that the bookings of the queue cannot get out of order.     *)
ReservationsNeverCross == InOrder(ActiveIds)

(* task_action_routes.py execute_task: a task that waits for an active       *)
(* predecessor is told so instead of "immediate execution".                  *)
ImmediateMeansHead ==
    \A t \in Ids : tasks[t].status \in {"pending", "queued"} /\ Predecessor(t)
                   => ExecuteReply(t) = "waits"
=============================================================================
