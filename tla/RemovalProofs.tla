---------------------------- MODULE RemovalProofs ----------------------------
(***************************************************************************)
(* No unforced removal of an Issue or of its workspace harms a task, for   *)
(* any number of Issues, tasks and concurrent requests.                    *)
(*                                                                         *)
(* The proof splits the inductive invariant RemovalInvariant in two: the   *)
(* rows (tasks, threads, containers, statistics) and the locks (holders,   *)
(* requests, the retention pass).  What ties them is NoNewWork: an Issue   *)
(* gets work only while nobody holds its row, and the row then says so.    *)
(***************************************************************************)
EXTENDS IssueRemoval, FiniteSetTheorems, TLAPS

(* The part of the invariant about rows. *)
RowsInvariant ==
    /\ issue \in [Issues -> IssueType] /\ task \in [Tasks -> TaskType]
    /\ cont \in [Tasks -> Containers]
    /\ thread \in [Tasks -> Places]
    /\ stats \in [Issues -> SUBSET RowType]
    /\ TasksInTurn /\ RemovalIsSafe
    /\ "force" \notin Kinds => ArchivedAreGone /\ \A t \in Tasks : Tended(t)

(* The part of it about locks. *)
LocksInvariant ==
    /\ holder \in [Issues -> Requests \cup {"none", "sched"}]
    /\ rem \in [Requests -> RequestType]
    /\ ret = [pc |-> ret.pc, batch |-> ret.batch]
    /\ ret.pc \in {"idle", "select", "lock", "dir", "mark"}
    /\ \A r \in Requests : rem[r].pc # "idle" => rem[r].issue \in Issues
    /\ \A i \in Issues : /\ \A r \in Requests : holder[i] = r <=> rem[r].pc # "idle" /\ rem[r].issue = i
                         /\ holder[i] = "sched" <=> ret.pc \in {"dir", "mark"} /\ i = Head(ret.batch)
    /\ RemoversSeeIdle

LEMMA InvariantSplits ==
    RemovalInvariant <=> RowsInvariant /\ LocksInvariant
BY Zenon DEF RemovalInvariant, RowsInvariant, LocksInvariant, TypeOK

(* Work appears on an Issue only while its row is free, and marks it used. *)
NoNewWork ==
    \A i \in Issues : ~Busy(i) => ~Busy(i)' \/ (holder[i] = "none" /\ issue'[i].recent)

(* A row becomes stale only between two passes. *)
StaysFresh ==
    ret.pc # "idle" => \A i \in Issues : Stale(i)' => Stale(i)

(* A step outside requests and the pass keeps what they rely on. *)
LEMMA WorkStep ==
    ASSUME LocksInvariant, RowsInvariant', UNCHANGED <<holder, rem, ret>>, NoNewWork, StaysFresh
    PROVE  LocksInvariant'
<1>0. "none" \notin Requests /\ "sched" \notin Requests
    BY Zenon, ConstantsAssumption DEF RemovalAssumption
<1>1. ASSUME NEW r \in Requests, rem[r].pc \in {"dir", "mark", "archive"}, rem[r].kind # "force"
      PROVE  ~Busy(rem[r].issue)'
    <2>1. rem[r].issue \in Issues /\ holder[rem[r].issue] = r /\ ~Busy(rem[r].issue)
        BY <1>1 DEF LocksInvariant, RemoversSeeIdle
    <2>2. rem'[r].issue = rem[r].issue
        OBVIOUS
    <2> QED
        BY Zenon, <1>0, <2>1, <2>2 DEF NoNewWork, Busy, TasksOf, Created
<1>2. ASSUME NEW i \in Issues, i = Head(ret.batch),
             ret.pc \in {"dir", "mark"} \/ (ret.pc = "lock" /\ Stale(i)')
      PROVE  ~Busy(i)'
    <2>1. CASE ret.pc \in {"dir", "mark"}
        BY ZenonT(60), <1>0, <1>2, <2>1 DEF NoNewWork, LocksInvariant, RemoversSeeIdle
    <2>2. CASE ret.pc = "lock" /\ Stale(i)'
        <3>1. ~Busy(i) /\ ~issue'[i].recent
            BY Zenon, <1>2, <2>2 DEF StaysFresh, LocksInvariant, RemoversSeeIdle, Stale
        <3> QED
            BY Zenon, <3>1 DEF NoNewWork
    <2> QED
        BY Zenon, <1>2, <2>1, <2>2
<1>3. RemoversSeeIdle'
    <2>1. \A i \in Issues : ret'.pc \in {"dir", "mark"} \/ (ret'.pc = "lock" /\ Stale(i)')
                               => (i = Head(ret'.batch) => ~Busy(i)')
        BY Zenon, <1>2
    <2>2. \A r \in Requests : rem'[r].pc \in {"dir", "mark", "archive"} /\ rem'[r].kind # "force"
                               => ~Busy(rem[r].issue)'
        BY Zenon, <1>1
    <2>3. \A r \in Requests : /\ rem'[r].pc = "containers" => rem'[r].kind = "force"
                              /\ rem'[r].pc # "idle" => rem'[r].kind \in Kinds
        BY Zenon DEF LocksInvariant, RemoversSeeIdle
    <2> QED
        BY Zenon, <2>1, <2>2, <2>3 DEF RemoversSeeIdle
<1> QED
    BY <1>3 DEF LocksInvariant

-----------------------------------------------------------------------------
(* Rows. *)

LEMMA Booleans == TRUE \in BOOLEAN /\ FALSE \in BOOLEAN
BY Zenon 

(* A task row is rewritten in its place; its Issue gets no work by it      *)
(* unless the row was active or referenced before.                         *)
LEMMA RowRewritten ==
    ASSUME RowsInvariant, NEW t \in Tasks, NEW v \in TaskType,
           v.st = "none" <=> task[t].st = "none", v.issue = task[t].issue, task' = [task EXCEPT ![t] = v],
           v.st \in ActiveStatus \/ v.ref => task[t].st \in ActiveStatus \/ task[t].ref,
           task[t].st = "deleted" => v.st = "deleted" /\ ~v.ref
    PROVE  /\ task' \in [Tasks -> TaskType] /\ task'[t] = v
           /\ \A u \in Tasks : u # t => task'[u] = task[u]
           /\ TasksInTurn' /\ NoNewWork
<1>1. /\ task' \in [Tasks -> TaskType] /\ task'[t] = v
      /\ \A u \in Tasks : u # t => task'[u] = task[u]
    BY Zenon DEF RowsInvariant
<1>2. Created' = Created
    BY Zenon, <1>1 DEF Created
<1>3. TasksInTurn'
    <2>1. PICK n \in 0 .. MaxTasks : Created = 1 .. n /\ \A u \in 1 .. n : task[u].issue \in Issues
        BY Zenon DEF RowsInvariant, TasksInTurn
    <2>2. \A u \in 1 .. n : task'[u].issue \in Issues
        BY Zenon, <1>1, <2>1 DEF Created
    <2> QED
        BY Zenon, <1>2, <2>1, <2>2 DEF TasksInTurn
<1>4. ASSUME NEW i \in Issues, Busy(i)' PROVE Busy(i)
    <2>1. PICK u \in Tasks : /\ u \in Created /\ task'[u].issue = i /\ task'[u].st # "deleted"
                             /\ task'[u].st \in ActiveStatus \/ task'[u].ref
        BY Zenon, <1>2, <1>4 DEF Busy, TasksOf, Created
    <2>2. /\ task[u].issue = i /\ task[u].st # "deleted"
          /\ task[u].st \in ActiveStatus \/ task[u].ref
        BY Zenon, <1>1, <2>1
    <2> QED
        BY Zenon, <2>1, <2>2 DEF Busy, TasksOf
<1> QED
    BY Zenon, <1>1, <1>3, <1>4 DEF NoNewWork

(* A step that leaves the tasks alone. *)
LEMMA RowsStay ==
    ASSUME RowsInvariant, UNCHANGED task
    PROVE  /\ task' \in [Tasks -> TaskType]
           /\ TasksInTurn' /\ NoNewWork
           /\ \A i : Busy(i)' <=> Busy(i)
           /\ \A i : TasksOf(i)' = TasksOf(i)
<1>1. Created' = Created
    BY Zenon DEF Created
<1>2. TasksInTurn'
    BY Zenon, <1>1 DEF RowsInvariant, TasksInTurn
<1>3. \A i : TasksOf(i)' = TasksOf(i)
    BY Zenon, <1>1 DEF TasksOf
<1>4. \A i : Busy(i)' <=> Busy(i)
    BY Zenon, <1>3 DEF Busy
<1> QED
    BY Zenon, <1>2, <1>3, <1>4 DEF NoNewWork, RowsInvariant

(* The rows after a step at one task: the others keep row, thread and      *)
(* container, and the archive is not touched.                              *)
LEMMA RowsKept ==
    ASSUME RowsInvariant, NEW t \in Tasks,
           issue' \in [Issues -> IssueType], task' \in [Tasks -> TaskType],
           cont' \in [Tasks -> Containers],
           thread' \in [Tasks -> Places],
           UNCHANGED <<stats, lost>>, TasksInTurn',
           \A u \in Tasks : u # t => /\ task'[u] = task[u] /\ cont'[u] = cont[u]
                                     /\ thread'[u] = thread[u],
           "force" \notin Kinds =>
              /\ Tended(t)'
              /\ task[t].st = "deleted" => task'[t].st = "deleted" /\ cont'[t] = "none"
    PROVE  RowsInvariant'
<1>1. ASSUME "force" \notin Kinds PROVE ArchivedAreGone' /\ (\A u \in Tasks : Tended(u)') /\ PlainDeletionIsIdle'
    <2>1. \A u \in Tasks : Tended(u)'
        BY <1>1 DEF RowsInvariant, Tended
    <2>2. \A u \in Tasks : task[u].st = "deleted" => task'[u].st = "deleted" /\ (cont[u] = "none" => cont'[u] = "none")
        BY Zenon, <1>1
    <2>3. \A i \in Issues : \A x \in stats'[i] : x \in stats[i] /\ x.task \in Tasks
        BY DEF RowsInvariant, RowType
    <2> QED
        BY <1>1, <2>1, <2>2, <2>3
           DEF RowsInvariant, ArchivedAreGone, RemovalIsSafe, PlainDeletionIsIdle
<1>2. RemovalIsSafe'
    BY Zenon, <1>1 DEF RowsInvariant, RemovalIsSafe, WorkspaceKept, PlainDeletionIsIdle
<1> QED
    BY Zenon, <1>1, <1>2 DEF RowsInvariant

-----------------------------------------------------------------------------
(* Steps of tasks, their threads and containers. *)

(* What such a step is shown to keep. *)
WorkIsKept == RowsInvariant' /\ NoNewWork /\ StaysFresh

LEMMA CancelWaitingStep ==
    ASSUME RowsInvariant, NEW t \in Tasks, CancelWaiting(t) PROVE WorkIsKept
<1> DEFINE v == [task[t] EXCEPT !.st = "done"]
<1>1. task[t] \in TaskType /\ task[t].st = "waiting" /\ task' = [task EXCEPT ![t] = v]
    BY Zenon DEF CancelWaiting, RowsInvariant
<1>2. v \in TaskType /\ v.st = "done" /\ v.issue = task[t].issue /\ v.ref = task[t].ref
    BY Zenon, <1>1 DEF TaskType, Statuses
<1> HIDE DEF v
<1>3. /\ task' \in [Tasks -> TaskType] /\ task'[t] = v
      /\ \A u \in Tasks : u # t => task'[u] = task[u]
      /\ TasksInTurn' /\ NoNewWork
    BY Zenon, <1>1, <1>2, RowRewritten DEF ActiveStatus
<1>4. "force" \notin Kinds => Tended(t)'
    BY Zenon, <1>1, <1>2, <1>3 DEF CancelWaiting, workers, RowsInvariant, Tended
<1>5. RowsInvariant'
    BY Zenon, <1>1, <1>3, <1>4, RowsKept DEF CancelWaiting, workers, RowsInvariant
<1> QED
    BY Zenon, <1>3, <1>5 DEF WorkIsKept, StaysFresh, CancelWaiting, Stale

LEMMA ClaimStep ==
    ASSUME RowsInvariant, NEW t \in Tasks, Claim(t) PROVE WorkIsKept
<1> DEFINE v == [task[t] EXCEPT !.st = "running"]
<1>1. task[t] \in TaskType /\ task[t].st = "waiting" /\ task' = [task EXCEPT ![t] = v]
    BY Zenon DEF Claim, RowsInvariant
<1>2. v \in TaskType /\ v.st = "running" /\ v.issue = task[t].issue /\ v.ref = task[t].ref
    BY Zenon, <1>1 DEF TaskType, Statuses
<1> HIDE DEF v
<1>3. /\ task' \in [Tasks -> TaskType] /\ task'[t] = v
      /\ \A u \in Tasks : u # t => task'[u] = task[u]
      /\ TasksInTurn' /\ NoNewWork
    BY ZenonT(60), <1>1, <1>2, RowRewritten DEF ActiveStatus
<1>4. /\ thread' \in [Tasks -> Places]
      /\ thread'[t] = "claimed" /\ \A u \in Tasks : u # t => thread'[u] = thread[u]
    BY Zenon DEF Claim, RowsInvariant, Places
<1>5. "force" \notin Kinds => Tended(t)'
    BY ZenonT(60), <1>1, <1>2, <1>3, <1>4 DEF Claim, RowsInvariant, Tended
<1>6. RowsInvariant'
    BY ZenonT(60), <1>1, <1>3, <1>4, <1>5, RowsKept DEF Claim, RowsInvariant
<1> QED
    BY Zenon, <1>3, <1>6 DEF WorkIsKept, StaysFresh, Claim, Stale

LEMMA CreateContainerStep ==
    ASSUME RowsInvariant, NEW t \in Tasks, CreateContainer(t) PROVE WorkIsKept
<1>1. /\ task' \in [Tasks -> TaskType] /\ TasksInTurn' /\ NoNewWork /\ task' = task
    BY Zenon, RowsStay DEF CreateContainer, rows
<1>2. /\ thread' \in [Tasks -> Places]
      /\ cont' \in [Tasks -> Containers]
      /\ thread[t] = "claimed" /\ thread'[t] = "created" /\ cont'[t] = "created"
      /\ \A u \in Tasks : u # t => thread'[u] = thread[u] /\ cont'[u] = cont[u]
    BY Zenon DEF CreateContainer, RowsInvariant, Places, Containers
<1>3. "force" \notin Kinds => Tended(t)' /\ task[t].st # "deleted"
    BY Zenon, <1>1, <1>2 DEF RowsInvariant, Tended, TaskType, Statuses
<1>4. RowsInvariant'
    BY Zenon, <1>1, <1>2, <1>3, RowsKept DEF CreateContainer, rows, RowsInvariant
<1> QED
    BY Zenon, <1>1, <1>4 DEF WorkIsKept, StaysFresh, CreateContainer, rows, Stale

LEMMA StoreReferenceStep ==
    ASSUME RowsInvariant, NEW t \in Tasks, StoreReference(t) PROVE WorkIsKept
<1> DEFINE v == [task[t] EXCEPT !.ref = TRUE]
<1>1. task[t] \in TaskType /\ thread[t] = "created"
    BY Zenon DEF StoreReference, RowsInvariant
<1>2. CASE task[t].st = "running"
    <2>1. task' = [task EXCEPT ![t] = v] /\ cont' = cont
        BY Zenon, <1>2 DEF StoreReference, RowsInvariant
    <2>2. v \in TaskType /\ v.st = "running" /\ v.issue = task[t].issue /\ v.ref = TRUE
        BY ZenonT(60), <1>1, <1>2, Booleans DEF TaskType
    <2> HIDE DEF v
    <2>3. /\ task' \in [Tasks -> TaskType] /\ task'[t] = v
          /\ \A u \in Tasks : u # t => task'[u] = task[u]
          /\ TasksInTurn' /\ NoNewWork
        BY Zenon, <1>2, <2>1, <2>2, RowRewritten DEF ActiveStatus
    <2>4. /\ thread' \in [Tasks -> Places]
          /\ thread'[t] = "stored" /\ \A u \in Tasks : u # t => thread'[u] = thread[u]
        BY Zenon, <1>2 DEF StoreReference, RowsInvariant, Places
    <2>5. "force" \notin Kinds => Tended(t)'
        BY Zenon, <2>1, <2>2, <2>3, <2>4 DEF Tended
    <2>6. RowsInvariant'
        BY ZenonT(60), <1>2, <2>1, <2>3, <2>4, <2>5, RowsKept DEF StoreReference, RowsInvariant
    <2> QED
        BY Zenon, <2>3, <2>6 DEF WorkIsKept, StaysFresh, StoreReference, Stale
<1>3. CASE task[t].st # "running"
    <2>1. task' \in [Tasks -> TaskType] /\ TasksInTurn' /\ NoNewWork /\ task' = task
        BY Zenon, <1>3, RowsStay DEF StoreReference
    <2>2. /\ thread' \in [Tasks -> Places]
          /\ cont' \in [Tasks -> Containers]
          /\ \A u \in Tasks : u # t => thread'[u] = thread[u] /\ cont'[u] = cont[u]
        BY Zenon, <1>3 DEF StoreReference, RowsInvariant, Places, Containers
    <2>3. "force" \in Kinds
        BY Zenon, <1>1, <1>3 DEF RowsInvariant, Tended, TaskType, Statuses
    <2>4. RowsInvariant'
        BY ZenonT(60), <2>1, <2>2, <2>3, RowsKept DEF StoreReference, RowsInvariant
    <2> QED
        BY Zenon, <2>1, <2>4 DEF WorkIsKept, StaysFresh, StoreReference, Stale
<1> QED
    BY Zenon, <1>2, <1>3

(* A container goes and its reference with it; the thread moves on. *)
LEMMA ReferenceReturned ==
    ASSUME RowsInvariant, NEW t \in Tasks, NEW th \in Places,
           cont' = [cont EXCEPT ![t] = "none"], task' = [task EXCEPT ![t].ref = FALSE],
           thread' = [thread EXCEPT ![t] = th], UNCHANGED <<issue, stats, lost>>,
           "force" \notin Kinds =>
              \/ thread[t] = "stored" /\ th = "watching"
              \/ thread[t] \in {"used", "off"} /\ th = "off"
    PROVE  WorkIsKept
<1> DEFINE v == [task[t] EXCEPT !.ref = FALSE]
<1>1. task[t] \in TaskType /\ task' = [task EXCEPT ![t] = v]
    BY Zenon DEF RowsInvariant
<1>2. v \in TaskType /\ v.st = task[t].st /\ v.issue = task[t].issue /\ v.ref = FALSE
    BY ZenonT(60), <1>1, Booleans DEF TaskType
<1> HIDE DEF v
<1>3. /\ task' \in [Tasks -> TaskType] /\ task'[t] = v
      /\ \A u \in Tasks : u # t => task'[u] = task[u]
      /\ TasksInTurn' /\ NoNewWork
    BY Zenon, <1>1, <1>2, RowRewritten
<1>4. /\ thread' \in [Tasks -> Places]
      /\ cont' \in [Tasks -> Containers]
      /\ thread'[t] = th /\ cont'[t] = "none"
      /\ \A u \in Tasks : u # t => thread'[u] = thread[u] /\ cont'[u] = cont[u]
    BY Zenon DEF RowsInvariant, Containers
<1>5. "force" \notin Kinds => Tended(t)'
    BY ZenonT(60), <1>1, <1>2, <1>3, <1>4 DEF RowsInvariant, Tended, TaskType, Statuses
<1>6. task[t].st = "deleted" => task'[t].st = "deleted" /\ cont'[t] = "none"
    BY Zenon, <1>2, <1>3, <1>4
<1>7. issue' \in [Issues -> IssueType]
    BY Zenon DEF RowsInvariant
<1>8. RowsInvariant'
    BY ZenonT(60), <1>3, <1>4, <1>5, <1>6, <1>7, RowsKept
<1> QED
    BY Zenon, <1>3, <1>8 DEF WorkIsKept, StaysFresh, Stale

(* The tasks stay; thread and container of one task move. *)
LEMMA ContainerMoves ==
    ASSUME RowsInvariant, NEW t \in Tasks, NEW th \in Places,
           NEW co \in Containers,
           UNCHANGED <<issue, task, stats, lost>>,
           cont' = [cont EXCEPT ![t] = co], thread' = [thread EXCEPT ![t] = th],
           "force" \notin Kinds =>
              \/ thread[t] = "stored" /\ th = "watching"
              \/ thread[t] \in {"used", "ended"} /\ th \in {"used", "off"} /\ co = cont[t]
              \/ th = thread[t] /\ th # "created" /\ cont[t] # "none"
    PROVE  WorkIsKept
<1>1. task' \in [Tasks -> TaskType] /\ TasksInTurn' /\ NoNewWork /\ task' = task
    BY Zenon, RowsStay
<1>2. /\ thread' \in [Tasks -> Places]
      /\ cont' \in [Tasks -> Containers]
      /\ thread'[t] = th /\ cont'[t] = co
      /\ \A u \in Tasks : u # t => thread'[u] = thread[u] /\ cont'[u] = cont[u]
    BY Zenon DEF RowsInvariant
<1>3. "force" \notin Kinds => Tended(t)' /\ (task[t].st = "deleted" => co = "none")
    BY Zenon, <1>1, <1>2 DEF RowsInvariant, Tended, TaskType, Statuses
<1>4. RowsInvariant'
    BY ZenonT(60), <1>1, <1>2, <1>3, RowsKept DEF RowsInvariant
<1> QED
    BY Zenon, <1>1, <1>4 DEF WorkIsKept, StaysFresh, Stale

LEMMA StartContainerStep ==
    ASSUME RowsInvariant, NEW t \in Tasks, StartContainer(t) PROVE WorkIsKept
<1>1. "watching" \in Places /\ "running" \in Containers
    BY Zenon DEF Places, Containers
<1>2. CASE cont' = [cont EXCEPT ![t] = "running"] /\ UNCHANGED task
    BY ZenonT(60), <1>1, <1>2, ContainerMoves DEF StartContainer
<1>3. CASE cont' = [cont EXCEPT ![t] = "none"] /\ task' = [task EXCEPT ![t].ref = FALSE]
    BY ZenonT(60), <1>1, <1>3, ReferenceReturned DEF StartContainer
<1> QED
    BY Zenon, <1>2, <1>3 DEF StartContainer

LEMMA ContainerExitsStep ==
    ASSUME RowsInvariant, NEW t \in Tasks, ContainerExits(t) PROVE WorkIsKept
<1>1. /\ thread[t] \in Places /\ "exited" \in Containers
      /\ thread' = [thread EXCEPT ![t] = thread[t]]
    BY Zenon DEF ContainerExits, RowsInvariant, Places, Containers
<1>2. "force" \notin Kinds => thread[t] # "created"
    BY ZenonT(60) DEF ContainerExits, RowsInvariant, Tended
<1> QED
    BY ZenonT(60), <1>1, <1>2, ContainerMoves DEF ContainerExits, rows

LEMMA FinishStep ==
    ASSUME RowsInvariant, NEW t \in Tasks, Finish(t) PROVE WorkIsKept
<1> DEFINE v == [task[t] EXCEPT !.st = "done"]
<1>1. task[t] \in TaskType /\ thread[t] = "watching" /\ cont' = cont
    BY Zenon DEF Finish, RowsInvariant
<1>2. CASE task[t].st = "running"
    <2>1. task' = [task EXCEPT ![t] = v]
        BY Zenon, <1>2 DEF Finish, RowsInvariant
    <2>2. v \in TaskType /\ v.st = "done" /\ v.issue = task[t].issue /\ v.ref = task[t].ref
        BY Zenon, <1>1 DEF TaskType, Statuses
    <2> HIDE DEF v
    <2>3. /\ task' \in [Tasks -> TaskType] /\ task'[t] = v
          /\ \A u \in Tasks : u # t => task'[u] = task[u]
          /\ TasksInTurn' /\ NoNewWork
        BY ZenonT(60), <1>2, <2>1, <2>2, RowRewritten DEF ActiveStatus
    <2>4. /\ thread' \in [Tasks -> Places]
          /\ thread'[t] = "ended" /\ \A u \in Tasks : u # t => thread'[u] = thread[u]
        BY Zenon, <1>2 DEF Finish, RowsInvariant, Places
    <2>5. "force" \notin Kinds => Tended(t)'
        BY ZenonT(60), <1>1, <1>2, <2>2, <2>3, <2>4 DEF RowsInvariant, Tended
    <2>6. RowsInvariant'
        BY ZenonT(60), <1>1, <1>2, <2>3, <2>4, <2>5, RowsKept DEF Finish, RowsInvariant
    <2> QED
        BY ZenonT(60), <2>3, <2>6 DEF WorkIsKept, StaysFresh, Finish, Stale
<1>3. CASE task[t].st # "running"
    <2>1. "force" \in Kinds
        BY Zenon, <1>1, <1>3 DEF RowsInvariant, Tended, TaskType, Statuses
    <2>2. cont' = [cont EXCEPT ![t] = cont[t]] /\ cont[t] \in Containers /\ "off" \in Places
        BY Zenon, <1>1 DEF RowsInvariant, Places
    <2> QED
        BY Zenon, <1>3, <2>1, <2>2, ContainerMoves DEF Finish
<1> QED
    BY Zenon, <1>2, <1>3

LEMMA RemoveContainerStep ==
    ASSUME RowsInvariant, NEW t \in Tasks, RemoveContainer(t) PROVE WorkIsKept
<1>1. CASE cont' = [cont EXCEPT ![t] = "none"] /\ task' = [task EXCEPT ![t].ref = FALSE]
    BY ZenonT(60), <1>1, ReferenceReturned DEF RemoveContainer, Places
<1>2. CASE UNCHANGED <<cont, task>>
    <2>1. cont' = [cont EXCEPT ![t] = cont[t]] /\ cont[t] \in Containers /\ "off" \in Places
        BY ZenonT(60), <1>2 DEF RowsInvariant, Places
    <2> QED
        BY Zenon, <1>2, <2>1, ContainerMoves DEF RemoveContainer
<1> QED
    BY Zenon, <1>1, <1>2 DEF RemoveContainer

LEMMA RemoveRetainedStep ==
    ASSUME RowsInvariant, NEW t \in Tasks, RemoveRetained(t) PROVE WorkIsKept
<1>1. "off" \in Places /\ thread' = [thread EXCEPT ![t] = "off"]
    BY Zenon DEF RemoveRetained, RowsInvariant, Places
<1> QED
    BY Zenon, <1>1, ReferenceReturned DEF RemoveRetained

(* The Issue row says that its workspace is used. *)
LEMMA IssueMarked ==
    ASSUME RowsInvariant, NEW i \in Issues,
           issue' = [issue EXCEPT ![i].recent = TRUE, ![i].wsDeleted = FALSE]
    PROVE  issue' \in [Issues -> IssueType] /\ issue'[i].recent /\ StaysFresh
<1> DEFINE m == [issue[i] EXCEPT !.recent = TRUE]
           v == [m EXCEPT !.wsDeleted = FALSE]
<1>1. issue[i] \in IssueType /\ issue' = [issue EXCEPT ![i] = v]
    BY Zenon DEF RowsInvariant, IssueType
<1>2. m \in IssueType /\ m.recent = TRUE
    BY ZenonT(60), <1>1, Booleans DEF IssueType
<1> HIDE DEF m
<1>3. v \in IssueType /\ v.recent = TRUE
    BY ZenonT(60), <1>2, Booleans DEF IssueType
<1> HIDE DEF v
<1>4. /\ issue' \in [Issues -> IssueType] /\ issue'[i] = v
      /\ \A j \in Issues : j # i => issue'[j] = issue[j]
    BY ZenonT(60), <1>1, <1>3 DEF RowsInvariant
<1> QED
    BY Zenon, <1>3, <1>4 DEF StaysFresh, Stale

LEMMA MarkUsedStep ==
    ASSUME RowsInvariant, NEW t \in Tasks, MarkUsed(t) PROVE WorkIsKept
<1>1. task' \in [Tasks -> TaskType] /\ TasksInTurn' /\ NoNewWork /\ task' = task
    BY Zenon, RowsStay DEF MarkUsed
<1>2. /\ thread' \in [Tasks -> Places] /\ thread[t] = "ended" /\ thread'[t] \in {"used", "off"}
      /\ \A u \in Tasks : u # t => thread'[u] = thread[u]
    BY Zenon DEF MarkUsed, RowsInvariant, Places
<1>3. issue' \in [Issues -> IssueType] /\ StaysFresh
    <2>1. CASE task[t].st = "done"
        <3>1. task[t].issue \in Issues
            BY Zenon, <2>1 DEF RowsInvariant, TasksInTurn, Created
        <3> QED
            BY ZenonT(60), <2>1, <3>1, IssueMarked DEF MarkUsed
    <2>2. CASE task[t].st # "done"
        BY Zenon, <2>2 DEF MarkUsed, RowsInvariant, StaysFresh, Stale
    <2> QED
        BY Zenon, <2>1, <2>2
<1>4. "force" \notin Kinds => Tended(t)' /\ (task[t].st = "deleted" => cont[t] = "none")
    BY Zenon, <1>1, <1>2 DEF MarkUsed, RowsInvariant, Tended, TaskType, Statuses
<1>5. RowsInvariant'
    BY ZenonT(60), <1>1, <1>2, <1>3, <1>4, RowsKept DEF MarkUsed, RowsInvariant
<1> QED
    BY Zenon, <1>1, <1>3, <1>5 DEF WorkIsKept

LEMMA AgeStep ==
    ASSUME RowsInvariant, NEW i \in Issues, Age(i) PROVE WorkIsKept
<1> DEFINE v == [issue[i] EXCEPT !.recent = FALSE]
<1>1. issue[i] \in IssueType /\ issue' = [issue EXCEPT ![i] = v]
    BY Zenon DEF RowsInvariant, Age
<1>2. v \in IssueType
    BY Zenon, <1>1, Booleans DEF IssueType
<1> HIDE DEF v
<1>3. issue' \in [Issues -> IssueType]
    BY Zenon, <1>1, <1>2 DEF RowsInvariant
<1>4. task' \in [Tasks -> TaskType] /\ TasksInTurn' /\ NoNewWork
    BY ZenonT(60), RowsStay DEF Age
<1>5. RowsInvariant'
    BY <1>3, <1>4 DEF RowsInvariant, Age, workers, RemovalIsSafe, WorkspaceKept, PlainDeletionIsIdle,
                      ArchivedAreGone, Tended
<1> QED
    BY Zenon, <1>4, <1>5 DEF WorkIsKept, StaysFresh, Age

(* The next number is free, and a creation takes it. *)
LEMMA CreateStep ==
    ASSUME RowsInvariant, NEW i \in Issues, Create(i) PROVE WorkIsKept
<1> DEFINE v == [issue |-> i, st |-> "waiting", ref |-> FALSE]
<1>1. PICK n \in 0 .. MaxTasks : Created = 1 .. n /\ \A t \in 1 .. n : task[t].issue \in Issues
    BY Zenon DEF RowsInvariant, TasksInTurn
<1>2. Cardinality(Created) = n /\ n < MaxTasks
    <2>1. 1 \in Int /\ n \in Int /\ MaxTasks \in Nat
        BY ConstantsAssumption DEF RemovalAssumption
    <2>2. Cardinality(1 .. n) = IF 1 > n THEN 0 ELSE n - 1 + 1
        BY Zenon, <2>1, FS_Interval
    <2>3. Cardinality(Created) < MaxTasks
        BY Zenon DEF Create
    <2> QED
        BY <1>1, <2>1, <2>2, <2>3
<1> DEFINE t == n + 1
<1>3. t \in Tasks /\ t \notin Created /\ task[t].st = "none"
    BY <1>1, <1>2, ConstantsAssumption DEF Tasks, Created, RemovalAssumption
<1>4. v \in TaskType /\ v.st = "waiting" /\ ~v.ref /\ v.issue = i
    BY Zenon, Booleans DEF TaskType, Statuses
<1>5. task' = [task EXCEPT ![t] = v]
    BY Zenon, <1>2 DEF Create, Inserted
<1> HIDE DEF v
<1>6. /\ task' \in [Tasks -> TaskType] /\ task'[t] = v
      /\ \A u \in Tasks : u # t => task'[u] = task[u]
    BY Zenon, <1>3, <1>4, <1>5 DEF RowsInvariant
<1>7. Created' = 1 .. t
    <2>1. \A u \in Tasks : u \in Created' <=> u \in Created \/ u = t
        BY Zenon, <1>3, <1>4, <1>6 DEF Created
    <2>2. Created' \subseteq Tasks /\ Created \subseteq Tasks
        BY Zenon DEF Created
    <2>3. \A u : u \in 1 .. t <=> u \in 1 .. n \/ u = t
        OBVIOUS
    <2>4. \A u : u \in Created' <=> u \in 1 .. t
        BY ZenonT(60), <1>1, <1>3, <2>1, <2>2, <2>3
    <2> QED
        BY Zenon, <2>4
<1>8. TasksInTurn'
    <2>1. t \in 0 .. MaxTasks
        BY <1>2, ConstantsAssumption DEF RemovalAssumption
    <2>2. \A u \in 1 .. t : task'[u].issue \in Issues
        BY Zenon, <1>1, <1>3, <1>4, <1>6, <1>7 DEF Created
    <2> QED
        BY Zenon, <1>7, <2>1, <2>2 DEF TasksInTurn
<1>9. issue' \in [Issues -> IssueType] /\ issue'[i].recent /\ StaysFresh
    BY Zenon, IssueMarked DEF Create
<1>10. NoNewWork
    <2> SUFFICES ASSUME NEW j \in Issues, Busy(j)', ~Busy(j)
                 PROVE  holder[j] = "none" /\ issue'[j].recent
        BY Zenon DEF NoNewWork
    <2>1. PICK u \in Tasks : /\ u \in Created' /\ task'[u].issue = j /\ task'[u].st # "deleted"
                             /\ task'[u].st \in ActiveStatus \/ task'[u].ref
        BY Zenon DEF Busy, TasksOf, Created
    <2>2. u = t
        BY Zenon, <1>6, <2>1 DEF Busy, TasksOf, Created
    <2> QED
        BY Zenon, <1>4, <1>6, <1>9, <2>1, <2>2 DEF Create
<1>11. "force" \notin Kinds => Tended(t)'
    BY Zenon, <1>3, <1>4, <1>6 DEF Create, RowsInvariant, Tended
<1>12. RowsInvariant'
    BY Zenon, <1>3, <1>6, <1>8, <1>9, <1>11, RowsKept DEF Create, RowsInvariant
<1> QED
    BY Zenon, <1>9, <1>10, <1>12 DEF WorkIsKept

-----------------------------------------------------------------------------
(* Steps of requests. *)

(* No Issue becomes busy, and none stale during a pass. *)
Calm == (\A i \in Issues : Busy(i)' => Busy(i)) /\ StaysFresh

(* The pass keeps what it relies on while nobody gives it work. *)
LEMMA PassUndisturbed ==
    ASSUME LocksInvariant, Calm, UNCHANGED ret
    PROVE  \A i \in Issues : ret'.pc \in {"dir", "mark"} \/ (ret'.pc = "lock" /\ Stale(i)')
                                => (i = Head(ret'.batch) => ~Busy(i)')
BY Zenon DEF LocksInvariant, Calm, StaysFresh, RemoversSeeIdle

(* A request gives the row back. *)
LEMMA ReleaseStep ==
    ASSUME LocksInvariant, NEW r \in Requests, rem[r].pc # "idle",
           Release(r, rem[r].issue), UNCHANGED ret, Calm
    PROVE  LocksInvariant'
<1> DEFINE i == rem[r].issue
<1>0. r \notin {"none", "sched"}
    BY Zenon, ConstantsAssumption DEF RemovalAssumption
<1>1. i \in Issues /\ holder[i] = r
    BY Zenon DEF LocksInvariant
<1>2. Idle \in RequestType /\ Idle.pc = "idle"
    BY Zenon DEF Idle, RequestType
<1>3. /\ rem' \in [Requests -> RequestType] /\ rem'[r] = Idle
      /\ \A q \in Requests : q # r => rem'[q] = rem[q]
    BY <1>2 DEF LocksInvariant, Release
<1>4. /\ holder' \in [Issues -> Requests \cup {"none", "sched"}] /\ holder'[i] = "none"
      /\ \A j \in Issues : j # i => holder'[j] = holder[j]
    BY ZenonT(60), <1>1 DEF LocksInvariant, Release
<1> HIDE DEF i
<1>5. \A q \in Requests : rem'[q].pc # "idle" => rem'[q].issue \in Issues /\ q # r /\ rem[q].issue # i
    BY <1>1, <1>2, <1>3 DEF LocksInvariant
<1>6. \A j \in Issues : \A q \in Requests : holder'[j] = q <=> rem'[q].pc # "idle" /\ rem'[q].issue = j
    BY <1>0, <1>1, <1>2, <1>3, <1>4, <1>5, ConstantsAssumption DEF LocksInvariant, RemovalAssumption
<1>7. \A j \in Issues : holder'[j] = "sched" <=> ret'.pc \in {"dir", "mark"} /\ j = Head(ret'.batch)
    BY <1>0, <1>1, <1>4 DEF LocksInvariant
<1>8. ASSUME NEW q \in Requests
      PROVE  /\ rem'[q].pc \in {"dir", "mark", "archive"} /\ rem'[q].kind # "force"
                   => \A j \in Issues : j = rem'[q].issue => ~Busy(j)'
             /\ rem'[q].pc = "containers" => rem'[q].kind = "force"
             /\ rem'[q].pc # "idle" => rem'[q].kind \in Kinds
    <2>1. CASE q = r
        BY Zenon, <1>2, <1>3, <2>1
    <2>2. CASE q # r
        <3>1. rem'[q] = rem[q]
            BY Zenon, <1>3, <2>2
        <3>2. rem[q].pc \in {"dir", "mark", "archive"} /\ rem[q].kind # "force"
                 => \A j \in Issues : j = rem[q].issue => ~Busy(j)'
            BY DEF Calm, LocksInvariant, RemoversSeeIdle
        <3> QED
            BY <3>1, <3>2 DEF LocksInvariant, RemoversSeeIdle
    <2> QED
        BY Zenon, <2>1, <2>2
<1>9. RemoversSeeIdle'
    <2>1. \A p \in Requests : rem'[p].pc \in {"dir", "mark", "archive"} => rem'[p].issue \in Issues
        BY Zenon, <1>5
    <2>2. \A p \in Requests : rem'[p].pc \in {"dir", "mark", "archive"} /\ rem'[p].kind # "force"
                                => ~Busy(rem[p].issue)'
        BY Zenon, <1>8, <2>1 DEF Busy, TasksOf, Created
    <2> QED
        BY Zenon, <1>8, <2>2, PassUndisturbed DEF RemoversSeeIdle
<1> QED
    BY ZenonT(60), <1>3, <1>4, <1>5, <1>6, <1>7, <1>9 DEF LocksInvariant

(* A request that holds the row goes on. *)
LEMMA AdvanceStep ==
    ASSUME LocksInvariant, NEW r \in Requests, NEW q \in RequestType,
           rem' = [rem EXCEPT ![r] = q], q.pc # "idle", q.issue \in Issues, q.kind \in Kinds,
           \/ UNCHANGED holder /\ rem[r].pc # "idle" /\ q.issue = rem[r].issue
           \/ /\ rem[r].pc = "idle" /\ holder[q.issue] = "none"
              /\ holder' = [holder EXCEPT ![q.issue] = r],
           q.pc \in {"dir", "mark", "archive"} /\ q.kind # "force" => ~Busy(q.issue),
           q.pc = "containers" => q.kind = "force",
           UNCHANGED ret, Calm
    PROVE  LocksInvariant'
<1>0. r \notin {"none", "sched"} /\ "none" \notin Requests /\ "sched" \notin Requests
    BY Zenon, ConstantsAssumption DEF RemovalAssumption
<1>1. /\ rem' \in [Requests -> RequestType] /\ rem'[r] = q
      /\ \A p \in Requests : p # r => rem'[p] = rem[p]
    BY ZenonT(60) DEF LocksInvariant
<1>2. /\ holder' \in [Issues -> Requests \cup {"none", "sched"}] /\ holder'[q.issue] = r
      /\ holder[q.issue] \in {r, "none"}
      /\ \A j \in Issues : j # q.issue => holder'[j] = holder[j]
    BY DEF LocksInvariant
<1>3. \A p \in Requests : rem'[p].pc # "idle" => rem'[p].issue \in Issues
    BY ZenonT(60), <1>1 DEF LocksInvariant
<1>4. \A p \in Requests : p # r /\ rem[p].pc # "idle" => rem[p].issue # q.issue
    BY <1>0, <1>2 DEF LocksInvariant
<1>5. \A j \in Issues : holder[j] = r => j = q.issue
    BY <1>0 DEF LocksInvariant
<1>6. \A j \in Issues : \A p \in Requests : holder'[j] = p <=> rem'[p].pc # "idle" /\ rem'[p].issue = j
    BY SMTT(30), <1>0, <1>1, <1>2, <1>4, <1>5 DEF LocksInvariant
<1>7. \A j \in Issues : holder'[j] = "sched" <=> ret'.pc \in {"dir", "mark"} /\ j = Head(ret'.batch)
    BY <1>0, <1>2 DEF LocksInvariant
<1>8. ASSUME NEW p \in Requests
      PROVE  /\ rem'[p].pc \in {"dir", "mark", "archive"} /\ rem'[p].kind # "force"
                   => \A j \in Issues : j = rem'[p].issue => ~Busy(j)'
             /\ rem'[p].pc = "containers" => rem'[p].kind = "force"
             /\ rem'[p].pc # "idle" => rem'[p].kind \in Kinds
    <2>1. CASE p = r
        <3>1. q.pc \in {"dir", "mark", "archive"} /\ q.kind # "force"
                 => \A j \in Issues : j = q.issue => ~Busy(j)'
            BY Zenon DEF Calm
        <3> QED
            BY Zenon, <1>1, <2>1, <3>1
    <2>2. CASE p # r
        <3>1. rem'[p] = rem[p]
            BY Zenon, <1>1, <2>2
        <3>2. rem[p].pc \in {"dir", "mark", "archive"} /\ rem[p].kind # "force"
                 => \A j \in Issues : j = rem[p].issue => ~Busy(j)'
            BY DEF Calm, LocksInvariant, RemoversSeeIdle
        <3> QED
            BY <3>1, <3>2 DEF LocksInvariant, RemoversSeeIdle
    <2> QED
        BY Zenon, <2>1, <2>2
<1>9. RemoversSeeIdle'
    <2>1. \A p \in Requests : rem'[p].pc \in {"dir", "mark", "archive"} => rem'[p].issue \in Issues
        BY Zenon, <1>3
    <2>2. \A p \in Requests : rem'[p].pc \in {"dir", "mark", "archive"} /\ rem'[p].kind # "force"
                                => ~Busy(rem[p].issue)'
        BY Zenon, <1>8, <2>1 DEF Busy, TasksOf, Created
    <2> QED
        BY Zenon, <1>8, <2>2, PassUndisturbed DEF RemoversSeeIdle
<1> QED
    BY Zenon, <1>1, <1>2, <1>3, <1>6, <1>7, <1>9 DEF LocksInvariant

(* A step that leaves rows, threads and containers alone. *)
LEMMA RowsIdle ==
    ASSUME RowsInvariant, UNCHANGED <<rows, workers, lost>>
    PROVE  RowsInvariant' /\ Calm
<1>1. TasksInTurn' /\ \A i : Busy(i)' <=> Busy(i)
    BY Zenon, RowsStay DEF rows
<1>2. RowsInvariant'
    BY ZenonT(60), <1>1 DEF RowsInvariant, rows, workers, RemovalIsSafe, WorkspaceKept, PlainDeletionIsIdle,
                ArchivedAreGone, Tended
<1> QED
    BY Zenon, <1>1, <1>2 DEF Calm, StaysFresh, Stale, rows

LEMMA LockIssueStep ==
    ASSUME RowsInvariant, LocksInvariant, NEW r \in Requests, NEW i \in Issues, LockIssue(r, i)
    PROVE  RowsInvariant' /\ LocksInvariant'
<1>1. RowsInvariant' /\ Calm
    BY Zenon, RowsIdle DEF LockIssue
<1>2. PICK k \in Kinds : rem' = [rem EXCEPT ![r] = [kind |-> k, pc |-> "count", issue |-> i, seen |-> {}]]
    BY Zenon DEF LockIssue
<1> DEFINE q == [kind |-> k, pc |-> "count", issue |-> i, seen |-> {}]
<1>3. rem' = [rem EXCEPT ![r] = q]
    BY Zenon, <1>2
<1>4. q \in RequestType /\ q.pc = "count" /\ q.issue = i /\ q.kind = k
    BY Zenon DEF RequestType
<1> HIDE DEF q
<1>5. LocksInvariant'
    BY Zenon, <1>1, <1>3, <1>4, AdvanceStep DEF LockIssue
<1> QED
    BY Zenon, <1>1, <1>5

LEMMA CountActiveStep ==
    ASSUME RowsInvariant, LocksInvariant, NEW r \in Requests, CountActive(r)
    PROVE  RowsInvariant' /\ LocksInvariant'
<1> DEFINE i == rem[r].issue
           found == {Row(t) : t \in TasksOf(i)}
           pc == IF rem[r].kind = "force" THEN "containers" ELSE "dir"
           m == [rem[r] EXCEPT !.seen = found]
           q == [m EXCEPT !.pc = pc]
<1>1. RowsInvariant' /\ Calm
    BY Zenon, RowsIdle DEF CountActive
<1>2. /\ rem[r] \in RequestType /\ rem[r].pc = "count" /\ i \in Issues /\ rem[r].kind \in Kinds
    BY ZenonT(60) DEF CountActive, LocksInvariant, RemoversSeeIdle
<1>3. CASE Busy(i) /\ rem[r].kind # "force"
    BY Zenon, <1>1, <1>2, <1>3, ReleaseStep DEF CountActive
<1>4. CASE ~(Busy(i) /\ rem[r].kind # "force")
    <2>1. found \in SUBSET RowType
        <3>1. \A t \in TasksOf(i) : t \in Tasks /\ task[t] \in TaskType
            BY Zenon DEF TasksOf, Created, RowsInvariant
        <3>2. \A t \in TasksOf(i) : Row(t) \in RowType
            BY Zenon, <3>1 DEF Row, RowType, TaskType
        <3> QED
            BY Zenon, <3>2
    <2>2. rem' = [rem EXCEPT ![r] = q] /\ holder' = holder
        BY <1>2, <1>4 DEF CountActive, LocksInvariant, RequestType
    <2> HIDE DEF found
    <2>3. m \in RequestType /\ m.issue = i /\ m.kind = rem[r].kind
        BY Zenon, <1>2, <2>1 DEF RequestType
    <2> HIDE DEF m
    <2>4. q \in RequestType /\ q.issue = i /\ q.kind = rem[r].kind /\ q.pc = pc
        BY Zenon, <2>3 DEF RequestType
    <2>5. pc \in {"containers", "dir"} /\ (pc = "containers" <=> rem[r].kind = "force")
        OBVIOUS
    <2> HIDE DEF q, pc
    <2>6. LocksInvariant'
        BY Zenon, <1>1, <1>2, <1>4, <2>2, <2>4, <2>5, AdvanceStep DEF CountActive
    <2> QED
        BY Zenon, <1>1, <2>6
<1> QED
    BY Zenon, <1>3, <1>4

(* A request that goes on to another step with what it has read. *)
LEMMA StepsOn ==
    ASSUME LocksInvariant, NEW r \in Requests, NEW pc \in {"dir", "mark", "archive"},
           rem[r].pc # "idle", Step(r, pc), UNCHANGED <<holder, ret>>, Calm,
           rem[r].kind # "force" => ~Busy(rem[r].issue)
    PROVE  LocksInvariant'
<1> DEFINE q == [rem[r] EXCEPT !.pc = pc]
<1>1. /\ rem[r] \in RequestType /\ rem[r].issue \in Issues /\ rem[r].kind \in Kinds
    BY Zenon DEF LocksInvariant, RemoversSeeIdle
<1>2. rem' = [rem EXCEPT ![r] = q]
    BY Zenon DEF Step, LocksInvariant
<1>3. q \in RequestType /\ q.pc = pc /\ q.issue = rem[r].issue /\ q.kind = rem[r].kind
    BY Zenon, <1>1 DEF RequestType
<1> HIDE DEF q
<1> QED
    BY Zenon, <1>1, <1>2, <1>3, AdvanceStep

LEMMA ForceContainersStep ==
    ASSUME RowsInvariant, LocksInvariant, NEW r \in Requests, ForceContainers(r)
    PROVE  RowsInvariant' /\ LocksInvariant'
<1>1. "force" \in Kinds /\ rem[r].kind = "force" /\ rem[r].pc # "idle"
    BY DEF ForceContainers, LocksInvariant, RemoversSeeIdle
<1>2. TasksInTurn' /\ (\A i : Busy(i)' <=> Busy(i)) /\ UNCHANGED <<issue, task, stats, thread, lost, ret>>
    BY Zenon, RowsStay DEF ForceContainers, rows
<1>3. cont' \in [Tasks -> Containers]
    BY Zenon DEF ForceContainers, RowsInvariant, Containers
<1>4. RowsInvariant'
    BY Zenon, <1>1, <1>2, <1>3 DEF RowsInvariant, RemovalIsSafe, WorkspaceKept, PlainDeletionIsIdle
<1>5. Calm
    BY Zenon, <1>2 DEF Calm, StaysFresh, Stale
<1>6. \/ Step(r, "dir") /\ UNCHANGED holder
      \/ Release(r, rem[r].issue)
    BY Zenon DEF ForceContainers
<1>7. LocksInvariant'
    <2>1. CASE Step(r, "dir") /\ UNCHANGED holder
        BY Zenon, <1>1, <1>2, <1>5, <2>1, StepsOn
    <2>2. CASE Release(r, rem[r].issue)
        BY Zenon, <1>1, <1>2, <1>5, <2>2, ReleaseStep
    <2> QED
        BY Zenon, <1>6, <2>1, <2>2
<1> QED
    BY Zenon, <1>4, <1>7

LEMMA RemoveDirectoryStep ==
    ASSUME RowsInvariant, LocksInvariant, NEW r \in Requests, RemoveDirectory(r)
    PROVE  RowsInvariant' /\ LocksInvariant'
<1> DEFINE i == rem[r].issue
<1>1. rem[r].pc = "dir" /\ (rem[r].kind # "force" => ~Busy(i))
    BY Zenon DEF RemoveDirectory, LocksInvariant, RemoversSeeIdle
<1>2. rem[r].kind # "force" => {t \in TasksOf(i) : task[t].st \in ActiveStatus} = {}
    BY Zenon, <1>1 DEF Busy
<1>3. lost' = lost
    BY Zenon, <1>2 DEF RemoveDirectory, Removed, RowsInvariant, RemovalIsSafe, WorkspaceKept
<1>4. RowsInvariant' /\ Calm
    BY Zenon, <1>3, RowsIdle DEF RemoveDirectory
<1>5. \/ Step(r, "mark") /\ UNCHANGED holder
      \/ Step(r, "archive") /\ UNCHANGED holder
      \/ Release(r, i)
    BY Zenon DEF RemoveDirectory
<1>6. LocksInvariant'
    <2>1. CASE Step(r, "mark") /\ UNCHANGED holder
        BY Zenon, <1>1, <1>4, <2>1, StepsOn DEF RemoveDirectory
    <2>2. CASE Step(r, "archive") /\ UNCHANGED holder
        BY Zenon, <1>1, <1>4, <2>2, StepsOn DEF RemoveDirectory
    <2>3. CASE Release(r, i)
        BY Zenon, <1>1, <1>4, <2>3, ReleaseStep DEF RemoveDirectory
    <2> QED
        BY Zenon, <1>5, <2>1, <2>2, <2>3
<1> QED
    BY Zenon, <1>4, <1>6

(* The Issue row says that its workspace is gone. *)
LEMMA IssueRetired ==
    ASSUME RowsInvariant, NEW i, issue' = [issue EXCEPT ![i].wsDeleted = TRUE],
           UNCHANGED <<task, stats, workers, lost>>
    PROVE  RowsInvariant' /\ Calm
<1>1. issue' \in [Issues -> IssueType] /\ StaysFresh
    <2>1. CASE i \in Issues
        <3> DEFINE v == [issue[i] EXCEPT !.wsDeleted = TRUE]
        <3>1. issue[i] \in IssueType /\ issue' = [issue EXCEPT ![i] = v]
            BY Zenon, <2>1 DEF RowsInvariant
        <3>2. v \in IssueType /\ v.wsDeleted = TRUE
            BY Zenon, <3>1, Booleans DEF IssueType
        <3> HIDE DEF v
        <3>3. /\ issue' \in [Issues -> IssueType] /\ issue'[i] = v
              /\ \A j \in Issues : j # i => issue'[j] = issue[j]
            BY Zenon, <2>1, <3>1, <3>2 DEF RowsInvariant
        <3> QED
            BY Zenon, <3>2, <3>3 DEF StaysFresh, Stale
    <2>2. CASE i \notin Issues
        BY Zenon, <2>2 DEF RowsInvariant, StaysFresh, Stale
    <2> QED
        BY Zenon, <2>1, <2>2
<1>2. TasksInTurn' /\ \A j : Busy(j)' <=> Busy(j)
    BY Zenon, RowsStay
<1>3. RowsInvariant'
    BY ZenonT(60), <1>1, <1>2 DEF RowsInvariant, workers, RemovalIsSafe, WorkspaceKept, PlainDeletionIsIdle,
                      ArchivedAreGone, Tended
<1> QED
    BY Zenon, <1>1, <1>2, <1>3 DEF Calm

LEMMA MarkDeletedStep ==
    ASSUME RowsInvariant, LocksInvariant, NEW r \in Requests, MarkDeleted(r)
    PROVE  RowsInvariant' /\ LocksInvariant'
<1>1. RowsInvariant' /\ Calm
    BY Zenon, IssueRetired DEF MarkDeleted
<1>2. LocksInvariant'
    BY Zenon, <1>1, ReleaseStep DEF MarkDeleted
<1> QED
    BY Zenon, <1>1, <1>2

(* The rows go and the archive keeps them: without force they were all     *)
(* finished and their containers gone.                                     *)
LEMMA DeleteIssueStep ==
    ASSUME RowsInvariant, LocksInvariant, NEW r \in Requests, DeleteIssue(r)
    PROVE  RowsInvariant' /\ LocksInvariant'
<1> DEFINE i == rem[r].issue
           gone(t) == [task[t] EXCEPT !.st = "deleted", !.ref = FALSE]
<1>1. /\ rem[r].pc = "archive" /\ i \in Issues /\ rem[r].kind \in Kinds
      /\ rem[r].kind # "force" => ~Busy(i)
    BY Zenon DEF DeleteIssue, LocksInvariant, RemoversSeeIdle
<1>2. /\ task' = [t \in Tasks |-> IF t \in TasksOf(i) THEN gone(t) ELSE task[t]]
      /\ stats' = [stats EXCEPT ![i] = {Row(t) : t \in TasksOf(i)}]
      /\ issue' = [issue EXCEPT ![i].there = FALSE]
      /\ UNCHANGED <<cont, thread, lost, ret>> /\ Release(r, i)
    BY Zenon DEF DeleteIssue, Archive, workers
<1>3. \A t \in Tasks : /\ gone(t) \in TaskType /\ gone(t).st = "deleted" /\ ~gone(t).ref
                       /\ gone(t).issue = task[t].issue
    <2> TAKE t \in Tasks
    <2> DEFINE m == [task[t] EXCEPT !.st = "deleted"]
    <2>1. m \in TaskType /\ m.st = "deleted" /\ m.issue = task[t].issue
        BY Zenon DEF RowsInvariant, TaskType, Statuses
    <2>2. gone(t) = [m EXCEPT !.ref = FALSE]
        BY Zenon DEF RowsInvariant, TaskType
    <2> HIDE DEF m, gone
    <2> QED
        BY ZenonT(60), <2>1, <2>2, Booleans DEF TaskType
<1> HIDE DEF gone, i
<1>4. /\ task' \in [Tasks -> TaskType]
      /\ \A t \in Tasks : /\ task'[t].issue = task[t].issue
                          /\ t \in TasksOf(i) => task'[t].st = "deleted" /\ ~task'[t].ref
                          /\ t \notin TasksOf(i) => task'[t] = task[t]
    BY Zenon, <1>2, <1>3 DEF RowsInvariant
<1>5. Created' = Created
    BY Zenon, <1>4 DEF Created, TasksOf
<1>6. TasksInTurn'
    <2>1. PICK n \in 0 .. MaxTasks : Created = 1 .. n /\ \A t \in 1 .. n : task[t].issue \in Issues
        BY Zenon DEF RowsInvariant, TasksInTurn
    <2>2. \A t \in 1 .. n : task'[t].issue \in Issues
        BY Zenon, <1>4, <2>1 DEF Created
    <2> QED
        BY ZenonT(60), <1>5, <2>1, <2>2 DEF TasksInTurn
<1>7. issue' \in [Issues -> IssueType] /\ StaysFresh
    <2> DEFINE v == [issue[i] EXCEPT !.there = FALSE]
    <2>1. issue[i] \in IssueType /\ issue' = [issue EXCEPT ![i] = v]
        BY Zenon, <1>1, <1>2 DEF RowsInvariant
    <2>2. v \in IssueType /\ v.there = FALSE
        BY Zenon, <2>1, Booleans DEF IssueType
    <2> HIDE DEF v
    <2>3. /\ issue' \in [Issues -> IssueType] /\ issue'[i] = v
          /\ \A j \in Issues : j # i => issue'[j] = issue[j]
        BY ZenonT(60), <1>1, <2>1, <2>2 DEF RowsInvariant
    <2> QED
        BY Zenon, <2>2, <2>3 DEF StaysFresh, Stale
<1>8. Calm
    <2>1. ASSUME NEW j \in Issues, Busy(j)' PROVE Busy(j)
        <3>1. PICK u \in Tasks : /\ u \in Created /\ task'[u].issue = j /\ task'[u].st # "deleted"
                                 /\ task'[u].st \in ActiveStatus \/ task'[u].ref
            BY ZenonT(60), <1>5, <2>1 DEF Busy, TasksOf, Created
        <3>2. task'[u] = task[u]
            BY Zenon, <1>4, <3>1
        <3> QED
            BY ZenonT(60), <3>1, <3>2 DEF Busy, TasksOf
    <2> QED
        BY Zenon, <1>7, <2>1 DEF Calm
<1>9. stats' \in [Issues -> SUBSET RowType]
    <2>1. \A t \in TasksOf(i) : t \in Tasks /\ task[t] \in TaskType
        BY Zenon DEF TasksOf, Created, RowsInvariant
    <2>2. \A t \in TasksOf(i) : Row(t) \in RowType
        BY Zenon, <2>1 DEF Row, RowType, TaskType
    <2> QED
        BY ZenonT(60), <1>1, <1>2, <2>2 DEF RowsInvariant
<1>10. ASSUME "force" \notin Kinds
       PROVE  ArchivedAreGone' /\ PlainDeletionIsIdle' /\ \A t \in Tasks : Tended(t)'
    <2>1. \A t \in TasksOf(i) : /\ t \in Tasks /\ task[t].st = "done" /\ ~task[t].ref
                                /\ cont[t] = "none" /\ thread[t] \in {"ended", "used", "off"}
        BY ZenonT(60), <1>1, <1>10 DEF Busy, TasksOf, Created, ActiveStatus, RowsInvariant, Tended, TaskType, Statuses
    <2>2. \A t \in Tasks : Tended(t)'
        BY ZenonT(60), <1>2, <1>4, <1>10, <2>1 DEF RowsInvariant, Tended
    <2>3. ASSUME NEW j \in Issues, NEW x \in stats'[j]
          PROVE  x.st = "done" /\ ~x.ref /\ cont'[x.task] = "none" /\ task'[x.task].st = "deleted"
        <3>1. CASE j = i /\ x \in {Row(t) : t \in TasksOf(i)}
            BY <1>2, <1>4, <2>1, <3>1 DEF Row
        <3>2. CASE x \in stats[j]
            <4>1. x.task \in Tasks /\ task[x.task].st = "deleted" /\ x.task \notin TasksOf(i)
                BY SMTT(30), <1>10, <3>2 DEF RowsInvariant, RowType, ArchivedAreGone, TasksOf
            <4> QED
                BY ZenonT(60), <1>2, <1>4, <1>10, <3>2, <4>1 DEF RowsInvariant, RemovalIsSafe, PlainDeletionIsIdle
        <3> QED
            BY Zenon, <1>1, <1>2, <2>3, <3>1, <3>2 DEF RowsInvariant
    <2> QED
        BY Zenon, <2>2, <2>3 DEF ArchivedAreGone, PlainDeletionIsIdle
<1>11. RowsInvariant'
    BY Zenon, <1>2, <1>4, <1>6, <1>7, <1>9, <1>10
       DEF RowsInvariant, RemovalIsSafe, WorkspaceKept, PlainDeletionIsIdle
<1>12. LocksInvariant'
    BY Zenon, <1>1, <1>2, <1>8, ReleaseStep DEF i
<1> QED
    BY Zenon, <1>11, <1>12

-----------------------------------------------------------------------------
(* Steps of the retention pass. *)

(* The requests keep what they rely on while nobody gives them work. *)
LEMMA RequestsUndisturbed ==
    ASSUME LocksInvariant, Calm, UNCHANGED rem
    PROVE  \A r \in Requests :
              /\ rem'[r].pc \in {"dir", "mark", "archive"} /\ rem'[r].kind # "force"
                    => ~Busy(rem[r].issue)'
              /\ rem'[r].pc = "containers" => rem'[r].kind = "force"
              /\ rem'[r].pc # "idle" => rem'[r].kind \in Kinds
<1> TAKE r \in Requests
<1>1. rem[r].pc # "idle" => rem[r].issue \in Issues
    BY Zenon DEF LocksInvariant
<1>2. \A j \in Issues : ~Busy(j) => ~Busy(j)'
    BY Zenon DEF Calm
<1>3. ASSUME rem[r].pc \in {"dir", "mark", "archive"}, rem[r].kind # "force"
      PROVE  ~Busy(rem[r].issue)'
    <2>1. rem[r].issue \in Issues /\ ~Busy(rem[r].issue)
        BY ZenonT(60), <1>1, <1>3 DEF LocksInvariant, RemoversSeeIdle
    <2>2. \A j \in Issues : j = rem[r].issue => ~Busy(j)'
        BY ZenonT(60), <1>2, <2>1
    <2> QED
        BY ZenonT(60), <2>1, <2>2 DEF Busy, TasksOf, Created
<1> QED
    BY Zenon, <1>3 DEF LocksInvariant, RemoversSeeIdle

LEMMA NextCandidateType ==
    ASSUME NextCandidate
    PROVE  ret' = [pc |-> ret'.pc, batch |-> ret'.batch] /\ ret'.pc \in {"idle", "select"}
BY Zenon DEF NextCandidate, Resting

(* The pass looks for candidates and holds no row. *)
LEMMA PassLooks ==
    ASSUME LocksInvariant, Calm, UNCHANGED <<rem, holder>>, ret.pc \in {"idle", "select", "lock"},
           ret' = [pc |-> ret'.pc, batch |-> ret'.batch], ret'.pc \in {"idle", "select", "lock"},
           ret'.pc = "lock" => \A i \in Issues : i = Head(ret'.batch) => ~Busy(i)'
    PROVE  LocksInvariant'
<1>1. RemoversSeeIdle'
    BY Zenon, RequestsUndisturbed DEF RemoversSeeIdle
<1> QED
    BY <1>1 DEF LocksInvariant

(* The pass gives the row of its candidate back. *)
LEMMA PassReleases ==
    ASSUME LocksInvariant, Calm, UNCHANGED rem, ret.pc \in {"dir", "mark"}, NextCandidate,
           holder' = [holder EXCEPT ![Head(ret.batch)] = "none"]
    PROVE  LocksInvariant'
<1>0. "none" \notin Requests /\ "sched" \notin Requests
    BY Zenon, ConstantsAssumption DEF RemovalAssumption
<1>1. ret' = [pc |-> ret'.pc, batch |-> ret'.batch] /\ ret'.pc \in {"idle", "select"}
    BY Zenon, NextCandidateType
<1>2. RemoversSeeIdle'
    BY Zenon, <1>1, RequestsUndisturbed DEF RemoversSeeIdle
<1>3. /\ holder' \in [Issues -> Requests \cup {"none", "sched"}]
      /\ \A j \in Issues : IF holder[j] = "sched" THEN holder'[j] = "none" ELSE holder'[j] = holder[j]
    BY ZenonT(60) DEF LocksInvariant
<1>4. \A j \in Issues : holder'[j] # "sched" /\ \A r \in Requests : holder'[j] = r <=> holder[j] = r
    BY Zenon, <1>0, <1>3
<1> QED
    BY SMTT(30), <1>1, <1>2, <1>3, <1>4 DEF LocksInvariant

LEMMA ScanStep ==
    ASSUME RowsInvariant, LocksInvariant, Scan
    PROVE  RowsInvariant' /\ LocksInvariant'
<1>1. RowsInvariant' /\ Calm
    BY Zenon, RowsIdle DEF Scan
<1>2. ret' = [pc |-> ret'.pc, batch |-> ret'.batch] /\ ret'.pc = "select"
    BY Zenon DEF Scan
<1>3. LocksInvariant'
    BY Zenon, <1>1, <1>2, PassLooks DEF Scan
<1> QED
    BY Zenon, <1>1, <1>3

LEMMA SelectStep ==
    ASSUME RowsInvariant, LocksInvariant, Select
    PROVE  RowsInvariant' /\ LocksInvariant'
<1> DEFINE i == Head(ret.batch)
<1>1. RowsInvariant' /\ Calm
    BY ZenonT(60), RowsIdle DEF Select
<1>2. CASE Stale(i) /\ ~Busy(i)
    <2>1. ret' = [pc |-> "lock", batch |-> ret.batch]
        BY <1>2 DEF Select, LocksInvariant
    <2>2. ret' = [pc |-> ret'.pc, batch |-> ret'.batch] /\ ret'.pc = "lock" /\ Head(ret'.batch) = i
        BY Zenon, <2>1
    <2>3. \A j \in Issues : j = Head(ret'.batch) => ~Busy(j)'
        BY Zenon, <1>1, <1>2, <2>2 DEF Calm
    <2>4. LocksInvariant'
        BY Zenon, <1>1, <2>2, <2>3, PassLooks DEF Select
    <2> QED
        BY Zenon, <1>1, <2>4
<1>3. CASE ~(Stale(i) /\ ~Busy(i))
    <2>1. NextCandidate
        BY Zenon, <1>3 DEF Select
    <2>2. LocksInvariant'
        BY Zenon, <1>1, <2>1, NextCandidateType, PassLooks DEF Select
    <2> QED
        BY Zenon, <1>1, <2>2
<1> QED
    BY Zenon, <1>2, <1>3

LEMMA LockCandidateStep ==
    ASSUME RowsInvariant, LocksInvariant, LockCandidate
    PROVE  RowsInvariant' /\ LocksInvariant'
<1> DEFINE i == Head(ret.batch)
<1>0. "none" \notin Requests /\ "sched" \notin Requests
    BY Zenon, ConstantsAssumption DEF RemovalAssumption
<1>1. RowsInvariant' /\ Calm
    BY Zenon, RowsIdle DEF LockCandidate
<1>2. CASE holder[i] = "none" /\ Stale(i)
    <2>1. ret.pc = "lock" /\ ret' = [pc |-> "dir", batch |-> ret.batch]
        BY <1>2 DEF LockCandidate, LocksInvariant
    <2>2. ret' = [pc |-> ret'.pc, batch |-> ret'.batch] /\ ret'.pc = "dir" /\ Head(ret'.batch) = i
        BY Zenon, <2>1
    <2>3. holder' = [holder EXCEPT ![i] = "sched"]
        BY Zenon, <1>2 DEF LockCandidate
    <2>4. /\ holder' \in [Issues -> Requests \cup {"none", "sched"}]
          /\ \A j \in Issues : IF j = i THEN holder'[j] = "sched" ELSE holder'[j] = holder[j]
        BY Zenon, <2>3 DEF LocksInvariant
    <2>5. \A j \in Issues : /\ holder'[j] = "sched" <=> j = i
                            /\ \A r \in Requests : holder'[j] = r <=> holder[j] = r
        BY <1>0, <1>2, <2>1, <2>4 DEF LocksInvariant
    <2>6. \A j \in Issues : j = i => ~Busy(j)'
        BY <1>1, <1>2, <2>1 DEF Calm, LocksInvariant, RemoversSeeIdle
    <2>7. UNCHANGED rem
        BY Zenon DEF LockCandidate
    <2> HIDE DEF i
    <2>8. RemoversSeeIdle'
        BY Zenon, <1>1, <2>2, <2>6, <2>7, RequestsUndisturbed DEF RemoversSeeIdle
    <2>9. LocksInvariant'
        BY SMTT(30), <2>2, <2>4, <2>5, <2>7, <2>8 DEF LocksInvariant
    <2> QED
        BY Zenon, <1>1, <2>9
<1>3. CASE ~(holder[i] = "none" /\ Stale(i))
    <2>1. NextCandidate /\ UNCHANGED <<holder, rem>> /\ ret.pc = "lock"
        BY Zenon, <1>3 DEF LockCandidate
    <2>2. LocksInvariant'
        BY Zenon, <1>1, <2>1, NextCandidateType, PassLooks
    <2> QED
        BY Zenon, <1>1, <2>2
<1> QED
    BY Zenon, <1>2, <1>3

LEMMA RetireStep ==
    ASSUME RowsInvariant, LocksInvariant, NEW i \in Issues, Retire(i)
    PROVE  RowsInvariant' /\ LocksInvariant'
<1>1. ~Busy(i) /\ ret.pc = "dir" /\ i = Head(ret.batch)
    BY Zenon DEF Retire, LocksInvariant, RemoversSeeIdle
<1>2. {t \in TasksOf(i) : task[t].st \in ActiveStatus} = {}
    BY Zenon, <1>1 DEF Busy
<1>3. lost' = lost
    BY Zenon, <1>2 DEF Retire, Removed, RowsInvariant, RemovalIsSafe, WorkspaceKept
<1>4. RowsInvariant' /\ Calm
    BY Zenon, <1>3, RowsIdle DEF Retire
<1>5. ret' = [pc |-> "mark", batch |-> ret.batch] /\ UNCHANGED <<rem, holder>>
    BY Zenon DEF Retire, LocksInvariant
<1>6. \A j \in Issues : j = Head(ret'.batch) => ~Busy(j)'
    BY Zenon, <1>1, <1>4, <1>5 DEF Calm
<1>7. RemoversSeeIdle'
    BY ZenonT(60), <1>4, <1>5, <1>6, RequestsUndisturbed DEF RemoversSeeIdle
<1>8. LocksInvariant'
    BY SMTT(30), <1>1, <1>5, <1>7 DEF LocksInvariant
<1> QED
    BY Zenon, <1>4, <1>8

LEMMA RetireFailsStep ==
    ASSUME RowsInvariant, LocksInvariant, NEW i \in Issues, RetireFails(i)
    PROVE  RowsInvariant' /\ LocksInvariant'
<1>1. RowsInvariant' /\ Calm
    BY Zenon, RowsIdle DEF RetireFails
<1>2. LocksInvariant'
    BY Zenon, <1>1, PassReleases DEF RetireFails
<1> QED
    BY Zenon, <1>1, <1>2

LEMMA MarkRetiredStep ==
    ASSUME RowsInvariant, LocksInvariant, MarkRetired
    PROVE  RowsInvariant' /\ LocksInvariant'
<1>1. RowsInvariant' /\ Calm
    BY Zenon, IssueRetired DEF MarkRetired
<1>2. LocksInvariant'
    BY Zenon, <1>1, PassReleases DEF MarkRetired
<1> QED
    BY Zenon, <1>1, <1>2

-----------------------------------------------------------------------------
(* The theorems. *)

LEMMA RemovalNext ==
    ASSUME RowsInvariant, LocksInvariant, Next
    PROVE  RowsInvariant' /\ LocksInvariant'
<1>1. ASSUME NEW i \in Issues, Create(i) \/ Age(i) PROVE RowsInvariant' /\ LocksInvariant'
    <2>1. WorkIsKept /\ UNCHANGED <<holder, rem, ret>>
        BY Zenon, <1>1, CreateStep, AgeStep DEF Create, Age
    <2> QED
        BY Zenon, <2>1, WorkStep DEF WorkIsKept
<1>2. ASSUME NEW t \in Tasks,
             CancelWaiting(t) \/ Claim(t) \/ Worker(t) \/ ContainerExits(t) \/ RemoveRetained(t)
      PROVE  RowsInvariant' /\ LocksInvariant'
    <2>1. WorkIsKept
        BY Zenon, <1>2, CancelWaitingStep, ClaimStep, CreateContainerStep, StoreReferenceStep,
           StartContainerStep, ContainerExitsStep, FinishStep, MarkUsedStep, RemoveContainerStep,
           RemoveRetainedStep DEF Worker
    <2>2. UNCHANGED <<holder, rem, ret>>
        BY Zenon, <1>2 DEF CancelWaiting, Claim, Worker, CreateContainer, StoreReference, StartContainer,
                    Finish, MarkUsed, RemoveContainer, ContainerExits, RemoveRetained
    <2> QED
        BY Zenon, <2>1, <2>2, WorkStep DEF WorkIsKept
<1>3. ASSUME NEW r \in Requests, Request(r) PROVE RowsInvariant' /\ LocksInvariant'
    BY ZenonT(60), <1>3, CountActiveStep, ForceContainersStep, RemoveDirectoryStep, MarkDeletedStep, DeleteIssueStep
       DEF Request
<1>4. ASSUME NEW r \in Requests, NEW i \in Issues, LockIssue(r, i) PROVE RowsInvariant' /\ LocksInvariant'
    BY Zenon, <1>4, LockIssueStep
<1>5. ASSUME Retention PROVE RowsInvariant' /\ LocksInvariant'
    BY ZenonT(60), <1>5, ScanStep, SelectStep, LockCandidateStep, RetireStep, RetireFailsStep, MarkRetiredStep
       DEF Retention
<1> QED
    BY Zenon, <1>1, <1>2, <1>3, <1>4, <1>5 DEF Next

LEMMA RemovalInit ==
    ASSUME Init PROVE RowsInvariant /\ LocksInvariant
<1>0. "none" \notin Requests /\ "sched" \notin Requests /\ MaxTasks \in Nat
    BY Zenon, ConstantsAssumption DEF RemovalAssumption
<1>1. Created = {}
    BY Zenon DEF Init, Created
<1>2. TasksInTurn
    <2>1. 0 \in 0 .. MaxTasks /\ 1 .. 0 = {}
        BY <1>0
    <2> QED
        BY Zenon, <1>1, <2>1 DEF TasksInTurn
<1>3. issue \in [Issues -> IssueType] /\ task \in [Tasks -> TaskType]
    BY Zenon, Booleans DEF Init, IssueType, TaskType, Statuses
<1>4. RowsInvariant
    BY ZenonT(60), <1>2, <1>3 DEF Init, RowsInvariant, Containers, Places, RemovalIsSafe, WorkspaceKept,
                      PlainDeletionIsIdle, ArchivedAreGone, Tended
<1>5. Idle \in RequestType /\ Idle.pc = "idle"
    BY Zenon DEF Idle, RequestType
<1>6. RemoversSeeIdle
    BY Zenon, <1>5 DEF Init, RemoversSeeIdle, Resting
<1>7. LocksInvariant
    BY Zenon, <1>0, <1>5, <1>6 DEF Init, LocksInvariant, Resting
<1> QED
    BY Zenon, <1>4, <1>7

(* The inductive invariant of removals: whoever is about to remove a       *)
(* workspace without force holds the row of an Issue without active tasks, *)
(* and rows, threads and containers of tasks go together.                  *)
THEOREM RemovalInvariantHolds == Spec => []RemovalInvariant
<1>1. Init => RowsInvariant /\ LocksInvariant
    BY Zenon, RemovalInit
<1>2. RowsInvariant /\ LocksInvariant /\ [Next]_vars => RowsInvariant' /\ LocksInvariant'
    <2>1. ASSUME RowsInvariant, LocksInvariant, UNCHANGED vars PROVE RowsInvariant' /\ LocksInvariant'
        <3>1. RowsInvariant' /\ Calm
            BY Zenon, <2>1, RowsIdle DEF vars, rows, workers
        <3>2. RemoversSeeIdle'
            BY ZenonT(60), <2>1, <3>1, RequestsUndisturbed, PassUndisturbed DEF vars, RemoversSeeIdle
        <3>3. LocksInvariant'
            BY <2>1, <3>2 DEF vars, LocksInvariant
        <3> QED
            BY Zenon, <3>1, <3>3
    <2> QED
        BY Zenon, <2>1, RemovalNext
<1> QED
    BY Zenon, <1>1, <1>2, InvariantSplits, PTL DEF Spec

(* No unforced removal takes the workspace of an active task, and an Issue *)
(* that was deleted without force had only finished tasks without a        *)
(* container (delete_issue, delete_task_workspace, the plain cleanup and   *)
(* _cleanup_workspace_batch).                                              *)
THEOREM RemovalsAreSafe == Spec => []RemovalIsSafe
<1>1. RemovalInvariant => RemovalIsSafe
    BY Zenon DEF RemovalInvariant
<1> QED
    BY Zenon, <1>1, RemovalInvariantHolds, PTL
=============================================================================
