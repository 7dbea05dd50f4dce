---------------------------- MODULE ScheduleProofs ----------------------------
(***************************************************************************)
(* Reservations for any number of Issues, tasks, requests and hours: no    *)
(* hour is overbooked, the bookings of an Issue keep its turn order, the   *)
(* schedule window is exact, and no circle of requests waits for locks.    *)
(* The bookings are not inductive: a request writes what it checked some   *)
(* steps earlier.  ScheduleInvariant adds that the check still holds while *)
(* the request keeps the Issue row and the slot.                           *)
(***************************************************************************)
EXTENDS ScheduleWindow, FiniteSetTheorems, SequenceTheorems, WellFoundedInduction, TLAPS

-----------------------------------------------------------------------------
(* Largest and smallest times. *)

(* A nonempty set of natural numbers has a least element. *)
LEMMA LeastTime ==
    ASSUME NEW T, T \subseteq Nat, T # {}
    PROVE  \E x \in T : \A y \in T : x <= y
<1> DEFINE Before == {p \in Nat \X Nat : p[1] < p[2]}
<1>1. Before = OpToRel(<, Nat)
    BY Zenon  DEF OpToRel
<1>2. \A x, y \in Nat : y < x => <<y, x>> \in Before
    OBVIOUS
<1>3. \E x \in T : \A y \in T : ~ (<<y, x>> \in OpToRel(<, Nat))
    BY Zenon, NatLessThanWellFounded, WFMin
<1> HIDE DEF Before
<1>4. PICK x \in T : \A y \in T : ~ (<<y, x>> \in Before)
    BY Zenon, <1>1, <1>3
<1>5. \A y \in T : ~ (y < x)
    BY Zenon, <1>2, <1>4
<1> QED
    BY <1>5

(* SetMin of a nonempty set of times is its smallest member. *)
LEMMA SetMinOfTimes ==
    ASSUME NEW S, S \subseteq 0..MaxTime, S # {}
    PROVE  SetMin(S) \in S /\ \A y \in S : SetMin(S) <= y
<1>1. S \subseteq Nat
    OBVIOUS
<1>2. \E x \in S : \A y \in S : x <= y
    BY Zenon, <1>1, LeastTime
<1> QED
    BY Zenon, <1>2 DEF SetMin

(* SetMax of a nonempty set of times is its largest member. *)
LEMMA SetMaxOfTimes ==
    ASSUME NEW S, S \subseteq 0..MaxTime, S # {}
    PROVE  SetMax(S) \in S /\ \A y \in S : y <= SetMax(S)
<1> DEFINE T == {MaxTime - x : x \in S}
<1>1. MaxTime \in Nat
    BY Zenon, ConstantsAssumption DEF ScheduleAssumption
<1>2. T \subseteq Nat /\ T # {}
    <2>1. \A x \in S : x \in Nat /\ x <= MaxTime
        BY <1>1
    <2>2. \A x \in S : MaxTime - x \in Nat
        BY <1>1, <2>1
    <2>3. T \subseteq Nat
        BY Zenon, <2>2
    <2> QED
        BY Zenon, <2>3
<1>3. PICK m \in T : \A y \in T : m <= y
    BY Zenon, <1>2, LeastTime
<1>4. PICK x \in S : m = MaxTime - x
    OBVIOUS
<1>5. \A y \in S : y <= x
    <2>1. SUFFICES ASSUME NEW y \in S PROVE y <= x
        OBVIOUS
    <2>2. MaxTime - y \in T
        OBVIOUS
    <2>3. m <= MaxTime - y
        BY Zenon, <1>3, <2>2
    <2> QED
        BY <1>1, <1>4, <2>3
<1>6. \E z \in S : \A y \in S : y <= z
    BY Zenon, <1>5
<1> QED
    BY Zenon, <1>6 DEF SetMax

-----------------------------------------------------------------------------
(* The window. *)

(* Typed rows and their fields. *)
LEMMA RowTypes ==
    ASSUME tasks \in Seq(TaskRow)
    PROVE  /\ Len(tasks) \in Nat /\ DOMAIN tasks = Ids
           /\ \A t \in Ids : /\ tasks[t] \in TaskRow /\ tasks[t].issue \in Issues
                             /\ tasks[t].seq \in Nat /\ tasks[t].at \in 0..MaxTime
                             /\ tasks[t].status \in Active \cup {"done"}
<1>1. \A t \in 1..Len(tasks) : tasks[t] \in TaskRow
    BY Zenon, ElementOfSeq
<1> QED
    BY Zenon, <1>1, LenProperties DEF Ids, TaskRow

(* What compute_schedule_window computes: a floor that all bookings below    *)
(* meet and one of them attains, and a ceiling likewise.                     *)
LEMMA WindowExact ==
    ASSUME tasks \in Seq(TaskRow), NEW i, NEW t \in Nat, NEW at \in Nat
    PROVE  InWindow(i, t, at) <=> Fits(i, t, at)
<1> DEFINE booked == {u \in ActiveOf(i) \ {t} : tasks[u].at # 0}
           below == {u \in booked : t \in ActiveOf(i) => u < t}
           above == {u \in booked : t \in ActiveOf(i) /\ u > t}
           lows == {tasks[u].at : u \in below}
           highs == {tasks[u].at : u \in above}
           lo == IF below = {} THEN 0 ELSE SetMax(lows)
           hi == IF above = {} THEN 0 ELSE SetMin(highs)
<1>1. Window(i, t) = [min |-> lo, max |-> hi]
    BY Zenon DEF Window
<1>2. /\ \A u \in booked : u \in Ids /\ tasks[u].at \in 1..MaxTime /\ u # t /\ u \in Nat
      /\ MaxTime \in Nat
    BY RowTypes, ConstantsAssumption DEF ActiveOf, Ids, ScheduleAssumption
<1>3. lows \subseteq 0..MaxTime /\ highs \subseteq 0..MaxTime
    BY SMTT(30), <1>2
<1>4. /\ below = {} => lo = 0
      /\ below # {} => \E u \in below : lo = tasks[u].at
      /\ \A u \in below : tasks[u].at <= lo
    <2>1. CASE below = {}
        BY Zenon, <2>1
    <2>2. CASE below # {}
        <3>1. lows # {}
            BY Zenon, <2>2
        <3> HIDE DEF lows
        <3>2. SetMax(lows) \in lows /\ \A y \in lows : y <= SetMax(lows)
            BY Zenon, <1>3, <3>1, SetMaxOfTimes
        <3> USE DEF lows
        <3> QED
            BY Zenon, <2>2, <3>2
    <2> QED
        BY Zenon, <2>1, <2>2
<1>5. /\ above = {} => hi = 0
      /\ above # {} => \E u \in above : hi = tasks[u].at
      /\ \A u \in above : hi <= tasks[u].at
    <2>1. CASE above = {}
        BY Zenon, <2>1
    <2>2. CASE above # {}
        <3>1. highs # {}
            BY Zenon, <2>2
        <3> HIDE DEF highs
        <3>2. SetMin(highs) \in highs /\ \A y \in highs : SetMin(highs) <= y
            BY Zenon, <1>3, <3>1, SetMinOfTimes
        <3> USE DEF highs
        <3> QED
            BY Zenon, <2>2, <3>2
    <2> QED
        BY Zenon, <2>1, <2>2
<1>6. Fits(i, t, at) <=> /\ \A u \in below : tasks[u].at <= at
                         /\ \A u \in above : at <= tasks[u].at
    BY <1>2 DEF Fits, FitsAmong
<1>7. InWindow(i, t, at) <=> /\ lo = 0 \/ hi = 0 \/ lo <= hi
                             /\ at >= lo
                             /\ hi = 0 \/ at <= hi
    BY <1>1 DEF InWindow, Within
<1>8. /\ \A u \in below : tasks[u].at \in 1..MaxTime
      /\ \A u \in above : tasks[u].at \in 1..MaxTime
    BY Zenon, <1>2
<1>9. lo \in Nat /\ hi \in Nat /\ (above # {} => hi # 0)
    <2> HIDE DEF lo, hi, below, above
    <2> QED
        BY <1>2, <1>4, <1>5, <1>8
<1> HIDE DEF lo, hi, below, above
<1>10. ASSUME Fits(i, t, at) PROVE InWindow(i, t, at)
    <2>1. at >= lo
        BY <1>4, <1>6, <1>10, <1>9
    <2>2. hi = 0 \/ at <= hi
        BY ZenonT(60), <1>5, <1>6, <1>10, <1>9
    <2> QED
        BY <1>7, <1>9, <2>1, <2>2
<1>11. ASSUME InWindow(i, t, at) PROVE Fits(i, t, at)
    <2>1. \A u \in below : tasks[u].at <= at
        BY SMTT(30), <1>4, <1>7, <1>8, <1>9, <1>11
    <2>2. \A u \in above : at <= tasks[u].at
        <3>1. SUFFICES ASSUME NEW u \in above PROVE at <= tasks[u].at
            OBVIOUS
        <3> QED
            BY SMTT(30), <1>5, <1>7, <1>8, <1>9, <1>11, <3>1
    <2> QED
        BY Zenon, <1>6, <2>1, <2>2
<1> QED
    BY Zenon, <1>10, <1>11
-----------------------------------------------------------------------------
(* What a step does to the bookings. *)

(* The table grows and a row keeps its Issue. *)
Grows ==
    /\ tasks' \in Seq(TaskRow) /\ Len(tasks) <= Len(tasks')
    /\ \A t \in Ids : tasks'[t].issue = tasks[t].issue

(* No task enters Issue i, and none of its tasks changes status or time. *)
Keeps(i) ==
    \A t \in Ids' : tasks'[t].issue = i =>
        t \in Ids /\ tasks'[t].status = tasks[t].status /\ tasks'[t].at = tasks[t].at

(* Every booking that counts after the step counted before it. *)
Shrinks ==
    /\ revived \subseteq revived'
    /\ \A t \in Ids' \ revived' : tasks'[t].status \in Active /\ tasks'[t].at # 0 =>
          t \in Ids /\ tasks[t].status \in Active /\ tasks'[t].at = tasks[t].at

(* Sets of task ids are finite. *)
LEMMA FewIds ==
    ASSUME NEW n \in Nat, NEW S, S \subseteq 1..n
    PROVE  IsFiniteSet(S) /\ Cardinality(S) \in Nat
<1>1. IsFiniteSet(1..n)
    BY FS_Interval
<1>2. S \in SUBSET (1..n)
    OBVIOUS
<1>3. IsFiniteSet(S)
    BY Zenon, <1>1, <1>2, FS_Subset
<1> QED
    BY Zenon, <1>3, FS_CardinalityType

(* Fewer ids, smaller count. *)
LEMMA FewerIds ==
    ASSUME NEW n \in Nat, NEW S, S \subseteq 1..n, NEW T, T \subseteq S
    PROVE  Cardinality(T) <= Cardinality(S)
<1>1. IsFiniteSet(S)
    BY Zenon, FewIds
<1>2. T \in SUBSET S
    OBVIOUS
<1> QED
    BY Zenon, <1>1, <1>2, FS_Subset

(* After a step that shrinks the bookings an hour holds no task it did not. *)
LEMMA ShrinksBooked ==
    ASSUME Grows, Shrinks, NEW s, NEW t
    PROVE  /\ Booked(s)' \subseteq Booked(s)
           /\ (Booked(s) \ {t})' \subseteq Booked(s) \ {t}
<1>1. Booked(s)' \subseteq Booked(s)
    BY Zenon DEF Shrinks, Booked
<1> QED
    BY Zenon, <1>1

(* SlotBounded and the turn order survive such a step. *)
LEMMA ShrinksKeepsBookings ==
    ASSUME ScheduleInvariant, Grows, Shrinks
    PROVE  SlotBounded' /\ ReservationsInTurnOrder'
<1>1. Len(tasks) \in Nat /\ SlotMax \in Nat
    BY Zenon, RowTypes, ConstantsAssumption DEF ScheduleInvariant, TypeOK, ScheduleAssumption
<1>2. SlotBounded'
    <2>1. SUFFICES ASSUME NEW s \in Slots PROVE Cardinality(Booked(s)') <= SlotMax
        BY Zenon DEF SlotBounded, Slots, Times
    <2>2. Booked(s)' \subseteq Booked(s) /\ Booked(s) \subseteq 1..Len(tasks)
        BY Zenon, ShrinksBooked DEF Booked, Ids
    <2>3. Cardinality(Booked(s)') <= Cardinality(Booked(s))
        BY Zenon, <1>1, <2>2, FewerIds
    <2>4. Cardinality(Booked(s)') \in Nat /\ Cardinality(Booked(s)) \in Nat
        BY ZenonT(60), <1>1, <2>2, FewIds
    <2>5. Cardinality(Booked(s)) <= SlotMax
        BY Zenon DEF ScheduleInvariant, SlotBounded
    <2> QED
        BY <1>1, <2>3, <2>4, <2>5
<1>3. ReservationsInTurnOrder'
    <2>1. SUFFICES ASSUME NEW t \in Ids' \ revived', NEW u \in Ids' \ revived', t < u,
                          tasks'[t].status \in Active, tasks'[u].status \in Active,
                          tasks'[t].issue = tasks'[u].issue,
                          tasks'[t].at # 0, tasks'[u].at # 0
                   PROVE  tasks'[t].at <= tasks'[u].at
        BY Zenon DEF ReservationsInTurnOrder, InOrder, ActiveIds
    <2>2. /\ t \in Ids \ revived /\ u \in Ids \ revived
          /\ tasks[t].status \in Active /\ tasks[u].status \in Active
          /\ tasks'[t].at = tasks[t].at /\ tasks'[u].at = tasks[u].at
        BY Zenon, <2>1 DEF Shrinks
    <2>3. tasks[t].issue = tasks[u].issue
        BY Zenon, <2>1, <2>2 DEF Grows
    <2> QED
        BY Zenon, <2>1, <2>2, <2>3 DEF ScheduleInvariant, ReservationsInTurnOrder, InOrder, ActiveIds
<1> QED
    BY Zenon, <1>2, <1>3

(* What a request checked still holds after a step that leaves the request   *)
(* and its Issue alone and adds no booking to its hour.                      *)
LEMMA ChecksStay ==
    ASSUME ScheduleInvariant, Grows, NEW r \in Requests, req'[r] = req[r],
           req[r].pc \in {"slot", "write"} => Keeps(req[r].issue),
           req[r].pc = "write" => Booked(Slot(req[r].at))' \subseteq Booked(Slot(req[r].at))
    PROVE  ChecksOf(r)'
<1>1. Len(tasks) \in Nat /\ Len(tasks') \in Nat /\ SlotMax \in Nat
    BY Zenon, RowTypes, LenProperties, ConstantsAssumption
       DEF ScheduleInvariant, TypeOK, ScheduleAssumption, Grows
<1>2. ChecksOf(r) /\ LocksOf(r) /\ req[r].task \in 0..Len(tasks)
    BY Zenon DEF ScheduleInvariant, TypeOK, Progress
<1> DEFINE q == req[r]
<1>3. ASSUME q.pc \in {"slot", "write"},
             NEW u \in Ids', tasks'[u].issue = q.issue, tasks'[u].status \in Active,
             u # q.task, tasks'[u].at # 0
      PROVE  IF /\ q.task \in Ids' /\ tasks'[q.task].issue = q.issue
                /\ tasks'[q.task].status \in Active /\ u > q.task
             THEN q.at <= tasks'[u].at ELSE tasks'[u].at <= q.at
    <2>1. u \in Ids /\ tasks'[u].status = tasks[u].status /\ tasks'[u].at = tasks[u].at
        BY Zenon, <1>3 DEF Keeps
    <2>2. tasks[u].issue = q.issue
        BY Zenon, <1>3, <2>1 DEF Grows
    <2>3. IF q.task \in ActiveOf(q.issue) /\ u > q.task
          THEN q.at <= tasks[u].at ELSE tasks[u].at <= q.at
        BY ZenonT(60), <1>2, <1>3, <2>1, <2>2 DEF ChecksOf, Fits, FitsAmong, ActiveOf
    <2>4. /\ q.task \in Ids' /\ tasks'[q.task].issue = q.issue /\ tasks'[q.task].status \in Active
          <=> q.task \in ActiveOf(q.issue)
        BY SMTT(60), <1>1, <1>2, <1>3 DEF Keeps, Grows, ActiveOf, Ids
    <2> QED
        BY Zenon, <2>1, <2>3, <2>4
<1>4. q.pc \in {"slot", "write"} => Fits(q.issue, q.task, q.at)'
    BY Zenon, <1>3 DEF Fits, FitsAmong, ActiveOf
<1>5. ASSUME q.pc = "write"
      PROVE  Cardinality((Booked(Slot(q.at)) \ {q.task})') < SlotMax
    <2>1. /\ (Booked(Slot(q.at)) \ {q.task})' \subseteq Booked(Slot(q.at)) \ {q.task}
          /\ Booked(Slot(q.at)) \ {q.task} \subseteq 1..Len(tasks)
        BY Zenon, <1>5 DEF Booked, Ids
    <2> QED
        BY SMTT(30), <1>1, <1>2, <1>5, <2>1, FewIds, FewerIds DEF ChecksOf
<1> QED
    BY Zenon, <1>4, <1>5 DEF ChecksOf
-----------------------------------------------------------------------------
(* Steps on single rows. *)

(* A request's record keeps its type when the table grows. *)
LEMMA ProgressGrows ==
    ASSUME TypeOK, Grows, NEW r \in Requests
    PROVE  req[r] \in Progress'
<1>1. Len(tasks) \in Nat /\ Len(tasks') \in Nat /\ Len(tasks) <= Len(tasks')
    BY Zenon, LenProperties DEF TypeOK, Grows
<1>2. 0..Len(tasks) \subseteq 0..Len(tasks')
    BY <1>1
<1>3. req[r] \in Progress
    BY Zenon DEF TypeOK
<1> QED
    BY Zenon, <1>2, <1>3 DEF Progress

(* A step that changes rows of Issues no request has locked, adds no booking *)
(* and leaves the requests alone preserves the invariant.                    *)
LEMMA RowStep ==
    ASSUME ScheduleInvariant, Grows, Shrinks,
           UNCHANGED <<rowLock, slotLock, req, moves, revived>>,
           kit' \in Kits, now' \in 0..MaxTime, owner' \in [Issues -> 0..Len(tasks')],
           \A i \in Issues : rowLock[i] # NoReq => Keeps(i)
    PROVE  ScheduleInvariant'
<1>1. Len(tasks) \in Nat /\ Len(tasks') \in Nat /\ Len(tasks) <= Len(tasks')
    BY Zenon, LenProperties DEF ScheduleInvariant, TypeOK, Grows
<1>2. TypeOK'
    <2>1. req' \in [Requests -> Progress']
        BY Zenon, ProgressGrows DEF ScheduleInvariant, TypeOK
    <2>2. revived' \subseteq Ids'
        BY <1>1 DEF ScheduleInvariant, TypeOK, Ids
    <2>3. Slots' = Slots
        BY Zenon DEF Slots, Times
    <2> QED
        BY Zenon, <2>1, <2>2, <2>3 DEF ScheduleInvariant, TypeOK, Grows
<1>3. ASSUME NEW r \in Requests PROVE LocksOf(r)' /\ ChecksOf(r)'
    <2>1. LocksOf(r) /\ req[r].task \in 0..Len(tasks)
        BY Zenon DEF ScheduleInvariant, TypeOK, Progress
    <2>2. req[r].task # 0 => tasks'[req[r].task].issue = tasks[req[r].task].issue
        BY <1>1, <2>1 DEF Grows, Ids
    <2>3. LocksOf(r)'
        BY Zenon, <2>1, <2>2 DEF LocksOf, Slots, Times
    <2>4. req[r].pc \in {"slot", "write"} => Keeps(req[r].issue)
        BY ZenonT(60), <2>1, ConstantsAssumption DEF LocksOf, ScheduleAssumption
    <2>5. Booked(Slot(req[r].at))' \subseteq Booked(Slot(req[r].at))
        BY Zenon DEF Booked, Shrinks
    <2>6. ChecksOf(r)'
        BY Zenon, <2>4, <2>5, ChecksStay
    <2> QED
        BY Zenon, <2>3, <2>6
<1> QED
    BY Zenon, <1>2, <1>3, ShrinksKeepsBookings DEF ScheduleInvariant

(* One row of the table replaced. *)
LEMMA RowReplaced ==
    ASSUME tasks \in Seq(TaskRow), NEW t \in Ids, NEW row \in TaskRow,
           row.issue = tasks[t].issue, tasks' = [tasks EXCEPT ![t] = row]
    PROVE  /\ Grows /\ Ids' = Ids /\ tasks'[t] = row
           /\ \A u \in Ids : u # t => tasks'[u] = tasks[u]
           /\ \A i : i # row.issue => Keeps(i)
<1>1. /\ tasks' \in Seq(TaskRow) /\ Len(tasks') = Len(tasks)
      /\ \A u \in Ids : tasks'[u] = IF u = t THEN row ELSE tasks[u]
    BY ExceptSeq DEF Ids
<1>2. Len(tasks) \in Nat
    BY Zenon, LenProperties
<1> QED
    BY <1>1, <1>2 DEF Grows, Ids, Keeps

(* Row: the status of one task of an unlocked Issue changes. *)
LEMMA RowChanges ==
    ASSUME ScheduleInvariant, NEW t \in Ids, NEW old, NEW new \in Active \cup {"done"},
           Row(t, old, new), new = "done" \/ tasks[t].status \in Active,
           UNCHANGED <<rowLock, slotLock, req, moves, revived>>,
           kit' \in Kits, now' \in 0..MaxTime, owner' \in [Issues -> 0..Len(tasks)]
    PROVE  ScheduleInvariant'
<1> DEFINE row == [tasks[t] EXCEPT !.status = new]
<1>1. tasks \in Seq(TaskRow) /\ tasks[t] \in TaskRow
    BY Zenon, RowTypes DEF ScheduleInvariant, TypeOK
<1>2. /\ row \in TaskRow /\ row.issue = tasks[t].issue /\ row.at = tasks[t].at
      /\ row.status = new
    BY Zenon, <1>1 DEF TaskRow
<1>3. tasks' = [tasks EXCEPT ![t] = row]
    BY Zenon DEF Row
<1> HIDE DEF row
<1>4. /\ Grows /\ Ids' = Ids /\ tasks'[t] = row
      /\ \A u \in Ids : u # t => tasks'[u] = tasks[u]
      /\ \A i : i # row.issue => Keeps(i)
    BY Zenon, <1>1, <1>2, <1>3, RowReplaced
<1>5. Shrinks
    BY Zenon, <1>2, <1>4 DEF Shrinks, Active
<1>6. \A i \in Issues : rowLock[i] # NoReq => Keeps(i)
    BY Zenon, <1>2, <1>4 DEF Row, Free
<1>7. Len(tasks') = Len(tasks)
    BY <1>1, <1>3, <1>2, ExceptSeq DEF Ids
<1> QED
    BY Zenon, <1>4, <1>5, <1>6, <1>7, RowStep

(* The table after Repaired: the rows keep their Issue, status and time. *)
LEMMA RepairedRows ==
    ASSUME tasks \in Seq(TaskRow), NEW i
    PROVE  /\ Repaired(i) \in Seq(TaskRow) /\ Len(Repaired(i)) = Len(tasks)
           /\ \A t \in Ids : /\ Repaired(i)[t].issue = tasks[t].issue
                             /\ Repaired(i)[t].status = tasks[t].status
                             /\ Repaired(i)[t].at = tasks[t].at
<1>1. Len(tasks) \in Nat /\ \A t \in Ids : tasks[t] \in TaskRow
    BY Zenon, RowTypes
<1>2. \A t \in Ids : Rank(t) \in Nat
    <2>1. SUFFICES ASSUME NEW t \in Ids PROVE Rank(t) \in Nat
        OBVIOUS
    <2> DEFINE S == {u \in 1..t : tasks[u].issue = tasks[t].issue}
    <2>2. S \subseteq 1..t /\ t \in Nat
        BY <1>1 DEF Ids
    <2> HIDE DEF S
    <2>3. Cardinality(S) \in Nat
        BY Zenon, <2>2, FewIds
    <2> QED
        BY Zenon, <2>3 DEF Rank, S
<1>3. \A t \in Ids : /\ Repaired(i)[t] \in TaskRow
                     /\ Repaired(i)[t].issue = tasks[t].issue
                     /\ Repaired(i)[t].status = tasks[t].status
                     /\ Repaired(i)[t].at = tasks[t].at
    BY ZenonT(60), <1>1, <1>2 DEF Repaired, TaskRow
<1>4. Repaired(i) \in [1..Len(tasks) -> TaskRow]
    BY Zenon, <1>3 DEF Repaired, Ids
<1>5. Repaired(i) \in Seq(TaskRow) /\ Len(Repaired(i)) = Len(tasks)
    BY <1>1, <1>4
<1> QED
    BY Zenon, <1>3, <1>5

(* The table after Inserted: one new pending row of Issue i at its end. *)
LEMMA InsertedRows ==
    ASSUME tasks \in Seq(TaskRow), NEW i \in Issues, NEW at \in 0..MaxTime,
           tasks' = Inserted(i, at)
    PROVE  /\ Grows /\ Len(tasks') = Len(tasks) + 1
           /\ \A t \in Ids : /\ tasks'[t].issue = tasks[t].issue
                             /\ tasks'[t].status = tasks[t].status
                             /\ tasks'[t].at = tasks[t].at
           /\ tasks'[Len(tasks) + 1].issue = i /\ tasks'[Len(tasks) + 1].at = at
           /\ tasks'[Len(tasks) + 1].status = "pending"
<1> DEFINE mine == {t \in Ids : tasks[t].issue = i}
           row == [issue |-> i, seq |-> 1 + Cardinality(mine), status |-> "pending", at |-> at]
<1>1. Len(tasks) \in Nat
    BY Zenon, RowTypes
<1>2. Cardinality(mine) \in Nat
    <2>1. mine \subseteq 1..Len(tasks)
        BY Zenon DEF Ids
    <2> HIDE DEF mine
    <2> QED
        BY Zenon, <1>1, <2>1, FewIds
<1>3. row \in TaskRow /\ row.issue = i /\ row.at = at /\ row.status = "pending"
    <2> HIDE DEF mine
    <2> QED
        BY <1>2 DEF TaskRow, Active
<1>4. tasks' = Append(Repaired(i), row)
    BY Zenon DEF Inserted
<1> HIDE DEF row
<1>5. Repaired(i) \in Seq(TaskRow) /\ Len(Repaired(i)) = Len(tasks)
    BY Zenon, RepairedRows
<1>6. /\ tasks' \in Seq(TaskRow) /\ Len(tasks') = Len(tasks) + 1
      /\ \A t \in Ids : tasks'[t] = Repaired(i)[t]
      /\ tasks'[Len(tasks) + 1] = row
    BY SMTT(30), <1>1, <1>3, <1>4, <1>5, AppendProperties DEF Ids
<1> QED
    BY SMTT(30), <1>1, <1>3, <1>6, RepairedRows DEF Grows
(* A new row without a time, in an Issue no request has locked. *)
LEMMA RowAdded ==
    ASSUME ScheduleInvariant, NEW i \in Issues, Free(i), Grows, Len(tasks') = Len(tasks) + 1,
           \A t \in Ids : /\ tasks'[t].status = tasks[t].status
                          /\ tasks'[t].at = tasks[t].at,
           tasks'[Len(tasks) + 1].issue = i, tasks'[Len(tasks) + 1].at = 0,
           UNCHANGED <<owner, kit, now, rowLock, slotLock, req, moves, revived>>
    PROVE  ScheduleInvariant'
<1>1. Len(tasks) \in Nat /\ \A t \in Ids' : t \in Ids \/ t = Len(tasks) + 1
    BY SMTT(60), RowTypes DEF ScheduleInvariant, TypeOK, Ids
<1>2. Shrinks
    BY Zenon, <1>1 DEF Shrinks
<1>3. \A j \in Issues : rowLock[j] # NoReq => Keeps(j)
    BY Zenon, <1>1 DEF Keeps, Free
<1>4. owner' \in [Issues -> 0..Len(tasks')]
    BY <1>1 DEF ScheduleInvariant, TypeOK
<1> QED
    BY Zenon, <1>2, <1>3, <1>4, RowStep DEF ScheduleInvariant, TypeOK

(* CreateNow, LegacyInsert and RepairNulls. *)
LEMMA InsertSteps ==
    ASSUME ScheduleInvariant, NEW i \in Issues, CreateNow(i) \/ LegacyInsert(i) \/ RepairNulls(i)
    PROVE  ScheduleInvariant'
<1>1. tasks \in Seq(TaskRow) /\ Len(tasks) \in Nat /\ 0 \in 0..MaxTime
    BY RowTypes, ConstantsAssumption DEF ScheduleInvariant, TypeOK, ScheduleAssumption
<1>2. CASE CreateNow(i)
    <2>1. /\ Grows /\ Len(tasks') = Len(tasks) + 1
          /\ \A t \in Ids : /\ tasks'[t].status = tasks[t].status
                            /\ tasks'[t].at = tasks[t].at
          /\ tasks'[Len(tasks) + 1].issue = i /\ tasks'[Len(tasks) + 1].at = 0
        BY Zenon, <1>1, <1>2, InsertedRows DEF CreateNow
    <2> QED
        BY Zenon, <1>2, <2>1, RowAdded DEF CreateNow
<1>3. CASE LegacyInsert(i)
    <2> DEFINE row == [issue |-> i, seq |-> 0, status |-> "pending", at |-> 0]
    <2>1. row \in TaskRow /\ row.issue = i /\ row.at = 0
        BY Zenon, <1>1 DEF TaskRow, Active
    <2>2. tasks' = Append(tasks, row)
        BY Zenon, <1>3 DEF LegacyInsert
    <2> HIDE DEF row
    <2>3. /\ tasks' \in Seq(TaskRow) /\ Len(tasks') = Len(tasks) + 1
          /\ \A t \in Ids : tasks'[t] = tasks[t]
          /\ tasks'[Len(tasks) + 1] = row
        BY <1>1, <2>1, <2>2, AppendProperties DEF Ids
    <2>4. Grows
        BY <1>1, <2>3 DEF Grows
    <2> QED
        BY Zenon, <1>3, <2>1, <2>3, <2>4, RowAdded DEF LegacyInsert
<1>4. CASE RepairNulls(i)
    <2>1. /\ tasks' \in Seq(TaskRow) /\ Len(tasks') = Len(tasks) /\ Ids' = Ids
          /\ \A t \in Ids : /\ tasks'[t].issue = tasks[t].issue
                            /\ tasks'[t].status = tasks[t].status
                            /\ tasks'[t].at = tasks[t].at
        BY Zenon, <1>1, <1>4, RepairedRows DEF RepairNulls, Ids
    <2>2. Grows /\ Shrinks /\ \A j : Keeps(j)
        BY SMTT(60), <1>1, <1>4, <2>1 DEF Grows, Shrinks, Keeps, RepairNulls
    <2> QED
        BY Zenon, <1>4, <2>1, <2>2, RowStep DEF RepairNulls, ScheduleInvariant, TypeOK
<1> QED
    BY Zenon, <1>2, <1>3, <1>4

(* Steps that leave the table alone leave the bookings alone. *)
LEMMA SameRows ==
    ASSUME ScheduleInvariant, UNCHANGED <<tasks, revived>>
    PROVE  /\ Grows /\ Shrinks /\ Ids' = Ids /\ \A i : Keeps(i)
           /\ Len(tasks) \in Nat
<1>1. tasks \in Seq(TaskRow) /\ Len(tasks) \in Nat
    BY Zenon, LenProperties DEF ScheduleInvariant, TypeOK
<1> QED
    BY <1>1 DEF Grows, Shrinks, Keeps, Ids

(* The scheduler, the workers and the clock. *)
LEMMA OtherSteps ==
    ASSUME ScheduleInvariant,
           \/ KitChanges \/ Tick \/ \E i \in Issues : Release(i)
           \/ \E t \in Ids : ExecuteNow(t) \/ Cancel(t) \/ Promote(t) \/ Claim(t) \/ Finish(t)
    PROVE  ScheduleInvariant'
<1>1. TypeOK /\ MaxTime \in Nat
    BY Zenon, ConstantsAssumption DEF ScheduleInvariant, ScheduleAssumption
<1>2. Len(tasks) \in Nat /\ \A t \in Ids : tasks[t] \in TaskRow
    BY Zenon, <1>1, RowTypes DEF TypeOK
<1>3. CASE KitChanges
    BY ZenonT(60), <1>1, <1>3, SameRows, RowStep DEF KitChanges, TypeOK
<1>4. CASE Tick
    <2>1. now' \in 0..MaxTime
        BY <1>1, <1>4 DEF Tick, TypeOK
    <2> QED
        BY ZenonT(60), <1>1, <1>4, <2>1, SameRows, RowStep DEF Tick, TypeOK
<1>5. ASSUME NEW i \in Issues, Release(i) PROVE ScheduleInvariant'
    <2>1. owner' \in [Issues -> 0..Len(tasks)]
        BY SMTT(30), <1>1, <1>2, <1>5 DEF Release, TypeOK
    <2> QED
        BY Zenon, <1>1, <1>5, <2>1, SameRows, RowStep DEF Release, TypeOK
<1>6. ASSUME NEW t \in Ids, ExecuteNow(t) PROVE ScheduleInvariant'
    <2> DEFINE row == [tasks[t] EXCEPT !.at = 0]
    <2>1. row \in TaskRow /\ row.issue = tasks[t].issue /\ row.at = 0
        BY <1>1, <1>2 DEF TaskRow
    <2>2. tasks' = [tasks EXCEPT ![t] = row]
        BY Zenon, <1>6 DEF ExecuteNow
    <2> HIDE DEF row
    <2>3. /\ Grows /\ Ids' = Ids /\ tasks'[t] = row
          /\ \A u \in Ids : u # t => tasks'[u] = tasks[u]
          /\ \A i : i # row.issue => Keeps(i)
        BY Zenon, <1>1, <2>1, <2>2, RowReplaced DEF TypeOK
    <2>4. Shrinks
        BY Zenon, <1>6, <2>1, <2>3 DEF Shrinks, ExecuteNow
    <2>5. \A i \in Issues : rowLock[i] # NoReq => Keeps(i)
        BY Zenon, <1>6, <2>1, <2>3 DEF ExecuteNow, Free
    <2>6. owner' \in [Issues -> 0..Len(tasks')]
        <3>1. Len(tasks') = Len(tasks)
            BY SMTT(30), <1>1, <2>1, <2>2, ExceptSeq DEF TypeOK, Ids
        <3> QED
            BY Zenon, <1>1, <1>6, <3>1 DEF ExecuteNow, TypeOK
    <2> QED
        BY Zenon, <1>1, <1>6, <2>3, <2>4, <2>5, <2>6, RowStep DEF ExecuteNow, TypeOK
<1>7. ASSUME NEW t \in Ids, Cancel(t) \/ Promote(t) \/ Finish(t) PROVE ScheduleInvariant'
    <2>1. /\ UNCHANGED <<owner, kit, now, rowLock, slotLock, req, moves, revived>>
          /\ \E old : \E new \in Active \cup {"done"} :
                Row(t, old, new) /\ (new = "done" \/ tasks[t].status \in Active)
        <3>1. CASE Cancel(t)
            BY Zenon, <3>1 DEF Cancel
        <3>2. CASE Promote(t)
            BY Zenon, <3>2 DEF Promote, Row, Active
        <3>3. CASE Finish(t)
            BY Zenon, <3>3 DEF Finish
        <3> QED
            BY Zenon, <1>7, <3>1, <3>2, <3>3
    <2> QED
        BY Zenon, <1>1, <2>1, RowChanges DEF TypeOK
<1>8. ASSUME NEW t \in Ids, Claim(t) PROVE ScheduleInvariant'
    <2>1. owner' \in [Issues -> 0..Len(tasks)]
        BY SMTT(60), <1>1, <1>2, <1>8 DEF Claim, TypeOK, Ids, TaskRow
    <2>2. Row(t, {"queued"}, "running") /\ tasks[t].status \in Active /\ "running" \in Active
        BY Zenon, <1>8 DEF Claim, Row, Active
    <2> QED
        BY Zenon, <1>1, <1>8, <2>1, <2>2, RowChanges DEF Claim, TypeOK
<1> QED
    BY Zenon, <1>3, <1>4, <1>5, <1>6, <1>7, <1>8
-----------------------------------------------------------------------------
(* Steps of the requests. *)

(* Request r moves: only it takes or gives up locks. *)
OnlyMoves(r) ==
    /\ rowLock' \in [Issues -> Requests \cup {NoReq}]
    /\ slotLock' \in [Slots -> Requests \cup {NoReq}]
    /\ \A i \in Issues : rowLock'[i] # rowLock[i] =>
          rowLock[i] \in {r, NoReq} /\ rowLock'[i] \in {r, NoReq}
    /\ \A s \in Slots : slotLock'[s] # slotLock[s] =>
          slotLock[s] \in {r, NoReq} /\ slotLock'[s] \in {r, NoReq}
    /\ req' \in [Requests -> Progress']
    /\ \A o \in Requests \ {r} : req'[o] = req[o]

(* The locks of another request are what they were. *)
LEMMA OthersKeepLocks ==
    ASSUME ScheduleInvariant, Grows, NEW r \in Requests, OnlyMoves(r),
           NEW o \in Requests \ {r}
    PROVE  LocksOf(o)'
<1>1. LocksOf(o) /\ req[o] \in Progress /\ req'[o] = req[o]
    BY Zenon DEF ScheduleInvariant, TypeOK, OnlyMoves
<1>2. o # NoReq /\ o # r
    BY Zenon, ConstantsAssumption DEF ScheduleAssumption
<1>3. /\ \A i \in Issues : rowLock'[i] = o <=> rowLock[i] = o
      /\ \A s \in Slots : slotLock'[s] = o <=> slotLock[s] = o
    BY Zenon, <1>2 DEF OnlyMoves
<1>4. Slots' = Slots
    BY Zenon DEF Slots, Times
<1>5. req[o].task # 0 => tasks'[req[o].task].issue = tasks[req[o].task].issue
    BY SMTT(60), <1>1, LenProperties DEF Grows, Progress, Ids, ScheduleInvariant, TypeOK
<1>6. req[o].pc = "write" => Slot(req[o].at) \in Slots
    BY Zenon, <1>1 DEF LocksOf, Slots
<1> QED
    BY Zenon, <1>1, <1>3, <1>4, <1>5, <1>6 DEF LocksOf, Times

(* TypeOK's last conjunct follows from LocksOf. *)
LEMMA LocksGiveTypes ==
    ASSUME \A r \in Requests : LocksOf(r)'
    PROVE  \A r \in Requests : req'[r].pc \in {"slot", "write"} <=> \E i \in Issues : rowLock'[i] = r
BY ZenonT(60) DEF LocksOf

(* A step of request r that leaves the table alone. *)
LEMMA RequestMoves ==
    ASSUME ScheduleInvariant, NEW r \in Requests, OnlyMoves(r),
           UNCHANGED <<tasks, owner, kit, now, revived>>, moves' \in Nat,
           LocksOf(r)', ChecksOf(r)'
    PROVE  ScheduleInvariant'
<1>1. Grows /\ Shrinks /\ Ids' = Ids /\ \A i : Keeps(i)
    BY Zenon, SameRows
<1>2. ASSUME NEW o \in Requests PROVE LocksOf(o)' /\ ChecksOf(o)'
    <2>1. CASE o = r
        BY Zenon, <2>1
    <2>2. CASE o # r
        <3>1. LocksOf(o)'
            BY ZenonT(60), <1>1, <2>2, OthersKeepLocks
        <3>2. req'[o] = req[o]
            BY Zenon, <2>2 DEF OnlyMoves
        <3>3. Booked(Slot(req[o].at))' \subseteq Booked(Slot(req[o].at))
            BY Zenon, <3>2 DEF Booked, Ids
        <3> QED
            BY ZenonT(60), <1>1, <3>1, <3>2, <3>3, ChecksStay
    <2> QED
        BY Zenon, <2>1, <2>2
<1>3. Slots' = Slots
    BY Zenon DEF Slots, Times
<1>4. TypeOK'
    BY ZenonT(60), <1>1, <1>2, <1>3, LocksGiveTypes DEF OnlyMoves, ScheduleInvariant, TypeOK
<1> QED
    BY Zenon, <1>1, <1>2, <1>4, ShrinksKeepsBookings DEF ScheduleInvariant

(* An idle request has nothing to lose. *)
LEMMA IdleIsFree ==
    ASSUME NEW r \in Requests, req'[r] = Idle,
           \A i \in Issues : rowLock'[i] # r, \A s \in Slots' : slotLock'[s] # r
    PROVE  LocksOf(r)' /\ ChecksOf(r)'
<1>1. req'[r].pc = "idle" /\ req'[r].task = 0
    BY DEF Idle
<1> QED
    BY Zenon, <1>1 DEF LocksOf, ChecksOf

(* CreateLock: the window is checked as the Issue row is locked. *)
LEMMA CreateLockStep ==
    ASSUME ScheduleInvariant, NEW r \in Requests, NEW i \in Issues, NEW at \in Times,
           CreateLock(r, i, at)
    PROVE  ScheduleInvariant'
<1>1. TypeOK /\ MaxTime \in Nat /\ NoReq \notin Requests /\ LocksOf(r)
    BY Zenon, ConstantsAssumption DEF ScheduleInvariant, ScheduleAssumption
<1>2. Len(tasks) \in Nat /\ Len(tasks') = Len(tasks) /\ at \in 0..MaxTime /\ at \in Nat
    BY <1>1, RowTypes DEF TypeOK, CreateLock, Times
<1>3. CASE InWindow(i, 0, at)
    <2> DEFINE q == [Idle EXCEPT !.pc = "slot", !.issue = i, !.at = at]
    <2>1. q.pc = "slot" /\ q.issue = i /\ q.at = at /\ q.task = 0
        BY Zenon DEF Idle
    <2>2. q \in Progress'
        <3> DEFINE first == [Idle EXCEPT !.pc = "slot"]
                   second == [first EXCEPT !.issue = i]
        <3>1. first \in Progress'
            BY <1>1, <1>2 DEF Progress, Idle
        <3>2. second \in Progress'
            <4> HIDE DEF first
            <4> QED
                BY Zenon, <3>1 DEF Progress
        <3>3. [second EXCEPT !.at = at] \in Progress'
            <4> HIDE DEF second
            <4> QED
                BY Zenon, <1>2, <3>2 DEF Progress
        <3> QED
            BY Zenon, <3>3
    <2>3. /\ req' = [req EXCEPT ![r] = q] /\ rowLock' = [rowLock EXCEPT ![i] = r]
          /\ rowLock[i] = NoReq /\ slotLock' = slotLock /\ req[r] = Idle
        BY Zenon, <1>3 DEF CreateLock, Free
    <2> HIDE DEF q
    <2>4. req'[r] = q /\ req[r].pc = "idle"
        BY <1>1, <2>3 DEF TypeOK, Idle
    <2>5. Progress' = Progress
        BY Zenon, <1>2 DEF Progress
    <2>6. OnlyMoves(r)
        BY Zenon, <1>1, <2>2, <2>3, <2>5 DEF OnlyMoves, TypeOK
    <2>7. LocksOf(r)'
        BY ZenonT(60), <1>1, <2>1, <2>3, <2>4 DEF LocksOf, TypeOK, Times, Slots
    <2>8. Fits(i, 0, at)
        BY Zenon, <1>1, <1>2, <1>3, WindowExact DEF TypeOK
    <2>9. tasks' = tasks
        BY Zenon DEF CreateLock
    <2>10. ChecksOf(r)'
        BY ZenonT(60), <2>1, <2>4, <2>8, <2>9 DEF ChecksOf, Fits, FitsAmong, ActiveOf, Ids
    <2> QED
        BY Zenon, <1>1, <2>6, <2>7, <2>10, RequestMoves DEF CreateLock, TypeOK
<1>4. CASE ~InWindow(i, 0, at)
    BY ZenonT(60), <1>1, <1>4, SameRows, RowStep DEF CreateLock, TypeOK
<1> QED
    BY Zenon, <1>3, <1>4

(* RescheduleRead takes no lock. *)
LEMMA RescheduleReadStep ==
    ASSUME ScheduleInvariant, NEW r \in Requests, NEW t \in Ids, NEW at \in Times,
           RescheduleRead(r, t, at)
    PROVE  ScheduleInvariant'
<1>1. TypeOK /\ MaxTime \in Nat /\ NoReq \notin Requests /\ LocksOf(r)
    BY Zenon, ConstantsAssumption DEF ScheduleInvariant, ScheduleAssumption
<1>2. /\ Len(tasks) \in Nat /\ Len(tasks') = Len(tasks) /\ at \in 0..MaxTime
      /\ tasks[t] \in TaskRow /\ t \in 0..Len(tasks) /\ t # 0
    BY SMTT(60), <1>1, RowTypes DEF TypeOK, RescheduleRead, Times, Ids
<1> DEFINE q == [pc |-> "row", issue |-> tasks[t].issue, task |-> t, at |-> at,
                 seen |-> tasks[t].status, seenAt |-> tasks[t].at]
<1>3. /\ q.pc = "row" /\ q.issue = tasks[t].issue /\ q.task = t /\ q.at = at
      /\ q.issue \in Issues
    BY Zenon, <1>2 DEF TaskRow
<1>4. q \in Progress
    BY Zenon, <1>2 DEF Progress, TaskRow
<1>5. /\ req' = [req EXCEPT ![r] = q] /\ rowLock' = rowLock /\ slotLock' = slotLock
      /\ req[r].pc = "idle" /\ tasks' = tasks /\ moves' = moves + 1
    BY SMTT(60) DEF RescheduleRead, Idle
<1> HIDE DEF q
<1>6. Progress' = Progress /\ req'[r] = q
    BY Zenon, <1>1, <1>2, <1>5 DEF Progress, TypeOK
<1>7. OnlyMoves(r)
    BY Zenon, <1>1, <1>4, <1>5, <1>6 DEF OnlyMoves, TypeOK
<1>8. LocksOf(r)'
    BY Zenon, <1>1, <1>3, <1>5, <1>6 DEF LocksOf, Times, Slots
<1>9. ChecksOf(r)'
    BY Zenon, <1>3, <1>6 DEF ChecksOf
<1>10. moves' \in Nat
    BY <1>1, <1>5 DEF TypeOK
<1> QED
    BY ZenonT(60), <1>1, <1>7, <1>8, <1>9, <1>10, RequestMoves DEF RescheduleRead
(* RescheduleLock: the window is checked as the Issue row is locked. *)
LEMMA RescheduleLockStep ==
    ASSUME ScheduleInvariant, NEW r \in Requests, RescheduleLock(r)
    PROVE  ScheduleInvariant'
<1> DEFINE q == req[r]
<1>1. TypeOK /\ MaxTime \in Nat /\ NoReq \notin Requests /\ LocksOf(r) /\ q \in Progress
    BY Zenon, ConstantsAssumption DEF ScheduleInvariant, ScheduleAssumption, TypeOK
<1>2. /\ Len(tasks) \in Nat /\ Progress' = Progress /\ tasks' = tasks
      /\ q.pc = "row" /\ q.issue \in Issues /\ q.at \in Times /\ slotLock' = slotLock
      /\ rowLock[q.issue] = NoReq
    BY Zenon, <1>1, RowTypes DEF TypeOK, RescheduleLock, LocksOf, Progress, Free
<1>3. /\ \A i \in Issues : rowLock[i] # r
      /\ \A s \in Slots : slotLock[s] # r
    BY Zenon, <1>1, <1>2 DEF LocksOf
<1>4. CASE ~ActiveNull(q.issue) /\ InWindow(q.issue, q.task, q.at)
    <2>1. /\ rowLock' = [rowLock EXCEPT ![q.issue] = r]
          /\ req' = [req EXCEPT ![r].pc = "slot"]
        BY Zenon, <1>4 DEF RescheduleLock
    <2>2. /\ req'[r] \in Progress /\ req'[r].pc = "slot" /\ req'[r].issue = q.issue
          /\ req'[r].task = q.task /\ req'[r].at = q.at
        BY ZenonT(60), <1>1, <2>1 DEF Progress, TypeOK
    <2>3. OnlyMoves(r)
        BY ZenonT(60), <1>1, <1>2, <2>1, <2>2 DEF OnlyMoves, TypeOK
    <2>4. LocksOf(r)'
        <3>1. rowLock'[q.issue] = r /\ \A i \in Issues \ {q.issue} : rowLock'[i] # r
            BY ZenonT(60), <1>1, <1>2, <1>3, <2>1 DEF TypeOK
        <3>2. q.task # 0 => tasks[q.task].issue = q.issue
            BY Zenon, <1>1 DEF LocksOf
        <3> QED
            BY ZenonT(60), <1>2, <1>3, <2>2, <3>1, <3>2 DEF LocksOf, Times, Slots
    <2>5. Fits(q.issue, q.task, q.at)
        BY SMTT(30), <1>1, <1>2, <1>4, WindowExact DEF TypeOK, Progress, Times
    <2>6. ChecksOf(r)'
        BY ZenonT(60), <1>2, <2>2, <2>5 DEF ChecksOf, Fits, FitsAmong, ActiveOf, Ids
    <2> QED
        BY Zenon, <1>1, <2>3, <2>4, <2>6, RequestMoves DEF RescheduleLock, TypeOK
<1>5. CASE ~(~ActiveNull(q.issue) /\ InWindow(q.issue, q.task, q.at))
    <2>1. rowLock' = rowLock /\ req' = [req EXCEPT ![r] = Idle]
        BY Zenon, <1>5 DEF RescheduleLock
    <2>2. Idle \in Progress /\ req'[r] = Idle
        BY SMTT(60), <1>1, <1>2, <2>1 DEF Idle, Progress, TypeOK
    <2>3. OnlyMoves(r)
        BY Zenon, <1>1, <1>2, <2>1, <2>2 DEF OnlyMoves, TypeOK
    <2>4. LocksOf(r)' /\ ChecksOf(r)'
        BY Zenon, <1>2, <1>3, <2>1, <2>2, IdleIsFree DEF Slots, Times
    <2> QED
        BY Zenon, <1>1, <2>3, <2>4, RequestMoves DEF RescheduleLock, TypeOK
<1> QED
    BY Zenon, <1>4, <1>5

(* TakeSlot: the count is read as the slot is locked. *)
LEMMA TakeSlotStep ==
    ASSUME ScheduleInvariant, NEW r \in Requests, TakeSlot(r)
    PROVE  ScheduleInvariant'
<1> DEFINE q == req[r]
           hour == Slot(q.at)
<1>1. TypeOK /\ NoReq \notin Requests /\ LocksOf(r) /\ ChecksOf(r) /\ q \in Progress
    BY Zenon, ConstantsAssumption DEF ScheduleInvariant, ScheduleAssumption, TypeOK
<1>2. /\ Len(tasks) \in Nat /\ MaxTime \in Nat /\ SlotMax \in Nat
      /\ Progress' = Progress /\ tasks' = tasks /\ revived' = revived
      /\ q.pc = "slot" /\ q.issue \in Issues /\ q.at \in Times /\ rowLock[q.issue] = r
      /\ hour \in Slots /\ slotLock[hour] \in {NoReq, r} /\ Slots' = Slots
    BY SMTT(30), <1>1, RowTypes, ConstantsAssumption
       DEF TypeOK, TakeSlot, LocksOf, Progress, Slots, Times, ScheduleAssumption
<1>3. \A s \in Slots : slotLock[s] # r
    BY Zenon, <1>1, <1>2 DEF LocksOf
<1>4. CASE SlotCount(q.at, q.task) < SlotMax
    <2>1. /\ slotLock' = [slotLock EXCEPT ![hour] = r] /\ rowLock' = rowLock
          /\ req' = [req EXCEPT ![r].pc = "write"]
        BY Zenon, <1>4 DEF TakeSlot
    <2>2. /\ req'[r] \in Progress /\ req'[r].pc = "write" /\ req'[r].issue = q.issue
          /\ req'[r].task = q.task /\ req'[r].at = q.at
        BY ZenonT(60), <1>1, <2>1 DEF Progress, TypeOK
    <2>3. OnlyMoves(r)
        BY ZenonT(60), <1>1, <1>2, <2>1, <2>2 DEF OnlyMoves, TypeOK
    <2>4. LocksOf(r)'
        <3>1. slotLock'[hour] = r
            BY ZenonT(60), <1>1, <1>2, <2>1 DEF TypeOK
        <3>2. /\ \A i \in Issues : rowLock'[i] = r => i = q.issue
              /\ q.task # 0 => tasks'[q.task].issue = q.issue
            BY ZenonT(60), <1>1, <1>2, <2>1 DEF LocksOf
        <3> QED
            BY ZenonT(60), <1>2, <2>1, <2>2, <3>1, <3>2 DEF LocksOf, Times
    <2>5. Cardinality(Booked(hour) \ {q.task}) < SlotMax
        <3> DEFINE counted == {u \in Ids \ {q.task} : /\ tasks[u].status \in Active
                                                      /\ tasks[u].at # 0
                                                      /\ Slot(tasks[u].at) = Slot(q.at)}
        <3>1. Booked(hour) \ {q.task} \subseteq counted /\ counted \subseteq 1..Len(tasks)
            BY Zenon DEF Booked, Ids
        <3>2. Cardinality(counted) < SlotMax
            BY Zenon, <1>4 DEF SlotCount
        <3> HIDE DEF counted
        <3>3. Cardinality(Booked(hour) \ {q.task}) <= Cardinality(counted)
            BY ZenonT(60), <1>2, <3>1, FewerIds
        <3>4. Cardinality(Booked(hour) \ {q.task}) \in Nat /\ Cardinality(counted) \in Nat
            <4>1. Booked(hour) \ {q.task} \subseteq 1..Len(tasks)
                BY Zenon, <3>1
            <4> QED
                BY ZenonT(60), <1>2, <3>1, <4>1, FewIds
        <3> QED
            BY SMTT(60), <1>2, <3>2, <3>3, <3>4
    <2>6. Fits(q.issue, q.task, q.at)
        BY Zenon, <1>1, <1>2 DEF ChecksOf
    <2>7. ChecksOf(r)'
        <3>1. Booked(Slot(req[r].at))' = Booked(hour)
            BY ZenonT(60), <1>2, <2>2 DEF Booked, Ids
        <3> QED
            BY ZenonT(60), <1>2, <2>2, <2>5, <2>6, <3>1 DEF ChecksOf, Fits, FitsAmong, ActiveOf, Ids
    <2> QED
        BY Zenon, <1>1, <2>3, <2>4, <2>7, RequestMoves DEF TakeSlot, TypeOK
<1>5. CASE ~(SlotCount(q.at, q.task) < SlotMax)
    <2>1. /\ req' = [req EXCEPT ![r] = Idle]
          /\ rowLock' = [rowLock EXCEPT ![q.issue] = NoReq]
          /\ slotLock' = [s \in Slots |-> IF slotLock[s] = r THEN NoReq ELSE slotLock[s]]
        BY Zenon, <1>5 DEF TakeSlot
    <2>2. Idle \in Progress /\ req'[r] = Idle
        BY SMTT(60), <1>1, <1>2, <2>1 DEF Idle, Progress, TypeOK
    <2>3. OnlyMoves(r)
        BY ZenonT(60), <1>1, <1>2, <2>1, <2>2 DEF OnlyMoves, TypeOK
    <2>4. /\ \A i \in Issues : rowLock'[i] # r
          /\ \A s \in Slots : slotLock'[s] # r
        BY ZenonT(60), <1>1, <1>2, <1>3, <2>1 DEF LocksOf, TypeOK
    <2>5. LocksOf(r)' /\ ChecksOf(r)'
        BY Zenon, <1>2, <2>2, <2>4, IdleIsFree
    <2> QED
        BY ZenonT(60), <1>1, <2>3, <2>5, RequestMoves DEF TakeSlot, TypeOK
<1> QED
    BY Zenon, <1>4, <1>5
(* What a commit of request r may do to the table: task x takes the time r   *)
(* checked, in r's Issue, as its newest task or as the active task r moves;  *)
(* every other booking was there before.                                     *)
Writes(r, x) ==
    /\ Grows /\ revived \subseteq revived' /\ revived' \subseteq Ids'
    /\ \A i : i # req[r].issue => Keeps(i)
    /\ \A t \in Ids' \ revived' : tasks'[t].status \in Active /\ tasks'[t].at # 0 =>
          \/ t \in Ids /\ tasks[t].status \in Active /\ tasks'[t].at = tasks[t].at
          \/ /\ t = x /\ tasks'[t].at = req[r].at /\ tasks'[t].issue = req[r].issue
             /\ \/ req[r].task = 0 /\ x = Len(tasks) + 1
                \/ req[r].task = x /\ x \in ActiveOf(req[r].issue)
    /\ \A t \in Ids' : t \in Ids \/ t = x
    /\ x = req[r].task \/ req[r].task = 0

(* Commit writes so. *)
LEMMA CommitWrites ==
    ASSUME ScheduleInvariant, NEW r \in Requests, Commit(r)
    PROVE  \E x \in Nat : Writes(r, x)
<1> DEFINE q == req[r]
<1>1. TypeOK /\ LocksOf(r) /\ q \in Progress /\ q.pc = "write"
    BY Zenon DEF ScheduleInvariant, TypeOK, Commit
<1>2. /\ Len(tasks) \in Nat /\ \A t \in Ids : tasks[t] \in TaskRow
      /\ q.issue \in Issues /\ q.at \in 0..MaxTime /\ q.task \in 0..Len(tasks)
      /\ revived \subseteq Ids
    BY Zenon, <1>1, RowTypes DEF TypeOK, LocksOf, Progress
<1>3. CASE q.task = 0
    <2>1. tasks' = Inserted(q.issue, q.at) /\ revived' = revived
        BY Zenon, <1>3 DEF Commit
    <2>2. /\ Grows /\ Len(tasks') = Len(tasks) + 1
          /\ \A t \in Ids : /\ tasks'[t].issue = tasks[t].issue
                            /\ tasks'[t].status = tasks[t].status
                            /\ tasks'[t].at = tasks[t].at
          /\ tasks'[Len(tasks) + 1].issue = q.issue /\ tasks'[Len(tasks) + 1].at = q.at
        BY ZenonT(60), <1>1, <1>2, <2>1, InsertedRows DEF TypeOK
    <2>3. Ids \subseteq Ids' /\ \A t \in Ids' : t \in Ids \/ t = Len(tasks) + 1
        BY SMTT(60), <1>2, <2>2 DEF Ids
    <2>4. \A i : i # q.issue => Keeps(i)
        BY Zenon, <2>2, <2>3 DEF Keeps
    <2>5. Writes(r, Len(tasks) + 1)
        BY ZenonT(60), <1>2, <1>3, <2>1, <2>2, <2>3, <2>4 DEF Writes
    <2> QED
        BY SMTT(60), <1>2, <2>5
<1>4. CASE q.task # 0
    <2> DEFINE old == tasks[q.task]
               row == [old EXCEPT !.at = IF q.at = q.seenAt THEN @ ELSE q.at,
                                  !.status = IF q.seen = "queued" THEN "pending" ELSE @]
    <2>1. q.task \in Ids /\ old \in TaskRow /\ old.issue = q.issue
        BY SMTT(60), <1>1, <1>2, <1>4 DEF Ids, LocksOf
    <2>2. /\ row \in TaskRow /\ row.issue = q.issue
          /\ row.at = old.at \/ row.at = q.at
          /\ row.status = "pending" \/ row.status = old.status
        <3> DEFINE moved == [old EXCEPT !.at = IF q.at = q.seenAt THEN old.at ELSE q.at]
        <3>1. /\ moved \in TaskRow /\ moved.issue = q.issue /\ moved.status = old.status
              /\ moved.at = old.at \/ moved.at = q.at
            BY Zenon, <1>2, <2>1 DEF TaskRow
        <3>2. row = [moved EXCEPT !.status = IF q.seen = "queued" THEN "pending" ELSE old.status]
            BY Zenon, <2>1 DEF TaskRow
        <3> HIDE DEF moved, row, old
        <3> QED
            BY Zenon, <2>1, <3>1, <3>2 DEF TaskRow, Active
    <2>3. /\ tasks' = [tasks EXCEPT ![q.task] = row]
          /\ revived' = IF old.status \in {"pending", "queued"} THEN revived
                        ELSE revived \cup {q.task}
        BY Zenon, <1>4 DEF Commit
    <2> HIDE DEF row
    <2>4. /\ Grows /\ Ids' = Ids /\ tasks'[q.task] = row
          /\ \A u \in Ids : u # q.task => tasks'[u] = tasks[u]
          /\ \A i : i # row.issue => Keeps(i)
        <3>1. tasks \in Seq(TaskRow) /\ row.issue = tasks[q.task].issue
            BY Zenon, <1>1, <2>1, <2>2 DEF TypeOK
        <3>2. q.task \in Ids /\ row \in TaskRow /\ tasks' = [tasks EXCEPT ![q.task] = row]
            BY ZenonT(60), <2>1, <2>2, <2>3
        <3> HIDE DEF q
        <3> QED
            BY Zenon, <3>1, <3>2, RowReplaced
    <2>5. old.status \in {"pending", "queued"} =>
             q.task \in ActiveOf(q.issue) /\ tasks[q.task].status \in Active
        BY Zenon, <2>1 DEF ActiveOf, Active
    <2>6. Writes(r, q.task)
        BY ZenonT(60), <1>2, <1>4, <2>1, <2>2, <2>3, <2>4, <2>5 DEF Writes
    <2> QED
        BY SMTT(60), <1>2, <2>6
<1> QED
    BY Zenon, <1>3, <1>4

(* Commit: the checks still hold, so the write is sound. *)
LEMMA CommitStep ==
    ASSUME ScheduleInvariant, NEW r \in Requests, Commit(r)
    PROVE  ScheduleInvariant'
<1> DEFINE q == req[r]
           hour == Slot(q.at)
<1>1. TypeOK /\ NoReq \notin Requests /\ LocksOf(r) /\ ChecksOf(r) /\ q \in Progress /\ q.pc = "write"
    BY Zenon, ConstantsAssumption DEF ScheduleInvariant, ScheduleAssumption, TypeOK, Commit
<1>2. PICK x \in Nat : Writes(r, x)
    BY Zenon, CommitWrites
<1>3. /\ Len(tasks) \in Nat /\ Len(tasks') \in Nat /\ Len(tasks) <= Len(tasks')
      /\ SlotMax \in Nat /\ MaxTime \in Nat /\ Slots' = Slots /\ hour \in Slots
      /\ q.issue \in Issues /\ rowLock[q.issue] = r /\ slotLock[hour] = r /\ Grows
      /\ q.task \in 0..Len(tasks)
    BY SMTT(60), <1>1, <1>2, LenProperties, ConstantsAssumption
       DEF TypeOK, Writes, Grows, ScheduleAssumption, Slots, Times, LocksOf, Progress
<1>4. /\ req' = [req EXCEPT ![r] = Idle] /\ rowLock' = [rowLock EXCEPT ![q.issue] = NoReq]
      /\ slotLock' = [s \in Slots |-> IF slotLock[s] = r THEN NoReq ELSE slotLock[s]]
      /\ UNCHANGED <<owner, kit, now, moves>>
    BY Zenon DEF Commit
<1>5. Idle \in Progress' /\ req'[r] = Idle
    BY SMTT(60), <1>1, <1>3, <1>4 DEF Idle, Progress, TypeOK
<1>6. OnlyMoves(r)
    <2>1. req' \in [Requests -> Progress']
        BY ZenonT(60), <1>1, <1>3, <1>4, <1>5, ProgressGrows DEF TypeOK
    <2> QED
        BY Zenon, <1>1, <1>3, <1>4, <2>1 DEF OnlyMoves, TypeOK
<1>7. LocksOf(r)' /\ ChecksOf(r)'
    <2>1. /\ \A i \in Issues : rowLock'[i] # r
          /\ \A s \in Slots' : slotLock'[s] # r
        BY ZenonT(60), <1>1, <1>3, <1>4 DEF LocksOf, TypeOK
    <2> QED
        BY ZenonT(60), <1>5, <2>1, IdleIsFree
<1>8. \A s : s # hour => Booked(s)' \subseteq Booked(s)
    BY Zenon, <1>2 DEF Writes, Booked
<1>9. ASSUME NEW o \in Requests PROVE LocksOf(o)' /\ ChecksOf(o)'
    <2>1. CASE o = r
        BY Zenon, <1>7, <2>1
    <2>2. CASE o # r
        <3>1. LocksOf(o)' /\ req'[o] = req[o] /\ LocksOf(o)
            BY ZenonT(60), <1>3, <1>6, <2>2, OthersKeepLocks DEF OnlyMoves, ScheduleInvariant
        <3>2. req[o].pc \in {"slot", "write"} => req[o].issue # q.issue
            BY ZenonT(60), <1>3, <2>2, <3>1 DEF LocksOf
        <3>3. req[o].pc = "write" => Slot(req[o].at) # hour
            BY ZenonT(60), <1>3, <2>2, <3>1 DEF LocksOf
        <3>4. req[o].pc \in {"slot", "write"} => Keeps(req[o].issue)
            BY Zenon, <1>2, <3>2 DEF Writes
        <3>5. req[o].pc = "write" => Booked(Slot(req[o].at))' \subseteq Booked(Slot(req[o].at))
            BY ZenonT(60), <1>2, <3>1, <3>3 DEF Writes, Booked
        <3> QED
            BY ZenonT(60), <1>3, <3>1, <3>4, <3>5, ChecksStay
    <2> QED
        BY Zenon, <2>1, <2>2
<1>10. TypeOK'
    <2>1. owner' \in [Issues -> 0..Len(tasks')]
        BY SMTT(30), <1>1, <1>3, <1>4 DEF TypeOK
    <2> QED
        BY ZenonT(60), <1>1, <1>2, <1>3, <1>4, <1>6, <1>9, <2>1, LocksGiveTypes
           DEF TypeOK, OnlyMoves, Writes, Grows
<1>11. SlotBounded'
    <2>1. SUFFICES ASSUME NEW s \in Slots PROVE Cardinality(Booked(s)') <= SlotMax
        BY Zenon, <1>3 DEF SlotBounded
    <2>2. Booked(s) \subseteq 1..Len(tasks) /\ Booked(s)' \subseteq 1..Len(tasks')
        BY Zenon DEF Booked, Ids
    <2>3. CASE s # hour
        <3>1. Booked(s)' \subseteq Booked(s)
            BY Zenon, <1>8, <2>3
        <3>2. Cardinality(Booked(s)') <= Cardinality(Booked(s))
            BY Zenon, <1>3, <2>2, <3>1, FewerIds
        <3>3. Cardinality(Booked(s)') \in Nat /\ Cardinality(Booked(s)) \in Nat
            BY Zenon, <1>3, <2>2, FewIds
        <3>4. Cardinality(Booked(s)) <= SlotMax
            BY Zenon DEF ScheduleInvariant, SlotBounded
        <3> QED
            BY SMTT(30), <1>3, <3>2, <3>3, <3>4
    <2>4. CASE s = hour
        <3> DEFINE others == Booked(hour) \ {q.task}
        <3>1. Booked(s)' \subseteq others \cup {x}
            BY SMTT(60), <1>2, <2>4 DEF Writes, Booked, Ids
        <3>2. others \subseteq 1..Len(tasks)
            BY Zenon, <2>2, <2>4
        <3>3. Cardinality(others) < SlotMax
            BY Zenon, <1>1 DEF ChecksOf
        <3> HIDE DEF others
        <3>4. IsFiniteSet(others) /\ Cardinality(others) \in Nat
            BY Zenon, <1>3, <3>2, FewIds
        <3>5. /\ IsFiniteSet(others \cup {x})
              /\ Cardinality(others \cup {x}) =
                    IF x \in others THEN Cardinality(others) ELSE Cardinality(others) + 1
            BY Zenon, <3>4, FS_AddElement
        <3>6. Booked(s)' \in SUBSET (others \cup {x})
            BY Zenon, <3>1
        <3>7. Cardinality(Booked(s)') <= Cardinality(others \cup {x})
            BY Zenon, <3>5, <3>6, FS_Subset
        <3>8. Cardinality(Booked(s)') \in Nat
            BY Zenon, <1>3, <2>2, FewIds
        <3> QED
            BY SMTT(30), <1>3, <3>3, <3>4, <3>5, <3>7, <3>8
    <2> QED
        BY Zenon, <2>3, <2>4
<1>12. ReservationsInTurnOrder'
    <2>1. SUFFICES ASSUME NEW t \in Ids' \ revived', NEW u \in Ids' \ revived', t < u,
                          tasks'[t].status \in Active, tasks'[u].status \in Active,
                          tasks'[t].issue = tasks'[u].issue,
                          tasks'[t].at # 0, tasks'[u].at # 0
                   PROVE  tasks'[t].at <= tasks'[u].at
        BY Zenon DEF ReservationsInTurnOrder, InOrder, ActiveIds
    <2> DEFINE old(v) == v \in Ids /\ tasks[v].status \in Active /\ tasks'[v].at = tasks[v].at
               new(v) == /\ v = x /\ tasks'[v].at = q.at /\ tasks'[v].issue = q.issue
                         /\ \/ q.task = 0 /\ x = Len(tasks) + 1
                            \/ q.task = x /\ x \in ActiveOf(q.issue)
    <2>2. (old(t) \/ new(t)) /\ (old(u) \/ new(u)) /\ t \notin revived /\ u \notin revived
        BY ZenonT(60), <1>2, <2>1 DEF Writes
    <2>3. \A v \in Ids : tasks'[v].issue = tasks[v].issue
        BY ZenonT(60), <1>3 DEF Grows
    <2>4. CASE old(t) /\ old(u)
        BY ZenonT(60), <2>1, <2>2, <2>3, <2>4 DEF ScheduleInvariant, ReservationsInTurnOrder, InOrder, ActiveIds
    <2>5. Fits(q.issue, q.task, q.at)
        BY Zenon, <1>1 DEF ChecksOf
    <2>6. CASE new(t) /\ old(u)
        <3>1. u \in ActiveOf(q.issue) /\ tasks[u].at # 0 /\ u <= Len(tasks)
            BY SMTT(60), <2>1, <2>3, <2>6, <1>3 DEF ActiveOf, Ids
        <3>2. q.task = x /\ x \in ActiveOf(q.issue) /\ u > q.task /\ u # q.task
            BY SMTT(60), <1>3, <2>1, <2>6, <3>1 DEF Ids
        <3> QED
            BY ZenonT(60), <2>5, <2>6, <3>1, <3>2 DEF Fits, FitsAmong
    <2>7. CASE old(t) /\ new(u)
        <3>1. t \in ActiveOf(q.issue) /\ tasks[t].at # 0 /\ t \in Nat /\ t > 0
            BY SMTT(60), <1>3, <2>1, <2>3, <2>7 DEF ActiveOf, Ids
        <3>2. t # q.task /\ ~(t > q.task /\ q.task \in ActiveOf(q.issue))
            BY SMTT(60), <1>3, <2>1, <2>7, <3>1 DEF ActiveOf, Ids
        <3> QED
            BY Zenon, <2>5, <2>7, <3>1, <3>2 DEF Fits, FitsAmong
    <2>8. CASE new(t) /\ new(u)
        BY SMTT(60), <1>3, <2>1, <2>8 DEF Ids
    <2> HIDE DEF old, new
    <2> QED
        BY ZenonT(60), <2>2, <2>4, <2>6, <2>7, <2>8
<1> QED
    BY ZenonT(60), <1>9, <1>10, <1>11, <1>12 DEF ScheduleInvariant
-----------------------------------------------------------------------------
(* The invariant and what it gives. *)

LEMMA ScheduleInit ==
    Init => ScheduleInvariant
<1> SUFFICES ASSUME Init PROVE ScheduleInvariant
    OBVIOUS
<1>1. MaxTime \in Nat /\ SlotMax \in Nat /\ NoReq \notin Requests /\ "ok" \in Kits
    BY Zenon, ConstantsAssumption DEF ScheduleAssumption
<1>2. tasks \in Seq(TaskRow) /\ Len(tasks) = 0
    BY Zenon, EmptySeq DEF Init
<1>3. Ids = {}
    BY <1>2 DEF Ids
<1>4. Idle \in Progress
    BY <1>1, <1>2 DEF Idle, Progress
<1>5. \A r \in Requests : req[r].pc = "idle" /\ req[r].task = 0
    BY Zenon DEF Init, Idle
<1>6. TypeOK
    BY SMTT(30), <1>1, <1>2, <1>4, <1>5 DEF Init, TypeOK
<1>7. SlotBounded
    <2>1. \A s : Booked(s) = {}
        BY Zenon, <1>3 DEF Booked
    <2> QED
        BY SMTT(30), <1>1, <2>1, FS_EmptySet DEF SlotBounded
<1>8. ReservationsInTurnOrder
    BY Zenon, <1>3 DEF ReservationsInTurnOrder, InOrder, ActiveIds
<1>9. \A r \in Requests : LocksOf(r) /\ ChecksOf(r)
    BY Zenon, <1>1, <1>5 DEF Init, LocksOf, ChecksOf
<1> QED
    BY ZenonT(60), <1>6, <1>7, <1>8, <1>9 DEF ScheduleInvariant

LEMMA ScheduleNext ==
    ASSUME ScheduleInvariant, [Next]_vars
    PROVE  ScheduleInvariant'
<1>1. CASE UNCHANGED vars
    BY Zenon, <1>1, SameRows, RowStep DEF vars, ScheduleInvariant, TypeOK
<1>2. CASE \/ KitChanges \/ Tick \/ \E i \in Issues : Release(i)
           \/ \E t \in Ids : ExecuteNow(t) \/ Cancel(t) \/ Promote(t) \/ Claim(t) \/ Finish(t)
    BY Zenon, <1>2, OtherSteps
<1>3. CASE \E i \in Issues : CreateNow(i) \/ LegacyInsert(i) \/ RepairNulls(i)
    BY Zenon, <1>3, InsertSteps
<1>4. CASE \E r \in Requests, at \in Times :
              \/ \E i \in Issues : CreateLock(r, i, at)
              \/ \E t \in Ids : RescheduleRead(r, t, at)
    BY Zenon, <1>4, CreateLockStep, RescheduleReadStep
<1>5. CASE \E r \in Requests : RequestStep(r)
    BY Zenon, <1>5, RescheduleLockStep, TakeSlotStep, CommitStep DEF RequestStep
<1> QED
    BY Zenon, <1>1, <1>2, <1>3, <1>4, <1>5 DEF Next

(* The locks are held and the checks stay true in every reachable state      *)
(* (create_task_record, reschedule_task, check_slot_capacity).               *)
THEOREM ScheduleInvariantHolds == Spec => []ScheduleInvariant
<1>1. Init => ScheduleInvariant
    BY Zenon, ScheduleInit
<1>2. ScheduleInvariant /\ [Next]_vars => ScheduleInvariant'
    BY Zenon, ScheduleNext
<1> QED
    BY Zenon, <1>1, <1>2, PTL DEF Spec

(* No hour holds more bookings than slot_max_tasks, the bookings of an Issue *)
(* follow its turn order, and the schedule window accepts exactly the times  *)
(* that keep it so, for every number of Issues, tasks, requests and hours    *)
(* (slot_capacity.py, issue_task_order.py).                                  *)
THEOREM BookingsAreKept == Spec => []BookingsKept
<1>1. ScheduleInvariant => BookingsKept
    <2>1. SUFFICES ASSUME ScheduleInvariant PROVE BookingsKept
        OBVIOUS
    <2>2. tasks \in Seq(TaskRow) /\ Len(tasks) \in Nat /\ MaxTime \in Nat
        BY ZenonT(60), <2>1, LenProperties, ConstantsAssumption DEF ScheduleInvariant, TypeOK, ScheduleAssumption
    <2>3. WindowIsExact
        <3>1. SUFFICES ASSUME NEW i \in Issues, NEW t \in Ids \cup {0}, NEW at \in Times
                       PROVE  InWindow(i, t, at) <=> Fits(i, t, at)
            BY Zenon DEF WindowIsExact, InWindow, Fits
        <3>2. t \in Nat /\ at \in Nat
            BY SMTT(30), <2>2 DEF Ids, Times
        <3> QED
            BY Zenon, <2>2, <3>2, WindowExact
    <2> QED
        BY Zenon, <2>1, <2>3 DEF BookingsKept, ScheduleInvariant
<1> QED
    BY Zenon, <1>1, ScheduleInvariantHolds, PTL

(* Among any requests that wait, one waits for none of the others: the Issue *)
(* row is taken before the slot (create_task_record, reschedule_task,        *)
(* check_slot_capacity), so the database never has a deadlock to break.      *)
THEOREM RequestsNeverDeadlock == Spec => []NoWaitCycle
<1>1. ScheduleInvariant => NoWaitCycle
    <2>1. SUFFICES ASSUME ScheduleInvariant, NEW S \in SUBSET Requests, S # {}
                   PROVE  \E r \in S : \A s \in S : ~WaitsFor(r, s)
        BY Zenon DEF NoWaitCycle
    <2>2. \A r \in S : LocksOf(r) /\ req[r].pc \in {"idle", "row", "slot", "write"}
        BY ZenonT(60), <2>1 DEF ScheduleInvariant, TypeOK, Progress
    <2>3. CASE \E r \in S : req[r].pc \in {"idle", "write"}
        BY Zenon, <2>3 DEF WaitsFor
    <2>4. CASE /\ \A r \in S : req[r].pc \notin {"idle", "write"}
               /\ \E r \in S : req[r].pc = "slot"
        <3>1. PICK r \in S : req[r].pc = "slot"
            BY Zenon, <2>4
        <3>2. Slot(req[r].at) \in Slots
            BY Zenon, <2>2, <3>1 DEF LocksOf, Slots
        <3>3. \A s \in S : ~WaitsFor(r, s)
            BY SMTT(60), <2>2, <2>4, <3>1, <3>2 DEF WaitsFor, LocksOf
        <3> QED
            BY Zenon, <3>3
    <2>5. CASE \A r \in S : req[r].pc = "row"
        <3>1. \A r, s \in S : ~WaitsFor(r, s)
            BY SMTT(60), <2>2, <2>5 DEF WaitsFor, LocksOf
        <3> QED
            BY Zenon, <2>1, <3>1
    <2> QED
        BY Zenon, <2>2, <2>3, <2>4, <2>5
<1> QED
    BY Zenon, <1>1, ScheduleInvariantHolds, PTL
=============================================================================
