--------------------------- MODULE ReadinessProofs ---------------------------
(***************************************************************************)
(* The readiness rows for any tasks, any number of concurrent checks and   *)
(* any history of the Kit.  That nothing is blamed without a cause needs   *)
(* to know where every stored and every pending conclusion comes from;     *)
(* that only the check begun last writes needs the order of generations    *)
(* within the lifetime of a row.  ReadinessInvariant holds both.           *)
(***************************************************************************)
EXTENDS RuntimeReadiness, TLAPS

-----------------------------------------------------------------------------
(* Conclusions. *)

(* What probe_worker_kit can conclude. *)
LEMMA ConclusionType ==
    ASSUME NEW k \in KitStates, NEW s \in Scopes
    PROVE  /\ Conclusion(k, s) \in Results
           /\ Conclusion(k, s).status \in {"ready", "unavailable"}
<1>1. (k = "ok") \in BOOLEAN
    BY Zenon 
<1> QED
    BY Zenon, <1>1 DEF Conclusion, Results, Codes

(* A conclusion that stops a task was drawn from a Kit in such a state. *)
LEMMA WitnessGivesCause ==
    ASSUME TypeOK, NEW s \in Scopes, NEW r, Witnessed(r, s)
    PROVE  /\ r.status # "unknown"
           /\ Missing(r) => "gone" \in seen
           /\ Unavailable(r) /\ ~Missing(r) =>
                 r.code = "invalid" /\ ("broken" \in seen \/ (s = "v2" /\ "v1only" \in seen))
           /\ r.status = "ready" /\ s = "v2" /\ ~r.has => "bare" \in seen
<1>1. PICK k \in seen : /\ r.status = Conclusion(k, s).status /\ r.code = Conclusion(k, s).code
                        /\ r.has = Conclusion(k, s).has
    BY Zenon DEF Witnessed
<1>2. k \in {"ok", "bare", "v1only", "gone", "broken"}
    BY Zenon, ConstantsAssumption DEF TypeOK, ReadinessAssumption
<1>3. Conclusion(k, s).status =
          (IF k \in {"ok", "bare"} \/ (k = "v1only" /\ s = "v1") THEN "ready" ELSE "unavailable")
    BY Zenon DEF Conclusion
<1>4. Conclusion(k, s).code = (IF k = "gone" THEN "not_found"
                               ELSE IF k = "broken" \/ (k = "v1only" /\ s = "v2") THEN "invalid"
                               ELSE "none")
    BY Zenon DEF Conclusion
<1>5. Conclusion(k, s).has <=> k = "ok"
    BY Zenon  DEF Conclusion
<1>6. s = "v1" \/ s = "v2"
    BY Zenon DEF Scopes
<1>7. /\ r.status # "unknown"
      /\ Missing(r) => k = "gone"
      /\ Unavailable(r) /\ ~Missing(r) => r.code = "invalid" /\ (k = "broken" \/ (s = "v2" /\ k = "v1only"))
    BY Zenon, <1>1, <1>2, <1>3, <1>4, <1>6 DEF Missing, Unavailable
<1>8. r.status = "ready" /\ s = "v2" /\ ~r.has => k = "bare"
    <2>1. r.status = "ready" /\ s = "v2" => k = "ok" \/ k = "bare"
        BY Zenon, <1>1, <1>2, <1>3
    <2>2. k = "ok" => r.has
        BY Zenon, <1>1, <1>5
    <2> QED
        BY Zenon, <2>1, <2>2
<1> QED
    BY Zenon, <1>1, <1>7, <1>8

(* The verdict of the gate on a stored row blames nobody without a cause. *)
LEMMA VerdictIsFair ==
    ASSUME ReadinessInvariant, NEW t \in Tasks, NEW own \in BOOLEAN, task[t] # "new",
           Verdict(t, Row(Scope(t)), own), seen' = seen
    PROVE  /\ BlameHasCause'
           /\ task' \in [Tasks -> {"new", "PENDING", "QUEUED", "CLAIMED", "FAILED"}]
           /\ why' \in [Tasks -> [code : Codes \cup {"no_harness"}, own : BOOLEAN]]
           /\ \A u \in Tasks : task'[u] = "new" <=> task[u] = "new"
<1> DEFINE s == Scope(t)
           r == row[s]
<1>1. TypeOK /\ NoBlameWithoutCause /\ MissingKitOnlyParks
    BY Zenon DEF ReadinessInvariant, BlameHasCause
<1>2. /\ s \in Scopes /\ Row(Scope(t)) = r /\ r \in RowType
      /\ \A u \in Tasks : Scope(u) = "v1" <=> u \in V1Tasks
      /\ \A u \in Tasks : Scope(u) = "v2" <=> u \notin V1Tasks
    BY Zenon, <1>1 DEF Scope, Scopes, Row, RowKey, TypeOK
<1>3. r.status # "unknown" => Witnessed(r, s)
    BY Zenon, <1>2 DEF ReadinessInvariant
<1> HIDE DEF r
<1>4. r.status # "unknown" =>
         /\ Missing(r) => "gone" \in seen
         /\ Unavailable(r) /\ ~Missing(r) =>
               r.code = "invalid" /\ ("broken" \in seen \/ (s = "v2" /\ "v1only" \in seen))
         /\ r.status = "ready" /\ s = "v2" /\ ~r.has => "bare" \in seen
    BY Zenon, <1>1, <1>2, <1>3, WitnessGivesCause
<1> DEFINE bad(u) == IF u \in V1Tasks THEN {"gone", "broken"}
                     ELSE {"gone", "broken", "v1only", "bare"}
<1>5. CASE Missing(r) /\ Park(s, own)
    <2>1. "gone" \in seen
        BY Zenon, <1>4, <1>5 DEF Missing
    <2>2. \A u \in Tasks : seen' \cap bad(u) # {}
        BY Zenon, <2>1
    <2>3. \A u \in Tasks : /\ task'[u] = "FAILED" => task[u] = "FAILED" /\ why'[u] = why[u]
                           /\ task'[u] = "new" <=> task[u] = "new"
        BY Zenon, <1>5 DEF Park
    <2>4. BlameHasCause'
        BY Zenon, <1>1, <2>2, <2>3 DEF BlameHasCause, NoBlameWithoutCause, MissingKitOnlyParks
    <2>5. task' \in [Tasks -> {"new", "PENDING", "QUEUED", "CLAIMED", "FAILED"}]
        BY Zenon, <1>1, <1>5 DEF Park, TypeOK
    <2>6. why' \in [Tasks -> [code : Codes \cup {"no_harness"}, own : BOOLEAN]]
        <3>1. [code |-> "not_found", own |-> own] \in [code : Codes \cup {"no_harness"}, own : BOOLEAN]
            BY Zenon DEF Codes
        <3> QED
            BY Zenon, <1>1, <1>5, <3>1 DEF Park, TypeOK
    <2> QED
        BY Zenon, <2>3, <2>4, <2>5, <2>6
<1>6. ASSUME NEW code \in {"invalid", "no_harness"}, Fail(t, code, own), seen \cap bad(t) # {}
      PROVE  /\ BlameHasCause'
             /\ task' \in [Tasks -> {"new", "PENDING", "QUEUED", "CLAIMED", "FAILED"}]
             /\ why' \in [Tasks -> [code : Codes \cup {"no_harness"}, own : BOOLEAN]]
             /\ \A u \in Tasks : task'[u] = "new" <=> task[u] = "new"
    <2>1. /\ task' = [task EXCEPT ![t] = "FAILED"]
          /\ why' = [why EXCEPT ![t] = [code |-> code, own |-> own]]
        BY Zenon, <1>6 DEF Fail
    <2>2. /\ task'[t] = "FAILED" /\ why'[t].code = code
          /\ \A u \in Tasks : u # t => task'[u] = task[u] /\ why'[u] = why[u]
        BY Zenon, <1>1, <2>1 DEF TypeOK
    <2>3. NoBlameWithoutCause'
        <3>1. SUFFICES ASSUME NEW u \in Tasks, why'[u] # NoCause PROVE seen' \cap bad(u) # {}
            BY Zenon DEF NoBlameWithoutCause, NoCause
        <3>2. CASE u = t
            BY Zenon, <1>6, <3>2
        <3>3. CASE u # t
            BY Zenon, <1>1, <2>2, <3>1, <3>3 DEF NoBlameWithoutCause
        <3> QED
            BY Zenon, <3>2, <3>3
    <2>4. MissingKitOnlyParks'
        BY Zenon, <1>1, <2>2, <1>6 DEF MissingKitOnlyParks
    <2>5. why' \in [Tasks -> [code : Codes \cup {"no_harness"}, own : BOOLEAN]]
        <3>1. [code |-> code, own |-> own] \in [code : Codes \cup {"no_harness"}, own : BOOLEAN]
            BY Zenon, <1>6 DEF Codes
        <3> QED
            BY Zenon, <1>1, <2>1, <3>1 DEF TypeOK
    <2> QED
        BY Zenon, <1>1, <2>1, <2>2, <2>3, <2>4, <2>5 DEF TypeOK, BlameHasCause
<1>7. CASE Unavailable(r) /\ ~Missing(r) /\ Fail(t, r.code, own)
    <2>1. r.code = "invalid" /\ ("broken" \in seen \/ (s = "v2" /\ "v1only" \in seen))
        BY Zenon, <1>4, <1>7 DEF Unavailable
    <2>2. seen \cap bad(t) # {}
        BY Zenon, <1>2, <2>1
    <2> QED
        BY Zenon, <1>6, <1>7, <2>1, <2>2
<1>8. CASE r.status = "ready" /\ s = "v2" /\ ~r.has /\ Fail(t, "no_harness", own)
    <2>1. seen \cap bad(t) # {}
        BY Zenon, <1>2, <1>4, <1>8
    <2> QED
        BY Zenon, <1>6, <1>8, <2>1
<1>9. CASE task' = [task EXCEPT ![t] = "CLAIMED"] /\ why' = why
    <2>1. task'[t] = "CLAIMED" /\ \A u \in Tasks : u # t => task'[u] = task[u]
        BY Zenon, <1>1, <1>9 DEF TypeOK
    <2>2. BlameHasCause'
        BY Zenon, <1>1, <1>9, <2>1 DEF BlameHasCause, NoBlameWithoutCause, MissingKitOnlyParks
    <2> QED
        BY Zenon, <1>1, <1>9, <2>1, <2>2 DEF TypeOK
<1> QED
    BY Zenon, <1>2, <1>5, <1>7, <1>8, <1>9 DEF Verdict
-----------------------------------------------------------------------------
(* Steps of the checks. *)

ChecksInvariant ==
    /\ row \in [Scopes -> RowType] /\ check \in [Checks -> CheckType] /\ starts \in 0..MaxStarts
    /\ \A s \in Scopes :
          /\ row[s].gen \in 0..starts /\ row[s].by \in 0..starts /\ row[s].born \in 0..starts
          /\ row[s].status = "unknown" <=> row[s].by = 0
          /\ row[s].gen = 0 => row[s] = NoRow
          /\ row[s].born = 0 => row[s].gen = 0
          /\ row[s].status # "unknown" => Witnessed(row[s], s)
    /\ \A c \in Checks :
          /\ check[c].gen \in 0..check[c].start /\ check[c].start \in 0..starts
          /\ check[c].phase # "idle" => check[c].gen > 0 /\ check[c].start > 0
          /\ check[c].phase = "probed" => Witnessed(check[c].result, check[c].scope)
          /\ LastBegunIsCurrent(c)

TasksInvariant ==
    /\ BlameHasCause
    /\ gate # NoTask => task[gate] # "new"
    /\ kit \in KitStates /\ kit \in seen /\ seen \subseteq KitStates
    /\ gate \in Tasks \cup {NoTask}
    /\ task \in [Tasks -> {"new", "PENDING", "QUEUED", "CLAIMED", "FAILED"}]
    /\ why \in [Tasks -> [code : Codes \cup {"no_harness"}, own : BOOLEAN]]

(* The part of the invariant about rows and checks, and the other part. *)
LEMMA InvariantSplits ==
    ReadinessInvariant <=> ChecksInvariant /\ TasksInvariant
BY Zenon DEF ReadinessInvariant, ChecksInvariant, TasksInvariant, TypeOK

(* begin_runtime_check: the new check has the newest generation of its row. *)
LEMMA BeginStep ==
    ASSUME ChecksInvariant, NEW c \in Checks, NEW s \in Scopes, BeginRuntimeCheck(c, s),
           seen' = seen
    PROVE  ChecksInvariant' /\ ConclusionsKept /\ SupersededIsDropped
<1> DEFINE old == row[s]
           new == row'[s]
           k == check'[c]
<1>1. starts \in Nat /\ starts' = starts + 1 /\ starts' \in 0..MaxStarts /\ MaxStarts \in Nat
    BY ConstantsAssumption DEF BeginRuntimeCheck, ChecksInvariant, ReadinessAssumption
<1>2. /\ old \in RowType /\ old.gen \in 0..starts /\ old.by \in 0..starts /\ old.born \in 0..starts
      /\ row[RowKey(s)] = old
    BY Zenon DEF ChecksInvariant, RowKey
<1>3. /\ new \in RowType /\ new.gen = old.gen + 1 /\ new.status = old.status
      /\ new.code = old.code /\ new.has = old.has /\ new.by = old.by
      /\ new.born = (IF old.born = 0 THEN starts + 1 ELSE old.born)
      /\ \A o \in Scopes \ {s} : row'[o] = row[o]
      /\ row' \in [Scopes -> RowType]
    <2> DEFINE born == IF old.born = 0 THEN starts + 1 ELSE old.born
               first == [old EXCEPT !.gen = old.gen + 1]
               second == [first EXCEPT !.born = born]
    <2>1. /\ first \in RowType /\ first.gen = old.gen + 1 /\ first.status = old.status
          /\ first.code = old.code /\ first.has = old.has /\ first.by = old.by
          /\ first.born = old.born
        BY <1>2 DEF RowType
    <2>2. born \in Nat
        BY <1>1, <1>2
    <2>3. row' = [row EXCEPT ![s] = second]
        BY Zenon, <1>2 DEF BeginRuntimeCheck, Row, RowKey, RowType
    <2> HIDE DEF first, born
    <2>4. /\ second \in RowType /\ second.gen = first.gen /\ second.status = first.status
          /\ second.code = first.code /\ second.has = first.has /\ second.by = first.by
          /\ second.born = born
        BY Zenon, <2>1, <2>2 DEF RowType
    <2> HIDE DEF second
    <2>5. row'[s] = second /\ \A o \in Scopes \ {s} : row'[o] = row[o]
        BY Zenon, <2>3 DEF ChecksInvariant
    <2> QED
        BY Zenon, <2>1, <2>3, <2>4, <2>5 DEF ChecksInvariant, born
<1>4. /\ k \in CheckType /\ k.phase = "probing" /\ k.scope = s
      /\ k.gen = old.gen + 1 /\ k.start = starts + 1
      /\ \A d \in Checks \ {c} : check'[d] = check[d]
      /\ check' \in [Checks -> CheckType]
    <2> DEFINE made == [Idle EXCEPT !.phase = "probing", !.scope = s,
                                    !.gen = Row(s).gen + 1, !.start = starts + 1]
               m1 == [Idle EXCEPT !.phase = "probing"]
               m2 == [m1 EXCEPT !.scope = s]
               m3 == [m2 EXCEPT !.gen = Row(s).gen + 1]
    <2>1. Row(s).gen + 1 \in Nat /\ starts + 1 \in Nat /\ Row(s).gen = old.gen
        BY <1>1, <1>2 DEF Row, RowKey, RowType
    <2>2. FALSE \in BOOLEAN /\ NoRow \in Results
        BY Zenon  DEF Results
    <2>3. m1 \in CheckType /\ m1.phase = "probing"
        BY Zenon, <2>2 DEF CheckType, Idle, Scopes
    <2> HIDE DEF m1
    <2>4. m2 \in CheckType /\ m2.phase = "probing" /\ m2.scope = s
        BY Zenon, <2>3 DEF CheckType
    <2> HIDE DEF m2
    <2>5. m3 \in CheckType /\ m3.phase = "probing" /\ m3.scope = s /\ m3.gen = Row(s).gen + 1
        BY Zenon, <2>1, <2>4 DEF CheckType
    <2>6. made = [m3 EXCEPT !.start = starts + 1]
        BY Zenon DEF m1, m2
    <2> HIDE DEF m3, made
    <2>7. /\ made \in CheckType /\ made.phase = "probing" /\ made.scope = s
          /\ made.gen = Row(s).gen + 1 /\ made.start = starts + 1
        BY Zenon, <2>1, <2>5, <2>6 DEF CheckType
    <2>8. check' = [check EXCEPT ![c] = made]
        BY Zenon DEF BeginRuntimeCheck, made
    <2> QED
        BY Zenon, <2>1, <2>7, <2>8 DEF ChecksInvariant
<1> HIDE DEF old, new, k
<1>5. ASSUME NEW o \in Scopes
      PROVE  /\ row'[o].gen \in 0..starts' /\ row'[o].by \in 0..starts' /\ row'[o].born \in 0..starts'
             /\ row'[o].status = "unknown" <=> row'[o].by = 0
             /\ row'[o].gen = 0 => row'[o] = NoRow
             /\ row'[o].born = 0 => row'[o].gen = 0
             /\ row'[o].by = row[o].by
             /\ row'[o].status # "unknown" => Witnessed(row[o], o)' /\ row'[o].status # "unknown"
    <2>1. CASE o = s
        BY SMTT(30), <1>1, <1>2, <1>3, <2>1 DEF ChecksInvariant, Witnessed, Conclusion, old, new
    <2>2. CASE o # s
        BY <1>1, <1>3, <2>2 DEF ChecksInvariant, Witnessed, Conclusion
    <2> QED
        BY Zenon, <2>1, <2>2
<1>6. ASSUME NEW d \in Checks
      PROVE  /\ check'[d].gen \in 0..check'[d].start /\ check'[d].start \in 0..starts'
             /\ check'[d].phase # "idle" => check'[d].gen > 0 /\ check'[d].start > 0
             /\ check'[d].phase = "probed" => Witnessed(check[d].result, check[d].scope)'
    <2>1. CASE d = c
        BY <1>1, <1>2, <1>4, <2>1 DEF k
    <2>2. CASE d # c
        BY SMTT(30), <1>1, <1>4, <2>2 DEF ChecksInvariant, Witnessed, Conclusion
    <2> QED
        BY Zenon, <2>1, <2>2
<1>7. ASSUME NEW d \in Checks PROVE LastBegunIsCurrent(d)'
    <2>1. \A e \in Checks : check'[e].start <= starts + 1
        BY <1>1, <1>6 DEF CheckType
    <2>2. CASE d = c
        BY <1>1, <1>2, <1>3, <1>4, <2>1, <2>2 DEF LastBegunIsCurrent, k, new, RowType
    <2>3. CASE d # c /\ check[d].scope # s
        <3>1. /\ check'[d] = check[d] /\ row'[check[d].scope] = row[check[d].scope]
              /\ check[d].scope \in Scopes /\ LastBegunIsCurrent(d)
            BY Zenon, <1>3, <1>4, <2>3 DEF ChecksInvariant, CheckType
        <3>2. \A e \in Checks : check'[e].scope = check[d].scope => check'[e] = check[e]
            BY Zenon, <1>4, <2>3 DEF k
        <3> QED
            BY Zenon, <3>1, <3>2 DEF LastBegunIsCurrent
    <2>4. CASE d # c /\ check[d].scope = s
        <3>1. /\ check'[d] = check[d] /\ LastBegunIsCurrent(d) /\ check[d].start \in 0..starts
              /\ check[d].gen \in Nat
            BY Zenon, <1>4, <2>4 DEF ChecksInvariant, CheckType
        <3>2. old.born = 0 => ~(check[d].start >= new.born)
            BY <1>1, <1>3, <3>1
        <3>3. old.born # 0 /\ check[d].start > 0 /\ old.gen > 0 /\ check[d].start >= old.born =>
                 check[d].gen < new.gen
            BY <1>2, <1>3, <2>4, <3>1 DEF LastBegunIsCurrent, old
        <3>4. old.born # 0 => old.gen > 0
            <4>1. row[s].gen = 0 => row[s].born = 0
                BY DEF ChecksInvariant, NoRow
            <4> QED
                BY <1>2, <4>1 DEF old
        <3>5. check[d].start > 0 /\ check[d].start >= new.born => check[d].gen < new.gen
            BY Zenon, <1>2, <1>3, <3>1, <3>2, <3>3, <3>4
        <3>6. new.gen \in Nat
            BY Zenon, <1>3 DEF RowType
        <3> QED
            BY <2>4, <3>1, <3>5, <3>6 DEF LastBegunIsCurrent, new
    <2> QED
        BY Zenon, <2>2, <2>3, <2>4
<1>8. ChecksInvariant'
    BY Zenon, <1>1, <1>3, <1>4, <1>5, <1>6, <1>7 DEF ChecksInvariant
<1> QED
    BY Zenon, <1>5, <1>8 DEF ConclusionsKept, SupersededIsDropped
(* A step that leaves the rows alone and changes only how far check c is,    *)
(* keeping what begin_runtime_check gave it.                                 *)
LEMMA ProgressStep ==
    ASSUME ChecksInvariant, NEW c \in Checks, NEW k \in CheckType,
           k.scope = check[c].scope /\ k.gen = check[c].gen /\ k.start = check[c].start,
           k.phase # "idle", check[c].phase # "idle",
           k.phase = "probed" => Witnessed(k.result, k.scope),
           check' = [check EXCEPT ![c] = k], UNCHANGED <<row, starts, seen>>
    PROVE  ChecksInvariant' /\ ConclusionsKept /\ SupersededIsDropped
<1>1. check' \in [Checks -> CheckType] /\ check'[c] = k /\ \A d \in Checks \ {c} : check'[d] = check[d]
    BY Zenon DEF ChecksInvariant
<1>2. \A d \in Checks : /\ check'[d].scope = check[d].scope /\ check'[d].gen = check[d].gen
                        /\ check'[d].start = check[d].start
                        /\ check'[d].phase # "idle" => check[d].phase # "idle"
    BY Zenon, <1>1
<1>3. \A s \in Scopes : row'[s].status # "unknown" => Witnessed(row[s], s)'
    BY ZenonT(60) DEF ChecksInvariant, Witnessed, Conclusion
<1>4. ASSUME NEW d \in Checks
      PROVE  /\ check'[d].gen \in 0..check'[d].start /\ check'[d].start \in 0..starts'
             /\ check'[d].phase # "idle" => check'[d].gen > 0 /\ check'[d].start > 0
             /\ LastBegunIsCurrent(d)'
    <2>1. LastBegunIsCurrent(d)
        BY Zenon DEF ChecksInvariant
    <2>2. LastBegunIsCurrent(d)'
        BY ZenonT(60), <1>2, <2>1 DEF LastBegunIsCurrent
    <2> QED
        BY Zenon, <1>2, <2>2 DEF ChecksInvariant
<1>5. ASSUME NEW d \in Checks, check'[d].phase = "probed"
      PROVE  Witnessed(check[d].result, check[d].scope)'
    <2>1. CASE d = c
        BY ZenonT(60), <1>1, <1>5, <2>1 DEF Witnessed, Conclusion
    <2>2. CASE d # c
        BY SMTT(30), <1>1, <1>5, <2>2 DEF ChecksInvariant, Witnessed, Conclusion
    <2> QED
        BY Zenon, <2>1, <2>2
<1>6. ChecksInvariant'
    BY ZenonT(60), <1>1, <1>3, <1>4, <1>5 DEF ChecksInvariant
<1> QED
    BY Zenon, <1>6 DEF ConclusionsKept, SupersededIsDropped, ChecksInvariant

(* An idle check is no check. *)
LEMMA IdleType ==
    /\ Idle \in CheckType /\ Idle.phase = "idle" /\ Idle.start = 0 /\ Idle.gen = 0
    /\ NoRow \in RowType /\ NoRow.gen = 0 /\ NoRow.status = "unknown" /\ NoRow.by = 0
    /\ NoRow.born = 0
<1>1. FALSE \in BOOLEAN /\ NoRow \in Results
    BY Zenon  DEF Results
<1>2. NoRow \in RowType /\ NoRow.gen = 0 /\ NoRow.status = "unknown" /\ NoRow.by = 0 /\ NoRow.born = 0
    BY Zenon, <1>1 DEF NoRow, RowType, Codes
<1>3. Idle \in CheckType /\ Idle.phase = "idle" /\ Idle.start = 0 /\ Idle.gen = 0
    <2> HIDE DEF NoRow
    <2> QED
        BY Zenon, <1>1 DEF Idle, CheckType, Scopes
<1> QED
    BY Zenon, <1>2, <1>3

(* A check ends; the row of its level keeps its conclusion, or goes when it  *)
(* has none.                                                                 *)
LEMMA EndStep ==
    ASSUME ChecksInvariant, NEW c \in Checks, check' = [check EXCEPT ![c] = Idle],
           NEW s \in Scopes,
           row' = row \/ (row' = [row EXCEPT ![s] = NoRow] /\ row[s].by = 0),
           UNCHANGED <<starts, seen>>
    PROVE  ChecksInvariant' /\ ConclusionsKept /\ SupersededIsDropped
<1>1. /\ check' \in [Checks -> CheckType] /\ check'[c] = Idle
      /\ \A d \in Checks \ {c} : check'[d] = check[d]
    BY Zenon, IdleType DEF ChecksInvariant
<1>2. \A o \in Scopes : row'[o] = row[o] \/ (row'[o] = NoRow /\ row[o].by = 0)
    BY Zenon DEF ChecksInvariant
<1>3. row' \in [Scopes -> RowType] /\ starts \in Nat
    BY IdleType, ConstantsAssumption DEF ChecksInvariant, ReadinessAssumption
<1>4. ASSUME NEW o \in Scopes
      PROVE  /\ row'[o].gen \in 0..starts' /\ row'[o].by \in 0..starts' /\ row'[o].born \in 0..starts'
             /\ row'[o].status = "unknown" <=> row'[o].by = 0
             /\ row'[o].gen = 0 => row'[o] = NoRow
             /\ row'[o].born = 0 => row'[o].gen = 0
             /\ row'[o].status # "unknown" => Witnessed(row[o], o)'
             /\ row'[o].by = row[o].by
    BY SMTT(30), <1>2, <1>3, IdleType DEF ChecksInvariant, Witnessed, Conclusion
<1>5. ASSUME NEW d \in Checks
      PROVE  /\ check'[d].gen \in 0..check'[d].start /\ check'[d].start \in 0..starts'
             /\ check'[d].phase # "idle" => check'[d].gen > 0 /\ check'[d].start > 0
             /\ check'[d].phase = "probed" => Witnessed(check[d].result, check[d].scope)'
    <2>1. CASE d = c
        BY <1>1, <1>3, <2>1, IdleType
    <2>2. CASE d # c
        BY SMTT(30), <1>1, <2>2 DEF ChecksInvariant, Witnessed, Conclusion
    <2> QED
        BY Zenon, <2>1, <2>2
<1>6. ASSUME NEW d \in Checks PROVE LastBegunIsCurrent(d)'
    <2>1. CASE d = c
        BY <1>1, <2>1, IdleType DEF LastBegunIsCurrent
    <2>2. CASE d # c
        <3>1. check'[d] = check[d] /\ check[d].scope \in Scopes /\ LastBegunIsCurrent(d)
            BY Zenon, <1>1, <2>2 DEF ChecksInvariant, CheckType
        <3>2. CASE row'[check[d].scope] = NoRow
            BY SMTT(30), <3>1, <3>2, IdleType DEF LastBegunIsCurrent
        <3>3. CASE row'[check[d].scope] = row[check[d].scope]
            <4>1. \A e \in Checks : check'[e] = check[e] \/ check'[e].start = 0
                BY Zenon, <1>1, IdleType
            <4>2. check[d].start \in Nat
                BY Zenon DEF ChecksInvariant, CheckType
            <4> QED
                BY SMTT(30), <3>1, <3>3, <4>1, <4>2 DEF LastBegunIsCurrent
        <3> QED
            BY Zenon, <1>2, <3>1, <3>2, <3>3
    <2> QED
        BY Zenon, <2>1, <2>2
<1>7. ChecksInvariant'
    BY Zenon, <1>1, <1>3, <1>4, <1>5, <1>6 DEF ChecksInvariant
<1> QED
    BY Zenon, <1>4, <1>7 DEF ConclusionsKept, SupersededIsDropped

(* finish_runtime_check writes only over the row of its own generation. *)
LEMMA FinishStep ==
    ASSUME ChecksInvariant, NEW c \in Checks, FinishRuntimeCheck(c)
    PROVE  ChecksInvariant' /\ ConclusionsKept /\ SupersededIsDropped
<1> DEFINE k == check[c]
           s == k.scope
           n == k.result
           ok == row[s].gen = k.gen
<1>1. /\ k \in CheckType /\ k.phase = "probed" /\ s \in Scopes /\ k.start > 0 /\ k.start \in 0..starts
      /\ Witnessed(n, s) /\ LastBegunIsCurrent(c) /\ row[s] \in RowType
    BY Zenon DEF ChecksInvariant, FinishRuntimeCheck, CheckType
<1>2. ok \in BOOLEAN
    BY Zenon 
<1>3. /\ check' = [check EXCEPT ![c].phase = "written", ![c].committed = ok]
      /\ row' = IF ok THEN [row EXCEPT ![s] = [row[s] EXCEPT !.status = n.status, !.code = n.code,
                                                             !.has = n.has, !.by = k.start]]
                ELSE row
      /\ UNCHANGED <<starts, seen>>
    BY Zenon DEF FinishRuntimeCheck, Current, Row, RowKey
<1>4. /\ check' \in [Checks -> CheckType] /\ check'[c].phase = "written"
      /\ \A d \in Checks : /\ check'[d].scope = check[d].scope /\ check'[d].gen = check[d].gen
                           /\ check'[d].start = check[d].start
                           /\ d # c => check'[d] = check[d]
    <2> DEFINE m1 == [k EXCEPT !.phase = "written"]
               m2 == [m1 EXCEPT !.committed = ok]
    <2>1. /\ m1 \in CheckType /\ m1.phase = "written" /\ m1.scope = k.scope /\ m1.gen = k.gen
          /\ m1.start = k.start
        BY Zenon, <1>1 DEF CheckType
    <2>2. check' = [check EXCEPT ![c] = m2]
        BY Zenon, <1>3 DEF ChecksInvariant, CheckType
    <2> HIDE DEF m1, ok
    <2>3. /\ m2 \in CheckType /\ m2.phase = "written" /\ m2.scope = k.scope /\ m2.gen = k.gen
          /\ m2.start = k.start
        BY Zenon, <1>2, <2>1 DEF CheckType
    <2> HIDE DEF m2
    <2> QED
        BY Zenon, <2>2, <2>3 DEF ChecksInvariant
<1>5. PICK w \in seen : /\ n.status = Conclusion(w, s).status /\ n.code = Conclusion(w, s).code
                        /\ n.has = Conclusion(w, s).has
    BY Zenon, <1>1 DEF Witnessed
<1>6. n.status \in {"ready", "unavailable"} /\ n.code \in Codes /\ n.has \in BOOLEAN
    <2>1. n.status \in {"ready", "unavailable"} /\ n.code \in Codes
        BY Zenon, <1>5 DEF Conclusion, Codes
    <2>2. n.has \in BOOLEAN
        BY Zenon, <1>5 DEF Conclusion
    <2> QED
        BY Zenon, <2>1, <2>2
<1> DEFINE new == [row[s] EXCEPT !.status = n.status, !.code = n.code, !.has = n.has, !.by = k.start]
<1>7. /\ new \in RowType /\ new.gen = row[s].gen /\ new.born = row[s].born /\ new.by = k.start
      /\ new.status = n.status /\ new.code = n.code /\ new.has = n.has
    <2> DEFINE m1 == [row[s] EXCEPT !.status = n.status]
               m2 == [m1 EXCEPT !.code = n.code]
               m3 == [m2 EXCEPT !.has = n.has]
    <2>0. k.start \in Nat
        BY Zenon, <1>1 DEF CheckType
    <2>1. m1 \in RowType /\ m1.gen = row[s].gen /\ m1.born = row[s].born /\ m1.status = n.status
        BY Zenon, <1>1, <1>6 DEF RowType
    <2>4. new = [m3 EXCEPT !.by = k.start]
        BY Zenon, <1>1 DEF RowType
    <2> HIDE DEF new, n, k, s, m1
    <2>2. /\ m2 \in RowType /\ m2.gen = row[s].gen /\ m2.born = row[s].born /\ m2.status = n.status
          /\ m2.code = n.code
        BY Zenon, <1>6, <2>1 DEF RowType
    <2> HIDE DEF m2
    <2>3. /\ m3 \in RowType /\ m3.gen = row[s].gen /\ m3.born = row[s].born /\ m3.status = n.status
          /\ m3.code = n.code /\ m3.has = n.has
        BY Zenon, <1>6, <2>2 DEF RowType
    <2> HIDE DEF m3
    <2> QED
        BY Zenon, <2>0, <2>3, <2>4 DEF RowType
<1> HIDE DEF new
<1>8. row' = row \/ (row[s].gen = k.gen /\ row' = [row EXCEPT ![s] = new])
    BY Zenon, <1>3 DEF new
<1>9. /\ row' \in [Scopes -> RowType]
      /\ \A o \in Scopes : row'[o] = row[o] \/ (o = s /\ row[s].gen = k.gen /\ row'[o] = new)
      /\ \A o \in Scopes : row'[o].gen = row[o].gen /\ row'[o].born = row[o].born
    BY ZenonT(60), <1>1, <1>7, <1>8 DEF ChecksInvariant
<1>11. seen' = seen /\ starts' = starts
    BY Zenon, <1>3
<1>10. ASSUME NEW o \in Scopes
       PROVE  /\ row'[o].gen \in 0..starts' /\ row'[o].by \in 0..starts' /\ row'[o].born \in 0..starts'
              /\ row'[o].status = "unknown" <=> row'[o].by = 0
              /\ row'[o].gen = 0 => row'[o] = NoRow
              /\ row'[o].born = 0 => row'[o].gen = 0
              /\ row'[o].status # "unknown" => Witnessed(row[o], o)'
    <2>1. CASE row'[o] = row[o]
        <3>1. row[o].status # "unknown" => Witnessed(row[o], o)'
            BY SMTT(30), <1>11, <2>1 DEF ChecksInvariant, Witnessed, Conclusion
        <3> QED
            BY Zenon, <1>11, <2>1, <3>1 DEF ChecksInvariant
    <2>2. CASE o = s /\ row[s].gen = k.gen /\ row'[o] = new
        <3>1. row[s].gen > 0
            BY Zenon, <1>1, <2>2 DEF ChecksInvariant, CheckType
        <3>2. Witnessed(row[o], o)'
            BY <1>3, <1>5, <1>7, <2>2 DEF Witnessed, Conclusion
        <3> QED
            BY SMTT(30), <1>1, <1>3, <1>6, <1>7, <1>9, <2>2, <3>1, <3>2 DEF ChecksInvariant
    <2> QED
        BY Zenon, <1>9, <2>1, <2>2
<1>12. ASSUME NEW d \in Checks
       PROVE  /\ check'[d].gen \in 0..check'[d].start /\ check'[d].start \in 0..starts'
              /\ check'[d].phase # "idle" => check'[d].gen > 0 /\ check'[d].start > 0
              /\ check'[d].phase = "probed" => Witnessed(check[d].result, check[d].scope)'
              /\ LastBegunIsCurrent(d)'
    <2>1. check[d].scope \in Scopes /\ LastBegunIsCurrent(d)
        BY Zenon DEF ChecksInvariant, CheckType
    <2>2. LastBegunIsCurrent(d)'
        BY SMTT(30), <1>4, <1>9, <2>1 DEF LastBegunIsCurrent
    <2>3. CASE d = c
        BY Zenon, <1>1, <1>4, <1>11, <2>2, <2>3 DEF ChecksInvariant
    <2>4. CASE d # c
        BY SMTT(30), <1>4, <1>11, <2>2, <2>4 DEF ChecksInvariant, Witnessed, Conclusion
    <2> QED
        BY Zenon, <2>3, <2>4
<1>13. ChecksInvariant'
    BY Zenon, <1>4, <1>9, <1>10, <1>11, <1>12 DEF ChecksInvariant
<1>14. ConclusionsKept
    BY Zenon, <1>1, <1>7, <1>9 DEF ConclusionsKept
<1>15. SupersededIsDropped
    <2>1. SUFFICES ASSUME row'[s] = new, row[s].gen = k.gen, k.start >= row[s].born,
                          NEW d \in Checks, check[d].scope = s
                   PROVE  check[d].start <= k.start
        BY ZenonT(60), <1>7, <1>9 DEF SupersededIsDropped
    <2>2. k.gen > 0
        BY Zenon, <1>1 DEF ChecksInvariant
    <2> QED
        BY Zenon, <1>1, <2>1, <2>2 DEF LastBegunIsCurrent
<1> QED
    BY Zenon, <1>13, <1>14, <1>15
(* A step that leaves rows and checks alone; the Kit may have changed. *)
LEMMA QuietStep ==
    ASSUME ChecksInvariant, UNCHANGED <<row, check, starts>>, seen \subseteq seen'
    PROVE  ChecksInvariant' /\ ConclusionsKept /\ SupersededIsDropped
<1>1. \A s \in Scopes : row'[s].status # "unknown" => Witnessed(row[s], s)'
    BY ZenonT(60) DEF ChecksInvariant, Witnessed, Conclusion
<1>2. \A c \in Checks : /\ check'[c].phase = "probed" => Witnessed(check[c].result, check[c].scope)'
                        /\ LastBegunIsCurrent(c)'
    BY SMTT(30) DEF ChecksInvariant, Witnessed, Conclusion, LastBegunIsCurrent
<1>3. ChecksInvariant'
    BY Zenon, <1>1, <1>2 DEF ChecksInvariant
<1> QED
    BY Zenon, <1>3 DEF ConclusionsKept, SupersededIsDropped

(* A step that leaves the tasks alone. *)
LEMMA TasksStay ==
    ASSUME TasksInvariant, UNCHANGED <<task, why>>, seen \subseteq seen',
           kit' \in KitStates, kit' \in seen', seen' \subseteq KitStates,
           gate' = gate \/ gate' = NoTask
    PROVE  TasksInvariant' /\ CreationIsGated
<1>1. BlameHasCause'
    BY Zenon DEF TasksInvariant, BlameHasCause, NoBlameWithoutCause, MissingKitOnlyParks
<1>2. TasksInvariant'
    BY Zenon, <1>1 DEF TasksInvariant
<1> QED
    BY Zenon, <1>2 DEF CreationIsGated

(* Every step keeps the invariant and what ReadinessHolds says of it. *)
LEMMA ReadinessNext ==
    ASSUME ReadinessInvariant, Next
    PROVE  ReadinessInvariant' /\ ConclusionsKept /\ SupersededIsDropped /\ CreationIsGated
<1>1. ChecksInvariant /\ TasksInvariant
    BY Zenon, InvariantSplits
<1>2. GateCheck \in Checks /\ NoTask \notin Tasks /\ Admins \subseteq Checks
    BY Zenon, ConstantsAssumption DEF Checks, ReadinessAssumption
<1> DEFINE Kept == /\ ChecksInvariant' /\ TasksInvariant'
                   /\ ConclusionsKept /\ SupersededIsDropped /\ CreationIsGated
<1>3. ASSUME KitChanges PROVE Kept
    <2>1. UNCHANGED <<row, check, starts, task, why, gate>> /\ seen \subseteq seen'
        BY Zenon, <1>3 DEF KitChanges
    <2>2. kit' \in KitStates /\ kit' \in seen' /\ seen' \subseteq KitStates
        BY Zenon, <1>1, <1>3 DEF KitChanges, TasksInvariant
    <2> QED
        BY Zenon, <1>1, <2>1, <2>2, QuietStep, TasksStay
<1>4. ASSUME NEW c \in Checks, NEW s \in Scopes, BeginRuntimeCheck(c, s),
             UNCHANGED <<kit, task, gate, why, seen>>
      PROVE  Kept
    BY Zenon, <1>1, <1>4, BeginStep, TasksStay DEF TasksInvariant
<1>5. ASSUME NEW c \in Checks, ProbeConcludes(c) PROVE Kept
    <2> DEFINE n == Conclusion(kit, check[c].scope)
               m == [check[c] EXCEPT !.phase = "probed"]
               k == [m EXCEPT !.result = n]
    <2>1. /\ check[c] \in CheckType /\ check[c].phase = "probing" /\ check[c].scope \in Scopes
          /\ kit \in KitStates /\ kit \in seen
        BY Zenon, <1>1, <1>5 DEF ChecksInvariant, CheckType, ProbeConcludes, TasksInvariant
    <2>2. n \in Results
        BY Zenon, <2>1, ConclusionType
    <2>3. check' = [check EXCEPT ![c] = k]
        BY Zenon, <1>1, <1>5 DEF ProbeConcludes, ChecksInvariant, CheckType
    <2>4. /\ m \in CheckType /\ m.phase = "probed" /\ m.scope = check[c].scope
          /\ m.gen = check[c].gen /\ m.start = check[c].start
        BY Zenon, <2>1 DEF CheckType
    <2>5. Witnessed(n, check[c].scope)
        BY Zenon, <2>1 DEF Witnessed
    <2> HIDE DEF n, m
    <2>6. /\ k \in CheckType /\ k.phase = "probed" /\ k.scope = check[c].scope
          /\ k.gen = check[c].gen /\ k.start = check[c].start /\ k.result = n
        BY Zenon, <2>2, <2>4 DEF CheckType
    <2> HIDE DEF k
    <2>7. ChecksInvariant' /\ ConclusionsKept /\ SupersededIsDropped
        BY Zenon, <1>1, <1>5, <2>1, <2>3, <2>5, <2>6, ProgressStep DEF ProbeConcludes
    <2> QED
        BY Zenon, <1>1, <1>5, <2>7, TasksStay DEF ProbeConcludes, TasksInvariant
<1>6. ASSUME NEW c \in Checks, ProbeIsTransient(c) PROVE Kept
    <2> DEFINE k == [check[c] EXCEPT !.phase = "transient"]
    <2>1. check[c] \in CheckType /\ check[c].phase = "probing"
        BY Zenon, <1>1, <1>6 DEF ChecksInvariant, ProbeIsTransient
    <2>2. /\ k \in CheckType /\ k.phase = "transient" /\ k.scope = check[c].scope
          /\ k.gen = check[c].gen /\ k.start = check[c].start
        BY Zenon, <2>1 DEF CheckType
    <2>3. check' = [check EXCEPT ![c] = k]
        BY Zenon, <1>6 DEF ProbeIsTransient
    <2> HIDE DEF k
    <2>4. ChecksInvariant' /\ ConclusionsKept /\ SupersededIsDropped
        BY Zenon, <1>1, <1>6, <2>1, <2>2, <2>3, ProgressStep DEF ProbeIsTransient
    <2> QED
        BY Zenon, <1>1, <1>6, <2>4, TasksStay DEF ProbeIsTransient, TasksInvariant
<1>7. ASSUME NEW c \in Checks, FinishRuntimeCheck(c) PROVE Kept
    BY Zenon, <1>1, <1>7, FinishStep, TasksStay DEF FinishRuntimeCheck, TasksInvariant
<1>8. ASSUME NEW c \in Checks, DiscardIncompleteCheck(c) PROVE Kept
    <2> DEFINE s == check[c].scope
    <2>1. s \in Scopes
        BY Zenon, <1>1 DEF ChecksInvariant, CheckType
    <2>2. row' = row \/ (row' = [row EXCEPT ![s] = NoRow] /\ row[s].by = 0)
        BY Zenon, <1>8 DEF DiscardIncompleteCheck, Discardable, Row, RowKey
    <2>3. ChecksInvariant' /\ ConclusionsKept /\ SupersededIsDropped
        BY Zenon, <1>1, <1>8, <2>1, <2>2, EndStep DEF DiscardIncompleteCheck
    <2> QED
        BY Zenon, <1>1, <1>8, <2>3, TasksStay DEF DiscardIncompleteCheck, TasksInvariant
<1>9. ASSUME NEW c \in Checks, VerifyAnswers(c) PROVE Kept
    <2>1. "v1" \in Scopes
        BY Zenon DEF Scopes
    <2>2. ChecksInvariant' /\ ConclusionsKept /\ SupersededIsDropped
        BY Zenon, <1>1, <1>9, <2>1, EndStep DEF VerifyAnswers
    <2> QED
        BY Zenon, <1>1, <1>9, <2>2, TasksStay DEF VerifyAnswers, TasksInvariant
<1>10. ASSUME NEW t \in Tasks, CreateTask(t) PROVE Kept
    <2>1. ChecksInvariant' /\ ConclusionsKept /\ SupersededIsDropped
        BY Zenon, <1>1, <1>10, QuietStep DEF CreateTask
    <2>2. task'[t] = "PENDING" /\ \A u \in Tasks : u # t => task'[u] = task[u]
        BY Zenon, <1>1, <1>10 DEF CreateTask, TasksInvariant
    <2>3. BlameHasCause'
        BY Zenon, <1>1, <1>10, <2>2
           DEF CreateTask, TasksInvariant, BlameHasCause, NoBlameWithoutCause, MissingKitOnlyParks
    <2>4. TasksInvariant'
        BY Zenon, <1>1, <1>2, <1>10, <2>2, <2>3 DEF CreateTask, TasksInvariant
    <2>5. CreationIsGated
        BY Zenon, <1>10, <2>2 DEF CreationIsGated, CreateTask, ProfileScope, Refuses, Row, RowKey
    <2> QED
        BY Zenon, <2>1, <2>4, <2>5
<1>11. ASSUME NEW t \in Tasks, PromoteDueHead(t) PROVE Kept
    <2>1. ChecksInvariant' /\ ConclusionsKept /\ SupersededIsDropped
        BY Zenon, <1>1, <1>11, QuietStep DEF PromoteDueHead
    <2>2. /\ task[t] = "PENDING" /\ task'[t] = "QUEUED"
          /\ \A u \in Tasks : u # t => task'[u] = task[u]
        BY Zenon, <1>1, <1>11 DEF PromoteDueHead, TasksInvariant
    <2>3. BlameHasCause'
        BY Zenon, <1>1, <1>11, <2>2
           DEF PromoteDueHead, TasksInvariant, BlameHasCause, NoBlameWithoutCause, MissingKitOnlyParks
    <2>4. TasksInvariant' /\ CreationIsGated
        BY Zenon, <1>1, <1>2, <1>11, <2>2, <2>3 DEF PromoteDueHead, TasksInvariant, CreationIsGated
    <2> QED
        BY Zenon, <2>1, <2>4
<1>12. ASSUME NEW t \in Tasks, NEW own \in BOOLEAN, task[t] # "new",
              Verdict(t, Row(Scope(t)), own), UNCHANGED <<kit, seen>>,
              gate' = gate \/ gate' = NoTask
       PROVE  TasksInvariant' /\ CreationIsGated
    <2>1. /\ BlameHasCause'
          /\ task' \in [Tasks -> {"new", "PENDING", "QUEUED", "CLAIMED", "FAILED"}]
          /\ why' \in [Tasks -> [code : Codes \cup {"no_harness"}, own : BOOLEAN]]
          /\ \A u \in Tasks : task'[u] = "new" <=> task[u] = "new"
        BY Zenon, <1>12, VerdictIsFair
    <2> QED
        BY Zenon, <1>1, <1>12, <2>1 DEF TasksInvariant, CreationIsGated
<1>13. ASSUME NEW t \in Tasks, GateDecides(t) PROVE Kept
    <2>1. ChecksInvariant' /\ ConclusionsKept /\ SupersededIsDropped
        BY Zenon, <1>1, <1>13, QuietStep DEF GateDecides
    <2>2. TRUE \in BOOLEAN
        BY Zenon 
    <2> QED
        BY Zenon, <1>12, <1>13, <2>1, <2>2 DEF GateDecides
<1>14. ASSUME NEW t \in Tasks, GateProbes(t) PROVE Kept
    <2>1. ChecksInvariant' /\ ConclusionsKept /\ SupersededIsDropped
        BY Zenon, <1>1, <1>14, QuietStep DEF GateProbes
    <2>2. BlameHasCause'
        BY Zenon, <1>1, <1>14
           DEF GateProbes, TasksInvariant, BlameHasCause, NoBlameWithoutCause, MissingKitOnlyParks
    <2> QED
        BY Zenon, <1>1, <1>14, <2>1, <2>2 DEF GateProbes, TasksInvariant, CreationIsGated
<1>15. ASSUME GateBegins PROVE Kept
    <2>1. Scope(gate) \in Scopes
        BY Zenon DEF Scope, Scopes
    <2> QED
        BY Zenon, <1>2, <1>4, <1>15, <2>1 DEF GateBegins
<1>16. ASSUME GateAnswers PROVE Kept
    <2>1. "v1" \in Scopes /\ gate \in Tasks
        BY Zenon, <1>1, <1>16 DEF Scopes, GateAnswers, TasksInvariant
    <2>2. ChecksInvariant' /\ ConclusionsKept /\ SupersededIsDropped
        BY Zenon, <1>1, <1>2, <1>16, <2>1, EndStep DEF GateAnswers
    <2>3. check[GateCheck].committed \in BOOLEAN
        BY Zenon, <1>1, <1>2 DEF ChecksInvariant, CheckType
    <2>4. TasksInvariant' /\ CreationIsGated
        <3>1. CASE UNCHANGED <<task, why>>
            BY Zenon, <1>1, <1>16, <3>1, TasksStay DEF GateAnswers, TasksInvariant
        <3>2. CASE Verdict(gate, Row(Scope(gate)), check[GateCheck].committed)
            BY Zenon, <1>1, <1>12, <1>16, <2>1, <2>3, <3>2 DEF GateAnswers, TasksInvariant
        <3> QED
            BY Zenon, <1>16, <3>1, <3>2 DEF GateAnswers
    <2> QED
        BY Zenon, <2>2, <2>4
<1> HIDE DEF Kept
<1>17. CASE \E c \in Admins, s \in Scopes : VerifyBegins(c, s)
    <2>1. PICK c \in Admins, s \in Scopes : VerifyBegins(c, s)
        BY Zenon, <1>17
    <2>2. Kept
        BY Zenon, <1>2, <1>4, <2>1 DEF VerifyBegins
    <2> QED
        BY Zenon, <2>2, InvariantSplits, PTL DEF Kept
<1>18. CASE \E c \in Checks : CheckStep(c)
    <2>1. Kept
        BY Zenon, <1>5, <1>6, <1>7, <1>8, <1>18 DEF CheckStep
    <2> QED
        BY Zenon, <2>1, InvariantSplits, PTL DEF Kept
<1>19. CASE \E c \in Admins : VerifyAnswers(c)
    <2>1. Kept
        BY Zenon, <1>2, <1>9, <1>19
    <2> QED
        BY Zenon, <2>1, InvariantSplits, PTL DEF Kept
<1>20. CASE \E t \in Tasks : CreateTask(t) \/ PromoteDueHead(t) \/ GateDecides(t) \/ GateProbes(t)
    <2>1. Kept
        BY Zenon, <1>10, <1>11, <1>13, <1>14, <1>20
    <2> QED
        BY Zenon, <2>1, InvariantSplits, PTL DEF Kept
<1>21. CASE KitChanges \/ GateBegins \/ GateAnswers
    <2>1. Kept
        BY Zenon, <1>3, <1>15, <1>16, <1>21
    <2> QED
        BY Zenon, <2>1, InvariantSplits, PTL DEF Kept
<1> QED
    BY Zenon, <1>17, <1>18, <1>19, <1>20, <1>21 DEF Next

LEMMA ReadinessStutters ==
    ASSUME ReadinessInvariant, UNCHANGED vars
    PROVE  ReadinessInvariant'
<1>1. ChecksInvariant /\ TasksInvariant
    BY Zenon, InvariantSplits
<1>2. ChecksInvariant'
    BY Zenon, <1>1, QuietStep DEF vars
<1>3. TasksInvariant'
    BY Zenon, <1>1, TasksStay DEF vars, TasksInvariant
<1> QED
    BY Zenon, <1>2, <1>3, InvariantSplits, PTL

LEMMA ReadinessInit ==
    ASSUME Init
    PROVE  ReadinessInvariant
<1>1. FALSE \in BOOLEAN
    BY Zenon 
<1>2. NoRow \in RowType /\ NoRow.status = "unknown" /\ NoRow.by = 0 /\ NoRow.gen = 0 /\ NoRow.born = 0
    BY Zenon, <1>1 DEF NoRow, RowType, Codes
<1>3. Idle \in CheckType /\ Idle.phase = "idle" /\ Idle.gen = 0 /\ Idle.start = 0
    BY Zenon, IdleType
<1>4. starts = 0 /\ starts \in 0..MaxStarts
    BY ConstantsAssumption DEF Init, ReadinessAssumption
<1>5. ChecksInvariant
    BY SMTT(30), <1>2, <1>3, <1>4 DEF Init, ChecksInvariant, LastBegunIsCurrent
<1>6. NoCause \in [code : Codes \cup {"no_harness"}, own : BOOLEAN]
    BY Zenon, <1>1 DEF NoCause, Codes
<1>7. TasksInvariant
    BY Zenon, <1>6 DEF Init, TasksInvariant, BlameHasCause, NoBlameWithoutCause, MissingKitOnlyParks
<1> QED
    BY Zenon, <1>5, <1>7, InvariantSplits

(* The inductive invariant of runtime checks: a row that carries a          *)
(* conclusion, and a check that holds one, were drawn from a state the Kit  *)
(* was really in, and the check begun last for a row carries its generation.*)
THEOREM ReadinessInvariantHolds == Spec => []ReadinessInvariant
<1>1. Init => ReadinessInvariant
    BY Zenon, ReadinessInit
<1>2. ReadinessInvariant /\ [Next]_vars => ReadinessInvariant'
    BY Zenon, ReadinessNext, ReadinessStutters
<1> QED
    BY Zenon, <1>1, <1>2, PTL DEF Spec

(* Interleaved Verify requests and gate probes keep every stored            *)
(* conclusion, drop the result of a superseded check, admit a new task only *)
(* past the readiness gate, and park or fail a task only for a state the    *)
(* Kit was in (begin_runtime_check, finish_runtime_check,                   *)
(* _discard_incomplete_runtime_check, _apply_runtime_readiness_gate).       *)
THEOREM ReadinessIsKept == Spec => ReadinessHolds
<1>1. ReadinessInvariant => BlameHasCause
    BY Zenon DEF ReadinessInvariant
<1>2. ReadinessInvariant /\ [Next]_vars
         => [ConclusionsKept /\ SupersededIsDropped /\ CreationIsGated]_vars
    BY Zenon, ReadinessNext
<1> QED
    BY Zenon, <1>1, <1>2, ReadinessInvariantHolds, PTL DEF Spec, ReadinessHolds
=============================================================================
