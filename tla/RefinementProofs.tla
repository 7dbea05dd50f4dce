--------------------------- MODULE RefinementProofs ----------------------------
(***************************************************************************)
(* Three results that rest on the ownership invariant, for any number of   *)
(* tasks, issues, restarts and requests. Every running task has a worker   *)
(* thread or a recovery coordinator, as long as the failure of a worker    *)
(* thread can always be recorded (~LosesFailures). The task-execution      *)
(* core implements TurnOrder: every step submits, begins or settles a      *)
(* turn, or occupies or vacates a workspace. And never more tasks run than *)
(* the configured limit.                                                   *)
(***************************************************************************)
EXTENDS OwnershipProofs, FiniteSetTheorems

(* What ownership says about handles, statuses and the phases of the loop. *)
LEMMA OwnedHandles ==
    ASSUME OwnershipInvariant
    PROVE  /\ TypeOK
           /\ \A v \in Tasks :
                /\ status[v] \in Waiting => worker[v] = "none"
                /\ worker[v] \in Bootstrapping \cup {"created", "owned", "starting"} => status[v] = "running"
                /\ worker[v] \in Bootstrapping \cup Launching => phase \notin {"boot", "recover"}
                /\ worker[v] \in {"cleanup", "removed"} => IsTerminal(v)
                /\ snapshot[v] \in {"running", "unwanted"} =>
                      phase = "recover" /\ worker[v] = "none" /\ status[v] = "running"
                /\ snapshot[v] = "final" => IsTerminal(v)
                /\ phase = "recover" /\ snapshot[v] = "other" => status[v] # "running"
BY ZenonT(60) DEF OwnershipInvariant, Ownership

(* API requests keep every running task owned. *)
LEMMA ApiKeeps ==
    ASSUME FreshReads, ~LosesFailures, OwnershipInvariant, HandleInvariant, ApiNext
    PROVE  \A u \in Tasks : HandleKept(u)'
<1> SUFFICES ASSUME NEW u \in Tasks PROVE HandleKept(u)'
    OBVIOUS
<1> USE OwnedHandles, NoTaskIsNone, IssueOfAssumption
    DEF HandleInvariant, HandleKept, TypeOK, Waiting, IsTerminal, rowVars, memoryVars, loopVars,
        callVars, Terminal, Bootstrapping, Launching
<1>1. CASE RescheduleRefused
    BY Zenon, <1>1 DEF RescheduleRefused, NoRequest
<1>2. ASSUME NEW t \in Tasks, CreateTask(t) PROVE HandleKept(u)'
    BY ZenonT(60), <1>2 DEF CreateTask
<1>3. ASSUME NEW t \in Tasks, ScheduleFalls(t) PROVE HandleKept(u)'
    BY Zenon, <1>3 DEF ScheduleFalls
<1>4. ASSUME NEW t \in Tasks, ExecuteNow(t) PROVE HandleKept(u)'
    BY Zenon, <1>4 DEF ExecuteNow
<1>5. ASSUME NEW t \in Tasks, OverrideStatus(t) PROVE HandleKept(u)'
    BY ZenonT(60), <1>5 DEF OverrideStatus, CountRequest
<1>6. ASSUME NEW t \in Tasks, CancelPhaseA(t) PROVE HandleKept(u)'
    BY <1>6 DEF CancelPhaseA, CountRequest, Statuses, Active
<1>7. ASSUME NEW t \in Tasks, CancelFindsNothing(t) PROVE HandleKept(u)'
    BY Zenon, <1>7 DEF CancelFindsNothing
<1>8. ASSUME NEW t \in Tasks, CancelDeferred(t) PROVE HandleKept(u)'
    BY Zenon, <1>8 DEF CancelDeferred
<1>9. ASSUME NEW t \in Tasks, CancelStops(t) PROVE HandleKept(u)'
    BY Zenon, <1>9 DEF CancelStops
<1>10. ASSUME NEW t \in Tasks, CancelPhaseB(t) PROVE HandleKept(u)'
    BY Zenon, <1>10 DEF CancelPhaseB, LockReleasedBy
<1>11. ASSUME NEW t \in Tasks, RescheduleRead(t) PROVE HandleKept(u)'
    BY Zenon, <1>11 DEF RescheduleRead, CountRequest, NoRequest
<1>12. ASSUME NEW t \in Tasks, RescheduleCommit(t) PROVE HandleKept(u)'
    BY ZenonT(60), <1>12 DEF RescheduleCommit, NoRequest
<1> HIDE DEF HandleInvariant, HandleKept
<1> QED
    BY Zenon, <1>1, <1>2, <1>3, <1>4, <1>5, <1>6, <1>7, <1>8, <1>9, <1>10, <1>11, <1>12 DEF ApiNext

(* The scheduler cycle keeps every running task owned. *)
LEMMA LoopKeeps ==
    ASSUME FreshReads, ~LosesFailures, OwnershipInvariant, HandleInvariant, LoopNext
    PROVE  \A u \in Tasks : HandleKept(u)'
<1> SUFFICES ASSUME NEW u \in Tasks PROVE HandleKept(u)'
    OBVIOUS
<1> USE OwnedHandles, NoTaskIsNone, IssueOfAssumption
    DEF HandleInvariant, HandleKept, TypeOK, Waiting, IsTerminal, rowVars, memoryVars, loopVars,
        callVars, Terminal, Bootstrapping, Launching
<1>1. CASE Reconcile
    BY Zenon, <1>1 DEF Reconcile, RetainedIssues
<1>2. ASSUME NEW kitKnown \in SUBSET Tasks, Promote(kitKnown) PROVE HandleKept(u)'
    BY Zenon, <1>2 DEF Promote, IllegalQueued, DueHeads, HasActivePredecessor, Statuses, Active
<1>3. CASE SelectNothing
    BY Zenon, <1>3 DEF SelectNothing
<1>4. CASE CycleAbandoned
    BY Zenon, <1>4 DEF CycleAbandoned, CycleEnds
<1>5. ASSUME NEW t \in Tasks, SelectNext(t) PROVE HandleKept(u)'
    BY Zenon, <1>5 DEF SelectNext, ClaimableTasks
<1>6. ASSUME NEW t \in Tasks, GateParks(t) PROVE HandleKept(u)'
    BY <1>6 DEF GateParks, CycleEnds
<1>7. ASSUME NEW t \in Tasks, GateFails(t) PROVE HandleKept(u)'
    BY ZenonT(60), <1>7 DEF GateFails, CycleEnds
<1>8. ASSUME NEW t \in Tasks, ClaimDemotes(t) PROVE HandleKept(u)'
    BY Zenon, <1>8 DEF ClaimDemotes, CycleEnds
<1>9. ASSUME NEW t \in Tasks, ClaimRefused(t) PROVE HandleKept(u)'
    BY ZenonT(60), <1>9 DEF ClaimRefused, CycleEnds, ClaimVerified, HasActivePredecessor, Statuses, Active
<1>10. ASSUME NEW t \in Tasks, Claim(t) PROVE HandleKept(u)'
    BY ZenonT(60), <1>10 DEF Claim, CycleEnds, ClaimVerified, HasActivePredecessor, Statuses, Active
<1> HIDE DEF HandleInvariant, HandleKept
<1> QED
    BY Zenon, <1>1, <1>2, <1>3, <1>4, <1>5, <1>6, <1>7, <1>8, <1>9, <1>10 DEF LoopNext

(* The reaper keeps every running task owned. *)
LEMMA ReaperKeeps ==
    ASSUME FreshReads, ~LosesFailures, OwnershipInvariant, HandleInvariant, ReaperNext
    PROVE  \A u \in Tasks : HandleKept(u)'
<1> SUFFICES ASSUME NEW u \in Tasks PROVE HandleKept(u)'
    OBVIOUS
<1> USE OwnedHandles, NoTaskIsNone, IssueOfAssumption
    DEF HandleInvariant, HandleKept, TypeOK, Waiting, IsTerminal, rowVars, memoryVars, loopVars,
        callVars, Terminal, Bootstrapping, Launching
<1>1. ASSUME NEW t \in Tasks, ReaperStops(t) PROVE HandleKept(u)'
    BY Zenon, <1>1 DEF ReaperStops, Reapable
<1>2. ASSUME NEW t \in Tasks, ReaperFinalizesLogs(t) PROVE HandleKept(u)'
    BY Zenon, <1>2 DEF ReaperFinalizesLogs, Reapable
<1>3. ASSUME NEW t \in Tasks, ReaperRemoves(t) PROVE HandleKept(u)'
    BY Zenon, <1>3 DEF ReaperRemoves, Reapable
<1>4. ASSUME NEW t \in Tasks, ReaperClears(t) PROVE HandleKept(u)'
    BY Zenon, <1>4 DEF ReaperClears, Reapable, LockReleasedBy
<1> HIDE DEF HandleInvariant, HandleKept
<1> QED
    BY Zenon, <1>1, <1>2, <1>3, <1>4 DEF ReaperNext

(* Worker threads and coordinators keep every running task owned. *)
LEMMA HandleKeeps ==
    ASSUME FreshReads, ~LosesFailures, OwnershipInvariant, HandleInvariant,
           NEW t \in Tasks, HandleStep(t) \/ HarnessExits(t)
    PROVE  \A u \in Tasks : HandleKept(u)'
<1> SUFFICES ASSUME NEW u \in Tasks PROVE HandleKept(u)'
    OBVIOUS
<1> USE OwnedHandles, NoTaskIsNone, IssueOfAssumption
    DEF HandleInvariant, HandleKept, TypeOK, Waiting, IsTerminal, rowVars, memoryVars, loopVars,
        callVars, Terminal, Bootstrapping, Launching
<1>1. CASE WorkerStarts(t)
    BY ZenonT(60), <1>1 DEF WorkerStarts, ThreadStep, MovesTo
<1>2. CASE SetupFails(t)
    BY ZenonT(60), <1>2 DEF SetupFails, ThreadStep, MovesTo
<1>3. CASE CheckBeforeCreate(t)
    BY <1>3 DEF CheckBeforeCreate, ThreadStep, MovesTo, CancelSeen
<1>4. CASE CreateContainer(t)
    BY ZenonT(60), <1>4 DEF CreateContainer, ThreadStep, MovesTo
<1>5. CASE CreateInconclusive(t)
    BY ZenonT(60), <1>5 DEF CreateInconclusive, ThreadStep, MovesTo
<1>6. CASE PersistReference(t)
    BY ZenonT(60), <1>6 DEF PersistReference, ThreadStep, MovesTo
<1>7. CASE PersistFails(t)
    BY ZenonT(60), <1>7 DEF PersistFails, ThreadStep, MovesTo
<1>8. CASE CheckBeforeStart(t)
    BY <1>8 DEF CheckBeforeStart, ThreadStep, MovesTo, CancelSeen
<1>9. CASE StartContainer(t)
    BY ZenonT(60), <1>9 DEF StartContainer, ThreadStep, MovesTo
<1>10. CASE StartFails(t)
    BY <1>10 DEF StartFails, ThreadStep, MovesTo
<1>11. CASE StartInconclusive(t)
    BY ZenonT(60), <1>11 DEF StartInconclusive, ThreadStep, MovesTo
<1>12. CASE DiscardContainer(t)
    BY Zenon, <1>12 DEF DiscardContainer, ThreadStep, MovesTo
<1>13. CASE RecordDiscard(t)
    BY Zenon, <1>13 DEF RecordDiscard, ThreadStep, MovesTo
<1>14. CASE FailExecute(t)
    BY Zenon, <1>14 DEF FailExecute, ThreadStep, MovesTo
<1>15. CASE CheckStarted(t)
    BY <1>15 DEF CheckStarted, ThreadStep, MovesTo, CancelSeen
<1>16. CASE StreamEnds(t)
    BY Zenon, <1>16 DEF StreamEnds, ThreadStep, MovesTo
<1>17. CASE StreamTimesOut(t)
    BY Zenon, <1>17 DEF StreamTimesOut, ThreadStep, MovesTo
<1>18. CASE FinalizeLogs(t)
    BY ZenonT(60), <1>18 DEF FinalizeLogs, ThreadStep, MovesTo
<1>19. CASE ParseResult(t)
    BY <1>19 DEF ParseResult, ThreadStep, MovesTo
<1>20. CASE SettleOutcome(t)
    BY ZenonT(60), <1>20 DEF SettleOutcome, ThreadStep, MovesTo
<1>21. CASE RemoveContainer(t)
    BY Zenon, <1>21 DEF RemoveContainer, ThreadStep, MovesTo
<1>22. CASE ClearReference(t)
    BY Zenon, <1>22 DEF ClearReference, ThreadStep, MovesTo
<1>23. CASE RetainContainer(t)
    BY Zenon, <1>23 DEF RetainContainer, ThreadStep, MovesTo
<1>24. CASE MonitorFails(t)
    BY <1>24 DEF MonitorFails, ThreadStep, MovesTo, Monitoring
<1>25. CASE ResumeAttaches(t)
    BY ZenonT(60), <1>25 DEF ResumeAttaches, ThreadStep, MovesTo
<1>26. CASE ResumeRefused(t)
    BY ZenonT(60), <1>26 DEF ResumeRefused, ThreadStep, MovesTo
<1>27. CASE ResumeInconclusive(t)
    BY ZenonT(60), <1>27 DEF ResumeInconclusive, ThreadStep, MovesTo
<1>28. CASE WorkerEscapes(t)
    BY SMTT(30), <1>28 DEF WorkerEscapes, Quiesced, BlockIssue, LockReleasedBy, LostOutcome, MovesTo,
       Escapable, Statuses, Active, WorkerStates, Monitoring
<1>29. CASE WorkerLost(t)
    BY Zenon, <1>29 DEF WorkerLost, Quiesced, ThreadStep, MovesTo, Escapable, LostOutcome,
       WorkerStates, Monitoring
<1>30. CASE WorkerFinally(t)
    BY ZenonT(60), <1>30 DEF WorkerFinally, BlockIssue, LockReleasedBy, MovesTo
<1>31. CASE WorkerFinallyFails(t)
    BY Zenon, <1>31 DEF WorkerFinallyFails, MovesTo
<1>32. CASE CoordStops(t)
    BY ZenonT(60), <1>32 DEF CoordStops, MovesTo
<1>33. CASE CoordResumes(t)
    BY ZenonT(60), <1>33 DEF CoordResumes, ThreadStep, MovesTo
<1>34. CASE CoordDiscards(t)
    BY ZenonT(60), <1>34 DEF CoordDiscards, ThreadStep, MovesTo
<1>35. CASE CoordRemoved(t)
    BY <1>35 DEF CoordRemoved, CoordSettles, LockReleasedBy, MovesTo
<1>36. CASE CoordAbsent(t)
    BY <1>36 DEF CoordAbsent, CoordSettles, LockReleasedBy, LostOutcome, MovesTo
<1>37. CASE HarnessExits(t)
    BY Zenon, <1>37 DEF HarnessExits, ThreadStep
<1> HIDE DEF HandleInvariant, HandleKept
<1> QED
    BY ZenonT(60), <1>1, <1>2, <1>3, <1>4, <1>5, <1>6, <1>7, <1>8, <1>9, <1>10, <1>11, <1>12, <1>13, <1>14,
       <1>15, <1>16, <1>17, <1>18, <1>19, <1>20, <1>21, <1>22, <1>23, <1>24, <1>25, <1>26,
       <1>27, <1>28, <1>29, <1>30, <1>31, <1>32, <1>33, <1>34, <1>35, <1>36, <1>37 DEF HandleStep

(* Crashes and recovery keep every running task owned. *)
LEMMA RecoveryKeeps ==
    ASSUME FreshReads, ~LosesFailures, OwnershipInvariant, HandleInvariant, RecoveryNext
    PROVE  \A u \in Tasks : HandleKept(u)'
<1> SUFFICES ASSUME NEW u \in Tasks PROVE HandleKept(u)'
    OBVIOUS
<1> USE OwnedHandles, NoTaskIsNone, IssueOfAssumption
    DEF HandleInvariant, HandleKept, TypeOK, Waiting, IsTerminal, rowVars, memoryVars, loopVars,
        callVars, Terminal, Bootstrapping, Launching
<1>1. CASE Crash
    BY Zenon, <1>1 DEF Crash
<1>2. CASE BeginRecovery
    BY Zenon, <1>2 DEF BeginRecovery, LocksWithoutInactive, AlreadyOwned, Statuses, Active
<1>3. CASE RecoveryFails
    BY Zenon, <1>3 DEF RecoveryFails
<1>4. CASE EndRecovery
    BY Zenon, <1>4 DEF EndRecovery, RetainedIssues, Unowned
<1>5. ASSUME NEW t \in Tasks, RecoverResume(t) PROVE HandleKept(u)'
    BY <1>5 DEF RecoverResume, TakesOver, Unowned
<1>6. ASSUME NEW t \in Tasks, RecoverDefer(t) PROVE HandleKept(u)'
    BY ZenonT(60), <1>6 DEF RecoverDefer, TakesOver, Unowned
<1>7. ASSUME NEW t \in Tasks, RecoverOrphan(t) PROVE HandleKept(u)'
    BY Zenon, <1>7 DEF RecoverOrphan
<1>8. ASSUME NEW t \in Tasks, RecoverReference(t) PROVE HandleKept(u)'
    BY ZenonT(60), <1>8 DEF RecoverReference
<1> HIDE DEF HandleInvariant, HandleKept
<1> QED
    BY Zenon, <1>1, <1>2, <1>3, <1>4, <1>5, <1>6, <1>7, <1>8 DEF RecoveryNext

(* Every step of the system keeps every running task owned. *)
LEMMA StepKeeps ==
    ASSUME FreshReads, ~LosesFailures, OwnershipInvariant, HandleInvariant, [Next]_vars
    PROVE  \A u \in Tasks : HandleKept(u)'
<1>1. CASE CleanupIssueLocks
    BY Zenon, <1>1, OwnedHandles, NoTaskIsNone, IssueOfAssumption
       DEF CleanupIssueLocks, LocksWithoutInactive, vars, HandleInvariant, HandleKept, TypeOK,
           Waiting, IsTerminal, rowVars, memoryVars, loopVars, callVars, Terminal,
           Bootstrapping, Launching
<1>2. CASE UNCHANGED vars
    BY Zenon, <1>2, OwnedHandles, NoTaskIsNone, IssueOfAssumption
       DEF vars, HandleInvariant, HandleKept, TypeOK, Waiting, IsTerminal, rowVars, memoryVars,
           loopVars, callVars, Terminal, Bootstrapping, Launching
<1> QED
    BY Zenon, <1>1, <1>2, ApiKeeps, LoopKeeps, ReaperKeeps, HandleKeeps, RecoveryKeeps
       DEF Next, CycleNext, WorkerNext

(* A worker thread returns only once its task has ended, and recovery misses *)
(* no running task.                                                          *)
THEOREM HandlesKept ==
    ASSUME FreshReads, ~LosesFailures
    PROVE  Spec => []HandleInvariant
<1>1. OwnershipInvariant /\ HandleInvariant /\ [Next]_vars => HandleInvariant'
    BY Zenon, StepKeeps DEF HandleInvariant
<1> QED
    BY Zenon, <1>1, InitOwned, OwnershipHolds, PTL DEF Spec

(* Outside recovery, every running task has a worker or a coordinator. *)
THEOREM RunningTasksOwned ==
    ASSUME FreshReads, ~LosesFailures
    PROVE  Spec => []NoOrphanRunning
<1>1. HandleInvariant => NoOrphanRunning
    BY Zenon DEF HandleInvariant, HandleKept, NoOrphanRunning
<1> QED
    BY Zenon, <1>1, HandlesKept, PTL

(* A step that changes no workspace, ends turns and frees issues rightly. *)
Settles ==
    /\ \A t \in Tasks : container[t] # "none" <=> container'[t] # "none"
    /\ \A t \in Tasks :
          \/ TurnOf(t)' = TurnOf(t)
          \/ TurnOf(t) \in {"waiting", "working"} /\ TurnOf(t)' = "over"
    /\ \A i \in Issues :
          \/ lock'[i] = lock[i]
          \/ \E t \in Tasks : /\ lock[i] = t /\ lock'[i] = NoTask
                            /\ TurnOf(t)' = "over" /\ container[t] = "none"

(* Such a step is a Settle step of TurnOrder. *)
LEMMA SettlesRefines ==
    ASSUME TypeOK, TypeOK', Settles
    PROVE  Turns!Settle
<1> DEFINE ended == {t \in Tasks : TurnOf(t) # TurnOf(t)'}
           freed == {i \in Issues : lock[i] # lock'[i]}
<1>1. ended \in SUBSET {t \in Tasks : [u \in Tasks |-> TurnOf(u)][t] \in {"waiting", "working"}}
    BY Zenon DEF Settles
<1>2. [t \in Tasks |-> TurnOf(t)'] =
          [t \in Tasks |-> IF t \in ended THEN "over" ELSE [u \in Tasks |-> TurnOf(u)][t]]
    BY Zenon DEF Settles
<1>3. freed \in SUBSET {i \in Issues : lock[i] # Turns!Nobody}
    BY Zenon, TasksAssumption DEF Settles, Turns!Nobody, NoTask
<1>4. ASSUME NEW i \in freed
      PROVE  /\ [t \in Tasks |-> TurnOf(t)'][lock[i]] = "over"
             /\ lock[i] \notin {t \in Tasks : container[t] # "none"}
    BY DEF Settles, TypeOK
<1>5. lock' = [i \in Issues |-> IF i \in freed THEN Turns!Nobody ELSE lock[i]]
    BY Zenon DEF Settles, Turns!Nobody, NoTask, TypeOK
<1>6. {t \in Tasks : container'[t] # "none"} = {t \in Tasks : container[t] # "none"}
    BY Zenon DEF Settles
<1> HIDE DEF ended, freed
<1> QED
    BY Zenon, <1>1, <1>2, <1>3, <1>4, <1>5, <1>6 DEF Turns!Settle

(* API requests settle, except by the steps named here. *)
LEMMA ApiSettles ==
    ASSUME FreshReads, ~LosesFailures, OwnershipInvariant, HandleInvariant, ApiNext,
           \A t \in Tasks : ~CreateTask(t)
    PROVE  Settles
<1> USE NoTaskIsNone, IssueOfAssumption
    DEF Settles, TurnOf, HandleInvariant, HandleKept, OwnershipInvariant, TypeOK, Ownership,
        Waiting, Earlier, IsTerminal, rowVars, memoryVars, loopVars, callVars, NoRequest,
        Statuses, Active, Terminal, ContainerStates, WorkerStates, Bootstrapping, Launching,
        Monitoring, CancelStates, Phases, RowClasses
<1>1. CASE RescheduleRefused
    BY Zenon, <1>1 DEF RescheduleRefused
<1>2. ASSUME NEW t \in Tasks, ScheduleFalls(t) PROVE Settles
    BY Zenon, <1>2 DEF ScheduleFalls
<1>3. ASSUME NEW t \in Tasks, ExecuteNow(t) PROVE Settles
    BY Zenon, <1>3 DEF ExecuteNow
<1>4. ASSUME NEW t \in Tasks, OverrideStatus(t) PROVE Settles
    BY SMTT(30), <1>4 DEF OverrideStatus, CountRequest
<1>5. ASSUME NEW t \in Tasks, CancelPhaseA(t) PROVE Settles
    BY <1>5 DEF CancelPhaseA, CountRequest
<1>6. ASSUME NEW t \in Tasks, CancelFindsNothing(t) PROVE Settles
    BY ZenonT(60), <1>6 DEF CancelFindsNothing
<1>7. ASSUME NEW t \in Tasks, CancelDeferred(t) PROVE Settles
    BY ZenonT(60), <1>7 DEF CancelDeferred
<1>8. ASSUME NEW t \in Tasks, CancelStops(t) PROVE Settles
    BY SMTT(30), <1>8 DEF CancelStops
<1>9. ASSUME NEW t \in Tasks, CancelPhaseB(t) PROVE Settles
    BY SMTT(30), <1>9 DEF CancelPhaseB, LockReleasedBy
<1>10. ASSUME NEW t \in Tasks, RescheduleRead(t) PROVE Settles
    BY Zenon, <1>10 DEF RescheduleRead, CountRequest
<1>11. ASSUME NEW t \in Tasks, RescheduleCommit(t) PROVE Settles
    BY <1>11 DEF RescheduleCommit
<1> HIDE DEF OwnershipInvariant, Ownership, HandleInvariant, Settles
<1> QED
    BY Zenon, <1>1, <1>2, <1>3, <1>4, <1>5, <1>6, <1>7, <1>8, <1>9, <1>10, <1>11 DEF ApiNext

(* The scheduler cycle settles, except by the steps named here. *)
LEMMA LoopSettles ==
    ASSUME FreshReads, ~LosesFailures, OwnershipInvariant, HandleInvariant, LoopNext,
           \A t \in Tasks : ~Claim(t)
    PROVE  Settles
<1> USE NoTaskIsNone, IssueOfAssumption
    DEF Settles, TurnOf, HandleInvariant, HandleKept, OwnershipInvariant, TypeOK, Ownership,
        Waiting, Earlier, IsTerminal, rowVars, memoryVars, loopVars, callVars, NoRequest,
        Statuses, Active, Terminal, ContainerStates, WorkerStates, Bootstrapping, Launching,
        Monitoring, CancelStates, Phases, RowClasses
<1>1. CASE Reconcile
    BY Zenon, <1>1 DEF Reconcile, RetainedIssues
<1>2. ASSUME NEW kitKnown \in SUBSET Tasks, Promote(kitKnown) PROVE Settles
    BY SMTT(30), <1>2 DEF Promote, IllegalQueued, DueHeads, HasActivePredecessor
<1>3. CASE SelectNothing
    BY Zenon, <1>3 DEF SelectNothing
<1>4. CASE CycleAbandoned
    BY Zenon, <1>4 DEF CycleAbandoned, CycleEnds
<1>5. ASSUME NEW t \in Tasks, SelectNext(t) PROVE Settles
    BY Zenon, <1>5 DEF SelectNext, ClaimableTasks
<1>6. ASSUME NEW t \in Tasks, GateParks(t) PROVE Settles
    BY SMTT(30), <1>6 DEF GateParks, CycleEnds
<1>7. ASSUME NEW t \in Tasks, GateFails(t) PROVE Settles
    BY SMTT(30), <1>7 DEF GateFails, CycleEnds
<1>8. ASSUME NEW t \in Tasks, ClaimDemotes(t) PROVE Settles
    BY SMTT(30), <1>8 DEF ClaimDemotes, CycleEnds
<1>9. ASSUME NEW t \in Tasks, ClaimRefused(t) PROVE Settles
    BY <1>9 DEF ClaimRefused, CycleEnds, ClaimVerified, HasActivePredecessor
<1> HIDE DEF OwnershipInvariant, Ownership, HandleInvariant, Settles
<1> QED
    BY Zenon, <1>1, <1>2, <1>3, <1>4, <1>5, <1>6, <1>7, <1>8, <1>9 DEF LoopNext

(* The reaper settles, except by the steps named here. *)
LEMMA ReaperSettles ==
    ASSUME FreshReads, ~LosesFailures, OwnershipInvariant, HandleInvariant, ReaperNext,
           \A t \in Tasks : ~ReaperRemoves(t)
    PROVE  Settles
<1> USE NoTaskIsNone, IssueOfAssumption
    DEF Settles, TurnOf, HandleInvariant, HandleKept, OwnershipInvariant, TypeOK, Ownership,
        Waiting, Earlier, IsTerminal, rowVars, memoryVars, loopVars, callVars, NoRequest,
        Statuses, Active, Terminal, ContainerStates, WorkerStates, Bootstrapping, Launching,
        Monitoring, CancelStates, Phases, RowClasses
<1>1. ASSUME NEW t \in Tasks, ReaperStops(t) PROVE Settles
    BY SMTT(30), <1>1 DEF ReaperStops, Reapable
<1>2. ASSUME NEW t \in Tasks, ReaperFinalizesLogs(t) PROVE Settles
    BY Zenon, <1>2 DEF ReaperFinalizesLogs, Reapable
<1>3. ASSUME NEW t \in Tasks, ReaperClears(t) PROVE Settles
    BY <1>3 DEF ReaperClears, Reapable, LockReleasedBy
<1> HIDE DEF OwnershipInvariant, Ownership, HandleInvariant, Settles
<1> QED
    BY Zenon, <1>1, <1>2, <1>3 DEF ReaperNext

(* Worker threads and coordinators settle, except where a container appears  *)
(* or disappears.                                                            *)
LEMMA HandleSettles ==
    ASSUME FreshReads, ~LosesFailures, OwnershipInvariant, HandleInvariant,
           NEW t \in Tasks, HandleStep(t) \/ HarnessExits(t),
           ~CreateContainer(t),
           ~CreateInconclusive(t),
           ~PersistFails(t),
           ~DiscardContainer(t),
           ~RemoveContainer(t),
           ~CoordDiscards(t)
    PROVE  Settles
<1> USE NoTaskIsNone, IssueOfAssumption
    DEF Settles, TurnOf, HandleInvariant, HandleKept, OwnershipInvariant, TypeOK, Ownership,
        Waiting, Earlier, IsTerminal, rowVars, memoryVars, loopVars, callVars, NoRequest,
        Statuses, Active, Terminal, ContainerStates, WorkerStates, Bootstrapping, Launching,
        Monitoring, CancelStates, Phases, RowClasses
<1>1. CASE WorkerStarts(t)
    BY SMTT(30), <1>1 DEF WorkerStarts, ThreadStep, MovesTo
<1>2. CASE SetupFails(t)
    BY SMTT(30), <1>2 DEF SetupFails, ThreadStep, MovesTo
<1>3. CASE CheckBeforeCreate(t)
    BY SMTT(30), <1>3 DEF CheckBeforeCreate, ThreadStep, MovesTo, CancelSeen
<1>4. CASE PersistReference(t)
    BY Zenon, <1>4 DEF PersistReference, ThreadStep, MovesTo
<1>5. CASE CheckBeforeStart(t)
    BY SMTT(30), <1>5 DEF CheckBeforeStart, ThreadStep, MovesTo, CancelSeen
<1>6. CASE StartContainer(t)
    BY SMTT(30), <1>6 DEF StartContainer, ThreadStep, MovesTo
<1>7. CASE StartFails(t)
    BY SMTT(30), <1>7 DEF StartFails, ThreadStep, MovesTo
<1>8. CASE StartInconclusive(t)
    BY SMTT(30), <1>8 DEF StartInconclusive, ThreadStep, MovesTo
<1>9. CASE RecordDiscard(t)
    BY Zenon, <1>9 DEF RecordDiscard, ThreadStep, MovesTo
<1>10. CASE FailExecute(t)
    BY SMTT(30), <1>10 DEF FailExecute, ThreadStep, MovesTo
<1>11. CASE CheckStarted(t)
    BY SMTT(30), <1>11 DEF CheckStarted, ThreadStep, MovesTo, CancelSeen
<1>12. CASE StreamEnds(t)
    BY Zenon, <1>12 DEF StreamEnds, ThreadStep, MovesTo
<1>13. CASE StreamTimesOut(t)
    BY SMTT(30), <1>13 DEF StreamTimesOut, ThreadStep, MovesTo
<1>14. CASE FinalizeLogs(t)
    BY Zenon, <1>14 DEF FinalizeLogs, ThreadStep, MovesTo
<1>15. CASE ParseResult(t)
    BY SMTT(30), <1>15 DEF ParseResult, ThreadStep, MovesTo
<1>16. CASE SettleOutcome(t)
    BY SMTT(30), <1>16 DEF SettleOutcome, ThreadStep, MovesTo
<1>17. CASE ClearReference(t)
    BY Zenon, <1>17 DEF ClearReference, ThreadStep, MovesTo
<1>18. CASE RetainContainer(t)
    BY Zenon, <1>18 DEF RetainContainer, ThreadStep, MovesTo
<1>19. CASE MonitorFails(t)
    BY SMTT(30), <1>19 DEF MonitorFails, ThreadStep, MovesTo
<1>20. CASE ResumeAttaches(t)
    BY Zenon, <1>20 DEF ResumeAttaches, ThreadStep, MovesTo
<1>21. CASE ResumeRefused(t)
    BY SMTT(30), <1>21 DEF ResumeRefused, ThreadStep, MovesTo
<1>22. CASE ResumeInconclusive(t)
    BY Zenon, <1>22 DEF ResumeInconclusive, ThreadStep, MovesTo
<1>23. CASE WorkerEscapes(t)
    BY SMTT(30), <1>23 DEF WorkerEscapes, Quiesced, BlockIssue, LockReleasedBy, LostOutcome, MovesTo,
       Escapable, Statuses, Active
<1>24. CASE WorkerLost(t)
    BY Zenon, <1>24 DEF WorkerLost, Quiesced, ThreadStep, MovesTo, Escapable, LostOutcome
<1>25. CASE WorkerFinally(t)
    BY SMTT(30), <1>25 DEF WorkerFinally, BlockIssue, LockReleasedBy, MovesTo
<1>26. CASE WorkerFinallyFails(t)
    BY Zenon, <1>26 DEF WorkerFinallyFails, MovesTo
<1>27. CASE CoordStops(t)
    BY Zenon, <1>27 DEF CoordStops, MovesTo
<1>28. CASE CoordResumes(t)
    BY SMTT(30), <1>28 DEF CoordResumes, ThreadStep, MovesTo
<1>29. CASE CoordRemoved(t)
    BY SMTT(30), <1>29 DEF CoordRemoved, CoordSettles, LockReleasedBy, MovesTo
<1>30. CASE CoordAbsent(t)
    BY SMTT(30), <1>30 DEF CoordAbsent, CoordSettles, LockReleasedBy, LostOutcome, MovesTo
<1>31. CASE HarnessExits(t)
    BY <1>31 DEF HarnessExits, ThreadStep
<1> HIDE DEF OwnershipInvariant, Ownership, HandleInvariant, Settles
<1> QED
    BY Zenon, <1>1, <1>2, <1>3, <1>4, <1>5, <1>6, <1>7, <1>8, <1>9, <1>10, <1>11, <1>12, <1>13, <1>14,
       <1>15, <1>16, <1>17, <1>18, <1>19, <1>20, <1>21, <1>22, <1>23, <1>24, <1>25, <1>26,
       <1>27, <1>28, <1>29, <1>30, <1>31 DEF HandleStep

(* Crashes and recovery settle, except by the steps named here. *)
LEMMA RecoverySettles ==
    ASSUME FreshReads, ~LosesFailures, OwnershipInvariant, HandleInvariant, RecoveryNext,
           \A t \in Tasks : ~RecoverOrphan(t)
    PROVE  Settles
<1> USE NoTaskIsNone, IssueOfAssumption
    DEF Settles, TurnOf, HandleInvariant, HandleKept, OwnershipInvariant, TypeOK, Ownership,
        Waiting, Earlier, IsTerminal, rowVars, memoryVars, loopVars, callVars, NoRequest,
        Statuses, Active, Terminal, ContainerStates, WorkerStates, Bootstrapping, Launching,
        Monitoring, CancelStates, Phases, RowClasses
<1>1. CASE Crash
    BY ZenonT(60), <1>1 DEF Crash
<1>2. CASE BeginRecovery
    BY SMTT(30), <1>2 DEF BeginRecovery, LocksWithoutInactive, AlreadyOwned, Statuses, Active
<1>3. CASE RecoveryFails
    BY Zenon, <1>3 DEF RecoveryFails
<1>4. CASE EndRecovery
    BY SMTT(30), <1>4 DEF EndRecovery, RetainedIssues, Unowned
<1>5. ASSUME NEW t \in Tasks, RecoverResume(t) PROVE Settles
    BY SMTT(30), <1>5 DEF RecoverResume, TakesOver, Unowned
<1>6. ASSUME NEW t \in Tasks, RecoverDefer(t) PROVE Settles
    BY Zenon, <1>6 DEF RecoverDefer, TakesOver, Unowned
<1>7. ASSUME NEW t \in Tasks, RecoverReference(t) PROVE Settles
    BY Zenon, <1>7 DEF RecoverReference
<1> HIDE DEF OwnershipInvariant, Ownership, HandleInvariant, Settles
<1> QED
    BY Zenon, <1>1, <1>2, <1>3, <1>4, <1>5, <1>6, <1>7 DEF RecoveryNext

(* The turn abstraction of a step that leaves the statuses alone. *)
LEMMA SameTurns == status' = status => \A t \in Tasks : TurnOf(t)' = TurnOf(t)
BY Zenon DEF TurnOf

(* Creating a task submits its turn. *)
LEMMA CreateRefines ==
    ASSUME OwnershipInvariant, NEW t \in Tasks, CreateTask(t)
    PROVE  Turns!Submit(t)
BY Zenon DEF CreateTask, Turns!Submit, TurnOf, OwnershipInvariant, TypeOK

(* The atomic claim begins a turn. *)
LEMMA ClaimRefines ==
    ASSUME OwnershipInvariant, NEW t \in Tasks, Claim(t)
    PROVE  Turns!Begin(t)
<1>1. \A u \in Earlier(t) : TurnOf(u) = "over"
    BY DEF Claim, ClaimVerified, HasActivePredecessor, OwnershipInvariant, Ownership, TypeOK, TurnOf,
           Earlier, Statuses, Active, Terminal
<1> QED
    BY ZenonT(60), <1>1, IssueOfAssumption
       DEF Claim, ClaimVerified, Turns!Begin, Turns!Before, Turns!Nobody, Earlier, NoTask, TurnOf,
           OwnershipInvariant, TypeOK

(* Creating the container occupies the workspace. *)
LEMMA OccupyRefines ==
    ASSUME OwnershipInvariant, NEW t \in Tasks,
           CreateContainer(t) \/ CreateInconclusive(t), container' # container
    PROVE  Turns!Occupy(t)
<1>1. /\ status' = status /\ lock' = lock
      /\ container' = [container EXCEPT ![t] = "created"]
      /\ status[t] = "running" /\ lock[IssueOf[t]] = t
    BY Zenon DEF CreateContainer, CreateInconclusive, OwnershipInvariant, Ownership, Bootstrapping, rowVars
<1> QED
    BY SMTT(30), <1>1, SameTurns DEF Turns!Occupy, TurnOf, OwnershipInvariant, TypeOK

(* Removing the container leaves the workspace. *)
LEMMA VacateRefines ==
    ASSUME TypeOK, NEW t \in Tasks, status' = status, lock' = lock, container[t] # "none",
           container' = [container EXCEPT ![t] = "none"]
    PROVE  Turns!Vacate(t)
BY Zenon, SameTurns DEF Turns!Vacate, TypeOK

(* Every step of the core is a step of TurnOrder or changes nothing of it. *)
LEMMA StepRefines ==
    ASSUME FreshReads, ~LosesFailures, OwnershipInvariant, HandleInvariant, TypeOK', [Next]_vars
    PROVE  Turns!TurnNext \/ UNCHANGED Turns!turnVars
<1>1. CASE UNCHANGED vars
    BY Zenon, <1>1, SameTurns DEF vars, rowVars, Turns!turnVars
<1>2. CASE CleanupIssueLocks
  <2>1. Settles
    BY SMTT(30), <1>2, NoTaskIsNone
       DEF CleanupIssueLocks, LocksWithoutInactive, Settles, TurnOf, OwnershipInvariant, TypeOK,
           Ownership, IsTerminal, Terminal, rowVars
  <2> QED
    BY Zenon, <2>1, SettlesRefines DEF OwnershipInvariant, Turns!TurnNext
<1>3. ASSUME NEW t \in Tasks, CreateTask(t) \/ Claim(t) PROVE Turns!TurnNext
    BY Zenon, <1>3, CreateRefines, ClaimRefines DEF Turns!TurnNext
<1>4. ASSUME NEW t \in Tasks, CreateContainer(t) \/ CreateInconclusive(t)
      PROVE  Turns!TurnNext \/ UNCHANGED Turns!turnVars
  <2>1. CASE container' # container
    BY Zenon, <1>4, <2>1, OccupyRefines DEF Turns!TurnNext
  <2>2. CASE container' = container
    BY Zenon, <1>4, <2>2, SameTurns DEF CreateContainer, CreateInconclusive, rowVars, Turns!turnVars
  <2> QED
    BY Zenon, <2>1, <2>2
<1>5. ASSUME NEW t \in Tasks,
             \/ PersistFails(t) \/ DiscardContainer(t) \/ RemoveContainer(t)
             \/ CoordDiscards(t) \/ ReaperRemoves(t) \/ RecoverOrphan(t)
      PROVE  Turns!TurnNext \/ UNCHANGED Turns!turnVars
  <2>1. status' = status /\ lock' = lock
    BY Zenon, <1>5 DEF PersistFails, DiscardContainer, RemoveContainer, CoordDiscards, ReaperRemoves,
                RecoverOrphan, rowVars
  <2>2. container' = container \/ container' = [container EXCEPT ![t] = "none"]
    BY Zenon, <1>5 DEF PersistFails, DiscardContainer, RemoveContainer, CoordDiscards, ReaperRemoves,
                RecoverOrphan
  <2>3. CASE container' = container \/ container[t] = "none"
    <3>1. container' = container
      BY SMTT(30), <2>2, <2>3 DEF OwnershipInvariant, TypeOK
    <3> QED
      BY Zenon, <2>1, <3>1, SameTurns DEF Turns!turnVars
  <2>4. CASE container' # container /\ container[t] # "none"
    BY Zenon, <2>1, <2>2, <2>4, VacateRefines DEF OwnershipInvariant, Turns!TurnNext
  <2> QED
    BY Zenon, <2>3, <2>4
<1>6. CASE Settles
    BY Zenon, <1>6, SettlesRefines DEF OwnershipInvariant, Turns!TurnNext
<1>7. ASSUME ~UNCHANGED vars, ~CleanupIssueLocks, ~Settles
      PROVE  \E t \in Tasks :
                \/ CreateTask(t) \/ Claim(t) \/ CreateContainer(t) \/ CreateInconclusive(t)
                \/ PersistFails(t) \/ DiscardContainer(t) \/ RemoveContainer(t)
                \/ CoordDiscards(t) \/ ReaperRemoves(t) \/ RecoverOrphan(t)
    BY Zenon, <1>7, ApiSettles, LoopSettles, ReaperSettles, HandleSettles, RecoverySettles
       DEF Next, CycleNext, WorkerNext
<1> QED
    BY Zenon, <1>1, <1>2, <1>3, <1>4, <1>5, <1>6, <1>7

(* The task-execution core implements TurnOrder: through status, lock table  *)
(* and containers its users see turns that run one at a time, in order, and  *)
(* that leave the workspace before the issue is given back.                  *)
THEOREM CoreImplementsTurnOrder ==
    ASSUME FreshReads, ~LosesFailures
    PROVE  Spec => ImplementsTurnOrder
<1>1. Init => Turns!TurnInit
    BY DEF Init, Turns!TurnInit, Turns!Nobody, NoTask, TurnOf
<1>2. OwnershipInvariant /\ HandleInvariant /\ TypeOK' /\ [Next]_vars
          => [Turns!TurnNext]_(Turns!turnVars)
    BY Zenon, StepRefines
<1> QED
    BY Zenon, <1>1, <1>2, OwnershipHolds, HandlesKept, TypeCorrect, PTL
       DEF Spec, ImplementsTurnOrder, Turns!TurnSpec

-----------------------------------------------------------------------------
(***************************************************************************)
(* The concurrency limit.  A claim is the only step that makes a task run, *)
(* and between the count of the running tasks and the claim nothing adds   *)
(* to them.                                                                *)
(***************************************************************************)
Running == {t \in Tasks : status[t] = "running"}

(* A loop that holds a candidate still has room for it: nothing adds to the  *)
(* count of _get_running_count before the claim.                             *)
SlotsInvariant ==
    /\ IsFiniteSet(Running)
    /\ RunningCount <= MaxConcurrency
    /\ phase = "claim" => RunningCount < MaxConcurrency

(* No task begins to run, and the loop selects none. *)
NoneBegins == Running' \subseteq Running /\ (phase' = "claim" => phase = "claim")

(* A row that is written makes no task run. *)
LEMMA RowWritten ==
    ASSUME TypeOK, NEW t \in Tasks, NEW outcome, outcome # "running" \/ status[t] = "running",
           status' = status \/ status' = [status EXCEPT ![t] = outcome]
    PROVE  Running' \subseteq Running
BY Zenon DEF TypeOK, Running

(* No request makes a task run: the API only queues, cancels and finishes. *)
LEMMA ApiBegins ==
    ASSUME TypeOK, ApiNext
    PROVE  NoneBegins
<1>1. UNCHANGED phase
    BY Zenon DEF ApiNext, RescheduleRefused, CreateTask, ScheduleFalls, ExecuteNow, OverrideStatus,
       CancelPhaseA, CancelFindsNothing, CancelDeferred, CancelStops, CancelPhaseB, RescheduleRead,
       RescheduleCommit, loopVars
<1>2. \/ status' = status
      \/ \E t \in Tasks, outcome \in Statuses \ {"running"} : status' = [status EXCEPT ![t] = outcome]
    BY Zenon DEF ApiNext, RescheduleRefused, CreateTask, ScheduleFalls, ExecuteNow, OverrideStatus,
       CancelPhaseA, CancelFindsNothing, CancelDeferred, CancelStops, CancelPhaseB, RescheduleRead,
       RescheduleCommit, rowVars, Statuses, Active, Terminal
<1> QED
    BY Zenon, <1>1, <1>2, RowWritten DEF NoneBegins, Running

(* Nor does a step of the cycle and of the reaper besides selection and claim. *)
LEMMA CycleBegins ==
    ASSUME TypeOK, CycleNext, \A t \in Tasks : ~SelectNext(t) /\ ~Claim(t)
    PROVE  NoneBegins
<1>1. phase' = "claim" => phase = "claim"
    BY Zenon DEF CycleNext, LoopNext, ReaperNext, CleanupIssueLocks, Reconcile, Promote, SelectNothing,
       CycleAbandoned, GateParks, GateFails, ClaimDemotes, ClaimRefused, CycleEnds, ReaperStops,
       ReaperFinalizesLogs, ReaperRemoves, ReaperClears, loopVars
<1>2. CASE \E kitKnown \in SUBSET Tasks : Promote(kitKnown)
    BY Zenon, <1>1, <1>2 DEF Promote, Running, NoneBegins
<1>3. CASE \E t \in Tasks : GateParks(t)
    BY Zenon, <1>1, <1>3 DEF GateParks, Running, NoneBegins
<1>4. ASSUME NEW t \in Tasks, GateFails(t) \/ ClaimDemotes(t) \/ ClaimRefused(t)
      PROVE  Running' \subseteq Running
    BY Zenon, <1>4, RowWritten DEF GateFails, ClaimDemotes, ClaimRefused
<1>5. CASE \/ CleanupIssueLocks \/ Reconcile \/ SelectNothing \/ CycleAbandoned \/ ReaperNext
    BY Zenon, <1>1, <1>5 DEF NoneBegins, CleanupIssueLocks, Reconcile, SelectNothing, CycleAbandoned, ReaperNext,
       ReaperStops, ReaperFinalizesLogs, ReaperRemoves, ReaperClears, rowVars, Running
<1> QED
    BY Zenon, <1>1, <1>2, <1>3, <1>4, <1>5 DEF CycleNext, LoopNext, NoneBegins

(* A worker thread commits RUNNING once more, for a task that is running. *)
LEMMA WorkerBegins ==
    ASSUME OwnershipInvariant, WorkerNext
    PROVE  NoneBegins
<1>1. PICK t \in Tasks : HandleStep(t) \/ HarnessExits(t)
    BY Zenon DEF WorkerNext
<1>2. UNCHANGED phase
    BY ZenonT(60), <1>1 DEF HandleStep, HarnessExits, WorkerStarts, SetupFails, CheckBeforeCreate,
       CreateContainer, CreateInconclusive, PersistReference, PersistFails, CheckBeforeStart,
       StartContainer, StartFails, StartInconclusive, DiscardContainer, RecordDiscard, FailExecute,
       CheckStarted, StreamEnds, StreamTimesOut, FinalizeLogs, ParseResult, SettleOutcome,
       RemoveContainer, ClearReference, RetainContainer, MonitorFails, ResumeAttaches, ResumeRefused,
       ResumeInconclusive, WorkerEscapes, WorkerLost, WorkerFinally, WorkerFinallyFails, CoordStops,
       CoordResumes, CoordDiscards, CoordRemoved, CoordAbsent, CoordSettles, ThreadStep, loopVars
<1>3. WorkerStarts(t) => status[t] = "running"
    BY Zenon DEF WorkerStarts, OwnershipInvariant, Ownership, Bootstrapping
<1>4. LostOutcome(t) # "running"
    BY Zenon DEF LostOutcome
<1>5. \E outcome : /\ outcome # "running" \/ status[t] = "running"
                   /\ status' = status \/ status' = [status EXCEPT ![t] = outcome]
    BY ZenonT(60), <1>1, <1>3, <1>4 DEF HandleStep, HarnessExits, WorkerStarts, SetupFails, CheckBeforeCreate,
       CreateContainer, CreateInconclusive, PersistReference, PersistFails, CheckBeforeStart,
       StartContainer, StartFails, StartInconclusive, DiscardContainer, RecordDiscard, FailExecute,
       CheckStarted, StreamEnds, StreamTimesOut, FinalizeLogs, ParseResult, SettleOutcome,
       RemoveContainer, ClearReference, RetainContainer, MonitorFails, ResumeAttaches, ResumeRefused,
       ResumeInconclusive, WorkerEscapes, WorkerLost, WorkerFinally, WorkerFinallyFails, CoordStops,
       CoordResumes, CoordDiscards, CoordRemoved, CoordAbsent, CoordSettles, rowVars, Terminal
<1> QED
    BY Zenon, <1>2, <1>5, RowWritten DEF NoneBegins, OwnershipInvariant

(* A restart resumes running tasks and starts none. *)
LEMMA RecoveryBegins ==
    ASSUME RecoveryNext
    PROVE  NoneBegins
<1>1. phase' # "claim" \/ UNCHANGED phase
    BY Zenon DEF RecoveryNext, Crash, BeginRecovery, RecoveryFails, EndRecovery, RecoverResume, RecoverDefer,
       RecoverOrphan, RecoverReference, TakesOver, loopVars
<1>2. CASE EndRecovery
    BY Zenon, <1>1, <1>2 DEF EndRecovery, NoneBegins, Running
<1>3. CASE ~EndRecovery
    BY Zenon, <1>1, <1>3 DEF RecoveryNext, Crash, BeginRecovery, RecoveryFails, RecoverResume, RecoverDefer,
       RecoverOrphan, RecoverReference, TakesOver, rowVars, NoneBegins, Running
<1> QED
    BY Zenon, <1>2, <1>3

(* Every step of the core keeps the count within the limit: selection checks *)
(* it and the claim that follows adds one task. *)
LEMMA SlotsKept ==
    ASSUME OwnershipInvariant, SlotsInvariant, [Next]_vars
    PROVE  SlotsInvariant'
<1>0. RunningCount = Cardinality(Running) /\ RunningCount' = Cardinality(Running')
    BY Zenon DEF RunningCount, Running
<1>1. RunningCount \in Nat /\ MaxConcurrency \in Nat
    BY <1>0, FS_CardinalityType, BoundsAssumption DEF SlotsInvariant
<1>2. CASE NoneBegins
    <2>1. IsFiniteSet(Running') /\ Cardinality(Running') <= Cardinality(Running) /\ Cardinality(Running') \in Nat
        BY Zenon, <1>2, FS_Subset, FS_CardinalityType DEF SlotsInvariant, NoneBegins
    <2> QED
        BY <1>0, <1>1, <1>2, <2>1 DEF SlotsInvariant, NoneBegins
<1>3. ASSUME NEW t \in Tasks, SelectNext(t) PROVE SlotsInvariant'
    <2>1. Running' = Running /\ RunningCount < MaxConcurrency
        BY Zenon, <1>3 DEF SelectNext, rowVars, Running
    <2> QED
        BY <1>0, <1>1, <2>1 DEF SlotsInvariant
<1>4. ASSUME NEW t \in Tasks, Claim(t) PROVE SlotsInvariant'
    <2>1. Running' = Running \cup {t} /\ phase = "claim" /\ phase' = "reconcile"
        BY Zenon, <1>4 DEF Claim, ClaimVerified, CycleEnds, Running, OwnershipInvariant, TypeOK
    <2>2. IsFiniteSet(Running') /\ Cardinality(Running') <= Cardinality(Running) + 1
        <3>1. IsFiniteSet(Running \cup {t}) /\ Cardinality(Running \cup {t}) =
                 IF t \in Running THEN Cardinality(Running) ELSE Cardinality(Running) + 1
            BY Zenon, FS_AddElement DEF SlotsInvariant
        <3> QED
            BY <1>0, <1>1, <2>1, <3>1
    <2>3. Cardinality(Running') \in Nat
        BY Zenon, <2>2, FS_CardinalityType
    <2> QED
        BY <1>0, <1>1, <2>1, <2>2, <2>3 DEF SlotsInvariant
<1>5. CASE UNCHANGED vars
    BY Zenon, <1>2, <1>5 DEF vars, rowVars, loopVars, NoneBegins, Running
<1> QED
    BY Zenon, <1>2, <1>3, <1>4, <1>5, ApiBegins, CycleBegins, WorkerBegins, RecoveryBegins
       DEF Next, OwnershipInvariant

(* Never more tasks run than max_concurrency, over restarts, cancellations,  *)
(* retries and recovered tasks (_get_running_count in _run_cycle, the claim  *)
(* in _execute_task), when the two unlocked reads are fresh.                 *)
THEOREM RunningTasksBounded ==
    ASSUME FreshReads
    PROVE  Spec => []ConcurrencyBounded
<1>1. Init => SlotsInvariant
    <2> SUFFICES ASSUME Init PROVE SlotsInvariant
        OBVIOUS
    <2>1. Running = {} /\ phase # "claim"
        BY DEF Init, Running
    <2>2. RunningCount = 0 /\ IsFiniteSet(Running)
        BY Zenon, <2>1, FS_EmptySet DEF RunningCount, Running
    <2> QED
        BY <2>1, <2>2, BoundsAssumption DEF SlotsInvariant
<1>2. OwnershipInvariant /\ SlotsInvariant /\ [Next]_vars => SlotsInvariant'
    BY Zenon, SlotsKept
<1>3. SlotsInvariant => ConcurrencyBounded
    BY Zenon DEF SlotsInvariant, ConcurrencyBounded
<1> QED
    BY <1>1, <1>2, <1>3, OwnershipHolds, PTL DEF Spec
================================================================================
