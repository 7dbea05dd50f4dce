---------------------------- MODULE OwnershipProofs ----------------------------
(***************************************************************************)
(* The safety of the task-execution core for any number of tasks, issues,  *)
(* restarts and requests. ContainerHoldsLock is not inductive: whether the *)
(* lock of a container may be released depends on the reference in its     *)
(* row, on where its worker is, on what a cancel request believes and on   *)
(* how recovery classified the row. OwnershipInvariant records just that.  *)
(*                                                                         *)
(* FreshReads is assumed where a task may not be moved back by a stale     *)
(* write, and ~LosesFailures where a worker's failure is always recorded.  *)
(***************************************************************************)
EXTENDS IssueQueue, TLAPS

(* No task has the number that stands for no task. *)
LEMMA NoTaskIsNone == NoTask \notin Tasks
BY Zenon, TasksAssumption DEF NoTask

(* An empty database and a scheduler that has not started are well typed. *)
LEMMA InitTyped == Init => TypeOK
BY TasksAssumption, IssueOfAssumption, BoundsAssumption
   DEF Init, TypeOK, NoTask, NoRequest, Statuses, Active, Terminal, ContainerStates, WorkerStates,
       CancelStates, Phases, RowClasses

(* The task routes of the API keep the state well typed. *)
LEMMA ApiTyped ==
    TypeOK /\ ApiNext => TypeOK'
<1> SUFFICES ASSUME TypeOK, ApiNext PROVE TypeOK'
    OBVIOUS
<1> USE NoTaskIsNone, IssueOfAssumption, BoundsAssumption
    DEF TypeOK, rowVars, memoryVars, loopVars, callVars
<1>1. CASE RescheduleRefused
    BY Zenon, <1>1 DEF RescheduleRefused, NoRequest
<1>2. ASSUME NEW t \in Tasks, CreateTask(t) PROVE TypeOK'
    BY Zenon, <1>2 DEF CreateTask, Statuses, Active, Terminal
<1>3. ASSUME NEW t \in Tasks, ScheduleFalls(t) PROVE TypeOK'
    BY Zenon, <1>3 DEF ScheduleFalls
<1>4. ASSUME NEW t \in Tasks, ExecuteNow(t) PROVE TypeOK'
    BY Zenon, <1>4 DEF ExecuteNow
<1>5. ASSUME NEW t \in Tasks, OverrideStatus(t) PROVE TypeOK'
    BY <1>5 DEF OverrideStatus, CountRequest, Statuses, Active, Terminal, NoRequest
<1>6. ASSUME NEW t \in Tasks, CancelPhaseA(t) PROVE TypeOK'
    BY <1>6 DEF CancelPhaseA, CountRequest, Statuses, Active, Terminal, CancelStates,
       NoRequest
<1>7. ASSUME NEW t \in Tasks, CancelFindsNothing(t) PROVE TypeOK'
    BY Zenon, <1>7 DEF CancelFindsNothing, CancelStates, NoRequest
<1>8. ASSUME NEW t \in Tasks, CancelDeferred(t) PROVE TypeOK'
    BY Zenon, <1>8 DEF CancelDeferred, CancelStates, NoRequest
<1>9. ASSUME NEW t \in Tasks, CancelStops(t) PROVE TypeOK'
    BY <1>9 DEF CancelStops, ContainerStates, CancelStates, NoRequest
<1>10. ASSUME NEW t \in Tasks, CancelPhaseB(t) PROVE TypeOK'
    BY <1>10 DEF CancelPhaseB, LockReleasedBy, CancelStates, NoRequest, Terminal
<1>11. ASSUME NEW t \in Tasks, RescheduleRead(t) PROVE TypeOK'
    BY <1>11 DEF RescheduleRead, CountRequest, NoRequest
<1>12. ASSUME NEW t \in Tasks, RescheduleCommit(t) PROVE TypeOK'
    BY Zenon, <1>12 DEF RescheduleCommit, Statuses, Active, Terminal, NoRequest
<1> QED
    BY Zenon, <1>1, <1>2, <1>3, <1>4, <1>5, <1>6, <1>7, <1>8, <1>9, <1>10, <1>11, <1>12 DEF ApiNext

(* The steps of a scheduler cycle keep the state well typed. *)
LEMMA LoopTyped ==
    TypeOK /\ LoopNext => TypeOK'
<1> SUFFICES ASSUME TypeOK, LoopNext PROVE TypeOK'
    OBVIOUS
<1> USE NoTaskIsNone, IssueOfAssumption, BoundsAssumption
    DEF TypeOK, rowVars, memoryVars, loopVars, callVars
<1>1. CASE Reconcile
    BY <1>1 DEF Reconcile, RetainedIssues, Phases, Terminal
<1>2. ASSUME NEW kitKnown \in SUBSET Tasks, Promote(kitKnown) PROVE TypeOK'
    BY Zenon, <1>2 DEF Promote, Statuses, Active, Terminal, Phases
<1>3. CASE SelectNothing
    BY Zenon, <1>3 DEF SelectNothing, Phases
<1>4. CASE CycleAbandoned
    BY Zenon, <1>4 DEF CycleAbandoned, CycleEnds, Phases
<1>5. ASSUME NEW t \in Tasks, SelectNext(t) PROVE TypeOK'
    BY Zenon, <1>5 DEF SelectNext, ClaimableTasks, Phases
<1>6. ASSUME NEW t \in Tasks, GateParks(t) PROVE TypeOK'
    BY <1>6 DEF GateParks, CycleEnds, Statuses, Active, Terminal, Phases
<1>7. ASSUME NEW t \in Tasks, GateFails(t) PROVE TypeOK'
    BY ZenonT(60), <1>7 DEF GateFails, CycleEnds, Statuses, Active, Terminal, Phases
<1>8. ASSUME NEW t \in Tasks, ClaimDemotes(t) PROVE TypeOK'
    BY Zenon, <1>8 DEF ClaimDemotes, CycleEnds, Statuses, Active, Terminal, Phases
<1>9. ASSUME NEW t \in Tasks, ClaimRefused(t) PROVE TypeOK'
    BY <1>9 DEF ClaimRefused, CycleEnds, ClaimVerified, Statuses, Active, Terminal, Phases
<1>10. ASSUME NEW t \in Tasks, Claim(t) PROVE TypeOK'
    BY <1>10 DEF Claim, CycleEnds, ClaimVerified, Statuses, Active, Terminal, WorkerStates,
       Bootstrapping, Launching, Monitoring, Phases
<1> QED
    BY Zenon, <1>1, <1>2, <1>3, <1>4, <1>5, <1>6, <1>7, <1>8, <1>9, <1>10 DEF LoopNext

(* The reaper of retained containers keeps the state well typed. *)
LEMMA ReaperTyped ==
    TypeOK /\ ReaperNext => TypeOK'
<1> SUFFICES ASSUME TypeOK, ReaperNext PROVE TypeOK'
    OBVIOUS
<1> USE NoTaskIsNone, IssueOfAssumption, BoundsAssumption
    DEF TypeOK, rowVars, memoryVars, loopVars, callVars
<1>1. ASSUME NEW t \in Tasks, ReaperStops(t) PROVE TypeOK'
    BY Zenon, <1>1 DEF ReaperStops, Reapable, ContainerStates, Terminal
<1>2. ASSUME NEW t \in Tasks, ReaperFinalizesLogs(t) PROVE TypeOK'
    BY Zenon, <1>2 DEF ReaperFinalizesLogs, Reapable, Terminal
<1>3. ASSUME NEW t \in Tasks, ReaperRemoves(t) PROVE TypeOK'
    BY Zenon, <1>3 DEF ReaperRemoves, Reapable, ContainerStates, Terminal
<1>4. ASSUME NEW t \in Tasks, ReaperClears(t) PROVE TypeOK'
    <2>1. lock' \in [Issues -> Tasks \cup {NoTask}]
        BY Zenon, <1>4 DEF ReaperClears, LockReleasedBy
    <2>2. blockedIssues' \subseteq Issues /\ runningIssues' \subseteq Issues
        BY Zenon, <1>4 DEF ReaperClears
    <2>3. logsFinal' \subseteq Tasks /\ containerRef' \subseteq Tasks
        BY Zenon, <1>4 DEF ReaperClears
    <2>4. UNCHANGED <<status, due, cancelRequested, container, runningTasks, worker>>
        BY Zenon, <1>4 DEF ReaperClears
    <2>5. UNCHANGED <<phase, candidate, snapshot, cancelCall, rescheduleCall, requests, crashes>>
        BY Zenon, <1>4 DEF ReaperClears
    <2> QED
        BY Zenon, <2>1, <2>2, <2>3, <2>4, <2>5
<1> QED
    BY ZenonT(60), <1>1, <1>2, <1>3, <1>4 DEF ReaperNext

(* Worker threads, coordinators and harnesses keep the state well typed. *)
LEMMA HandleTyped ==
    ASSUME TypeOK, NEW t \in Tasks, HandleStep(t) \/ HarnessExits(t) PROVE TypeOK'
<1> USE NoTaskIsNone, IssueOfAssumption, BoundsAssumption
    DEF TypeOK, rowVars, memoryVars, loopVars, callVars
<1>1. CASE WorkerStarts(t)
    BY Zenon, <1>1 DEF WorkerStarts, ThreadStep, MovesTo, Statuses, Active, Terminal, WorkerStates,
       Bootstrapping, Launching, Monitoring
<1>2. CASE SetupFails(t)
    BY Zenon, <1>2 DEF SetupFails, ThreadStep, MovesTo, Statuses, Active, Terminal, WorkerStates,
       Bootstrapping, Launching, Monitoring
<1>3. CASE CheckBeforeCreate(t)
    BY SMTT(30), <1>3 DEF CheckBeforeCreate, ThreadStep, MovesTo, Statuses, Active, Terminal,
       WorkerStates, Bootstrapping, Launching, Monitoring
<1>4. CASE CreateContainer(t)
    BY Zenon, <1>4 DEF CreateContainer, ThreadStep, MovesTo, ContainerStates, WorkerStates,
       Bootstrapping, Launching, Monitoring
<1>5. CASE CreateInconclusive(t)
    BY Zenon, <1>5 DEF CreateInconclusive, ThreadStep, MovesTo, ContainerStates, WorkerStates,
       Bootstrapping, Launching, Monitoring
<1>6. CASE PersistReference(t)
    BY <1>6 DEF PersistReference, ThreadStep, MovesTo, WorkerStates, Bootstrapping,
       Launching, Monitoring
<1>7. CASE PersistFails(t)
    BY ZenonT(60), <1>7 DEF PersistFails, ThreadStep, MovesTo, ContainerStates, WorkerStates,
       Bootstrapping, Launching, Monitoring
<1>8. CASE CheckBeforeStart(t)
    BY ZenonT(60), <1>8 DEF CheckBeforeStart, ThreadStep, MovesTo, Statuses, Active, Terminal,
       WorkerStates, Bootstrapping, Launching, Monitoring
<1>9. CASE StartContainer(t)
    BY Zenon, <1>9 DEF StartContainer, ThreadStep, MovesTo, ContainerStates, WorkerStates,
       Bootstrapping, Launching, Monitoring
<1>10. CASE StartFails(t)
    BY ZenonT(60), <1>10 DEF StartFails, ThreadStep, MovesTo, ContainerStates, WorkerStates,
       Bootstrapping, Launching, Monitoring
<1>11. CASE StartInconclusive(t)
    BY <1>11 DEF StartInconclusive, ThreadStep, MovesTo, ContainerStates, WorkerStates,
       Bootstrapping, Launching, Monitoring
<1>12. CASE DiscardContainer(t)
    BY Zenon, <1>12 DEF DiscardContainer, ThreadStep, MovesTo, ContainerStates, WorkerStates,
       Bootstrapping, Launching, Monitoring
<1>13. CASE RecordDiscard(t)
    BY <1>13 DEF RecordDiscard, ThreadStep, MovesTo, WorkerStates, Bootstrapping, Launching,
       Monitoring
<1>14. CASE FailExecute(t)
    BY Zenon, <1>14 DEF FailExecute, ThreadStep, MovesTo, Statuses, Active, Terminal, WorkerStates,
       Bootstrapping, Launching, Monitoring
<1>15. CASE CheckStarted(t)
    BY ZenonT(60), <1>15 DEF CheckStarted, ThreadStep, MovesTo, ContainerStates, WorkerStates,
       Bootstrapping, Launching, Monitoring
<1>16. CASE StreamEnds(t)
    BY Zenon, <1>16 DEF StreamEnds, ThreadStep, MovesTo, WorkerStates, Bootstrapping, Launching,
       Monitoring
<1>17. CASE StreamTimesOut(t)
    BY Zenon, <1>17 DEF StreamTimesOut, ThreadStep, MovesTo, ContainerStates, WorkerStates,
       Bootstrapping, Launching, Monitoring
<1>18. CASE FinalizeLogs(t)
    BY ZenonT(60), <1>18 DEF FinalizeLogs, ThreadStep, MovesTo, WorkerStates, Bootstrapping, Launching,
       Monitoring
<1>19. CASE ParseResult(t)
    BY <1>19 DEF ParseResult, ThreadStep, MovesTo, Statuses, Active, Terminal, WorkerStates,
       Bootstrapping, Launching, Monitoring
<1>20. CASE SettleOutcome(t)
    BY Zenon, <1>20 DEF SettleOutcome, ThreadStep, MovesTo, Statuses, Active, Terminal, WorkerStates,
       Bootstrapping, Launching, Monitoring
<1>21. CASE RemoveContainer(t)
    BY Zenon, <1>21 DEF RemoveContainer, ThreadStep, MovesTo, ContainerStates, WorkerStates,
       Bootstrapping, Launching, Monitoring
<1>22. CASE ClearReference(t)
    BY <1>22 DEF ClearReference, ThreadStep, MovesTo, WorkerStates, Bootstrapping, Launching,
       Monitoring
<1>23. CASE RetainContainer(t)
    BY Zenon, <1>23 DEF RetainContainer, ThreadStep, MovesTo, WorkerStates, Bootstrapping, Launching,
       Monitoring
<1>24. CASE MonitorFails(t)
    BY <1>24 DEF MonitorFails, ThreadStep, MovesTo, Statuses, Active, Terminal,
       ContainerStates, WorkerStates, Bootstrapping, Launching, Monitoring
<1>25. CASE ResumeAttaches(t)
    BY Zenon, <1>25 DEF ResumeAttaches, ThreadStep, MovesTo, WorkerStates, Bootstrapping, Launching,
       Monitoring
<1>26. CASE ResumeRefused(t)
    BY Zenon, <1>26 DEF ResumeRefused, ThreadStep, MovesTo, Statuses, Active, Terminal, WorkerStates,
       Bootstrapping, Launching, Monitoring
<1>27. CASE ResumeInconclusive(t)
    BY Zenon, <1>27 DEF ResumeInconclusive, ThreadStep, MovesTo, WorkerStates, Bootstrapping,
       Launching, Monitoring
<1>28. CASE WorkerEscapes(t)
    BY <1>28 DEF WorkerEscapes, Quiesced, BlockIssue, LockReleasedBy, LostOutcome, MovesTo,
       Statuses, Active, Terminal, ContainerStates, WorkerStates, Bootstrapping,
       Launching, Monitoring
<1>29. CASE WorkerLost(t)
    BY Zenon, <1>29 DEF WorkerLost, Quiesced, ThreadStep, MovesTo, ContainerStates, WorkerStates,
       Bootstrapping, Launching, Monitoring
<1>30. CASE WorkerFinally(t)
    BY <1>30 DEF WorkerFinally, BlockIssue, LockReleasedBy, MovesTo, WorkerStates,
       Bootstrapping, Launching, Monitoring
<1>31. CASE WorkerFinallyFails(t)
    BY Zenon, <1>31 DEF WorkerFinallyFails, MovesTo, WorkerStates, Bootstrapping, Launching,
       Monitoring
<1>32. CASE CoordStops(t)
    BY Zenon, <1>32 DEF CoordStops, MovesTo, WorkerStates, Bootstrapping, Launching, Monitoring
<1>33. CASE CoordResumes(t)
    BY Zenon, <1>33 DEF CoordResumes, ThreadStep, MovesTo, ContainerStates, WorkerStates,
       Bootstrapping, Launching, Monitoring
<1>34. CASE CoordDiscards(t)
    BY ZenonT(60), <1>34 DEF CoordDiscards, ThreadStep, MovesTo, ContainerStates, WorkerStates,
       Bootstrapping, Launching, Monitoring
<1>35. CASE CoordRemoved(t)
    BY SMTT(30), <1>35 DEF CoordRemoved, CoordSettles, LockReleasedBy, MovesTo, Statuses, Active,
       Terminal, WorkerStates, Bootstrapping, Launching, Monitoring
<1>36. CASE CoordAbsent(t)
    BY Zenon, <1>36 DEF CoordAbsent, CoordSettles, LockReleasedBy, LostOutcome, MovesTo, Statuses,
       Active, Terminal, WorkerStates, Bootstrapping, Launching, Monitoring
<1>37. CASE HarnessExits(t)
    BY Zenon, <1>37 DEF HarnessExits, ThreadStep, ContainerStates
<1> QED
    BY ZenonT(60), <1>1, <1>2, <1>3, <1>4, <1>5, <1>6, <1>7, <1>8, <1>9, <1>10, <1>11, <1>12, <1>13,
       <1>14, <1>15, <1>16, <1>17, <1>18, <1>19, <1>20, <1>21, <1>22, <1>23, <1>24, <1>25,
       <1>26, <1>27, <1>28, <1>29, <1>30, <1>31, <1>32, <1>33, <1>34, <1>35, <1>36, <1>37 DEF HandleStep

(* A crash of the scheduler and its recovery keep the state well typed. *)
LEMMA RecoveryTyped ==
    TypeOK /\ RecoveryNext => TypeOK'
<1> SUFFICES ASSUME TypeOK, RecoveryNext PROVE TypeOK'
    OBVIOUS
<1> USE NoTaskIsNone, IssueOfAssumption, BoundsAssumption
    DEF TypeOK, rowVars, memoryVars, loopVars, callVars
<1>1. CASE Crash
    BY <1>1 DEF Crash, WorkerStates, Bootstrapping, Launching, Monitoring, Phases, RowClasses
<1>2. CASE BeginRecovery
    BY <1>2 DEF BeginRecovery, LocksWithoutInactive, AlreadyOwned, Phases, RowClasses,
       Terminal
<1>3. CASE RecoveryFails
    BY Zenon, <1>3 DEF RecoveryFails, Phases, RowClasses
<1>4. CASE EndRecovery
    BY SMTT(30), <1>4 DEF EndRecovery, RetainedIssues, Unowned, Statuses, Active, Terminal, Phases,
       RowClasses
<1>5. ASSUME NEW t \in Tasks, RecoverResume(t) PROVE TypeOK'
    BY <1>5 DEF RecoverResume, TakesOver, Unowned, ContainerStates, WorkerStates,
       Bootstrapping, Launching, Monitoring, RowClasses
<1>6. ASSUME NEW t \in Tasks, RecoverDefer(t) PROVE TypeOK'
    BY <1>6 DEF RecoverDefer, TakesOver, Unowned, WorkerStates, Bootstrapping, Launching,
       Monitoring, RowClasses
<1>7. ASSUME NEW t \in Tasks, RecoverOrphan(t) PROVE TypeOK'
    BY Zenon, <1>7 DEF RecoverOrphan, ContainerStates
<1>8. ASSUME NEW t \in Tasks, RecoverReference(t) PROVE TypeOK'
    BY Zenon, <1>8 DEF RecoverReference, RowClasses
<1> QED
    BY Zenon, <1>1, <1>2, <1>3, <1>4, <1>5, <1>6, <1>7, <1>8 DEF RecoveryNext

(* Every step of the system keeps the state well typed. *)
LEMMA StepTyped == TypeOK /\ [Next]_vars => TypeOK'
<1>1. ASSUME TypeOK, CleanupIssueLocks PROVE TypeOK'
    BY Zenon, <1>1
       DEF CleanupIssueLocks, LocksWithoutInactive, TypeOK, rowVars, memoryVars, loopVars, callVars
<1>2. ASSUME TypeOK, UNCHANGED vars PROVE TypeOK'
    BY Zenon, <1>2 DEF TypeOK, vars, rowVars, memoryVars, loopVars, callVars
<1> QED
    BY Zenon, <1>1, <1>2, ApiTyped, LoopTyped, ReaperTyped, HandleTyped, RecoveryTyped
       DEF Next, CycleNext, WorkerNext

(* Every state the system reaches is well typed: no interleaving of API,     *)
(* scheduler, workers and restarts takes a row, a lock or a program counter  *)
(* out of its range, and no bound is exceeded.                               *)
THEOREM TypeCorrect == Spec => []TypeOK
BY Zenon, InitTyped, StepTyped, PTL DEF Spec

(***************************************************************************)
(* Ownership.                                                              *)
(***************************************************************************)
(* At the start nothing is owned. *)
LEMMA InitOwned == Init => OwnershipInvariant /\ HandleInvariant
BY SMTT(30), InitTyped, NoTaskIsNone, IssueOfAssumption
   DEF Init, OwnershipInvariant, HandleInvariant, Ownership, HandleKept, Waiting, Bootstrapping,
       Launching,       Earlier, IsTerminal, Terminal

(* The action properties of one task, together. *)
StepAllowed(t) == CancelKept(t) /\ StartAllowed(t) /\ LogKept(t)

(* What has to hold of every task after a step: its ownership, and that the  *)
(* step was allowed.                                                         *)
Kept(t) == Ownership(t)' /\ StepAllowed(t)

(* What a step leaves alone of a task it is not about. *)
Undisturbed(u) ==
    /\ status'[u] = status[u] /\ worker'[u] = worker[u] /\ container'[u] = container[u]
    /\ cancelCall'[u] = cancelCall[u] /\ snapshot'[u] = snapshot[u]
    /\ u \in containerRef' <=> u \in containerRef
    /\ u \in logsFinal => u \in logsFinal'
    /\ lock[IssueOf[u]] = u /\ (container[u] # "none" \/ worker[u] \in Bootstrapping) =>
          lock'[IssueOf[u]] = u
    /\ phase' = phase \/ {phase, phase'} \subseteq {"reconcile", "promote", "select", "claim"}

(* A task that exists stays, and one that has ended stays ended. *)
Advances(t) == (status[t] # "none" => status'[t] # "none") /\ (IsTerminal(t) => IsTerminal(t)')

(* The step changes nothing that ownership speaks of. *)
Untouched == \A u \in Tasks : Undisturbed(u)

(* The step is about task t only. *)
About(t) == (\A u \in Tasks \ {t} : Undisturbed(u)) /\ Kept(t) /\ Advances(t)

(* A task that a step leaves alone keeps its ownership if its predecessors   *)
(* stay what they are.                                                       *)
LEMMA UndisturbedKept ==
    ASSUME NEW u \in Tasks, Ownership(u), Undisturbed(u), \A v \in Tasks : Advances(v)
    PROVE  Kept(u)
<1>1. StepAllowed(u)
    BY Zenon DEF Undisturbed, StepAllowed, CancelKept, StartAllowed, LogKept
<1>2. \A v \in Earlier(u) : Advances(v)
    BY Zenon DEF Earlier
<1>3. Ownership(u)'
    BY SMTT(30), <1>2 DEF Ownership, Undisturbed, Advances, IsTerminal, Earlier
<1> QED
    BY Zenon, <1>1, <1>3 DEF Kept

(* Hence a step that leaves all tasks alone keeps all of them. *)
LEMMA UntouchedKeepsAll ==
    ASSUME OwnershipInvariant, Untouched
    PROVE  \A u \in Tasks : Kept(u)
<1>1. \A v \in Tasks : Advances(v)
    BY Zenon DEF Untouched, Undisturbed, Advances, IsTerminal
<1> QED
    BY Zenon, <1>1, UndisturbedKept DEF OwnershipInvariant, Untouched

(* So a step that is about one task has to be looked at for that task only. *)
LEMMA AboutOneKeepsAll ==
    ASSUME OwnershipInvariant, NEW t \in Tasks, About(t)
    PROVE  \A u \in Tasks : Kept(u)
<1>1. \A v \in Tasks : Advances(v)
    BY Zenon DEF About, Undisturbed, Advances, IsTerminal
<1>2. ASSUME NEW u \in Tasks, u # t PROVE Kept(u)
    BY Zenon, <1>1, <1>2, UndisturbedKept DEF OwnershipInvariant, About
<1> QED
    BY Zenon, <1>2 DEF About

(* API requests keep every task and its ownership. *)
LEMMA ApiKept ==
    ASSUME FreshReads, OwnershipInvariant, ApiNext
    PROVE  \A u \in Tasks : Kept(u)
<1> /\ status \in [Tasks -> Statuses] /\ container \in [Tasks -> ContainerStates]
    /\ lock \in [Issues -> Tasks \cup {NoTask}] /\ worker \in [Tasks -> WorkerStates]
    /\ cancelCall \in [Tasks -> CancelStates] /\ snapshot \in [Tasks -> RowClasses]
    BY Zenon DEF OwnershipInvariant, TypeOK
<1>0. \A u \in Tasks : Ownership(u)
    BY Zenon DEF OwnershipInvariant
<1> USE NoTaskIsNone, IssueOfAssumption
    DEF About, Untouched, Kept, Undisturbed, Advances, StepAllowed, CancelKept, StartAllowed, LogKept, Ownership,
        Waiting, Earlier, IsTerminal, rowVars, memoryVars, loopVars, callVars, Terminal,
        Bootstrapping, Launching
<1>1. ASSUME RescheduleRefused PROVE Untouched
    BY Zenon, <1>1 DEF RescheduleRefused, NoRequest
<1>2. ASSUME NEW t \in Tasks, Ownership(t), CreateTask(t) PROVE About(t)
    BY Zenon, <1>2 DEF CreateTask
<1>3. ASSUME NEW t \in Tasks, ScheduleFalls(t) PROVE Untouched
    BY Zenon, <1>3 DEF ScheduleFalls
<1>4. ASSUME NEW t \in Tasks, ExecuteNow(t) PROVE Untouched
    BY Zenon, <1>4 DEF ExecuteNow
<1>5. ASSUME NEW t \in Tasks, Ownership(t), OverrideStatus(t) PROVE About(t)
    BY ZenonT(60), <1>5 DEF OverrideStatus, CountRequest
<1>6. ASSUME NEW t \in Tasks, Ownership(t), CancelPhaseA(t) PROVE About(t)
    BY <1>6 DEF CancelPhaseA, CountRequest, Statuses, Active
<1>7. ASSUME NEW t \in Tasks, Ownership(t), CancelFindsNothing(t) PROVE About(t)
    BY ZenonT(60), <1>7 DEF CancelFindsNothing
<1>8. ASSUME NEW t \in Tasks, Ownership(t), CancelDeferred(t) PROVE About(t)
    BY <1>8 DEF CancelDeferred
<1>9. ASSUME NEW t \in Tasks, Ownership(t), CancelStops(t) PROVE About(t)
    BY ZenonT(60), <1>9 DEF CancelStops
<1>10. ASSUME NEW t \in Tasks, Ownership(t), CancelPhaseB(t) PROVE About(t)
    BY <1>10 DEF CancelPhaseB, LockReleasedBy
<1>11. ASSUME NEW t \in Tasks, RescheduleRead(t) PROVE Untouched
    BY Zenon, <1>11 DEF RescheduleRead, CountRequest, NoRequest
<1>12. ASSUME NEW t \in Tasks, Ownership(t), RescheduleCommit(t) PROVE About(t)
    BY ZenonT(60), <1>12 DEF RescheduleCommit, NoRequest
<1> HIDE DEF About, Untouched, Kept, Ownership
<1> QED
    BY Zenon, <1>0, <1>1, <1>2, <1>3, <1>4, <1>5, <1>6, <1>7, <1>8, <1>9, <1>10, <1>11, <1>12,
       AboutOneKeepsAll, UntouchedKeepsAll DEF ApiNext

(* The scheduler cycle keeps every task and its ownership. *)
LEMMA LoopKept ==
    ASSUME FreshReads, OwnershipInvariant, LoopNext
    PROVE  \A u \in Tasks : Kept(u)
<1> /\ status \in [Tasks -> Statuses] /\ container \in [Tasks -> ContainerStates]
    /\ lock \in [Issues -> Tasks \cup {NoTask}] /\ worker \in [Tasks -> WorkerStates]
    /\ cancelCall \in [Tasks -> CancelStates] /\ snapshot \in [Tasks -> RowClasses]
    BY Zenon DEF OwnershipInvariant, TypeOK
<1>0. \A u \in Tasks : Ownership(u)
    BY Zenon DEF OwnershipInvariant
<1> USE NoTaskIsNone, IssueOfAssumption
    DEF About, Untouched, Kept, Undisturbed, Advances, StepAllowed, CancelKept, StartAllowed, LogKept, Ownership,
        Waiting, Earlier, IsTerminal, rowVars, memoryVars, loopVars, callVars, Terminal,
        Bootstrapping, Launching
<1>1. ASSUME Reconcile PROVE Untouched
    BY Zenon, <1>1 DEF Reconcile, RetainedIssues
<1>2. ASSUME NEW kitKnown \in SUBSET Tasks, NEW u \in Tasks, Ownership(u), Promote(kitKnown) PROVE Kept(u)
    BY ZenonT(60), <1>2 DEF Promote, IllegalQueued, DueHeads, HasActivePredecessor, Statuses, Active
<1>3. ASSUME SelectNothing PROVE Untouched
    BY Zenon, <1>3 DEF SelectNothing
<1>4. ASSUME CycleAbandoned PROVE Untouched
    BY Zenon, <1>4 DEF CycleAbandoned, CycleEnds
<1>5. ASSUME NEW t \in Tasks, SelectNext(t) PROVE Untouched
    BY Zenon, <1>5 DEF SelectNext, ClaimableTasks
<1>6. ASSUME NEW t \in Tasks, NEW u \in Tasks, Ownership(u), GateParks(t) PROVE Kept(u)
    BY ZenonT(60), <1>6 DEF GateParks, CycleEnds
<1>7. ASSUME NEW t \in Tasks, Ownership(t), GateFails(t) PROVE About(t)
    BY Zenon, <1>7 DEF GateFails, CycleEnds
<1>8. ASSUME NEW t \in Tasks, Ownership(t), ClaimDemotes(t) PROVE About(t)
    BY Zenon, <1>8 DEF ClaimDemotes, CycleEnds
<1>9. ASSUME NEW t \in Tasks, Ownership(t), ClaimRefused(t) PROVE About(t)
    BY ZenonT(60), <1>9 DEF ClaimRefused, CycleEnds, ClaimVerified, HasActivePredecessor, Statuses, Active
<1>10. ASSUME NEW t \in Tasks, Ownership(t), Claim(t) PROVE About(t)
    BY ZenonT(60), <1>10 DEF Claim, CycleEnds, ClaimVerified, HasActivePredecessor, Statuses, Active
<1> HIDE DEF About, Untouched, Kept, Ownership
<1> QED
    BY Zenon, <1>0, <1>1, <1>2, <1>3, <1>4, <1>5, <1>6, <1>7, <1>8, <1>9, <1>10,
       AboutOneKeepsAll, UntouchedKeepsAll DEF LoopNext

(* The reaper keeps every task and its ownership. *)
LEMMA ReaperKept ==
    ASSUME FreshReads, OwnershipInvariant, ReaperNext
    PROVE  \A u \in Tasks : Kept(u)
<1> /\ status \in [Tasks -> Statuses] /\ container \in [Tasks -> ContainerStates]
    /\ lock \in [Issues -> Tasks \cup {NoTask}] /\ worker \in [Tasks -> WorkerStates]
    /\ cancelCall \in [Tasks -> CancelStates] /\ snapshot \in [Tasks -> RowClasses]
    BY Zenon DEF OwnershipInvariant, TypeOK
<1>0. \A u \in Tasks : Ownership(u)
    BY Zenon DEF OwnershipInvariant
<1> USE NoTaskIsNone, IssueOfAssumption
    DEF About, Untouched, Kept, Undisturbed, Advances, StepAllowed, CancelKept, StartAllowed, LogKept, Ownership,
        Waiting, Earlier, IsTerminal, rowVars, memoryVars, loopVars, callVars, Terminal,
        Bootstrapping, Launching
<1>1. ASSUME NEW t \in Tasks, Ownership(t), ReaperStops(t) PROVE About(t)
    BY Zenon, <1>1 DEF ReaperStops, Reapable
<1>2. ASSUME NEW t \in Tasks, Ownership(t), ReaperFinalizesLogs(t) PROVE About(t)
    BY Zenon, <1>2 DEF ReaperFinalizesLogs, Reapable
<1>3. ASSUME NEW t \in Tasks, Ownership(t), ReaperRemoves(t) PROVE About(t)
    BY Zenon, <1>3 DEF ReaperRemoves, Reapable
<1>4. ASSUME NEW t \in Tasks, Ownership(t), ReaperClears(t) PROVE About(t)
    BY Zenon, <1>4 DEF ReaperClears, Reapable, LockReleasedBy
<1> HIDE DEF About, Untouched, Kept, Ownership
<1> QED
    BY Zenon, <1>0, <1>1, <1>2, <1>3, <1>4,
       AboutOneKeepsAll, UntouchedKeepsAll DEF ReaperNext

(* Worker threads and coordinators keep every task and its ownership. *)
LEMMA HandleKeptAll ==
    ASSUME FreshReads, OwnershipInvariant,
           NEW t \in Tasks, HandleStep(t) \/ HarnessExits(t)
    PROVE  \A u \in Tasks : Kept(u)
<1> SUFFICES About(t)
    BY Zenon, AboutOneKeepsAll
<1> /\ status \in [Tasks -> Statuses] /\ container \in [Tasks -> ContainerStates]
    /\ lock \in [Issues -> Tasks \cup {NoTask}] /\ worker \in [Tasks -> WorkerStates]
    /\ cancelCall \in [Tasks -> CancelStates] /\ snapshot \in [Tasks -> RowClasses]
    BY Zenon DEF OwnershipInvariant, TypeOK
<1> Ownership(t)
    BY Zenon DEF OwnershipInvariant
<1> USE NoTaskIsNone, IssueOfAssumption
    DEF About, Untouched, Kept, Undisturbed, Advances, StepAllowed, CancelKept, StartAllowed, LogKept, Ownership,
        Waiting, Earlier, IsTerminal, rowVars, memoryVars, loopVars, callVars, Terminal,
        Bootstrapping, Launching
<1>1. CASE WorkerStarts(t)
    BY Zenon, <1>1 DEF WorkerStarts, ThreadStep, MovesTo
<1>2. CASE SetupFails(t)
    BY Zenon, <1>2 DEF SetupFails, ThreadStep, MovesTo
<1>3. CASE CheckBeforeCreate(t)
    BY ZenonT(60), <1>3 DEF CheckBeforeCreate, ThreadStep, MovesTo, CancelSeen
<1>4. CASE CreateContainer(t)
    BY Zenon, <1>4 DEF CreateContainer, ThreadStep, MovesTo
<1>5. CASE CreateInconclusive(t)
    BY Zenon, <1>5 DEF CreateInconclusive, ThreadStep, MovesTo
<1>6. CASE PersistReference(t)
    BY Zenon, <1>6 DEF PersistReference, ThreadStep, MovesTo
<1>7. CASE PersistFails(t)
    BY ZenonT(60), <1>7 DEF PersistFails, ThreadStep, MovesTo
<1>8. CASE CheckBeforeStart(t)
    BY ZenonT(60), <1>8 DEF CheckBeforeStart, ThreadStep, MovesTo, CancelSeen
<1>9. CASE StartContainer(t)
    BY Zenon, <1>9 DEF StartContainer, ThreadStep, MovesTo
<1>10. CASE StartFails(t)
    BY ZenonT(60), <1>10 DEF StartFails, ThreadStep, MovesTo
<1>11. CASE StartInconclusive(t)
    BY Zenon, <1>11 DEF StartInconclusive, ThreadStep, MovesTo
<1>12. CASE DiscardContainer(t)
    BY Zenon, <1>12 DEF DiscardContainer, ThreadStep, MovesTo
<1>13. CASE RecordDiscard(t)
    BY Zenon, <1>13 DEF RecordDiscard, ThreadStep, MovesTo
<1>14. CASE FailExecute(t)
    BY Zenon, <1>14 DEF FailExecute, ThreadStep, MovesTo
<1>15. CASE CheckStarted(t)
    BY <1>15 DEF CheckStarted, ThreadStep, MovesTo, CancelSeen
<1>16. CASE StreamEnds(t)
    BY Zenon, <1>16 DEF StreamEnds, ThreadStep, MovesTo
<1>17. CASE StreamTimesOut(t)
    BY ZenonT(60), <1>17 DEF StreamTimesOut, ThreadStep, MovesTo
<1>18. CASE FinalizeLogs(t)
    BY ZenonT(60), <1>18 DEF FinalizeLogs, ThreadStep, MovesTo
<1>19. CASE ParseResult(t)
    BY <1>19 DEF ParseResult, ThreadStep, MovesTo
<1>20. CASE SettleOutcome(t)
    BY Zenon, <1>20 DEF SettleOutcome, ThreadStep, MovesTo
<1>21. CASE RemoveContainer(t)
    BY Zenon, <1>21 DEF RemoveContainer, ThreadStep, MovesTo
<1>22. CASE ClearReference(t)
    BY Zenon, <1>22 DEF ClearReference, ThreadStep, MovesTo
<1>23. CASE RetainContainer(t)
    BY ZenonT(60), <1>23 DEF RetainContainer, ThreadStep, MovesTo
<1>24. CASE MonitorFails(t)
    BY <1>24 DEF MonitorFails, ThreadStep, MovesTo, Monitoring
<1>25. CASE ResumeAttaches(t)
    BY Zenon, <1>25 DEF ResumeAttaches, ThreadStep, MovesTo
<1>26. CASE ResumeRefused(t)
    BY Zenon, <1>26 DEF ResumeRefused, ThreadStep, MovesTo
<1>27. CASE ResumeInconclusive(t)
    BY ZenonT(60), <1>27 DEF ResumeInconclusive, ThreadStep, MovesTo
<1>28. CASE WorkerEscapes(t)
    BY SMTT(30), <1>28 DEF WorkerEscapes, Quiesced, BlockIssue, LockReleasedBy, LostOutcome, MovesTo,
       Escapable, Statuses, Active, WorkerStates, Monitoring
<1>29. CASE WorkerLost(t)
    BY SMTT(30), <1>29 DEF WorkerLost, Quiesced, ThreadStep, MovesTo, Escapable, LostOutcome,
       WorkerStates, Monitoring
<1>30. CASE WorkerFinally(t)
    BY <1>30 DEF WorkerFinally, BlockIssue, LockReleasedBy, MovesTo
<1>31. CASE WorkerFinallyFails(t)
    BY Zenon, <1>31 DEF WorkerFinallyFails, MovesTo
<1>32. CASE CoordStops(t)
    BY Zenon, <1>32 DEF CoordStops, MovesTo
<1>33. CASE CoordResumes(t)
    BY Zenon, <1>33 DEF CoordResumes, ThreadStep, MovesTo
<1>34. CASE CoordDiscards(t)
    BY ZenonT(60), <1>34 DEF CoordDiscards, ThreadStep, MovesTo
<1>35. CASE CoordRemoved(t)
    BY <1>35 DEF CoordRemoved, CoordSettles, LockReleasedBy, MovesTo
<1>36. CASE CoordAbsent(t)
    BY Zenon, <1>36 DEF CoordAbsent, CoordSettles, LockReleasedBy, LostOutcome, MovesTo
<1>37. CASE HarnessExits(t)
    BY ZenonT(60), <1>37 DEF HarnessExits, ThreadStep
<1> HIDE DEF About, Ownership
<1> QED
    BY ZenonT(60), <1>1, <1>2, <1>3, <1>4, <1>5, <1>6, <1>7, <1>8, <1>9, <1>10, <1>11, <1>12, <1>13, <1>14, <1>15, <1>16, <1>17, <1>18, <1>19, <1>20, <1>21, <1>22, <1>23, <1>24, <1>25, <1>26, <1>27, <1>28, <1>29, <1>30, <1>31, <1>32, <1>33, <1>34, <1>35, <1>36, <1>37 DEF HandleStep

(* Crashes and recovery keep every task and its ownership. *)
LEMMA RecoveryKept ==
    ASSUME FreshReads, OwnershipInvariant, RecoveryNext
    PROVE  \A u \in Tasks : Kept(u)
<1> /\ status \in [Tasks -> Statuses] /\ container \in [Tasks -> ContainerStates]
    /\ lock \in [Issues -> Tasks \cup {NoTask}] /\ worker \in [Tasks -> WorkerStates]
    /\ cancelCall \in [Tasks -> CancelStates] /\ snapshot \in [Tasks -> RowClasses]
    BY Zenon DEF OwnershipInvariant, TypeOK
<1>0. \A u \in Tasks : Ownership(u)
    BY Zenon DEF OwnershipInvariant
<1> USE NoTaskIsNone, IssueOfAssumption
    DEF About, Untouched, Kept, Undisturbed, Advances, StepAllowed, CancelKept, StartAllowed, LogKept, Ownership,
        Waiting, Earlier, IsTerminal, rowVars, memoryVars, loopVars, callVars, Terminal,
        Bootstrapping, Launching
<1>1. ASSUME NEW u \in Tasks, Ownership(u), Crash PROVE Kept(u)
    BY Zenon, <1>1 DEF Crash
<1>2. ASSUME NEW u \in Tasks, Ownership(u), BeginRecovery PROVE Kept(u)
    BY <1>2 DEF BeginRecovery, LocksWithoutInactive, AlreadyOwned, Statuses, Active
<1>3. ASSUME NEW u \in Tasks, Ownership(u), RecoveryFails PROVE Kept(u)
    BY Zenon, <1>3 DEF RecoveryFails
<1>4. ASSUME NEW u \in Tasks, Ownership(u), EndRecovery PROVE Kept(u)
    BY Zenon, <1>4 DEF EndRecovery, RetainedIssues, Unowned
<1>5. ASSUME NEW t \in Tasks, Ownership(t), RecoverResume(t) PROVE About(t)
    BY Zenon, <1>5 DEF RecoverResume, TakesOver, Unowned
<1>6. ASSUME NEW t \in Tasks, Ownership(t), RecoverDefer(t) PROVE About(t)
    BY Zenon, <1>6 DEF RecoverDefer, TakesOver, Unowned
<1>7. ASSUME NEW t \in Tasks, Ownership(t), RecoverOrphan(t) PROVE About(t)
    BY Zenon, <1>7 DEF RecoverOrphan
<1>8. ASSUME NEW t \in Tasks, Ownership(t), RecoverReference(t) PROVE About(t)
    BY Zenon, <1>8 DEF RecoverReference
<1> HIDE DEF About, Untouched, Kept, Ownership
<1> QED
    BY ZenonT(60), <1>0, <1>1, <1>2, <1>3, <1>4, <1>5, <1>6, <1>7, <1>8,
       AboutOneKeepsAll, UntouchedKeepsAll DEF RecoveryNext

(* Every step of the system keeps every task and its ownership. *)
LEMMA StepKept ==
    ASSUME FreshReads, OwnershipInvariant, [Next]_vars
    PROVE  \A u \in Tasks : Kept(u)
<1>1. ASSUME CleanupIssueLocks PROVE \A u \in Tasks : Kept(u)
  <2>1. ASSUME NEW u \in Tasks PROVE Undisturbed(u)
    <3>1. /\ lock' = LocksWithoutInactive
          /\ UNCHANGED <<status, worker, container, cancelCall, snapshot, containerRef, logsFinal, phase>>
      BY Zenon, <1>1 DEF CleanupIssueLocks, rowVars, memoryVars, loopVars, callVars
    <3>2. container[u] # "none" \/ worker[u] \in Bootstrapping => u \in containerRef \/ ~IsTerminal(u)
      BY <2>1 DEF OwnershipInvariant, Ownership, IsTerminal, Terminal, Bootstrapping, Launching
    <3>3. lock[IssueOf[u]] = u /\ (container[u] # "none" \/ worker[u] \in Bootstrapping) =>
            lock'[IssueOf[u]] = u
      BY <3>1, <3>2, NoTaskIsNone, IssueOfAssumption DEF LocksWithoutInactive
    <3> QED
      BY Zenon, <3>1, <3>3 DEF Undisturbed
  <2>2. Untouched
    BY Zenon, <2>1 DEF Untouched
  <2> QED
    BY Zenon, <2>2, UntouchedKeepsAll
<1>2. CASE UNCHANGED vars
  <2>1. Untouched
    BY Zenon, <1>2 DEF Untouched, Undisturbed, vars, rowVars, memoryVars, loopVars, callVars
  <2> QED
    BY Zenon, <2>1, UntouchedKeepsAll
<1> QED
    BY Zenon, <1>1, <1>2, ApiKept, LoopKept, ReaperKept, HandleKeptAll, RecoveryKept
       DEF Next, CycleNext, WorkerNext

(* In every reachable state tasks, handles, containers, references and locks *)
(* fit together, if the reads of reschedule and readiness gate are fresh.    *)
THEOREM OwnershipHolds ==
    ASSUME FreshReads
    PROVE  Spec => []OwnershipInvariant
<1>1. OwnershipInvariant /\ [Next]_vars => OwnershipInvariant'
    BY Zenon, StepKept, StepTyped DEF OwnershipInvariant, Kept
<1> QED
    BY Zenon, <1>1, InitOwned, PTL DEF Spec

(* No container ever outlives the lock of its task, so that claim, cancel,   *)
(* worker clean-up, reaper and recovery never free a workspace in use.       *)
THEOREM ContainersHoldLocks ==
    ASSUME FreshReads
    PROVE  Spec => []ContainerHoldsLock
<1>1. OwnershipInvariant => ContainerHoldsLock
    BY Zenon DEF OwnershipInvariant, Ownership, ContainerHoldsLock
<1> QED
    BY Zenon, <1>1, OwnershipHolds, PTL

(* Two containers of one issue never run at the same time. *)
THEOREM WorkspacesExclusive ==
    ASSUME FreshReads
    PROVE  Spec => []WorkspaceExclusive
<1>1. OwnershipInvariant => WorkspaceExclusive
    BY DEF OwnershipInvariant, Ownership, WorkspaceExclusive
<1> QED
    BY Zenon, <1>1, OwnershipHolds, PTL

(* A turn runs only after every earlier turn of its issue has ended. *)
THEOREM TurnsRunInOrder ==
    ASSUME FreshReads
    PROVE  Spec => []TurnsInOrder
<1>1. OwnershipInvariant => TurnsInOrder
    BY Zenon DEF OwnershipInvariant, Ownership, TurnsInOrder
<1> QED
    BY Zenon, <1>1, OwnershipHolds, PTL

(***************************************************************************)
(* What a single step may never do: the action properties follow from the  *)
(* ownership invariant before the step.                                    *)
(***************************************************************************)
(* A task cancelled while it waited is never brought back. *)
THEOREM CancelledTasksStay ==
    ASSUME FreshReads
    PROVE  Spec => CancelledStays
<1>1. OwnershipInvariant /\ [Next]_vars => [\A t \in Tasks : CancelKept(t)]_vars
    BY Zenon, StepKept DEF Kept, StepAllowed
<1> QED
    BY Zenon, <1>1, OwnershipHolds, PTL DEF Spec, CancelledStays

(* A container is started at most once, for a running task with the lock. *)
THEOREM ContainersStartUnderLock ==
    ASSUME FreshReads
    PROVE  Spec => StartsUnderLock
<1>1. OwnershipInvariant /\ [Next]_vars => [\A t \in Tasks : StartAllowed(t)]_vars
    BY Zenon, StepKept DEF Kept, StepAllowed
<1> QED
    BY Zenon, <1>1, OwnershipHolds, PTL DEF Spec, StartsUnderLock

(* Nobody removes a container that ran before its raw log is final. *)
THEOREM LogsOutliveContainers ==
    ASSUME FreshReads
    PROVE  Spec => LogsBeforeRemoval
<1>1. OwnershipInvariant /\ [Next]_vars => [\A t \in Tasks : LogKept(t)]_vars
    BY Zenon, StepKept DEF Kept, StepAllowed
<1> QED
    BY Zenon, <1>1, OwnershipHolds, PTL DEF Spec, LogsBeforeRemoval
================================================================================
