---------------------------- MODULE MCAdmission ----------------------------
(***************************************************************************)
(* What the API and the CI collector admit and in what order: Worker       *)
(* profiles, the identity a task freezes, schedule windows, CI repairs and *)
(* the project webhook.  They meet only through rows that each of the      *)
(* modules holds itself, so a behaviour is one of the instances below; the *)
(* variables of the others are Off, and ScheduleWindow's stay as they are  *)
(* at the start.                                                           *)
(***************************************************************************)
EXTENDS ScheduleWindow, TLC

CONSTANTS a1, a2, b1, b2, c1, c2, None

VARIABLES scenario,   \* which of the instances below runs
          \* WorkerProfiles
          prof, shared, patch, verify, profileIssue, locked, cached, snap,
          proved,
          \* TaskIdentity
          open, task, lineage, mirror, retry, ci, local,
          \* ScheduleWindow
          windowTasks, windowOwner, windowKit, windowNow, windowRowLock,
          windowSlotLock, windowReq, windowMoves, windowRevived,
          \* CiFailures
          pipe, ciRow, ciReq, ciTasks, ciIssue, col, used,
          \* ProjectWebhook
          webhookRow, hooks, holder, call, issued, last, rotations

profileVars == <<prof, shared, patch, verify, profileIssue, locked, cached,
                 snap, proved>>
identityVars == <<open, task, lineage, mirror, retry, ci, local>>
scheduleVars == <<tasks, owner, kit, now, rowLock, slotLock, req, moves, revived>>
windowVars == <<windowTasks, windowOwner, windowKit, windowNow, windowRowLock,
                windowSlotLock, windowReq, windowMoves, windowRevived>>
ciVars == <<pipe, ciRow, ciReq, ciTasks, ciIssue, col, used>>
webhookVars == <<webhookRow, hooks, holder, call, issued, last, rotations>>
admissionVars == <<scenario, profileVars, identityVars, scheduleVars,
                   windowVars, ciVars, webhookVars>>

Off == "off"
ProfileOff ==
    /\ prof = Off /\ shared = Off /\ patch = Off /\ verify = Off
    /\ profileIssue = Off /\ locked = Off /\ cached = Off /\ snap = Off
    /\ proved = Off
IdentityOff ==
    /\ open = Off /\ task = Off /\ lineage = Off /\ mirror = Off
    /\ retry = Off /\ ci = Off /\ local = Off
ScheduleOff == Init
WindowOff ==
    /\ windowTasks = Off /\ windowOwner = Off /\ windowKit = Off
    /\ windowNow = Off /\ windowRowLock = Off /\ windowSlotLock = Off
    /\ windowReq = Off /\ windowMoves = Off /\ windowRevived = Off
CiOff ==
    /\ pipe = Off /\ ciRow = Off /\ ciReq = Off /\ ciTasks = Off
    /\ ciIssue = Off /\ col = Off /\ used = Off
WebhookOff ==
    /\ webhookRow = Off /\ hooks = Off /\ holder = Off /\ call = Off
    /\ issued = Off /\ last = Off /\ rotations = Off

\* None of the properties singles out a configuration value, a Harness, an
\* endpoint, an Issue, a request or a verification.
Interchangeable == Permutations({a1, a2}) \cup Permutations({b1, b2}) \cup Permutations({c1, c2})

-----------------------------------------------------------------------------
(* The instances, each with its bounds.                                    *)

Verification == INSTANCE WorkerProfiles WITH
    Profiles <- {"p1"}, Issues <- {"i1"}, Tasks <- {"t1"},
    Verifies <- {c1, c2}, Keys <- {"k1", "k2"}, DefaultKey <- "k1",
    Owns <- {a1, a2}, Shareds <- {b1}, KitVersions <- {"v1"},
    Images <- {"m1"}, MaxGen <- 2, MaxRevision <- 1, Reopens <- FALSE,
    None <- None, issue <- profileIssue
Service == INSTANCE WorkerProfiles WITH
    Profiles <- {"p1", "p2"}, Issues <- {"i1", "i2"}, Tasks <- {},
    Verifies <- {}, Keys <- {"k1"}, DefaultKey <- "k1", Owns <- {a1, a2},
    Shareds <- {b1}, KitVersions <- {"v1"}, Images <- {"m1"}, MaxGen <- 2,
    MaxRevision <- 0, Reopens <- TRUE, None <- None, issue <- profileIssue
Contract == INSTANCE TaskIdentity WITH
    Harnesses <- {a1, a2}, Endpoints <- {b1, b2}, Calls <- {c1},
    Writers <- {"retry", "provider", "switch", "ci"}, MaxTasks <- 2,
    MaxRepairs <- 1, None <- None
Lineage == INSTANCE TaskIdentity WITH
    Harnesses <- {a1}, Endpoints <- {b1}, Calls <- {c1},
    Writers <- {"retry"}, MaxTasks <- 3, MaxRepairs <- 1, None <- None
Windows == INSTANCE ScheduleWindow WITH
    Issues <- {a1}, Requests <- {b1}, NoReq <- None, MaxTasks <- 3,
    MaxTime <- 2, SlotMax <- 2, MaxMoves <- 1, Legacy <- FALSE,
    Kits <- {"ok"}, tasks <- windowTasks, owner <- windowOwner,
    kit <- windowKit, now <- windowNow, rowLock <- windowRowLock,
    slotLock <- windowSlotLock, req <- windowReq, moves <- windowMoves,
    revived <- windowRevived
Context == INSTANCE ScheduleWindow WITH
    Issues <- {a1}, Requests <- {b1}, NoReq <- None, MaxTasks <- 3,
    MaxTime <- 1, SlotMax <- 2, MaxMoves <- 1, Legacy <- TRUE,
    Kits <- {"ok", "missing", "broken"}, tasks <- windowTasks,
    owner <- windowOwner, kit <- windowKit, now <- windowNow,
    rowLock <- windowRowLock, slotLock <- windowSlotLock, req <- windowReq,
    moves <- windowMoves, revived <- windowRevived
CiRuns == INSTANCE CiFailures WITH
    Pipelines <- {1}, Requests <- {b1, b2}, Redelivery <- TRUE,
    Classes <- {"code", "soft"}, MaxRetries <- 1, MaxAttempts <- 1,
    MaxFaults <- 1, MaxCrashes <- 1, MaxUserTasks <- 0, Limit <- 2,
    Verified <- TRUE, row <- ciRow, req <- ciReq, tasks <- ciTasks,
    issue <- ciIssue
CiBudget == INSTANCE CiFailures WITH
    Pipelines <- {1, 2}, Requests <- {b1, b2}, Redelivery <- TRUE,
    Classes <- {"code"}, MaxRetries <- 0, MaxAttempts <- 1, MaxFaults <- 1,
    MaxCrashes <- 0, MaxUserTasks <- 1, Limit <- 2, Verified <- TRUE,
    row <- ciRow, req <- ciReq, tasks <- ciTasks, issue <- ciIssue
Setup == INSTANCE ProjectWebhook WITH
    Setups <- {a1, a2}, MaxRotations <- 1, row <- webhookRow

ProfileInit ==
    /\ IdentityOff /\ ScheduleOff /\ WindowOff /\ CiOff /\ WebhookOff
    /\ \/ scenario = "profile_verification" /\ Verification!Init
       \/ scenario = "profile_service" /\ Service!Init
ProfileOnly == UNCHANGED <<scenario, identityVars, scheduleVars, windowVars,
                                     ciVars, webhookVars>>
VerificationStep == scenario = "profile_verification" /\ Verification!Next /\ ProfileOnly
ServiceStep == scenario = "profile_service" /\ Service!Next /\ ProfileOnly

IdentityInit ==
    /\ ProfileOff /\ ScheduleOff /\ WindowOff /\ CiOff /\ WebhookOff
    /\ \/ scenario = "task_contract" /\ Contract!Init
       \/ scenario = "task_lineage" /\ Lineage!Init
IdentityOnly == UNCHANGED <<scenario, profileVars, scheduleVars, windowVars,
                                      ciVars, webhookVars>>
ContractStep == scenario = "task_contract" /\ Contract!Next /\ IdentityOnly
LineageStep == scenario = "task_lineage" /\ Lineage!Next /\ IdentityOnly

ScheduleInit ==
    /\ ProfileOff /\ IdentityOff /\ WindowOff /\ CiOff /\ WebhookOff
    /\ scenario = "schedule_slots" /\ Init
ScheduleOnly == UNCHANGED <<scenario, profileVars, identityVars, windowVars,
                                      ciVars, webhookVars>>
BookingsStep == scenario = "schedule_slots" /\ Next /\ ScheduleOnly

WindowInit ==
    /\ ProfileOff /\ IdentityOff /\ ScheduleOff /\ CiOff /\ WebhookOff
    /\ \/ scenario = "schedule_window" /\ Windows!Init
       \/ scenario = "schedule_context" /\ Context!Init
WindowOnly == UNCHANGED <<scenario, profileVars, identityVars, scheduleVars,
                                    ciVars, webhookVars>>
WindowsStep == scenario = "schedule_window" /\ Windows!Next /\ WindowOnly
ContextStep == scenario = "schedule_context" /\ Context!Next /\ WindowOnly

CiInit ==
    /\ ProfileOff /\ IdentityOff /\ ScheduleOff /\ WindowOff /\ WebhookOff
    /\ \/ scenario = "ci_runs" /\ CiRuns!Init
       \/ scenario = "ci_budget" /\ CiBudget!Init
CiOnly == UNCHANGED <<scenario, profileVars, identityVars, scheduleVars,
                                windowVars, webhookVars>>
CiRunsStep == scenario = "ci_runs" /\ CiRuns!Next /\ CiOnly
CiBudgetStep == scenario = "ci_budget" /\ CiBudget!Next /\ CiOnly

WebhookInit ==
    /\ ProfileOff /\ IdentityOff /\ ScheduleOff /\ WindowOff /\ CiOff
    /\ scenario = "webhook_setup" /\ Setup!Init
WebhookOnly == UNCHANGED <<scenario, profileVars, identityVars, scheduleVars,
                                     windowVars, ciVars>>
SetupStep == scenario = "webhook_setup" /\ Setup!Next /\ WebhookOnly

AdmissionInit == ProfileInit \/ IdentityInit \/ ScheduleInit \/ WindowInit \/
                 CiInit \/ WebhookInit
AdmissionNext == VerificationStep \/ ServiceStep \/ ContractStep \/
                 LineageStep \/ BookingsStep \/ WindowsStep \/ ContextStep \/
                 CiRunsStep \/ CiBudgetStep \/ SetupStep

AdmissionSpec == AdmissionInit /\ [][AdmissionNext]_admissionVars

ASSUME Bounds ==
    /\ Verification!ProfileAssumption /\ Service!ProfileAssumption
    /\ Contract!IdentityAssumption /\ Lineage!IdentityAssumption
    /\ Windows!ScheduleAssumption /\ Context!ScheduleAssumption
    /\ CiRuns!CiAssumption /\ CiBudget!CiAssumption /\ Setup!WebhookAssumption

-----------------------------------------------------------------------------
(* Properties                                                              *)

(* The bookings of an Issue follow its turn order, the window accepts      *)
(* exactly the times that keep it so, and what a response gives as the     *)
(* reason to wait is what the scheduler waits for (issue_task_order,       *)
(* _promote_due_heads).                                                    *)
BookingsInTurnOrder ==
    /\ scenario = "schedule_window" =>
           /\ Windows!TypeOK
           /\ Windows!ReservationsInTurnOrder
           /\ Windows!WindowIsExact
    /\ scenario = "schedule_context" =>
           /\ Context!TypeOK
           /\ Context!ContextExplainsWaiting

(* What a task freezes was proved before and is what runs: snapshots carry *)
(* evidence of their inputs, a created Issue has a worker that serves it,  *)
(* one profile is the enabled default; the identity of a task runs whole,  *)
(* its writers freeze it, and a turn resumes the newest one of its         *)
(* lineage, which never forks. A verification that ends without a          *)
(* conclusion leaves the stored evidence, and of two the newer one stays   *)
(* (worker_profiles, task_execution_identity).                             *)
FrozenIdentityHolds ==
    /\ [](/\ scenario = "profile_verification" =>
                 /\ Verification!TypeOK
                 /\ Verification!SnapshotsWereProved
          /\ scenario = "profile_service" =>
                 /\ Service!TypeOK
                 /\ Service!CreatedIssuesServed
                 /\ Service!OneEnabledDefault
          /\ scenario = "task_contract" =>
                 /\ Contract!TypeOK
                 /\ Contract!RunsWholeIdentity
                 /\ Contract!WritersFreezeIdentity
          /\ scenario = "task_lineage" =>
                 /\ Lineage!TypeOK
                 /\ Lineage!ResumesNewestTurn
                 /\ Lineage!LineageNeverForks)
    /\ [][scenario = "profile_verification" =>
              /\ Verification!EvidenceSurvivesAttempts
              /\ Verification!NewestVerificationWins]_admissionVars

(* A failed pipeline gets one repair task and an Issue no more than its    *)
(* budget, across redeliveries, crashes and retries; a webhook set up by   *)
(* several requests delivers with the secret it stored                     *)
(* (ci_failure_collector, project_webhooks).                               *)
RepairsWithinBudget ==
    /\ scenario = "ci_runs" =>
           /\ CiRuns!TypeOK
           /\ CiRuns!NoDuplicateRepair
    /\ scenario = "ci_budget" =>
           /\ CiBudget!TypeOK
           /\ CiBudget!BudgetKept
    /\ scenario = "webhook_setup" =>
           /\ Setup!TypeOK
           /\ Setup!SetupDelivers
=============================================================================
