----------------------------- MODULE MCRecords -----------------------------
(***************************************************************************)
(* What the backend keeps within its limits and repairs: the slots of the  *)
(* scheduler over two Issues, Skill package versions, turn numbers and     *)
(* lineage across the upgrade, the limit a task runs under, and the        *)
(* removal of Issues and workspaces.  They meet only through rows that     *)
(* each of the modules holds itself, so a behaviour is one of the          *)
(* instances below; the variables of the others are Off, and the Issues of *)
(* IssueRemoval stay in their initial state.                               *)
(***************************************************************************)
EXTENDS IssueRemoval

VARIABLES scenario,   \* which of the instances below runs
          \* IssueQueue
          status, due, cancelRequested, containerRef, logsFinal, lock,
          container, runningTasks, runningIssues, blockedIssues, worker,
          phase, candidate, snapshot, cancelCall, rescheduleCall, crashes,
          requests,
          \* SkillPackages
          skill, version, built, sel, skillTask, adv, rowLock, plock, ed, sl,
          \* LineageRepair
          lineageRows, lineage, migrated, refused,
          \* TaskTimeout
          clock, policy, row, stopAt, restarts, chosen,
          \* IssueRemoval
          forcedIssue, forcedTried, forcedHolder, forcedTask, forcedCont,
          forcedThread, forcedDir, forcedRem, forcedRet, forcedStats,
          forcedLost

queueVars == <<status, due, cancelRequested, containerRef, logsFinal, lock,
               container, runningTasks, runningIssues, blockedIssues, worker,
               phase, candidate, snapshot, cancelCall, rescheduleCall,
               crashes, requests>>
skillVars == <<skill, version, built, sel, skillTask, adv, rowLock, plock, ed,
               sl>>
lineageVars == <<lineageRows, lineage, migrated, refused>>
timeoutVars == <<clock, policy, row, stopAt, restarts, chosen>>
removalVars == <<issue, tried, holder, task, cont, thread, dir, rem, ret, stats, lost>>
forcedVars == <<forcedIssue, forcedTried, forcedHolder, forcedTask,
                forcedCont, forcedThread, forcedDir, forcedRem, forcedRet,
                forcedStats, forcedLost>>
recordsVars == <<scenario, queueVars, skillVars, lineageVars, timeoutVars,
                 removalVars, forcedVars>>

Off == "off"
QueueOff ==
    /\ status = Off /\ due = Off /\ cancelRequested = Off
    /\ containerRef = Off /\ logsFinal = Off /\ lock = Off /\ container = Off
    /\ runningTasks = Off /\ runningIssues = Off /\ blockedIssues = Off
    /\ worker = Off /\ phase = Off /\ candidate = Off /\ snapshot = Off
    /\ cancelCall = Off /\ rescheduleCall = Off /\ crashes = Off
    /\ requests = Off
SkillOff ==
    /\ skill = Off /\ version = Off /\ built = Off /\ sel = Off
    /\ skillTask = Off /\ adv = Off /\ rowLock = Off /\ plock = Off
    /\ ed = Off /\ sl = Off
LineageOff ==
    /\ lineageRows = Off /\ lineage = Off /\ migrated = Off /\ refused = Off
TimeoutOff ==
    /\ clock = Off /\ policy = Off /\ row = Off /\ stopAt = Off
    /\ restarts = Off /\ chosen = Off
RemovalOff == Init
ForcedOff ==
    /\ forcedIssue = Off /\ forcedTried = Off /\ forcedHolder = Off
    /\ forcedTask = Off /\ forcedCont = Off /\ forcedThread = Off
    /\ forcedDir = Off /\ forcedRem = Off /\ forcedRet = Off
    /\ forcedStats = Off /\ forcedLost = Off

-----------------------------------------------------------------------------
(* The instances, each with its bounds.                                    *)

Slots == INSTANCE IssueQueue WITH
    Tasks <- {1, 2}, Issues <- {1, 2}, IssueOf <- [t \in {1, 2} |-> t],
    MaxConcurrency <- 1, MaxCrashes <- 0, MaxRequests <- 0,
    FreshReads <- TRUE, LosesFailures <- FALSE
Versions == INSTANCE SkillPackages WITH
    Names <- {"x", "y"}, Limit <- 3, MaxVersions <- 2, Skills <- {"s1"},
    Sizes <- {1}, Profiles <- {"p"}, Editors <- {"e1"}, Selectors <- {"c1"},
    MaxTasks <- 2, task <- skillTask
Selection == INSTANCE SkillPackages WITH
    Names <- {"x", "y"}, Limit <- 3, MaxVersions <- 2, Skills <- {"s1", "s2"},
    Sizes <- {2}, Profiles <- {"p"}, Editors <- {"e1"}, Selectors <- {"c1"},
    MaxTasks <- 1, task <- skillTask
SizeLimits == INSTANCE SkillPackages WITH
    Names <- {"x", "y"}, Limit <- 3, MaxVersions <- 3, Skills <- {"s1", "s2"},
    Sizes <- {1, 2}, Profiles <- {"p", "q"}, Editors <- {"e1", "e2"},
    Selectors <- {}, MaxTasks <- 0, task <- skillTask
Upgrade == INSTANCE LineageRepair WITH
    Namespaces <- {"claude", "codex"}, MaxRows <- 3, StrayActive <- TRUE,
    rows <- lineageRows
Timeout == INSTANCE TaskTimeout WITH
    Tps <- 2, Day <- 3, Offset <- 1, Limits <- 0..3, MinLimit <- 1,
    MaxLimit <- 2, Horizon <- 6, MaxRestarts <- 1
Force == INSTANCE IssueRemoval WITH
    Issues <- {1}, Requests <- {"a"}, Kinds <- {"force", "cleanup"},
    Broken <- {}, MaxTasks <- 3, Batch <- 1, issue <- forcedIssue,
    tried <- forcedTried, holder <- forcedHolder, task <- forcedTask,
    cont <- forcedCont, thread <- forcedThread, dir <- forcedDir,
    rem <- forcedRem, ret <- forcedRet, stats <- forcedStats,
    lost <- forcedLost

QueueInit ==
    /\ SkillOff /\ LineageOff /\ TimeoutOff /\ RemovalOff /\ ForcedOff
    /\ scenario = "slots" /\ Slots!Init
QueueOnly == UNCHANGED <<scenario, skillVars, lineageVars, timeoutVars,
                                   removalVars, forcedVars>>
SlotsStep == scenario = "slots" /\ Slots!Next /\ QueueOnly

SkillInit ==
    /\ QueueOff /\ LineageOff /\ TimeoutOff /\ RemovalOff /\ ForcedOff
    /\ \/ scenario = "skill_versions" /\ Versions!Init
       \/ scenario = "skill_selection" /\ Selection!Init
       \/ scenario = "skill_limits" /\ SizeLimits!Init
SkillOnly == UNCHANGED <<scenario, queueVars, lineageVars, timeoutVars,
                                   removalVars, forcedVars>>
VersionsStep == scenario = "skill_versions" /\ Versions!Next /\ SkillOnly
SelectionStep == scenario = "skill_selection" /\ Selection!Next /\ SkillOnly
SizeLimitsStep == scenario = "skill_limits" /\ SizeLimits!Next /\ SkillOnly

LineageInit ==
    /\ QueueOff /\ SkillOff /\ TimeoutOff /\ RemovalOff /\ ForcedOff
    /\ scenario = "lineage_upgrade" /\ Upgrade!Init
LineageOnly == UNCHANGED <<scenario, queueVars, skillVars, timeoutVars,
                                     removalVars, forcedVars>>
UpgradeStep == scenario = "lineage_upgrade" /\ Upgrade!Next /\ LineageOnly

TimeoutInit ==
    /\ QueueOff /\ SkillOff /\ LineageOff /\ RemovalOff /\ ForcedOff
    /\ scenario = "task_timeout" /\ Timeout!Init
TimeoutOnly == UNCHANGED <<scenario, queueVars, skillVars, lineageVars,
                                     removalVars, forcedVars>>
TimeoutStep == scenario = "task_timeout" /\ Timeout!Next /\ TimeoutOnly

RemovalInit ==
    /\ QueueOff /\ SkillOff /\ LineageOff /\ TimeoutOff /\ ForcedOff
    /\ scenario = "removal_plain" /\ Init
RemovalOnly == UNCHANGED <<scenario, queueVars, skillVars, lineageVars,
                                     timeoutVars, forcedVars>>
PlainStep == scenario = "removal_plain" /\ Next /\ RemovalOnly

ForcedInit ==
    /\ QueueOff /\ SkillOff /\ LineageOff /\ TimeoutOff /\ RemovalOff
    /\ scenario = "removal_force" /\ Force!Init
ForcedOnly == UNCHANGED <<scenario, queueVars, skillVars, lineageVars,
                                    timeoutVars, removalVars>>
ForceStep == scenario = "removal_force" /\ Force!Next /\ ForcedOnly

RecordsInit == QueueInit \/ SkillInit \/ LineageInit \/ TimeoutInit \/
               RemovalInit \/ ForcedInit
RecordsNext == SlotsStep \/ VersionsStep \/ SelectionStep \/ SizeLimitsStep \/
               UpgradeStep \/ TimeoutStep \/ PlainStep \/ ForceStep

RecordsSpec == RecordsInit /\ [][RecordsNext]_recordsVars

ASSUME Bounds ==
    /\ Versions!SkillAssumption /\ Selection!SkillAssumption
    /\ SizeLimits!SkillAssumption /\ Upgrade!LineageAssumption
    /\ Timeout!TimeoutAssumption /\ Force!RemovalAssumption

-----------------------------------------------------------------------------
(* Properties                                                              *)

(* What was written once stays readable: the Skill versions a task froze,  *)
(* also across selections and edits that overlap; the turn numbers and     *)
(* lineages of Issues across the upgrade and its repairs, one lineage per  *)
(* generation, owned by its session; and the archived statistics of a      *)
(* deleted Issue are those of its tasks at the moment their rows go        *)
(* (core/skills, issue_task_order, issue_harness_sessions,                 *)
(* system_statistics_deletion).                                            *)
HistoryReadable ==
    /\ [](/\ scenario = "skill_versions" =>
                 /\ Versions!TypeOK
                 /\ Versions!FrozenReadable
          /\ scenario = "skill_selection" =>
                 /\ Selection!TypeOK
                 /\ Selection!FrozenReadable
          /\ scenario = "lineage_upgrade" =>
                 /\ Upgrade!TypeOK
                 /\ Upgrade!SequenceIsRank
                 /\ Upgrade!RepairMirrorsMigration
                 /\ Upgrade!GenerationHasOneLineage
                 /\ Upgrade!LineageOwnsSession)
    /\ [][scenario = "removal_force" => Force!StatisticsExact]_recordsVars

(* No limit is passed, whatever overlaps: slots of the scheduler over two  *)
(* Issues, package sizes of a profile, and the limit of a task, which is   *)
(* frozen at its start, follows the peak hours exactly and is kept over    *)
(* restarts (scheduler, core/skills, task_timeout).                        *)
LimitsKept ==
    /\ scenario = "slots" => Slots!ConcurrencyBounded
    /\ scenario = "skill_limits" =>
           /\ SizeLimits!TypeOK
           /\ SizeLimits!ProfileWithinLimit
    /\ scenario = "task_timeout" =>
           /\ Timeout!TypeOK
           /\ Timeout!PeakIsTheWalk
           /\ Timeout!LimitIsFrozen
           /\ Timeout!DeadlineKept
=============================================================================
