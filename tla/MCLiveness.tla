---------------------------- MODULE MCLiveness ----------------------------
(***************************************************************************)
(* What must eventually happen, one small instance per component.  A       *)
(* behaviour is one of the instances below; the variables of the others    *)
(* are Off.                                                                *)
(***************************************************************************)
EXTENDS Naturals, FiniteSets

VARIABLES scenario,   \* which of the instances below runs
          \* CommandPlane
          commandTask, commandGate, cmds, pending, forceClose, puts, evts,
          frameFile, clients, replies, owner, requests, responses, natives,
          turn, turnQueue, begun, pump, mem, staleLease,
          \* RuntimeReadiness
          kit, readinessRow, check, readinessTask, readinessGate, starts, why,
          readinessSeen,
          \* CiFailures
          ciPipe, ciRow, req, tasks, ciIssue, col, used,
          \* IssueRemoval
          removalIssue, tried, holder, removalTask, cont, thread, dir, rem,
          ret, stats, lost,
          \* AttemptShell
          sh, shellStream, result, tmp, adapter, proxy, shellMarker, stop,
          archive,
          \* ClaudeRunner
          pc, run, group, forked, claudePipe, lines, worked, finished,
          claudeStream, claudeSeen, resultFile, watchdog, translator, exit,
          \* OpenCodeBridge
          phase, rc, admitted, bridgeMarker, tools, probed, terminal, ended,
          command, conn, bridgeStream, server, stopped, abort, owed,
          bridgePipe, closed, xlat

commandVars == <<commandTask, commandGate, cmds, pending, forceClose, puts,
                 evts, frameFile, clients, replies, owner, requests,
                 responses, natives, turn, turnQueue, begun, pump, mem,
                 staleLease>>
readinessVars == <<kit, readinessRow, check, readinessTask, readinessGate,
                   starts, why, readinessSeen>>
ciVars == <<ciPipe, ciRow, req, tasks, ciIssue, col, used>>
removalVars == <<removalIssue, tried, holder, removalTask, cont, thread, dir,
                 rem, ret, stats, lost>>
shellVars == <<sh, shellStream, result, tmp, adapter, proxy, shellMarker,
               stop, archive>>
claudeVars == <<pc, run, group, forked, claudePipe, lines, worked, finished,
                claudeStream, claudeSeen, resultFile, watchdog, translator,
                exit>>
bridgeVars == <<phase, rc, admitted, bridgeMarker, tools, probed, terminal,
                ended, command, conn, bridgeStream, server, stopped, abort,
                owed, bridgePipe, closed, xlat>>
vars == <<scenario, commandVars, readinessVars, ciVars, removalVars,
          shellVars, claudeVars, bridgeVars>>

Off == "off"
CommandOff ==
    /\ commandTask = Off /\ commandGate = Off /\ cmds = Off /\ pending = Off
    /\ forceClose = Off /\ puts = Off /\ evts = Off /\ frameFile = Off
    /\ clients = Off /\ replies = Off /\ owner = Off /\ requests = Off
    /\ responses = Off /\ natives = Off /\ turn = Off /\ turnQueue = Off
    /\ begun = Off /\ pump = Off /\ mem = Off /\ staleLease = Off
ReadinessOff ==
    /\ kit = Off /\ readinessRow = Off /\ check = Off /\ readinessTask = Off
    /\ readinessGate = Off /\ starts = Off /\ why = Off /\ readinessSeen = Off
CiOff ==
    /\ ciPipe = Off /\ ciRow = Off /\ req = Off /\ tasks = Off
    /\ ciIssue = Off /\ col = Off /\ used = Off
RemovalOff ==
    /\ removalIssue = Off /\ tried = Off /\ holder = Off /\ removalTask = Off
    /\ cont = Off /\ thread = Off /\ dir = Off /\ rem = Off /\ ret = Off
    /\ stats = Off /\ lost = Off
ShellOff ==
    /\ sh = Off /\ shellStream = Off /\ result = Off /\ tmp = Off
    /\ adapter = Off /\ proxy = Off /\ shellMarker = Off /\ stop = Off
    /\ archive = Off
ClaudeOff ==
    /\ pc = Off /\ run = Off /\ group = Off /\ forked = Off
    /\ claudePipe = Off /\ lines = Off /\ worked = Off /\ finished = Off
    /\ claudeStream = Off /\ claudeSeen = Off /\ resultFile = Off
    /\ watchdog = Off /\ translator = Off /\ exit = Off
BridgeOff ==
    /\ phase = Off /\ rc = Off /\ admitted = Off /\ bridgeMarker = Off
    /\ tools = Off /\ probed = Off /\ terminal = Off /\ ended = Off
    /\ command = Off /\ conn = Off /\ bridgeStream = Off /\ server = Off
    /\ stopped = Off /\ abort = Off /\ owed = Off /\ bridgePipe = Off
    /\ closed = Off /\ xlat = Off

-----------------------------------------------------------------------------
(* The instances, each with its bounds.                                    *)

Commands == INSTANCE CommandPlane WITH
    Ids <- {"c1"}, MaxPuts <- 2, MaxRestarts <- 0, task <- commandTask,
    gate <- commandGate
Readiness == INSTANCE RuntimeReadiness WITH
    GateCheck <- "sched", NoTask <- "none", Tasks <- {"t1", "t2"},
    V1Tasks <- {"t1"}, Admins <- {"a1"},
    KitStates <- {"ok", "gone"}, DeclaresV2 <- TRUE, MaxKits <- 2,
    MaxStarts <- 2, row <- readinessRow, task <- readinessTask,
    gate <- readinessGate, seen <- readinessSeen
Ci == INSTANCE CiFailures WITH
    Pipelines <- {1, 2}, Requests <- {"r1"}, Redelivery <- FALSE,
    Classes <- {"code"}, MaxRetries <- 0, MaxAttempts <- 1, MaxFaults <- 1,
    MaxCrashes <- 1, MaxUserTasks <- 0, Limit <- 2, Verified <- TRUE,
    pipe <- ciPipe, row <- ciRow, issue <- ciIssue
Removal == INSTANCE IssueRemoval WITH
    Issues <- {1, 2}, Requests <- {}, Kinds <- {}, Broken <- {1},
    MaxTasks <- 2, Batch <- 1, issue <- removalIssue, task <- removalTask
Shell == INSTANCE AttemptShell WITH
    ResultFirst <- TRUE, Options <- FALSE, Identity <- FALSE,
    PushErrors <- TRUE, LateStops <- TRUE, stream <- shellStream,
    marker <- shellMarker
Claude == INSTANCE ClaudeRunner WITH
    Resume <- FALSE, Deaf <- {"heir"}, MaxPipe <- 2, MaxLines <- 3,
    Breakable <- TRUE, pipe <- claudePipe, stream <- claudeStream,
    seen <- claudeSeen
Bridge == INSTANCE OpenCodeBridge WITH
    Kids <- {}, Strangers <- {}, Chunks <- 1, UseCommand <- TRUE,
    Legacy <- TRUE, marker <- bridgeMarker, stream <- bridgeStream,
    pipe <- bridgePipe

CommandInit ==
    /\ ReadinessOff /\ CiOff /\ RemovalOff /\ ShellOff /\ ClaudeOff
    /\ BridgeOff
    /\ scenario = "command_queue_moves" /\ Commands!Init
CommandOnly == UNCHANGED <<scenario, readinessVars, ciVars, removalVars,
                                     shellVars, claudeVars, bridgeVars>>
CommandsStep == scenario = "command_queue_moves" /\ Commands!Next /\ CommandOnly

ReadinessInit ==
    /\ CommandOff /\ CiOff /\ RemovalOff /\ ShellOff /\ ClaudeOff /\ BridgeOff
    /\ scenario = "readiness_progress" /\ Readiness!Init
ReadinessOnly == UNCHANGED <<scenario, commandVars, ciVars, removalVars,
                                       shellVars, claudeVars, bridgeVars>>
ReadinessStep == scenario = "readiness_progress" /\ Readiness!Next /\ ReadinessOnly

CiInit ==
    /\ CommandOff /\ ReadinessOff /\ RemovalOff /\ ShellOff /\ ClaudeOff
    /\ BridgeOff
    /\ scenario = "ci_settles" /\ Ci!Init
CiOnly == UNCHANGED <<scenario, commandVars, readinessVars, removalVars,
                                shellVars, claudeVars, bridgeVars>>
CiStep == scenario = "ci_settles" /\ Ci!Next /\ CiOnly

RemovalInit ==
    /\ CommandOff /\ ReadinessOff /\ CiOff /\ ShellOff /\ ClaudeOff
    /\ BridgeOff
    /\ scenario = "removal_retention" /\ Removal!Init
RemovalOnly == UNCHANGED <<scenario, commandVars, readinessVars, ciVars,
                                     shellVars, claudeVars, bridgeVars>>
RemovalStep == scenario = "removal_retention" /\ Removal!Next /\ RemovalOnly

ShellInit ==
    /\ CommandOff /\ ReadinessOff /\ CiOff /\ RemovalOff /\ ClaudeOff
    /\ BridgeOff
    /\ scenario = "attempt_ends" /\ Shell!Init
ShellOnly == UNCHANGED <<scenario, commandVars, readinessVars, ciVars,
                                   removalVars, claudeVars, bridgeVars>>
ShellStep == scenario = "attempt_ends" /\ Shell!Next /\ ShellOnly

ClaudeInit ==
    /\ CommandOff /\ ReadinessOff /\ CiOff /\ RemovalOff /\ ShellOff
    /\ BridgeOff
    /\ scenario = "claude_ends" /\ Claude!Init
ClaudeOnly == UNCHANGED <<scenario, commandVars, readinessVars, ciVars,
                                    removalVars, shellVars, bridgeVars>>
ClaudeStep == scenario = "claude_ends" /\ Claude!Next /\ ClaudeOnly

BridgeInit ==
    /\ CommandOff /\ ReadinessOff /\ CiOff /\ RemovalOff /\ ShellOff
    /\ ClaudeOff
    /\ scenario = "opencode_ends" /\ Bridge!Init
BridgeOnly == UNCHANGED <<scenario, commandVars, readinessVars, ciVars,
                                    removalVars, shellVars, claudeVars>>
BridgeStep == scenario = "opencode_ends" /\ Bridge!Next /\ BridgeOnly

Init == CommandInit \/ ReadinessInit \/ CiInit \/ RemovalInit \/ ShellInit \/
        ClaudeInit \/ BridgeInit
Next == CommandsStep \/ ReadinessStep \/ CiStep \/ RemovalStep \/ ShellStep \/
        ClaudeStep \/ BridgeStep

Spec == Init /\ [][Next]_vars

ASSUME Bounds ==
    /\ Readiness!ReadinessAssumption /\ Ci!CiAssumption
    /\ Removal!RemovalAssumption /\ Shell!FlagsAreBoolean
    /\ Claude!ParametersInRange

-----------------------------------------------------------------------------
(* Fairness.  The scenario never changes, so fairness of a disjunction of  *)
(* actions of different instances is fairness of the one that runs: each   *)
(* line below is one fairness condition of each module's FairSpec.         *)

OfCommands(A) == scenario = "command_queue_moves" /\ A /\ scenario' = scenario
OfReadiness(A) == scenario = "readiness_progress" /\ A /\ scenario' = scenario
OfCi(A) == scenario = "ci_settles" /\ A /\ scenario' = scenario
OfRemoval(A) == scenario = "removal_retention" /\ A /\ scenario' = scenario
OfShell(A) == scenario = "attempt_ends" /\ A /\ scenario' = scenario
OfClaude(A) == scenario = "claude_ends" /\ A /\ scenario' = scenario
OfBridge(A) == scenario = "opencode_ends" /\ A /\ scenario' = scenario

(* The variables of the instance that runs: the others never change.       *)
active ==
    CASE scenario = "command_queue_moves" -> commandVars
      [] scenario = "readiness_progress" -> readinessVars
      [] scenario = "ci_settles" -> ciVars
      [] scenario = "removal_retention" -> removalVars
      [] scenario = "attempt_ends" -> shellVars
      [] scenario = "claude_ends" -> claudeVars
      [] scenario = "opencode_ends" -> bridgeVars

Weak1 == \/ OfCommands(Commands!Pump) \/ OfReadiness(Readiness!CheckStep("sched"))
         \/ OfCi(Ci!Collector)
         \/ OfRemoval(Removal!Retention) \/ OfShell(Shell!Shell)
         \/ OfClaude(Claude!Runner) \/ OfBridge(Bridge!BridgeStep)
Weak2 == \/ OfCommands(Commands!Projection) \/ OfReadiness(Readiness!CheckStep("a1"))
         \/ OfCi(Ci!LockExpires)
         \/ OfShell(Shell!AdapterTimesOut /\ sh.pc = "adapter")
         \/ OfBridge(Bridge!TranslatorReads)
Weak3 == \/ OfCommands(Commands!Clients) \/ OfReadiness(Readiness!PromoteDueHead("t1"))
         \/ OfBridge(Bridge!Say)
Weak4 == \/ OfCommands(Commands!Owner) \/ OfReadiness(Readiness!PromoteDueHead("t2"))
         \/ OfBridge(Bridge!TurnEnds)
Weak5 == \/ OfCommands(Commands!LeaseExpires) \/ OfReadiness(Readiness!GateBegins)
         \/ OfBridge(Bridge!CommandAnswers)
Weak6 == OfReadiness(Readiness!GateAnswers) \/ OfBridge(Bridge!Heartbeat)
Strong1 == \/ OfReadiness(Readiness!GateDecides("t1")) \/ OfRemoval(Removal!Retire(1))
Strong2 == \/ OfReadiness(Readiness!GateDecides("t2")) \/ OfRemoval(Removal!Retire(2))

FairSpec ==
    /\ Spec
    /\ WF_active(Weak1) /\ WF_active(Weak2) /\ WF_active(Weak3)
    /\ WF_active(Weak4) /\ WF_active(Weak5) /\ WF_active(Weak6)
    /\ SF_active(Strong1) /\ SF_active(Strong2)

-----------------------------------------------------------------------------
(* Liveness                                                                *)

(* Every admitted command gets its final status, unless the queue waits    *)
(* for the turn of a follow-up Pi acknowledged while draining              *)
(* (pi_command_pump); PUTs that race for one id leave one row              *)
(* (create_command).                                                       *)
QueueMoves ==
    /\ [](scenario = "command_queue_moves" => Commands!OneRowPerId)
    /\ (scenario = "command_queue_moves" /\ 1 \in Commands!Live)
          ~> (scenario = "command_queue_moves" /\ (1 \notin Commands!Live \/ pending # 0))

(* Once the row of its level stays ready, a waiting task is claimed:       *)
(* parked tasks are promoted again and the gate lets them through          *)
(* (_promote_due_heads, _apply_runtime_readiness_gate).                    *)
ReadyTasksRun ==
    \A t \in {"t1", "t2"} :
        <>[](/\ scenario = "readiness_progress"
             /\ readinessRow[Readiness!Scope(t)].status = "ready"
             /\ readinessRow[Readiness!Scope(t)].has)
            => <>[](/\ scenario = "readiness_progress"
                    /\ readinessTask[t] \notin {"PENDING", "QUEUED"})

(* Every run the webhook queued is settled in the end: a claim lost with   *)
(* its process, or dropped with a batch that an error ended, is taken      *)
(* again when its lock is stale (ci_failure_collector.py).                 *)
RunsSettle ==
    \A p \in {1, 2} :
        (scenario = "ci_settles" /\ ciRow[p].st = "collecting")
            ~> (scenario = "ci_settles" /\ ciRow[p].st # "collecting")

(* A workspace past its retention on a daemon that answers is removed      *)
(* unless it is used or deleted before, although another Issue's removal   *)
(* fails every time (order by workspace_delete_attempted_at, nulls first). *)
RetentionReaches ==
    (scenario = "removal_retention" /\ Removal!Stale(2) /\ ~Removal!Busy(2))
        ~> (/\ scenario = "removal_retention"
            /\ removalIssue[2].wsDeleted \/ ~Removal!Stale(2) \/ Removal!Busy(2))

(* Queued work is worked off: commands, repairs and expired workspaces,    *)
(* whichever of their carriers fails on the way.                           *)
WorkSettles == QueueMoves /\ RunsSettle /\ RetentionReaches

(* Every attempt ends: the shell although the stopped adapter's processes  *)
(* never do, since the console drain is bounded                            *)
(* (codify_drain_console_tee); the OpenCode bridge although the stream is  *)
(* lost or ends, the command or the status request fails or the translator *)
(* leaves first, as long as a living server answers; the Claude runner     *)
(* without the outer timeout once there is a result, although the CLI      *)
(* hangs, keeps writing or leaves descendants that hold the pipe           *)
(* (watch_final_result_shutdown).                                          *)
AttemptsEnd ==
    (\/ scenario \in {"attempt_ends", "opencode_ends"}
     \/ scenario = "claude_ends" /\ resultFile)
        ~> (\/ scenario = "attempt_ends" /\ sh.pc \in {"ended", "killed"}
            \/ scenario = "opencode_ends" /\ phase = "done"
            \/ scenario = "claude_ends" /\ pc = "ended")
=============================================================================
