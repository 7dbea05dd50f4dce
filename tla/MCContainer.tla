---------------------------- MODULE MCContainer ----------------------------
(***************************************************************************)
(* What runs in and for one worker container: the attempt shell, the two   *)
(* harness runners with a life of their own (the Claude runner, the        *)
(* OpenCode bridge), Git preparation and delivery, the Worker Kit that is  *)
(* mounted into it and the readiness gate in front of that Kit.  A         *)
(* behaviour is one of the instances below; the variables of the others    *)
(* are Off, and the readiness rows stay in their initial state.            *)
(***************************************************************************)
EXTENDS RuntimeReadiness, Sequences, TLC

VARIABLES scenario,   \* which of the instances below runs
          \* AttemptShell
          sh, shellStream, result, tmp, adapter, proxy, shellMarker, stop,
          shellArchive,
          \* ClaudeRunner
          claudePc, run, group, forked, claudePipe, lines, worked, finished,
          claudeStream, claudeSeen, resultFile, watchdog, translator,
          claudeExit,
          \* OpenCodeBridge
          bridgePhase, rc, admitted, bridgeMarker, tools, probed, terminal,
          ended, command, conn, bridgeStream, server, stopped, abort, owed,
          bridgePipe, closed, xlat,
          \* GitDelivery
          past, base, remote, ws, receipt, gitPc, refs, pin, attempts, people,
          baseMoves, removed, snap, obs, gitExit, landed, delivered, tips,
          \* KitInstall
          source, manifest, kitArchive, kitPhase, staged, kitKit, damaged

shellVars == <<sh, shellStream, result, tmp, adapter, proxy, shellMarker,
               stop, shellArchive>>
claudeVars == <<claudePc, run, group, forked, claudePipe, lines, worked,
                finished, claudeStream, claudeSeen, resultFile, watchdog,
                translator, claudeExit>>
bridgeVars == <<bridgePhase, rc, admitted, bridgeMarker, tools, probed,
                terminal, ended, command, conn, bridgeStream, server, stopped,
                abort, owed, bridgePipe, closed, xlat>>
gitVars == <<past, base, remote, ws, receipt, gitPc, refs, pin, attempts,
             people, baseMoves, removed, snap, obs, gitExit, landed,
             delivered, tips>>
readinessVars == <<kit, row, check, task, gate, starts, why, seen>>
kitVars == <<source, manifest, kitArchive, kitPhase, staged, kitKit, damaged>>
containerVars == <<scenario, shellVars, claudeVars, bridgeVars, gitVars,
                   readinessVars, kitVars>>

Off == "off"
ShellOff ==
    /\ sh = Off /\ shellStream = Off /\ result = Off /\ tmp = Off
    /\ adapter = Off /\ proxy = Off /\ shellMarker = Off /\ stop = Off
    /\ shellArchive = Off
ClaudeOff ==
    /\ claudePc = Off /\ run = Off /\ group = Off /\ forked = Off
    /\ claudePipe = Off /\ lines = Off /\ worked = Off /\ finished = Off
    /\ claudeStream = Off /\ claudeSeen = Off /\ resultFile = Off
    /\ watchdog = Off /\ translator = Off /\ claudeExit = Off
BridgeOff ==
    /\ bridgePhase = Off /\ rc = Off /\ admitted = Off /\ bridgeMarker = Off
    /\ tools = Off /\ probed = Off /\ terminal = Off /\ ended = Off
    /\ command = Off /\ conn = Off /\ bridgeStream = Off /\ server = Off
    /\ stopped = Off /\ abort = Off /\ owed = Off /\ bridgePipe = Off
    /\ closed = Off /\ xlat = Off
GitOff ==
    /\ past = Off /\ base = Off /\ remote = Off /\ ws = Off /\ receipt = Off
    /\ gitPc = Off /\ refs = Off /\ pin = Off /\ attempts = Off
    /\ people = Off /\ baseMoves = Off /\ removed = Off /\ snap = Off
    /\ obs = Off /\ gitExit = Off /\ landed = Off /\ delivered = Off
    /\ tips = Off
ReadinessOff == Init /\ kit = "ok"
KitOff ==
    /\ source = Off /\ manifest = Off /\ kitArchive = Off /\ kitPhase = Off
    /\ staged = Off /\ kitKit = Off /\ damaged = Off

-----------------------------------------------------------------------------
(* The entries of a Kit's tree, as KitInstall writes them.                 *)

None == [k |-> "none"]
Dir == [k |-> "dir"]
File(c) == [k |-> "file", v |-> c]
Sym(t) == [k |-> "sym", v |-> t]
Hard(t) == [k |-> "hard", v |-> t]

PayloadPath == <<"h", "f">>

(* Paths of the small Kit and what a build may put there. *)
Targets(p) ==
    IF Len(p) = 1
    THEN {<<"h">>, <<"h", "f">>, <<"h", "m">>, <<"l">>, <<"l", "f">>, <<"l", "m">>,
          <<"/", "s">>, <<"..", "h">>}
    ELSE {<<"f">>, <<"..", "l">>, <<"..", "l", "f">>, <<"..", "x">>, <<"/", "s">>,
          <<"..", "..", "x">>}

Contents(p) ==
    CASE p = <<"h">> -> {Dir}
      [] p = <<"h", "f">> -> {File(1), None}
      [] p = <<"h", "m">> -> {None, Hard(<<"h", "f">>)} \cup {Sym(t) : t \in Targets(p)}
      [] p = <<"l">> -> {None} \cup {Sym(t) : t \in Targets(p)}
      [] p = <<"x">> -> {None, File(2)} \cup {Sym(t) : t \in Targets(p)}
      [] p = <<"store">> -> {Dir}
      [] p = <<"store", "s">> -> {None, File(3), Sym(<<"/", "s">>)}

Tree(f, m, l, x, s) ==
    (<<"h">> :> Dir) @@ (<<"h", "f">> :> f) @@ (<<"h", "m">> :> m) @@ (<<"l">> :> l)
      @@ (<<"x">> :> x) @@ (<<"store">> :> Dir) @@ (<<"store", "s">> :> s)

(* The product of the choices. *)
ManyTrees ==
    {Tree(f, m, l, x, s) : f \in Contents(<<"h", "f">>), m \in Contents(<<"h", "m">>),
                           l \in Contents(<<"l">>), x \in Contents(<<"x">>),
                           s \in Contents(<<"store", "s">>)}

FewTrees ==
    {Tree(File(1), m, Sym(<<"h">>), x, File(3)) :
        m \in {None, Hard(<<"h", "f">>), Sym(<<"..", "l", "f">>)},
        x \in {File(2), Sym(<<"l", "m">>), Sym(<<"/", "s">>)}}
      \cup {Tree(None, None, None, x, File(3)) : x \in {File(2), Sym(<<"h">>)}}

FewRepacks ==
    {Tree(File(1), None, Sym(<<"h">>), File(7), File(3)),
     Tree(File(7), None, Sym(<<"h">>), File(2), File(3)),
     Tree(None, None, None, File(2), None)}

-----------------------------------------------------------------------------
(* The instances, each with its bounds.                                    *)

Attempt == INSTANCE AttemptShell WITH
    ResultFirst <- FALSE, Options <- TRUE, Identity <- TRUE,
    PushErrors <- FALSE, LateStops <- FALSE, stream <- shellStream,
    marker <- shellMarker, archive <- shellArchive
ClaudeRun == INSTANCE ClaudeRunner WITH
    Resume <- TRUE, Deaf <- {"cli", "detached"}, MaxPipe <- 2, MaxLines <- 4,
    Breakable <- FALSE, pc <- claudePc, pipe <- claudePipe,
    stream <- claudeStream, seen <- claudeSeen, exit <- claudeExit
Bridge == INSTANCE OpenCodeBridge WITH
    Kids <- {"kid"}, Strangers <- {"other"}, Chunks <- 1, UseCommand <- FALSE,
    Legacy <- FALSE, phase <- bridgePhase, marker <- bridgeMarker,
    stream <- bridgeStream, pipe <- bridgePipe
Publish == INSTANCE GitDelivery WITH
    MaxCommits <- 4, MaxAttempts <- 2, MaxPeople <- 1, MaxBase <- 1,
    Shallow <- FALSE, Unprovable <- {"own", "remote"}, pc <- gitPc,
    exit <- gitExit
Receipt == INSTANCE GitDelivery WITH
    MaxCommits <- 3, MaxAttempts <- 3, MaxPeople <- 1, MaxBase <- 0,
    Shallow <- TRUE, Unprovable <- {"prepare"}, pc <- gitPc, exit <- gitExit
Inventory == INSTANCE KitInstall WITH
    Store <- "store", RootName <- "kit", MaxHops <- 16,
    Payload <- PayloadPath, Nobody <- "nobody", Trees <- ManyTrees,
    Repacks <- {}, Installers <- {"i1"}, archive <- kitArchive,
    phase <- kitPhase, kit <- kitKit
Install == INSTANCE KitInstall WITH
    Store <- "store", RootName <- "kit", MaxHops <- 16,
    Payload <- PayloadPath, Nobody <- "nobody", Trees <- FewTrees,
    Repacks <- FewRepacks, Installers <- {"i1", "i2"}, archive <- kitArchive,
    phase <- kitPhase, kit <- kitKit

ShellInit ==
    /\ ClaudeOff /\ BridgeOff /\ GitOff /\ ReadinessOff /\ KitOff
    /\ scenario = "attempt_end" /\ Attempt!Init
ShellOnly == UNCHANGED <<scenario, claudeVars, bridgeVars, gitVars,
                                   readinessVars, kitVars>>
AttemptStep == scenario = "attempt_end" /\ Attempt!Next /\ ShellOnly

ClaudeInit ==
    /\ ShellOff /\ BridgeOff /\ GitOff /\ ReadinessOff /\ KitOff
    /\ scenario = "claude_run" /\ ClaudeRun!Init
ClaudeOnly == UNCHANGED <<scenario, shellVars, bridgeVars, gitVars,
                                    readinessVars, kitVars>>
ClaudeRunStep == scenario = "claude_run" /\ ClaudeRun!Next /\ ClaudeOnly

BridgeInit ==
    /\ ShellOff /\ ClaudeOff /\ GitOff /\ ReadinessOff /\ KitOff
    /\ scenario = "opencode_attempt" /\ Bridge!Init
BridgeOnly == UNCHANGED <<scenario, shellVars, claudeVars, gitVars,
                                    readinessVars, kitVars>>
BridgeStep == scenario = "opencode_attempt" /\ Bridge!Next /\ BridgeOnly

GitInit ==
    /\ ShellOff /\ ClaudeOff /\ BridgeOff /\ ReadinessOff /\ KitOff
    /\ \/ scenario = "delivery_publish" /\ Publish!Init
       \/ scenario = "delivery_receipt" /\ Receipt!Init
GitOnly == UNCHANGED <<scenario, shellVars, claudeVars, bridgeVars,
                                 readinessVars, kitVars>>
PublishStep == scenario = "delivery_publish" /\ Publish!Next /\ GitOnly
ReceiptStep == scenario = "delivery_receipt" /\ Receipt!Next /\ GitOnly

ReadinessInit ==
    /\ ShellOff /\ ClaudeOff /\ BridgeOff /\ GitOff /\ KitOff
    /\ scenario = "readiness_gate" /\ Init
ReadinessOnly == UNCHANGED <<scenario, shellVars, claudeVars, bridgeVars,
                                       gitVars, kitVars>>
GateStep == scenario = "readiness_gate" /\ Next /\ ReadinessOnly

KitInit ==
    /\ ShellOff /\ ClaudeOff /\ BridgeOff /\ GitOff /\ ReadinessOff
    /\ \/ scenario = "kit_inventory" /\ Inventory!Init
       \/ scenario = "kit_install" /\ Install!Init
KitOnly == UNCHANGED <<scenario, shellVars, claudeVars, bridgeVars, gitVars,
                                 readinessVars>>
InventoryStep == scenario = "kit_inventory" /\ Inventory!Next /\ KitOnly
InstallStep == scenario = "kit_install" /\ Install!Next /\ KitOnly

ContainerInit == ShellInit \/ ClaudeInit \/ BridgeInit \/ GitInit \/
                 ReadinessInit \/ KitInit
ContainerNext == AttemptStep \/ ClaudeRunStep \/ BridgeStep \/ PublishStep \/
                 ReceiptStep \/ GateStep \/ InventoryStep \/ InstallStep

ContainerSpec == ContainerInit /\ [][ContainerNext]_containerVars

ASSUME Bounds ==
    /\ Attempt!FlagsAreBoolean /\ ClaudeRun!ParametersInRange
    /\ Publish!GitAssumption /\ Receipt!GitAssumption
    /\ Inventory!KitAssumption /\ Install!KitAssumption

-----------------------------------------------------------------------------
(* Properties                                                              *)

(* An attempt that its limit or a cancellation ended says so in its        *)
(* marker; one terminal event per task; delivery starts only after the     *)
(* Harness completed, and a success is reported only with everything       *)
(* sealed (codify-entrypoint and its libraries).                           *)
AttemptOutcome ==
    scenario = "attempt_end" =>
        /\ Attempt!TypeOK
        /\ Attempt!TimeoutRecorded
        /\ Attempt!CancelRecorded
        /\ Attempt!OneTaskTerminal
        /\ Attempt!DeliveryAfterCompletion
        /\ Attempt!SealedSuccess

(* A Harness runner leaves nothing behind and nothing out: the Claude      *)
(* runner stops its process group, keeps a result it has seen and starts   *)
(* again only without one; the OpenCode bridge reports completion after    *)
(* everything its own sessions said, stops children before their parent    *)
(* and never leaves without a terminal event.                              *)
RunnersEndWhole ==
    /\ scenario = "claude_run" =>
           /\ ClaudeRun!TypeOK
           /\ ClaudeRun!GroupStopped
           /\ ClaudeRun!ResultKept
           /\ ClaudeRun!RunAgainWithoutResult
    /\ scenario = "opencode_attempt" =>
           /\ Bridge!TypeOK
           /\ Bridge!StrangersInvisible
           /\ Bridge!CompletedSawEverything
           /\ Bridge!LeavesWithTerminal
           /\ Bridge!ChildrenStopFirst

(* A delivery that is reported was seen on the remote, a completed attempt *)
(* has had its own commit accepted, and the receipt covers every commit    *)
(* that landed, after retries and lost answers (worker_delivery).          *)
DeliveryConfirmed ==
    /\ scenario = "delivery_publish" =>
           /\ Publish!TypeOK
           /\ Publish!ConfirmedWasThere
           /\ Publish!CompletedIsAccepted
    /\ scenario = "delivery_receipt" =>
           /\ Receipt!TypeOK
           /\ Receipt!ReceiptCoversLanded

(* The streamed and the unpacked inventory of a Kit agree, its links       *)
(* resolve inside it, an installed Kit is ready, and damage to it is       *)
(* noticed (worker_kit).                                                   *)
KitIsWhatItSays ==
    /\ scenario = "kit_inventory" =>
           /\ Inventory!InventoriesAgree
           /\ Inventory!AcceptedLinksResolve
    /\ scenario = "kit_install" =>
           /\ Install!InstalledIsReady
           /\ Install!DamageIsNoticed

(* A push only moves a branch forward and keeps what was there at the      *)
(* start, a commit that is published is listed, and a Kit is published     *)
(* once (worker_delivery, worker_kit).                                     *)
NothingTakenBack ==
    [][/\ scenario = "delivery_publish" =>
              /\ Publish!FastForwardOnly
              /\ Publish!StartTipKept
       /\ scenario = "delivery_receipt" => Receipt!PublishedIsListed
       /\ scenario = "kit_install" => Install!PublishedOnce]_containerVars
=============================================================================
