---------------------------- MODULE AttemptShell ----------------------------
(***************************************************************************)
(* One attempt inside the worker container: the entrypoint shell (bash,    *)
(* PID 1) that prepares, initialises and runs the harness adapter, enters  *)
(* delivery and writes the attempt's terminal events in its EXIT trap      *)
(* (deploy/worker-entrypoint/bootstrap.sh, main.sh, harness/runner.sh,     *)
(* harness/common.sh); the adapter's translator, which writes the same     *)
(* stream and the same result file; and the backend, which may leave the   *)
(* timeout marker, send TERM (docker stop) and KILL after the grace.       *)
(*                                                                         *)
(* A foreground child defers the shell's traps, so a signal is handled     *)
(* between steps; only the wait for the adapter is interrupted.            *)
(***************************************************************************)
EXTENDS EventStream, FiniteSets

CONSTANTS
    ResultFirst,  \* the translator writes the result before its terminal event
    Options,      \* provider options are frozen: initialisation starts a proxy
    Identity,     \* the Bundle manifest gives a fallback identity
    PushErrors,   \* a push may fail and leave its error in the snapshot
    LateStops     \* the first TERM may arrive while the EXIT trap runs

(* What the constants are. *)
FlagsAreBoolean ==
    {ResultFirst, Options, Identity, PushErrors, LateStops} \subseteq BOOLEAN

VARIABLES
    sh,       \* the shell: where it is, its exit code and its flags
    stream,   \* event.jsonl
    result,   \* harness-result.json, None while it holds no valid schema
    tmp,      \* harness-result.json.tmp, one path for the shell and the translator
    adapter,  \* the adapter's processes
    proxy,    \* the model proxies alive, and the pid the shell remembers
    marker,   \* .codify-timeout exists
    stop,     \* what the backend has sent
    archive   \* the result sealed in the archive, Unsealed before

vars == <<sh, stream, result, tmp, adapter, proxy, marker, stop, archive>>

None == [ok |-> FALSE, kind |-> "no result"]

Unsealed == [ok |-> FALSE, kind |-> "unsealed"]

Kinds == {"none", "timeout", "cancelled", "protocol_error", "engine_error", "configuration_error"}

Results == [ok : BOOLEAN, kind : Kinds]

Working == {"boot", "prepare", "init", "reinit", "adapter", "deliver", "pushed"}

Finalizing == {"exit", "begin", "decide", "interrupt", "interrupting", "fail", "derive", "rename",
               "close", "finalize", "task", "archive"}

Init ==
    /\ sh = [pc |-> "boot", code |-> 0, cancelled |-> FALSE, seen |-> FALSE,
             delivering |-> FALSE, retried |-> FALSE, pushError |-> FALSE,
             choice |-> "none", after |-> "none"]
    /\ stream = <<>>
    /\ result = None
    /\ tmp = None
    /\ adapter = [st |-> "off", todo |-> <<>>, out |-> "none", code |-> 0]
    /\ proxy = [alive |-> {}, pid |-> 0]
    /\ marker = FALSE
    /\ stop = "none"
    /\ archive = Unsealed

(***************************************************************************)
(* The writer.  Under the marker every terminal carries the kind timeout.  *)
(***************************************************************************)
Event(t, k) ==
    [type |-> t, kind |-> IF marker /\ t \in HarnessTerminals \cup TaskTerminals THEN "timeout" ELSE k]

Emitted(s, t, k) == IF WriterAccepts(s, t) THEN Append(s, Event(t, k)) ELSE s

Emit(t, k) == stream' = Emitted(stream, t, k)

Exists(t) == t \in TypesOf(stream)

LastFailure ==
    LET failures == SelectSeq(stream, LAMBDA e : e.type = "harness.failed")
    IN IF failures = <<>> THEN "none" ELSE failures[Len(failures)].kind

SignalKind(code) ==
    IF code = 124 THEN "timeout" ELSE IF code \in {130, 137, 143} THEN "cancelled" ELSE "none"

Goto(pc) == sh' = [sh EXCEPT !.pc = pc]

Exit(code) == sh' = [sh EXCEPT !.pc = "exit", !.code = code]

(***************************************************************************)
(* bootstrap.sh and repository preparation: common.sh is loaded in between.*)
(***************************************************************************)
Boot ==
    /\ sh.pc = "boot"
    /\ Goto("prepare")
    /\ UNCHANGED <<stream, result, tmp, adapter, proxy, marker, stop, archive>>

BootFails ==
    /\ sh.pc = "boot"
    /\ sh' = [sh EXCEPT !.pc = "archive", !.code = 1]
    /\ UNCHANGED <<stream, result, tmp, adapter, proxy, marker, stop, archive>>

Prepare ==
    /\ sh.pc = "prepare"
    /\ Goto("init") \/ Exit(1)
    /\ UNCHANGED <<stream, result, tmp, adapter, proxy, marker, stop, archive>>

(* codify_model_proxy_start: the pid of an earlier proxy is overwritten.   *)
ProxyStarted ==
    IF Options
    THEN LET p == 1 + Cardinality(proxy.alive) IN [alive |-> proxy.alive \cup {p}, pid |-> p]
    ELSE proxy

StreamStarted == IF stream = <<>> THEN Emitted(stream, "run.started", "none") ELSE stream

(* The adapter with its translator: what it will report and with which code. *)
StartAdapter ==
    \E out \in {"completed", "failed"} :
        adapter' = [st |-> "running", out |-> out, code |-> 0,
                    todo |-> IF ResultFirst THEN <<"write", "rename", "event">>
                                            ELSE <<"event", "write", "rename">>]

(* main.sh to the start of the adapter: initialise, pin the start commit,  *)
(* pre-script; a pin or a pre-script that fails exits 1.                   *)
Initialize ==
    /\ sh.pc = "init"
    /\ proxy' = ProxyStarted
    /\ stream' = StreamStarted
    /\ \/ Goto("adapter") /\ StartAdapter
       \/ Exit(1) /\ UNCHANGED adapter
    /\ UNCHANGED <<result, tmp, marker, stop, archive>>

InitializeFails ==
    /\ sh.pc = "init"
    /\ proxy' \in {proxy, ProxyStarted}
    /\ Goto("reinit")
    /\ UNCHANGED <<stream, result, tmp, adapter, marker, stop, archive>>

(* codify_harness_run after a failed initialisation: CODIFY_HARNESS_       *)
(* INITIALIZED is 0, so it initialises once more.                          *)
Reinitialize ==
    /\ sh.pc = "reinit"
    /\ proxy' = ProxyStarted
    /\ stream' = StreamStarted
    /\ StartAdapter
    /\ sh' = [sh EXCEPT !.pc = "adapter", !.retried = TRUE]
    /\ UNCHANGED <<result, tmp, marker, stop, archive>>

ReinitializeFails ==
    /\ sh.pc = "reinit"
    /\ proxy' \in {proxy, ProxyStarted}
    /\ stream' = Emitted(StreamStarted, "harness.failed", "configuration_error")
    /\ sh' = [sh EXCEPT !.pc = "exit", !.code = 1, !.seen = TRUE]
    /\ UNCHANGED <<result, tmp, adapter, marker, stop, archive>>

(***************************************************************************)
(* The adapter: its translator ends with a result file and a terminal      *)
(* event, in the order of the harness.  A refused event or a lost          *)
(* temporary file ends it.  TERM reaches the subshell the shell waits for, *)
(* not the translator, which runs on until the container ends.             *)
(***************************************************************************)
Alive == adapter.st = "running" /\ sh.pc \notin {"ended", "killed"}

Crashed == [adapter EXCEPT !.st = "ended", !.todo = <<>>, !.code = 1]

Advanced(code) ==
    IF Len(adapter.todo) = 1
    THEN [adapter EXCEPT !.st = "ended", !.todo = <<>>, !.code = code]
    ELSE [adapter EXCEPT !.todo = Tail(@)]

EndCodes == IF adapter.out = "completed" THEN {0} ELSE {0, 1}

TranslatorEmits ==
    /\ Alive /\ Head(adapter.todo) = "event"
    /\ LET t == IF adapter.out = "completed" THEN "harness.completed" ELSE "harness.failed"
           k == IF adapter.out = "completed" THEN "none" ELSE "engine_error"
       IN /\ Emit(t, k)
          /\ IF WriterAccepts(stream, t)
             THEN \E code \in EndCodes : adapter' = Advanced(code)
             ELSE adapter' = Crashed
    /\ UNCHANGED <<sh, result, tmp, proxy, marker, stop, archive>>

TranslatorWrites ==
    /\ Alive /\ Head(adapter.todo) = "write"
    /\ tmp' = IF adapter.out = "completed" THEN [ok |-> TRUE, kind |-> "none"]
                                           ELSE [ok |-> FALSE, kind |-> "engine_error"]
    /\ adapter' = Advanced(0)
    /\ UNCHANGED <<sh, stream, result, proxy, marker, stop, archive>>

TranslatorRenames ==
    /\ Alive /\ Head(adapter.todo) = "rename"
    /\ IF tmp = None
       THEN adapter' = Crashed /\ UNCHANGED <<result, tmp>>
       ELSE /\ result' = tmp
            /\ tmp' = None
            /\ \E code \in EndCodes : adapter' = Advanced(code)
    /\ UNCHANGED <<sh, stream, proxy, marker, stop, archive>>

TranslatorThinks ==
    /\ Alive
    /\ \/ /\ ~Exists("reasoning_summary.started")
          /\ Emit("reasoning_summary.started", "none")
       \/ /\ Exists("reasoning_summary.started")
          /\ ~Exists("reasoning_summary.completed")
          /\ Emit("reasoning_summary.completed", "none")
    /\ UNCHANGED <<sh, result, tmp, adapter, proxy, marker, stop, archive>>

AdapterDies ==
    /\ Alive
    /\ adapter' = Crashed
    /\ UNCHANGED <<sh, stream, result, tmp, proxy, marker, stop, archive>>

(* timeout "${TASK_TIMEOUT}" in adapter_run.                               *)
AdapterTimesOut ==
    /\ Alive
    /\ adapter' = [Crashed EXCEPT !.code = 124]
    /\ UNCHANGED <<sh, stream, result, tmp, proxy, marker, stop, archive>>

(***************************************************************************)
(* codify_harness_run after the wait, and main.sh up to the delivery.      *)
(***************************************************************************)
Normalized ==
    LET kind == IF SignalKind(adapter.code) = "none" THEN "protocol_error"
                                                     ELSE SignalKind(adapter.code)
        s == IF result = None /\ ~HarnessEnded(stream)
             THEN Emitted(stream, "harness.failed", kind) ELSE stream
    IN IF HarnessEnded(s) THEN s ELSE Emitted(s, "harness.failed", "protocol_error")

(* A clean exit after harness.failed is no success.                        *)
ResultCode(s) ==
    IF result = None THEN 1
    ELSE IF adapter.code = 0 /\ "harness.failed" \in TypesOf(s) THEN 1 ELSE adapter.code

Settle ==
    /\ sh.pc = "adapter" /\ adapter.st = "ended"
    /\ LET code == ResultCode(Normalized)
           deliver == code = 0 /\ ~sh.retried
       IN /\ stream' = IF deliver THEN Emitted(Normalized, "delivery.started", "none")
                                  ELSE Normalized
          /\ sh' = [sh EXCEPT !.pc = IF deliver THEN "deliver" ELSE "exit", !.code = code,
                              !.seen = TRUE, !.delivering = deliver]
    /\ UNCHANGED <<result, tmp, adapter, proxy, marker, stop, archive>>

Deliver ==
    /\ sh.pc = "deliver"
    /\ Exit(0) \/ Exit(1)
    /\ UNCHANGED <<stream, result, tmp, adapter, proxy, marker, stop, archive>>

(* repo_delivery_record "failed" writes the snapshot; main.sh exits after. *)
RecordPushError ==
    /\ sh.pc = "deliver" /\ PushErrors
    /\ sh' = [sh EXCEPT !.pc = "pushed", !.pushError = TRUE]
    /\ UNCHANGED <<stream, result, tmp, adapter, proxy, marker, stop, archive>>

PushFailed ==
    /\ sh.pc = "pushed"
    /\ Exit(1)
    /\ UNCHANGED <<stream, result, tmp, adapter, proxy, marker, stop, archive>>

(***************************************************************************)
(* The EXIT trap: codify_finalize_on_exit.                                 *)
(***************************************************************************)

(* codify_model_proxy_stop, then the bounded drain of the console tee.     *)
StopProxy ==
    /\ sh.pc = "exit"
    /\ proxy' = [alive |-> proxy.alive \ {proxy.pid}, pid |-> 0]
    /\ Goto("begin")
    /\ UNCHANGED <<stream, result, tmp, adapter, marker, stop, archive>>

(* codify_harness_finalize_attempt: an attempt without run.started gets one*)
(* from the fallback identity, with the failure of its preparation.        *)
Begin ==
    /\ sh.pc = "begin"
    /\ IF Exists("run.started") \/ Identity
       THEN /\ Goto("decide")
            /\ stream' = IF Exists("run.started") THEN stream
                         ELSE Emitted(StreamStarted, "harness.failed", "engine_error")
       ELSE /\ sh' = [sh EXCEPT !.pc = "derive", !.after = "archive"]
            /\ UNCHANGED stream
    /\ UNCHANGED <<result, tmp, adapter, proxy, marker, stop, archive>>

TerminalSeen == sh.seen \/ HarnessEnded(stream)

(* The failure of the attempt when the stream holds no harness terminal.   *)
OwnFailure ==
    IF marker THEN "timeout" ELSE IF sh.cancelled THEN "cancelled" ELSE "protocol_error"

Decide ==
    /\ sh.pc = "decide"
    /\ IF TerminalSeen
       THEN sh' = [sh EXCEPT !.pc = "derive", !.after = "close"]
       ELSE sh' = [sh EXCEPT !.pc = "interrupt", !.choice = OwnFailure]
    /\ UNCHANGED <<stream, result, tmp, adapter, proxy, marker, stop, archive>>

(* codify_harness_interrupt_open_reasoning reads the open blocks, then     *)
(* closes them.                                                            *)
BlockOpen ==
    /\ Exists("reasoning_summary.started")
    /\ ~Exists("reasoning_summary.completed")

Interrupt ==
    /\ sh.pc = "interrupt"
    /\ Goto(IF BlockOpen THEN "interrupting" ELSE "fail")
    /\ UNCHANGED <<stream, result, tmp, adapter, proxy, marker, stop, archive>>

InterruptBlock ==
    /\ sh.pc = "interrupting"
    /\ Emit("reasoning_summary.interrupted", "none")
    /\ Goto("fail")
    /\ UNCHANGED <<result, tmp, adapter, proxy, marker, stop, archive>>

(* The writer refuses this event when the translator's came first.         *)
FailHarness ==
    /\ sh.pc = "fail"
    /\ Emit("harness.failed", sh.choice)
    /\ sh' = [sh EXCEPT !.pc = "derive", !.after = "close", !.seen = TRUE]
    /\ UNCHANGED <<result, tmp, adapter, proxy, marker, stop, archive>>

(* codify_harness_ensure_result: a valid result stays as it is unless the  *)
(* marker is there; otherwise one is made from the stream.                 *)
Synthesised ==
    IF result = None /\ sh.code = 0 /\ Exists("harness.completed")
    THEN [ok |-> TRUE, kind |-> "none"]
    ELSE [ok |-> FALSE,
          kind |-> IF marker THEN "timeout"
                   ELSE IF LastFailure = "none" THEN "protocol_error" ELSE LastFailure]

Derive ==
    /\ sh.pc = "derive"
    /\ IF result # None /\ ~marker
       THEN Goto(sh.after) /\ UNCHANGED tmp
       ELSE Goto("rename") /\ tmp' = Synthesised
    /\ UNCHANGED <<stream, result, adapter, proxy, marker, stop, archive>>

Rename ==
    /\ sh.pc = "rename"
    /\ result' = IF tmp = None THEN result ELSE tmp
    /\ tmp' = None
    /\ Goto(sh.after)
    /\ UNCHANGED <<stream, adapter, proxy, marker, stop, archive>>

CloseDelivery ==
    /\ sh.pc = "close"
    /\ IF sh.delivering
       THEN Emit(IF sh.code = 0 THEN "delivery.completed" ELSE "delivery.failed", "none")
       ELSE UNCHANGED stream
    /\ Goto("finalize")
    /\ UNCHANGED <<result, tmp, adapter, proxy, marker, stop, archive>>

Finalize ==
    /\ sh.pc = "finalize"
    /\ Emit("worker.finalization", "none")
    /\ Goto("task")
    /\ UNCHANGED <<result, tmp, adapter, proxy, marker, stop, archive>>

(* The kind of run.failed: the harness's own, unless the process was timed *)
(* out or signalled; without a failure message a recorded push error wins. *)
FailureKind ==
    LET named == IF marker THEN "timeout"
                 ELSE IF LastFailure = "none" /\ sh.pushError THEN "engine_error"
                 ELSE IF sh.cancelled THEN "cancelled"
                 ELSE IF SignalKind(sh.code) # "none" THEN SignalKind(sh.code)
                 ELSE LastFailure
    IN IF named = "none" THEN "engine_error" ELSE named

EndRun ==
    /\ sh.pc = "task"
    /\ IF sh.code = 0 /\ ~sh.cancelled /\ Exists("harness.completed")
       THEN Emit("run.completed", "none")
       ELSE Emit("run.failed", FailureKind)
    /\ sh' = [sh EXCEPT !.pc = "derive", !.after = "archive"]
    /\ UNCHANGED <<result, tmp, adapter, proxy, marker, stop, archive>>

(* create_runtime_archive.                                                 *)
Seal ==
    /\ sh.pc = "archive"
    /\ archive' = result
    /\ Goto("ended")
    /\ UNCHANGED <<stream, result, tmp, adapter, proxy, marker, stop>>

(***************************************************************************)
(* The backend stops the container: the marker first when the task's time  *)
(* is up, then docker stop, which sends TERM and after its grace KILL.     *)
(***************************************************************************)
Running == sh.pc \in Working \cup Finalizing

LeaveMarker ==
    /\ Running /\ stop = "none" /\ ~marker
    /\ marker' = TRUE
    /\ UNCHANGED <<sh, stream, result, tmp, adapter, proxy, stop, archive>>

SendTerm ==
    /\ Running /\ stop = "none"
    /\ sh.pc \in Finalizing => LateStops
    /\ stop' = "term"
    /\ UNCHANGED <<sh, stream, result, tmp, adapter, proxy, marker, archive>>

(* A handler that exits with the status of the interrupted command.        *)
HandleTermKeepsCode ==
    /\ stop = "term" /\ sh.pc \in Working
    /\ sh' = [sh EXCEPT !.cancelled = ~marker \/ sh.pc = "boot",
                        !.pc = IF sh.pc = "boot" THEN "archive" ELSE "exit"]
    /\ stop' = "handled"
    /\ UNCHANGED <<stream, result, tmp, adapter, proxy, marker, archive>>

(* codify_signal_exit before the EXIT trap: PID 1 ignores any further TERM.*)
(* While common.sh is not loaded the marker is not looked at and the trap  *)
(* has only the archive to write.                                          *)
HandleTerm ==
    /\ stop = "term" /\ sh.pc \in Working
    /\ sh' = [sh EXCEPT !.cancelled = ~marker \/ sh.pc = "boot", !.code = 143,
                        !.pc = IF sh.pc = "boot" THEN "archive" ELSE "exit"]
    /\ stop' = "handled"
    /\ UNCHANGED <<stream, result, tmp, adapter, proxy, marker, archive>>

(* The same handler inside the EXIT trap: its exit ends the shell at once. *)
HandleTermLate ==
    /\ stop = "term" /\ sh.pc \in Finalizing
    /\ sh' = [sh EXCEPT !.cancelled = ~marker, !.code = 143, !.pc = "ended"]
    /\ stop' = "handled"
    /\ UNCHANGED <<stream, result, tmp, adapter, proxy, marker, archive>>

Kill ==
    /\ Running /\ stop # "none"
    /\ Goto("killed")
    /\ UNCHANGED <<stream, result, tmp, adapter, proxy, marker, stop, archive>>

Shell ==
    \/ Boot \/ BootFails \/ Prepare
    \/ Initialize \/ InitializeFails \/ Reinitialize \/ ReinitializeFails
    \/ Settle \/ Deliver \/ RecordPushError \/ PushFailed
    \/ StopProxy \/ Begin \/ Decide \/ Interrupt \/ InterruptBlock \/ FailHarness
    \/ Derive \/ Rename \/ CloseDelivery \/ Finalize \/ EndRun \/ Seal
    \/ HandleTerm \/ HandleTermLate

Translator ==
    TranslatorEmits \/ TranslatorWrites \/ TranslatorRenames \/ TranslatorThinks

Next ==
    \/ Shell
    \/ Translator \/ AdapterDies \/ AdapterTimesOut
    \/ LeaveMarker \/ SendTerm \/ Kill

Spec == Init /\ [][Next]_vars

(* Bash runs; timeout(1) ends an adapter the shell waits for.  Nothing     *)
(* makes an orphan end, and nobody has to stop the container.              *)
FairSpec ==
    /\ Spec
    /\ WF_vars(Shell)
    /\ WF_vars(AdapterTimesOut /\ sh.pc = "adapter")

-----------------------------------------------------------------------------
(* Types; the remembered proxy pid is 0 or a proxy that lives              *)
(* (CODIFY_MODEL_PROXY_PID).                                               *)
TypeOK ==
    /\ sh \in [pc : Working \cup Finalizing \cup {"ended", "killed"}, code : {0, 1, 124, 143},
               cancelled : BOOLEAN, seen : BOOLEAN, delivering : BOOLEAN, retried : BOOLEAN,
               pushError : BOOLEAN, choice : Kinds, after : {"none", "close", "archive"}]
    /\ \A i \in DOMAIN stream : stream[i].kind \in Kinds
    /\ result \in Results \cup {None} /\ tmp \in Results \cup {None}
    /\ adapter.st \in {"off", "running", "ended"}
    /\ proxy.pid \in {0} \cup proxy.alive
    /\ marker \in BOOLEAN
    /\ stop \in {"none", "term", "handled"}
    /\ archive \in Results \cup {None, Unsealed}

Sealed == sh.pc = "ended" /\ archive # Unsealed

Last == stream[Len(stream)]

(* An attempt whose EXIT trap ran through and whose bootstrap had loaded   *)
(* the writer ends in exactly one task terminal, right after the one       *)
(* worker.finalization, whatever a still running translator wrote and      *)
(* wherever the TERM hit (codify_harness_finalize_attempt).                *)
OneTaskTerminal ==
    Sealed /\ stream # <<>> =>
        /\ Len(stream) >= 3
        /\ Last.type \in TaskTerminals
        /\ stream[Len(stream) - 1].type = "worker.finalization"
        /\ \A i \in 1 .. Len(stream) - 1 : stream[i].type \notin TaskTerminals

(* A stop that found the timeout marker is reported as a timeout in the    *)
(* task terminal, also when the harness had already completed              *)
(* (codify_signal_exit, codify_harness_finalize_attempt).                  *)
TimeoutRecorded ==
    Sealed /\ stream # <<>> /\ stop = "handled" /\ ~sh.cancelled =>
        Last.type = "run.failed" /\ Last.kind = "timeout"

(* A stop without the marker is reported as a cancellation, also after the *)
(* harness failed on its own or the preparation was cut                    *)
(* (codify_harness_finalize_attempt: "Process-level timeout/cancellation   *)
(* remains authoritative").                                                *)
CancelRecorded ==
    Sealed /\ stream # <<>> /\ sh.cancelled /\ ~marker =>
        Last.type = "run.failed" /\ Last.kind = "cancelled"

(* Delivery starts only on a stream whose harness completed: a zero exit   *)
(* never enters delivery after harness.failed (codify_harness_run).        *)
DeliveryAfterCompletion ==
    Exists("delivery.started") => Exists("harness.completed") /\ ~Exists("harness.failed")

(* A result sealed as a success belongs to a stream that says the harness  *)
(* completed (codify_finalize_on_exit: an orphaned translator "cannot leave*)
(* a stale harness-result.json in the archive").                           *)
SealedSuccess == archive.ok => Exists("harness.completed")

-----------------------------------------------------------------------------
(* What the repository says and the code does not keep (README, Deviations). *)

(* run.completed means the attempt went through delivery (main.sh: "Every  *)
(* successful task converges on the same sequence").                       *)
CompletedIsDelivered == Exists("run.completed") => Exists("delivery.completed")

(* A sealed attempt leaves no model proxy behind (codify_harness_run: "The *)
(* signal trap and EXIT finalizer stop it").                               *)
ProxyIsStopped == Sealed => proxy.alive = {}

(* A TERM while the EXIT trap runs does not abort it: every attempt that   *)
(* ends without a KILL has written its archive (codify_signal_exit).       *)
FinalizerRunsThrough == sh.pc = "ended" => archive # Unsealed
=============================================================================
