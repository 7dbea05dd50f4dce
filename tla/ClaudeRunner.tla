---------------------------- MODULE ClaudeRunner ----------------------------
(***************************************************************************)
(* The Claude runner (deploy/worker-entrypoint/harness/runners/            *)
(* claude-run.sh): the CLI in a process group of its own, a stream         *)
(* processor that reads the CLI's pipe, feeds the translator and records   *)
(* the final result, a watchdog that stops the group some time after the   *)
(* result, the main shell that reaps them in order and runs once more      *)
(* without --resume when no result came, and timeout(1) around it all.     *)
(*                                                                         *)
(* A group has the CLI and up to two descendants: one that still holds the *)
(* pipe ("heir") and one that closed it ("detached").                      *)
(***************************************************************************)
EXTENDS Naturals, Sequences, FiniteSets

CONSTANTS
    Resume,      \* the task resumes a session
    Deaf,        \* the processes that ignore TERM
    MaxPipe,     \* bound: lines in the pipe
    MaxLines,    \* bound: lines a run writes
    Breakable    \* the translator may die before the end of its input

Procs == {"cli", "heir", "detached"}

Holders == {"cli", "heir"}

Runs == 1 .. 2

(* What the constants are. *)
ParametersInRange ==
    /\ Resume \in BOOLEAN /\ Breakable \in BOOLEAN
    /\ Deaf \subseteq Procs
    /\ MaxPipe \in Nat \ {0} /\ MaxLines \in Nat \ {0}

VARIABLES
    pc,          \* the main shell
    run,         \* the run of the CLI
    group,       \* the live processes of each run's group
    forked,      \* the descendants the current CLI has had
    pipe,        \* the CLI's output, a sequence of "work" and "result"
    lines,       \* lines written by the current run
    worked,      \* the runs whose CLI did work on the task
    finished,    \* the runs whose CLI wrote a result
    stream,      \* the stream processor
    seen,        \* final_result_seen
    resultFile,  \* RESULT_FILE is not empty
    watchdog,
    translator,
    exit         \* how the runner ended

vars == <<pc, run, group, forked, pipe, lines, worked, finished, stream, seen,
          resultFile, watchdog, translator, exit>>

Init ==
    /\ pc = "start" /\ run = 1
    /\ group = [r \in Runs |-> {}] /\ forked = {}
    /\ pipe = <<>> /\ lines = 0
    /\ worked = {} /\ finished = {}
    /\ stream = "off" /\ seen = FALSE /\ resultFile = FALSE
    /\ watchdog = "off" /\ translator = "off"
    /\ exit = "none"

Live == group[run]

cli == <<group, forked, pipe, lines, worked, finished>>

(* run_claude_stream: the group, the translator, the stream processor and  *)
(* the watchdog.                                                           *)
StartRun ==
    /\ pc = "start"
    /\ group' = [group EXCEPT ![run] = {"cli"}]
    /\ forked' = {} /\ pipe' = <<>> /\ lines' = 0
    /\ stream' = "reading" /\ seen' = FALSE
    /\ watchdog' = "blocked" /\ translator' = "on"
    /\ pc' = "wait stream"
    /\ UNCHANGED <<run, worked, finished, resultFile, exit>>

(***************************************************************************)
(* The CLI and its descendants.  A writer whose reader is gone dies.       *)
(***************************************************************************)
CliForks(p) ==
    /\ "cli" \in Live /\ p \in Procs \ ({"cli"} \cup forked)
    /\ group' = [group EXCEPT ![run] = @ \cup {p}]
    /\ forked' = forked \cup {p}
    /\ UNCHANGED <<pc, run, pipe, lines, worked, finished, stream, seen, resultFile, watchdog,
                   translator, exit>>

WriterDies(p) ==
    /\ group' = [group EXCEPT ![run] = @ \ {p}]
    /\ UNCHANGED <<pipe, lines, worked, finished>>

Writes(p, line) ==
    /\ p \in Live \cap Holders /\ pc # "ended"
    /\ line = "result" => p = "cli"
    /\ lines < MaxLines /\ Len(pipe) < MaxPipe
    /\ IF stream \in {"reading", "signalling"}
       THEN /\ pipe' = Append(pipe, line)
            /\ lines' = lines + 1
            /\ worked' = IF line = "work" THEN worked \cup {run} ELSE worked
            /\ finished' = IF line = "result" THEN finished \cup {run} ELSE finished
            /\ UNCHANGED group
       ELSE WriterDies(p)
    /\ UNCHANGED <<pc, run, forked, stream, seen, resultFile, watchdog, translator, exit>>

ProcessExits(r, p) ==
    /\ p \in group[r]
    /\ group' = [group EXCEPT ![r] = @ \ {p}]
    /\ UNCHANGED <<pc, run, forked, pipe, lines, worked, finished, stream, seen, resultFile,
                   watchdog, translator, exit>>

(***************************************************************************)
(* process_stream: the line goes to the translator first (a dead one kills *)
(* the processor, SIGPIPE), a result goes to RESULT_FILE, and the first    *)
(* result is signalled to the watchdog through a FIFO both sides open.     *)
(***************************************************************************)
ReadLine ==
    /\ stream = "reading" /\ pipe # <<>>
    /\ pipe' = Tail(pipe)
    /\ IF translator # "on"
       THEN stream' = "done" /\ UNCHANGED <<seen, resultFile>>
       ELSE IF Head(pipe) = "result"
       THEN /\ resultFile' = TRUE
            /\ seen' = TRUE
            /\ stream' = IF seen THEN "reading" ELSE "signalling"
       ELSE UNCHANGED <<stream, seen, resultFile>>
    /\ UNCHANGED <<pc, run, group, forked, lines, worked, finished, watchdog, translator, exit>>

Signal ==
    /\ stream = "signalling" /\ watchdog = "blocked"
    /\ stream' = "reading"
    /\ watchdog' = "grace"
    /\ UNCHANGED <<pc, run, cli, seen, resultFile, translator, exit>>

StreamEnds ==
    /\ stream = "reading" /\ pipe = <<>> /\ Live \cap Holders = {}
    /\ stream' = "done"
    /\ UNCHANGED <<pc, run, cli, seen, resultFile, watchdog, translator, exit>>

TranslatorBreaks ==
    /\ Breakable /\ translator = "on"
    /\ translator' = "dead"
    /\ UNCHANGED <<pc, run, cli, stream, seen, resultFile, watchdog, exit>>

(***************************************************************************)
(* watch_final_result_shutdown and terminate_claude_process_group.         *)
(***************************************************************************)
GraceUnneeded ==
    /\ watchdog = "grace" /\ stream = "done" /\ Live = {}
    /\ watchdog' = "done"
    /\ UNCHANGED <<pc, run, cli, stream, seen, resultFile, translator, exit>>

TermGroup ==
    /\ watchdog = "grace"
    /\ group' = [group EXCEPT ![run] = @ \cap Deaf]
    /\ watchdog' = "termed"
    /\ UNCHANGED <<pc, run, forked, pipe, lines, worked, finished, stream, seen, resultFile,
                   translator, exit>>

(* Taking TERM for enough.                                                 *)
TermIsEnough ==
    /\ watchdog = "termed"
    /\ watchdog' = "stop stream"
    /\ UNCHANGED <<pc, run, cli, stream, seen, resultFile, translator, exit>>

KillGroup ==
    /\ watchdog = "termed"
    /\ group' = [group EXCEPT ![run] = {}]
    /\ watchdog' = "stop stream"
    /\ UNCHANGED <<pc, run, forked, pipe, lines, worked, finished, stream, seen, resultFile,
                   translator, exit>>

StopStream ==
    /\ watchdog = "stop stream"
    /\ stream' = "done"
    /\ watchdog' = "done"
    /\ UNCHANGED <<pc, run, cli, seen, resultFile, translator, exit>>

(***************************************************************************)
(* The main shell reaps in order.  Closing fd 9 is the translator's EOF.   *)
(***************************************************************************)
StreamReaped ==
    /\ pc = "wait stream" /\ stream = "done"
    /\ translator' = "done"
    /\ pc' = "wait cli"
    /\ UNCHANGED <<run, cli, stream, seen, resultFile, watchdog, exit>>

(* A group is left to the watchdog only after a result; otherwise the      *)
(* watchdog is stopped and the group forgotten.                            *)
CliReaped ==
    /\ pc = "wait cli" /\ "cli" \notin Live
    /\ IF resultFile /\ Live # {}
       THEN pc' = "wait watchdog" /\ UNCHANGED watchdog
       ELSE pc' = "reaped" /\ watchdog' = "done"
    /\ UNCHANGED <<run, cli, stream, seen, resultFile, translator, exit>>

WatchdogReaped ==
    /\ pc = "wait watchdog" /\ watchdog = "done"
    /\ pc' = "reaped"
    /\ UNCHANGED <<run, cli, stream, seen, resultFile, watchdog, translator, exit>>

(* The second run, without --resume: the temporary files are emptied and   *)
(* the diagnostic resume_fallback is written.                              *)
FallsBack == Resume /\ run = 1 /\ ~resultFile

FallBack ==
    /\ pc = "reaped" /\ FallsBack
    /\ run' = 2
    /\ pc' = "start"
    /\ UNCHANGED <<cli, stream, seen, resultFile, watchdog, translator, exit>>

Finish ==
    /\ pc = "reaped" /\ ~FallsBack
    /\ exit' = IF resultFile THEN "result" ELSE "no result"
    /\ pc' = "ended"
    /\ UNCHANGED <<run, cli, stream, seen, resultFile, watchdog, translator>>

(* cleanup, the EXIT trap: ACTIVE_CLAUDE_PGID is empty outside of a run.   *)
Cleanup ==
    /\ stream' = "done" /\ watchdog' = "done" /\ translator' = "done"
    /\ group' = IF pc \in {"wait stream", "wait cli", "wait watchdog"}
                THEN [group EXCEPT ![run] = {}] ELSE group

(* timeout(1) sends TERM to the runner.                                    *)
TimedOut ==
    /\ pc # "ended"
    /\ Cleanup
    /\ exit' = "timeout"
    /\ pc' = "ended"
    /\ UNCHANGED <<run, forked, pipe, lines, worked, finished, seen, resultFile>>

Runner ==
    \/ StartRun \/ StreamReaped \/ CliReaped \/ WatchdogReaped \/ FallBack \/ Finish
    \/ ReadLine \/ Signal \/ StreamEnds
    \/ GraceUnneeded \/ TermGroup \/ KillGroup \/ StopStream

Next ==
    \/ Runner
    \/ \E p \in Procs : CliForks(p)
    \/ \E p \in Procs, line \in {"work", "result"} : Writes(p, line)
    \/ \E r \in Runs, p \in Procs : ProcessExits(r, p)
    \/ TranslatorBreaks
    \/ TimedOut

Spec == Init /\ [][Next]_vars

(* The shells run; nothing is assumed of the CLI and its descendants.      *)
FairSpec == Spec /\ WF_vars(Runner)

-----------------------------------------------------------------------------
(* Types; the signal of a final result is sent only after the result file  *)
(* is written (process_stream).                                            *)
TypeOK ==
    /\ pc \in {"start", "wait stream", "wait cli", "wait watchdog", "reaped", "ended"}
    /\ run \in Runs
    /\ \A r \in Runs : group[r] \subseteq Procs
    /\ forked \subseteq Procs \ {"cli"}
    /\ Len(pipe) <= MaxPipe /\ \A i \in DOMAIN pipe : pipe[i] \in {"work", "result"}
    /\ lines \in 0 .. MaxLines
    /\ worked \subseteq Runs /\ finished \subseteq Runs
    /\ stream \in {"off", "reading", "signalling", "done"}
    /\ watchdog \in {"off", "blocked", "grace", "termed", "stop stream", "done"}
    /\ translator \in {"off", "on", "dead", "done"}
    /\ seen \in BOOLEAN /\ resultFile \in BOOLEAN /\ (seen => resultFile)
    /\ exit \in {"none", "result", "no result", "timeout"}

(* A runner that ends after a result, by itself or by the outer timeout,   *)
(* leaves no process of that run's group behind, deaf or detached          *)
(* (watch_final_result_shutdown, cleanup).                                 *)
GroupStopped == pc = "ended" /\ resultFile => group[run] = {}

(* A result the CLI wrote is the runner's result: unless timed out it is   *)
(* read from the pipe before the stream ends, and neither the watchdog nor *)
(* the resume fallback discards it (process_stream).                       *)
ResultKept == exit = "no result" => run \notin finished

(* The prompt is run a second time only when no result was written.        *)
RunAgainWithoutResult == run = 2 => 1 \notin finished

-----------------------------------------------------------------------------
(* What the repository says and the code does not keep (README, Deviations). *)

(* A resumed task is run again from a fresh session only when the session  *)
(* was not found, not after a resumed run that worked on the task.         *)
OnlyNotFoundIsRetried == run = 2 => 1 \notin worked

(* When the runner ends, no process of a group it started remains.         *)
AllGroupsStopped == pc = "ended" => \A r \in Runs : group[r] = {}
=============================================================================
