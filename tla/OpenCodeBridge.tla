--------------------------- MODULE OpenCodeBridge ---------------------------
(***************************************************************************)
(* One OpenCode attempt (harness/adapters/opencode_bridge.py): the bridge  *)
(* process, the Task-scoped server with its global event stream, the       *)
(* translator at the other end of a pipe, the thread that waits for the    *)
(* synchronous startup command, and the cancellation process.  The server  *)
(* is external; the translator is reduced to what OpenCodeEvents does with *)
(* these records.  A record is [type, s].                                  *)
(***************************************************************************)
EXTENDS Integers, SequencesExt

CONSTANTS Kids,      \* sessions the root delegates to
          Strangers, \* sessions of the same server that are not the task's
          Chunks,    \* text fragments of the root's answer
          UseCommand,\* the frozen startup command instead of prompt_async
          Legacy     \* the task opted into the summarize probe

VARIABLES phase,     \* of _run_attempt
          rc,
          admitted,  \* _SessionAdmission
          marker,    \* the session file and its descendants
          tools,     \* active_tool_ids
          probed,    \* legacy_summarize_attempted
          terminal,  \* saw_terminal_signal
          ended,     \* how the drain loop was left
          command,   \* the command thread: off, running, ok, failed, consumed
          conn,      \* the SSE connection
          stream,    \* records published and not yet read
          server,    \* [busy, dead, said, spawned, finished, summarizing]
          stopped,   \* sessions sent an abort, in order
          abort,     \* sessions still to be sent one
          owed,      \* children already translated when the cancellation began
          pipe, closed, \* the translator's stdin
          xlat       \* the translator: [got, open, outcome, calls]

vars == <<phase, rc, admitted, marker, tools, probed, terminal, ended, command, conn, stream, server,
          stopped, abort, owed, pipe, closed, xlat>>
cancel == <<stopped, abort, owed>>
bridge == <<phase, rc, admitted, marker, tools, probed, terminal, ended>>
world == <<conn, stream, server>>

Root == "root"
Rec(t, s) == [type |-> t, s |-> s]
Failure == Rec("error", Root)

Init ==
    /\ phase = "setup" /\ rc = -1 /\ admitted = {} /\ marker = <<>> /\ tools = {}
    /\ probed = FALSE /\ terminal = FALSE /\ ended = "" /\ command = "off"
    /\ conn = "none" /\ stream = <<>> /\ pipe = <<>> /\ closed = FALSE
    /\ stopped = <<>> /\ abort = <<>> /\ owed = {}
    /\ server = [busy |-> FALSE, dead |-> FALSE, said |-> 0, spawned |-> {}, finished |-> {}, summarizing |-> FALSE]
    /\ xlat = [got |-> 0, open |-> {}, outcome |-> "", calls |-> {}]

-----------------------------------------------------------------------------
(* The server                                                              *)

Publish(r) == stream' = IF conn = "up" THEN Append(stream, r) ELSE stream

Say ==
    /\ server.busy /\ server.said < Chunks
    /\ Publish(Rec("chunk", Root))
    /\ server' = [server EXCEPT !.said = @ + 1]
    /\ UNCHANGED <<bridge, command, conn, cancel, pipe, closed, xlat>>

Spawn(k) ==
    /\ server.busy /\ k \notin server.spawned
    /\ stream' = IF conn = "up" THEN stream \o <<Rec("tool_on", Root), Rec("created", k)>> ELSE stream
    /\ server' = [server EXCEPT !.spawned = @ \cup {k}]
    /\ UNCHANGED <<bridge, command, conn, cancel, pipe, closed, xlat>>

KidEnds(k) ==
    /\ k \in server.spawned \ server.finished
    /\ stream' = IF conn = "up" THEN stream \o <<Rec("idle", k), Rec("tool_off", Root)>> ELSE stream
    /\ server' = [server EXCEPT !.finished = @ \cup {k}]
    /\ UNCHANGED <<bridge, command, conn, cancel, pipe, closed, xlat>>

StrangerIdles(s) ==
    /\ conn = "up" /\ s \notin server.finished
    /\ Publish(Rec("idle", s))
    /\ server' = [server EXCEPT !.finished = @ \cup {s}]
    /\ UNCHANGED <<bridge, command, conn, cancel, pipe, closed, xlat>>

\* The turn ends when everything was said and every delegation returned.
TurnEnds ==
    /\ server.busy /\ server.said = Chunks /\ server.spawned \subseteq server.finished
    /\ \E t \in {"idle", "error"} : Publish(Rec(t, Root))
    /\ server' = [server EXCEPT !.busy = FALSE, !.summarizing = FALSE]
    /\ UNCHANGED <<bridge, command, conn, cancel, pipe, closed, xlat>>

\* The synchronous command answers once its turn is over, or fails earlier.
CommandAnswers ==
    /\ command = "running"
    /\ \/ /\ ~server.busy /\ server.said > 0 /\ command' = "ok"
       \/ command' = "failed"
    /\ server' = IF server.said = 0 THEN [server EXCEPT !.busy = FALSE] ELSE server
    /\ UNCHANGED <<bridge, conn, stream, cancel, pipe, closed, xlat>>

\* The connection breaks or the server ends it; what was not read is lost.
Disconnect ==
    /\ conn = "up"
    /\ conn' \in {"lost", "ended"}
    /\ \E n \in 0..Len(stream) : stream' = SubSeq(stream, 1, n)
    /\ \E d \in BOOLEAN : server' = [server EXCEPT !.dead = d, !.busy = @ /\ ~d]
    /\ UNCHANGED <<bridge, command, cancel, pipe, closed, xlat>>

\* A living server keeps the stream alive.
Heartbeat ==
    /\ conn = "up" /\ ~server.dead /\ stream = <<>>
    /\ Publish(Rec("heartbeat", ""))
    /\ UNCHANGED <<bridge, command, conn, server, cancel, pipe, closed, xlat>>

ServerStep ==
    \/ Say \/ TurnEnds \/ Heartbeat \/ CommandAnswers \/ Disconnect
    \/ \E k \in Kids : Spawn(k) \/ KidEnds(k)
    \/ \E s \in Strangers : StrangerIdles(s)

-----------------------------------------------------------------------------
(* The translator                                                          *)

\* One record from stdin, or its end.  A root idle without text or with an
\* open call, an error and the end of input fail the run.
TranslatorReads ==
    /\ xlat.outcome = ""
    /\ \/ /\ pipe # <<>>
          /\ pipe' = Tail(pipe)
          /\ LET r == Head(pipe)
             IN xlat' = CASE r.type = "chunk" -> [xlat EXCEPT !.got = @ + 1]
                          [] r.type = "tool_on" -> [xlat EXCEPT !.open = @ \cup {r.s}]
                          [] r.type = "tool_off" -> [xlat EXCEPT !.open = @ \ {r.s}]
                          [] r.type = "idle" /\ r.s = Root ->
                               [xlat EXCEPT !.outcome = IF xlat.got > 0 /\ xlat.open = {} THEN "completed" ELSE "failed"]
                          [] r.type = "error" /\ r.s = Root -> [xlat EXCEPT !.outcome = "failed"]
                          [] OTHER -> [xlat EXCEPT !.calls = @ \cup {r.s}]
       \/ /\ pipe = <<>> /\ closed
          /\ xlat' = [xlat EXCEPT !.outcome = "failed"]
          /\ UNCHANGED pipe
    /\ UNCHANGED <<bridge, command, world, cancel, closed>>

\* _forward: a write to a translator that has exited is a broken pipe.  The
\* liveness markers, which the translator skips, are left out of the pipe.
Forward(rs) ==
    pipe' = IF xlat.outcome = "" THEN pipe \o SelectSeq(rs, LAMBDA r : r.type \notin {"connected", "heartbeat"})
            ELSE pipe

-----------------------------------------------------------------------------
(* The bridge                                                              *)

\* A failed step that leaves the translator waiting.
FailsOpen(rs) ==
    /\ Forward(<<>>)
    /\ phase' = "reap" /\ rc' = 1 /\ closed' = FALSE

Fails(rs) ==
    /\ Forward(rs)
    /\ phase' = "reap" /\ rc' = 1 /\ closed' = TRUE

\* Create or resume the session, publish its id, tell the translator the root.
SetUp ==
    /\ phase = "setup"
    /\ \/ Fails(<<Failure>>) /\ UNCHANGED <<admitted, marker>>
       \/ /\ phase' = "subscribe"
          /\ admitted' = {Root} /\ marker' = <<Root>>
          /\ UNCHANGED <<rc, pipe, closed>>
    /\ UNCHANGED <<tools, probed, terminal, ended, command, world, cancel, xlat>>

\* GET /event, then wait for server.connected before the prompt.
Subscribe ==
    /\ phase = "subscribe"
    /\ \/ Fails(<<Failure>>) /\ UNCHANGED <<conn, stream>>
       \/ /\ conn' = "up" /\ stream' = <<Rec("connected", "")>> /\ phase' = "await"
          /\ UNCHANGED <<rc, pipe, closed>>
    /\ UNCHANGED <<admitted, marker, tools, probed, terminal, ended, command, server, cancel, xlat>>

Admits(r) == r.s \in admitted' \/ r.type \in {"connected", "heartbeat"}

\* A session whose parent is admitted; its id is kept for the cancellation.
Register(r) ==
    admitted' = IF r.type = "created" /\ Root \in admitted THEN admitted \cup {r.s} ELSE admitted

Persist == marker' = marker \o SetToSeq(admitted' \ (admitted \cup ToSet(marker)))

AwaitConnected ==
    /\ phase = "await"
    /\ \/ /\ stream # <<>>
          /\ stream' = Tail(stream)
          /\ Register(Head(stream)) /\ Persist
          /\ IF Admits(Head(stream)) THEN Forward(<<Head(stream)>>) ELSE UNCHANGED pipe
          /\ phase' = IF Head(stream).type = "connected" THEN "prompt" ELSE phase
          /\ UNCHANGED <<rc, closed>>
       \/ /\ stream = <<>> /\ conn # "up"
          /\ Fails(<<Failure>>)
          /\ UNCHANGED <<stream, admitted, marker>>
    /\ UNCHANGED <<tools, probed, terminal, ended, command, conn, server, cancel, xlat>>

\* prompt_async is accepted or refused; the command runs in its own thread.
Prompt ==
    /\ phase = "prompt"
    /\ \/ /\ UseCommand /\ command' = "running" /\ phase' = "drain"
          /\ server' = [server EXCEPT !.busy = ~server.dead]
          /\ UNCHANGED <<rc, pipe, closed>>
       \/ /\ ~UseCommand /\ ~server.dead /\ phase' = "drain"
          /\ server' = [server EXCEPT !.busy = TRUE]
          /\ UNCHANGED <<rc, pipe, closed, command>>
       \/ /\ ~UseCommand /\ Fails(<<Failure>>)
          /\ UNCHANGED <<command, server>>
    /\ UNCHANGED <<admitted, marker, tools, probed, terminal, ended, conn, stream, cancel, xlat>>

\* report_command_failure: once, and only when the request is over.
CommandFailed == command = "failed"

\* The probe answers an idle that leaves no call active; a successful one
\* starts another turn whose idle comes later.
Probes(r) == r.type = "idle" /\ tools' = {} /\ ~probed /\ Legacy

Drain ==
    /\ phase = "drain" /\ stream # <<>>
    /\ LET r == Head(stream)
       IN  /\ Register(r) /\ Persist
           /\ tools' = IF ~Admits(r) THEN tools
                       ELSE IF r.type = "tool_on" THEN tools \cup {r.s}
                       ELSE IF r.type = "tool_off" THEN tools \ {r.s} ELSE tools
           /\ IF Admits(r) /\ Probes(r) /\ ~server.dead /\ conn = "up"
              THEN /\ server' = [server EXCEPT !.busy = TRUE, !.summarizing = TRUE]
                   /\ stream' = Tail(stream)
                   /\ probed' = TRUE
                   /\ UNCHANGED <<phase, rc, terminal, ended, command, pipe, closed>>
              ELSE /\ UNCHANGED server
                   /\ probed' = (probed \/ (Admits(r) /\ Probes(r)))
                   /\ stream' = Tail(stream)
                   /\ terminal' = (terminal \/ (r.type \in {"idle", "error"} /\ r.s = Root))
                   /\ IF ~Admits(r) THEN UNCHANGED <<phase, rc, ended, command, pipe, closed>>
                      ELSE IF xlat.outcome # ""
                      THEN /\ phase' = "join" /\ ended' = "translator"
                           /\ UNCHANGED <<rc, command, pipe, closed>>
                      ELSE IF CommandFailed
                      THEN /\ Forward(<<r, Failure>>)
                           /\ command' = "consumed" /\ phase' = "join" /\ ended' = "command"
                           /\ UNCHANGED <<rc, closed>>
                      ELSE /\ Forward(<<r>>)
                           /\ UNCHANGED <<phase, rc, ended, command, closed>>
    /\ UNCHANGED <<conn, cancel, xlat>>

\* The loop also ends with the stream or the connection; the exit of the
\* translator is noticed at the next record.
DrainEnds ==
    /\ phase = "drain" /\ stream = <<>>
    /\ \/ conn = "lost" /\ ended' = "lost"
       \/ conn = "ended" /\ ended' = "eof"
    /\ phase' = "join"
    /\ UNCHANGED <<rc, admitted, marker, tools, probed, terminal, command, world, cancel, pipe, closed, xlat>>

\* Without a terminal the command's answer is awaited, with one for 5 s.
Join ==
    /\ phase = "join"
    /\ command = "running" => xlat.outcome # ""
    /\ IF CommandFailed \/ ended = "command"
       THEN /\ Fails(IF CommandFailed THEN <<Failure>> ELSE <<>>)
            /\ command' = IF CommandFailed THEN "consumed" ELSE command
       ELSE /\ phase' = "recover"
            /\ UNCHANGED <<rc, command, pipe, closed>>
    /\ UNCHANGED <<admitted, marker, tools, probed, terminal, ended, world, cancel, xlat>>

\* _recover_status: the status request fails, finds no session, or reports
\* the session idle or busy.
StatusRecord == IF server.dead \/ server.busy THEN Failure ELSE Rec("idle", Root)

Recover ==
    /\ phase = "recover"
    /\ \/ /\ ended = "lost" \/ (ended = "eof" /\ ~terminal)
          /\ xlat.outcome = ""
          /\ Forward(<<StatusRecord>>)
       \/ /\ (ended = "lost" \/ (ended = "eof" /\ ~terminal)) => xlat.outcome # ""
          /\ UNCHANGED pipe
    /\ phase' = "reap" /\ closed' = TRUE
    /\ UNCHANGED <<rc, admitted, marker, tools, probed, terminal, ended, command, world, cancel, xlat>>

Reap ==
    /\ phase = "reap" /\ xlat.outcome # ""
    /\ phase' = "done" /\ rc' = IF rc = -1 THEN 0 ELSE rc
    /\ UNCHANGED <<admitted, marker, tools, probed, terminal, ended, command, world, cancel, pipe, closed, xlat>>

\* The children the marker lists, then the root.
AbortOrder == IF marker = <<>> THEN <<>> ELSE Append(Tail(marker), Head(marker))

\* Cancellation is a process of its own: it reads the marker once, whenever
\* a session is published, and sends one request per session.
AbortBegins ==
    /\ marker # <<>> /\ ~server.dead /\ phase # "done" /\ abort = <<>> /\ stopped = <<>>
    /\ abort' = AbortOrder
    /\ owed' = Kids \cap (xlat.calls \cup {pipe[i].s : i \in DOMAIN pipe})
    /\ UNCHANGED <<bridge, command, world, stopped, pipe, closed, xlat>>

\* The abort of the root ends its turn.
AbortNext ==
    /\ abort # <<>>
    /\ abort' = Tail(abort) /\ stopped' = Append(stopped, Head(abort))
    /\ server' = IF Head(abort) = Root THEN [server EXCEPT !.busy = FALSE]
                 ELSE [server EXCEPT !.finished = @ \cup {Head(abort)}]
    /\ Publish(Rec("error", Head(abort)))
    /\ UNCHANGED <<bridge, command, conn, owed, pipe, closed, xlat>>

BridgeStep == SetUp \/ Subscribe \/ AwaitConnected \/ Prompt \/ Drain \/ DrainEnds \/ Join \/ Recover \/ Reap

Next == BridgeStep \/ ServerStep \/ TranslatorReads \/ AbortBegins \/ AbortNext \/ (phase = "done" /\ UNCHANGED vars)

\* The server ends its turns and answers; the two processes keep running.
Spec == Init /\ [][Next]_vars /\ WF_vars(BridgeStep) /\ WF_vars(TranslatorReads)
        /\ WF_vars(Say) /\ WF_vars(TurnEnds) /\ WF_vars(CommandAnswers) /\ WF_vars(Heartbeat) /\ \A k \in Kids : WF_vars(KidEnds(k))

-----------------------------------------------------------------------------
(* Properties                                                              *)

(* The marker names the admitted sessions, the root first, and a finished  *)
(* attempt has a return code.                                              *)
TypeOK ==
    /\ ToSet(marker) = admitted
    /\ marker # <<>> => Head(marker) = Root
    /\ phase = "done" <=> rc # -1 /\ phase # "reap"
    /\ command # "off" => UseCommand

(* Whatever the other sessions of the server do, no record of theirs is    *)
(* admitted, tracked or translated (_SessionAdmission).                    *)
StrangersInvisible ==
    Strangers \cap (admitted \cup tools \cup xlat.calls \cup {pipe[i].s : i \in DOMAIN pipe}) = {}

(* On an unbroken connection a completed run has seen every fragment of    *)
(* the answer: the subscription precedes the prompt, and a child's idle    *)
(* or a stranger's never settles the run (_run_attempt, step 1).           *)
CompletedSawEverything ==
    xlat.outcome = "completed" /\ conn = "up" => xlat.got = Chunks

(* The bridge never leaves before the translator has written the harness   *)
(* terminal, on any exit path (_close_translator).                         *)
LeavesWithTerminal ==
    phase = "done" => xlat.outcome # ""

(* Cancellation stops every child that has appeared in the run before it  *)
(* stops the root, so that no delegated turn outlives it (_abort_session). *)
ChildrenStopFirst ==
    Root \in ToSet(stopped) => owed \subseteq ToSet(stopped)

-----------------------------------------------------------------------------
(* What the repository says and the code does not keep (README, Deviations). *)

(* The stated rule: a run is completed only by a final assistant message,  *)
(* not by a truncated fragment of the stream.                              *)
NoTruncatedSuccess ==
    xlat.outcome = "completed" => xlat.got = Chunks

(* The stated rule: a terminal event of the stream is authoritative over   *)
(* the answer of the command request.                                      *)
TerminalIsAuthoritative ==
    phase = "done" /\ xlat.outcome = "completed" => rc = 0

(* The stated rule: with the probe on, the first clean idle of the root    *)
(* does not settle the run; the idle after the summary does.               *)
ProbeHoldsTheIdle ==
    xlat.outcome = "completed" => ~server.summarizing
=============================================================================
