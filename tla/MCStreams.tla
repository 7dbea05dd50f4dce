----------------------------- MODULE MCStreams -----------------------------
(***************************************************************************)
(* The streams of a task: the canonical event stream from its writer to    *)
(* the task's log rows, and the four translators that turn the native      *)
(* stream of a harness into it.  A container runs one translator           *)
(* (deploy/worker-entrypoint/harness/adapters), so a behaviour is one of   *)
(* the instances below; the variables of the other translators are Off and *)
(* the event stream stays in its initial state.                            *)
(***************************************************************************)
EXTENDS EventProjection

VARIABLES scenario,   \* which of the instances below runs
          \* PiEvents
          piRaw, session, turn, tools, calls, piOut, piEof,
          \* CodexEvents
          codexRaw, thread, reasoning, delegation, codexUsage, last, result,
          codexOut, codexEof,
          \* ClaudeEvents
          claudeRaw, message, open, roles, settled, claudeUsage, written,
          claudeOut, claudeEof,
          \* OpenCodeEvents
          ocRaw, st, ocEof

eventVars == <<file, torn, receipts, cursor, snap, phase, faults, lost, rows, mem>>
piVars == <<piRaw, session, turn, tools, calls, piOut, piEof>>
codexVars == <<codexRaw, thread, reasoning, delegation, codexUsage, last,
               result, codexOut, codexEof>>
claudeVars == <<claudeRaw, message, open, roles, settled, claudeUsage,
                written, claudeOut, claudeEof>>
ocVars == <<ocRaw, st, ocEof>>
streamVars == <<scenario, eventVars, piVars, codexVars, claudeVars, ocVars>>

Off == "off"
EventOff == Init
PiOff ==
    /\ piRaw = Off /\ session = Off /\ turn = Off /\ tools = Off
    /\ calls = Off /\ piOut = Off /\ piEof = Off
CodexOff ==
    /\ codexRaw = Off /\ thread = Off /\ reasoning = Off /\ delegation = Off
    /\ codexUsage = Off /\ last = Off /\ result = Off /\ codexOut = Off
    /\ codexEof = Off
ClaudeOff ==
    /\ claudeRaw = Off /\ message = Off /\ open = Off /\ roles = Off
    /\ settled = Off /\ claudeUsage = Off /\ written = Off /\ claudeOut = Off
    /\ claudeEof = Off
OcOff ==
    /\ ocRaw = Off /\ st = Off /\ ocEof = Off

-----------------------------------------------------------------------------
(* Events of the canonical stream                                          *)

Ev(type, agent, key, sub) ==
    [type |-> type, agent |-> agent, key |-> key, sub |-> sub, sep |-> FALSE]

Lifecycle(types) == {Ev(t, "root", "", "") : t \in types}

(* Live previews of the root and of a child, and thinking blocks.          *)
MessageEvents ==
    Lifecycle({"run.started", "harness.completed"})
    \cup {Ev("message.delta", a, "", "") : a \in {"root", "kid"}}
    \cup {Ev("message.completed", "root", "", ""), Ev("diagnostic", "root", "kit drift", "")}
    \cup {Ev(t, "root", "think", "") : t \in {"reasoning_summary.started",
             "reasoning_summary.completed", "reasoning_summary.interrupted"}}

(* A delegated child whose identity may be enriched between its start and  *)
(* its completion.                                                         *)
ToolEvents ==
    Lifecycle({"run.started", "harness.failed", "worker.finalization", "run.failed"})
    \cup {Ev("tool.started", "root", "child", "kid")}
    \cup {Ev("tool.completed", "root", "child", s) : s \in {"kid", "kid-run"}}

-----------------------------------------------------------------------------
(* Native records of Pi                                                    *)

PiPlain(types) == {[type |-> t, call |-> "", kids |-> <<>>] : t \in types}
PiCall(t, c, kids) == [type |-> t, call |-> c, kids |-> kids]

\* A turn with its failures, retries and its three terminal facts.
PiTurnRecords ==
    PiPlain({"turn_start", "text_start", "text_end", "end_stop", "end_error", "end_aborted",
           "retry_start", "agent_end", "agent_end_failed", "agent_settled"})

\* The handshake and the failures a turn seldom sees.
PiSessionRecords ==
    PiPlain({"new_session", "get_state", "text_end", "text_delta", "retry_failed",
           "compaction_failed", "prompt_rejected", "agent_end", "agent_end_retry",
           "agent_settled", "steer_ack", "steer_refused", "abort_ack"})

\* Thinking blocks and a plain tool around the terminal facts.
PiToolRecords ==
    PiPlain({"thinking_start", "thinking_end", "end_error", "text_end", "agent_end",
           "agent_settled"})
    \cup {PiCall(t, "bash", <<>>) : t \in {"tool_start", "tool_update", "tool_end"}}

PiKid(n, role, named, state, answer) ==
    [name |-> n, role |-> role, named |-> named, state |-> state, answer |-> answer]

\* Two workflow children whose snapshots grow, and a call without children.
PiWorkflowRecords ==
    {PiCall("sub_start", "flow", <<>>), PiCall("sub_end", "flow", <<>>),
     PiCall("sub_update", "flow", <<PiKid("a", FALSE, TRUE, "running", FALSE)>>),
     PiCall("sub_update", "flow", <<PiKid("a", TRUE, TRUE, "running", FALSE),
                                    PiKid("b", TRUE, TRUE, "running", FALSE)>>),
     PiCall("sub_update", "flow", <<PiKid("a", TRUE, TRUE, "completed", TRUE),
                                    PiKid("b", TRUE, TRUE, "completed", FALSE)>>),
     PiCall("sub_end", "flow", <<PiKid("a", TRUE, TRUE, "completed", TRUE),
                                 PiKid("b", FALSE, TRUE, "failed", FALSE)>>),
     PiCall("sub_start", "status", <<>>), PiCall("sub_end", "status", <<>>)}
    \cup PiPlain({"agent_end", "agent_settled"})

\* A single-agent launch: no native state, its scope known only later.
PiSingleRecords ==
    {PiCall("sub_start", "solo", <<>>), PiCall("sub_end", "solo", <<>>),
     PiCall("sub_update", "solo", <<PiKid("s", TRUE, FALSE, "", FALSE)>>),
     PiCall("sub_update", "solo", <<PiKid("s", TRUE, TRUE, "", FALSE)>>),
     PiCall("sub_end", "solo", <<PiKid("s", TRUE, TRUE, "", TRUE)>>)}
    \cup PiPlain({"end_error", "agent_settled"})

PiDelegationRecords == PiWorkflowRecords \cup PiSingleRecords

-----------------------------------------------------------------------------
(* Native records of Codex: a root thread and one or two child threads     *)

CodexRecord(t, th, item, kids, n) == [type |-> t, thread |-> th, item |-> item, kids |-> kids, n |-> n]

\* One item id used by two threads, and the turn terminals of both.
CodexThreadRecords ==
    {CodexRecord("thread_started", "root", "", {}, 0), CodexRecord("request_failed", "", "", {}, 0)}
    \cup {CodexRecord(t, th, "item_0", {}, 0) : t \in {"reasoning_started", "reasoning_completed"},
                                        th \in {"root", "kid"}}
    \cup {CodexRecord(t, th, "", {}, 0) : t \in {"turn_completed", "turn_failed"}, th \in {"root", "kid"}}
    \cup {CodexRecord("message", "root", "plan", {}, 0), CodexRecord("message", "kid", "report", {}, 0)}
    \cup {CodexRecord(t, "root", "ls", {}, 0) : t \in {"command_started", "command_completed"}}
    \cup {CodexRecord(t, "kid", "", {}, 0) : t \in {"retry", "compacted", "warning"}}

\* A fan-out of two children under one spawn, with growing usage.
CodexDelegationRecords ==
    {CodexRecord("thread_started", "root", "", {}, 0),
     CodexRecord("spawn", "root", "call", {"kid"}, 0), CodexRecord("spawn", "root", "call", {"kid", "kid2"}, 0),
     CodexRecord("spawn", "kid", "nested", {"kid2"}, 0),
     CodexRecord("child_states", "root", "", {"kid"}, 0), CodexRecord("child_states", "root", "", {"kid", "kid2"}, 0),
     CodexRecord("usage", "root", "", {}, 5), CodexRecord("usage", "kid", "", {}, 1), CodexRecord("usage", "kid", "", {}, 2),
     CodexRecord("usage", "kid2", "", {}, 3), CodexRecord("turn_completed", "root", "", {}, 0),
     CodexRecord("turn_failed", "root", "", {}, 0)}

-----------------------------------------------------------------------------
(* Native records of Claude Code: a root and a child reusing message ids   *)

ClaudeRecord(t, a, id, n) == [type |-> t, agent |-> a, id |-> id, n |-> n]

ClaudeLaunch == {ClaudeRecord("agent_use", "root", "kid", 0), ClaudeRecord("task_started", "root", "kid", 0)}

ClaudeBlockRecords ==
    ClaudeLaunch
    \cup {ClaudeRecord("message_start", a, "msg", 0) : a \in {"root", "kid"}}
    \cup {ClaudeRecord("message_start", "root", "msg2", 0), ClaudeRecord("stream_error", "kid", "", 0),
          ClaudeRecord("tool_result", "root", "kid", 0)}
    \cup {ClaudeRecord(t, a, "0", 0) : t \in {"block_start", "block_stop"}, a \in {"root", "kid"}}
    \cup {ClaudeRecord(t, "root", "", 1) : t \in {"result_success", "result_error"}}

ClaudeChildRecords ==
    ClaudeLaunch
    \cup {ClaudeRecord("agent_use", "kid", "nested", 0), ClaudeRecord("task_notification", "root", "kid", 0),
          ClaudeRecord("tool_result", "root", "kid", 0), ClaudeRecord("child_message", "kid", "a", 1),
          ClaudeRecord("child_message", "kid", "b", 3), ClaudeRecord("result_success", "root", "", 5),
          ClaudeRecord("result_error", "root", "", 5)}

-----------------------------------------------------------------------------
(* Native records of OpenCode: a root session and its child                *)

OpenCodeRecord(t, s, m, id, v, n) == [type |-> t, s |-> s, m |-> m, id |-> id, v |-> v, n |-> n]
Native(t, s, v) == OpenCodeRecord(t, s, "m", "p", v, -1)
Said(s, m, v, n) == OpenCodeRecord("message", s, m, "", v, n)
Idle == Native("idle", "root", <<>>)
Kid == Native("created", "kid", <<>>)

OneChild == [s \in {"root", "kid"} |-> IF s = "root" THEN "" ELSE "root"]

\* m is the root's assistant message, w its user's prompt; the child reuses m.
OpenCodeTextRecords ==
    {Kid, Idle, Native("idle", "kid", <<>>), Native("compaction", "root", <<>>),
     Native("text", "root", <<"a">>), Native("text", "kid", <<"k">>),
     Said("root", "m", <<"assistant", "open", "ok">>, -1),
     Said("root", "w", <<"user", "open", "ok">>, -1),
     Said("kid", "m", <<"assistant", "finished", "ok">>, -1)}
    \cup {OpenCodeRecord("delta", "root", m, "p", <<c>>, -1) : m \in {"m", "w"}, c \in {"b"}}
    \cup {Native("delta", "root", <<"c">>), Native("delta", "kid", <<"k">>)}

OpenCodeBlockRecords ==
    {Idle, Native("text", "root", <<"a">>), Native("error", "root", <<"api">>), Native("error", "root", <<"abort">>),
     Native("status", "root", <<"limit">>), Native("next.step.failed", "root", <<>>),
     Native("next.retried", "root", <<"again">>), Native("next.retried", "root", <<"final">>),
     Said("root", "m", <<"assistant", "open", "error">>, -1),
     OpenCodeRecord("reasoning", "root", "w", "q", <<"start">>, -1)}
    \cup {Native(t, "root", <<e>>) : t \in {"reasoning", "next.reasoning"}, e \in {"start", "end"}}

\* p is the call that launches kid, q a call of either session.
OpenCodeChildRecords ==
    {Kid, Idle, Native("idle", "kid", <<>>), Native("error", "kid", <<"abort">>), Native("ask", "kid", <<>>),
     Native("status", "kid", <<"limit">>), Native("status", "root", <<"again">>), Native("text", "root", <<"a">>),
     Said("kid", "m", <<"assistant", "open", "ok">>, 1), Said("kid", "m", <<"assistant", "finished", "ok">>, 3),
     Said("root", "m", <<"assistant", "open", "ok">>, 5), OpenCodeRecord("step-finish", "root", "m", "", <<>>, 7)}
    \cup {OpenCodeRecord("tool", "root", "m", "p", <<v, "input", "kid">>, -1) : v \in {"pending", "completed"}}
    \cup {OpenCodeRecord("tool", "kid", "m", "q", <<v, "empty", "">>, -1) : v \in {"pending", "running", "error"}}

\* Both families for the root's text and calls, with a removal.
OpenCodeDurableRecords ==
    {Idle, Native("removed", "root", <<>>), Native("text", "root", <<"a">>), Native("next.text.delta", "root", <<"a">>),
     Native("next.text.delta", "root", <<"b">>), Native("next.text.ended", "root", <<"a", "b">>),
     OpenCodeRecord("next.step.ended", "root", "m", "", <<>>, 4), OpenCodeRecord("tool", "root", "m", "p", <<"running", "input", "">>, -1)}
    \cup {Native("next.tool", "root", <<v>>) : v \in {"progress", "called", "failed"}}
    \cup {Native(t, "root", <<>>) : t \in {"next.tool.input", "next.compaction", "retry", "todo"}}

-----------------------------------------------------------------------------
(* The instances, each with its bounds.                                    *)

Live == INSTANCE EventProjection WITH
    Events <- MessageEvents, MaxEvents <- 4, MaxFaults <- 1
PiTurns == INSTANCE PiEvents WITH
    Records <- PiTurnRecords, MaxLines <- 5, raw <- piRaw, out <- piOut,
    eof <- piEof
PiSession == INSTANCE PiEvents WITH
    Records <- PiSessionRecords, MaxLines <- 4, raw <- piRaw, out <- piOut,
    eof <- piEof
PiTools == INSTANCE PiEvents WITH
    Records <- PiToolRecords, MaxLines <- 5, raw <- piRaw, out <- piOut,
    eof <- piEof
PiDelegations == INSTANCE PiEvents WITH
    Records <- PiDelegationRecords, MaxLines <- 5, raw <- piRaw, out <- piOut,
    eof <- piEof
CodexThreads == INSTANCE CodexEvents WITH
    Records <- CodexThreadRecords, Children <- {"kid", "kid2"}, MaxLines <- 5,
    raw <- codexRaw, usage <- codexUsage, out <- codexOut, eof <- codexEof
CodexDelegations == INSTANCE CodexEvents WITH
    Records <- CodexDelegationRecords, Children <- {"kid", "kid2"},
    MaxLines <- 5, raw <- codexRaw, usage <- codexUsage, out <- codexOut,
    eof <- codexEof
ClaudeBlocks == INSTANCE ClaudeEvents WITH
    Records <- ClaudeBlockRecords, Children <- {"kid"}, MaxLines <- 5,
    raw <- claudeRaw, usage <- claudeUsage, out <- claudeOut, eof <- claudeEof
ClaudeChildren == INSTANCE ClaudeEvents WITH
    Records <- ClaudeChildRecords, Children <- {"kid"}, MaxLines <- 6,
    raw <- claudeRaw, usage <- claudeUsage, out <- claudeOut, eof <- claudeEof
OpenCodeText == INSTANCE OpenCodeEvents WITH
    Records <- OpenCodeTextRecords, Messages <- {"m", "w"}, Ids <- {"p", "q"},
    Parent <- OneChild, BatchMax <- 2, MaxLines <- 5, raw <- ocRaw,
    eof <- ocEof
OpenCodeBlocks == INSTANCE OpenCodeEvents WITH
    Records <- OpenCodeBlockRecords, Messages <- {"m", "w"},
    Ids <- {"p", "q"}, Parent <- OneChild, BatchMax <- 2, MaxLines <- 4,
    raw <- ocRaw, eof <- ocEof
OpenCodeChildren == INSTANCE OpenCodeEvents WITH
    Records <- OpenCodeChildRecords, Messages <- {"m", "w"},
    Ids <- {"p", "q"}, Parent <- OneChild, BatchMax <- 2, MaxLines <- 4,
    raw <- ocRaw, eof <- ocEof
OpenCodeDurable == INSTANCE OpenCodeEvents WITH
    Records <- OpenCodeDurableRecords, Messages <- {"m", "w"},
    Ids <- {"p", "q"}, Parent <- OneChild, BatchMax <- 2, MaxLines <- 4,
    raw <- ocRaw, eof <- ocEof

EventInit ==
    /\ PiOff /\ CodexOff /\ ClaudeOff /\ OcOff
    /\ \/ scenario = "events_tools" /\ Init
       \/ scenario = "events_messages" /\ Live!Init
EventOnly == UNCHANGED <<scenario, piVars, codexVars, claudeVars, ocVars>>
ToolsStep == scenario = "events_tools" /\ Next /\ EventOnly
LiveStep == scenario = "events_messages" /\ Live!Next /\ EventOnly

PiInit ==
    /\ EventOff /\ CodexOff /\ ClaudeOff /\ OcOff
    /\ \/ scenario = "pi_turns" /\ PiTurns!Init
       \/ scenario = "pi_session" /\ PiSession!Init
       \/ scenario = "pi_tools" /\ PiTools!Init
       \/ scenario = "pi_delegations" /\ PiDelegations!Init
PiOnly == UNCHANGED <<scenario, eventVars, codexVars, claudeVars, ocVars>>
PiTurnsStep == scenario = "pi_turns" /\ PiTurns!Next /\ PiOnly
PiSessionStep == scenario = "pi_session" /\ PiSession!Next /\ PiOnly
PiToolsStep == scenario = "pi_tools" /\ PiTools!Next /\ PiOnly
PiDelegationsStep == scenario = "pi_delegations" /\ PiDelegations!Next /\ PiOnly

CodexInit ==
    /\ EventOff /\ PiOff /\ ClaudeOff /\ OcOff
    /\ \/ scenario = "codex_threads" /\ CodexThreads!Init
       \/ scenario = "codex_delegations" /\ CodexDelegations!Init
CodexOnly == UNCHANGED <<scenario, eventVars, piVars, claudeVars, ocVars>>
CodexThreadsStep == scenario = "codex_threads" /\ CodexThreads!Next /\ CodexOnly
CodexDelegationsStep == scenario = "codex_delegations" /\ CodexDelegations!Next /\ CodexOnly

ClaudeInit ==
    /\ EventOff /\ PiOff /\ CodexOff /\ OcOff
    /\ \/ scenario = "claude_blocks" /\ ClaudeBlocks!Init
       \/ scenario = "claude_children" /\ ClaudeChildren!Init
ClaudeOnly == UNCHANGED <<scenario, eventVars, piVars, codexVars, ocVars>>
ClaudeBlocksStep == scenario = "claude_blocks" /\ ClaudeBlocks!Next /\ ClaudeOnly
ClaudeChildrenStep == scenario = "claude_children" /\ ClaudeChildren!Next /\ ClaudeOnly

OcInit ==
    /\ EventOff /\ PiOff /\ CodexOff /\ ClaudeOff
    /\ \/ scenario = "opencode_text" /\ OpenCodeText!Init
       \/ scenario = "opencode_blocks" /\ OpenCodeBlocks!Init
       \/ scenario = "opencode_children" /\ OpenCodeChildren!Init
       \/ scenario = "opencode_durable" /\ OpenCodeDurable!Init
OcOnly == UNCHANGED <<scenario, eventVars, piVars, codexVars, claudeVars>>
OpenCodeTextStep == scenario = "opencode_text" /\ OpenCodeText!Next /\ OcOnly
OpenCodeBlocksStep == scenario = "opencode_blocks" /\ OpenCodeBlocks!Next /\ OcOnly
OpenCodeChildrenStep == scenario = "opencode_children" /\ OpenCodeChildren!Next /\ OcOnly
OpenCodeDurableStep == scenario = "opencode_durable" /\ OpenCodeDurable!Next /\ OcOnly

StreamInit == EventInit \/ PiInit \/ CodexInit \/ ClaudeInit \/ OcInit
StreamNext == ToolsStep \/ LiveStep \/ PiTurnsStep \/ PiSessionStep \/
              PiToolsStep \/ PiDelegationsStep \/ CodexThreadsStep \/
              CodexDelegationsStep \/ ClaudeBlocksStep \/
              ClaudeChildrenStep \/ OpenCodeTextStep \/ OpenCodeBlocksStep \/
              OpenCodeChildrenStep \/ OpenCodeDurableStep

StreamSpec == StreamInit /\ [][StreamNext]_streamVars

-----------------------------------------------------------------------------
(* Properties                                                              *)

(* What a translator opens it closes once and for its own agent: thinking, *)
(* tool and delegation rows of Pi, Codex, Claude and OpenCode end once, by *)
(* the agent that owns them and at the latest with the terminal event,     *)
(* deltas keep their order, and every child is one row (pi_events,         *)
(* codex_events, claude_events, opencode_events); of the streamed messages *)
(* one is live at a time, and no row keeps a spinner after the terminal    *)
(* (worker_event_projector).                                               *)
TranslatedRowsSettle ==
    /\ scenario = "pi_tools" =>
           /\ PiTools!TypeOK
           /\ PiTools!EachOnce
           /\ PiTools!ClosedByTheTerminal
    /\ scenario = "pi_session" =>
           /\ PiSession!TypeOK
           /\ PiSession!EachOnce
    /\ scenario = "pi_delegations" =>
           /\ PiDelegations!TypeOK
           /\ PiDelegations!EachOnce
           /\ PiDelegations!ClosedByTheTerminal
           /\ PiDelegations!OneRowPerChild
           /\ PiDelegations!EndedCallIsSettled
    /\ scenario = "codex_threads" =>
           /\ CodexThreads!TypeOK
           /\ CodexThreads!RowsEndOnce
           /\ CodexThreads!TurnClosesItsRows
    /\ scenario = "codex_delegations" =>
           /\ CodexDelegations!TypeOK
           /\ CodexDelegations!RowsEndOnce
           /\ CodexDelegations!TurnClosesItsRows
    /\ scenario = "claude_blocks" =>
           /\ ClaudeBlocks!TypeOK
           /\ ClaudeBlocks!BlockEndsByItsAgent
    /\ scenario = "claude_children" =>
           /\ ClaudeChildren!TypeOK
           /\ ClaudeChildren!DelegationEndsOnce
    /\ scenario = "opencode_text" =>
           /\ OpenCodeText!TypeOK
           /\ OpenCodeText!DeltasInOrder
    /\ scenario = "opencode_blocks" =>
           /\ OpenCodeBlocks!TypeOK
           /\ OpenCodeBlocks!BlockEndsOnce
    /\ scenario = "opencode_children" =>
           /\ OpenCodeChildren!TypeOK
           /\ OpenCodeChildren!DelegationEndsOnce
    /\ scenario = "opencode_durable" =>
           /\ OpenCodeDurable!TypeOK
           /\ OpenCodeDurable!DelegationEndsOnce
    /\ scenario = "events_messages" => Live!OneLiveRow /\ Live!NoSpinnerAfterTheEnd
    /\ scenario = "events_tools" => NoSpinnerAfterTheEnd

(* The outcome of an attempt is that of its root: Pi completes only after  *)
(* its whole life cycle, the last root turn of Codex decides and gives the *)
(* result, the result of OpenCode is the text of its root and only the     *)
(* root settles the task, and the final usage of an attempt counts every   *)
(* agent once.                                                             *)
OutcomeIsTheRoots ==
    /\ scenario = "pi_turns" => PiTurns!CompletedMeansLifecycle
    /\ scenario = "pi_session" => PiSession!CompletedMeansLifecycle
    /\ scenario = "codex_threads" =>
           /\ CodexThreads!LastTurnDecides
           /\ CodexThreads!ResultIsTheRoots
    /\ scenario = "codex_delegations" => CodexDelegations!EachChildCountedOnce
    /\ scenario = "claude_children" => ClaudeChildren!UsageFinalIsTheTotal
    /\ scenario = "opencode_text" => OpenCodeText!ResultIsRootText
    /\ scenario = "opencode_children" =>
           /\ OpenCodeChildren!UsageFinalAddsChildren
           /\ OpenCodeChildren!RootSettles
=============================================================================
