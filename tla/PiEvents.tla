------------------------------ MODULE PiEvents ------------------------------
(***************************************************************************)
(* The Pi translator (harness/adapters/pi_events.py): one process reads    *)
(* the native RPC stream line by line, keeps per-stream state and emits    *)
(* canonical events; the harness terminal is decided at end of stream.     *)
(*                                                                         *)
(* A native record is [type, call, kids]: call names a tool call, kids is  *)
(* the child inventory a subagent record carries.  Texts, usage, arguments *)
(* and diagnostics are left out; an event is its type and the id of the    *)
(* row it is about.                                                        *)
(***************************************************************************)
EXTENDS Naturals, FiniteSets, SequencesExt

CONSTANTS Records,    \* the native records Pi may send
          MaxLines    \* bound on the length of the stream

VARIABLES raw,        \* the lines read so far
          session,    \* _STATE: model_resolved, session_negotiated, pending line
          turn,       \* _STATE: thinking block, text, failure and terminal lines
          tools,      \* _STATE["tool_starts"]
          calls,      \* _STATE["delegations"]
          out,        \* canonical events emitted
          eof         \* stdin is at its end and main() has returned

vars == <<raw, session, turn, tools, calls, out, eof>>

CallIds == {r.call : r \in Records} \ {""}
Event(t, id) == [type |-> t, id |-> id]
ThinkingId(n) == <<"thinking", ToString(n)>>
Line == Len(raw) + 1

\* A call with no child row yet.
FreshCall == [started |-> {}, completed |-> {}, childless |-> FALSE]

Init ==
    /\ raw = <<>>
    /\ session = [resolved |-> FALSE, negotiated |-> FALSE, pending |-> FALSE]
    /\ turn = [thinking |-> 0, text |-> FALSE, shown |-> FALSE, failed |-> FALSE,
               aborted |-> FALSE, final |-> 0, ended |-> 0, settled |-> 0, last |-> 0]
    /\ tools = [c \in CallIds |-> {}]
    /\ calls = [c \in CallIds |-> FreshCall]
    /\ out = <<>>
    /\ eof = FALSE

-----------------------------------------------------------------------------
(* Helpers of the handlers                                                 *)

\* A pending line is flushed again although the model is resolved.
FlushedAgain(r) ==
    IF r.type \notin {"get_state", "new_session"} /\ session.pending
    THEN <<Event("model.resolved", <<>>)>> ELSE <<>>

\* model.resolved leaves before the first record that is no handshake.
Flushed(r) ==
    IF r.type \notin {"get_state", "new_session"} /\ session.pending /\ ~session.resolved
    THEN <<Event("model.resolved", <<>>)>> ELSE <<>>

CloseOpenThinking ==
    IF turn.thinking = 0 THEN <<>>
    ELSE <<Event("reasoning_summary.interrupted", ThinkingId(turn.thinking))>>

\* The rows of one call that never saw a terminal, ended in the order opened.
OpenRows(d) == d.started \ d.completed
SettleOpenDelegations(d) ==
    SetToSeq({Event("tool.completed", id) : id \in OpenRows(d)})

Settled(d) == [d EXCEPT !.completed = @ \cup d.started]

\* What every line does: it is counted, and a pending model.resolved leaves.
Reads(r, events) ==
    /\ ~eof
    /\ Len(raw) < MaxLines
    /\ raw' = Append(raw, r)
    /\ out' = out \o Flushed(r) \o events
    /\ eof' = FALSE

Resolves(r) == session' = [session EXCEPT !.resolved = @ \/ Flushed(r) # <<>>]

-----------------------------------------------------------------------------
(* Handlers                                                                *)

\* new_session is acknowledged: the next get_state names the turn's session.
NewSession(r) ==
    /\ r.type = "new_session"
    /\ Reads(r, <<>>)
    /\ session' = [session EXCEPT !.negotiated = TRUE]
    /\ turn' = [turn EXCEPT !.last = Line]
    /\ UNCHANGED <<tools, calls>>

\* The first get_state before the handshake is only kept pending.
GetState(r) ==
    /\ r.type = "get_state"
    /\ LET now == ~session.resolved /\ session.negotiated
       IN  /\ Reads(r, IF now THEN <<Event("model.resolved", <<>>)>> ELSE <<>>)
           /\ session' = [session EXCEPT !.resolved = @ \/ now,
                                         !.pending = (@ /\ ~now) \/ (~session.resolved /\ ~now)]
    /\ turn' = [turn EXCEPT !.last = Line]
    /\ UNCHANGED <<tools, calls>>

\* The event each control acknowledgement is mapped to.
AckEvent == [steer_ack |-> "control.command.delivered",
             steer_refused |-> "control.command.rejected",
             abort_ack |-> "diagnostic"]

\* Pi answers a control command the bridge relayed; the turn goes on.
Acknowledge(r) ==
    /\ r.type \in DOMAIN AckEvent
    /\ Reads(r, <<Event(AckEvent[r.type], <<>>)>>)
    /\ turn' = [turn EXCEPT !.last = Line]
    /\ Resolves(r)
    /\ UNCHANGED <<tools, calls>>

\* A line that parses as no JSON object: only a diagnostic, and translate(),
\* which would note its number, is never called.
Garbage(r) ==
    /\ r.type = "garbage"
    /\ ~eof
    /\ Len(raw) < MaxLines
    /\ raw' = Append(raw, r)
    /\ UNCHANGED <<session, turn, tools, calls, out, eof>>

\* Thinking blocks are paired by the line of their start.
BlockAfter(r) == IF r.type = "thinking_start" THEN Line ELSE 0

Thinking(r) ==
    /\ r.type \in {"thinking_start", "thinking_end"}
    /\ IF r.type = "thinking_start"
       THEN Reads(r, CloseOpenThinking
                     \o <<Event("reasoning_summary.started", ThinkingId(Line))>>)
       ELSE Reads(r, IF turn.thinking = 0 THEN <<>>
                     ELSE <<Event("reasoning_summary.completed", ThinkingId(turn.thinking))>>)
    /\ turn' = [turn EXCEPT !.thinking = BlockAfter(r), !.last = Line]
    /\ Resolves(r)
    /\ UNCHANGED <<tools, calls>>

\* The assistant's text, up to its snapshot in text_end.
Text(r) ==
    /\ r.type \in {"turn_start", "text_start", "text_delta", "text_end"}
    /\ LET shows == r.type = "text_end" /\ ~turn.shown
       IN  /\ Reads(r, IF shows THEN <<Event("message.completed", <<>>)>> ELSE <<>>)
           /\ turn' = [turn EXCEPT
                 !.last = Line,
                 !.text = CASE r.type = "text_start" -> FALSE
                            [] r.type \in {"text_delta", "text_end"} -> TRUE
                            [] OTHER -> @,
                 !.shown = r.type = "text_end" \/ (@ /\ r.type = "text_delta"),
                 !.final = IF r.type = "text_end" THEN Line ELSE @]
    /\ Resolves(r)
    /\ UNCHANGED <<tools, calls>>

\* message_end with its stop reason: stop recovers a missing text_end, error
\* and aborted record the failure and close the open thinking block.
MessageEnd(r) ==
    /\ r.type \in {"end_stop", "end_error", "end_aborted"}
    /\ LET recovers == r.type = "end_stop" /\ ~turn.shown
           fails == r.type # "end_stop"
       IN  /\ Reads(r, IF recovers THEN <<Event("message.completed", <<>>)>>
                       ELSE IF fails THEN CloseOpenThinking ELSE <<>>)
           /\ turn' = [turn EXCEPT
                 !.last = Line,
                 !.text = @ \/ recovers,
                 !.shown = @ \/ recovers,
                 !.final = IF recovers THEN Line ELSE @,
                 !.failed = @ \/ fails,
                 !.aborted = @ \/ r.type = "end_aborted",
                 !.thinking = IF fails THEN 0 ELSE @]
    /\ Resolves(r)
    /\ UNCHANGED <<tools, calls>>

\* A retry that starts withdraws the failure; one that ends failed, a failed
\* compaction and a rejected prompt record one.
Retry(r) ==
    /\ r.type \in {"retry_start", "retry_failed", "compaction_failed", "prompt_rejected"}
    /\ Reads(r, <<>>)
    /\ turn' = [turn EXCEPT !.last = Line, !.failed = r.type # "retry_start"]
    /\ Resolves(r)
    /\ UNCHANGED <<tools, calls>>

\* agent_end that retries or names an error is no success.
AgentEnd(r) ==
    /\ r.type \in {"agent_end", "agent_end_failed", "agent_end_retry"}
    /\ Reads(r, <<>>)
    /\ turn' = [turn EXCEPT
          !.last = Line,
          !.failed = @ \/ (~turn.aborted /\ r.type = "agent_end_failed"),
          !.ended = IF ~turn.aborted /\ r.type = "agent_end" THEN Line ELSE @]
    /\ Resolves(r)
    /\ UNCHANGED <<tools, calls>>

AgentSettled(r) ==
    /\ r.type = "agent_settled"
    /\ Reads(r, <<Event("agent_settled", <<>>)>>)
    /\ turn' = [turn EXCEPT !.last = Line, !.settled = Line]
    /\ Resolves(r)
    /\ UNCHANGED <<tools, calls>>

\* A plain tool: one row per call, whatever is repeated.
Tool(r) ==
    /\ r.type \in {"tool_start", "tool_update", "tool_end"}
    /\ LET opens == r.type = "tool_start" /\ "started" \notin tools[r.call]
           closes == r.type = "tool_end" /\ "completed" \notin tools[r.call]
       IN  /\ Reads(r, IF opens THEN <<Event("tool.started", <<r.call>>)>>
                       ELSE IF closes THEN <<Event("tool.completed", <<r.call>>)>>
                       ELSE <<>>)
           /\ tools' = [tools EXCEPT ![r.call] = @ \cup {"seen"}
                           \cup (IF opens THEN {"started"} ELSE {})
                           \cup (IF closes THEN {"completed"} ELSE {})]
    /\ turn' = [turn EXCEPT !.last = Line]
    /\ Resolves(r)
    /\ UNCHANGED calls

-----------------------------------------------------------------------------
(* Delegations.  A child in an inventory is [name, role, named, state,     *)
(* answer]: role and named say whether the snapshot already carries the    *)
(* child's role and a stable scope, state is "" without a native inventory.*)

\* The row a child is reported under.
DelegationIdentity(c, kid) == <<c, IF kid.named THEN kid.name ELSE "0">>

\* The status a child ends with, "" while it runs.
ChildStatus(kid, final) ==
    IF kid.state \in {"completed", "failed"} THEN kid.state
    ELSE IF kid.state = "" /\ final THEN "completed" ELSE ""

\* One child of one snapshot; acc is the call's flags and the events so far.
\* A row waits for the child's role and a stable scope, and its end for the
\* child's answer; the call's last record takes what there is.
ChildRow(c, final, acc, kid) ==
    LET id == DelegationIdentity(c, kid)
        opens == id \notin acc.d.started /\ (final \/ (kid.role /\ kid.named))
        open == opens \/ id \in acc.d.started
        closes == /\ open /\ ChildStatus(kid, final) # "" /\ id \notin acc.d.completed
                  /\ final \/ (kid.role /\ kid.answer)
    IN  [d |-> [acc.d EXCEPT !.started = IF opens THEN @ \cup {id} ELSE @,
                             !.completed = IF closes THEN @ \cup {id} ELSE @],
         events |-> acc.events
            \o (IF opens THEN <<Event("tool.started", id)>> ELSE <<>>)
            \o (IF closes /\ kid.answer THEN <<Event("message.completed", id)>> ELSE <<>>)
            \o (IF closes THEN <<Event("tool.completed", id)>> ELSE <<>>)]

\* The call's terminal record ends the children it left open, and a call
\* that never had a child gets one row of its own.
SettleCall(c, acc) ==
    LET childless == acc.d.started = {} /\ ~acc.d.childless
    IN  [d |-> [Settled(acc.d) EXCEPT !.childless = @ \/ childless],
         events |-> acc.events \o SettleOpenDelegations(acc.d)
            \o (IF childless THEN <<Event("tool.started", <<c>>), Event("tool.completed", <<c>>)>>
                ELSE <<>>)]

SubagentTool(r) ==
    /\ r.type \in {"sub_start", "sub_update", "sub_end"}
    /\ LET final == r.type = "sub_end"
           step(acc, kid) == ChildRow(r.call, final, acc, kid)
           swept == FoldLeft(step, [d |-> calls[r.call], events |-> <<>>], r.kids)
           done == IF final THEN SettleCall(r.call, swept) ELSE swept
       IN  /\ Reads(r, done.events)
           /\ calls' = [calls EXCEPT ![r.call] = done.d]
    /\ turn' = [turn EXCEPT !.last = Line]
    /\ Resolves(r)
    /\ UNCHANGED tools

-----------------------------------------------------------------------------
(* End of stream                                                           *)

ActiveTools == {c \in CallIds : "seen" \in tools[c] /\ "completed" \notin tools[c]}

\* Text, agent_end and agent_settled arrived, in whatever order.
TerminalUnordered ==
    IF turn.failed \/ ActiveTools # {} THEN "harness.failed"
    ELSE IF turn.final # 0 /\ turn.ended # 0 /\ turn.settled # 0
         THEN "harness.completed" ELSE "harness.failed"

\* A recorded failure, an active tool, and only then the ordered lifecycle.
Terminal ==
    IF turn.failed \/ ActiveTools # {} THEN "harness.failed"
    ELSE IF 0 < turn.final /\ turn.final < turn.ended /\ turn.ended < turn.settled
         THEN "harness.completed" ELSE "harness.failed"

\* Only the calls' own terminals settle children.
OpenDelegationsNone == {}

OpenDelegations == UNION {OpenRows(calls[c]) : c \in CallIds}

\* The terminal cites the last line the translator noted; the event writer
\* refuses a line below 1 and the translator dies with it.
EmitTerminalAtEof ==
    /\ ~eof
    /\ eof' = TRUE
    /\ out' = IF turn.last = 0 THEN out
              ELSE out \o SetToSeq({Event("tool.completed", id) : id \in OpenDelegations})
                       \o CloseOpenThinking \o <<Event(Terminal, <<>>)>>
    /\ UNCHANGED <<raw, session, turn, tools, calls>>

\* Pi's order of the records of one delegation: a start, snapshots, an end.
PiSends(r) ==
    LET before == {raw[i].type : i \in {j \in DOMAIN raw : raw[j].call = r.call}}
    IN  /\ r.type = "sub_start" => before = {}
        /\ r.type = "sub_update" => "sub_start" \in before /\ "sub_end" \notin before
        /\ r.type = "sub_end" => "sub_start" \in before

Translate(r) ==
    /\ PiSends(r)
    /\ \/ NewSession(r) \/ GetState(r) \/ Acknowledge(r) \/ Garbage(r) \/ Thinking(r) \/ Text(r)
       \/ MessageEnd(r) \/ Retry(r) \/ AgentEnd(r) \/ AgentSettled(r)
       \/ Tool(r) \/ SubagentTool(r)

Next == (\E r \in Records : Translate(r)) \/ EmitTerminalAtEof \/ (eof /\ UNCHANGED vars)

Spec == Init /\ [][Next]_vars

-----------------------------------------------------------------------------
(* Properties                                                              *)

TerminalTypes == {"harness.completed", "harness.failed"}
Count(t, id) == Cardinality({i \in DOMAIN out : out[i] = Event(t, id)})
Ids(t) == {out[i].id : i \in {j \in DOMAIN out : out[j].type = t}}
LinesOf(ts) == {i \in DOMAIN raw : raw[i].type \in ts}

(* The per-stream state has its shape, and no thinking block is open whose *)
(* start was not read (_STATE of pi_events.py).                            *)
TypeOK ==
    /\ session \in [resolved : BOOLEAN, negotiated : BOOLEAN, pending : BOOLEAN]
    /\ {turn.final, turn.ended, turn.settled, turn.last} \subseteq 0..Len(raw)
    /\ turn.thinking # 0 => raw[turn.thinking].type = "thinking_start"
    /\ \A c \in CallIds : /\ tools[c] \subseteq {"seen", "started", "completed"}
                          /\ calls[c].completed \subseteq calls[c].started

(* However often Pi repeats a record, a tool call, a delegated child and a *)
(* thinking block start at most once and end at most once                  *)
(* (_handle_tool, _handle_subagent_tool), and the model is resolved once.  *)
EachOnce ==
    /\ \A id \in Ids("tool.started") \cup Ids("tool.completed") :
          Count("tool.started", id) <= 1 /\ Count("tool.completed", id) <= 1
    /\ \A id \in Ids("reasoning_summary.started") :
          Count("reasoning_summary.completed", id) + Count("reasoning_summary.interrupted", id) <= 1
    /\ Count("model.resolved", <<>>) <= 1

(* A child named in the inventories of one call is reported under one row: *)
(* an early snapshot without a stable scope must not open a second one     *)
(* (_delegation_identity and the wait for a usable identity).              *)
OneRowPerChild ==
    \A c \in CallIds :
        Cardinality(calls[c].started) <=
            Cardinality(UNION {{raw[i].kids[k].name : k \in DOMAIN raw[i].kids}
                               : i \in {j \in DOMAIN raw : raw[j].call = c}})

(* Once a subagent call has ended, all its rows have ended and it has at   *)
(* least one: a refused launch and an aborted workflow are both visible    *)
(* before the attempt ends (_settle_open_delegations with its call,        *)
(* _settle_childless_call).                                                *)
EndedCallIsSettled ==
    \A c \in {raw[i].call : i \in LinesOf({"sub_end"})} :
        /\ OpenRows(calls[c]) = {}
        /\ calls[c].started # {} \/ calls[c].childless

(* The translator ends with exactly one harness terminal, its last event,  *)
(* after which no thinking block and no delegation is open, and a          *)
(* completed one leaves no tool running (_emit_terminal_at_eof).           *)
ClosedByTheTerminal ==
    eof /\ turn.last # 0 =>
        /\ Cardinality({i \in DOMAIN out : out[i].type \in TerminalTypes}) = 1
        /\ Last(out).type \in TerminalTypes
        /\ Ids("reasoning_summary.started") =
              Ids("reasoning_summary.completed") \cup Ids("reasoning_summary.interrupted")
        /\ \A id \in Ids("tool.started") \ Ids("tool.completed") :
              Last(out).type = "harness.failed" /\ Len(id) = 1

(* A run is reported completed only when the stream holds final text, then *)
(* a successful agent_end, then agent_settled, and no failure after the    *)
(* last retry (_emit_terminal_at_eof).                                     *)
CompletedMeansLifecycle ==
    (out # <<>> /\ Last(out).type = "harness.completed") =>
        /\ \E i \in LinesOf({"text_end", "end_stop"}), j \in LinesOf({"agent_end"}),
              k \in LinesOf({"agent_settled"}) : i < j /\ j < k
        /\ \A i \in LinesOf({"end_error", "end_aborted", "retry_failed", "compaction_failed",
                           "prompt_rejected", "agent_end_failed"}) :
              \E k \in LinesOf({"retry_start"}) : i < k
              \/ \E a \in LinesOf({"end_aborted"}) : a < i

-----------------------------------------------------------------------------
(* What the repository says and the code does not keep (README, Deviations). *)

(* The stated rule: "A Pi stream is successful only when it contains the   *)
(* complete, ordered turn lifecycle": a stream cut inside a turn is never  *)
(* reported completed.                                                     *)
CutTurnIsNoSuccess ==
    (out # <<>> /\ Last(out).type = "harness.completed") =>
        \A i \in LinesOf({"turn_start", "text_start"}) : \E k \in LinesOf({"agent_settled"}) : i < k

(* The stated contract: the translator "emits the single harness terminal  *)
(* at stream end".                                                         *)
TerminalAtEof == eof => (out # <<>> /\ Last(out).type \in TerminalTypes)
=============================================================================
