---------------------------- MODULE ClaudeEvents ----------------------------
(***************************************************************************)
(* The Claude translator (harness/adapters/claude_events.py).  Root and    *)
(* delegated children share one stream; a child's records carry the id of  *)
(* the tool use that launched it, and all lifecycle state is kept per      *)
(* agent.  A record is [type, agent, id, n]: id is a message, a content    *)
(* index or a delegation, n a token count.                                 *)
(***************************************************************************)
EXTENDS Integers, FiniteSets, SequencesExt

CONSTANTS Records, Children, MaxLines

VARIABLES raw,
          message,   \* _PARTIAL_MESSAGE_ID
          open,      \* _OPEN_REASONING: per agent, the open blocks
          roles,     \* _AGENT_ROLES: delegations known
          settled,   \* _SETTLED_DELEGATIONS
          usage,     \* _AGENT_USAGE
          written,   \* the usage in the result file
          out, eof

vars == <<raw, message, open, roles, settled, usage, written, out, eof>>

Agents == {"root"} \cup Children
Event(t, id, by) == [type |-> t, id |-> id, by |-> by, n |-> 0]
Terminals == {"harness.completed", "harness.failed"}
SumOver(S, f(_)) == FoldLeft(LAMBDA s, x : s + f(x), 0, SetToSeq(S))

Init ==
    /\ raw = <<>> /\ out = <<>> /\ eof = FALSE
    /\ message = [a \in Agents |-> ""]
    /\ open = [a \in Agents |-> {}]
    /\ roles = {} /\ settled = {}
    /\ usage = [k \in Children |-> 0]
    /\ written = -1

Reads(r, events) ==
    /\ ~eof
    /\ Len(raw) < MaxLines
    /\ raw' = Append(raw, r)
    /\ out' = out \o events
    /\ eof' = FALSE

-----------------------------------------------------------------------------
(* Thinking blocks                                                         *)

ReasoningId(a, m, i) == <<a, m, i>>

\* Only the blocks of the given agents.
InterruptedBy(as) == as

InterruptOpenReasoning(as, by) ==
    SetToSeq({Event("reasoning_summary.interrupted", id, by) : id \in UNION {open[a] : a \in InterruptedBy(as)}})
Closed(as) == [a \in Agents |-> IF a \in InterruptedBy(as) THEN {} ELSE open[a]]

MessageStart(r) ==
    /\ r.type = "message_start"
    /\ Reads(r, InterruptOpenReasoning({r.agent}, r.agent))
    /\ message' = [message EXCEPT ![r.agent] = r.id]
    /\ open' = Closed({r.agent})
    /\ UNCHANGED <<roles, settled, usage, written>>

\* Without a native message there is no stable id; a repeated start is one block.
BlockStart(r) ==
    /\ r.type = "block_start"
    /\ LET id == ReasoningId(r.agent, message[r.agent], r.id)
           opens == message[r.agent] # "" /\ id \notin open[r.agent]
       IN  /\ Reads(r, IF opens THEN <<Event("reasoning_summary.started", id, r.agent)>> ELSE <<>>)
           /\ open' = [open EXCEPT ![r.agent] = IF opens THEN @ \cup {id} ELSE @]
    /\ UNCHANGED <<message, roles, settled, usage, written>>

BlockStop(r) ==
    /\ r.type = "block_stop"
    /\ LET ids == {id \in open[r.agent] : id[3] = r.id}
       IN  /\ Reads(r, SetToSeq({Event("reasoning_summary.completed", id, r.agent) : id \in ids}))
           /\ open' = [open EXCEPT ![r.agent] = @ \ ids]
    /\ UNCHANGED <<message, roles, settled, usage, written>>

StreamError(r) ==
    /\ r.type = "stream_error"
    /\ Reads(r, InterruptOpenReasoning({r.agent}, r.agent))
    /\ open' = Closed({r.agent})
    /\ UNCHANGED <<message, roles, settled, usage, written>>

-----------------------------------------------------------------------------
(* Delegations                                                             *)

\* The Agent tool use of the root opens the row; a child's is diagnosed.
AgentUse(r) ==
    /\ r.type = "agent_use"
    /\ LET opens == r.agent = "root"
       IN  /\ Reads(r, IF opens THEN <<Event("tool.started", <<r.id>>, "root")>> ELSE <<>>)
           /\ roles' = IF opens THEN roles \cup {r.id} ELSE roles
    /\ UNCHANGED <<message, open, settled, usage, written>>

TaskStarted(r) ==
    /\ r.type = "task_started"
    /\ Reads(r, <<>>)
    /\ roles' = roles \cup {r.id}
    /\ UNCHANGED <<message, open, settled, usage, written>>

\* The first native terminal wins.
Unsettled(ids) == ids \ settled

SettleDelegations(ids, by) ==
    InterruptOpenReasoning(Unsettled(ids) \cap Agents, by)
    \o SetToSeq({Event("tool.completed", <<d>>, by) : d \in Unsettled(ids)})

\* The Agent tool's result, or the notification that its task ended.
ChildEnds(r) ==
    /\ r.type \in {"tool_result", "task_notification"}
    /\ LET ids == IF r.type = "task_notification" \/ r.id \in roles THEN {r.id} ELSE {}
       IN  /\ Reads(r, IF ids = {} THEN <<Event("tool.completed", <<r.id>>, r.agent)>>
                       ELSE SettleDelegations(ids, "root"))
           /\ open' = Closed(Unsettled(ids) \cap Agents)
           /\ settled' = settled \cup ids
    /\ UNCHANGED <<message, roles, usage, written>>

\* Cumulative usage on every record of a child: the largest stands.
ChildMessage(r) ==
    /\ r.type = "child_message"
    /\ Reads(r, <<Event("message.completed", <<r.id>>, r.agent)>>)
    /\ usage' = [usage EXCEPT ![r.agent] = IF r.n > @ THEN r.n ELSE @]
    /\ UNCHANGED <<message, open, roles, settled, written>>

-----------------------------------------------------------------------------
(* The result record and the end of the stream                             *)

\* The root's usage and every child's largest report.
AttemptUsage(n) == IF n = 0 THEN 0 ELSE n + SumOver(Children, LAMBDA k : usage[k])

\* Only the children that reported their end are settled.
OpenDelegationsNone == {}

OpenDelegations == roles

\* usage.final, then the rows still open, then the terminal; _write_result
\* adds the children to the usage it is given.
Result(r) ==
    /\ r.type \in {"result_success", "result_error"}
    /\ LET settles == SettleDelegations(OpenDelegations, "root")
           rest == UNION {open[a] : a \in Agents \ Unsettled(OpenDelegations)}
           ok == r.type = "result_success"
       IN  /\ Reads(r, <<[Event("usage.final", <<>>, "root") EXCEPT !.n = AttemptUsage(r.n)]>>
                \o settles
                \o (IF ok THEN <<Event("harness.completed", <<>>, "root")>>
                    ELSE SetToSeq({Event("reasoning_summary.interrupted", id, "root") : id \in rest})
                         \o <<Event("harness.failed", <<>>, "root")>>))
           /\ open' = IF ok THEN Closed(Unsettled(OpenDelegations) \cap Agents)
                      ELSE [a \in Agents |-> {}]
           /\ settled' = settled \cup OpenDelegations
           /\ written' = AttemptUsage(AttemptUsage(r.n))
    /\ UNCHANGED <<message, roles, usage>>

\* A stream that dies inside a block never sends its end.  After a harness
\* terminal the writer accepts no block event any more.
EndOfStream ==
    /\ ~eof
    /\ eof' = TRUE
    /\ out' = IF \E i \in DOMAIN out : out[i].type \in Terminals THEN out
              ELSE out \o InterruptOpenReasoning(Agents, "eof")
    /\ open' = Closed(Agents)
    /\ UNCHANGED <<raw, message, roles, settled, usage, written>>

\* Claude's CLI: message ids are new to their agent, a content index that
\* ended is not used again in its message, children exist once launched, and
\* result is the last record.
ClaudeSends(r) ==
    /\ ~\E i \in DOMAIN raw : raw[i].type \in {"result_success", "result_error"}
    /\ r.type = "message_start" =>
          ~\E i \in DOMAIN raw : raw[i].type = r.type /\ raw[i].agent = r.agent /\ raw[i].id = r.id
    /\ r.type = "block_start" =>
          ~\E i \in DOMAIN out :
              /\ out[i].type \in {"reasoning_summary.completed", "reasoning_summary.interrupted"}
              /\ out[i].id = <<r.agent, message[r.agent], r.id>>
    /\ r.agent \in Children => r.agent \in roles \ settled
    /\ r.type \in {"tool_result", "task_notification"} => r.id \in roles
    /\ r.type = "agent_use" => r.id \notin roles

Translate(r) ==
    /\ ClaudeSends(r)
    /\ \/ MessageStart(r) \/ BlockStart(r) \/ BlockStop(r) \/ StreamError(r) \/ AgentUse(r)
       \/ TaskStarted(r) \/ ChildEnds(r) \/ ChildMessage(r) \/ Result(r)

Next == (\E r \in Records : Translate(r)) \/ EndOfStream \/ (eof /\ UNCHANGED vars)

Spec == Init /\ [][Next]_vars

-----------------------------------------------------------------------------
(* Properties                                                              *)

Count(t, id) == Cardinality({i \in DOMAIN out : out[i].type = t /\ out[i].id = id})
Positions(ts) == {i \in DOMAIN out : out[i].type \in ts}

(* Blocks are kept under the agent they belong to, and what is settled is  *)
(* a known delegation (_OPEN_REASONING, _SETTLED_DELEGATIONS).             *)
TypeOK ==
    /\ \A a \in Agents : \A id \in open[a] : id[1] = a /\ id[2] = message[a]
    /\ settled \subseteq roles
    /\ usage \in [Children -> Nat]

(* A thinking block is ended exactly once: by its own stop, its agent's    *)
(* next message, error or end, the failed result, or the end of stream;    *)
(* never by what another agent does (_interrupt_open_reasoning).           *)
BlockEndsByItsAgent ==
    /\ \A i \in Positions({"reasoning_summary.started"}) :
          /\ Count("reasoning_summary.started", out[i].id) = 1
          /\ Count("reasoning_summary.completed", out[i].id)
             + Count("reasoning_summary.interrupted", out[i].id) <= 1
          /\ eof /\ Positions({"harness.completed"}) = {} =>
                Count("reasoning_summary.completed", out[i].id)
                + Count("reasoning_summary.interrupted", out[i].id) = 1
    /\ \A i \in Positions({"reasoning_summary.completed", "reasoning_summary.interrupted"}) :
          out[i].by \in {out[i].id[1], "eof"}
          \/ /\ out[i].by = "root"
             /\ \/ <<out[i].id[1]>> \in {out[j].id : j \in Positions({"tool.completed"})}
                \/ Positions({"harness.failed"}) # {}

(* A delegation announced by its tool use, its task and two terminals ends *)
(* once, and is not left open by the result (_settle_delegation,           *)
(* _settle_open_delegations).                                              *)
DelegationEndsOnce ==
    \A i \in Positions({"tool.started"}) :
        /\ Count("tool.completed", out[i].id) <= 1
        /\ Positions(Terminals) # {} => Count("tool.completed", out[i].id) = 1

(* usage.final is the root's usage and each child's largest report, however*)
(* often the child repeats it (_accumulate_agent_usage, _attempt_usage).   *)
UsageFinalIsTheTotal ==
    \A i \in Positions({"usage.final"}) :
        LET n == raw[Len(raw)].n
            largest(k) == LET S == {0} \cup {raw[j].n : j \in {m \in DOMAIN raw :
                                    raw[m].type = "child_message" /\ raw[m].agent = k}}
                          IN  CHOOSE x \in S : \A y \in S : y <= x
        IN  n > 0 => out[i].n = n + SumOver(Children, largest)

-----------------------------------------------------------------------------
(* What the repository says and the code does not keep (README, Deviations). *)

(* The stated rule: the usage of an attempt is neither missed nor counted  *)
(* twice; the result file and usage.final report the same total.           *)
UsageCountedOnce ==
    \A i \in Positions({"usage.final"}) : written = out[i].n
=============================================================================
