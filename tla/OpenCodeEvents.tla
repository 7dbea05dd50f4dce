--------------------------- MODULE OpenCodeEvents ---------------------------
(***************************************************************************)
(* The OpenCode translator (harness/adapters/opencode_events.py).  One SSE *)
(* stream carries the root session and its descendants; two event families *)
(* (message.part and session.next) report the same facts.  A record is     *)
(* [type, s, m, id, v, n]: session, message, part or call, values, tokens. *)
(* st is the translator's _STATE; a handler maps it to the next one.  Text *)
(* is a sequence of chunks; aged says that the delta batch is 250 ms old.  *)
(***************************************************************************)
EXTENDS Integers, FiniteSets, SequencesExt

CONSTANTS Records, Messages, Ids, Parent, BatchMax, MaxLines

VARIABLES raw, st, eof

vars == <<raw, st, eof>>

Root == "root"
Sessions == DOMAIN Parent
Keys == Sessions \X Messages
None == <<>>
Unused == -1

Init ==
    /\ raw = <<>> /\ eof = FALSE
    /\ st = [agents |-> {}, users |-> {}, assistant |-> <<>>, message |-> "",
             text |-> [k \in Keys |-> <<>>], held |-> [k \in Keys |-> <<>>],
             parts |-> <<>>, batch |-> None, near |-> None, rows |-> <<>>,
             tools |-> [i \in Ids |-> [known |-> FALSE, agent |-> Root, started |-> FALSE,
                                       completed |-> FALSE, child |-> ""]],
             blocks |-> <<>>, family |-> [k \in Keys |-> ""],
             failure |-> "", aborted |-> FALSE, terminal |-> "",
             usage |-> Unused, childUsage |-> [k \in Keys |-> 0], out |-> <<>>]

-----------------------------------------------------------------------------
(* Emitting: deltas are batched, everything else flushes the batch         *)

Event(t, by, id, v) == [type |-> t, by |-> by, id |-> id, v |-> v, n |-> Unused]

FlushDelta(s, keep) ==
    IF s.batch = None THEN [s EXCEPT !.near = IF keep THEN @ ELSE None]
    ELSE [s EXCEPT !.out = Append(@, Event("message.delta", s.batch[1][1], s.batch[1][2], s.batch[2])),
                   !.batch = None,
                   !.near = IF keep THEN s.batch[1] ELSE None]

\* The first fragment of a message goes out at once, its continuation in batches.
EmitDelta(s, by, m, chunk, aged) ==
    LET key == <<by, m>>
        t == IF s.batch # None /\ s.batch[1] # key THEN FlushDelta(s, FALSE) ELSE s
        grown == [t EXCEPT !.batch[2] = @ \o chunk]
    IN  IF t.batch # None
        THEN IF aged \/ Len(grown.batch[2]) >= BatchMax THEN FlushDelta(grown, TRUE) ELSE grown
        ELSE IF t.near = key THEN [t EXCEPT !.batch = <<key, chunk>>]
        ELSE [t EXCEPT !.out = Append(@, Event("message.delta", by, m, chunk)), !.near = key]

Emit(s, t, by, id) ==
    LET f == FlushDelta(s, FALSE) IN [f EXCEPT !.out = Append(@, Event(t, by, id, <<>>))]

-----------------------------------------------------------------------------
(* Text                                                                    *)

\* Child text never joins the root result.
Remember(s, by, m) ==
    IF by # Root THEN s
    ELSE [s EXCEPT !.assistant = IF Contains(@, m) THEN @ ELSE Append(@, m), !.message = m]

TextOf(s, m) == s.text[Root, m]

RefreshText(s) == [s EXCEPT !.parts = FlattenSeq([i \in DOMAIN s.assistant |-> TextOf(s, s.assistant[i])])]

\* A delta that the snapshot already ends with is not added again.
EndsWith(text, chunk) == IsSuffix(chunk, text)

HandleDelta(s, r, aged) ==
    LET key == <<r.s, r.m>>
        t == RefreshText([s EXCEPT !.text[key] = IF EndsWith(@, r.v) THEN @ ELSE @ \o r.v])
    IN  IF key \in s.users THEN s
        ELSE IF Contains(s.assistant, r.m) THEN EmitDelta(t, r.s, r.m, r.v, aged)
        ELSE [t EXCEPT !.held[key] = Append(@, r.v)]

HandleSnapshot(s, r) ==
    IF <<r.s, r.m>> \in s.users THEN s ELSE RefreshText([s EXCEPT !.text[<<r.s, r.m>>] = r.v])

FlushHeld(s, key, aged) ==
    [FoldLeft(LAMBDA t, c : EmitDelta(t, key[1], key[2], c, aged), s, s.held[key])
        EXCEPT !.held[key] = <<>>]

CompleteChildMessage(s, key) ==
    IF s.text[key] = <<>> THEN s ELSE Emit(s, "message.completed", key[1], key[2])

HandleDurableText(s, r, aged) ==
    LET key == <<r.s, r.m>>
        t == Remember(s, r.s, r.m)
        grown == [t EXCEPT !.text[key] = @ \o r.v]
        ended == [t EXCEPT !.text[key] = r.v]
    IN  IF r.type = "next.text.delta"
        THEN LET u == IF EndsWith(t.text[key], r.v) THEN t ELSE EmitDelta(grown, r.s, r.m, r.v, aged)
             IN  IF r.s = Root THEN RefreshText(u) ELSE u
        ELSE IF r.s = Root THEN RefreshText(ended) ELSE CompleteChildMessage(ended, key)

-----------------------------------------------------------------------------
(* Reasoning blocks                                                        *)

BlockId(fam, r) == <<fam, r.s, r.m, r.id>>
Status(s, id) == IF \E i \in DOMAIN s.blocks : s.blocks[i][1] = id
                 THEN (CHOOSE b \in ToSet(s.blocks) : b[1] = id)[2] ELSE "absent"
SetBlock(s, id, status) ==
    IF Status(s, id) = "absent" THEN [s EXCEPT !.blocks = Append(@, <<id, status>>)]
    ELSE [s EXCEPT !.blocks = [i \in DOMAIN @ |-> IF @[i][1] = id THEN <<id, status>> ELSE @[i]]]

OpenBlock(s, id) ==
    IF Status(s, id) # "absent" THEN s
    ELSE Emit(SetBlock(s, id, "open"), "reasoning_summary.started", id[2], id)

\* An end whose start was never seen is recorded as closed.
EndBlock(s, id) ==
    IF Status(s, id) = "open" THEN Emit(SetBlock(s, id, "closed"), "reasoning_summary.completed", id[2], id)
    ELSE IF Status(s, id) = "closed" THEN s
    ELSE Emit(SetBlock(s, id, "closed"), "diagnostic", id[2], <<>>)

\* The blocks still open: those of message m, or all of them.
Interrupt(s, m) ==
    FoldLeft(LAMBDA t, b : IF b[2] = "open" /\ (m = "" \/ b[1][3] = m)
                           THEN SetBlock(Emit(t, "reasoning_summary.interrupted", b[1][2], b[1]), b[1], "closed")
                           ELSE t, s, s.blocks)

\* The first family to report a message owns its blocks.
Owned(s, r, fam) == s.family[<<r.s, r.m>>] \in {"", fam}

HandleReasoning(s, r, fam) ==
    LET t == IF fam = "durable" THEN Remember(s, r.s, r.m) ELSE s
        u == [t EXCEPT !.family[<<r.s, r.m>>] = fam]
    IN  IF fam = "part" /\ <<r.s, r.m>> \in s.users THEN s
        ELSE IF ~Owned(t, r, fam) THEN t
        ELSE IF r.v = <<"start">> THEN OpenBlock(u, BlockId(fam, r)) ELSE EndBlock(u, BlockId(fam, r))

-----------------------------------------------------------------------------
(* Tools and delegations.  v is <<status, input, child session>>.          *)

StartTool(s, r, child) ==
    [Emit(s, "tool.started", r.s, r.id) EXCEPT !.tools[r.id].started = TRUE, !.tools[r.id].child = child]

CompleteTool(s, by, id) == [Emit(s, "tool.completed", by, id) EXCEPT !.tools[id].completed = TRUE]

\* OpenCode's pending snapshot has no input yet: the start waits for the
\* running one.  The root's task call names the child session it launched.
HandleToolPart(s, r) ==
    LET child == IF r.s = Root THEN r.v[3] ELSE ""
        t == [s EXCEPT !.tools[r.id].known = TRUE, !.tools[r.id].agent = r.s]
        active == r.v[1] \in {"pending", "running"}
        opens == ~s.tools[r.id].started /\ (~active \/ r.v[1] # "pending" \/ r.v[2] = "input")
        u == IF active /\ opens
             THEN [StartTool(t, r, child) EXCEPT !.agents = IF child = "" THEN @ ELSE @ \cup {child}]
             ELSE IF opens /\ ~s.tools[r.id].completed THEN StartTool(t, r, "") ELSE t
    IN  IF active \/ s.tools[r.id].completed THEN u ELSE CompleteTool(u, r.s, r.id)

\* The durable family keeps no agent with the call.
HandleDurableTool(s, r) ==
    LET t == [s EXCEPT !.tools[r.id].known = TRUE]
        u == IF s.tools[r.id].started \/ r.v[1] = "progress" THEN t ELSE StartTool(t, r, s.tools[r.id].child)
    IN  IF r.v[1] = "progress" THEN Emit(u, "diagnostic", r.s, <<>>)
        ELSE IF r.v[1] = "called" \/ s.tools[r.id].completed THEN u
        ELSE CompleteTool(u, r.s, r.id)

\* The streamed input of a call makes the call known before it starts.
HandleToolInput(s, r) == Emit([s EXCEPT !.tools[r.id].known = TRUE], "diagnostic", r.s, <<>>)

SettleDelegations(s) ==
    FoldLeft(LAMBDA t, i : IF t.tools[i].child # "" /\ ~t.tools[i].completed
                           THEN CompleteTool(t, Root, i) ELSE t, s, SetToSeq(Ids))

-----------------------------------------------------------------------------
(* Usage and the one harness terminal                                      *)

SumOver(S, f(_)) == FoldLeft(LAMBDA a, x : a + f(x), 0, SetToSeq(S))

\* Every update of a child message added up.
ChildUsageSummed(old, n) == old + n

\* A message's usage is repeated with every update: the largest stands.
ChildUsage(old, n) == IF n > old THEN n ELSE old

AttemptUsage(s) ==
    IF s.usage = Unused THEN Unused ELSE s.usage + SumOver(Keys, LAMBDA k : s.childUsage[k])

Finalize(s) ==
    LET failed == s.aborted \/ s.failure # ""
        f == FlushDelta(s, FALSE)
        t == IF failed THEN Interrupt(SettleDelegations(f), "") ELSE f
        u == IF AttemptUsage(t) = Unused THEN t
             ELSE [t EXCEPT !.out = Append(@, [Event("usage.final", Root, "", <<>>) EXCEPT !.n = AttemptUsage(t)])]
    IN  IF s.terminal # "" THEN s
        ELSE [u EXCEPT !.terminal = IF failed THEN "failed" ELSE "completed",
                       !.out = Append(@, Event(IF failed THEN "harness.failed" ELSE "harness.completed",
                                               Root, "", s.parts))]

Fail(s, kind) == [s EXCEPT !.failure = kind]

\* v is <<role, finished, error>>.
HandleMessage(s, r, aged) ==
    LET key == <<r.s, r.m>>
        counted == IF r.n = Unused THEN s
                   ELSE IF r.s = Root THEN [s EXCEPT !.usage = r.n]
                   ELSE [s EXCEPT !.childUsage[key] = ChildUsage(@, r.n)]
        user == [counted EXCEPT !.users = @ \cup {key}, !.text[key] = <<>>, !.held[key] = <<>>]
        row == [counted EXCEPT !.rows = IF Contains(@, key) THEN @ ELSE Append(@, key)]
        child == FlushHeld(row, key, aged)
        mine == RefreshText(FlushHeld(Remember([counted EXCEPT !.message = r.m], Root, r.m), key, aged))
    IN  IF r.v[1] = "user" THEN user
        ELSE IF r.s # Root
        THEN IF r.v[2] = "finished" /\ child.text[key] # <<>>
             THEN [CompleteChildMessage(child, key) EXCEPT !.rows = SelectSeq(@, LAMBDA k : k # key)]
             ELSE child
        ELSE IF r.v[3] = "error" THEN Interrupt(mine, r.m) ELSE mine

HandleRemoved(s, r) ==
    LET t == [s EXCEPT !.text[<<r.s, r.m>>] = <<>>, !.held[<<r.s, r.m>>] = <<>>,
                       !.message = IF @ = r.m THEN "" ELSE @]
    IN  Emit(RefreshText(t), "diagnostic", r.s, <<>>)

\* step-finish and the durable step end report the usage of the step.
HandleStepUsage(s, r) == [Emit(s, "usage.updated", Root, "") EXCEPT !.usage = r.n]

\* Only the root session settles or fails the run.
SettlesTask(by) == by = Root

ActiveTools(s) == {i \in Ids : s.tools[i].known /\ ~s.tools[i].completed /\ s.tools[i].agent = Root}

HandleIdle(s, r, aged) ==
    LET rows == FoldLeft(LAMBDA t, k : CompleteChildMessage(FlushHeld(t, k, aged), k), s, s.rows)
        settled == Emit(Emit(Interrupt(s, ""), "message.completed", Root, s.message), "agent_settled", Root, "")
    IN  IF ~SettlesTask(r.s) THEN Emit([rows EXCEPT !.rows = <<>>], "diagnostic", r.s, <<>>)
        ELSE IF s.failure # "" \/ s.aborted THEN Finalize(s)
        ELSE IF ActiveTools(s) # {} \/ s.message = "" \/ s.parts = <<>> THEN Finalize(Fail(s, "protocol_error"))
        ELSE Finalize(settled)

HandleError(s, r) ==
    IF ~SettlesTask(r.s) THEN Emit(s, "diagnostic", r.s, <<>>)
    ELSE LET t == [s EXCEPT !.aborted = @ \/ r.v = <<"abort">>]
         IN  Finalize(Fail(Interrupt(t, ""), "session_error"))

\* A retry the account limit forbids cannot recover within the run.
HandleStatus(s, r) ==
    IF ~SettlesTask(r.s) THEN Emit(s, "diagnostic", r.s, <<>>)
    ELSE LET t == Emit(s, "provider.retry", Root, "")
         IN  IF r.v = <<"limit">> THEN Finalize(Fail(t, "rate_limited")) ELSE t

\* A permission or question nobody can answer, of any session.
HandleAsk(s, r) == Finalize(Emit(Fail(s, "interactive"), "diagnostic", r.s, <<>>))

HandleStepFailed(s, r) == Emit(Interrupt(Fail(s, "step_failed"), ""), "diagnostic", r.s, <<>>)

HandleRetried(s, r) == Fail(Emit(s, "provider.retry", Root, ""), IF r.v = <<"final">> THEN "retries" ELSE "")

\* A session below the root's children is diagnosed.
HandleCreated(s, r) ==
    IF Parent[r.s] \notin {Root, ""} /\ Parent[r.s] \in s.agents THEN Emit(s, "diagnostic", Root, <<>>) ELSE s

-----------------------------------------------------------------------------
(* The stream                                                              *)

\* message.part.updated, by the type of the part.
PartTypes == {"text", "reasoning", "tool", "retry", "compaction", "step-finish"}

HandlePart(s, r) ==
    CASE r.type = "text" -> HandleSnapshot(s, r)
      [] r.type = "reasoning" -> HandleReasoning(s, r, "part")
      [] r.type = "tool" -> HandleToolPart(s, r)
      [] r.type = "retry" -> Emit(s, "provider.retry", r.s, "")
      [] r.type = "compaction" -> Emit(s, "context.compacted", r.s, "")
      [] r.type = "step-finish" -> HandleStepUsage(s, r)

\* The durable family.
DurableTypes ==
    {"next.text.delta", "next.text.ended", "next.reasoning", "next.tool.input", "next.tool",
     "next.step.ended", "next.step.failed", "next.retried", "next.compaction"}

HandleDurableEvent(s, r, aged) ==
    CASE r.type \in {"next.text.delta", "next.text.ended"} -> HandleDurableText(s, r, aged)
      [] r.type = "next.reasoning" -> HandleReasoning(s, r, "durable")
      [] r.type = "next.tool.input" -> HandleToolInput(s, r)
      [] r.type = "next.tool" -> HandleDurableTool(s, r)
      [] r.type = "next.step.ended" -> HandleStepUsage(s, r)
      [] r.type = "next.step.failed" -> HandleStepFailed(s, r)
      [] r.type = "next.retried" -> HandleRetried(s, r)
      [] r.type = "next.compaction" -> Emit(s, "context.compacted", r.s, "")

Handle(s, r, aged) ==
    CASE r.type = "created" -> s
      [] r.type = "delta" -> HandleDelta(s, r, aged)
      [] r.type = "message" -> HandleMessage(s, r, aged)
      [] r.type = "removed" -> HandleRemoved(s, r)
      [] r.type \in PartTypes -> HandlePart(s, r)
      [] r.type = "idle" -> HandleIdle(s, r, aged)
      [] r.type = "error" -> HandleError(s, r)
      [] r.type = "status" -> HandleStatus(s, r)
      [] r.type = "ask" -> HandleAsk(s, r)
      [] r.type \in DurableTypes -> HandleDurableEvent(s, r, aged)
      [] OTHER -> Emit(s, "diagnostic", r.s, <<>>)

\* Every record of a session that is not the root's names its agent.
SetCurrentAgent(s, r) == [s EXCEPT !.agents = IF r.s = Root THEN @ ELSE @ \cup {r.s}]

\* The bridge forwards a session once its parent is admitted; a call belongs
\* to one session, and a task call names a session that was created.
OpenCodeSends(r) ==
    /\ r.type = "created" \/ r.s = Root \/ \E i \in DOMAIN raw : raw[i].type = "created" /\ raw[i].s = r.s
    /\ r.type = "created" =>
          /\ ~\E i \in DOMAIN raw : raw[i].type = "created" /\ raw[i].s = r.s
          /\ Parent[r.s] = Root \/ \E i \in DOMAIN raw : raw[i].type = "created" /\ raw[i].s = Parent[r.s]

Translate(r) ==
    /\ ~eof /\ st.terminal = "" /\ Len(raw) < MaxLines
    /\ OpenCodeSends(r)
    /\ raw' = Append(raw, r)
    /\ \E aged \in BOOLEAN :
          st' = Handle(SetCurrentAgent(IF r.type = "created" THEN HandleCreated(st, r) ELSE st, r), r, aged)
    /\ eof' = FALSE

EndOfStream ==
    /\ ~eof
    /\ eof' = TRUE
    /\ st' = IF st.terminal = "" THEN Finalize(Fail(st, "protocol_error")) ELSE st
    /\ UNCHANGED raw

Next == (\E r \in Records : Translate(r)) \/ EndOfStream \/ (eof /\ UNCHANGED vars)

Spec == Init /\ [][Next]_vars

-----------------------------------------------------------------------------
(* Properties                                                              *)

out == st.out
Positions(ts) == {i \in DOMAIN out : out[i].type \in ts}
Count(t, id) == Cardinality({i \in Positions({t}) : out[i].id = id})
Sent(ts, s) == {i \in DOMAIN raw : raw[i].type \in ts /\ raw[i].s = s}
Joined(q, take(_), keep(_)) == FlattenSeq([i \in DOMAIN SelectSeq(q, keep) |-> take(SelectSeq(q, keep)[i])])

(* A closed terminal leaves nothing batched, and the call table, the       *)
(* children known and the rows agree on who is a child (_STATE).           *)
TypeOK ==
    /\ st.terminal \in {"", "completed", "failed"}
    /\ st.terminal # "" => st.batch = None
    /\ Root \notin st.agents
    /\ \A k \in ToSet(st.rows) : k[1] \in st.agents
    /\ \A i \in Ids : st.tools[i].completed => st.tools[i].started

(* Batching and holding back deltas of a message whose role is unknown     *)
(* neither loses, repeats nor reorders any: what was streamed plus what is *)
(* batched is what arrived, nothing of a user message is streamed, and the *)
(* last fragment precedes message.completed (_emit_message_delta).         *)
DeltasInOrder ==
    \A m \in Messages :
        LET streamed == Joined(out, LAMBDA e : e.v,
                               LAMBDA e : e.type = "message.delta" /\ e.by = Root /\ e.id = m)
            batched == IF st.batch # None /\ st.batch[1] = <<Root, m>> THEN st.batch[2] ELSE <<>>
            arrived == Joined(raw, LAMBDA r : r.v, LAMBDA r : r.type = "delta" /\ r.s = Root /\ r.m = m)
        IN  /\ Contains(st.assistant, m) => streamed \o batched = arrived
            /\ <<Root, m>> \in st.users => streamed \o batched = <<>>
            /\ \A i \in Positions({"message.completed"}), j \in Positions({"message.delta"}) :
                  out[i].by = Root => j < i

(* A completed run was settled by the root's idle record and its result is *)
(* the text of the root's messages, whatever the children wrote under the  *)
(* same ids (_refresh_text, _handle_session_idle).                         *)
ResultIsRootText ==
    LET Apply(t, r) == IF r.type = "text" THEN r.v ELSE IF IsSuffix(r.v, t) THEN t ELSE t \o r.v
        of(m) == FoldLeft(Apply, <<>>, SelectSeq(raw, LAMBDA r : r.type \in {"text", "delta"} /\ r.s = Root /\ r.m = m))
    IN  \A i \in Positions({"harness.completed"}) :
            /\ raw[Len(raw)].type = "idle" /\ raw[Len(raw)].s = Root
            /\ out[i].v = FlattenSeq([k \in DOMAIN st.assistant |-> of(st.assistant[k])])
            /\ out[i].v # <<>>

(* Of the two families and their replays only one reports the blocks of a  *)
(* message, each block starts and ends at most once, and none is open once *)
(* the run has its terminal (_open_reasoning_block, _finalize_terminal).   *)
BlockEndsOnce ==
    \A i \in Positions({"reasoning_summary.started"}) :
        LET id == out[i].id
            ends == Count("reasoning_summary.completed", id) + Count("reasoning_summary.interrupted", id)
        IN  /\ Count("reasoning_summary.started", id) = 1
            /\ ends <= 1
            /\ st.terminal # "" => ends = 1
            /\ ~\E j \in Positions({"reasoning_summary.started"}) :
                  out[j].id[1] # id[1] /\ out[j].id[2] = id[2] /\ out[j].id[3] = id[3]

(* A tool row starts and completes at most once, and a delegation row is   *)
(* never left open by the terminal (_settle_open_delegations).             *)
DelegationEndsOnce ==
    \A i \in Positions({"tool.started"}) :
        /\ Count("tool.started", out[i].id) = 1
        /\ Count("tool.completed", out[i].id) <= 1
        /\ st.terminal # "" /\ st.tools[out[i].id].child # "" => Count("tool.completed", out[i].id) = 1

(* usage.final is the usage of the root's last report plus, for each child *)
(* message, its largest report (_record_child_message_usage).              *)
UsageFinalAddsChildren ==
    \A i \in Positions({"usage.final"}) :
        LET mine == {j \in Sent({"message", "step-finish"}, Root) : raw[j].n # Unused}
            latest == raw[CHOOSE j \in mine : \A k \in mine : k <= j].n
            largest(k) == LET S == {0} \cup {raw[j].n : j \in {x \in Sent({"message"}, k[1]) : raw[x].m = k[2]}}
                          IN  CHOOSE x \in S : \A y \in S : y <= x
        IN  out[i].n = latest + SumOver({k \in Keys : k[1] # Root}, largest)

(* Only the root ends the run: a terminal follows a record of the root, a  *)
(* question nobody can answer or the end of the stream, and a failure has  *)
(* a cause in the root's own records (_handle_session_error, §5.5).        *)
RootSettles ==
    /\ st.terminal # "" /\ ~eof => raw[Len(raw)].s = Root \/ raw[Len(raw)].type = "ask"
    /\ st.terminal = "failed" /\ ~eof =>
          \/ Sent({"error", "status", "next.step.failed", "next.retried"}, Root) # {}
          \/ raw[Len(raw)].type = "ask"
          \/ st.parts = <<>> \/ st.message = ""
          \/ \E j \in Sent({"tool", "next.tool"}, Root) :
                ~\E k \in Sent({"tool", "next.tool"}, Root) :
                    raw[k].id = raw[j].id /\ raw[k].v[1] \in {"completed", "error", "success", "failed"}

-----------------------------------------------------------------------------
(* What the repository says and the code does not keep (README, Deviations). *)

(* The stated rule: a session nested below a child is diagnosed and never  *)
(* attributed as an agent of its own (_register_child_session).            *)
NestedNeverAttributed ==
    \A s \in st.agents : Parent[s] = Root

(* The stated rule: a child's message rows are closed when their own       *)
(* session idles or reports them finished (_flush_child_messages).         *)
ChildRowsClosedByTheirSession ==
    \A i \in Positions({"message.completed"}) :
        out[i].by # Root =>
            \/ Sent({"idle"}, out[i].by) # {}
            \/ \E j \in Sent({"message", "next.text.ended"}, out[i].by) : raw[j].m = out[i].id /\
                  (raw[j].type = "message" => raw[j].v[2] = "finished")

(* The stated rule: one row per child message (_emit_child_message_completed). *)
OneRowPerChildMessage ==
    \A i, j \in Positions({"message.completed"}) :
        out[i].by # Root /\ out[i].by = out[j].by /\ out[i].id = out[j].id => i = j

(* The stated rule: the attempt's usage misses no request of the root or   *)
(* of a child (§5.6).                                                      *)
UsageMissesNothing ==
    \A i \in Positions({"usage.final"}) :
        LET largest(k) == LET S == {0} \cup {raw[j].n : j \in {x \in Sent({"message"}, k[1]) : raw[x].m = k[2]}}
                          IN  CHOOSE x \in S : \A y \in S : y <= x
        IN  out[i].n >= SumOver(Keys, largest)
=============================================================================
