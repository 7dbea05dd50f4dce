---------------------------- MODULE CodexEvents -----------------------------
(***************************************************************************)
(* The Codex translator (harness/adapters/codex_events.py): App Server     *)
(* notifications of the root thread and of its child threads on one        *)
(* stream.  The terminal is the last turn terminal of the root thread.     *)
(*                                                                         *)
(* A record is [type, thread, item, kids, n]: kids are the threads a spawn *)
(* reports (or the children a state report ends), n is a token count.      *)
(***************************************************************************)
EXTENDS Integers, FiniteSets, SequencesExt

CONSTANTS Records, Children, MaxLines

VARIABLES raw, thread, reasoning, delegation, usage, last, result, out, eof

vars == <<raw, thread, reasoning, delegation, usage, last, result, out, eof>>

Event(t, id) == [type |-> t, id |-> id, n |-> 0]
UsageEvent(n) == [type |-> "usage.final", id |-> <<>>, n |-> n]

Init ==
    /\ raw = <<>>
    /\ thread = ""                                       \* _STATE["thread_id"]
    /\ reasoning = [open |-> <<>>, closed |-> {}]
    /\ delegation = [tool |-> [k \in Children |-> ""], closed |-> {}]
    /\ usage = [root |-> 0, child |-> [k \in Children |-> 0]]
    /\ last = ""                                         \* _STATE["last_assistant_text"]
    /\ result = [terminal |-> "", text |-> "", usage |-> 0]
    /\ out = <<>>
    /\ eof = FALSE

-----------------------------------------------------------------------------
(* Helpers                                                                 *)

\* An item id is unique within its thread only.
ReasoningId(r) == <<r.thread, r.item>>

CloseOpenReasoning ==
    [i \in DOMAIN reasoning.open |-> Event("reasoning_summary.interrupted", reasoning.open[i])]

Delegated == {k \in Children : delegation.tool[k] # ""}

\* A child is settled at most once, and only if its row was opened.
Closes(kids) == (kids \cap Delegated) \ delegation.closed

CloseDelegations(kids) == SetToSeq({Event("tool.completed", <<delegation.tool[k], k>>) : k \in Closes(kids)})

\* Every report of a child is added to the total.
ChildUsageSummed(old, n) == old + n

\* The App Server re-reports cumulative counts: the largest one stands.
ChildUsage(old, n) == IF n > old THEN n ELSE old

\* The root's usage and every child's; nothing when the root reported none.
AttemptUsage(root) ==
    IF root = 0 THEN 0
    ELSE root + FoldLeft(LAMBDA s, k : s + usage.child[k], 0, SetToSeq(Children))

Reads(r, events) ==
    /\ ~eof
    /\ Len(raw) < MaxLines
    /\ raw' = Append(raw, r)
    /\ out' = out \o events
    /\ eof' = FALSE

-----------------------------------------------------------------------------
(* Handlers                                                                *)

\* thread/started names the root thread and resolves the model once.
ThreadStarted(r) ==
    /\ r.type = "thread_started"
    /\ thread' = r.thread
    /\ Reads(r, IF \E i \in DOMAIN out : out[i].type = "model.resolved" THEN <<>>
                ELSE <<Event("model.resolved", <<>>)>>)
    /\ UNCHANGED <<reasoning, delegation, usage, last, result>>

ReasoningStarted(r) ==
    /\ r.type = "reasoning_started"
    /\ LET id == ReasoningId(r)
           opens == ~Contains(reasoning.open, id) /\ id \notin reasoning.closed
       IN  /\ Reads(r, IF opens THEN <<Event("reasoning_summary.started", id)>> ELSE <<>>)
           /\ reasoning' = [reasoning EXCEPT !.open = IF opens THEN Append(@, id) ELSE @]
    /\ UNCHANGED <<thread, delegation, usage, last, result>>

ReasoningCompleted(r) ==
    /\ r.type = "reasoning_completed"
    /\ LET id == ReasoningId(r)
           closes == Contains(reasoning.open, id)
       IN  /\ Reads(r, IF closes THEN <<Event("reasoning_summary.completed", id)>> ELSE <<>>)
           /\ reasoning' = IF closes
                           THEN [open |-> Remove(reasoning.open, id),
                                 closed |-> reasoning.closed \cup {id}]
                           ELSE reasoning
    /\ UNCHANGED <<thread, delegation, usage, last, result>>

\* Only the root's final message becomes the task result.
LastText(r) == IF r.thread = thread THEN r.item ELSE last

Message(r) ==
    /\ r.type = "message"
    /\ Reads(r, <<Event("message.completed", <<r.thread, r.item>>)>>)
    /\ last' = LastText(r)
    /\ UNCHANGED <<thread, reasoning, delegation, usage, result>>

\* A shell command of any thread is a row of its own.
Command(r) ==
    /\ r.type \in {"command_started", "command_completed"}
    /\ Reads(r, <<Event(IF r.type = "command_started" THEN "tool.started"
                        ELSE "tool.completed", <<r.item>>)>>)
    /\ UNCHANGED <<thread, reasoning, delegation, usage, last, result>>

\* The event each notice of the App Server is mapped to.
NoticeEvent == [retry |-> "provider.retry", compacted |-> "context.compacted",
                warning |-> "diagnostic"]

\* An error that will be retried or not, and a compaction, are only reported.
Notice(r) ==
    /\ r.type \in DOMAIN NoticeEvent
    /\ Reads(r, <<Event(NoticeEvent[r.type], <<r.thread>>)>>)
    /\ UNCHANGED <<thread, reasoning, delegation, usage, last, result>>

\* A spawn opens a row per child thread it names, on its start or completion;
\* a child that spawns again is only diagnosed.
Spawn(r) ==
    /\ r.type = "spawn"
    /\ LET new == {k \in r.kids : r.thread = thread /\ delegation.tool[k] # r.item}
       IN  /\ Reads(r, SetToSeq({Event("tool.started", <<r.item, k>>) : k \in new}))
           /\ delegation' = [delegation EXCEPT !.tool =
                               [k \in Children |-> IF k \in new THEN r.item ELSE @[k]]]
    /\ UNCHANGED <<thread, reasoning, usage, last, result>>

\* agents_states: the children that reached a terminal state.
ChildStates(r) ==
    /\ r.type = "child_states"
    /\ LET kids == IF r.thread = thread THEN r.kids ELSE {}
       IN  /\ Reads(r, CloseDelegations(kids))
           /\ delegation' = [delegation EXCEPT !.closed = @ \cup Closes(kids)]
    /\ UNCHANGED <<thread, reasoning, usage, last, result>>

TokenUsage(r) ==
    /\ r.type = "usage"
    /\ Reads(r, <<>>)
    /\ usage' = IF r.thread = thread THEN [usage EXCEPT !.root = r.n]
                ELSE IF r.thread \in Children
                THEN [usage EXCEPT !.child[r.thread] = ChildUsage(@, r.n)]
                ELSE usage
    /\ UNCHANGED <<thread, reasoning, delegation, last, result>>

\* A child turn ending is not the root settling.
EndsTheAttempt(r) == r.thread = thread

\* The root's turn completed: what never saw its end is closed, the usage is
\* reported and the result written; a later terminal may still override it.
TurnCompleted(r) ==
    /\ r.type = "turn_completed"
    /\ IF EndsTheAttempt(r)
       THEN /\ Reads(r, CloseOpenReasoning \o CloseDelegations(Children)
                        \o <<UsageEvent(usage.root)>>)
            /\ reasoning' = [reasoning EXCEPT !.open = <<>>]
            /\ delegation' = [delegation EXCEPT !.closed = @ \cup Closes(Children)]
            /\ result' = [terminal |-> "harness.completed", text |-> last,
                          usage |-> AttemptUsage(usage.root)]
       ELSE Reads(r, <<>>) /\ UNCHANGED <<reasoning, delegation, result>>
    /\ UNCHANGED <<thread, usage, last>>

\* turn.failed, and a request the App Server answers with an error.
TurnFailed(r) ==
    /\ r.type \in {"turn_failed", "request_failed"}
    /\ IF r.type = "request_failed" \/ EndsTheAttempt(r)
       THEN /\ Reads(r, CloseOpenReasoning)
            /\ reasoning' = [reasoning EXCEPT !.open = <<>>]
            /\ result' = [terminal |-> "harness.failed", text |-> "",
                          usage |-> AttemptUsage(usage.root)]
       ELSE Reads(r, <<>>) /\ UNCHANGED <<reasoning, result>>
    /\ UNCHANGED <<thread, delegation, usage, last>>

EmitTerminalAtEof ==
    /\ ~eof
    /\ eof' = TRUE
    /\ out' = IF result.terminal = "" THEN out ELSE Append(out, Event(result.terminal, <<>>))
    /\ UNCHANGED <<raw, thread, reasoning, delegation, usage, last, result>>

Translate(r) ==
    \/ ThreadStarted(r) \/ ReasoningStarted(r) \/ ReasoningCompleted(r) \/ Message(r)
    \/ Command(r) \/ Notice(r)
    \/ Spawn(r) \/ ChildStates(r) \/ TokenUsage(r) \/ TurnCompleted(r) \/ TurnFailed(r)

\* The App Server announces its thread before anything of that thread, and a
\* spawned thread is new.
AppServerSends(r) ==
    /\ raw = <<>> <=> r.type = "thread_started"
    /\ r.type = "spawn" => \A k \in r.kids : delegation.tool[k] \in {"", r.item}

Next ==
    \/ \E r \in Records : AppServerSends(r) /\ Translate(r)
    \/ EmitTerminalAtEof
    \/ eof /\ UNCHANGED vars

Spec == Init /\ [][Next]_vars

-----------------------------------------------------------------------------
(* Properties                                                              *)

Root == "root"
IsDelegation(id) == Len(id) = 2    \* the spawning item and the child
Count(t, id) == Cardinality({i \in DOMAIN out : out[i].type = t /\ out[i].id = id})
Ids(t) == {out[i].id : i \in {j \in DOMAIN out : out[j].type = t}}
TurnEnds == {i \in DOMAIN raw : \/ raw[i].type = "request_failed"
                                \/ raw[i].type \in {"turn_completed", "turn_failed"}
                                   /\ raw[i].thread = Root}
Max0(S) == IF S = {} THEN 0 ELSE CHOOSE n \in S : \A m \in S : m <= n
Reported(k, before) == {raw[i].n : i \in {j \in 1..before : raw[j].type = "usage" /\ raw[j].thread = k}}

(* The state has its shape, and only opened delegations are closed         *)
(* (_close_delegation).                                                    *)
TypeOK ==
    /\ thread \in {"", Root}
    /\ IsInjective(reasoning.open)
    /\ \A k \in delegation.closed : delegation.tool[k] # ""
    /\ result.terminal \in {"", "harness.completed", "harness.failed"}

(* A thinking block is ended once, and blocks of two threads that reuse an *)
(* item id stay apart; a delegated child is started and ended at most once *)
(* however often its state is reported (_reasoning_id, _close_delegation). *)
RowsEndOnce ==
    /\ \A id \in Ids("reasoning_summary.completed") : Count("reasoning_summary.completed", id) = 1
    /\ \A i \in {j \in DOMAIN raw : raw[j].type = "reasoning_completed"} :
          LET before == SubSeq(raw, 1, i - 1)
          IN  (\A j \in TurnEnds : j > i) /\ (\E j \in DOMAIN before :
                    before[j] = [raw[i] EXCEPT !.type = "reasoning_started"])
              => Count("reasoning_summary.completed", <<raw[i].thread, raw[i].item>>) = 1
    /\ \A id \in {d \in Ids("tool.completed") : IsDelegation(d)} :
          Count("tool.completed", id) = 1 /\ Count("tool.started", id) = 1

(* The harness terminal is the last turn terminal of the root thread: a    *)
(* failed turn after a completed one overrides it, a child's turn never    *)
(* does (_emit_terminal_at_eof, turn/completed).                           *)
LastTurnDecides ==
    eof => /\ TurnEnds = {} => Ids("harness.completed") \cup Ids("harness.failed") = {}
           /\ TurnEnds # {} => Last(out).type =
                 IF raw[Max0(TurnEnds)].type = "turn_completed"
                 THEN "harness.completed" ELSE "harness.failed"

(* The result of a completed attempt is the root's last message before its *)
(* terminal, whatever its children said after it (last_assistant_text).    *)
ResultIsTheRoots ==
    result.terminal = "harness.completed" =>
        LET t == Max0(TurnEnds)
            said == {i \in 1..t : raw[i].type = "message" /\ raw[i].thread = Root}
        IN  result.text = IF said = {} THEN "" ELSE raw[Max0(said)].item

(* The written usage counts the root's last report and each child once, at *)
(* its largest cumulative report (_record_child_usage, _attempt_usage).    *)
EachChildCountedOnce ==
    result.terminal # "" =>
        LET t == Max0(TurnEnds)
            roots == {i \in 1..t : raw[i].type = "usage" /\ raw[i].thread = Root}
        IN  roots # {} => result.usage = raw[Max0(roots)].n
                + FoldLeft(LAMBDA s, k : s + Max0(Reported(k, t)), 0, SetToSeq(Children))

(* A completed turn leaves no thinking block and no delegation open, and   *)
(* these ends precede its usage report (turn.completed in translate).      *)
TurnClosesItsRows ==
    \A i \in DOMAIN out : out[i].type = "usage.final" =>
        \A t \in {<<"reasoning_summary.started", {"reasoning_summary.completed",
                                                  "reasoning_summary.interrupted"}>>,
                  <<"tool.started", {"tool.completed"}>>} :
            \A j \in 1..i : out[j].type = t[1] /\ IsDelegation(out[j].id) =>
                \E k \in j..i : out[k].type \in t[2] /\ out[k].id = out[j].id

-----------------------------------------------------------------------------
(* What the repository says and the code does not keep (README, Deviations). *)

(* The stated rule: when the root's usage does not contain its children,   *)
(* the adapter sums root and child usage and sends that as usage.final.    *)
UsageFinalIsTheTotal ==
    \A i \in DOMAIN out : out[i].type = "usage.final" /\ i = Len(out)
        => out[i].n = result.usage
=============================================================================
