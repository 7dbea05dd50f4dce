--------------------------- MODULE EventProjection ---------------------------
(***************************************************************************)
(* backend/app/core/worker_event_projector.py: what the ingested events of *)
(* one attempt become on the task's timeline (TaskLog rows), and the       *)
(* memory the projector keeps between events.  Rows commit and roll back   *)
(* with the receipts; the memory belongs to the scheduler process: a       *)
(* rollback does not restore it and a restart loses it.                    *)
(*                                                                         *)
(* Text, payload bodies and durations are left out.  Rows that carry a     *)
(* lifecycle are messages (streaming, final, interrupted), thinking blocks *)
(* and tool calls with the delegated child they stand for; the others are  *)
(* written once.                                                           *)
(***************************************************************************)
EXTENDS EventIngest, SequencesExt

VARIABLES rows,   \* TaskLog rows, oldest first
          mem     \* [msg: agent -> row id, tools: tool key -> row id, next: row id]

projVars == <<ingestVars, rows, mem>>

(* WorkerEventProjector.reset; TaskLog ids come from a sequence that a     *)
(* rollback does not rewind.                                               *)
FreshMemory(n) == [msg |-> <<>>, tools |-> <<>>, next |-> n]

(* A TaskLog row: the columns and metadata keys the projector reads back.  *)
Row(i, kind, agent, key, sub, st) ==
    [id |-> i, kind |-> kind, agent |-> agent, key |-> key, sub |-> sub, st |-> st]

IndexWhere(rs, P(_)) == {i \in DOMAIN rs : P(rs[i])}

SetStatus(rs, is, st) == [i \in DOMAIN rs |-> IF i \in is THEN [rs[i] EXCEPT !.st = st] ELSE rs[i]]

Put(f, k, v) == [x \in DOMAIN f \cup {k} |-> IF x = k THEN v ELSE f[x]]

Drop(f, k) == [x \in DOMAIN f \ {k} |-> f[x]]

AddRow(s, kind, e, st) ==
    [rows |-> Append(s.rows, Row(s.mem.next, kind, e.agent, e.key, e.sub, st)),
     mem |-> [s.mem EXCEPT !.next = @ + 1]]

(* _find_streaming_message_log: the remembered row if it still streams for *)
(* this agent, else the newest streaming row in the database.              *)
StreamingRow(s, a) ==
    LET live(r) == r.kind = "message" /\ r.st = "streaming" /\ r.agent = a
        all == IndexWhere(s.rows, live)
        known == IF a \in DOMAIN s.mem.msg
                 THEN {i \in all : s.rows[i].id = s.mem.msg[a]} ELSE {}
    IN IF known # {} THEN known ELSE {i \in all : \A j \in all : j <= i}

MessageDelta(s, e) ==
    LET found == StreamingRow(s, e.agent)
        added == AddRow(s, "message", e, "streaming")
    IN IF found # {}
       THEN [s EXCEPT !.mem.msg = Put(@, e.agent, s.rows[CHOOSE i \in found : TRUE].id)]
       ELSE [added EXCEPT !.mem.msg = Put(@, e.agent, s.mem.next)]

MessageCompleted(s, e) ==
    LET found == StreamingRow(s, e.agent)
    IN IF found # {}
       THEN [s EXCEPT !.rows = SetStatus(@, found, "final"), !.mem.msg = Drop(@, e.agent)]
       ELSE [AddRow(s, "message", e, "final") EXCEPT !.mem.msg = Drop(@, e.agent)]

(* _interrupt_streaming_messages                                           *)
InterruptMessages(s) ==
    LET live(r) == r.kind = "message" /\ r.st = "streaming"
    IN [s EXCEPT !.rows = SetStatus(@, IndexWhere(s.rows, live), "interrupted"),
                 !.mem.msg = [a \in {b \in DOMAIN @ :
                                       \A i \in IndexWhere(s.rows, live) : s.rows[i].id # @[b]}
                                |-> @[a]]]

(* _find_thinking_row: always from the database, oldest first.             *)
ThinkingRow(s, e) ==
    LET mine(r) == r.kind = "thinking" /\ r.agent = e.agent /\ r.key = e.key
        all == IndexWhere(s.rows, mine)
    IN {i \in all : \A j \in all : i <= j}

ThinkingStarted(s, e) ==
    IF ThinkingRow(s, e) # {} THEN s ELSE AddRow(s, "thinking", e, "in_progress")

ThinkingCompleted(s, e) ==
    IF ThinkingRow(s, e) # {}
    THEN [s EXCEPT !.rows = SetStatus(@, ThinkingRow(s, e), "completed")]
    ELSE AddRow(s, "thought", e, "static")

ThinkingInterrupted(s, e) ==
    LET open == {i \in ThinkingRow(s, e) : s.rows[i].st = "in_progress"}
    IN [s EXCEPT !.rows = SetStatus(@, open, "interrupted")]

(* _interrupt_thinking_rows                                                *)
InterruptThinking(s) ==
    LET open(r) == r.kind = "thinking" /\ r.st = "in_progress"
    IN [s EXCEPT !.rows = SetStatus(@, IndexWhere(s.rows, open), "interrupted")]

ToolKey(e) == <<e.agent, e.key, e.sub>>

ToolStarted(s, e) ==
    [AddRow(s, "tool", e, "open") EXCEPT !.mem.tools = Put(@, ToolKey(e), s.mem.next)]

(* _find_tool_log, the memory: the exact key, else the only key of the     *)
(* same agent and tool call.                                               *)
PendingKeys(s, e) ==
    LET similar == {k \in DOMAIN s.mem.tools : k[1] = e.agent /\ k[2] = e.key}
    IN IF ToolKey(e) \in similar THEN {ToolKey(e)}
       ELSE IF \E k \in similar : similar = {k} THEN similar ELSE {}

(* _find_tool_log, the database: the newest row of exactly this child,     *)
(* else the only row of this tool call.                                    *)
StoredToolRowNever(s, e) == {}

StoredToolRow(s, e) ==
    LET similar(r) == r.kind = "tool" /\ r.agent = e.agent /\ r.key = e.key
        all == IndexWhere(s.rows, similar)
        exact == {i \in all : s.rows[i].sub = e.sub}
    IN IF exact # {} THEN {i \in exact : \A j \in exact : j <= i}
       ELSE IF \E i \in all : all = {i} THEN all ELSE {}

ToolRow(s, e) ==
    LET keys == PendingKeys(s, e)
        remembered(r) == \E k \in keys : r.id = s.mem.tools[k]
    IN IF keys # {} THEN IndexWhere(s.rows, remembered) ELSE StoredToolRow(s, e)

(* _project_tool_completed: the row ends in place and takes over the       *)
(* child identity of the completion; without a row, a diagnostic says so.  *)
ToolCompleted(s, e) ==
    LET found == ToolRow(s, e)
        popped == [s EXCEPT !.mem.tools = [k \in DOMAIN @ \ PendingKeys(s, e) |-> @[k]]]
        ended == [i \in DOMAIN s.rows |->
                    IF i \in found THEN [s.rows[i] EXCEPT !.st = "ended", !.sub = e.sub]
                    ELSE s.rows[i]]
    IN IF found # {} THEN [popped EXCEPT !.rows = ended]
       ELSE AddRow(popped, "start_missing", e, "static")

(* _settle_open_delegations                                                *)
SettleDelegations(s) ==
    LET open(r) == r.kind = "tool" /\ r.sub # "" /\ r.st = "open"
    IN [s EXCEPT !.rows = SetStatus(@, IndexWhere(s.rows, open), "cancelled")]

(* A record of its own: the model, a compaction, the results, the usage,   *)
(* the control plane's audit.                                              *)
Announce(s, e) == AddRow(s, e.type, e, "static")

Announced ==
    {"model.resolved", "context.compacted", "usage.final", "worker.finalization", "run.completed",
     "agent_settled", "control.command.delivered", "control.command.rejected", "control.queue.updated"}

(* A runtime warning has a key (_runtime_warning_key) and one row, which   *)
(* the scheduler or an earlier event may have written; any other           *)
(* diagnostic has no key.                                                  *)
Diagnose(s, e) ==
    LET same(r) == r.kind = "runtime_warning" /\ r.key = e.key
    IN IF e.key = "" THEN AddRow(s, "diagnostic", e, "static")
       ELSE IF IndexWhere(s.rows, same) # {} THEN s
       ELSE AddRow(s, "runtime_warning", e, "static")

(* ingest_event_record after the receipt: one event's projection.          *)
Project(s, e) ==
    CASE e.type = "message.delta" -> MessageDelta(s, e)
      [] e.type = "message.completed" -> MessageCompleted(s, e)
      [] e.type = "reasoning_summary.started" -> ThinkingStarted(s, e)
      [] e.type = "reasoning_summary.completed" -> ThinkingCompleted(s, e)
      [] e.type = "reasoning_summary.interrupted" -> ThinkingInterrupted(s, e)
      [] e.type = "tool.started" -> ToolStarted(s, e)
      [] e.type = "tool.completed" -> ToolCompleted(s, e)
      [] e.type \in HarnessTerminals -> Announce(InterruptMessages(InterruptThinking(s)), e)
      [] e.type = "run.failed" -> Announce(InterruptMessages(SettleDelegations(s)), e)
      [] e.type = "diagnostic" -> Diagnose(s, e)
      [] e.type \in Announced -> Announce(s, e)
      [] OTHER -> s

ProjectAll(s, es) == FoldLeft(Project, s, es)

Chunk(k) == SubSeq(file, cursor + 1, k)

Init == IngestInit /\ rows = <<>> /\ mem = FreshMemory(1)

(* The adapters start and complete a call, and start a thinking block, at  *)
(* most once (the lifecycle flags they keep per id).                       *)
OncePerAdapter(e) ==
    e.type \in {"tool.started", "tool.completed", "reasoning_summary.started"} =>
        \A i \in DOMAIN file : file[i] # e

ContainerEmits ==
    /\ EmitTorn \/ \E e \in Events : OncePerAdapter(e) /\ Emit(e)
    /\ UNCHANGED <<rows, mem>>

Read == (PollRead \/ BeginFlush \/ NothingToRead) /\ UNCHANGED <<rows, mem>>

Commit ==
    \E k \in 1 .. Len(file) :
        /\ CommitChunk(k)
        /\ LET s == ProjectAll([rows |-> rows, mem |-> mem], Chunk(k))
           IN rows' = s.rows /\ mem' = s.mem

RollBack ==
    /\ \E j \in 0 .. Len(file) :
          /\ RollBackChunk(j)
          /\ mem' = ProjectAll([rows |-> rows, mem |-> mem], Chunk(j)).mem
    /\ UNCHANGED rows

Restart == ReaderRestart /\ UNCHANGED rows /\ mem' = FreshMemory(mem.next)

Finished == IngestDone /\ UNCHANGED <<rows, mem>>

Next == ContainerEmits \/ Read \/ Commit \/ RollBack \/ Restart \/ Finished

Spec == Init /\ [][Next]_projVars

---------------------------------------------------------------------------

(* A row as the page shows it, without the database's id.                  *)
Shown(rs) == [i \in DOMAIN rs |-> [rs[i] EXCEPT !.id = 0]]

(* One projection of the receipts in order, by a projector that starts     *)
(* with an empty memory before every event.                                *)
ProjectAfresh(s, e) == Project([rows |-> s.rows, mem |-> FreshMemory(s.mem.next)], e)

Replay(es) == FoldLeft(ProjectAfresh, [rows |-> <<>>, mem |-> FreshMemory(1)], es).rows

(* The state of the model has the shape the tables and the projector give  *)
(* it: remembered rows are keyed by the agents and tool calls of events.   *)
TypeOK ==
    /\ file \in Seq(Events) /\ receipts \in Seq(Events)
    /\ cursor \in 0 .. MaxEvents /\ snap \in 0 .. MaxEvents
    /\ phase \in {"polling", "tail", "archive", "done"}
    /\ faults \in 0 .. MaxFaults /\ torn \in BOOLEAN /\ lost \in BOOLEAN
    /\ DOMAIN mem.msg \subseteq {e.agent : e \in {f \in Events : f.type = "message.delta"}}
    /\ \A i \in DOMAIN rows : rows[i].id < mem.next

(* The timeline is a function of the ingested events: whatever the poll    *)
(* boundaries, rollbacks and restarts, the rows are those of one replay of *)
(* the receipts by a projector without memory.  So nothing the projector   *)
(* remembers (tail_event_jsonl's rollback does not restore it, a resumed   *)
(* task starts without it) changes what is stored.                         *)
RowsAreReplay == Shown(rows) = Shown(Replay(receipts))

(* No row keeps a spinner after the end: once harness.completed or         *)
(* harness.failed is ingested, with no later delta or thinking start, no   *)
(* message streams and no thinking block is in progress; once run.failed   *)
(* is ingested no delegation is open (ingest_event_record, terminals).     *)
NoSpinnerAfterTheEnd ==
    LET quiet == {i \in DOMAIN receipts : receipts[i].type \in HarnessTerminals
                    /\ \A j \in i + 1 .. Len(receipts) :
                          receipts[j].type \notin {"message.delta", "reasoning_summary.started"}}
    IN /\ quiet # {} => \A i \in DOMAIN rows :
              rows[i].kind \in {"message", "thinking"} => rows[i].st \notin {"streaming", "in_progress"}
       /\ LastType(receipts) = "run.failed" => \A i \in DOMAIN rows :
              rows[i].kind = "tool" /\ rows[i].sub # "" => rows[i].st # "open"

(* Each agent has at most one live preview, and a thinking block and a     *)
(* runtime warning one row each: deltas after a restart continue the       *)
(* streaming row they find (_find_streaming_message_log,                   *)
(* _find_thinking_row), a warning with a known key is dropped.             *)
OneLiveRow ==
    \A i, j \in DOMAIN rows :
        i # j /\ rows[i].kind = rows[j].kind /\ rows[i].agent = rows[j].agent =>
            /\ ~(rows[i].st = "streaming" /\ rows[j].st = "streaming")
            /\ rows[i].kind \in {"thinking", "runtime_warning"} => rows[i].key # rows[j].key

-----------------------------------------------------------------------------
(* What the repository says and the code does not keep (README, Deviations). *)

(* One completed tool call or child ends its own row: a row ends under the *)
(* child it was started for, or, when no start of this child was seen, the *)
(* completion found a single row of the call.  A fan-out that shares one   *)
(* tool id needs the exact child (_find_tool_log).                         *)
FanOutEndsItsOwnRow ==
    \A i, j \in DOMAIN rows :
        /\ i # j /\ rows[i].kind = "tool" /\ rows[j].kind = "tool"
        /\ rows[i].agent = rows[j].agent /\ rows[i].key = rows[j].key
        => rows[i].sub # rows[j].sub

(* A line the writer appended is a record the ingest accepts: with no      *)
(* failure of Docker or the database, the flush leaves no record unread.   *)
EveryLineIsIngested == phase = "done" /\ faults = 0 => receipts = file
=============================================================================
