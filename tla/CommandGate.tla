---------------------------- MODULE CommandGate ----------------------------
(***************************************************************************)
(* The command plane of one running attempt, as the database holds it: the *)
(* attempt's control gate, its queue of commands, the PUT route that adds  *)
(* to the queue and the gate transitions the event projector and the task  *)
(* lifecycle make.  A command's sequence number is its place in cmds.      *)
(***************************************************************************)
EXTENDS Naturals, Sequences, FiniteSets

CONSTANTS
    Ids,                \* command ids the clients use
    MaxPuts             \* PUTs in flight at once

VARIABLES
    task,               \* tasks.status: "RUNNING" or "ENDED"
    gate,               \* control_state of the attempt
    cmds,               \* the command rows in sequence order
    pending,            \* sequence number of the armed follow-up, 0 for none
    forceClose,         \* force_close_requested
    puts,               \* PUTs that found no row with their id and go on
    evts                \* canonical events written by the container, unread

gateVars == <<task, gate, cmds, pending, forceClose, puts, evts>>

CommandTypes == {"steer", "follow_up"}
Terminal == {"delivered", "rejected", "outcome_unknown"}
Seqs == 1..Len(cmds)

\* A task_harness_commands row; the payload digest is what tells two types apart.
CommandRow ==
    [id : Ids, type : CommandTypes,
     status : {"queued", "dispatching"} \cup Terminal]

\* A canonical event as the gate reads it.
Event == [type : {"settled", "turn_started", "terminal"}, cmd : Nat]

\* The attempt row's control columns, its rows and what is on the way to them.
GateTypeOK ==
    /\ task \in {"RUNNING", "ENDED"}
    /\ gate \in {"starting", "accepting", "closing", "closed"}
    /\ cmds \in Seq(CommandRow)
    /\ pending \in 0..Len(cmds) /\ forceClose \in BOOLEAN
    /\ puts \subseteq [id : Ids, type : CommandTypes]
    /\ evts \in Seq(Event)

GateInit ==
    /\ task = "RUNNING" /\ gate = "starting" /\ cmds = <<>>
    /\ pending = 0 /\ forceClose = FALSE /\ puts = {} /\ evts = <<>>

HasId(id) == \E i \in Seqs : cmds[i].id = id

\* create_command, before any lock: a known id is answered from its row.
PutReads(id, type) ==
    /\ ~HasId(id) /\ Cardinality(puts) < MaxPuts
    /\ puts' = puts \cup {[id |-> id, type |-> type]}
    /\ UNCHANGED <<task, gate, cmds, pending, forceClose, evts>>

\* create_command under the task and attempt row locks.  A second insert of
\* an id fails on the primary key, rolls the sequence back and is answered
\* from the committed row.
PutInserts(r) ==
    /\ r \in puts
    /\ puts' = puts \ {r}
    /\ cmds' = IF task = "RUNNING" /\ gate = "accepting" /\ ~HasId(r.id)
               THEN Append(cmds, [id |-> r.id, type |-> r.type, status |-> "queued"])
               ELSE cmds
    /\ UNCHANGED <<task, gate, pending, forceClose, evts>>

\* put_command gives up: a refused access check, a second deadlock.
PutFails(r) ==
    /\ r \in puts
    /\ puts' = puts \ {r}
    /\ UNCHANGED <<task, gate, cmds, pending, forceClose, evts>>

SetStatus(rows, i, s) == [rows EXCEPT ![i].status = s]
RejectQueued(rows) ==
    [i \in DOMAIN rows |->
        IF rows[i].status = "queued" THEN [rows[i] EXCEPT !.status = "rejected"] ELSE rows[i]]
MarkDispatchingUnknown(rows) ==
    [i \in DOMAIN rows |->
        IF rows[i].status = "dispatching"
        THEN [rows[i] EXCEPT !.status = "outcome_unknown"] ELSE rows[i]]

MutCloseControlGate ==
    /\ gate' = "closed" /\ pending' = 0 /\ forceClose' = FALSE
    /\ cmds' = RejectQueued(cmds)

\* close_control_gate: every command never sent is rejected, every command
\* in the air ends with an unknown outcome.
CloseControlGate ==
    /\ gate' = "closed" /\ pending' = 0 /\ forceClose' = FALSE
    /\ cmds' = MarkDispatchingUnknown(RejectQueued(cmds))

\* begin_control_drain
BeginControlDrain ==
    /\ gate' = IF gate \in {"accepting", "starting"} THEN "closing" ELSE gate
    /\ UNCHANGED <<cmds, pending, forceClose>>

\* reopen_control_after_native_turn_start for the follow-up c
ReopenControl(c) ==
    IF gate = "closing" /\ pending # 0 /\ pending = c /\ ~forceClose
    THEN gate' = "accepting" /\ pending' = 0 /\ UNCHANGED <<cmds, forceClose>>
    ELSE UNCHANGED <<gate, cmds, pending, forceClose>>

\* ingest_event_record: the gate's share of the projection of one event.
ProjectEvent ==
    /\ task = "RUNNING" /\ evts # <<>>
    /\ evts' = Tail(evts)
    /\ LET e == Head(evts) IN
       CASE e.type = "settled" -> BeginControlDrain
         [] e.type = "turn_started" -> ReopenControl(e.cmd)
         [] e.type = "terminal" -> CloseControlGate
    /\ UNCHANGED <<task, puts>>

\* A terminal status commits with close_task_control_gates in one transaction:
\* container exit, cancellation, the deadline, a refused resume.
TaskEnds ==
    /\ task = "RUNNING"
    /\ task' = "ENDED"
    /\ IF gate = "closed" THEN UNCHANGED <<gate, cmds, pending, forceClose>> ELSE CloseControlGate
    /\ UNCHANGED <<puts, evts>>
=============================================================================
