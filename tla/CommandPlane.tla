---------------------------- MODULE CommandPlane ----------------------------
(***************************************************************************)
(* The command plane put together: the per-task command pump of the        *)
(* scheduler, composed with the gate and the container.  A cycle claims    *)
(* the attempt, keeps the gate it read in memory (mem) and sends commands  *)
(* one at a time: the row is committed as dispatching before the frame     *)
(* leaves, and the answer is written after it, together with the claim of  *)
(* the next command.  Clients of the API, the projector, the pump, the     *)
(* container's owner and Pi interleave freely.                             *)
(***************************************************************************)
EXTENDS PiOwner, TLC

CONSTANT MaxRestarts    \* scheduler crashes

VARIABLES
    pump,               \* [pc, cmd, inc]: pc "idle", "claimed" or "sending"
    mem,                \* the attempt the cycle holds: [gate, awaiting]
    staleLease          \* a dead pump's lease on the attempt has not expired

pumpVars == <<pump, mem, staleLease>>
vars == <<gateVars, ownerVars, pumpVars>>

Unread == [gate |-> "starting", awaiting |-> FALSE]

\* The pump of one task and the attempt it holds in memory.
PumpTypeOK ==
    /\ pump \in [pc : {"idle", "claimed", "sending"}, cmd : 0..Len(cmds), inc : Nat]
    /\ mem \in [gate : {"starting", "accepting", "closing", "closed"}, awaiting : BOOLEAN]
    /\ staleLease \in BOOLEAN

PumpInit == /\ pump = [pc |-> "idle", cmd |-> 0, inc |-> 1]
            /\ mem = Unread
            /\ staleLease = FALSE

Init == GateInit /\ OwnerInit /\ PumpInit

Live == {i \in Seqs : cmds[i].status \notin Terminal}
MutHeadOf(rows) == LET L == {i \in DOMAIN rows : rows[i].status = "queued"}
                IN IF L = {} THEN 0 ELSE CHOOSE i \in L : \A j \in L : i <= j

\* _load_head_command: the front of the queue, a command in the air included.
HeadOf(rows) == LET L == {i \in DOMAIN rows : rows[i].status \notin Terminal}
                IN IF L = {} THEN 0 ELSE CHOOSE i \in L : \A j \in L : i <= j

\* _promote_starting_attempt: the probe's ACK opens the gate under the row lock.
PumpPromotes ==
    /\ pump.pc = "idle" /\ task = "RUNNING" /\ gate = "starting" /\ owner.up
    /\ ~staleLease
    /\ gate' = "accepting"
    /\ UNCHANGED <<task, cmds, pending, forceClose, puts, evts, ownerVars, pumpVars>>

MutClaimable ==
    /\ pump.pc = "idle" /\ task = "RUNNING" /\ ~staleLease
    /\ \/ gate = "accepting" /\ Live # {}
       \/ gate = "closing" /\ pending = 0 /\ Live = {}

\* _claim_next_attempt
Claimable ==
    /\ pump.pc = "idle" /\ task = "RUNNING" /\ ~staleLease
    /\ \/ gate \in {"accepting", "closing"} /\ Live # {}
       \/ gate = "closing" /\ pending = 0

\* A follow-up sent while the in-memory gate is closing arms the pending
\* columns with a guarded UPDATE; without a row it stays queued.
Arms(m, rows, c) == rows[c].type = "follow_up" /\ m.gate = "closing"
CanArm == gate = "closing" /\ pending = 0 /\ task = "RUNNING"

\* dispatch_one_command up to the commit before the send.
Dispatch(m, rows, c) ==
    /\ rows[c].status = "queued"
    /\ Arms(m, rows, c) => CanArm
    /\ pending' = IF Arms(m, rows, c) THEN c ELSE pending
    /\ mem' = [m EXCEPT !.awaiting = @ \/ Arms(m, rows, c)]
    /\ cmds' = SetStatus(rows, c, "dispatching")
    /\ pump' = [pump EXCEPT !.pc = "claimed", !.cmd = c]
    /\ replies' = {r \in replies : r.cmd # c}

\* A cycle starts on a queued head.
PumpClaimsHead ==
    /\ Claimable /\ HeadOf(cmds) # 0
    /\ Dispatch([gate |-> gate, awaiting |-> pending # 0], cmds, HeadOf(cmds))
    /\ UNCHANGED <<task, gate, forceClose, puts, evts, frameFile, clients, owner, requests,
                   responses, natives, piVars, staleLease>>

\* request_force_close_after_unknown_follow_up
FailPendingFollowUp(rows, c) ==
    IF rows[c].type = "follow_up" /\ gate = "closing" /\ pending = c
    THEN /\ pending' = 0 /\ forceClose' = TRUE
         /\ cmds' = RejectQueued(rows)
    ELSE UNCHANGED <<pending, forceClose>> /\ cmds' = rows

\* run_pump_cycle finds a dispatching head: its sender died, the outcome is unknown.
PumpRecovers ==
    /\ Claimable /\ HeadOf(cmds) # 0 /\ cmds[HeadOf(cmds)].status = "dispatching"
    /\ FailPendingFollowUp(SetStatus(cmds, HeadOf(cmds), "outcome_unknown"), HeadOf(cmds))
    /\ UNCHANGED <<task, gate, puts, evts, ownerVars, pumpVars>>

\* docker_exec_control_transport: the frame is put, the client started.
PumpExecs ==
    /\ pump.pc = "claimed"
    /\ pump' = [pump EXCEPT !.pc = "sending"]
    /\ frameFile' = [cmd |-> pump.cmd, gate |-> mem.gate]
    /\ clients' = clients \cup {[for |-> pump.cmd, frame |-> None]}
    /\ UNCHANGED <<gateVars, replies, owner, requests, responses, natives, piVars, mem, staleLease>>

\* What the transport returns: the correlated outcome, or unknown when it
\* gives up, which it may do at any time.
Outcomes == {r.status : r \in {r \in replies : r.cmd = pump.cmd}} \cup {"unknown"}
StatusOf(o) == CASE o = "ack" -> "delivered" [] o = "reject" -> "rejected"
                 [] o = "retry" -> "queued" [] o = "unknown" -> "outcome_unknown"

MutCheckConstraint(old, new) == TRUE

\* The CHECK constraints tie outcome_unknown_at to its status: the database
\* refuses to give a row the gate closed any other status.
CheckConstraint(old, new) == old = "outcome_unknown" => new = "outcome_unknown"

\* The pending columns after the outcome o of the command c.
SettlesPending(o, rows, c) ==
    CASE o \in {"reject", "retry"} /\ rows[c].type = "follow_up" ->
            /\ pending' = IF pending = c THEN 0 ELSE pending
            /\ cmds' = rows /\ UNCHANGED forceClose
      [] o = "unknown" -> FailPendingFollowUp(rows, c)
      [] OTHER -> cmds' = rows /\ UNCHANGED <<pending, forceClose>>

\* dispatch_one_command writes the outcome and the cycle ends with its commit.
PumpRecordsOutcome(o) ==
    /\ pump.pc = "sending" /\ o \in Outcomes
    /\ CheckConstraint(cmds[pump.cmd].status, StatusOf(o))
    /\ SettlesPending(o, SetStatus(cmds, pump.cmd, StatusOf(o)), pump.cmd)
    /\ pump' = [pump EXCEPT !.pc = "idle", !.cmd = 0] /\ mem' = Unread
    /\ UNCHANGED <<task, gate, puts, evts, ownerVars, staleLease>>

\* The same cycle goes on: the outcome commits with the claim of the next
\* head, judged by the gate the cycle read when it began.
PumpGoesOn(o) ==
    /\ pump.pc = "sending" /\ o \in Outcomes \ {"retry"}
    /\ o # "ack" => pending # pump.cmd
    /\ CheckConstraint(cmds[pump.cmd].status, StatusOf(o))
    /\ LET rows == SetStatus(cmds, pump.cmd, StatusOf(o))
       IN HeadOf(rows) # 0 /\ Dispatch(mem, rows, HeadOf(rows))
    /\ UNCHANGED <<task, gate, forceClose, puts, evts, frameFile, clients, owner, requests,
                   responses, natives, piVars, staleLease>>

MutPumpClosesAfter(o, commits) ==
    /\ pump.pc = "sending" /\ o \in Outcomes \ {"retry"}
    /\ mem.gate = "closing"
    /\ CheckConstraint(cmds[pump.cmd].status, StatusOf(o))
    /\ HeadOf(SetStatus(cmds, pump.cmd, StatusOf(o))) = 0
    /\ owner.up /\ owner.settled
    /\ owner' = [owner EXCEPT !.closing = TRUE]
    /\ frameFile' = CloseFrame
    /\ pump' = [pump EXCEPT !.pc = "idle", !.cmd = 0] /\ mem' = Unread
    /\ IF commits
       THEN /\ cmds' = SetStatus(cmds, pump.cmd, StatusOf(o))
            /\ gate' = "closed" /\ forceClose' = FALSE
       ELSE UNCHANGED <<cmds, gate, forceClose>>
    /\ UNCHANGED <<task, pending, puts, evts, clients, replies, requests, responses, natives,
                   piVars, staleLease>>

\* The same cycle drained the queue and closes the owner before it commits
\* the last outcome; a crash between the two leaves the row dispatching.
PumpClosesAfter(o, commits) ==
    /\ pump.pc = "sending" /\ o \in Outcomes \ {"retry"}
    /\ mem = [gate |-> "closing", awaiting |-> FALSE]
    /\ CheckConstraint(cmds[pump.cmd].status, StatusOf(o))
    /\ HeadOf(SetStatus(cmds, pump.cmd, StatusOf(o))) = 0
    /\ owner.up /\ owner.settled
    /\ owner' = [owner EXCEPT !.closing = TRUE]
    /\ frameFile' = CloseFrame
    /\ pump' = [pump EXCEPT !.pc = "idle", !.cmd = 0] /\ mem' = Unread
    /\ IF commits
       THEN /\ cmds' = SetStatus(cmds, pump.cmd, StatusOf(o))
            /\ gate' = "closed" /\ forceClose' = FALSE
       ELSE UNCHANGED <<cmds, gate, forceClose>>
    /\ UNCHANGED <<task, pending, puts, evts, clients, replies, requests, responses, natives,
                   piVars, staleLease>>

\* The database refuses the outcome, a deadlock or an error ends the cycle:
\* run_pump_until_task_ends rolls back; the row stays as it was committed.
PumpCycleFails ==
    /\ pump.pc # "idle"
    /\ pump' = [pump EXCEPT !.pc = "idle", !.cmd = 0] /\ mem' = Unread
    /\ UNCHANGED <<gateVars, ownerVars, staleLease>>

\* _close_drained_attempt: the close IPC and, when its ACK is seen, the
\* closed gate.  The cycle holds the attempt's row lock throughout.
PumpCloses(seen) ==
    /\ Claimable /\ gate = "closing" /\ Live = {} /\ pending = 0
    /\ frameFile' = CloseFrame
    /\ IF owner.up /\ owner.settled
       THEN /\ owner' = [owner EXCEPT !.closing = TRUE]
            /\ IF seen THEN gate' = "closed" /\ forceClose' = FALSE
               ELSE UNCHANGED <<gate, forceClose>>
       ELSE UNCHANGED <<owner, gate, forceClose>>
    /\ UNCHANGED <<task, cmds, pending, puts, evts, clients, replies, requests, responses,
                   natives, piVars, pumpVars>>

\* The close exec times out before its client ran; the client is left behind.
PumpLeavesClose ==
    /\ Claimable /\ gate = "closing" /\ Live = {} /\ pending = 0
    /\ frameFile' = CloseFrame
    /\ clients' = clients \cup {[for |-> 0, frame |-> None]}
    /\ UNCHANGED <<gateVars, replies, owner, requests, responses, natives, piVars, pumpVars>>

\* The scheduler dies and a new one starts the task's pump under a new owner
\* name; the lease of the old one may still run.
SchedulerRestarts(leased) ==
    /\ pump.inc <= MaxRestarts
    /\ pump' = [pc |-> "idle", cmd |-> 0, inc |-> pump.inc + 1] /\ mem' = Unread
    /\ staleLease' = leased
    /\ UNCHANGED <<gateVars, ownerVars>>

\* The lease is 120 seconds long and renewed by every claim of its owner.
LeaseExpires ==
    /\ staleLease
    /\ staleLease' = FALSE
    /\ UNCHANGED <<gateVars, ownerVars, pump, mem>>

-----------------------------------------------------------------------------
(* The composition. *)

Api == \/ \E id \in Ids, t \in CommandTypes : PutReads(id, t) /\ UNCHANGED <<ownerVars, pumpVars>>
       \/ \E r \in puts : (PutInserts(r) \/ PutFails(r)) /\ UNCHANGED <<ownerVars, pumpVars>>
Projection == ProjectEvent /\ UNCHANGED <<ownerVars, pumpVars>>
Ending == TaskEnds /\ UNCHANGED <<ownerVars, pumpVars>>
Clients == \E k \in clients : ClientStarts(k) /\ UNCHANGED pumpVars
Owner == /\ \/ \E k \in clients : OwnerCloses(k) \/ OwnerAnswersFromJournal(k) \/ OwnerWrites(k)
            \/ OwnerRecords \/ OwnerTimesOut \/ OwnerExits
         /\ UNCHANGED pumpVars
Pi == /\ \/ \E ok \in BOOLEAN : PiAnswers(ok)
         \/ PiSettles \/ PiDies
         \/ \E c \in turnQueue : PiBeginsTurn(c)
      /\ UNCHANGED pumpVars
Pump == \/ PumpPromotes \/ PumpClaimsHead \/ PumpRecovers \/ PumpExecs
        \/ \E o \in Outcomes : \/ PumpRecordsOutcome(o) \/ PumpGoesOn(o)
                               \/ \E b \in BOOLEAN : PumpClosesAfter(o, b)
        \/ \E seen \in BOOLEAN : PumpCloses(seen)
Faults == PumpCycleFails \/ PumpLeavesClose \/ \E leased \in BOOLEAN : SchedulerRestarts(leased)

Next == Api \/ Projection \/ Ending \/ Clients \/ Owner \/ Pi \/ Pump \/ Faults \/ LeaseExpires

Spec == Init /\ [][Next]_vars

\* The pump polls once a second, the projector every two, the owner and its
\* clients run while the container does, and a lease expires.  Nothing is
\* assumed of Pi, of API clients or of the task's end.
FairSpec == /\ Spec
            /\ WF_vars(Pump) /\ WF_vars(Projection) /\ WF_vars(Clients) /\ WF_vars(Owner)
            /\ WF_vars(LeaseExpires)

(* Types of the command rows, the attempt columns, the wire and the        *)
(* journals: every command that is named anywhere has its row              *)
(* (TaskHarnessCommand, TaskHarnessAttempt, pi_owner, pi_command_pump).    *)
TypeOK == GateTypeOK /\ OwnerTypeOK /\ PumpTypeOK

\* A command id has one row, however the PUTs that carry it interleave
\* (create_command: unlocked look-up, insert under the locks, primary key).
OneRowPerId == \A i, j \in Seqs : cmds[i].id = cmds[j].id => i = j

\* Pi's stdin gets a command at most once, across retries, pump restarts,
\* lost answers and clients that read a later frame
\* (commit before send in dispatch_one_command, the owner's journal).
NativeAtMostOnce == \A i, j \in DOMAIN natives : natives[i] = natives[j] => i = j

\* The queue is strict: a command is sent only when every command before it
\* has its final status (_load_head_command).
StrictOrder ==
    \A j \in Seqs : cmds[j].status \in {"dispatching", "delivered", "outcome_unknown"} =>
        \A i \in 1..(j - 1) : cmds[i].status \in Terminal

\* A closed gate has nothing left to send (close_control_gate and the close IPC).
ClosedGateIsEmpty == gate = "closed" => Live = {}

\* A final status is final: a late outcome never overwrites the one the gate
\* wrote while the command was in the air.
FinalStays ==
    [][\A i \in Seqs : cmds[i].status \in Terminal => cmds'[i].status = cmds[i].status]_vars

\* The owner accepts a close only when no admitted command waits to be sent
\* and no follow-up is awaited (run_pump_cycle's last step).
CloseAfterDrain ==
    [][~owner.closing /\ owner'.closing =>
        pending = 0 /\ \A i \in Seqs : cmds[i].status # "queued"]_vars

\* What Pi got was journalled first.
Journalled == \A n \in DOMAIN natives : natives[n] \in requests

\* A pump works on one stored command that is in the air, or that the gate
\* gave up for lost meanwhile; when its cycle began on a drained gate that
\* awaited no turn, the gate is still so.
PumpHolds ==
    pump.pc # "idle" =>
        /\ pump.cmd # 0 /\ cmds[pump.cmd].status \in {"dispatching", "outcome_unknown"}
        /\ mem = [gate |-> "closing", awaiting |-> FALSE] =>
              gate \in {"closing", "closed"} /\ pending = 0

CloseIsOut == frameFile = CloseFrame \/ \E k \in clients : k.frame = CloseFrame

\* Once a close frame is out the attempt stays drained, so a client that
\* delivers it late does no harm.
CloseFindsDrained ==
    CloseIsOut => /\ gate \in {"closing", "closed"} /\ pending = 0 /\ pump.pc = "idle"
                  /\ \A i \in Seqs : cmds[i].status # "queued"

\* The inductive invariant of the command plane: the rows, the owner's journal,
\* the command a pump works on and a close frame that is out fit together
\* (create_command, dispatch_one_command, close_control_gate, run_pump_cycle).
CommandInvariant ==
    /\ TypeOK /\ OneRowPerId /\ StrictOrder /\ ClosedGateIsEmpty
    /\ NativeAtMostOnce /\ Journalled /\ PumpHolds /\ CloseFindsDrained

(* Command ids are interchangeable. *)
IdSymmetry == Permutations(Ids)

-----------------------------------------------------------------------------
(* What the repository says and the code does not keep (README, Deviations). *)

\* awaiting_follow_up_turn stands for "Pi has not emitted the next native
\* turn-start evidence": once the turn began, its evidence is on the way.
AwaitedTurnNotBegun ==
    pending # 0 /\ pending \in begun =>
        \E n \in DOMAIN evts : evts[n] = [type |-> "turn_started", cmd |-> pending]

\* awaiting_follow_up_turn "blocks closing the owner prematurely": no turn of a
\* delivered follow-up is running when the close is accepted.
CloseSparesFollowUps ==
    [][~owner.closing /\ owner'.closing /\ turn = "running" =>
        \A c \in begun : cmds[c].status # "delivered"]_vars
=============================================================================
