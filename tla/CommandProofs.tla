---------------------------- MODULE CommandProofs ----------------------------
(***************************************************************************)
(* The safety of the command plane for any set of command ids, any number  *)
(* of PUTs and any number of scheduler restarts.  Neither the strict queue *)
(* nor the one native write is inductive: whether a row may still change   *)
(* depends on the command the pump holds, on the gate the pump's cycle     *)
(* read when it began, on the owner's journal and on the close frames that *)
(* are out.  CommandInvariant records just that.                           *)
(***************************************************************************)
EXTENDS CommandPlane, SequenceTheorems, WellFoundedInduction, TLAPS

(* A nonempty set of natural numbers has a least element. *)
LEMMA LeastElement ==
    ASSUME NEW T, T \subseteq Nat, T # {}
    PROVE  \E x \in T : \A y \in T : x <= y
<1> DEFINE R == {ss \in Nat \X Nat : ss[1] < ss[2]}
<1>1. R = OpToRel(<, Nat)
    BY Zenon  DEF OpToRel
<1>2. \A x, y \in Nat : y < x => <<y, x>> \in R
    OBVIOUS
<1>3. \E x \in T : \A y \in T : ~ (<<y, x>> \in OpToRel(<, Nat))
    BY Zenon, NatLessThanWellFounded, WFMin
<1> HIDE DEF R
<1>4. PICK x \in T : \A y \in T : ~ (<<y, x>> \in R)
    BY Zenon, <1>1, <1>3
<1>5. \A y \in T : ~ (y < x)
    BY Zenon, <1>2, <1>4
<1> QED
    BY <1>5

-----------------------------------------------------------------------------
(* What the operations on the command rows return.                          *)

RowStatuses == {"queued", "dispatching"} \cup Terminal

(* SetStatus changes the status of one row and nothing else. *)
LEMMA SetStatusRows ==
    ASSUME NEW rows \in Seq(CommandRow), NEW i \in 1..Len(rows), NEW s \in RowStatuses
    PROVE  /\ SetStatus(rows, i, s) \in Seq(CommandRow)
           /\ Len(SetStatus(rows, i, s)) = Len(rows)
           /\ \A j \in 1..Len(rows) : /\ SetStatus(rows, i, s)[j].id = rows[j].id
                                      /\ SetStatus(rows, i, s)[j].type = rows[j].type
                                      /\ j # i => SetStatus(rows, i, s)[j] = rows[j]
           /\ SetStatus(rows, i, s)[i].status = s
<1> DEFINE e == [rows[i] EXCEPT !.status = s]
<1>1. rows[i] \in CommandRow
    BY Zenon, ElementOfSeq
<1>2. e \in CommandRow /\ e.id = rows[i].id /\ e.type = rows[i].type /\ e.status = s
    BY Zenon, <1>1 DEF CommandRow, RowStatuses
<1>3. SetStatus(rows, i, s) = [rows EXCEPT ![i] = e]
    BY Zenon DEF SetStatus
<1> HIDE DEF e
<1> QED
    BY <1>2, <1>3, ExceptSeq

(* RejectQueued ends the queued rows and leaves the others. *)
LEMMA RejectQueuedRows ==
    ASSUME NEW rows \in Seq(CommandRow)
    PROVE  /\ RejectQueued(rows) \in Seq(CommandRow)
           /\ Len(RejectQueued(rows)) = Len(rows)
           /\ \A j \in 1..Len(rows) :
                 /\ RejectQueued(rows)[j].id = rows[j].id
                 /\ RejectQueued(rows)[j].type = rows[j].type
                 /\ RejectQueued(rows)[j].status =
                       IF rows[j].status = "queued" THEN "rejected" ELSE rows[j].status
<1>1. DOMAIN rows = 1..Len(rows) /\ Len(rows) \in Nat /\ \A j \in 1..Len(rows) : rows[j] \in CommandRow
    BY Zenon, LenProperties
<1>2. \A j \in 1..Len(rows) : RejectQueued(rows)[j] \in CommandRow
    BY Zenon, <1>1 DEF RejectQueued, CommandRow, Terminal
<1>3. DOMAIN RejectQueued(rows) = 1..Len(rows)
    BY Zenon, <1>1 DEF RejectQueued
<1>4. RejectQueued(rows) \in [1..Len(rows) -> CommandRow]
    BY Zenon, <1>1, <1>2, <1>3 DEF RejectQueued
<1> QED
    BY <1>1, <1>4 DEF RejectQueued, CommandRow

(* Closing the gate leaves no row live: the queued are rejected, the sent   *)
(* are unknown, and a final status stays.                                   *)
LEMMA ClosedRows ==
    ASSUME NEW rows \in Seq(CommandRow)
    PROVE  LET closed == MarkDispatchingUnknown(RejectQueued(rows))
           IN /\ closed \in Seq(CommandRow)
              /\ Len(closed) = Len(rows)
              /\ \A j \in 1..Len(rows) :
                    /\ closed[j].id = rows[j].id
                    /\ closed[j].status \in Terminal
                    /\ rows[j].status \in Terminal => closed[j].status = rows[j].status
                    /\ rows[j].status = "dispatching" => closed[j].status = "outcome_unknown"
<1> DEFINE mid == RejectQueued(rows)
           closed == MarkDispatchingUnknown(mid)
<1>1. /\ mid \in Seq(CommandRow) /\ Len(mid) = Len(rows) /\ Len(rows) \in Nat
      /\ DOMAIN mid = 1..Len(rows) /\ \A j \in 1..Len(rows) : mid[j] \in CommandRow
    BY ZenonT(60), RejectQueuedRows, LenProperties
<1>2. \A j \in 1..Len(rows) : /\ mid[j].id = rows[j].id
                              /\ mid[j].status = IF rows[j].status = "queued" THEN "rejected" ELSE rows[j].status
    BY Zenon, RejectQueuedRows
<1>3. \A j \in 1..Len(rows) : rows[j] \in CommandRow
    BY Zenon, ElementOfSeq
<1> HIDE DEF mid
<1>4. \A j \in 1..Len(rows) : closed[j] \in CommandRow
    BY Zenon, <1>1 DEF MarkDispatchingUnknown, CommandRow, Terminal
<1>5. closed \in [1..Len(rows) -> CommandRow]
    BY Zenon, <1>1, <1>4 DEF MarkDispatchingUnknown
<1>6. \A j \in 1..Len(rows) :
         /\ closed[j].id = mid[j].id
         /\ closed[j].status = IF mid[j].status = "dispatching" THEN "outcome_unknown" ELSE mid[j].status
    BY Zenon, <1>1 DEF MarkDispatchingUnknown, CommandRow
<1>7. closed \in Seq(CommandRow) /\ Len(closed) = Len(rows)
    BY <1>1, <1>5
<1> HIDE DEF closed
<1>8. \A j \in 1..Len(rows) :
         /\ closed[j].id = rows[j].id
         /\ closed[j].status \in Terminal
         /\ rows[j].status \in Terminal => closed[j].status = rows[j].status
         /\ rows[j].status = "dispatching" => closed[j].status = "outcome_unknown"
    BY ZenonT(60), <1>2, <1>3, <1>6 DEF CommandRow, Terminal
<1> QED
    BY Zenon, <1>7, <1>8 DEF closed, mid

(* _load_head_command returns the first live row, or none. *)
LEMMA HeadIsFirst ==
    ASSUME NEW rows \in Seq(CommandRow)
    PROVE  /\ HeadOf(rows) = 0 => \A j \in 1..Len(rows) : rows[j].status \in Terminal
           /\ HeadOf(rows) # 0 => /\ HeadOf(rows) \in 1..Len(rows)
                                  /\ rows[HeadOf(rows)].status \notin Terminal
                                  /\ \A j \in 1..(HeadOf(rows) - 1) : rows[j].status \in Terminal
<1> DEFINE L == {i \in 1..Len(rows) : rows[i].status \notin Terminal}
<1>1. DOMAIN rows = 1..Len(rows) /\ Len(rows) \in Nat
    BY Zenon, LenProperties
<1>2. HeadOf(rows) = IF L = {} THEN 0 ELSE CHOOSE i \in L : \A j \in L : i <= j
    BY <1>1 DEF HeadOf
<1>3. CASE L = {}
    BY Zenon, <1>2, <1>3
<1>4. CASE L # {}
  <2>1. L \subseteq Nat
    BY <1>1
  <2> HIDE DEF L
  <2>2. \E i \in L : \A j \in L : i <= j
    BY Zenon, <1>4, <2>1, LeastElement
  <2>3. HeadOf(rows) \in L /\ \A j \in L : HeadOf(rows) <= j
    BY Zenon, <1>2, <1>4, <2>2
  <2> QED
    BY <1>1, <2>3 DEF L
<1> QED
    BY Zenon, <1>3, <1>4
(* A row that was sent, whatever became of it. *)
Sent == {"dispatching", "delivered", "outcome_unknown"}

(* StrictOrder, of any rows. *)
Strict(rows) ==
    \A j \in 1..Len(rows) : rows[j].status \in Sent =>
        \A i \in 1..(j - 1) : rows[i].status \in Terminal

(* A live row may be given a status that its place in the queue allows. *)
LEMMA SettingStrict ==
    ASSUME NEW rows \in Seq(CommandRow), NEW c \in 1..Len(rows), NEW s \in RowStatuses,
           Strict(rows),
           rows[c].status \in Terminal => s = rows[c].status,
           s \in Sent => \A i \in 1..(c - 1) : rows[i].status \in Terminal
    PROVE  Strict(SetStatus(rows, c, s))
<1> DEFINE new == SetStatus(rows, c, s)
<1>1. /\ Len(new) = Len(rows) /\ Len(rows) \in Nat /\ new[c].status = s
      /\ \A j \in 1..Len(rows) : j # c => new[j] = rows[j]
    BY ZenonT(60), SetStatusRows, LenProperties
<1> HIDE DEF new
<1> SUFFICES ASSUME NEW j \in 1..Len(rows), new[j].status \in Sent, NEW i \in 1..(j - 1)
             PROVE  new[i].status \in Terminal
    BY Zenon, <1>1 DEF Strict, new
<1>3. CASE j = c
    BY <1>1, <1>3
<1>4. CASE i = c
  <2>1. rows[c].status \in Terminal
    BY Zenon, <1>1, <1>4 DEF Strict
  <2> QED
    BY Zenon, <1>1, <1>4, <2>1
<1>5. CASE i # c /\ j # c
    BY <1>1, <1>5 DEF Strict
<1> QED
    BY Zenon, <1>3, <1>4, <1>5

(* Rejecting what was never sent leaves the queue in order. *)
LEMMA RejectingStrict ==
    ASSUME NEW rows \in Seq(CommandRow), Strict(rows)
    PROVE  Strict(RejectQueued(rows))
BY RejectQueuedRows, LenProperties DEF Strict, Sent, Terminal

-----------------------------------------------------------------------------
(* The inductive invariant.                                                 *)

(* The rows in the form the steps below need. *)
LEMMA RowsTyped ==
    ASSUME GateTypeOK
    PROVE  /\ cmds \in Seq(CommandRow) /\ Len(cmds) \in Nat /\ Seqs = 1..Len(cmds)
           /\ DOMAIN cmds = 1..Len(cmds)
           /\ \A i \in 1..Len(cmds) : /\ cmds[i] \in CommandRow /\ cmds[i].id \in Ids
                                      /\ cmds[i].status \in RowStatuses
<1>1. cmds \in Seq(CommandRow)
    BY Zenon DEF GateTypeOK
<1>2. \A i \in 1..Len(cmds) : cmds[i] \in CommandRow
    BY Zenon, <1>1, ElementOfSeq
<1> QED
    BY Zenon, <1>1, <1>2, LenProperties DEF Seqs, CommandRow, RowStatuses

(* An attempt that has just been created satisfies the invariant. *)
LEMMA InitCommands == Init => CommandInvariant
<1> SUFFICES ASSUME Init PROVE CommandInvariant
    OBVIOUS
<1> USE DEF Init, GateInit, OwnerInit, PumpInit, None, CloseFrame, Unread
<1>0. /\ << >> \in Seq(CommandRow) /\ << >> \in Seq(Event) /\ << >> \in Seq(Seqs)
      /\ Len(<< >>) = 0
    BY Zenon, EmptySeq
<1>1. GateTypeOK /\ Len(cmds) = 0
  <2>1. forceClose \in BOOLEAN
    BY Zenon 
  <2> QED
    BY <1>0, <2>1 DEF GateTypeOK
<1>2. PumpTypeOK /\ OwnerTypeOK
  <2>1. staleLease \in BOOLEAN /\ mem \in [gate : {"starting", "accepting", "closing", "closed"}, awaiting : BOOLEAN]
    BY Zenon 
  <2>2. frameFile \in Frame /\ None \in InFlight /\ 0 \in 0..Len(cmds)
    BY <1>0 DEF Frame, Gates, InFlight
  <2>3. owner \in [up : BOOLEAN, settled : BOOLEAN, closing : BOOLEAN, reopen : 0..Len(cmds),
                  inflight : InFlight, answer : {"none", "ack", "reject"}]
    BY Zenon, <2>2
  <2> QED
    BY Zenon, <1>0, <2>1, <2>2, <2>3 DEF PumpTypeOK, OwnerTypeOK
<1>3. OneRowPerId /\ StrictOrder /\ ClosedGateIsEmpty
    BY <1>1 DEF OneRowPerId, StrictOrder, ClosedGateIsEmpty, Seqs
<1>4. NativeAtMostOnce /\ Journalled
    BY DEF NativeAtMostOnce, Journalled
<1>5. PumpHolds /\ CloseFindsDrained
    BY Zenon DEF PumpHolds, CloseFindsDrained, CloseIsOut
<1> QED
    BY Zenon, <1>1, <1>2, <1>3, <1>4, <1>5 DEF CommandInvariant, TypeOK

-----------------------------------------------------------------------------
(* How a step may change the rows.                                          *)

(* Rows are only added, final statuses stay, ids stay unique, the queue     *)
(* stays in order and a gate is closed on an empty queue.                   *)
RowsKept ==
    /\ cmds' \in Seq(CommandRow) /\ Len(cmds) <= Len(cmds')
    /\ \A i \in 1..Len(cmds) : cmds[i].status \in Terminal => cmds'[i].status = cmds[i].status
    /\ OneRowPerId' /\ StrictOrder' /\ ClosedGateIsEmpty'

(* A step that writes statuses only. *)
LEMMA StatusesWritten ==
    ASSUME GateTypeOK, OneRowPerId,
           cmds' \in Seq(CommandRow), Len(cmds') = Len(cmds), Strict(cmds'),
           \A i \in 1..Len(cmds) : cmds'[i].id = cmds[i].id,
           \A i \in 1..Len(cmds) : cmds[i].status \in Terminal => cmds'[i].status = cmds[i].status,
           gate' = "closed" => \A i \in 1..Len(cmds) : cmds'[i].status \in Terminal
    PROVE  RowsKept
BY RowsTyped DEF RowsKept, OneRowPerId, StrictOrder, ClosedGateIsEmpty, Strict, Sent, Live, Seqs

(* A step that writes no row and closes no gate on a live row. *)
LEMMA RowsUntouched ==
    ASSUME GateTypeOK, OneRowPerId, StrictOrder, ClosedGateIsEmpty, UNCHANGED cmds,
           gate' = "closed" => gate = "closed" \/ Live = {}
    PROVE  RowsKept
BY RowsTyped DEF RowsKept, OneRowPerId, StrictOrder, ClosedGateIsEmpty, Live, Seqs

(* create_command adds a queued row with a new id at the end. *)
LEMMA PutRows ==
    ASSUME GateTypeOK, OneRowPerId, StrictOrder, ClosedGateIsEmpty, NEW r \in puts, PutInserts(r)
    PROVE  RowsKept
<1> DEFINE row == [id |-> r.id, type |-> r.type, status |-> "queued"]
<1>1. CASE cmds' = cmds
    BY Zenon, <1>1, RowsUntouched DEF PutInserts
<1>2. CASE cmds' # cmds
  <2>1. cmds' = Append(cmds, row) /\ ~HasId(r.id) /\ gate = "accepting" /\ gate' = gate
    BY Zenon, <1>2 DEF PutInserts
  <2>2. row \in CommandRow
    BY Zenon DEF GateTypeOK, CommandRow
  <2> HIDE DEF row
  <2>3. /\ cmds' \in Seq(CommandRow) /\ Len(cmds') = Len(cmds) + 1
        /\ \A i \in 1..Len(cmds) : cmds'[i] = cmds[i]
        /\ cmds'[Len(cmds) + 1] = row
    BY <2>1, <2>2, RowsTyped
  <2>4. row.id = r.id /\ row.status = "queued"
    BY Zenon DEF row
  <2>5. OneRowPerId'
    BY SMTT(30), <2>1, <2>3, <2>4, RowsTyped DEF OneRowPerId, HasId, Seqs
  <2>6. StrictOrder'
    BY <2>3, <2>4, RowsTyped DEF StrictOrder, Seqs
  <2> QED
    BY <2>1, <2>3, <2>5, <2>6, RowsTyped DEF RowsKept, ClosedGateIsEmpty
<1> QED
    BY Zenon, <1>1, <1>2

(* close_control_gate ends every row. *)
LEMMA CloseRows ==
    ASSUME GateTypeOK, OneRowPerId, CloseControlGate
    PROVE  RowsKept /\ Len(cmds') = Len(cmds) /\ \A i \in 1..Len(cmds) : cmds'[i].status \in Terminal
<1>1. /\ cmds' \in Seq(CommandRow) /\ Len(cmds') = Len(cmds)
      /\ \A j \in 1..Len(cmds) :
            /\ cmds'[j].id = cmds[j].id
            /\ cmds'[j].status \in Terminal
            /\ cmds[j].status \in Terminal => cmds'[j].status = cmds[j].status
    BY Zenon, ClosedRows, RowsTyped DEF CloseControlGate
<1>2. Strict(cmds')
    BY <1>1, RowsTyped DEF Strict
<1> QED
    BY Zenon, <1>1, <1>2, StatusesWritten

(* The pump writes the status s of the row c, and may reject what is        *)
(* queued besides.                                                          *)
LEMMA StatusSet ==
    ASSUME GateTypeOK, OneRowPerId, StrictOrder, NEW c \in 1..Len(cmds), NEW s \in RowStatuses,
           cmds[c].status \in Terminal => s = cmds[c].status,
           s \in Sent => \A i \in 1..(c - 1) : cmds[i].status \in Terminal,
           cmds' \in {SetStatus(cmds, c, s), RejectQueued(SetStatus(cmds, c, s))},
           gate' = "closed" => \A i \in 1..Len(cmds) : cmds'[i].status \in Terminal
    PROVE  RowsKept /\ Len(cmds') = Len(cmds)
<1> DEFINE new == SetStatus(cmds, c, s)
<1>0. cmds \in Seq(CommandRow) /\ Strict(cmds)
    BY Zenon, RowsTyped DEF StrictOrder, Strict, Sent, Seqs
<1>1. /\ new \in Seq(CommandRow) /\ Len(new) = Len(cmds) /\ new[c].status = s
      /\ \A j \in 1..Len(cmds) : new[j].id = cmds[j].id /\ (j # c => new[j] = cmds[j])
    BY ZenonT(60), <1>0, SetStatusRows
<1>2. Strict(new)
    BY Zenon, <1>0, SettingStrict
<1> HIDE DEF new
<1>3. CASE cmds' = new
    BY Zenon, <1>1, <1>2, <1>3, StatusesWritten
<1>4. CASE cmds' = RejectQueued(new)
  <2>1. /\ cmds' \in Seq(CommandRow) /\ Len(cmds') = Len(new)
        /\ \A j \in 1..Len(new) :
              /\ cmds'[j].id = new[j].id
              /\ cmds'[j].status = IF new[j].status = "queued" THEN "rejected" ELSE new[j].status
    BY Zenon, <1>1, <1>4, RejectQueuedRows
  <2>2. Strict(cmds')
    BY Zenon, <1>1, <1>2, <1>4, RejectingStrict
  <2>3. \A j \in 1..Len(cmds) : cmds[j].status \in Terminal => cmds'[j].status = cmds[j].status
    BY ZenonT(60), <1>1, <2>1 DEF Terminal
  <2>4. \A j \in 1..Len(cmds) : cmds'[j].id = cmds[j].id
    BY Zenon, <1>1, <2>1
  <2> QED
    BY Zenon, <1>1, <2>1, <2>2, <2>3, <2>4, StatusesWritten
<1> QED
    BY Zenon, <1>3, <1>4 DEF new

(* The head of the queue, as the pump reads it. *)
LEMMA HeadOfQueue ==
    ASSUME GateTypeOK, HeadOf(cmds) # 0
    PROVE  /\ HeadOf(cmds) \in 1..Len(cmds)
           /\ cmds[HeadOf(cmds)].status \notin Terminal
           /\ \A j \in 1..(HeadOf(cmds) - 1) : cmds[j].status \in Terminal
BY Zenon, HeadIsFirst, RowsTyped

(* A cycle claims the head. *)
LEMMA ClaimRows ==
    ASSUME GateTypeOK, OneRowPerId, StrictOrder, PumpClaimsHead
    PROVE  RowsKept /\ Len(cmds') = Len(cmds)
<1>1. HeadOf(cmds) # 0 /\ cmds' = SetStatus(cmds, HeadOf(cmds), "dispatching")
      /\ gate' = gate /\ gate \in {"accepting", "closing"}
    BY Zenon DEF PumpClaimsHead, Dispatch, Claimable
<1> QED
    BY Zenon, <1>1, HeadOfQueue, StatusSet DEF RowStatuses

(* A cycle gives up a head whose sender died. *)
LEMMA RecoverRows ==
    ASSUME GateTypeOK, OneRowPerId, StrictOrder, PumpRecovers
    PROVE  RowsKept /\ Len(cmds') = Len(cmds)
<1> DEFINE new == SetStatus(cmds, HeadOf(cmds), "outcome_unknown")
<1>1. HeadOf(cmds) # 0 /\ cmds' \in {new, RejectQueued(new)}
      /\ gate' = gate /\ gate \in {"accepting", "closing"}
    BY Zenon DEF PumpRecovers, FailPendingFollowUp, Claimable
<1> QED
    BY Zenon, <1>1, HeadOfQueue, StatusSet DEF RowStatuses, Terminal

(* The command whose outcome the pump has, and the status it is given. *)
LEMMA OutcomeAllowed ==
    ASSUME GateTypeOK, OwnerTypeOK, PumpTypeOK, StrictOrder, PumpHolds, pump.pc = "sending",
           NEW o \in Outcomes, CheckConstraint(cmds[pump.cmd].status, StatusOf(o))
    PROVE  /\ pump.cmd \in 1..Len(cmds)
           /\ StatusOf(o) \in RowStatuses
           /\ cmds[pump.cmd].status \in Terminal => StatusOf(o) = cmds[pump.cmd].status
           /\ \A i \in 1..(pump.cmd - 1) : cmds[i].status \in Terminal
<1>1. pump.cmd \in 1..Len(cmds) /\ cmds[pump.cmd].status \in {"dispatching", "outcome_unknown"}
    BY RowsTyped DEF PumpTypeOK, PumpHolds
<1>2. o \in {"ack", "reject", "retry", "unknown"}
    BY Zenon DEF Outcomes, OwnerTypeOK
<1>3. StatusOf(o) \in RowStatuses
    BY Zenon, <1>2 DEF StatusOf, RowStatuses, Terminal
<1>4. cmds[pump.cmd].status \in Terminal => StatusOf(o) = cmds[pump.cmd].status
    BY Zenon, <1>1 DEF CheckConstraint, Terminal
<1>5. \A i \in 1..(pump.cmd - 1) : cmds[i].status \in Terminal
    BY Zenon, <1>1, RowsTyped DEF StrictOrder
<1> QED
    BY Zenon, <1>1, <1>3, <1>4, <1>5

(* The outcome of a command is written and the cycle ends. *)
LEMMA RecordRows ==
    ASSUME GateTypeOK, OwnerTypeOK, PumpTypeOK, OneRowPerId, StrictOrder, ClosedGateIsEmpty,
           PumpHolds, NEW o \in Outcomes, PumpRecordsOutcome(o)
    PROVE  RowsKept /\ Len(cmds') = Len(cmds)
<1> DEFINE s == StatusOf(o)
           new == SetStatus(cmds, pump.cmd, s)
<1>1. pump.pc = "sending" /\ CheckConstraint(cmds[pump.cmd].status, s) /\ gate' = gate
    BY Zenon DEF PumpRecordsOutcome
<1>2. cmds' \in {new, RejectQueued(new)}
    BY Zenon DEF PumpRecordsOutcome, SettlesPending, FailPendingFollowUp
<1>3. /\ pump.cmd \in 1..Len(cmds) /\ s \in RowStatuses
      /\ cmds[pump.cmd].status \in Terminal => s = cmds[pump.cmd].status
      /\ \A i \in 1..(pump.cmd - 1) : cmds[i].status \in Terminal
    BY Zenon, <1>1, OutcomeAllowed
<1> HIDE DEF s
<1>4. ASSUME gate' = "closed" PROVE \A i \in 1..Len(cmds) : cmds'[i].status \in Terminal
  <2>1. \A i \in 1..Len(cmds) : cmds[i].status \in Terminal
    BY Zenon, <1>1, <1>4, RowsTyped DEF ClosedGateIsEmpty, Live
  <2>2. /\ new \in Seq(CommandRow) /\ Len(new) = Len(cmds) /\ new[pump.cmd].status = s
        /\ \A i \in 1..Len(cmds) : i # pump.cmd => new[i] = cmds[i]
    <3>1. pump.cmd \in 1..Len(cmds) /\ s \in RowStatuses /\ cmds \in Seq(CommandRow)
      BY Zenon, <1>3, RowsTyped
    <3> QED
      BY Zenon, <3>1, SetStatusRows
  <2> HIDE DEF new
  <2>3. \A i \in 1..Len(cmds) : new[i].status \in Terminal
    BY Zenon, <1>3, <2>1, <2>2
  <2> QED
    BY <1>2, <2>2, <2>3, RejectQueuedRows DEF Terminal
<1> QED
    BY Zenon, <1>2, <1>3, <1>4, StatusSet

(* The outcome of a command is written with the claim of the next one. *)
LEMMA GoesOnRows ==
    ASSUME GateTypeOK, OwnerTypeOK, PumpTypeOK, OneRowPerId, StrictOrder, ClosedGateIsEmpty,
           PumpHolds, NEW o \in Outcomes, PumpGoesOn(o)
    PROVE  RowsKept /\ Len(cmds') = Len(cmds) /\ gate # "closed"
           /\ pump'.cmd \in 1..Len(cmds) /\ cmds'[pump'.cmd].status = "dispatching"
<1> DEFINE s == StatusOf(o)
           rows == SetStatus(cmds, pump.cmd, s)
           c == HeadOf(rows)
<1>1. /\ pump.pc = "sending" /\ CheckConstraint(cmds[pump.cmd].status, s) /\ gate' = gate
      /\ c # 0 /\ cmds' = SetStatus(rows, c, "dispatching") /\ pump' = [pump EXCEPT !.pc = "claimed", !.cmd = c]
    BY Zenon DEF PumpGoesOn, Dispatch
<1>2. /\ pump.cmd \in 1..Len(cmds) /\ s \in RowStatuses
      /\ cmds[pump.cmd].status \in Terminal => s = cmds[pump.cmd].status
      /\ \A i \in 1..(pump.cmd - 1) : cmds[i].status \in Terminal
    BY Zenon, <1>1, OutcomeAllowed
<1>3. cmds \in Seq(CommandRow) /\ Len(cmds) \in Nat /\ Strict(cmds)
    BY Zenon, RowsTyped DEF StrictOrder, Strict, Sent, Seqs
<1>4. /\ rows \in Seq(CommandRow) /\ Len(rows) = Len(cmds) /\ rows[pump.cmd].status = s
      /\ \A j \in 1..Len(cmds) : rows[j].id = cmds[j].id /\ (j # pump.cmd => rows[j] = cmds[j])
    BY ZenonT(60), <1>2, <1>3, SetStatusRows
<1>5. Strict(rows)
    BY Zenon, <1>2, <1>3, SettingStrict
<1> HIDE DEF s, rows
<1>6. /\ c \in 1..Len(rows) /\ rows[c].status \notin Terminal
      /\ \A j \in 1..(c - 1) : rows[j].status \in Terminal
    BY Zenon, <1>1, <1>4, HeadIsFirst
<1> HIDE DEF c
<1>7. /\ cmds' \in Seq(CommandRow) /\ Len(cmds') = Len(rows) /\ cmds'[c].status = "dispatching"
      /\ \A j \in 1..Len(rows) : cmds'[j].id = rows[j].id /\ (j # c => cmds'[j] = rows[j])
    BY <1>1, <1>4, <1>6, SetStatusRows DEF RowStatuses
<1>8. Strict(cmds')
    BY Zenon, <1>1, <1>4, <1>5, <1>6, SettingStrict DEF RowStatuses
<1>9. \A j \in 1..Len(cmds) : cmds[j].status \in Terminal => rows[j].status = cmds[j].status
    BY Zenon, <1>2, <1>4
<1>10. gate # "closed"
    BY Zenon, <1>4, <1>6, <1>9, RowsTyped DEF ClosedGateIsEmpty, Live
<1>11. \A j \in 1..Len(cmds) : cmds[j].status \in Terminal => cmds'[j].status = cmds[j].status
    BY Zenon, <1>4, <1>6, <1>7, <1>9
<1>12. \A j \in 1..Len(cmds) : cmds'[j].id = cmds[j].id
    BY Zenon, <1>4, <1>7
<1>13. RowsKept
    BY ZenonT(60), <1>1, <1>4, <1>7, <1>8, <1>10, <1>11, <1>12, StatusesWritten
<1> QED
    BY Zenon, <1>1, <1>4, <1>6, <1>7, <1>10, <1>13 DEF PumpTypeOK

(* The outcome of the last command is written with the closed gate, or the  *)
(* commit is lost: either way no row is left queued.                        *)
LEMMA ClosesAfterRows ==
    ASSUME GateTypeOK, OwnerTypeOK, PumpTypeOK, OneRowPerId, StrictOrder, ClosedGateIsEmpty,
           PumpHolds, NEW o \in Outcomes, NEW b \in BOOLEAN, PumpClosesAfter(o, b)
    PROVE  /\ RowsKept /\ Len(cmds') = Len(cmds)
           /\ \A j \in 1..Len(cmds) : cmds[j].status # "queued" /\ cmds'[j].status # "queued"
<1> DEFINE s == StatusOf(o)
           rows == SetStatus(cmds, pump.cmd, s)
<1>1. /\ pump.pc = "sending" /\ CheckConstraint(cmds[pump.cmd].status, s) /\ HeadOf(rows) = 0
      /\ \/ cmds' = rows
         \/ cmds' = cmds /\ gate' = gate
    BY Zenon DEF PumpClosesAfter
<1>2. /\ pump.cmd \in 1..Len(cmds) /\ s \in RowStatuses
      /\ cmds[pump.cmd].status \in Terminal => s = cmds[pump.cmd].status
      /\ \A i \in 1..(pump.cmd - 1) : cmds[i].status \in Terminal
    BY Zenon, <1>1, OutcomeAllowed
<1>3. /\ rows \in Seq(CommandRow) /\ Len(rows) = Len(cmds)
      /\ \A j \in 1..Len(cmds) : j # pump.cmd => rows[j] = cmds[j]
    BY ZenonT(60), <1>2, RowsTyped, SetStatusRows
<1> HIDE DEF s
<1>4. \A j \in 1..Len(cmds) : rows[j].status \in Terminal
    BY Zenon, <1>1, <1>3, HeadIsFirst
<1>5. cmds[pump.cmd].status # "queued"
    BY Zenon, <1>1 DEF PumpHolds
<1>6. \A j \in 1..Len(cmds) : cmds[j].status # "queued" /\ rows[j].status # "queued"
    BY Zenon, <1>3, <1>4, <1>5 DEF Terminal
<1>7. CASE cmds' = rows
    BY Zenon, <1>2, <1>4, <1>6, <1>7, StatusSet
<1>8. CASE cmds' = cmds /\ gate' = gate
    BY ZenonT(60), <1>6, <1>8, RowsUntouched
<1> QED
    BY Zenon, <1>1, <1>7, <1>8

-----------------------------------------------------------------------------
(* Every step preserves the invariant.                                      *)

(* New rows make no command that is named anywhere unknown. *)
LEMMA OwnerGrows ==
    ASSUME OwnerTypeOK, UNCHANGED ownerVars, Len(cmds) \in Nat, Len(cmds') \in Nat,
           Len(cmds) <= Len(cmds')
    PROVE  OwnerTypeOK'
<1>1. 0..Len(cmds) \subseteq 0..Len(cmds') /\ Seqs \subseteq Seqs'
    BY DEF Seqs
<1>2. Frame \subseteq Frame' /\ InFlight \subseteq InFlight'
    BY Zenon, <1>1 DEF Frame, InFlight
<1>3. natives \in Seq(Seqs')
    BY Zenon, <1>1, SeqMonotonic DEF OwnerTypeOK
<1>4. clients \subseteq [for : 0..Len(cmds'), frame : Frame']
    BY Zenon, <1>1, <1>2 DEF OwnerTypeOK
<1>5. replies \subseteq [cmd : 0..Len(cmds'), status : {"ack", "reject", "retry", "unknown"}]
    BY Zenon, <1>1 DEF OwnerTypeOK
<1>6. owner \in [up : BOOLEAN, settled : BOOLEAN, closing : BOOLEAN, reopen : 0..Len(cmds'),
                 inflight : InFlight', answer : {"none", "ack", "reject"}]
    BY Zenon, <1>1, <1>2 DEF OwnerTypeOK
<1>7. responses \subseteq [cmd : Seqs', status : {"ack", "reject"}]
    BY Zenon, <1>1 DEF OwnerTypeOK
<1> QED
    BY ZenonT(60), <1>1, <1>2, <1>3, <1>4, <1>5, <1>6, <1>7 DEF OwnerTypeOK, ownerVars, wireVars, piVars

(* A step of the database alone. *)
LEMMA GateStep ==
    ASSUME CommandInvariant, UNCHANGED <<ownerVars, pumpVars>>, GateTypeOK', RowsKept,
           gate \in {"closing", "closed"} /\ pending = 0 =>
               gate' \in {"closing", "closed"} /\ pending' = 0,
           \A i \in 1..Len(cmds) : cmds[i].status = "dispatching" =>
               cmds'[i].status \in {"dispatching", "outcome_unknown"},
           \A i \in 1..Len(cmds') : cmds'[i].status = "queued" =>
               gate = "accepting" \/ (i \in 1..Len(cmds) /\ cmds[i].status = "queued")
    PROVE  CommandInvariant'
<1>1. GateTypeOK /\ OwnerTypeOK /\ PumpTypeOK
    BY Zenon DEF CommandInvariant, TypeOK
<1>2. Len(cmds) \in Nat /\ Len(cmds') \in Nat /\ Len(cmds) <= Len(cmds')
    BY Zenon, <1>1, RowsTyped, LenProperties DEF RowsKept
<1>3. OwnerTypeOK'
    BY Zenon, <1>1, <1>2, OwnerGrows
<1>4. PumpTypeOK'
    BY <1>1, <1>2 DEF PumpTypeOK, pumpVars
<1>5. NativeAtMostOnce' /\ Journalled'
    BY Zenon DEF CommandInvariant, NativeAtMostOnce, Journalled, ownerVars
<1>6. PumpHolds'
    BY <1>1, <1>2 DEF CommandInvariant, PumpHolds, pumpVars, PumpTypeOK, RowsKept, Terminal
<1>7. CloseFindsDrained'
    BY ZenonT(60), <1>1, <1>2 DEF CommandInvariant, CloseFindsDrained, CloseIsOut, pumpVars, ownerVars, wireVars, Seqs
<1> QED
    BY ZenonT(60), <1>3, <1>4, <1>5, <1>6, <1>7 DEF CommandInvariant, TypeOK, RowsKept

(* The clients of the API preserve the invariant. *)
LEMMA ApiStep ==
    ASSUME CommandInvariant, Api
    PROVE  CommandInvariant' /\ RowsKept
<1>0. GateTypeOK /\ OneRowPerId /\ StrictOrder /\ ClosedGateIsEmpty
    BY Zenon DEF CommandInvariant, TypeOK
<1>1. ASSUME NEW id \in Ids, NEW t \in CommandTypes, PutReads(id, t), UNCHANGED <<ownerVars, pumpVars>>
      PROVE  CommandInvariant' /\ RowsKept
  <2>1. RowsKept
    BY ZenonT(60), <1>0, <1>1, RowsUntouched DEF PutReads
  <2>2. GateTypeOK'
    BY <1>0, <1>1 DEF PutReads, GateTypeOK
  <2> QED
    BY ZenonT(60), <1>1, <2>1, <2>2, GateStep DEF PutReads
<1>2. ASSUME NEW r \in puts, PutFails(r), UNCHANGED <<ownerVars, pumpVars>>
      PROVE  CommandInvariant' /\ RowsKept
  <2>1. RowsKept
    BY Zenon, <1>0, <1>2, RowsUntouched DEF PutFails
  <2>2. GateTypeOK'
    BY Zenon, <1>0, <1>2 DEF PutFails, GateTypeOK
  <2> QED
    BY Zenon, <1>2, <2>1, <2>2, GateStep DEF PutFails
<1>3. ASSUME NEW r \in puts, PutInserts(r), UNCHANGED <<ownerVars, pumpVars>>
      PROVE  CommandInvariant' /\ RowsKept
  <2>1. RowsKept
    BY Zenon, <1>0, <1>3, PutRows
  <2>2. GateTypeOK'
    BY SMTT(30), <1>0, <1>3, <2>1, RowsTyped, LenProperties DEF PutInserts, GateTypeOK, RowsKept
  <2>3. CASE cmds' = cmds
    BY Zenon, <1>3, <2>1, <2>2, <2>3, GateStep DEF PutInserts
  <2>4. CASE cmds' # cmds
    <3>1. gate = "accepting" /\ gate' = gate
          /\ cmds' = Append(cmds, [id |-> r.id, type |-> r.type, status |-> "queued"])
      BY Zenon, <1>3, <2>4 DEF PutInserts
    <3>2. \A i \in 1..Len(cmds) : cmds'[i] = cmds[i]
      BY <1>0, <3>1, RowsTyped
    <3> QED
      BY Zenon, <1>3, <2>1, <2>2, <3>1, <3>2, GateStep
  <2> QED
    BY Zenon, <2>3, <2>4
<1> QED
    BY ZenonT(60), <1>1, <1>2, <1>3 DEF Api

(* Closing the gate preserves the invariant. *)
LEMMA CloseStep ==
    ASSUME CommandInvariant, UNCHANGED <<ownerVars, pumpVars>>, CloseControlGate,
           task' \in {"RUNNING", "ENDED"}, UNCHANGED puts, evts' \in Seq(Event)
    PROVE  CommandInvariant' /\ RowsKept
<1>0. GateTypeOK /\ OneRowPerId /\ StrictOrder /\ ClosedGateIsEmpty
    BY Zenon DEF CommandInvariant, TypeOK
<1>1. /\ RowsKept /\ Len(cmds') = Len(cmds) /\ cmds' \in Seq(CommandRow)
      /\ \A i \in 1..Len(cmds) : cmds'[i].status \in Terminal
    BY Zenon, <1>0, CloseRows DEF RowsKept
<1>2. \A i \in 1..Len(cmds) : cmds[i].status = "dispatching" => cmds'[i].status = "outcome_unknown"
    BY ZenonT(60), <1>0, RowsTyped, ClosedRows DEF CloseControlGate
<1>3. gate' = "closed" /\ pending' = 0 /\ forceClose' = FALSE
    BY Zenon DEF CloseControlGate
<1>4. forceClose' \in BOOLEAN
    BY Zenon, <1>3
<1>5. GateTypeOK'
    BY SMTT(30), <1>0, <1>1, <1>3, <1>4, RowsTyped DEF GateTypeOK
<1> QED
    BY ZenonT(60), <1>1, <1>2, <1>3, <1>5, GateStep DEF Terminal

(* The projection of a canonical event preserves the invariant. *)
LEMMA ProjectionStep ==
    ASSUME CommandInvariant, Projection
    PROVE  CommandInvariant' /\ RowsKept
<1>0. GateTypeOK /\ OneRowPerId /\ StrictOrder /\ ClosedGateIsEmpty
    BY Zenon DEF CommandInvariant, TypeOK
<1>1. /\ evts # << >> /\ evts' = Tail(evts) /\ UNCHANGED <<task, puts>>
      /\ UNCHANGED <<ownerVars, pumpVars>>
    BY Zenon DEF Projection, ProjectEvent
<1>2. evts' \in Seq(Event) /\ Head(evts) \in Event
    BY Zenon, <1>0, <1>1, HeadTailProperties DEF GateTypeOK
<1>3. BeginControlDrain \/ ReopenControl(Head(evts).cmd) \/ CloseControlGate
    BY Zenon, <1>2 DEF Projection, ProjectEvent, Event
<1>4. CASE BeginControlDrain
  <2>1. RowsKept
    BY Zenon, <1>0, <1>4, RowsUntouched DEF BeginControlDrain
  <2>2. GateTypeOK'
    BY Zenon, <1>0, <1>1, <1>2, <1>4 DEF BeginControlDrain, GateTypeOK
  <2> QED
    BY Zenon, <1>1, <1>4, <2>1, <2>2, GateStep DEF BeginControlDrain
<1>5. CASE ReopenControl(Head(evts).cmd)
  <2>1. RowsKept
    BY ZenonT(60), <1>0, <1>5, RowsUntouched DEF ReopenControl
  <2>2. GateTypeOK'
    BY SMTT(30), <1>0, <1>1, <1>2, <1>5, RowsTyped DEF ReopenControl, GateTypeOK
  <2> QED
    BY Zenon, <1>1, <1>5, <2>1, <2>2, GateStep DEF ReopenControl
<1>6. CASE CloseControlGate
    BY Zenon, <1>0, <1>1, <1>2, <1>6, CloseStep DEF GateTypeOK
<1> QED
    BY Zenon, <1>3, <1>4, <1>5, <1>6

(* The end of the task preserves the invariant. *)
LEMMA EndingStep ==
    ASSUME CommandInvariant, Ending
    PROVE  CommandInvariant' /\ RowsKept
<1>0. GateTypeOK /\ OneRowPerId /\ StrictOrder /\ ClosedGateIsEmpty
    BY Zenon DEF CommandInvariant, TypeOK
<1>1. task' = "ENDED" /\ UNCHANGED <<puts, evts>> /\ UNCHANGED <<ownerVars, pumpVars>>
    BY Zenon DEF Ending, TaskEnds
<1>2. CASE UNCHANGED <<gate, cmds, pending, forceClose>>
  <2>1. RowsKept
    BY Zenon, <1>0, <1>2, RowsUntouched
  <2>2. GateTypeOK'
    BY Zenon, <1>0, <1>1, <1>2 DEF GateTypeOK
  <2> QED
    BY Zenon, <1>1, <1>2, <2>1, <2>2, GateStep
<1>3. CASE CloseControlGate
    BY ZenonT(60), <1>0, <1>1, <1>3, CloseStep DEF GateTypeOK
<1> QED
    BY Zenon, <1>2, <1>3 DEF Ending, TaskEnds

(* A step of the container alone. *)
LEMMA ContainerStep ==
    ASSUME CommandInvariant, UNCHANGED <<task, gate, cmds, pending, forceClose, puts>>,
           UNCHANGED pumpVars, evts' \in Seq(Event), OwnerTypeOK', CloseIsOut' => CloseIsOut,
           NativeAtMostOnce', Journalled'
    PROVE  CommandInvariant' /\ RowsKept
<1>0. GateTypeOK /\ OneRowPerId /\ StrictOrder /\ ClosedGateIsEmpty
    BY Zenon DEF CommandInvariant, TypeOK
<1>1. RowsKept
    BY ZenonT(60), <1>0, RowsUntouched
<1>2. GateTypeOK' /\ PumpTypeOK'
    BY ZenonT(60) DEF CommandInvariant, TypeOK, GateTypeOK, PumpTypeOK, pumpVars
<1>3. PumpHolds' /\ CloseFindsDrained'
    BY Zenon DEF CommandInvariant, PumpHolds, CloseFindsDrained, pumpVars, Seqs
<1> QED
    BY ZenonT(60), <1>1, <1>2, <1>3 DEF CommandInvariant, TypeOK, RowsKept

(* A reply, when there is one, is typed. *)
LEMMA ReplyTyped ==
    ASSUME NEW k \in [for : 0..Len(cmds), frame : Frame],
           NEW s \in {"ack", "reject", "retry", "unknown"}
    PROVE  Reply(k, s) \subseteq [cmd : 0..Len(cmds), status : {"ack", "reject", "retry", "unknown"}]
BY DEF Reply, Answer

(* The control clients preserve the invariant. *)
LEMMA ClientStep ==
    ASSUME CommandInvariant, Clients
    PROVE  CommandInvariant' /\ RowsKept
<1>1. PICK k \in clients : ClientStarts(k) /\ UNCHANGED pumpVars
    BY Zenon DEF Clients
<1>2. GateTypeOK /\ OwnerTypeOK
    BY Zenon DEF CommandInvariant, TypeOK
<1>3. k \in [for : 0..Len(cmds), frame : Frame] /\ Started(k) \in [for : 0..Len(cmds), frame : Frame]
    BY Zenon, <1>2 DEF OwnerTypeOK, Started
<1>4. Reply(Started(k), "retry") \subseteq [cmd : 0..Len(cmds), status : {"ack", "reject", "retry", "unknown"}]
    BY Zenon, <1>3, ReplyTyped
<1>5. OwnerTypeOK'
    BY SMTT(30), <1>1, <1>2, <1>3, <1>4 DEF ClientStarts, OwnerTypeOK, gateVars, piVars, Frame, InFlight, Seqs
<1>6. CloseIsOut' => CloseIsOut
    BY SMTT(30), <1>1, <1>3 DEF ClientStarts, CloseIsOut, Started
<1>7. NativeAtMostOnce' /\ Journalled'
    BY Zenon, <1>1 DEF CommandInvariant, ClientStarts, NativeAtMostOnce, Journalled
<1> QED
    BY Zenon, <1>1, <1>2, <1>5, <1>6, <1>7, ContainerStep DEF ClientStarts, gateVars, GateTypeOK

(* A journal line is written before the one native write of its command. *)
LEMMA NativeStep ==
    ASSUME CommandInvariant, NEW k \in clients, OwnerWrites(k)
    PROVE  NativeAtMostOnce' /\ Journalled' /\ natives' \in Seq(Seqs)
<1>1. /\ natives \in Seq(Seqs) /\ k.frame \in Frame /\ k.frame.cmd \in Seqs
      /\ NativeAtMostOnce /\ Journalled
    BY DEF CommandInvariant, TypeOK, OwnerTypeOK, OwnerWrites, Frame, InFlight, Seqs
<1>2. /\ k.frame.cmd \notin requests /\ natives' = Append(natives, k.frame.cmd)
      /\ requests' = requests \cup {k.frame.cmd}
    BY Zenon DEF OwnerWrites
<1>3. DOMAIN natives = 1..Len(natives) /\ Len(natives) \in Nat
    BY Zenon, <1>1, LenProperties
<1>4. /\ natives' \in Seq(Seqs) /\ DOMAIN natives' = 1..(Len(natives) + 1)
      /\ natives'[Len(natives) + 1] = k.frame.cmd
      /\ \A i \in 1..Len(natives) : natives'[i] = natives[i]
    BY <1>1, <1>2, <1>3
<1>5. \A i \in 1..Len(natives) : natives[i] # k.frame.cmd
    BY Zenon, <1>1, <1>2, <1>3 DEF Journalled
<1>6. NativeAtMostOnce'
    BY SMTT(30), <1>1, <1>3, <1>4, <1>5 DEF NativeAtMostOnce
<1>7. Journalled'
    BY SMTT(30), <1>1, <1>2, <1>3, <1>4 DEF Journalled
<1> QED
    BY Zenon, <1>4, <1>6, <1>7

(* The owner's steps preserve the invariant. *)
LEMMA OwnerStep ==
    ASSUME CommandInvariant, Owner
    PROVE  CommandInvariant' /\ RowsKept
<1>0. GateTypeOK /\ OwnerTypeOK /\ NativeAtMostOnce /\ Journalled /\ UNCHANGED pumpVars
    BY Zenon DEF CommandInvariant, TypeOK, Owner
<1>1. evts \in Seq(Event) /\ None \in Frame
    BY <1>0, RowsTyped DEF GateTypeOK, None, Frame, Gates
<1> USE DEF gateVars, wireVars, piVars
<1>2. ASSUME NEW k \in clients, OwnerCloses(k)
      PROVE  CommandInvariant' /\ RowsKept
  <2>1. OwnerTypeOK'
    BY ZenonT(60), <1>0, <1>2 DEF OwnerCloses, OwnerTypeOK, Frame, InFlight, Seqs
  <2> QED
    BY Zenon, <1>0, <1>1, <1>2, <2>1, ContainerStep DEF OwnerCloses, CloseIsOut, NativeAtMostOnce, Journalled
<1>3. ASSUME NEW k \in clients, OwnerAnswersFromJournal(k)
      PROVE  CommandInvariant' /\ RowsKept
  <2>1. k \in [for : 0..Len(cmds), frame : Frame]
        /\ \A r \in responses : r.status \in {"ack", "reject", "retry", "unknown"}
    BY Zenon, <1>0 DEF OwnerTypeOK
  <2>2. replies' \subseteq [cmd : 0..Len(cmds), status : {"ack", "reject", "retry", "unknown"}]
    BY Zenon, <1>0, <1>3, <2>1, ReplyTyped DEF OwnerAnswersFromJournal, OwnerTypeOK, KnownAnswer
  <2>3. OwnerTypeOK'
    BY ZenonT(60), <1>0, <1>3, <2>2 DEF OwnerAnswersFromJournal, OwnerTypeOK, Frame, InFlight, Seqs
  <2> QED
    BY Zenon, <1>0, <1>1, <1>3, <2>3, ContainerStep
       DEF OwnerAnswersFromJournal, CloseIsOut, NativeAtMostOnce, Journalled
<1>4. ASSUME NEW k \in clients, OwnerWrites(k)
      PROVE  CommandInvariant' /\ RowsKept
  <2>1. NativeAtMostOnce' /\ Journalled' /\ natives' \in Seq(Seqs)
    BY Zenon, <1>4, NativeStep
  <2>2. k.frame \in Frame /\ k.frame.cmd \in Seqs
    BY <1>0, <1>4 DEF OwnerTypeOK, OwnerWrites, Frame, InFlight, Seqs
  <2>3. OwnerTypeOK'
    BY ZenonT(60), <1>0, <1>4, <2>1, <2>2 DEF OwnerWrites, OwnerTypeOK, Frame, InFlight, Seqs
  <2> QED
    BY ZenonT(60), <1>0, <1>1, <1>4, <2>1, <2>3, ContainerStep DEF OwnerWrites, CloseIsOut
<1>5. CASE OwnerRecords
  <2>1. PICK k \in Served : /\ clients' = clients \ {k}
                            /\ replies' = replies \cup Reply(k, owner.answer)
    BY Zenon, <1>5 DEF OwnerRecords
  <2>2. /\ k \in [for : 0..Len(cmds), frame : Frame]
        /\ owner.answer \in {"ack", "reject"} /\ owner.inflight.cmd \in Seqs /\ Seqs \subseteq 0..Len(cmds)
    BY SMTT(30), <1>0, <1>5, <2>1 DEF OwnerTypeOK, OwnerRecords, Served, InFlight, Seqs
  <2>3. replies' \subseteq [cmd : 0..Len(cmds), status : {"ack", "reject", "retry", "unknown"}]
    BY Zenon, <1>0, <2>1, <2>2, ReplyTyped DEF OwnerTypeOK
  <2>4. owner' \in [up : BOOLEAN, settled : BOOLEAN, closing : BOOLEAN, reopen : 0..Len(cmds),
                  inflight : InFlight, answer : {"none", "ack", "reject"}]
    <3>1. None \in InFlight
      BY Zenon DEF InFlight
    <3>2. owner'.reopen \in 0..Len(cmds)
      BY Zenon, <1>0, <1>5, <2>2 DEF OwnerRecords, OwnerTypeOK
    <3>3. owner' = [owner EXCEPT !.inflight = None, !.reopen = owner'.reopen]
      BY ZenonT(60), <1>0, <1>5 DEF OwnerRecords, OwnerTypeOK
    <3> QED
      BY Zenon, <1>0, <3>1, <3>2, <3>3 DEF OwnerTypeOK
  <2>5. responses' \subseteq [cmd : Seqs, status : {"ack", "reject"}]
    BY SMTT(30), <1>0, <1>5, <2>2 DEF OwnerRecords, OwnerTypeOK, Answer
  <2>6. UNCHANGED <<cmds, frameFile, requests, natives, turn, turnQueue, begun>>
    BY Zenon, <1>5 DEF OwnerRecords
  <2>7. OwnerTypeOK'
    BY Zenon, <1>0, <2>1, <2>3, <2>4, <2>5, <2>6 DEF OwnerTypeOK, Frame, InFlight, Seqs
  <2> QED
    BY Zenon, <1>0, <1>1, <1>5, <2>1, <2>7, ContainerStep
       DEF OwnerRecords, CloseIsOut, NativeAtMostOnce, Journalled
<1>6. CASE OwnerTimesOut
  <2>1. PICK k \in Served : /\ clients' = clients \ {k}
                            /\ replies' = replies \cup Reply(k, "unknown")
    BY Zenon, <1>6 DEF OwnerTimesOut
  <2>2. k \in [for : 0..Len(cmds), frame : Frame]
    BY Zenon, <1>0, <2>1 DEF OwnerTypeOK, Served
  <2>3. replies' \subseteq [cmd : 0..Len(cmds), status : {"ack", "reject", "retry", "unknown"}]
    BY Zenon, <1>0, <2>1, <2>2, ReplyTyped DEF OwnerTypeOK
  <2>4. OwnerTypeOK'
    BY Zenon, <1>0, <1>1, <1>6, <2>1, <2>2, <2>3 DEF OwnerTimesOut, OwnerTypeOK, Frame, InFlight, Seqs
  <2> QED
    BY Zenon, <1>0, <1>1, <1>6, <2>1, <2>4, ContainerStep
       DEF OwnerTimesOut, CloseIsOut, NativeAtMostOnce, Journalled
<1>7. CASE OwnerExits
  <2>1. replies' \subseteq [cmd : 0..Len(cmds), status : {"ack", "reject", "retry", "unknown"}]
    BY SMTT(30), <1>0, <1>7, ReplyTyped DEF OwnerExits, OwnerTypeOK
  <2>2. OwnerTypeOK'
    BY Zenon, <1>0, <1>1, <1>7, <2>1 DEF OwnerExits, OwnerTypeOK, Frame, InFlight, Seqs
  <2>3. [type |-> "terminal", cmd |-> 0] \in Event
    BY Zenon DEF Event
  <2>4. evts' \in Seq(Event)
    BY <1>1, <1>7, <2>3 DEF OwnerExits
  <2> QED
    BY Zenon, <1>0, <1>7, <2>2, <2>4, ContainerStep DEF OwnerExits, CloseIsOut, NativeAtMostOnce, Journalled
<1> QED
    BY Zenon, <1>2, <1>3, <1>4, <1>5, <1>6, <1>7 DEF Owner

(* Pi's steps preserve the invariant. *)
LEMMA PiStep ==
    ASSUME CommandInvariant, Pi
    PROVE  CommandInvariant' /\ RowsKept
<1>0. GateTypeOK /\ OwnerTypeOK /\ NativeAtMostOnce /\ Journalled /\ UNCHANGED pumpVars
    BY Zenon DEF CommandInvariant, TypeOK, Pi
<1>1. evts \in Seq(Event) /\ Len(cmds) \in Nat
    BY Zenon, <1>0, RowsTyped DEF GateTypeOK
<1> USE DEF gateVars, wireVars, piVars
<1>2. ASSUME NEW ok \in BOOLEAN, PiAnswers(ok)
      PROVE  CommandInvariant' /\ RowsKept
  <2>1. owner.inflight.cmd \in Seqs
    BY Zenon, <1>0, <1>2 DEF OwnerTypeOK, PiAnswers, InFlight
  <2>2. OwnerTypeOK'
    BY Zenon, <1>0, <1>2, <2>1 DEF PiAnswers, OwnerTypeOK, Frame, InFlight, Seqs
  <2> QED
    BY Zenon, <1>0, <1>1, <1>2, <2>2, ContainerStep DEF PiAnswers, CloseIsOut, NativeAtMostOnce, Journalled
<1>3. CASE PiSettles
  <2>1. owner'.settled \in BOOLEAN /\ owner' = [owner EXCEPT !.settled = owner'.settled]
    BY Zenon, <1>0, <1>3 DEF PiSettles, OwnerTypeOK
  <2>2. OwnerTypeOK'
    BY ZenonT(60), <1>0, <1>3, <2>1 DEF PiSettles, OwnerTypeOK, Frame, InFlight, Seqs
  <2>3. [type |-> "settled", cmd |-> 0] \in Event
    BY Zenon DEF Event
  <2>4. evts' \in Seq(Event)
    BY <1>1, <1>3, <2>3 DEF PiSettles
  <2> QED
    BY Zenon, <1>0, <1>3, <2>2, <2>4, ContainerStep DEF PiSettles, CloseIsOut, NativeAtMostOnce, Journalled
<1>4. CASE PiDies
  <2>1. OwnerTypeOK'
    BY ZenonT(60), <1>0, <1>4 DEF PiDies, OwnerTypeOK, Frame, InFlight, Seqs
  <2>2. [type |-> "terminal", cmd |-> 0] \in Event
    BY Zenon DEF Event
  <2>3. evts' \in Seq(Event)
    BY <1>1, <1>4, <2>2 DEF PiDies
  <2> QED
    BY ZenonT(60), <1>0, <1>4, <2>1, <2>3, ContainerStep DEF PiDies, CloseIsOut, NativeAtMostOnce, Journalled
<1>5. ASSUME NEW c \in turnQueue, PiBeginsTurn(c)
      PROVE  CommandInvariant' /\ RowsKept
  <2>1. OwnerTypeOK'
    <3>1. Frame' = Frame /\ InFlight' = InFlight /\ Seqs' = Seqs /\ 0 \in 0..Len(cmds)
      BY SMTT(30), <1>1, <1>5 DEF PiBeginsTurn, Frame, InFlight, Seqs
    <3> QED
      BY ZenonT(60), <1>0, <1>5, <3>1 DEF PiBeginsTurn, OwnerTypeOK
  <2>2. [type |-> "turn_started", cmd |-> owner.reopen] \in Event
    BY <1>0, <1>1 DEF Event, OwnerTypeOK
  <2>3. evts' \in Seq(Event)
    BY <1>1, <1>5, <2>2 DEF PiBeginsTurn
  <2> QED
    BY ZenonT(60), <1>0, <1>5, <2>1, <2>3, ContainerStep DEF PiBeginsTurn, CloseIsOut, NativeAtMostOnce, Journalled
<1> QED
    BY Zenon, <1>2, <1>3, <1>4, <1>5 DEF Pi

(* Steps of the pump that write no row. *)
LEMMA IdlePumpStep ==
    ASSUME CommandInvariant,
           PumpPromotes \/ PumpExecs \/ PumpCycleFails \/ LeaseExpires
             \/ \E leased \in BOOLEAN : SchedulerRestarts(leased)
    PROVE  CommandInvariant' /\ RowsKept
<1>0. /\ GateTypeOK /\ OwnerTypeOK /\ PumpTypeOK /\ NativeAtMostOnce /\ Journalled
      /\ OneRowPerId /\ StrictOrder /\ ClosedGateIsEmpty /\ PumpHolds /\ CloseFindsDrained
    BY Zenon DEF CommandInvariant, TypeOK
<1>1. Len(cmds) \in Nat /\ 0 \in 0..Len(cmds) /\ None \in Frame
    BY <1>0, RowsTyped DEF None, Frame, Gates
<1>2. Unread \in [gate : {"starting", "accepting", "closing", "closed"}, awaiting : BOOLEAN]
    BY Zenon  DEF Unread
<1> USE DEF gateVars, ownerVars, wireVars, piVars, pumpVars
<1>3. CASE PumpPromotes
  <2>1. RowsKept
    BY Zenon, <1>0, <1>3, RowsUntouched DEF PumpPromotes
  <2>2. GateTypeOK' /\ OwnerTypeOK' /\ PumpTypeOK'
    BY SMTT(30), <1>0, <1>3 DEF PumpPromotes, GateTypeOK, OwnerTypeOK, PumpTypeOK, Frame, InFlight, Seqs
  <2>3. PumpHolds' /\ CloseFindsDrained' /\ NativeAtMostOnce' /\ Journalled'
    BY Zenon, <1>0, <1>3 DEF PumpPromotes, PumpHolds, CloseFindsDrained, CloseIsOut, NativeAtMostOnce, Journalled
  <2> QED
    BY Zenon, <2>1, <2>2, <2>3 DEF CommandInvariant, TypeOK, RowsKept
<1>4. CASE PumpExecs
  <2>1. RowsKept
    BY Zenon, <1>0, <1>4, RowsUntouched DEF PumpExecs
  <2>2. [cmd |-> pump.cmd, gate |-> mem.gate] \in Frame /\ [for |-> pump.cmd, frame |-> None] \in [for : 0..Len(cmds), frame : Frame]
    BY Zenon, <1>0, <1>1 DEF PumpTypeOK, Frame, Gates
  <2>3. GateTypeOK' /\ OwnerTypeOK' /\ PumpTypeOK'
    <3>1. Frame' = Frame /\ InFlight' = InFlight /\ Seqs' = Seqs
      BY Zenon, <1>4 DEF PumpExecs, Frame, InFlight, Seqs
    <3>2. OwnerTypeOK'
      BY ZenonT(60), <1>0, <1>4, <2>2, <3>1 DEF PumpExecs, OwnerTypeOK
    <3> QED
      BY Zenon, <1>0, <1>4, <3>2 DEF PumpExecs, GateTypeOK, PumpTypeOK
  <2>4. PumpHolds'
    BY Zenon, <1>0, <1>4 DEF PumpExecs, PumpHolds, PumpTypeOK
  <2>5. ~CloseIsOut'
    BY <1>0, <1>4 DEF PumpExecs, CloseFindsDrained, CloseIsOut, PumpHolds, CloseFrame, None
  <2>6. NativeAtMostOnce' /\ Journalled' /\ CloseFindsDrained'
    BY Zenon, <1>0, <1>4, <2>5 DEF PumpExecs, NativeAtMostOnce, Journalled, CloseFindsDrained
  <2> QED
    BY Zenon, <2>1, <2>3, <2>4, <2>6 DEF CommandInvariant, TypeOK, RowsKept
<1>5. ASSUME UNCHANGED <<gateVars, ownerVars>>, PumpTypeOK', pump'.pc = "idle" \/ UNCHANGED <<pump, mem>>
      PROVE  CommandInvariant' /\ RowsKept
  <2>1. RowsKept
    BY Zenon, <1>0, <1>5, RowsUntouched
  <2>2. GateTypeOK' /\ OwnerTypeOK'
    BY SMTT(30), <1>0, <1>5 DEF GateTypeOK, OwnerTypeOK, Frame, InFlight, Seqs
  <2>3. PumpHolds' /\ CloseFindsDrained' /\ NativeAtMostOnce' /\ Journalled'
    BY Zenon, <1>0, <1>5 DEF PumpHolds, CloseFindsDrained, CloseIsOut, NativeAtMostOnce, Journalled, Seqs
  <2> QED
    BY Zenon, <1>5, <2>1, <2>2, <2>3 DEF CommandInvariant, TypeOK, RowsKept
<1>6. CASE PumpCycleFails
    BY Zenon, <1>0, <1>1, <1>2, <1>5, <1>6 DEF PumpCycleFails, PumpTypeOK
<1>7. CASE LeaseExpires
  <2>1. staleLease' \in BOOLEAN
    BY Zenon, <1>7 DEF LeaseExpires
  <2> QED
    BY ZenonT(60), <1>0, <1>5, <1>7, <2>1 DEF LeaseExpires, PumpTypeOK
<1>8. ASSUME NEW leased \in BOOLEAN, SchedulerRestarts(leased)
      PROVE  CommandInvariant' /\ RowsKept
    BY SMTT(30), <1>0, <1>1, <1>2, <1>5, <1>8 DEF SchedulerRestarts, PumpTypeOK
<1> QED
    BY Zenon, <1>3, <1>4, <1>6, <1>7, <1>8

(* What a pump that writes rows and starts no client leaves alone. *)
LEMMA PumpRowStep ==
    ASSUME CommandInvariant, RowsKept, Len(cmds') = Len(cmds), PumpTypeOK',
           pending' \in 0..Len(cmds), forceClose' \in BOOLEAN,
           UNCHANGED <<task, gate, puts, evts, frameFile, clients, owner, requests, responses,
                       natives, piVars>>,
           replies' \subseteq replies, PumpHolds', CloseFindsDrained'
    PROVE  CommandInvariant' /\ RowsKept
<1>0. GateTypeOK /\ OwnerTypeOK /\ NativeAtMostOnce /\ Journalled
    BY Zenon DEF CommandInvariant, TypeOK
<1>1. GateTypeOK'
    BY Zenon, <1>0 DEF GateTypeOK, RowsKept
<1>2. Frame' = Frame /\ InFlight' = InFlight /\ Seqs' = Seqs
    BY Zenon DEF Frame, InFlight, Seqs
<1>3. OwnerTypeOK'
    BY Zenon, <1>0, <1>2 DEF OwnerTypeOK, piVars
<1>4. NativeAtMostOnce' /\ Journalled'
    BY Zenon, <1>0 DEF NativeAtMostOnce, Journalled
<1> QED
    BY Zenon, <1>1, <1>3, <1>4 DEF CommandInvariant, TypeOK, RowsKept

(* The pump takes up a command, or none. *)
LEMMA PumpMoves ==
    ASSUME PumpTypeOK, NEW pc \in {"idle", "claimed", "sending"}, NEW c \in 0..Len(cmds),
           pump' = [pump EXCEPT !.pc = pc, !.cmd = c]
    PROVE  /\ pump' \in [pc : {"idle", "claimed", "sending"}, cmd : 0..Len(cmds), inc : Nat]
           /\ pump'.pc = pc /\ pump'.cmd = c
BY Zenon DEF PumpTypeOK

(* The pump claims the head of the queue. *)
LEMMA ClaimStep ==
    ASSUME CommandInvariant, PumpClaimsHead
    PROVE  CommandInvariant' /\ RowsKept
<1> DEFINE c == HeadOf(cmds)
           m == [gate |-> gate, awaiting |-> pending # 0]
<1>0. GateTypeOK /\ PumpTypeOK /\ OneRowPerId /\ StrictOrder /\ CloseFindsDrained
    BY Zenon DEF CommandInvariant, TypeOK
<1>1. RowsKept /\ Len(cmds') = Len(cmds)
    BY Zenon, <1>0, ClaimRows
<1>2. /\ c # 0 /\ cmds[c].status = "queued" /\ cmds' = SetStatus(cmds, c, "dispatching")
      /\ pump' = [pump EXCEPT !.pc = "claimed", !.cmd = c]
      /\ pending' = IF Arms(m, cmds, c) THEN c ELSE pending
      /\ mem' = [m EXCEPT !.awaiting = @ \/ Arms(m, cmds, c)]
      /\ replies' = {r \in replies : r.cmd # c}
    BY Zenon DEF PumpClaimsHead, Dispatch
<1>3. /\ UNCHANGED <<task, gate, forceClose, puts, evts, frameFile, clients, owner, requests,
                     responses, natives, piVars, staleLease>>
      /\ gate \in {"accepting", "closing"}
    BY Zenon DEF PumpClaimsHead, Claimable
<1>4. /\ c \in 1..Len(cmds) /\ c \in 0..Len(cmds) /\ Len(cmds) \in Nat
      /\ cmds'[c].status = "dispatching"
    BY SMTT(30), <1>0, <1>2, HeadOfQueue, RowsTyped, SetStatusRows DEF RowStatuses
<1>5. ~CloseIsOut /\ CloseFindsDrained'
    BY Zenon, <1>0, <1>2, <1>3, <1>4 DEF CloseFindsDrained, CloseIsOut, Seqs
<1> HIDE DEF c
<1>6. mem' \in [gate : {"starting", "accepting", "closing", "closed"}, awaiting : BOOLEAN]
    BY Zenon, <1>0, <1>2 DEF GateTypeOK
<1>7. PumpTypeOK'
  <2>1. pump' \in [pc : {"idle", "claimed", "sending"}, cmd : 0..Len(cmds), inc : Nat]
    BY Zenon, <1>0, <1>2, <1>4, PumpMoves
  <2> QED
    BY Zenon, <1>0, <1>1, <1>3, <1>6, <2>1 DEF PumpTypeOK
<1>8. mem' = [gate |-> "closing", awaiting |-> FALSE] => gate = "closing" /\ pending' = 0
    BY Zenon, <1>2
<1>9. PumpHolds'
    BY Zenon, <1>0, <1>2, <1>3, <1>4, <1>8 DEF PumpHolds, PumpTypeOK
<1>10. pending' \in 0..Len(cmds) /\ forceClose' \in BOOLEAN
    BY Zenon, <1>0, <1>2, <1>3, <1>4 DEF GateTypeOK
<1> QED
    BY Zenon, <1>1, <1>2, <1>3, <1>5, <1>7, <1>9, <1>10, PumpRowStep

(* The pump gives up a head whose sender died. *)
LEMMA RecoverStep ==
    ASSUME CommandInvariant, PumpRecovers
    PROVE  CommandInvariant' /\ RowsKept
<1> DEFINE c == HeadOf(cmds)
           new == SetStatus(cmds, c, "outcome_unknown")
<1>0. GateTypeOK /\ PumpTypeOK /\ OneRowPerId /\ StrictOrder /\ CloseFindsDrained /\ PumpHolds
    BY Zenon DEF CommandInvariant, TypeOK
<1>1. RowsKept /\ Len(cmds') = Len(cmds)
    BY Zenon, <1>0, RecoverRows
<1>2. /\ c # 0 /\ cmds' \in {new, RejectQueued(new)} /\ pump.pc = "idle"
      /\ pending' \in {0, pending}
      /\ UNCHANGED <<task, gate, puts, evts, ownerVars, pumpVars>>
    BY Zenon DEF PumpRecovers, FailPendingFollowUp, Claimable
<1>3. forceClose' \in BOOLEAN
  <2>1. forceClose' = TRUE \/ forceClose' = forceClose
    BY Zenon DEF PumpRecovers, FailPendingFollowUp
  <2>2. forceClose \in BOOLEAN
    BY Zenon, <1>0 DEF GateTypeOK
  <2> QED
    BY ZenonT(60), <2>1, <2>2
<1>4. c \in 1..Len(cmds) /\ Len(cmds) \in Nat /\ cmds \in Seq(CommandRow)
    BY ZenonT(60), <1>0, <1>2, HeadOfQueue, RowsTyped
<1>5. /\ new \in Seq(CommandRow) /\ Len(new) = Len(cmds) /\ new[c].status = "outcome_unknown"
      /\ \A j \in 1..Len(cmds) : j # c => new[j] = cmds[j]
  <2>1. "outcome_unknown" \in RowStatuses
    BY Zenon DEF RowStatuses, Terminal
  <2> HIDE DEF c
  <2> QED
    BY ZenonT(60), <1>4, <2>1, SetStatusRows
<1> HIDE DEF c, new
<1>6. \A j \in 1..Len(cmds) : cmds'[j].status = "queued" => cmds[j].status = "queued"
    BY <1>2, <1>5, RejectQueuedRows
<1>7. PumpTypeOK' /\ PumpHolds'
    BY Zenon, <1>0, <1>1, <1>2 DEF PumpTypeOK, PumpHolds, pumpVars
<1>8. CloseFindsDrained'
    BY Zenon, <1>0, <1>1, <1>2, <1>6 DEF CloseFindsDrained, CloseIsOut, ownerVars, wireVars, pumpVars, Seqs
<1>9. pending' \in 0..Len(cmds)
    BY SMTT(30), <1>0, <1>2, <1>4 DEF GateTypeOK
<1> QED
    BY ZenonT(60), <1>1, <1>2, <1>3, <1>7, <1>8, <1>9, PumpRowStep DEF ownerVars, wireVars

(* The pump writes the outcome of the command it sent. *)
LEMMA RecordStep ==
    ASSUME CommandInvariant, NEW o \in Outcomes, PumpRecordsOutcome(o)
    PROVE  CommandInvariant' /\ RowsKept
<1>0. /\ GateTypeOK /\ OwnerTypeOK /\ PumpTypeOK /\ OneRowPerId /\ StrictOrder /\ ClosedGateIsEmpty
      /\ CloseFindsDrained /\ PumpHolds
    BY Zenon DEF CommandInvariant, TypeOK
<1>1. RowsKept /\ Len(cmds') = Len(cmds)
    BY Zenon, <1>0, RecordRows
<1>2. /\ pump.pc = "sending" /\ pump' = [pump EXCEPT !.pc = "idle", !.cmd = 0] /\ mem' = Unread
      /\ UNCHANGED <<task, gate, puts, evts, ownerVars, staleLease>>
    BY Zenon DEF PumpRecordsOutcome
<1>3. /\ pending' \in {0, pending}
      /\ forceClose' = TRUE \/ forceClose' = forceClose
    BY Zenon DEF PumpRecordsOutcome, SettlesPending, FailPendingFollowUp
<1>4. forceClose' \in BOOLEAN
  <2>1. forceClose \in BOOLEAN
    BY Zenon, <1>0 DEF GateTypeOK
  <2> QED
    BY ZenonT(60), <1>3, <2>1
<1>5. Unread \in [gate : {"starting", "accepting", "closing", "closed"}, awaiting : BOOLEAN]
    BY Zenon  DEF Unread
<1>6. Len(cmds) \in Nat /\ 0 \in 0..Len(cmds)
    BY <1>0, RowsTyped
<1>7. PumpTypeOK' /\ pump'.pc = "idle"
  <2>1. /\ pump' \in [pc : {"idle", "claimed", "sending"}, cmd : 0..Len(cmds), inc : Nat]
        /\ pump'.pc = "idle"
    BY ZenonT(60), <1>0, <1>2, <1>6, PumpMoves
  <2> QED
    BY ZenonT(60), <1>0, <1>1, <1>2, <1>5, <2>1 DEF PumpTypeOK
<1>8. ~CloseIsOut'
    BY ZenonT(60), <1>0, <1>2 DEF CloseFindsDrained, CloseIsOut, ownerVars, wireVars
<1>9. pending' \in 0..Len(cmds)
    BY ZenonT(60), <1>0, <1>3, <1>6 DEF GateTypeOK
<1>10. PumpHolds' /\ CloseFindsDrained'
    BY Zenon, <1>7, <1>8 DEF PumpHolds, CloseFindsDrained
<1> QED
    BY Zenon, <1>1, <1>2, <1>4, <1>7, <1>9, <1>10, PumpRowStep DEF ownerVars, wireVars

(* The pump writes the outcome of one command and claims the next. *)
LEMMA GoesOnStep ==
    ASSUME CommandInvariant, NEW o \in Outcomes, PumpGoesOn(o)
    PROVE  CommandInvariant' /\ RowsKept
<1> DEFINE rows == SetStatus(cmds, pump.cmd, StatusOf(o))
           c == HeadOf(rows)
<1>0. /\ GateTypeOK /\ OwnerTypeOK /\ PumpTypeOK /\ OneRowPerId /\ StrictOrder /\ ClosedGateIsEmpty
      /\ CloseFindsDrained /\ PumpHolds
    BY Zenon DEF CommandInvariant, TypeOK
<1>1. /\ RowsKept /\ Len(cmds') = Len(cmds)
      /\ pump'.cmd \in 1..Len(cmds) /\ cmds'[pump'.cmd].status = "dispatching"
    BY ZenonT(60), <1>0, GoesOnRows
<1>2. /\ pump.pc = "sending" /\ pump' = [pump EXCEPT !.pc = "claimed", !.cmd = c]
      /\ pending' = IF Arms(mem, rows, c) THEN c ELSE pending
      /\ mem' = [mem EXCEPT !.awaiting = @ \/ Arms(mem, rows, c)]
      /\ replies' = {r \in replies : r.cmd # c}
      /\ UNCHANGED <<task, gate, forceClose, puts, evts, frameFile, clients, owner, requests,
                     responses, natives, piVars, staleLease>>
    BY Zenon DEF PumpGoesOn, Dispatch
<1> HIDE DEF rows, c
<1>3. Len(cmds) \in Nat /\ c \in 1..Len(cmds) /\ c \in 0..Len(cmds)
    BY SMTT(30), <1>0, <1>1, <1>2, RowsTyped DEF PumpTypeOK
<1>4. mem' \in [gate : {"starting", "accepting", "closing", "closed"}, awaiting : BOOLEAN]
    BY Zenon, <1>0, <1>2 DEF PumpTypeOK
<1>5. pump' \in [pc : {"idle", "claimed", "sending"}, cmd : 0..Len(cmds), inc : Nat]
    BY Zenon, <1>0, <1>2, <1>3, PumpMoves
<1>6. PumpTypeOK'
    BY Zenon, <1>0, <1>1, <1>2, <1>4, <1>5 DEF PumpTypeOK
<1>7. mem' = [gate |-> "closing", awaiting |-> FALSE] =>
          mem = [gate |-> "closing", awaiting |-> FALSE] /\ pending' = pending
    BY Zenon, <1>0, <1>2 DEF PumpTypeOK
<1>8. PumpHolds'
    BY SMTT(30), <1>0, <1>1, <1>2, <1>3, <1>7 DEF PumpHolds
<1>9. CloseFindsDrained'
    BY Zenon, <1>0, <1>2 DEF CloseFindsDrained, CloseIsOut
<1>10. pending' \in 0..Len(cmds) /\ forceClose' \in BOOLEAN
    BY ZenonT(60), <1>0, <1>2, <1>3 DEF GateTypeOK
<1> QED
    BY ZenonT(60), <1>1, <1>2, <1>6, <1>8, <1>9, <1>10, PumpRowStep

(* Steps that send the close frame. *)
LEMMA ClosingStep ==
    ASSUME CommandInvariant, RowsKept, Len(cmds') = Len(cmds), PumpTypeOK', pump'.pc = "idle",
           gate' \in {"closing", "closed"}, pending' = 0, forceClose' \in BOOLEAN,
           \A i \in 1..Len(cmds) : cmds'[i].status # "queued",
           frameFile' = CloseFrame, clients' \subseteq clients \cup {[for |-> 0, frame |-> None]},
           owner' \in [up : BOOLEAN, settled : BOOLEAN, closing : BOOLEAN, reopen : 0..Len(cmds),
                       inflight : InFlight, answer : {"none", "ack", "reject"}],
           UNCHANGED <<task, puts, evts, replies, requests, responses, natives, piVars>>
    PROVE  CommandInvariant' /\ RowsKept
<1>0. GateTypeOK /\ OwnerTypeOK /\ NativeAtMostOnce /\ Journalled
    BY Zenon DEF CommandInvariant, TypeOK
<1>1. Len(cmds) \in Nat
    BY ZenonT(60), <1>0, RowsTyped
<1>2. GateTypeOK'
    BY SMTT(30), <1>0, <1>1 DEF GateTypeOK, RowsKept
<1>3. Frame' = Frame /\ InFlight' = InFlight /\ Seqs' = Seqs
    BY Zenon DEF Frame, InFlight, Seqs
<1>4. CloseFrame \in Frame /\ [for |-> 0, frame |-> None] \in [for : 0..Len(cmds), frame : Frame]
    BY SMTT(30), <1>1 DEF Frame, Gates, CloseFrame, None
<1>5. OwnerTypeOK'
    BY Zenon, <1>0, <1>3, <1>4 DEF OwnerTypeOK, piVars
<1>6. NativeAtMostOnce' /\ Journalled' /\ PumpHolds' /\ CloseFindsDrained'
    BY ZenonT(60), <1>0, <1>1 DEF NativeAtMostOnce, Journalled, PumpHolds, CloseFindsDrained, Seqs
<1> QED
    BY ZenonT(60), <1>2, <1>5, <1>6 DEF CommandInvariant, TypeOK, RowsKept

(* The close IPC of a drained attempt, whether or not its client ran. *)
LEMMA CloseIpcStep ==
    ASSUME CommandInvariant, (\E seen \in BOOLEAN : PumpCloses(seen)) \/ PumpLeavesClose
    PROVE  /\ CommandInvariant' /\ RowsKept
           /\ pending = 0 /\ \A i \in Seqs : cmds[i].status # "queued"
<1>0. /\ GateTypeOK /\ OwnerTypeOK /\ PumpTypeOK /\ OneRowPerId /\ StrictOrder /\ ClosedGateIsEmpty
    BY Zenon DEF CommandInvariant, TypeOK
<1>1. /\ pump.pc = "idle" /\ gate = "closing" /\ Live = {} /\ pending = 0 /\ UNCHANGED <<pump, mem, staleLease>>
      /\ UNCHANGED <<task, cmds, pending, puts, evts, replies, requests, responses, natives, piVars>>
      /\ frameFile' = CloseFrame /\ clients' \subseteq clients \cup {[for |-> 0, frame |-> None]}
      /\ gate' \in {"closing", "closed"}
    BY Zenon DEF PumpCloses, PumpLeavesClose, Claimable, pumpVars, gateVars
<1>2. forceClose' \in BOOLEAN
  <2>1. forceClose' = FALSE \/ forceClose' = forceClose
    BY Zenon DEF PumpCloses, PumpLeavesClose, gateVars
  <2>2. forceClose \in BOOLEAN
    BY Zenon, <1>0 DEF GateTypeOK
  <2> QED
    BY Zenon, <2>1, <2>2
<1>3. owner' \in [up : BOOLEAN, settled : BOOLEAN, closing : BOOLEAN, reopen : 0..Len(cmds),
                  inflight : InFlight, answer : {"none", "ack", "reject"}]
  <2>1. owner' = [owner EXCEPT !.closing = TRUE] \/ owner' = owner
    BY Zenon DEF PumpCloses, PumpLeavesClose
  <2> QED
    BY ZenonT(60), <1>0, <2>1 DEF OwnerTypeOK
<1>4. RowsKept
    BY ZenonT(60), <1>0, <1>1, RowsUntouched
<1>5. \A i \in 1..Len(cmds) : cmds[i].status # "queued"
    BY ZenonT(60), <1>0, <1>1, RowsTyped DEF Live, Terminal
<1>6. PumpTypeOK'
    BY Zenon, <1>0, <1>1 DEF PumpTypeOK
<1>7. CommandInvariant'
    BY ZenonT(60), <1>0, <1>1, <1>2, <1>3, <1>4, <1>5, <1>6, ClosingStep
<1> QED
    BY ZenonT(60), <1>1, <1>4, <1>5, <1>7 DEF Seqs

(* The close IPC of a cycle that sent the last command. *)
LEMMA ClosesAfterStep ==
    ASSUME CommandInvariant, NEW o \in Outcomes, NEW b \in BOOLEAN, PumpClosesAfter(o, b)
    PROVE  /\ CommandInvariant' /\ RowsKept
           /\ pending = 0 /\ \A i \in Seqs : cmds[i].status # "queued"
<1>0. /\ GateTypeOK /\ OwnerTypeOK /\ PumpTypeOK /\ OneRowPerId /\ StrictOrder /\ ClosedGateIsEmpty
      /\ PumpHolds
    BY Zenon DEF CommandInvariant, TypeOK
<1>1. /\ RowsKept /\ Len(cmds') = Len(cmds)
      /\ \A j \in 1..Len(cmds) : cmds[j].status # "queued" /\ cmds'[j].status # "queued"
    BY Zenon, <1>0, ClosesAfterRows
<1>2. /\ pump.pc = "sending" /\ mem = [gate |-> "closing", awaiting |-> FALSE]
      /\ frameFile' = CloseFrame /\ pump' = [pump EXCEPT !.pc = "idle", !.cmd = 0] /\ mem' = Unread
      /\ owner' = [owner EXCEPT !.closing = TRUE]
      /\ gate' \in {"closed", gate}
      /\ UNCHANGED <<task, pending, puts, evts, clients, replies, requests, responses, natives,
                     piVars, staleLease>>
    BY Zenon DEF PumpClosesAfter
<1>3. gate \in {"closing", "closed"} /\ pending = 0
    BY ZenonT(60), <1>0, <1>2 DEF PumpHolds
<1>4. forceClose' \in BOOLEAN
  <2>1. forceClose' = FALSE \/ forceClose' = forceClose
    BY Zenon DEF PumpClosesAfter
  <2>2. forceClose \in BOOLEAN
    BY Zenon, <1>0 DEF GateTypeOK
  <2> QED
    BY ZenonT(60), <2>1, <2>2
<1>5. owner' \in [up : BOOLEAN, settled : BOOLEAN, closing : BOOLEAN, reopen : 0..Len(cmds),
                  inflight : InFlight, answer : {"none", "ack", "reject"}]
    BY ZenonT(60), <1>0, <1>2 DEF OwnerTypeOK
<1>6. 0 \in 0..Len(cmds)
    BY <1>0, RowsTyped
<1>7. Unread \in [gate : {"starting", "accepting", "closing", "closed"}, awaiting : BOOLEAN]
    BY Zenon  DEF Unread
<1>8. /\ pump' \in [pc : {"idle", "claimed", "sending"}, cmd : 0..Len(cmds), inc : Nat]
      /\ pump'.pc = "idle"
    BY ZenonT(60), <1>0, <1>2, <1>6, PumpMoves
<1>9. PumpTypeOK'
    BY ZenonT(60), <1>0, <1>1, <1>2, <1>7, <1>8 DEF PumpTypeOK
<1>10. CommandInvariant'
    BY ZenonT(60), <1>1, <1>2, <1>3, <1>4, <1>5, <1>8, <1>9, ClosingStep
<1> QED
    BY ZenonT(60), <1>1, <1>3, <1>10 DEF Seqs

(* Every step preserves the invariant and keeps the rows. *)
LEMMA CommandStep ==
    ASSUME CommandInvariant, [Next]_vars
    PROVE  CommandInvariant' /\ (RowsKept \/ UNCHANGED cmds)
<1>1. CASE Api
    BY Zenon, <1>1, ApiStep
<1>2. CASE Projection
    BY ZenonT(60), <1>2, ProjectionStep
<1>3. CASE Ending
    BY Zenon, <1>3, EndingStep
<1>4. CASE Clients
    BY Zenon, <1>4, ClientStep
<1>5. CASE Owner
    BY Zenon, <1>5, OwnerStep
<1>6. CASE Pi
    BY Zenon, <1>6, PiStep
<1>7. CASE Pump
  <2>1. CASE PumpPromotes \/ PumpExecs
    BY ZenonT(60), <2>1, IdlePumpStep
  <2>2. CASE PumpClaimsHead
    BY Zenon, <2>2, ClaimStep
  <2>3. CASE PumpRecovers
    BY Zenon, <2>3, RecoverStep
  <2>4. ASSUME NEW o \in Outcomes, PumpRecordsOutcome(o)
        PROVE  CommandInvariant' /\ RowsKept
    BY ZenonT(60), <2>4, RecordStep
  <2>5. ASSUME NEW o \in Outcomes, PumpGoesOn(o)
        PROVE  CommandInvariant' /\ RowsKept
    BY ZenonT(60), <2>5, GoesOnStep
  <2>6. ASSUME NEW o \in Outcomes, NEW b \in BOOLEAN, PumpClosesAfter(o, b)
        PROVE  CommandInvariant' /\ RowsKept
    BY ZenonT(60), <2>6, ClosesAfterStep
  <2>7. CASE \E seen \in BOOLEAN : PumpCloses(seen)
    BY Zenon, <2>7, CloseIpcStep
  <2> QED
    BY ZenonT(60), <1>7, <2>1, <2>2, <2>3, <2>4, <2>5, <2>6, <2>7 DEF Pump
<1>8. CASE Faults
  <2>1. CASE PumpLeavesClose
    BY Zenon, <2>1, CloseIpcStep
  <2>2. CASE PumpCycleFails \/ \E leased \in BOOLEAN : SchedulerRestarts(leased)
    BY Zenon, <2>2, IdlePumpStep
  <2> QED
    BY ZenonT(60), <1>8, <2>1, <2>2 DEF Faults
<1>9. CASE LeaseExpires
    BY ZenonT(60), <1>9, IdlePumpStep
<1>10. CASE UNCHANGED vars
  <2>1. UNCHANGED <<gateVars, ownerVars, wireVars, piVars, pumpVars>>
    BY Zenon, <1>10 DEF vars, ownerVars
  <2>2. UNCHANGED gateVars /\ UNCHANGED <<wireVars, owner, requests, responses, natives, piVars>>
    BY Zenon, <2>1 DEF ownerVars
  <2>3. GateTypeOK' /\ OneRowPerId' /\ StrictOrder' /\ ClosedGateIsEmpty' /\ cmds' = cmds
    BY Zenon, <2>2 DEF gateVars, CommandInvariant, TypeOK, GateTypeOK, Seqs, OneRowPerId, StrictOrder,
       ClosedGateIsEmpty, Live
  <2>4. OwnerTypeOK' /\ PumpTypeOK'
    <3>1. Frame' = Frame /\ InFlight' = InFlight /\ Seqs' = Seqs
      BY Zenon, <2>3 DEF Frame, InFlight, Seqs, Gates, None
    <3>2. OwnerTypeOK /\ PumpTypeOK
      BY Zenon DEF CommandInvariant, TypeOK
    <3>3. OwnerTypeOK'
      BY Zenon, <2>2, <2>3, <3>1, <3>2 DEF wireVars, piVars, OwnerTypeOK
    <3>4. PumpTypeOK'
      BY Zenon, <2>1, <2>3, <3>2 DEF pumpVars, PumpTypeOK
    <3> QED
      BY Zenon, <3>3, <3>4
  <2>5. NativeAtMostOnce' /\ Journalled' /\ PumpHolds' /\ CloseFindsDrained'
    BY Zenon, <2>1, <2>2 DEF gateVars, wireVars, piVars, pumpVars, CommandInvariant,
       NativeAtMostOnce, Journalled, PumpHolds, CloseFindsDrained, CloseIsOut, CloseFrame, None, Seqs
  <2>6. Len(cmds) <= Len(cmds') /\ cmds' \in Seq(CommandRow)
    BY <2>3, RowsTyped DEF CommandInvariant, TypeOK
  <2> QED
    BY Zenon, <2>3, <2>4, <2>5, <2>6 DEF CommandInvariant, TypeOK, RowsKept
<1> QED
    BY ZenonT(60), <1>1, <1>2, <1>3, <1>4, <1>5, <1>6, <1>7, <1>8, <1>9, <1>10 DEF Next

(* The rows, the owner's journal, the command a pump works on and the close *)
(* frames that are out fit together in every reachable state, for every set *)
(* of command ids and any number of PUTs and restarts.                      *)
THEOREM CommandsFitTogether == Spec => []CommandInvariant
<1>1. Init => CommandInvariant
    BY Zenon, InitCommands
<1>2. CommandInvariant /\ [Next]_vars => CommandInvariant'
    BY Zenon, CommandStep
<1> QED
    BY Zenon, <1>1, <1>2, PTL DEF Spec

(* A command reaches Pi's stdin at most once, whatever is retried, answered *)
(* late or restarted (dispatch_one_command, the owner's journal).           *)
THEOREM CommandsReachPiOnce == Spec => []NativeAtMostOnce
<1>1. CommandInvariant => NativeAtMostOnce
    BY Zenon DEF CommandInvariant
<1> QED
    BY Zenon, <1>1, CommandsFitTogether, PTL

(* A command is sent only after every command before it has its final       *)
(* status (_load_head_command).                                             *)
THEOREM CommandsInOrder == Spec => []StrictOrder
<1>1. CommandInvariant => StrictOrder
    BY Zenon DEF CommandInvariant
<1> QED
    BY Zenon, <1>1, CommandsFitTogether, PTL

(* A final status is never overwritten, whether the pump, a successor or    *)
(* the closing gate wrote it.                                               *)
THEOREM FinalStatusesStay == Spec => FinalStays
<1>1. CommandInvariant /\ [Next]_vars =>
          [\A i \in Seqs : cmds[i].status \in Terminal => cmds'[i].status = cmds[i].status]_vars
    BY Zenon, CommandStep DEF RowsKept, Seqs
<1> QED
    BY Zenon, <1>1, CommandsFitTogether, PTL DEF Spec, FinalStays

(* The owner starts to close only when no admitted command waits to be sent *)
(* and no follow-up is awaited (run_pump_cycle's last step, and a close     *)
(* client that was left behind).                                            *)
THEOREM OwnerClosesDrained == Spec => CloseAfterDrain
<1> DEFINE Drained == pending = 0 /\ \A i \in Seqs : cmds[i].status # "queued"
<1>1. ASSUME CommandInvariant, Next, ~owner.closing, owner'.closing
      PROVE  Drained
  <2>1. ASSUME NEW k \in clients, OwnerCloses(k) PROVE Drained
    BY ZenonT(60), <1>1, <2>1 DEF CommandInvariant, OwnerCloses, CloseFindsDrained, CloseIsOut
  <2>2. CASE (\E seen \in BOOLEAN : PumpCloses(seen)) \/ PumpLeavesClose
    BY ZenonT(60), <1>1, <2>2, CloseIpcStep
  <2>3. ASSUME NEW o \in Outcomes, NEW b \in BOOLEAN, PumpClosesAfter(o, b) PROVE Drained
    BY ZenonT(60), <1>1, <2>3, ClosesAfterStep
  <2>4. owner \in [up : BOOLEAN, settled : BOOLEAN, closing : BOOLEAN, reopen : 0..Len(cmds),
                   inflight : InFlight, answer : {"none", "ack", "reject"}]
    BY ZenonT(60), <1>1 DEF CommandInvariant, TypeOK, OwnerTypeOK
  <2>5. CASE Api \/ Projection \/ Ending \/ Clients \/ LeaseExpires
    BY ZenonT(60), <1>1, <2>5 DEF Api, Projection, Ending, Clients, ClientStarts, LeaseExpires, ownerVars
  <2>6. CASE Pi
    BY ZenonT(60), <1>1, <2>4, <2>6 DEF Pi, PiAnswers, PiSettles, PiDies, PiBeginsTurn
  <2>7. CASE Owner
    BY ZenonT(60), <1>1, <2>1, <2>4, <2>7 DEF Owner, OwnerAnswersFromJournal, OwnerWrites, OwnerRecords,
       OwnerTimesOut, OwnerExits
  <2>8. CASE Pump
    BY ZenonT(60), <1>1, <2>2, <2>3, <2>8 DEF Pump, PumpPromotes, PumpClaimsHead, PumpRecovers, PumpExecs,
       PumpRecordsOutcome, PumpGoesOn, ownerVars
  <2>9. CASE Faults
    BY ZenonT(60), <1>1, <2>2, <2>9 DEF Faults, PumpCycleFails, SchedulerRestarts, ownerVars
  <2> QED
    BY ZenonT(60), <1>1, <2>5, <2>6, <2>7, <2>8, <2>9 DEF Next
<1>2. CommandInvariant /\ [Next]_vars =>
          [~owner.closing /\ owner'.closing =>
               pending = 0 /\ \A i \in Seqs : cmds[i].status # "queued"]_vars
    BY Zenon, <1>1
<1> QED
    BY Zenon, <1>2, CommandsFitTogether, PTL DEF Spec, CloseAfterDrain
=============================================================================
