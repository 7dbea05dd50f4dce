--------------------------- MODULE ProjectWebhook ---------------------------
(***************************************************************************)
(* The webhook of one GitLab project: setup_gitlab_project_webhook creates *)
(* or rotates the stored secret (project_webhook_config.py), gives it to   *)
(* GitLab and commits when the request ends; the receiver compares the     *)
(* token of a delivery with the stored secret.  Calls of several           *)
(* administrators overlap, GitLab's answer may be lost, and a new          *)
(* CONFIG_ENCRYPTION_KEY makes the stored secret unreadable.               *)
(***************************************************************************)
EXTENDS Integers, Sequences, FiniteSets

CONSTANTS Setups,        \* calls of the setup endpoint
          MaxRotations   \* deployments with a new encryption key

(* What the constants are. *)
WebhookAssumption == IsFiniteSet(Setups) /\ MaxRotations \in Nat

VARIABLES row,       \* committed secret (0: none) and whether it decrypts
          hooks,     \* tokens of the project's hooks with this URL, oldest first
          holder,    \* the call whose open transaction wrote the row
          call,      \* per call: step, secret, whether it found a row or a hook
          issued,    \* secrets generated so far
          last,      \* how the last finished call ended
          rotations

vars == <<row, hooks, holder, call, issued, last, rotations>>

NoCall == [pc |-> "start", secret |-> 0, found |-> FALSE]

Init ==
  /\ row = [secret |-> 0, readable |-> TRUE] /\ hooks = << >> /\ holder = {}
  /\ call = [c \in Setups |-> NoCall] /\ issued = 0 /\ last = "none" /\ rotations = 0

(* No record, or one that raises ConfigEncryptionError.                     *)
NeedsSecret == row.secret = 0 \/ ~row.readable

ReadSecret(c) ==
  /\ call[c].pc = "start"
  /\ IF NeedsSecret
     THEN /\ issued' = issued + 1
          /\ call' = [call EXCEPT ![c].pc = "look", ![c].secret = issued + 1]
     ELSE /\ call' = [call EXCEPT ![c].pc = "hooks", ![c].secret = row.secret]
          /\ UNCHANGED issued
  /\ UNCHANGED <<row, hooks, holder, last, rotations>>

(* save_project_webhook_secret: look again, then insert or update.  The     *)
(* flush waits for an open transaction on the row; an insert that finds the *)
(* key taken is an error.                                                   *)
SaveLooks(c) ==
  /\ call[c].pc = "look"
  /\ call' = [call EXCEPT ![c].pc = "flush", ![c].found = row.secret # 0]
  /\ UNCHANGED <<row, hooks, holder, issued, last, rotations>>

Ends(c, result) ==
  /\ call' = [call EXCEPT ![c].pc = "done"]
  /\ holder' = holder \ {c} /\ last' = result

SaveFlushes(c) ==
  /\ call[c].pc = "flush" /\ holder = {}
  /\ \/ /\ ~call[c].found /\ row.secret # 0
        /\ Ends(c, "error")
     \/ /\ call[c].found = (row.secret # 0)
        /\ holder' = {c} /\ call' = [call EXCEPT ![c].pc = "hooks"] /\ UNCHANGED last
  /\ UNCHANGED <<row, hooks, issued, rotations>>

(* ensure_project_webhook: list the hooks, then update the first match or   *)
(* create one.                                                              *)
ListHooks(c) ==
  /\ call[c].pc = "hooks"
  /\ \/ Ends(c, "error")
     \/ /\ call' = [call EXCEPT ![c].pc = "put", ![c].found = hooks # << >>]
        /\ UNCHANGED <<holder, last>>
  /\ UNCHANGED <<row, hooks, issued, rotations>>

PutHook(c) ==
  /\ call[c].pc = "put"
  /\ \/ Ends(c, "error") /\ UNCHANGED hooks
     \/ /\ hooks' = IF call[c].found THEN [hooks EXCEPT ![1] = call[c].secret]
                    ELSE Append(hooks, call[c].secret)
        /\ \/ Ends(c, "error")                             \* answer lost
           \/ /\ call' = [call EXCEPT ![c].pc = "commit"] /\ UNCHANGED <<holder, last>>
  /\ UNCHANGED <<row, issued, rotations>>

(* get_db commits after the endpoint returned.                              *)
Commit(c) ==
  /\ call[c].pc = "commit"
  /\ row' = IF c \in holder THEN [secret |-> call[c].secret, readable |-> TRUE] ELSE row
  /\ Ends(c, "ok")
  /\ UNCHANGED <<hooks, issued, rotations>>

(* The backend restarts with another key: open requests are gone.           *)
RotateKey ==
  /\ rotations < MaxRotations /\ rotations' = rotations + 1
  /\ row' = [row EXCEPT !.readable = row.secret = 0]
  /\ call' = [c \in Setups |-> IF call[c].pc = "start" THEN call[c]
                               ELSE [call[c] EXCEPT !.pc = "done"]]
  /\ holder' = {} /\ last' = "restart"
  /\ UNCHANGED <<hooks, issued>>

Next == RotateKey \/ \E c \in Setups :
          ReadSecret(c) \/ SaveLooks(c) \/ SaveFlushes(c) \/ ListHooks(c) \/ PutHook(c) \/ Commit(c)

Spec == Init /\ [][Next]_vars

(* receive_gitlab_webhook: a delivery of this hook passes the token check.  *)
Accepted(h) == row.readable /\ row.secret # 0 /\ hooks[h] = row.secret

---------------------------------------------------------------------------
(* Types; every token stored or installed was issued, and one setup at     *)
(* most holds the row (ensure_project_webhook).                            *)
TypeOK ==
  /\ row.secret \in 0 .. issued /\ row.readable \in BOOLEAN
  /\ \A h \in DOMAIN hooks : hooks[h] \in 1 .. issued
  /\ holder \subseteq Setups /\ Cardinality(holder) <= 1
  /\ \A c \in Setups : call[c].secret \in 0 .. issued

(* When no call is under way and the last one succeeded, the hook it        *)
(* reported delivers with the token the receiver expects, also after a lost *)
(* answer, a failed call or a new encryption key before it.                 *)
SetupDelivers ==
  last = "ok" /\ (\A c \in Setups : call[c].pc \in {"start", "done"}) =>
    hooks # << >> /\ Accepted(1)
=============================================================================
