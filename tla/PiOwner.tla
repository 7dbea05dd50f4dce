------------------------------ MODULE PiOwner ------------------------------
(***************************************************************************)
(* The container's half of the command plane: the frame file and the       *)
(* detached control clients that read it, the Pi owner that journals a     *)
(* command before it writes it to Pi, and Pi's turns.  A client reads      *)
(* whatever frame the file holds when it starts, so a client that starts   *)
(* late may forward a later command.                                       *)
(***************************************************************************)
EXTENDS CommandGate

VARIABLES
    frameFile,          \* control-frame.json: [cmd, gate]; cmd 0 is the close frame
    clients,            \* control clients: [for, frame]; frame None: not started
    replies,            \* outcome files with the token of their request
    owner,              \* [up, settled, closing, reopen, inflight, answer]
    requests,           \* the owner's request journal
    responses,          \* the owner's response journal
    natives,            \* commands written to Pi's stdin, in order (history)
    turn,               \* Pi: "running", "settled" or "gone"
    turnQueue,          \* follow-ups Pi took and has not begun
    begun               \* follow-ups whose turn Pi began (history)

wireVars == <<frameFile, clients, replies>>
piVars == <<turn, turnQueue, begun>>
ownerVars == <<wireVars, owner, requests, responses, natives, piVars>>

None == [cmd |-> 0, gate |-> "none"]
CloseFrame == [cmd |-> 0, gate |-> "closing"]
Answer(c, s) == [cmd |-> c, status |-> s]

\* A control frame names a stored command, or none; the owner sends stored commands.
Gates == {"none", "starting", "accepting", "closing", "closed"}
Frame == [cmd : 0..Len(cmds), gate : Gates]
InFlight == {None} \cup [cmd : Seqs, gate : Gates]

\* The owner's socket, journals and process state.
OwnerTypeOK ==
    /\ frameFile \in Frame
    /\ clients \subseteq [for : 0..Len(cmds), frame : Frame]
    /\ replies \subseteq [cmd : 0..Len(cmds), status : {"ack", "reject", "retry", "unknown"}]
    /\ owner \in [up : BOOLEAN, settled : BOOLEAN, closing : BOOLEAN, reopen : 0..Len(cmds),
                  inflight : InFlight, answer : {"none", "ack", "reject"}]
    /\ requests \subseteq Seqs /\ natives \in Seq(Seqs)
    /\ responses \subseteq [cmd : Seqs, status : {"ack", "reject"}]
    /\ turn \in {"running", "settled", "gone"}
    /\ turnQueue \subseteq Seqs /\ begun \subseteq Seqs

OwnerInit ==
    /\ frameFile = None /\ clients = {} /\ replies = {}
    /\ owner = [up |-> TRUE, settled |-> FALSE, closing |-> FALSE, reopen |-> 0,
                inflight |-> None, answer |-> "none"]
    /\ requests = {} /\ responses = {} /\ natives = <<>>
    /\ turn = "running" /\ turnQueue = {} /\ begun = {}

Started(k) == [for |-> k.for, frame |-> frameFile]
\* The client's outcome file counts only when the frame it read carries the
\* token of the request it was started for.
Reply(k, s) == IF k.frame.cmd = k.for THEN {Answer(k.for, s)} ELSE {}

\* main and handle: the client reads the frame file and connects; a socket
\* nobody listens on is a proof that nothing was sent.
ClientStarts(k) ==
    /\ k \in clients /\ k.frame = None
    /\ IF owner.up
       THEN /\ clients' = (clients \ {k}) \cup {Started(k)}
            /\ UNCHANGED replies
       ELSE /\ clients' = clients \ {k}
            /\ replies' = replies \cup Reply(Started(k), "retry")
    /\ UNCHANGED <<gateVars, frameFile, owner, requests, responses, natives, piVars>>

\* dispatch of a close frame: it bypasses the dispatch lock.
OwnerCloses(k) ==
    /\ k \in clients /\ k.frame = CloseFrame /\ owner.up
    /\ clients' = clients \ {k}
    /\ owner' = [owner EXCEPT !.closing = @ \/ owner.settled]
    /\ UNCHANGED <<gateVars, frameFile, replies, requests, responses, natives, piVars>>

KnownAnswer(c) == {r \in responses : r.cmd = c}

\* _dispatch_locked up to the native write: Pi is gone, the command has an
\* answer, or it was requested before and its answer is lost.
OwnerAnswersFromJournal(k) ==
    /\ k \in clients /\ k.frame.cmd # 0 /\ owner.up /\ owner.inflight = None
    /\ clients' = clients \ {k}
    /\ \/ /\ turn = "gone"
          /\ replies' = replies \cup Reply(k, "reject")
       \/ /\ turn # "gone"
          /\ \E r \in KnownAnswer(k.frame.cmd) : replies' = replies \cup Reply(k, r.status)
       \/ /\ turn # "gone"
          /\ KnownAnswer(k.frame.cmd) = {} /\ k.frame.cmd \in requests
          /\ replies' = replies \cup Reply(k, "unknown")
    /\ UNCHANGED <<gateVars, frameFile, owner, requests, responses, natives, piVars>>

MutOwnerWrites(k) ==
    /\ k \in clients /\ k.frame.cmd # 0 /\ owner.up /\ owner.inflight = None
    /\ turn # "gone"
    /\ requests' = requests \cup {k.frame.cmd}
    /\ natives' = Append(natives, k.frame.cmd)
    /\ owner' = [owner EXCEPT !.inflight = k.frame, !.answer = "none"]
    /\ UNCHANGED <<gateVars, wireVars, responses, piVars>>

\* _dispatch_locked: the request is journalled and synced, then written to Pi.
OwnerWrites(k) ==
    /\ k \in clients /\ k.frame.cmd # 0 /\ owner.up /\ owner.inflight = None
    /\ turn # "gone" /\ k.frame.cmd \notin requests
    /\ requests' = requests \cup {k.frame.cmd}
    /\ natives' = Append(natives, k.frame.cmd)
    /\ owner' = [owner EXCEPT !.inflight = k.frame, !.answer = "none"]
    /\ UNCHANGED <<gateVars, wireVars, responses, piVars>>

\* _read_loop resolves the waiter of the command in flight.
PiAnswers(ok) ==
    /\ owner.inflight # None /\ owner.answer = "none" /\ turn # "gone"
    /\ owner' = [owner EXCEPT !.answer = IF ok THEN "ack" ELSE "reject"]
    /\ turnQueue' = IF ok /\ cmds[owner.inflight.cmd].type = "follow_up"
                    THEN turnQueue \cup {owner.inflight.cmd} ELSE turnQueue
    /\ UNCHANGED <<gateVars, wireVars, requests, responses, natives, turn, begun>>

Served == {k \in clients : k.frame = owner.inflight}

\* _dispatch_locked resumes with the answer: it arms reopen_after for a
\* follow-up sent while draining, journals the response and replies.
OwnerRecords ==
    /\ owner.inflight # None /\ owner.answer # "none" /\ owner.up
    /\ \E k \in Served :
        /\ clients' = clients \ {k}
        /\ replies' = replies \cup Reply(k, owner.answer)
    /\ responses' = responses \cup {Answer(owner.inflight.cmd, owner.answer)}
    /\ owner' = [owner EXCEPT !.inflight = None,
                    !.reopen = IF /\ owner.answer = "ack" /\ owner.inflight.gate = "closing"
                                  /\ cmds[owner.inflight.cmd].type = "follow_up"
                               THEN owner.inflight.cmd ELSE @]
    /\ UNCHANGED <<gateVars, frameFile, requests, natives, piVars>>

\* The ACK window of _dispatch_locked runs out.
OwnerTimesOut ==
    /\ owner.inflight # None /\ owner.answer = "none" /\ owner.up
    /\ \E k \in Served :
        /\ clients' = clients \ {k}
        /\ replies' = replies \cup Reply(k, "unknown")
    /\ owner' = [owner EXCEPT !.inflight = None]
    /\ UNCHANGED <<gateVars, frameFile, requests, responses, natives, piVars>>

\* finish or a failed owner: clients it had accepted lose their answer.
OwnerExits ==
    /\ owner.up /\ (owner.closing \/ turn = "gone")
    /\ owner' = [owner EXCEPT !.up = FALSE, !.inflight = None]
    /\ replies' = replies \cup UNION {Reply(k, "unknown") : k \in {k \in clients : k.frame # None}}
    /\ clients' = {k \in clients : k.frame = None}
    /\ turn' = "gone" /\ turnQueue' = {}
    /\ evts' = IF turn = "gone" THEN evts ELSE Append(evts, [type |-> "terminal", cmd |-> 0])
    /\ UNCHANGED <<task, gate, cmds, pending, forceClose, puts, frameFile, requests, responses, natives, begun>>

\* Pi runs out of work: agent_settled.  The owner's settled flag is never cleared.
PiSettles ==
    /\ turn = "running" /\ turnQueue = {}
    /\ turn' = "settled"
    /\ owner' = [owner EXCEPT !.settled = TRUE]
    /\ evts' = Append(evts, [type |-> "settled", cmd |-> 0])
    /\ UNCHANGED <<task, gate, cmds, pending, forceClose, puts, wireVars, requests, responses,
                   natives, turnQueue, begun>>

\* Pi begins a follow-up's turn; _read_loop tags the first turn-start record
\* after a follow-up was acknowledged while draining.
PiBeginsTurn(c) ==
    /\ turn # "gone" /\ c \in turnQueue
    /\ turn' = "running" /\ turnQueue' = turnQueue \ {c} /\ begun' = begun \cup {c}
    /\ owner' = [owner EXCEPT !.reopen = 0]
    /\ evts' = IF owner.reopen # 0
               THEN Append(evts, [type |-> "turn_started", cmd |-> owner.reopen]) ELSE evts
    /\ UNCHANGED <<task, gate, cmds, pending, forceClose, puts, wireVars, requests, responses, natives>>

\* Pi's stdout ends or the translator fails: _fail.
PiDies ==
    /\ turn # "gone"
    /\ turn' = "gone" /\ turnQueue' = {}
    /\ evts' = Append(evts, [type |-> "terminal", cmd |-> 0])
    /\ UNCHANGED <<task, gate, cmds, pending, forceClose, puts, wireVars, owner, requests, responses,
                   natives, begun>>
=============================================================================
