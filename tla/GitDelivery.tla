---------------------------- MODULE GitDelivery ----------------------------
(***************************************************************************)
(* The repository one Issue's tasks work on and the delivery of a task's   *)
(* commits.  First the commit graph, the remote task branch that people    *)
(* may move while a task runs, the persistent workspace and the            *)
(* preparation of a task (repository.sh): probe the remote, clone or       *)
(* fetch, compare the branches, check out.  Then the delivery (main.sh,    *)
(* git-delivery.sh, git-delivery.py) and the backend's check of what the   *)
(* worker reports (worker_git_delivery.py, worker_results.py): the harness *)
(* may commit, push, rewrite or leave files behind; the worker commits     *)
(* what is left, collects S..H and the inherited commits, and publishes H  *)
(* only as a fast forward of the tip it observed.  The network may fail at *)
(* every call and the container may be killed between any two steps.       *)
(*                                                                         *)
(* A commit is its number in the order of creation and past[c] the set of  *)
(* the commits it contains, itself included.  0 stands for "no commit".    *)
(***************************************************************************)
EXTENDS Integers, Sequences, FiniteSets

CONSTANTS MaxCommits,   \* commits ever created
          MaxAttempts,  \* tasks started on the Issue
          MaxPeople,    \* moves of the remote branch by people
          MaxBase,      \* moves of the base branch
          Shallow,      \* the Issue clones with a depth
          Unprovable    \* comparisons a cut history may fail to answer:
                        \* subset of {"prepare", "own", "inherited", "remote"}

(* What the constants are. *)
GitAssumption ==
  /\ {MaxCommits, MaxAttempts, MaxPeople, MaxBase} \subseteq Nat
  /\ Shallow \in BOOLEAN
  /\ Unprovable \subseteq {"prepare", "own", "inherited", "remote"}

VARIABLES past,       \* the commit graph
          base,       \* tip of the base branch on the server
          remote,     \* tip of the task branch on the server
          ws,         \* the workspace directory, kept between tasks
          receipt,    \* head of the unconfirmed push, in the Issue's meta dir
          pc,         \* where the entrypoint of the running container is
          refs,       \* what preparation read: work, prev and base SHA
          pin,        \* S, R0, B0 and the frozen receipt of this task
          attempts, people, baseMoves,
          removed     \* commits people took off the task branch

gitVars == <<past, base, remote, ws, receipt, pc, refs, pin, attempts, people,
             baseMoves, removed>>

Commits == 1 .. Len(past)
Past(c) == IF c = 0 THEN {} ELSE past[c]

NoRefs == [work |-> 0, prev |-> 0, base |-> 0]
NoPin == [s |-> 0, r0 |-> 0, b0 |-> 0, receipt |-> 0]

(* No clone yet; onBranch says HEAD is attached to the task branch.        *)
EmptyWorkspace == [cloned |-> FALSE, local |-> 0, tracking |-> 0, tbase |-> 0,
                   onBranch |-> FALSE, dirty |-> FALSE]

GitInit ==
  /\ past = << {1} >> /\ base = 1 /\ remote = 0
  /\ ws = EmptyWorkspace /\ receipt = 0
  /\ pc = "idle" /\ refs = NoRefs /\ pin = NoPin
  /\ attempts = 0 /\ people = 0 /\ baseMoves = 0
  /\ removed = [seen |-> {}, delivered |-> {}]

(* A new commit on top of c.                                               *)
Grown(c) == Append(past, Past(c) \union {Len(past) + 1})
CanGrow == Len(past) < MaxCommits

---------------------------------------------------------------------------
(* Preparation: repo_read_remote_refs.  A full clone probes nothing, it     *)
(* reads the refs of the clone.                                            *)
ReadRemoteRefs ==
  refs' = IF ws.cloned \/ Shallow
          THEN [work |-> remote, prev |-> ws.tracking, base |-> base]
          ELSE NoRefs

(* The container stops with exit status 1 before any task code ran.        *)
PreparationFails == pc' = "idle"

Clone ==
  /\ pc = "prepare" /\ ~ws.cloned
  /\ \/ /\ PreparationFails              \* clone or network failure
        /\ UNCHANGED <<ws, refs>>
     \/ /\ ws' = [EmptyWorkspace EXCEPT !.cloned = TRUE, !.tbase = base,
                                        !.tracking = IF Shallow THEN 0 ELSE remote]
        /\ refs' = [refs EXCEPT !.work = IF Shallow THEN @ ELSE remote]
        /\ pc' = IF Shallow /\ refs.work # 0 THEN "fetch_work" ELSE "checkout"
  /\ UNCHANGED <<past, base, remote, receipt, pin, attempts, people, baseMoves, removed>>

(* repo_fetch_work_branch: a single-branch clone fetches the existing       *)
(* branch on its own; R0 stays the probed tip.                              *)
FetchWorkBranch ==
  /\ pc = "fetch_work"
  /\ \/ PreparationFails /\ UNCHANGED ws
     \/ /\ remote # 0
        /\ ws' = [ws EXCEPT !.tracking = remote]
        /\ pc' = "checkout"
  /\ UNCHANGED <<past, base, remote, receipt, refs, pin, attempts, people, baseMoves, removed>>

(* repo_fetch_selected_refs: nothing is fetched when both refs are known;   *)
(* otherwise the tracking refs are forced to the server's tips and the      *)
(* probed SHAs are read again from them.                                    *)
RefsUnchanged ==
  ws.tbase = refs.base /\ (refs.work # 0 => ws.tracking = refs.work)

FetchSelectedRefs ==
  /\ pc = "prepare" /\ ws.cloned
  /\ \/ /\ RefsUnchanged
        /\ pc' = "checkout" /\ UNCHANGED <<ws, refs>>
     \/ /\ ~RefsUnchanged
        /\ PreparationFails /\ UNCHANGED <<ws, refs>>
     \/ /\ ~RefsUnchanged
        /\ refs.work # 0 => remote # 0
        /\ ws' = [ws EXCEPT !.tbase = base,
                            !.tracking = IF refs.work # 0 THEN remote ELSE @]
        /\ refs' = [refs EXCEPT !.base = base, !.work = IF @ # 0 THEN remote ELSE 0]
        /\ pc' = "checkout"
  /\ UNCHANGED <<past, base, remote, receipt, pin, attempts, people, baseMoves, removed>>

(* repo_classify_work_branch.  prev is the tracking ref as it was before    *)
(* the fetch; blind: the shallow history cannot answer.                     *)
WorkBranchRelation(blind) ==
  IF refs.work = 0
  THEN IF refs.prev # 0 THEN "remote_deleted" ELSE "remote_missing"
  ELSE IF ws.local = refs.work THEN "same"
  ELSE IF blind THEN "unknown_shallow"
  ELSE IF ws.local \in Past(refs.work) THEN "remote_ahead"
  ELSE IF refs.work \in Past(ws.local)
  THEN IF refs.prev \in {0} \union Past(refs.work) THEN "local_ahead" ELSE "remote_rewound"
  ELSE "diverged"

(* repo_sync_local_work_branch: the head it leaves, 0 when it refuses.      *)
SyncedHead(relation) ==
  IF relation \in {"same", "remote_missing", "local_ahead"} THEN ws.local
  ELSE IF relation = "remote_ahead" /\ ~ws.dirty THEN refs.work
  ELSE 0

(* The head the task branch has after the checkout section, 0 for exit 1.  *)
CheckedOutHead(blind) ==
  IF ws.dirty /\ ~ws.onBranch THEN 0
  ELSE IF ws.local # 0 THEN SyncedHead(WorkBranchRelation(blind))
  ELSE IF refs.work # 0 /\ ws.tracking # 0 THEN ws.tracking
  ELSE ws.tbase

(* Checkout, and repo_pin_delivery_start before any task code runs.         *)
Checkout ==
  /\ pc = "checkout"
  /\ \E blind \in (IF "prepare" \in Unprovable THEN BOOLEAN ELSE {FALSE}) :
       LET head == CheckedOutHead(blind) IN
       \/ /\ head = 0
          /\ PreparationFails /\ UNCHANGED <<ws, pin>>
       \/ /\ head # 0
          /\ ws' = [ws EXCEPT !.local = head, !.onBranch = TRUE]
          /\ pin' = [s |-> head, r0 |-> refs.work, b0 |-> refs.base, receipt |-> receipt]
          /\ pc' = "work"
  /\ UNCHANGED <<past, base, remote, receipt, refs, attempts, people, baseMoves, removed>>

---------------------------------------------------------------------------
(* People work on the same branch: they add a commit, take commits off it   *)
(* (also by replacing them) or delete it; the base branch moves on.         *)
(* removed.seen: commits the workspace had seen on the branch, taken off    *)
(* between two tasks; removed.delivered: of a confirmed delivery.           *)
PeoplePush ==
  /\ remote # 0 /\ CanGrow /\ people < MaxPeople
  /\ past' = Grown(remote) /\ remote' = Len(past) + 1
  /\ people' = people + 1
  /\ UNCHANGED <<base, ws, receipt, pc, refs, pin, attempts, baseMoves, removed>>

Takes(commits, delivered) ==
  LET own == commits \ Past(base) IN
  removed' = [seen |-> removed.seen \union
                         (IF pc = "idle" THEN own \intersect Past(ws.tracking) ELSE {}),
              delivered |-> removed.delivered \union (own \intersect delivered)]

PeopleRewind(delivered) ==
  /\ remote # 0 /\ people < MaxPeople
  /\ \E c \in (Past(remote) \ {remote}) \ Past(base) : remote' = c
  /\ Takes(Past(remote) \ Past(remote'), delivered)
  /\ people' = people + 1
  /\ UNCHANGED <<past, base, ws, receipt, pc, refs, pin, attempts, baseMoves>>

PeopleReplace(delivered) ==
  /\ remote # 0 /\ CanGrow /\ people < MaxPeople
  /\ \E c \in Past(remote) \ {remote} :
       /\ past' = Grown(c) /\ remote' = Len(past) + 1
       /\ Takes(Past(remote) \ Past(c), delivered)
  /\ people' = people + 1
  /\ UNCHANGED <<base, ws, receipt, pc, refs, pin, attempts, baseMoves>>

PeopleDelete(delivered) ==
  /\ remote # 0 /\ people < MaxPeople
  /\ remote' = 0 /\ Takes(Past(remote), delivered)
  /\ people' = people + 1
  /\ UNCHANGED <<past, base, ws, receipt, pc, refs, pin, attempts, baseMoves>>

BaseMoves ==
  /\ CanGrow /\ baseMoves < MaxBase
  /\ past' = Grown(base) /\ base' = Len(past) + 1
  /\ baseMoves' = baseMoves + 1
  /\ UNCHANGED <<remote, ws, receipt, pc, refs, pin, attempts, people, removed>>

---------------------------------------------------------------------------
(* Delivery.                                                               *)
VARIABLES snap,      \* git-delivery.json: facts and push outcome
          obs,       \* tips the publisher read: lease and recheck
          exit,      \* how the last container ended
          landed,    \* heads the publisher put on the branch, unconfirmed
          delivered, \* commits of confirmed deliveries
          tips       \* tips the branch had since the publisher looked

vars == <<gitVars, snap, obs, exit, landed, delivered, tips>>

NoSnap == [head |-> 0, own |-> {}, inherited |-> {}, lists |-> {},
           status |-> "none", sha |-> 0, code |-> "none"]
NoObs == [lease |-> 0, tip |-> 0]

Confirmed == {"pushed", "already_present"}
PushStatuses == {"none", "not_needed", "not_attempted", "failed"} \union Confirmed
ErrorCodes == {"none", "branch_changed", "history_rewritten", "history_unverifiable",
               "remote_deleted", "remote_rewound", "remote_diverged", "remote_changed",
               "push_failed", "remote_unconfirmed"}

Init ==
  /\ GitInit
  /\ snap = NoSnap /\ obs = NoObs /\ exit = "none"
  /\ landed = {} /\ delivered = {} /\ tips = {}

Local == UNCHANGED <<base, remote, receipt, refs, pin, attempts, people, baseMoves,
                     removed, obs, landed, delivered, tips>>

Start ==
  /\ pc = "idle" /\ attempts < MaxAttempts
  /\ attempts' = attempts + 1 /\ pc' = "prepare"
  /\ ReadRemoteRefs
  /\ pin' = NoPin /\ snap' = NoSnap /\ obs' = NoObs /\ exit' = "none" /\ tips' = {}
  /\ UNCHANGED <<past, base, remote, ws, receipt, people, baseMoves, removed, landed,
                 delivered>>

Prepare ==
  /\ Clone \/ FetchWorkBranch \/ FetchSelectedRefs \/ Checkout
  /\ exit' = IF pc' = "idle" THEN "fail" ELSE exit
  /\ UNCHANGED <<snap, obs, landed, delivered, tips>>

---------------------------------------------------------------------------
(* The harness, a pre or post script, or a process they leave running.     *)
HarnessCommits ==
  /\ pc \in {"work", "observe"} /\ ws.onBranch /\ CanGrow
  /\ past' = Grown(ws.local) /\ ws' = [ws EXCEPT !.local = Len(past) + 1]
  /\ UNCHANGED <<pc, snap, exit>> /\ Local

HarnessEdits ==
  /\ pc \in {"work", "observe"} /\ ~ws.dirty
  /\ ws' = [ws EXCEPT !.dirty = TRUE]
  /\ UNCHANGED <<past, pc, snap, exit>> /\ Local

HarnessRewrites ==
  /\ pc = "work" /\ ws.onBranch /\ CanGrow
  /\ past' = Grown(base) /\ ws' = [ws EXCEPT !.local = Len(past) + 1]
  /\ UNCHANGED <<pc, snap, exit>> /\ Local

HarnessSwitchesBranch ==
  /\ pc = "work" /\ ws.onBranch
  /\ ws' = [ws EXCEPT !.onBranch = FALSE]
  /\ UNCHANGED <<past, pc, snap, exit>> /\ Local

(* An ordinary git push by the harness: the server takes fast forwards.     *)
HarnessPushes ==
  /\ pc = "work" /\ ws.local # remote /\ (remote = 0 \/ remote \in Past(ws.local))
  /\ remote' = ws.local /\ ws' = [ws EXCEPT !.tracking = ws.local]
  /\ UNCHANGED <<past, base, receipt, pc, refs, pin, attempts, people, baseMoves, removed,
                 snap, obs, exit, landed, delivered, tips>>

---------------------------------------------------------------------------
(* _recovered_range_base and the adopted receipt: the commits inherited     *)
(* from earlier tasks.                                                      *)
RecoveredBase ==
  IF pin.r0 # 0 THEN pin.r0 ELSE pin.b0

RecoveredCommits ==
  LET range == IF RecoveredBase # 0 /\ RecoveredBase \in Past(pin.s)
               THEN Past(pin.s) \ Past(RecoveredBase) ELSE {}
  IN range \union ({pin.receipt} \intersect Past(pin.s))

RecoveredRangeIsSilent == RecoveredBase \in {0, pin.s}

(* _collect_git_delivery at head h: blind names the range git cannot list.  *)
CollectError(graph, h, onBranch, blind) ==
  IF ~onBranch THEN "branch_changed"
  ELSE IF blind = "own" /\ h # pin.s THEN "history_unverifiable"
  ELSE IF pin.s \notin graph[h] THEN "history_rewritten"
  ELSE "none"

CollectedFacts(graph, h, onBranch, blind) ==
  LET error == CollectError(graph, h, onBranch, blind)
      own == graph[h] \ Past(pin.s)
      blindInherited == blind = "inherited" /\ ~RecoveredRangeIsSilent
  IN [NoSnap EXCEPT !.head = h, !.status = "not_attempted",
        !.own = IF error = "none" THEN own ELSE {},
        !.inherited = IF error = "none" /\ ~blindInherited THEN RecoveredCommits ELSE {},
        !.lists = IF error # "none" THEN {}
                  ELSE {"own"} \union (IF blindInherited THEN {} ELSE {"inherited"})]

HasContent(s) == s.own # {} \/ s.inherited # {}

(* repo_delivery_record: the push outcome in the snapshot.                  *)
Recorded(s, status, sha, code) == [s EXCEPT !.status = status, !.sha = sha, !.code = code]

Blindness == {"none"} \union (Unprovable \intersect {"own", "inherited"})

(* A failed harness: repo_delivery_collect_facts_on_exit keeps the facts.   *)
HarnessFails ==
  /\ pc = "work"
  /\ \E blind \in Blindness :
       snap' = CollectedFacts(past, ws.local, ws.onBranch, blind)
  /\ pc' = "idle" /\ exit' = "fail"
  /\ UNCHANGED <<past, ws>> /\ Local

(* Stage, commit the rest, collect; a run without content ends here.        *)
CommitRemaining ==
  IF ws.dirty /\ ws.onBranch
  THEN /\ CanGrow
       /\ past' = Grown(ws.local)
       /\ ws' = [ws EXCEPT !.local = Len(past) + 1, !.dirty = FALSE]
  ELSE past' = past /\ ws' = [ws EXCEPT !.dirty = FALSE]

Collect ==
  /\ pc = "work"
  /\ CommitRemaining
  /\ \E blind \in Blindness :
       LET facts == CollectedFacts(past', ws'.local, ws'.onBranch, blind)
           error == CollectError(past', ws'.local, ws'.onBranch, blind)
       IN \/ /\ error # "none"
             /\ snap' = Recorded(facts, "failed", 0, error)
             /\ pc' = "idle" /\ exit' = "fail"
          \/ /\ error = "none" /\ HasContent(facts)
             /\ snap' = facts /\ pc' = "observe" /\ UNCHANGED exit
          \/ /\ error = "none" /\ ~HasContent(facts)
             /\ snap' = Recorded(facts, "not_needed", 0, "none")
             /\ pc' = "idle" /\ exit' \in {"ok", "fail"}      \* require_changes
  /\ Local

---------------------------------------------------------------------------
(* repo_delivery_publish.  The publisher's state: the tip it leased (0: the  *)
(* branch must not exist) and the tip of the recheck.                       *)
Publisher == UNCHANGED <<past, base, ws, refs, pin, attempts, people, baseMoves, removed>>

Ends(status, sha, code) ==
  /\ snap' = Recorded(snap, status, sha, code)
  /\ pc' = "idle" /\ exit' = "fail"

Fails(sha, code) == Ends("failed", sha, code)

Continues(step) == pc' = step /\ UNCHANGED <<snap, exit>>

(* The pinned head must still be the clean head of the task branch; then    *)
(* the remote tip is read.                                                  *)
HeadStillPinned == ws.onBranch /\ ws.local = snap.head /\ ~ws.dirty

Observe ==
  /\ pc = "observe"
  /\ \/ ~HeadStillPinned /\ Fails(0, "branch_changed") /\ UNCHANGED <<obs, tips>>
     \/ HeadStillPinned /\ Fails(0, "remote_unconfirmed") /\ UNCHANGED <<obs, tips>>
     \/ /\ HeadStillPinned /\ remote = 0 /\ pin.r0 # 0
        /\ Fails(0, "remote_deleted") /\ UNCHANGED <<obs, tips>>
     \/ /\ HeadStillPinned /\ (remote = 0 => pin.r0 = 0)
        /\ Continues(IF remote = 0 THEN "receipt" ELSE "fetch")
        /\ obs' = [lease |-> 0, tip |-> remote] /\ tips' = {remote}
  /\ UNCHANGED <<remote, receipt, landed, delivered>> /\ Publisher

RemoteDecisionSwapped(tip, blind) ==
  IF tip \in Past(snap.head) THEN "already_present" ELSE "remote_diverged"

(* classify_remote(head, tip, R0) with the tip's objects present.           *)
RemoteDecision(tip, blind) ==
  IF snap.head = tip THEN "already_present"
  ELSE IF snap.head \in Past(tip) THEN "already_present"
  ELSE IF blind THEN "history_unverifiable"
  ELSE IF tip \notin Past(snap.head) THEN "remote_diverged"
  ELSE IF pin.r0 \in {0} \union Past(tip) THEN "push"
  ELSE IF tip \in Past(pin.r0) THEN "remote_rewound" ELSE "remote_diverged"

Fetch ==
  /\ pc = "fetch"
  /\ \/ Fails(obs.tip, "remote_unconfirmed") /\ UNCHANGED obs
     \/ /\ remote # 0
        /\ \E blind \in (IF "remote" \in Unprovable THEN BOOLEAN ELSE {FALSE}) :
             LET decision == RemoteDecision(remote, blind) IN
             \/ /\ decision = "already_present"
                /\ Continues("confirm_present")
             \/ decision = "push" /\ Continues("receipt")
             \/ /\ decision \notin {"already_present", "push"}
                /\ Fails(remote, decision)
        /\ obs' = [lease |-> remote, tip |-> remote]
  /\ UNCHANGED <<remote, receipt, landed, delivered, tips>> /\ Publisher

(* repo_delivery_push_pinned: the receipt is written before the push.       *)
WriteReceipt ==
  /\ pc = "receipt"
  /\ \/ receipt' = snap.head /\ Continues("push")
     \/ UNCHANGED receipt /\ Continues("recheck")      \* write failed
  /\ UNCHANGED <<remote, obs, landed, delivered, tips>> /\ Publisher

LeaseIgnored == TRUE

(* git push --force-with-lease=<branch>:<lease>: the server compares; its   *)
(* acknowledgement may be lost.                                             *)
LeaseHolds == remote = obs.lease

Push ==
  /\ pc = "push"
  /\ \/ /\ LeaseHolds
        /\ remote' = snap.head /\ landed' = landed \union {snap.head}
        /\ tips' = tips \union {remote'}
        /\ \E step \in {"confirm_pushed", "recheck"} : Continues(step)
     \/ UNCHANGED <<remote, landed, tips>> /\ Continues("recheck")
  /\ UNCHANGED <<receipt, obs, delivered>> /\ Publisher

(* repo_delivery_recheck_publish: one look at the tip, one fetch.           *)
Unpublished(tip) ==
  IF obs.lease = 0 THEN Fails(0, "push_failed")
  ELSE IF tip = 0 THEN Fails(0, "remote_unconfirmed")
  ELSE IF tip = obs.lease THEN Fails(obs.lease, "push_failed")
  ELSE Fails(obs.lease, "remote_changed")

RecheckTip ==
  /\ pc = "recheck"
  /\ \/ Unpublished(0) /\ UNCHANGED obs               \* not observable
     \/ remote = 0 /\ Unpublished(0) /\ UNCHANGED obs
     \/ /\ remote # 0
        /\ obs' = [obs EXCEPT !.tip = remote]
        /\ Continues(IF remote = snap.head THEN "confirm_present" ELSE "recheck_fetch")
  /\ UNCHANGED <<remote, receipt, landed, delivered, tips>> /\ Publisher

(* The tip read before the fetch is classified: its objects came with the   *)
(* fetch only if the branch still contains it.                              *)
RecheckFetch ==
  /\ pc = "recheck_fetch"
  /\ \/ Unpublished(obs.tip)
     \/ /\ obs.tip \in Past(remote) \union Past(ws.local)
        /\ IF RemoteDecision(obs.tip, FALSE) = "already_present"
           THEN Continues("confirm_present") ELSE Unpublished(obs.tip)
  /\ UNCHANGED <<remote, receipt, obs, landed, delivered, tips>> /\ Publisher

(* repo_delivery_record_confirmed: record, then clear the receipt.  A       *)
(* failed write ends the run with the receipt kept.                         *)
Confirm(step, status, sha) ==
  /\ pc = step
  /\ \/ pc' = "idle" /\ exit' = "fail" /\ UNCHANGED <<snap, delivered, landed>>
     \/ /\ snap' = Recorded(snap, status, sha, "none")
        /\ delivered' = delivered \union Past(snap.head)
        /\ landed' = landed \ Past(snap.head)
        /\ pc' = "clear" /\ UNCHANGED exit
  /\ UNCHANGED <<remote, receipt, obs, tips>> /\ Publisher

ConfirmPushed == Confirm("confirm_pushed", "pushed", snap.head)
ConfirmPresent == Confirm("confirm_present", "already_present", obs.tip)

ClearReceipt ==
  /\ pc = "clear"
  /\ \/ receipt' = 0 /\ exit' = "ok"
     \/ UNCHANGED receipt /\ exit' = "fail"
  /\ pc' = "idle"
  /\ UNCHANGED <<remote, snap, obs, landed, delivered, tips>> /\ Publisher

---------------------------------------------------------------------------
(* The container is killed; the workspace, the receipt and the remote stay. *)
Killed ==
  /\ pc # "idle"
  /\ pc' = "idle" /\ exit' = "killed" /\ snap' = NoSnap
  /\ UNCHANGED <<past, ws>> /\ Local

(* The Issue's directory is removed with its metadata.                      *)
RemoveWorkspace ==
  /\ pc = "idle" /\ ws.cloned /\ attempts < MaxAttempts
  /\ ws' = EmptyWorkspace /\ receipt' = 0 /\ landed' = {}
  /\ UNCHANGED <<past, base, remote, pc, refs, pin, attempts, people, baseMoves, removed,
                 snap, obs, exit, delivered, tips>>

People ==
  /\ PeoplePush \/ PeopleRewind(delivered) \/ PeopleReplace(delivered)
     \/ PeopleDelete(delivered) \/ BaseMoves
  /\ tips' = IF tips = {} THEN {} ELSE tips \union {remote'}
  /\ UNCHANGED <<snap, obs, exit, landed, delivered>>

Harness == HarnessCommits \/ HarnessEdits \/ HarnessRewrites \/ HarnessSwitchesBranch
           \/ HarnessPushes \/ HarnessFails

Publish == Observe \/ Fetch \/ WriteReceipt \/ Push \/ RecheckTip \/ RecheckFetch
           \/ ConfirmPushed \/ ConfirmPresent \/ ClearReceipt

Next == Start \/ Prepare \/ Harness \/ Collect \/ Publish \/ Killed \/ RemoveWorkspace \/ People

Spec == Init /\ [][Next]_vars

---------------------------------------------------------------------------
(* The backend's reading of the snapshot: normalize_git_delivery,           *)
(* completed_delivery_error and project_delivery_commit_sha.                *)
Normalizes(s) ==
  /\ s.status \in Confirmed => s.code = "none" /\ s.sha # 0 /\ HasContent(s)
  /\ s.status = "pushed" => s.sha = s.head
  /\ s.status = "failed" => s.code # "none"
  /\ s.status \in {"not_needed", "not_attempted"} => s.code = "none"
  /\ s.status = "not_needed" => s.sha = 0
  /\ HasContent(s) => s.head # 0

MayComplete(s) ==
  /\ s.lists = {"own", "inherited"}
  /\ s.status \in (IF HasContent(s) THEN Confirmed ELSE {"not_needed"})

ProjectedSha(s) ==
  IF s.status \in Confirmed /\ HasContent(s) THEN s.head ELSE 0

(* parse_task_result on the container's exit: the task's status.            *)
TaskStatus ==
  IF exit = "ok" /\ Normalizes(snap) /\ MayComplete(snap) THEN "completed" ELSE "failed"

---------------------------------------------------------------------------
(* Types; every commit the workspace, the pin, the snapshot or the receipt *)
(* names exists (git-delivery.sh snapshot fields).                         *)
TypeOK ==
  /\ past \in Seq(SUBSET (1 .. MaxCommits)) /\ Len(past) <= MaxCommits
  /\ base \in Commits /\ {remote, receipt, ws.local, ws.tracking, ws.tbase} \subseteq 0 .. Len(past)
  /\ {ws.cloned, ws.onBranch, ws.dirty} \subseteq BOOLEAN
  /\ {pin.s, pin.r0, pin.b0, pin.receipt} \subseteq 0 .. Len(past)
  /\ snap.status \in PushStatuses /\ snap.code \in ErrorCodes
  /\ snap.own \union snap.inherited \subseteq Commits
  /\ exit \in {"none", "ok", "fail", "killed"}

(* A step of the publisher that moves the server's branch.                  *)
WorkerPush == pc = "push" /\ remote' # remote /\ pc' # "push"

(* The publisher never takes a commit off the task branch, whatever people  *)
(* did to the branch between the observation, the fetch and the push: the   *)
(* lease in repo_delivery_push_pinned only confirms a verified fast forward. *)
FastForwardOnly ==
  WorkerPush => remote = 0 \/ remote \in Past(remote')

(* A publish only extends a branch that still contains R0, the tip pinned   *)
(* at the start: repo_delivery_publish does not recreate a deleted branch   *)
(* and does not restore commits taken off it while the task ran.            *)
StartTipKept ==
  WorkerPush /\ pin.r0 # 0 => pin.r0 \in Past(remote)

(* Every commit a publish adds to the branch is listed in the snapshot, as  *)
(* this task's or as inherited: nothing reaches the remote unattributed.    *)
PublishedIsListed ==
  WorkerPush => Past(remote') \ (Past(remote) \union Past(base))
                     \subseteq snap.own \union snap.inherited

(* A projected commit_sha is the head of a range the server's branch really *)
(* contained after the publisher first looked, also when the confirmation   *)
(* came from the recheck after a lost acknowledgement.                      *)
ConfirmedWasThere ==
  ProjectedSha(snap) # 0 =>
    \E t \in tips : t = snap.sha /\ snap.head \in Past(t)

(* A head the publisher put on the branch and could not record, because the *)
(* acknowledgement or the container was lost, stays covered by the receipt  *)
(* in the Issue's metadata for as long as the branch contains it, so that a *)
(* later task confirms it as recovered.                                     *)
ReceiptCoversLanded ==
  \A h \in landed : h \in Past(remote) => h \in Past(receipt)

(* A container that exits 0 reports a delivery the backend completes the    *)
(* task with: parse_task_result finds no contradiction in it.               *)
CompletedIsAccepted == exit = "ok" => TaskStatus = "completed"

-----------------------------------------------------------------------------
(* What the repository says and the code does not keep (README, Deviations). *)

(* A task that ends as "no changes" leaves no unpublished commit behind on  *)
(* the branch: commits of an earlier task that was never pushed are         *)
(* delivered by the next one.                                               *)
InheritedIsDelivered ==
  snap.status = "not_needed" =>
    Past(snap.head) \subseteq Past(base) \union Past(pin.r0)

(* A delivery the worker published with exit status 0 completes the task,   *)
(* also when the inherited commits could not be listed: main.sh lets such a *)
(* run proceed to publish.                                                  *)
PublishedIsCompleted ==
  exit = "ok" /\ snap.status \in Confirmed => TaskStatus = "completed"

(* Commits the workspace had seen on the remote branch and people took off  *)
(* it between two tasks are not pushed back by a later task: preparation    *)
(* compares the tracking ref before and after its fetch and stops.          *)
SeenRemovalIsKept ==
  WorkerPush => removed.seen \intersect Past(remote') \subseteq Past(remote)

(* Commits an earlier task delivered and people then took off the branch,   *)
(* or deleted with it, are not pushed back by a later task.                 *)
DeliveredRemovalIsKept ==
  WorkerPush => removed.delivered \intersect Past(remote') \subseteq Past(remote)
=============================================================================
