--------------------------- MODULE WorkerProfiles ---------------------------
(***************************************************************************)
(* The Worker Profile plane of the API: profiles and the shared            *)
(* configuration they inherit from, the two-layer runtime verification     *)
(* with its epoch, the Issues pinned to a profile, and the snapshot a Task *)
(* freezes from it.                                                        *)
(*                                                                         *)
(* A profile row abstracts its editable configuration to one value `own`   *)
(* and the shared row to one value; a verification digest is the tuple of  *)
(* the inputs it hashes.  Row locks (SELECT ... FOR UPDATE) make a handler *)
(* that holds them over all its reads and writes one step; the handlers    *)
(* that read before they lock, or never lock, take several.                *)
(***************************************************************************)
EXTENDS Naturals, FiniteSets, TLC

CONSTANTS
    Profiles, Issues, Tasks, Verifies,  \* identifiers (each used once)
    Keys, DefaultKey,                   \* enabled Harnesses, the default one
    Owns, Shareds,                      \* configuration values
    KitVersions, Images,                \* what a Docker host may hold
    MaxGen, MaxRevision,                \* bounds on the two counters
    Reopens,                            \* whether PATCH /issues may activate
    None

(* What the constants are. *)
ProfileAssumption ==
    /\ DefaultKey \in Keys
    /\ MaxGen \in Nat /\ MaxRevision \in Nat
    /\ None \notin Profiles \cup Issues \cup KitVersions \cup Images

VARIABLES
    prof,      \* worker_profiles rows (None: no such row)
    shared,    \* the shared configuration row
    patch,     \* the shared PATCH that holds the shared row lock, or None
    verify,    \* verify-runtime requests
    issue,     \* issues rows; `reopened` is history
    locked,    \* profiles whose row lock an issue creation holds
    cached,    \* per issue, the profile.enabled a PATCH /issues has read
    snap,      \* task worker snapshots
    proved     \* history: what a verification container really ran on

vars == <<prof, shared, patch, verify, issue, locked, cached, snap, proved>>

NoEvidence == [k \in Keys |-> None]

NewRow(own, enabled) ==
    [own |-> own, enabled |-> enabled, isDefault |-> FALSE, kit |-> None,
     digest |-> None, evidence |-> NoEvidence, image |-> None,
     vgen |-> 0, kgen |-> 0]

Idle == [pc |-> "idle"]

Init ==
    /\ \E p \in Profiles, o \in Owns :
          prof = [q \in Profiles |->
                    IF q = p THEN [NewRow(o, TRUE) EXCEPT !.isDefault = TRUE]
                             ELSE None]
    /\ shared \in [value : Shareds, revision : {0}]
    /\ patch = None
    /\ verify = [v \in Verifies |-> Idle]
    /\ issue = [i \in Issues |-> None]
    /\ locked = {}
    /\ cached = [i \in Issues |-> None]
    /\ snap = [t \in Tasks |-> None]
    /\ proved = {}

Exists(p) == prof[p] # None
Free(p) == Exists(p) /\ p \notin locked
SharedFree == patch = None

OnIssues(p) == {i \in Issues : issue[i] # None /\ issue[i].profile = p}
OpenOn(p) == {i \in OnIssues(p) : issue[i].open}

-----------------------------------------------------------------------------
(***************************************************************************)
(* Digests and evidence.                                                   *)
(***************************************************************************)

\* current_runtime_verification_digest over the resolved configuration.
Digest(own, base, kit, key) == [own |-> own, base |-> base, kit |-> kit, key |-> key]

Current(row, base) == Digest(row.own, base, row.kit, DefaultKey)

\* Mutant of EvidenceValid: the digest of the inputs is not compared.
EvidenceValidAnyInputs(row, base, key) ==
    /\ row.kit # None /\ row.image # None /\ row.evidence[key] # None
    /\ row.evidence[key].gen = row.vgen
    /\ row.evidence[key].image = row.image

\* validate_v2_harness_evidence, with the identity checks of snapshot_from_profile.
EvidenceValid(row, base, key) ==
    /\ row.kit # None
    /\ row.image # None
    /\ row.evidence[key] # None
    /\ row.evidence[key].digest = Digest(row.own, base, row.kit, key)
    /\ row.evidence[key].gen = row.vgen
    /\ row.evidence[key].image = row.image

Cleared(row) ==
    [row EXCEPT !.digest = None, !.evidence = NoEvidence, !.image = None,
                !.kit = None, !.vgen = @ + 1, !.kgen = @ + 1]

-----------------------------------------------------------------------------
(***************************************************************************)
(* verify-runtime: load, claim an epoch, probe the Kit, run the            *)
(* containers, re-read, write.                                             *)
(***************************************************************************)

Step(v, pc) == verify' = [verify EXCEPT ![v].pc = pc]

VerifyLoad(v, p) ==
    /\ verify[v].pc = "idle"
    /\ Exists(p)
    /\ verify' = [verify EXCEPT ![v] =
         [pc |-> "loaded", profile |-> p, own |-> prof[p].own,
          base |-> shared.value, gen |-> prof[p].kgen, kit |-> None,
          image |-> None, passed |-> {}]]
    /\ UNCHANGED <<prof, shared, patch, issue, locked, cached, snap, proved>>

\* The UPDATE guarded by the generation just read: one epoch per attempt.
VerifyClaim(v) ==
    /\ verify[v].pc = "loaded"
    /\ LET p == verify[v].profile
           owns == Exists(p) /\ prof[p].kgen = verify[v].gen
       IN /\ p \notin locked
          /\ owns => prof[p].kgen < MaxGen
          /\ prof' = IF owns THEN [prof EXCEPT ![p].kgen = @ + 1] ELSE prof
          /\ verify' = [verify EXCEPT ![v].pc = IF owns THEN "probe" ELSE "superseded",
                                      ![v].gen = @ + 1]
    /\ UNCHANGED <<shared, patch, issue, locked, cached, snap, proved>>

\* Layer 1: no conclusion, or a Kit that is merely missing, keeps the evidence.
ProbeInconclusive(v) ==
    /\ verify[v].pc = "probe"
    /\ Step(v, "refused")
    /\ UNCHANGED <<prof, shared, patch, issue, locked, cached, snap, proved>>

\* _clear_profile_verification after a deterministic Kit failure.
ProbeBroken(v) ==
    /\ verify[v].pc = "probe"
    /\ LET p == verify[v].profile
           owns == Exists(p) /\ prof[p].kgen = verify[v].gen
       IN /\ p \notin locked
          /\ owns => prof[p].kgen < MaxGen
          /\ prof' = IF owns THEN [prof EXCEPT ![p] = Cleared(@)] ELSE prof
          /\ Step(v, IF owns THEN "cleared" ELSE "superseded")
    /\ UNCHANGED <<shared, patch, issue, locked, cached, snap, proved>>

ProbeReady(v, kit) ==
    /\ verify[v].pc = "probe"
    /\ verify' = [verify EXCEPT ![v].pc = "containers", ![v].kit = kit]
    /\ UNCHANGED <<prof, shared, patch, issue, locked, cached, snap, proved>>

\* Layer 2: one container per enabled Harness against one image identity.
RunContainers(v, image, passed) ==
    /\ verify[v].pc = "containers"
    /\ verify' = [verify EXCEPT ![v].pc = "recheck", ![v].image = image,
                                ![v].passed = passed]
    /\ proved' = proved \cup
         {[profile |-> verify[v].profile, image |-> image,
           digest |-> Digest(verify[v].own, verify[v].base, verify[v].kit, k)]
            : k \in passed}
    /\ UNCHANGED <<prof, shared, patch, issue, locked, cached, snap>>

\* A container that cannot start is transient: nothing is written.
ContainersFail(v) ==
    /\ verify[v].pc = "containers"
    /\ Step(v, "refused")
    /\ UNCHANGED <<prof, shared, patch, issue, locked, cached, snap, proved>>

\* Reload profile and shared row, recompute the digest with the observed Kit.
VerifyRecheck(v) ==
    /\ verify[v].pc = "recheck"
    /\ LET p == verify[v].profile
           same == /\ Exists(p)
                   /\ prof[p].own = verify[v].own
                   /\ shared.value = verify[v].base
       IN Step(v, IF same THEN "write" ELSE "superseded")
    /\ UNCHANGED <<prof, shared, patch, issue, locked, cached, snap, proved>>

Verified(row, r) ==
    [row EXCEPT
       !.digest = Digest(r.own, r.base, r.kit, DefaultKey),
       !.image = r.image,
       !.kit = r.kit,
       !.vgen = r.gen,
       !.evidence =
          [k \in Keys |->
             IF k \in r.passed
             THEN [digest |-> Digest(r.own, r.base, r.kit, k),
                   image |-> r.image, gen |-> r.gen]
             ELSE None]]

VerifyWrite(v) ==
    /\ verify[v].pc = "write"
    /\ LET p == verify[v].profile
           owns == Exists(p) /\ prof[p].kgen = verify[v].gen
       IN /\ p \notin locked
          /\ prof' = IF owns THEN [prof EXCEPT ![p] = Verified(@, verify[v])] ELSE prof
          /\ Step(v, IF owns THEN "stored" ELSE "superseded")
    /\ UNCHANGED <<shared, patch, issue, locked, cached, snap, proved>>

-----------------------------------------------------------------------------
(***************************************************************************)
(* Editing profiles and the shared configuration.                          *)
(***************************************************************************)

\* An edit clears a stored verification whose effective inputs it changes,
\* or that was already out of date.
Edited(row, own, newKit) ==
    LET next == [row EXCEPT !.own = own, !.kit = newKit]
        stale == /\ row.digest # None
                 /\ \/ row.digest # Current(row, shared.value)
                    \/ Current(next, shared.value) # Current(row, shared.value)
    IN IF stale THEN Cleared(next) ELSE next

\* PATCH /worker-profiles/{id}: holds the shared row, then the profile row.
\* A changed Kit coordinate forgets the observed version.  Disabling needs a
\* profile that is not the default and serves no open Issue; so does moving to
\* another Docker daemon.
UpdateProfile(p, own, coordinates, enabled, moves) ==
    /\ Free(p) /\ SharedFree
    /\ ~enabled => ~prof[p].isDefault
    /\ (~enabled \/ moves) => OpenOn(p) = {}
    /\ moves => own # prof[p].own
    /\ coordinates => own # prof[p].own
    /\ prof[p].kgen < MaxGen
    /\ prof' = [prof EXCEPT ![p] =
         [Edited(@, own, IF coordinates THEN None ELSE @.kit) EXCEPT !.enabled = enabled]]
    /\ UNCHANGED <<shared, patch, verify, issue, locked, cached, snap, proved>>

CreateProfile(p, own, enabled) ==
    /\ ~Exists(p) /\ SharedFree
    /\ p \notin {verify[v].profile : v \in {w \in Verifies : verify[w].pc # "idle"}}
    /\ prof' = [prof EXCEPT ![p] = NewRow(own, enabled)]
    /\ UNCHANGED <<shared, patch, verify, issue, locked, cached, snap, proved>>

\* The copy is enabled and starts a verification lifecycle of its own.
DuplicateProfile(p, q) ==
    /\ Free(p) /\ ~Exists(q) /\ SharedFree
    /\ q \notin {verify[v].profile : v \in {w \in Verifies : verify[w].pc # "idle"}}
    /\ prof' = [prof EXCEPT ![q] = NewRow(prof[p].own, TRUE)]
    /\ UNCHANGED <<shared, patch, verify, issue, locked, cached, snap, proved>>

\* The PATCH of the shared row reads every profile without locking it and
\* decides which verifications the new baseline invalidates.
SharedPatchRead(value, expected) ==
    /\ SharedFree
    /\ expected = shared.revision /\ shared.revision < MaxRevision
    /\ patch' = [value |-> value,
                 invalid |-> {p \in Profiles :
                    /\ Exists(p) /\ prof[p].digest # None
                    /\ \/ prof[p].digest # Current(prof[p], shared.value)
                       \/ Current(prof[p], value) # Current(prof[p], shared.value)}]
    /\ UNCHANGED <<prof, shared, verify, issue, locked, cached, snap, proved>>

SharedPatchWrite ==
    /\ patch # None
    /\ patch.invalid \cap locked = {}
    /\ \A p \in patch.invalid : Exists(p) => prof[p].kgen < MaxGen
    /\ shared' = [value |-> patch.value, revision |-> shared.revision + 1]
    /\ prof' = [p \in Profiles |->
                  IF p \in patch.invalid /\ Exists(p) THEN Cleared(prof[p]) ELSE prof[p]]
    /\ patch' = None
    /\ UNCHANGED <<verify, issue, locked, cached, snap, proved>>

SetDefault(p) ==
    /\ Free(p) /\ prof[p].enabled
    /\ locked = {}
    /\ prof' = [q \in Profiles |->
                  IF Exists(q) THEN [prof[q] EXCEPT !.isDefault = (q = p)] ELSE None]
    /\ UNCHANGED <<shared, patch, verify, issue, locked, cached, snap, proved>>

DisableProfile(p) ==
    /\ Free(p) /\ ~prof[p].isDefault
    /\ OpenOn(p) = {}
    /\ prof' = [prof EXCEPT ![p].enabled = FALSE]
    /\ UNCHANGED <<shared, patch, verify, issue, locked, cached, snap, proved>>

\* Closes the profile's open Issues in the same transaction.
ForceDisableProfile(p) ==
    /\ Free(p) /\ ~prof[p].isDefault
    /\ \A i \in OpenOn(p) : cached[i] = None
    /\ issue' = [i \in Issues |->
                   IF i \in OpenOn(p) THEN [issue[i] EXCEPT !.open = FALSE] ELSE issue[i]]
    /\ prof' = [prof EXCEPT ![p].enabled = FALSE]
    /\ UNCHANGED <<shared, patch, verify, locked, cached, snap, proved>>

DeleteProfile(p) ==
    /\ Free(p) /\ ~prof[p].isDefault /\ ~prof[p].enabled
    /\ OnIssues(p) = {}
    /\ prof' = [prof EXCEPT ![p] = None]
    /\ UNCHANGED <<shared, patch, verify, issue, locked, cached, snap, proved>>

-----------------------------------------------------------------------------
(***************************************************************************)
(* Issues and Task snapshots.                                              *)
(***************************************************************************)

\* create_issue locks the profile row before it looks at it, ...
IssueLock(p) ==
    /\ Free(p) /\ prof[p].enabled
    /\ locked' = locked \cup {p}
    /\ UNCHANGED <<prof, shared, patch, verify, issue, cached, snap, proved>>

\* ... and keeps the lock until the Issue is committed.
IssueInsert(p, i) ==
    /\ p \in locked /\ issue[i] = None
    /\ issue' = [issue EXCEPT ![i] = [profile |-> p, open |-> TRUE, reopened |-> FALSE]]
    /\ locked' = locked \ {p}
    /\ UNCHANGED <<prof, shared, patch, verify, cached, snap, proved>>

CloseIssue(i) ==
    /\ issue[i] # None /\ cached[i] = None
    /\ issue' = [issue EXCEPT ![i].open = FALSE]
    /\ UNCHANGED <<prof, shared, patch, verify, locked, cached, snap, proved>>

\* update_issue locks the Issue and eagerly loads its profile into the
\* session, unlocked, ...
ReopenLoad(i) ==
    /\ Reopens /\ issue[i] # None /\ cached[i] = None
    /\ cached' = [cached EXCEPT ![i] = prof[issue[i].profile].enabled]
    /\ UNCHANGED <<prof, shared, patch, verify, issue, locked, snap, proved>>

\* ... then locks the profile row; the row is already in the identity map, so
\* the attribute it tests is the one loaded before the lock.
ReopenCommit(i) ==
    /\ cached[i] # None
    /\ issue[i].profile \notin locked
    /\ issue' = IF cached[i]
                THEN [issue EXCEPT ![i].open = TRUE, ![i].reopened = TRUE]
                ELSE issue
    /\ cached' = [cached EXCEPT ![i] = None]
    /\ UNCHANGED <<prof, shared, patch, verify, locked, snap, proved>>

\* create_task_record: Issue, shared and profile rows are locked, the selected
\* Harness needs valid evidence, and the inputs are frozen.
FreezeSnapshot(t, i, key) ==
    /\ snap[t] = None
    /\ issue[i] # None /\ issue[i].open /\ cached[i] = None
    /\ SharedFree
    /\ LET p == issue[i].profile IN
         /\ Free(p) /\ prof[p].enabled
         /\ EvidenceValid(prof[p], shared.value, key)
         /\ snap' = [snap EXCEPT ![t] =
              [profile |-> p, image |-> prof[p].image,
               digest |-> Digest(prof[p].own, shared.value, prof[p].kit, key)]]
    /\ UNCHANGED <<prof, shared, patch, verify, issue, locked, cached, proved>>

Verification ==
    \E v \in Verifies :
      \/ \E p \in Profiles : VerifyLoad(v, p)
      \/ VerifyClaim(v)
      \/ ProbeInconclusive(v)
      \/ ProbeBroken(v)
      \/ \E k \in KitVersions : ProbeReady(v, k)
      \/ \E m \in Images, ok \in SUBSET Keys : RunContainers(v, m, ok)
      \/ ContainersFail(v)
      \/ VerifyRecheck(v)
      \/ VerifyWrite(v)

Administration ==
    \/ \E p \in Profiles, o \in Owns, c, e, m \in BOOLEAN : UpdateProfile(p, o, c, e, m)
    \/ \E p \in Profiles, o \in Owns, e \in BOOLEAN : CreateProfile(p, o, e)
    \/ \E p, q \in Profiles : DuplicateProfile(p, q)
    \/ \E b \in Shareds, r \in 0..MaxRevision : SharedPatchRead(b, r)
    \/ SharedPatchWrite
    \/ \E p \in Profiles :
         SetDefault(p) \/ DisableProfile(p) \/ ForceDisableProfile(p) \/ DeleteProfile(p)

IssueAndTask ==
    \/ \E p \in Profiles : IssueLock(p) \/ \E i \in Issues : IssueInsert(p, i)
    \/ \E i \in Issues : CloseIssue(i) \/ ReopenLoad(i) \/ ReopenCommit(i)
    \/ \E t \in Tasks, i \in Issues, k \in Keys : FreezeSnapshot(t, i, k)

Next == Verification \/ Administration \/ IssueAndTask

Spec == Init /\ [][Next]_vars

-----------------------------------------------------------------------------
(***************************************************************************)
(* Properties.                                                             *)
(***************************************************************************)

Generation == 0..MaxGen
DigestRecord == [own : Owns, base : Shareds, kit : KitVersions, key : Keys]

\* Every row, request and snapshot keeps its shape: a profile row with both
\* generations in range and evidence only per enabled Harness.
TypeOK ==
    /\ \A p \in Profiles : Exists(p) =>
         /\ prof[p].own \in Owns /\ prof[p].kit \in KitVersions \cup {None}
         /\ prof[p].digest \in DigestRecord \cup {None}
         /\ prof[p].vgen \in Generation /\ prof[p].kgen \in Generation
    /\ shared.value \in Shareds /\ shared.revision \in 0..MaxRevision
    /\ locked \subseteq {p \in Profiles : Exists(p)}
    /\ \A i \in Issues : issue[i] # None => Exists(issue[i].profile)

\* A Task never freezes inputs no verification container ran on: the profile,
\* image, configuration, shared baseline, Kit version and Harness of every
\* snapshot passed together in one container (snapshot_from_profile and
\* validate_v2_harness_evidence against whatever a slow verification wrote).
SnapshotsWereProved ==
    \A t \in Tasks : snap[t] # None => snap[t] \in proved

Usable(p, k) == Exists(p) /\ EvidenceValid(prof[p], shared.value, k)

Finished(v, p) ==
    /\ verify[v].pc # "idle" /\ verify[v].profile = p
    /\ verify'[v].pc \in {"stored", "cleared"} /\ verify[v].pc # verify'[v].pc

\* Usable evidence is only lost to an edit of its inputs, to a shared PATCH that
\* had already judged the profile's verification out of date, to a
\* deterministic Kit failure, to a newer completed verification or with the
\* profile: an attempt that is in flight, inconclusive, superseded or transiently failed
\* leaves it in place ("Keep the last successful identity usable while this
\* attempt is in flight", verify_worker_profile_runtime).
EvidenceSurvivesAttempts ==
    \A p \in Profiles, k \in Keys :
         Usable(p, k) /\ ~Usable(p, k)' =>
            \/ prof'[p] = None
            \/ prof'[p].own # prof[p].own
            \/ shared'.value # shared.value
            \/ patch # None /\ patch' = None /\ p \in patch.invalid
            \/ \E v \in Verifies : Finished(v, p)

\* Only the verification that claimed the newest epoch of a profile stores or
\* clears its evidence: an older one that is still running loses the
\* generation-guarded UPDATE.
NewestVerificationWins ==
    \A v, w \in Verifies, p \in Profiles :
         /\ Finished(v, p)
         /\ verify[w].pc \notin {"idle", "loaded", "superseded"} /\ verify[w].profile = p
         => verify[w].gen <= verify[v].gen

\* The same for the Issues that were never activated through PATCH /issues: the
\* lock create_issue takes before it looks at the profile is enough for them.
CreatedIssuesServed ==
    \A i \in Issues :
      issue[i] # None /\ issue[i].open /\ ~issue[i].reopened =>
        Exists(issue[i].profile) /\ prof[issue[i].profile].enabled

\* The system default is one enabled profile at every moment, so a new Issue
\* always has one to fall back to (set_default_worker_profile, the refusals of
\* the disable and delete handlers).
OneEnabledDefault ==
    /\ Cardinality({p \in Profiles : Exists(p) /\ prof[p].isDefault}) = 1
    /\ \A p \in Profiles : Exists(p) /\ prof[p].isDefault => prof[p].enabled

-----------------------------------------------------------------------------
(* What the repository says and the code does not keep (README, Deviations). *)

\* A verification that succeeds writes the digest of the configuration the
\* profile has at that moment.
WritesAreCurrent ==
    \A v \in Verifies, p \in Profiles :
         Finished(v, p) /\ verify'[v].pc = "stored" =>
            prof'[p].digest = Current(prof'[p], shared'.value)

\* Every open Issue is pinned to a profile that exists and is enabled, whatever
\* order issue creation, disabling, force-disabling, editing and deleting
\* interleave in (_resolve_issue_worker_id and
\* _ensure_profile_can_stop_serving_issues).
OpenIssuesServed ==
    \A i \in Issues :
      issue[i] # None /\ issue[i].open =>
        Exists(issue[i].profile) /\ prof[issue[i].profile].enabled
=============================================================================
