---------------------------- MODULE SkillPackages ---------------------------
(***************************************************************************)
(* Skills, their immutable package versions, the default selections of     *)
(* Worker Profiles and the version references that tasks freeze            *)
(* (core/skills.py, api/skills.py, the skill parts of api/worker_profiles  *)
(* and of task creation and update).                                       *)
(*                                                                         *)
(* An administrator's edit locks and validates in one step and writes in   *)
(* another; a selection for a task loads the profile in one step, locks    *)
(* the Skill rows in the next and inserts in the last.  A row that the     *)
(* session has loaded before is not refreshed by the locking SELECT, so a  *)
(* selection sees its profile's default skills as they were at the load.   *)
(***************************************************************************)
EXTENDS Integers, FiniteSets, FiniteSetsExt

CONSTANTS
    Skills,       \* Skill ids
    Names,        \* package names
    Sizes,        \* package sizes that build_skill_version accepts
    Limit,        \* MAX_TASK_SKILL_PACKAGE_BYTES
    Profiles,     \* Worker Profiles
    Editors,      \* concurrent administrator requests
    Selectors,    \* concurrent task requests
    MaxTasks,     \* tasks ever created
    MaxVersions   \* package versions ever built

(* What the constants are. *)
SkillAssumption ==
    /\ Sizes \subseteq Nat /\ Limit \in Nat /\ \A n \in Sizes : n <= Limit
    /\ MaxTasks \in Nat /\ MaxVersions \in Nat

VARIABLES
    skill,    \* Skill rows
    version,  \* SkillVersion rows by id
    built,    \* ids handed out
    sel,      \* worker_profile_skills
    task,     \* tasks with their TaskSkillVersionReference rows
    adv,      \* holder of the advisory package lock
    rowLock,  \* holders of Skill rows
    plock,    \* holders of Worker Profile rows
    ed,       \* administrator requests
    sl        \* task requests

vars == <<skill, version, built, sel, task, adv, rowLock, plock, ed, sl>>
locks == <<adv, rowLock, plock>>

Tasks == 1 .. MaxTasks
Ids == 1 .. MaxVersions
NoSkill == "none"
NoVersion == [there |-> FALSE, name |-> CHOOSE n \in Names : TRUE, size |-> 0]
Row == [there : BOOLEAN, name : Names, cur : 0 .. MaxVersions, enabled : BOOLEAN]
EdIdle == [op |-> "idle", on |-> NoSkill, row |-> {}, size |-> 0, seen |-> {}]
SlIdle == [op |-> "idle", pc |-> "idle", t |-> 0, p |-> NoSkill, seen |-> {}, refs |-> {}]

Init ==
    /\ skill = [s \in Skills |-> [there |-> FALSE, name |-> CHOOSE n \in Names : TRUE, cur |-> 0, enabled |-> FALSE]]
    /\ version = [v \in Ids |-> NoVersion]
    /\ built = 0
    /\ sel = [p \in Profiles |-> {}]
    /\ task = [t \in Tasks |-> [there |-> FALSE, refs |-> {}, copied |-> FALSE]]
    /\ adv = "none"
    /\ rowLock = [s \in Skills |-> "none"]
    /\ plock = [p \in Profiles |-> "none"]
    /\ ed = [e \in Editors |-> EdIdle]
    /\ sl = [c \in Selectors |-> SlIdle]

Total(vs) == MapThenSumSet(LAMBDA v : version[v].size, vs)

(* The rows a session holds for the given skills.                          *)
Loaded(ids) == {[skill |-> s, row |-> skill[s]] : s \in ids}
LoadedIds(seen) == {x.skill : x \in seen}

(* A locking SELECT: the row of the identity map if there is one.          *)
RowOf(seen, s) == IF s \in LoadedIds(seen) THEN (CHOOSE x \in seen : x.skill = s).row ELSE skill[s]

(* delete_unreferenced_skill_versions, on the rows of the transaction.     *)
Reclaimed(skills, tasks, versions) ==
    LET current == {skills[s].cur : s \in {x \in Skills : skills[x].there}}
        referenced == UNION {{r.version : r \in tasks[t].refs} : t \in Tasks}
    IN [v \in Ids |-> IF v \in current \cup referenced THEN versions[v] ELSE NoVersion]

NameFree(s, n) == \A x \in Skills \ {s} : skill[x].there => skill[x].name # n

(***************************************************************************)
(* Administrators.                                                         *)
(***************************************************************************)
CreateSkill(s, n, size, on) ==
    /\ ~skill[s].there /\ skill[s].cur = 0 /\ built < MaxVersions
    /\ NameFree(s, n)
    /\ built' = built + 1
    /\ version' = [version EXCEPT ![built + 1] = [there |-> TRUE, name |-> n, size |-> size]]
    /\ skill' = [skill EXCEPT ![s] = [there |-> TRUE, name |-> n, cur |-> built + 1, enabled |-> on]]
    /\ UNCHANGED <<sel, task, locks, ed, sl>>

(* acquire_worker_profile_skill_package_lock                               *)
PackageLockFree(e) == adv = "none"

(* validate_worker_profile_skill_package_limits                            *)
ProfilesAllow(s, size) ==
    \A p \in Profiles : s \in sel[p] =>
        Total({skill[x].cur : x \in {y \in sel[p] \ {s} : skill[y].enabled}}) + size <= Limit

(* update_skill and enable_skill up to the flush.  Size 0 keeps the        *)
(* version (enable, or an update with the same digest).                    *)
BeginEdit(e, s, n, size, on) ==
    LET bytes == IF size = 0 THEN version[skill[s].cur].size ELSE size
    IN /\ ed[e].op = "idle" /\ PackageLockFree(e)
       /\ skill[s].there /\ rowLock[s] = "none"
       /\ size = 0 => n = skill[s].name
       /\ size # 0 => built < MaxVersions
       /\ on /\ (size # 0 \/ ~skill[s].enabled) => ProfilesAllow(s, bytes)
       /\ ed' = [ed EXCEPT ![e] = [op |-> "skill", on |-> s, size |-> size, seen |-> {},
                                   row |-> {[skill[s] EXCEPT !.name = n, !.enabled = on]}]]
       /\ adv' = e
       /\ rowLock' = [rowLock EXCEPT ![s] = e]
       /\ UNCHANGED <<skill, version, built, sel, task, plock, sl>>

(* An update that leaves the name column of the Skill alone.               *)
EditedKeepsName(s, row, v) == [row EXCEPT !.cur = v, !.name = skill[s].name]

Edited(s, row, v) == [row EXCEPT !.cur = v]

Unlock(e) ==
    /\ ed' = [ed EXCEPT ![e] = EdIdle]
    /\ adv' = IF adv = e THEN "none" ELSE adv
    /\ rowLock' = [s \in Skills |-> IF rowLock[s] = e THEN "none" ELSE rowLock[s]]
    /\ plock' = [p \in Profiles |-> IF plock[p] = e THEN "none" ELSE plock[p]]

(* The unique name decides at the flush; then the unreferenced versions go.*)
CommitEdit(e) ==
    LET s == ed[e].on
        row == CHOOSE r \in ed[e].row : TRUE
        v == IF ed[e].size = 0 THEN row.cur ELSE built + 1
        skills == [skill EXCEPT ![s] = Edited(s, row, v)]
        versions == IF ed[e].size = 0 THEN version
                    ELSE [version EXCEPT ![v] = [there |-> TRUE, name |-> row.name, size |-> ed[e].size]]
    IN /\ ed[e].op = "skill"
       /\ ed[e].size = 0 \/ built < MaxVersions
       /\ IF NameFree(s, row.name)
          THEN /\ skill' = skills
               /\ version' = Reclaimed(skills, task, versions)
               /\ built' = IF ed[e].size = 0 THEN built ELSE v
          ELSE UNCHANGED <<skill, version, built>>
       /\ Unlock(e)
       /\ UNCHANGED <<sel, task, sl>>

(* disable_skill and delete_skill take the row only.                       *)
DisableSkill(s) ==
    /\ skill[s].there /\ rowLock[s] = "none"
    /\ skill' = [skill EXCEPT ![s].enabled = FALSE]
    /\ UNCHANGED <<version, built, sel, task, locks, ed, sl>>

DeleteSkill(s) ==
    LET skills == [skill EXCEPT ![s].there = FALSE, ![s].enabled = FALSE]
        tasks == [t \in Tasks |-> [task[t] EXCEPT
                     !.refs = {IF r.skill = s THEN [r EXCEPT !.skill = NoSkill] ELSE r : r \in @}]]
    IN /\ skill[s].there /\ rowLock[s] = "none"
       /\ skill' = skills
       /\ task' = tasks
       /\ sel' = [p \in Profiles |-> sel[p] \ {s}]
       /\ version' = Reclaimed(skills, tasks, version)
       /\ UNCHANGED <<built, locks, ed, sl>>

(* Create, update or duplicate a profile: package lock, profile row, its   *)
(* (or its source's) default skills.                                       *)
BeginProfile(e, p, source) ==
    /\ ed[e].op = "idle" /\ PackageLockFree(e)
    /\ plock[p] = "none" /\ plock[source] = "none"
    /\ source # p => sel[p] = {}
    /\ ed' = [ed EXCEPT ![e] = [op |-> IF source = p THEN "profile" ELSE "copy", on |-> p,
                                row |-> {}, size |-> 0, seen |-> Loaded(sel[source])]]
    /\ adv' = e
    /\ plock' = [plock EXCEPT ![p] = e, ![source] = e]
    /\ UNCHANGED <<skill, version, built, sel, task, rowLock, sl>>

(* load_worker_profile_skills: only skills the profile has may be disabled.*)
ProfileSkills(seen, ids) ==
    /\ \A s \in ids : skill[s].there
    /\ \A s \in ids : RowOf(seen, s).enabled \/ s \in LoadedIds(seen)
    /\ Total({RowOf(seen, s).cur : s \in {x \in ids : RowOf(seen, x).enabled}}) <= Limit

CommitProfile(e, ids) ==
    /\ ed[e].op \in {"profile", "copy"}
    /\ ed[e].op = "copy" => ids = LoadedIds(ed[e].seen)
    /\ \A s \in ids : rowLock[s] = "none"
    /\ sel' = IF ProfileSkills(ed[e].seen, ids) THEN [sel EXCEPT ![ed[e].on] = ids] ELSE sel
    /\ Unlock(e)
    /\ UNCHANGED <<skill, version, built, task, sl>>

(***************************************************************************)
(* Tasks.                                                                  *)
(***************************************************************************)

(* The load of the task's profile with its default skills.                 *)
BeginSelection(c, op, t, p) ==
    /\ sl[c].op = "idle"
    /\ \A d \in Selectors : sl[d].t # t
    /\ sl' = [sl EXCEPT ![c] = [op |-> op, pc |-> "load", t |-> t, p |-> p, seen |-> Loaded(sel[p]), refs |-> {}]]
    /\ UNCHANGED <<skill, version, built, sel, task, adv, rowLock, ed>>

(* A creation holds the row of its Issue's profile.                        *)
BeginCreate(c, t, p) ==
    /\ ~task[t].there /\ \A u \in Tasks : u < t => task[u].there
    /\ plock[p] = "none"
    /\ plock' = [plock EXCEPT ![p] = c]
    /\ BeginSelection(c, "create", t, p)

(* A PATCH of skill_ids loads the task's profile without locking it; the   *)
(* other fields a PATCH writes are no part of this module.                 *)
BeginPatch(c, t, p) ==
    /\ task[t].there
    /\ BeginSelection(c, "patch", t, p)
    /\ UNCHANGED plock

(* A PATCH that moves the task to another worker selects from its defaults.*)
BeginSwitch(c, t, p) ==
    /\ task[t].there
    /\ BeginSelection(c, "switch", t, p)
    /\ UNCHANGED plock

End(c) ==
    /\ sl' = [sl EXCEPT ![c] = SlIdle]
    /\ rowLock' = [s \in Skills |-> IF rowLock[s] = c THEN "none" ELSE rowLock[s]]
    /\ plock' = [p \in Profiles |-> IF plock[p] = c THEN "none" ELSE plock[p]]

(* load_enabled_skill_snapshots and normalize_skill_snapshots.             *)
Selectable(seen, ids) ==
    LET rows == {RowOf(seen, s) : s \in ids}
    IN /\ \A s \in ids : skill[s].there
       /\ \A r \in rows : r.enabled /\ version[r.cur].there
       /\ Total({r.cur : r \in rows}) <= Limit
       /\ \A a, b \in ids : a # b => RowOf(seen, a).name # RowOf(seen, b).name

(* resolve_task_skill_snapshots: the task's own ids, or the defaults that  *)
(* were enabled at the load.                                               *)
Select(c, ids) ==
    LET seen == sl[c].seen
        ref(s) == [skill |-> s, name |-> RowOf(seen, s).name, version |-> RowOf(seen, s).cur]
    IN /\ sl[c].pc = "load"
       /\ \A s \in ids : rowLock[s] = "none"
       /\ IF Selectable(seen, ids)
          THEN /\ sl' = [sl EXCEPT ![c].pc = "insert", ![c].refs = {ref(s) : s \in ids}]
               /\ rowLock' = [s \in Skills |-> IF s \in ids THEN c ELSE rowLock[s]]
               /\ UNCHANGED plock
          ELSE End(c)
       /\ UNCHANGED <<skill, version, built, sel, task, adv, ed>>

(* Only a PATCH of skill_ids reclaims what it no longer refers to.         *)
Reclaims(op) == op = "patch"

(* The references are inserted if their versions exist (foreign key).      *)
InsertReferences(c) ==
    LET t == sl[c].t
        tasks == [task EXCEPT ![t] = [there |-> TRUE, refs |-> sl[c].refs, copied |-> FALSE]]
    IN /\ sl[c].pc = "insert"
       /\ IF \A r \in sl[c].refs : version[r.version].there
          THEN /\ task' = tasks
               /\ version' = IF Reclaims(sl[c].op) THEN Reclaimed(skill, tasks, version) ELSE version
          ELSE UNCHANGED <<task, version>>
       /\ End(c)
       /\ UNCHANGED <<skill, built, sel, adv, ed>>

(* A retry copies the references of its original.                          *)
Retry(t, u) ==
    /\ task[t].there /\ ~task[u].there /\ \A w \in Tasks : w < u => task[w].there
    /\ \A d \in Selectors : sl[d].t # u
    /\ task' = [task EXCEPT ![u] = [task[t] EXCEPT !.copied = TRUE]]
    /\ UNCHANGED <<skill, version, built, sel, locks, ed, sl>>

(* The deletion of an Issue removes its tasks and reclaims.                *)
RemoveTask(t) ==
    LET tasks == [task EXCEPT ![t].refs = {}]
    IN /\ task[t].there /\ task[t].refs # {} /\ \A d \in Selectors : sl[d].t # t
       /\ task' = tasks
       /\ version' = Reclaimed(skill, tasks, version)
       /\ UNCHANGED <<skill, built, sel, locks, ed, sl>>

Next ==
    \/ \E s \in Skills, n \in Names, z \in Sizes, on \in BOOLEAN : CreateSkill(s, n, z, on)
    \/ \E e \in Editors, s \in Skills, n \in Names, z \in Sizes \cup {0}, on \in BOOLEAN : BeginEdit(e, s, n, z, on)
    \/ \E s \in Skills : DisableSkill(s) \/ DeleteSkill(s)
    \/ \E e \in Editors : CommitEdit(e) \/ \E ids \in SUBSET Skills : CommitProfile(e, ids)
    \/ \E e \in Editors, p, q \in Profiles : BeginProfile(e, p, q)
    \/ \E c \in Selectors, t \in Tasks, p \in Profiles :
         BeginCreate(c, t, p) \/ BeginPatch(c, t, p) \/ BeginSwitch(c, t, p)
    \/ \E c \in Selectors : InsertReferences(c) \/ \E ids \in SUBSET Skills : Select(c, ids)
    \/ \E t, u \in Tasks : Retry(t, u)
    \/ \E t \in Tasks : RemoveTask(t)

Spec == Init /\ [][Next]_vars

-----------------------------------------------------------------------------
(* Types; the current version of a Skill exists (current_version_id with   *)
(* RESTRICT), so reclaiming never meets the foreign key.                   *)
TypeOK ==
    /\ skill \in [Skills -> Row]
    /\ \A s \in Skills : skill[s].there => version[skill[s].cur].there
    /\ \A p \in Profiles : sel[p] \subseteq {s \in Skills : skill[s].there}
    /\ adv \in Editors \cup {"none"}

(* The enabled default skills of a profile fit into one task, whichever    *)
(* edits of skills and profiles overlap (validate_worker_profile_skill_    *)
(* package_limits under the advisory lock).                                *)
ProfileWithinLimit ==
    \A p \in Profiles : Total({skill[s].cur : s \in {x \in sel[p] : skill[x].enabled}}) <= Limit

(* hydrate_skill_snapshots succeeds for every task, whatever was edited,   *)
(* renamed, disabled, deleted or reclaimed since it was created: its       *)
(* versions exist under the frozen names, the names differ and the         *)
(* packages fit ("later edits, disabling, or deletion do not change an     *)
(* already-created task").                                                 *)
FrozenReadable ==
    \A t \in Tasks :
        /\ \A r \in task[t].refs : version[r.version].there /\ version[r.version].name = r.name
        /\ \A a, b \in task[t].refs : a # b => a.name # b.name
        /\ Total({r.version : r \in task[t].refs}) <= Limit

-----------------------------------------------------------------------------
(* What the repository says and the code does not keep (README, Deviations). *)

(* A task is not created with a Skill that is disabled (the locking SELECT *)
(* of load_enabled_skill_snapshots is to reject it).                       *)
CreatedWithEnabled ==
    \A t \in Tasks : ~task[t].there /\ task'[t].there /\ ~task'[t].copied =>
          \A r \in task'[t].refs : skill[r.skill].enabled
=============================================================================
