----------------------------- MODULE TaskTimeout -----------------------------
(***************************************************************************)
(* The execution limit of a task: chosen by the peak window at the claim,  *)
(* frozen in the row, and turned into a remaining time by every process    *)
(* that monitors the container.  The clock counts ticks; a second has Tps  *)
(* ticks, a minute one second, a day Day minutes, and the business time    *)
(* zone is Offset minutes ahead of UTC.                                    *)
(***************************************************************************)
EXTENDS Integers, FiniteSets

CONSTANTS Tps, Day, Offset, Limits, MinLimit, MaxLimit, Horizon, MaxRestarts

(* What the constants are. *)
TimeoutAssumption ==
    /\ Tps \in Nat \ {0} /\ Day \in Nat \ {0, 1} /\ Offset \in 0..(Day - 1)
    /\ Limits \subseteq Nat /\ MinLimit \in Nat \ {0} /\ MaxLimit \in Nat
    /\ Horizon \in Nat /\ MaxRestarts \in Nat

VARIABLES
    clock,      \* ticks since the epoch
    policy,     \* the effective settings: [start, end, peak, off]
    row,        \* the task: [status, started, limit], limit 0 is NULL
    stopAt,     \* when the current monitor gives up, or Never
    restarts,
    chosen      \* the policy and time the claim saw

vars == <<clock, policy, row, stopAt, restarts, chosen>>

Never == -1
Minutes == 0..(Day - 1)
Policies == [start : Minutes, end : Minutes, peak : Limits, off : Limits]

-----------------------------------------------------------------------------
(* The policy. *)

LocalMinute(at) == ((at \div Tps) + Offset) % Day

(* validate_timeout_window and validate_timeout_seconds *)
Valid(p) == /\ p.start # p.end
            /\ p.peak \in MinLimit..MaxLimit /\ p.off \in MinLimit..MaxLimit

(* is_peak_time: half open, wrapping past midnight. *)
IsPeak(p, at) ==
    IF p.start < p.end
    THEN p.start <= LocalMinute(at) /\ LocalMinute(at) < p.end
    ELSE LocalMinute(at) >= p.start \/ LocalMinute(at) < p.end

(* select_task_timeout *)
Select(p, at) == IF IsPeak(p, at) THEN p.peak ELSE p.off

Ceil(x, d) == -((-x) \div d)

(* remaining_timeout_seconds: rounded up to whole seconds. *)
Remaining(started, limit) == Ceil(started + limit * Tps - clock, Tps)

-----------------------------------------------------------------------------
Init ==
    /\ clock = 0
    /\ policy \in {p \in Policies : Valid(p)}
    /\ row = [status |-> "queued", started |-> Never, limit |-> 0]
    /\ stopAt = Never /\ restarts = 0
    /\ chosen = [policy |-> policy, at |-> Never]

(* An administrator changes the settings; the API rejects invalid ones. *)
PolicyChanges(p) ==
    /\ Valid(p) /\ p # policy
    /\ policy' = p
    /\ UNCHANGED <<clock, row, stopAt, restarts, chosen>>

(* The claim freezes start and limit in one commit. *)
Claim ==
    /\ row.status = "queued"
    /\ row' = [status |-> "running", started |-> clock, limit |-> Select(policy, clock)]
    /\ chosen' = [policy |-> policy, at |-> clock]
    /\ UNCHANGED <<clock, policy, stopAt, restarts>>

(* mark_task_running_and_commit keeps what the claim froze; it selects only *)
(* for a row that was never claimed.                                        *)
MarkRunning ==
    /\ row.status = "running"
    /\ row' = IF row.limit = 0 THEN [row EXCEPT !.limit = Select(policy, row.started)] ELSE row
    /\ UNCHANGED <<clock, policy, stopAt, restarts, chosen>>

(* monitor_container_run waits for the remaining seconds, none if negative. *)
Monitor ==
    /\ row.status = "running" /\ stopAt = Never
    /\ LET left == Remaining(row.started, row.limit)
       IN  stopAt' = clock + Tps * (IF left < 0 THEN 0 ELSE left)
    /\ UNCHANGED <<clock, policy, row, restarts, chosen>>

(* The scheduler restarts; a resume monitors the container again. *)
Restart ==
    /\ row.status = "running" /\ restarts < MaxRestarts
    /\ restarts' = restarts + 1 /\ stopAt' = Never
    /\ UNCHANGED <<clock, policy, row, chosen>>

TimeOut ==
    /\ row.status = "running" /\ stopAt # Never /\ clock >= stopAt
    /\ row' = [row EXCEPT !.status = "timed_out"] /\ stopAt' = Never
    /\ UNCHANGED <<clock, policy, restarts, chosen>>

(* Time passes; a monitor that waits stops as soon as its time is over. *)
Tick ==
    /\ clock < Horizon
    /\ stopAt # Never => clock < stopAt
    /\ clock' = clock + 1
    /\ UNCHANGED <<policy, row, stopAt, restarts, chosen>>

Next == Claim \/ MarkRunning \/ Monitor \/ Restart \/ TimeOut \/ Tick
        \/ \E p \in Policies : PolicyChanges(p)

Spec == Init /\ [][Next]_vars

-----------------------------------------------------------------------------
(* Properties. *)

(* Types; a claimed task has a start and a limit within the accepted range *)
(* (Task.started_at, execution_timeout_seconds).                               *)
TypeOK ==
    /\ clock \in 0..Horizon /\ policy \in Policies
    /\ row.status = "queued" <=> row.started = Never
    /\ row.status # "queued" => row.limit \in MinLimit..MaxLimit
    /\ stopAt # Never => stopAt >= row.started

(* task_timeout.py is_peak_time: the peak window is the set of minutes met   *)
(* when walking around the day from its start up to, not including, its end. *)
PeakIsTheWalk ==
    LET walk == {(policy.start + k) % Day : k \in 0..(((policy.end - policy.start) % Day) - 1)}
    IN  IsPeak(policy, clock) <=> LocalMinute(clock) \in walk

(* The limit is the one of the settings in force at the claim: a later       *)
(* change of settings, a second marking, or a restart does not move it.      *)
LimitIsFrozen ==
    row.status # "queued" =>
        /\ row.started = chosen.at
        /\ row.limit = Select(chosen.policy, chosen.at)

(* However often the scheduler restarts, a monitor stops the task no earlier *)
(* than its deadline and less than a second after it, or at once when the    *)
(* deadline passed while nobody monitored.                                   *)
DeadlineKept ==
    stopAt # Never =>
        LET deadline == row.started + row.limit * Tps
        IN  \/ stopAt >= deadline /\ stopAt < deadline + Tps
            \/ stopAt <= clock /\ deadline <= clock
=============================================================================
