------------------------------- MODULE TurnOrder -------------------------------
(***************************************************************************)
(* What the task-execution core promises its users, without scheduler,     *)
(* threads, containers' inner states or database: the turns of an issue    *)
(* are worked on one after the other in the order they were submitted, a   *)
(* turn that is worked on holds its issue, and it gives the issue back     *)
(* only once it is over and its workspace is left.                         *)
(***************************************************************************)
EXTENDS Naturals

CONSTANTS Tasks, Issues, IssueOf

VARIABLES
    turn,      \* "none", "waiting", "working" or "over"
    holder,    \* the turn that holds each issue
    occupied   \* the turns that have a container in their issue's workspace

turnVars == <<turn, holder, occupied>>

Nobody == 0
Before(t) == {u \in Tasks : IssueOf[u] = IssueOf[t] /\ u < t}

TurnInit ==
    /\ turn = [t \in Tasks |-> "none"]
    /\ holder = [i \in Issues |-> Nobody]
    /\ occupied = {}

Submit(t) ==
    /\ turn[t] = "none"
    /\ turn' = [turn EXCEPT ![t] = "waiting"]
    /\ UNCHANGED <<holder, occupied>>

(* A turn begins when all turns before it are over and its issue is free. *)
Begin(t) ==
    /\ turn[t] = "waiting"
    /\ \A u \in Before(t) : turn[u] = "over"
    /\ holder[IssueOf[t]] = Nobody
    /\ turn' = [turn EXCEPT ![t] = "working"]
    /\ holder' = [holder EXCEPT ![IssueOf[t]] = t]
    /\ UNCHANGED occupied

Occupy(t) ==
    /\ turn[t] = "working"
    /\ holder[IssueOf[t]] = t
    /\ occupied' = occupied \cup {t}
    /\ UNCHANGED <<turn, holder>>

Vacate(t) ==
    /\ t \in occupied
    /\ occupied' = occupied \ {t}
    /\ UNCHANGED <<turn, holder>>

(* Turns end, also turns that never began, and issues are given back: only   *)
(* by a turn that is over and that has left the workspace.                   *)
Settle ==
    /\ \E ended \in SUBSET {t \in Tasks : turn[t] \in {"waiting", "working"}} :
          turn' = [t \in Tasks |-> IF t \in ended THEN "over" ELSE turn[t]]
    /\ \E freed \in SUBSET {i \in Issues : holder[i] # Nobody} :
          /\ \A i \in freed : turn'[holder[i]] = "over" /\ holder[i] \notin occupied
          /\ holder' = [i \in Issues |-> IF i \in freed THEN Nobody ELSE holder[i]]
    /\ UNCHANGED occupied

TurnNext ==
    \/ Settle
    \/ \E t \in Tasks : Submit(t) \/ Begin(t) \/ Occupy(t) \/ Vacate(t)

TurnSpec == TurnInit /\ [][TurnNext]_turnVars

=============================================================================
