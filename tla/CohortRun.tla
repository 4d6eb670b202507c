------------------------------ MODULE CohortRun ------------------------------
(***************************************************************************)
(* What a distributed run promises, without frames, phases or processes:   *)
(* the members of a cohort prepare, one gate opens for all of them or for  *)
(* none, and the outcome is a report only if every member completed.       *)
(* DistributedRun implements it (CohortRefinement).                        *)
(***************************************************************************)
CONSTANTS
    Agent,          \* the cohort
    Readiness,      \* what a member can announce
    Agree(_, _),    \* two announcements that may run together
    NoReadiness

VARIABLES
    gate,       \* the start gate is open
    member,     \* what each member does
    announced,  \* what each member announced
    outcome

vars == <<gate, member, announced, outcome>>

Init ==
    /\ gate = FALSE
    /\ member = [a \in Agent |-> "preparing"]
    /\ announced = [a \in Agent |-> NoReadiness]
    /\ outcome = "pending"

Announce(a) ==
    /\ member[a] = "preparing" /\ announced[a] = NoReadiness
    /\ \E r \in Readiness : announced' = [announced EXCEPT ![a] = r]
    /\ UNCHANGED <<gate, member, outcome>>

\* All members announced, and every two announcements agree.
CohortAgrees == \A a, b \in Agent : /\ announced[a] # NoReadiness
                                    /\ announced[b] # NoReadiness
                                    /\ Agree(announced[a], announced[b])

\* The gate opens; the job may fail in the same step, when a member is gone.
Open ==
    /\ ~gate /\ outcome = "pending" /\ CohortAgrees
    /\ gate' = TRUE
    /\ outcome' \in {"pending", "error"}
    /\ UNCHANGED <<member, announced>>

Begin(a) ==
    /\ gate /\ member[a] = "preparing"
    /\ member' = [member EXCEPT ![a] = "load"]
    /\ UNCHANGED <<gate, announced, outcome>>

Complete(a) ==
    /\ member[a] = "load"
    /\ member' = [member EXCEPT ![a] = "complete"]
    /\ UNCHANGED <<gate, announced, outcome>>

\* A member can stop at any time before it completes.
Stop(a) ==
    /\ member[a] \in {"preparing", "load"}
    /\ member' = [member EXCEPT ![a] = "stopped"]
    /\ UNCHANGED <<gate, announced, outcome>>

Report ==
    /\ outcome = "pending"
    /\ \A a \in Agent : member[a] = "complete"
    /\ outcome' = "report"
    /\ UNCHANGED <<gate, member, announced>>

Fail ==
    /\ outcome = "pending"
    /\ outcome' = "error"
    /\ UNCHANGED <<gate, member, announced>>

Next == Open \/ Report \/ Fail \/ \E a \in Agent : Announce(a) \/ Begin(a) \/ Complete(a) \/ Stop(a)

Spec == Init /\ [][Next]_vars
=============================================================================
