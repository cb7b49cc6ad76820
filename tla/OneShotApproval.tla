--------------------------- MODULE OneShotApproval ---------------------------
(***************************************************************************)
(* What the approval gate of the RedfishNodeProfile operator promises: a   *)
(* plan is published, then granted by the user, and a grant is used for at *)
(* most one apply attempt (k8s/README.md, the CRD's approvedPlanHash).     *)
(***************************************************************************)
EXTENDS Naturals

CONSTANTS
    Approvals,  \* serial numbers of the user's edits
    Plans,      \* plan hashes
    NoPlan      \* no hash

VARIABLES
    published,  \* plans the status has shown
    grants,     \* the plan each approval grants
    uses        \* apply attempts made on each approval

Init ==
    /\ published = {}
    /\ grants = [a \in Approvals |-> NoPlan]
    /\ uses = [a \in Approvals |-> 0]

Publish(p) ==
    /\ published' = published \cup {p}
    /\ UNCHANGED <<grants, uses>>

Grant(a) ==
    /\ grants[a] = NoPlan
    /\ \E p \in published \ {NoPlan} : grants' = [grants EXCEPT ![a] = p]
    /\ UNCHANGED <<published, uses>>

Use(a) ==
    /\ grants[a] # NoPlan
    /\ uses[a] = 0
    /\ uses' = [uses EXCEPT ![a] = 1]
    /\ UNCHANGED <<published, grants>>

Next ==
    \/ \E p \in Plans : Publish(p)
    \/ \E a \in Approvals : Grant(a) \/ Use(a)

Spec == Init /\ [][Next]_<<published, grants, uses>>

=============================================================================
