----------------------------- MODULE Deployment -----------------------------
(***************************************************************************)
(* What a certificate lineage promises to the servers that use its live    *)
(* links: at every moment there is one version in use, with a file of each *)
(* kind, and it is only replaced by the newest version that has them all.  *)
(***************************************************************************)
EXTENDS Naturals

CONSTANT Keep       \* how many versions before the one in use are kept

VARIABLES
    deployed,       \* the version in use, 0 when there is no lineage
    issued          \* the versions with a file of each kind

vars == <<deployed, issued>>

Init == deployed = 0 /\ issued = {}

Create ==
    /\ deployed = 0
    /\ deployed' = 1 /\ issued' = {1}

(* A new certificate gets a number above all others.                       *)
Issue ==
    /\ deployed # 0
    /\ \E n \in issued' : /\ \A m \in issued : m < n
                          /\ issued' = issued \cup {n}
    /\ UNCHANGED deployed

(* The newest version goes into use, with all its files at once.           *)
Deploy ==
    /\ deployed' \in issued /\ deployed < deployed'
    /\ \A m \in issued : m <= deployed'
    /\ deployed # 0
    /\ UNCHANGED issued

(* An old version is removed, never one of the last Keep.                  *)
Forget ==
    /\ \E n \in issued : n + Keep < deployed /\ issued' = issued \ {n}
    /\ UNCHANGED deployed

Delete == deployed' = 0 /\ issued' = {}

Next == Create \/ Issue \/ Deploy \/ Forget \/ Delete

Spec == Init /\ [][Next]_vars
=============================================================================
