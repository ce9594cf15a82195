---------------------------- MODULE AddonLifecycle ----------------------------
(***************************************************************************)
(* What the addon controller promises about the lifecycle of the kapp     *)
(* resources it derives from addon secrets (spec 3, Lifecycle), without   *)
(* names, clusters, strategies, snapshots or API errors.  An addon secret  *)
(* is live, deleting (deleted, held by the finalizer) or none.  A secret   *)
(* that exists may have its kapp resource deployed at any time; a deleting *)
(* secret is released in one step with its kapp resource removed, and     *)
(* every deleting secret is eventually released.                          *)
(***************************************************************************)
CONSTANT Requests

VARIABLES
    phase,     \* [Requests -> {"live", "deleting", "none"}]
    deployed   \* the secrets whose App or PackageInstall exists

vars == <<phase, deployed>>

TypeOK ==
    /\ phase \in [Requests -> {"live", "deleting", "none"}]
    /\ deployed \subseteq Requests

Init == phase = [r \in Requests |-> "live"] /\ deployed = {}

Create(r) ==
    /\ phase[r] = "none"
    /\ phase' = [phase EXCEPT ![r] = "live"]
    /\ UNCHANGED deployed

Delete(r) ==
    /\ phase[r] = "live"
    /\ phase' = [phase EXCEPT ![r] = "deleting"]
    /\ UNCHANGED deployed

\* A reconcile that began before the delete may still write the resource.
Deploy(r) ==
    /\ phase[r] # "none"
    /\ deployed' = deployed \cup {r}
    /\ UNCHANGED phase

Release(r) ==
    /\ phase[r] = "deleting"
    /\ phase' = [phase EXCEPT ![r] = "none"]
    /\ deployed' = deployed \ {r}

Next == \E r \in Requests : Create(r) \/ Delete(r) \/ Deploy(r) \/ Release(r)

SafetySpec == Init /\ [][Next]_vars

Spec == SafetySpec /\ \A r \in Requests : WF_vars(Release(r))
=============================================================================
