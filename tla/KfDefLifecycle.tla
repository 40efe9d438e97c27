--------------------------- MODULE KfDefLifecycle ---------------------------
(***************************************************************************)
(* What the operator promises about one name of a KfDef, as operator.md    *)
(* tells it to a user: an object is guarded by the operator's finalizer    *)
(* before anything is deployed for it, and the finalizer is dropped only   *)
(* once the object is being deleted and nothing it deployed is left.       *)
(***************************************************************************)
CONSTANTS KfDefs

VARIABLES
  phase,     \* of the KfDef object
  footprint  \* whether anything the KfDef deployed is in the cluster

vars == <<phase, footprint>>

Phases == {"absent", "bare", "guarded", "deleting", "released"}

TypeOK ==
  /\ phase \in [KfDefs -> Phases]
  /\ footprint \in [KfDefs -> BOOLEAN]

Init ==
  /\ phase = [k \in KfDefs |-> "absent"]
  /\ footprint = [k \in KfDefs |-> FALSE]

Move(k, from, to) ==
  /\ phase[k] \in from
  /\ phase' = [phase EXCEPT ![k] = to]
  /\ UNCHANGED footprint

Create(k) == Move(k, {"absent"}, "bare")
Guard(k)  == Move(k, {"bare"}, "guarded")

\* A user deletes the object.  Unguarded, it goes at once or is kept for the
\* finalizers of others.
Delete(k) ==
  \/ Move(k, {"guarded"}, "deleting")
  \/ Move(k, {"bare"}, "absent")
  \/ Move(k, {"bare"}, "released")

\* The operator deploys while it guards the object, and cleans up.
Deploy(k) ==
  /\ phase[k] \in {"guarded", "deleting"}
  /\ footprint' = [footprint EXCEPT ![k] = TRUE]
  /\ UNCHANGED phase
Remove(k) == footprint' = [footprint EXCEPT ![k] = FALSE] /\ UNCHANGED phase

\* The finalizer is dropped, and the object goes when no other is left on it.
Release(k) ==
  /\ ~footprint[k]
  /\ Move(k, {"deleting"}, "absent") \/ Move(k, {"deleting"}, "released")
Collect(k) == Move(k, {"released"}, "absent")

Next == \E k \in KfDefs :
  \/ Create(k) \/ Guard(k) \/ Delete(k) \/ Deploy(k) \/ Remove(k)
  \/ Release(k) \/ Collect(k)

Spec == Init /\ [][Next]_vars

\* What is deployed has a guardian that will remove it.
Guarded == \A k \in KfDefs : footprint[k] => phase[k] \in {"guarded", "deleting"}
=============================================================================
