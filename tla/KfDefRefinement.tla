-------------------------- MODULE KfDefRefinement --------------------------
(* KfDefController, seen through the states of KfDefLifecycle. *)
EXTENDS KfDefController

PhaseOf(o) ==
  CASE ~Exists(o)                               -> "absent"
    [] Live(o) /\ ~HasFinalizer(o)              -> "bare"
    [] Live(o) /\ HasFinalizer(o)               -> "guarded"
    [] Exists(o) /\ o.del /\ HasFinalizer(o)    -> "deleting"
    [] Exists(o) /\ o.del /\ ~HasFinalizer(o)   -> "released"

Lifecycle == INSTANCE KfDefLifecycle WITH
  phase     <- [k \in KfDefs |-> PhaseOf(cr[k])],
  footprint <- [k \in KfDefs |-> \E r \in Resources : deployed[k][r] # 0]

\* The controller implements the promise of KfDefLifecycle.
ImplementsLifecycle == Lifecycle!Spec
=============================================================================
