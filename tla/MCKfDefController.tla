------------------------- MODULE MCKfDefController -------------------------
(***************************************************************************)
(* Instances of KfDefController for TLC.  Every run bounds how often an    *)
(* object of each name is created (MaxIncarnations) and how often each     *)
(* other event of the environment happens (Limit), and which of them one   *)
(* behaviour may meet (Scenarios); the definitions below are these bounds, *)
(* named for the run that uses them.                                       *)
(***************************************************************************)
EXTENDS KfDefRefinement

CONSTANTS k1, k2, n1, n2

\* One KfDef per namespace.
OwnNamespace == [k \in KfDefs |-> IF k = k1 THEN n1 ELSE n2]

Nothing  == [e \in EventKinds |-> 0]
Once(E)  == [e \in EventKinds |-> IF e \in E THEN 1 ELSE 0]

SafetyLimit    == Once({"edits", "touches", "crashes"})
LifecycleLimit == Once({"foregrounds", "resyncs", "crashes"})
UninstallLimit == Once({"configmaps"})
FaultLimit     == Once({"faults"})
LossLimit      == Once({"losses"})

\* The scenarios of a run that answers one question: anything with anything.
Anything == {EventKinds \cup KfDefs}

\* Both KfDefs and no event, or one KfDef through these events.
LifecycleScenarios == {KfDefs, {k1} \cup {"foregrounds", "resyncs", "crashes"}}

\* Liveness is about one disturbance, or two that meet in the code, at a time.
LiveScenarios ==
  {KfDefs \cup E : E \in {{"faults", "crashes"}, {"losses"}, {"configmaps", "resyncs"},
                        {"configmaps", "faults"}}}
LiveLimit == Once({"faults", "crashes", "losses", "configmaps", "resyncs"})
=============================================================================
