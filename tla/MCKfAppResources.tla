-------------------------- MODULE MCKfAppResources --------------------------
(***************************************************************************)
(* An instance of KfAppResources for TLC.  The first KfDef, in namespace   *)
(* n1, has an application of a deployment d and a cluster role c it shares *)
(* with the second, and one that brings a namespace n2 with a deployment e *)
(* in it.  The second lives in n2 and has the profiles CRD p and the       *)
(* cluster role.                                                           *)
(***************************************************************************)
EXTENDS KfAppResources

CONSTANTS w1, k1, k2, n1, n2, p, c, d, e

InNamespace == [r \in Resources |-> CASE r = d -> n1 [] r = e -> n2 [] OTHER -> Nowhere]
Homes       == [k \in KfDefs |-> IF k = k1 THEN n1 ELSE n2]
TwoKfDefs   == [k \in KfDefs |-> IF k = k1 THEN <<{c, d}, {n2, e}>> ELSE <<{p, c}>>]

\* InstallOrder and UninstallOrder, on the kinds of the instance.
ByKind ==
  [o \in Orders |-> [r \in Resources |->
     IF o = "install"
     THEN CASE r = n1 -> 1 [] r = n2 -> 2 [] r = p -> 3 [] r = c -> 4 [] r = d -> 5 [] OTHER -> 6
     ELSE CASE r = p -> 1 [] r = d -> 2 [] r = e -> 3 [] r = c -> 4 [] r = n1 -> 5 [] OTHER -> 6]]

OneFailure == [x \in EventKinds |-> CASE x = "applies" -> 2 [] x = "namespaces" -> 0 [] OTHER -> 1]
NoFailure  == [x \in EventKinds |-> IF x = "applies" THEN 1 ELSE 0]
=============================================================================
