----------------------------- MODULE KfCoordinator -----------------------------
(***************************************************************************)
(* A command of kfctl, or an apply or delete of the operator, seen from    *)
(* either side of the coordinator (pkg/kfapp/coordinator/coordinator.go):  *)
(* from the directory it works in, with a platform that is up or not       *)
(* (KfAppDir), and from its platform, with manifests that are applied or   *)
(* not (KfPlatforms).  One behaviour follows one of the two views.         *)
(***************************************************************************)
EXTENDS KfAppDir, KfPlatforms

VARIABLE view

coordinatorVars == <<view, dirVars, platformVars>>

CoordinatorTypeOK ==
  /\ view \in {"directory", "platform"}
  /\ DirTypeOK /\ PlatformTypeOK

CoordinatorInit ==
  /\ view \in {"directory", "platform"}
  /\ DirInit /\ PlatformInit
  \* what is not in view does not matter
  /\ view = "directory" => platform = "aws" /\ ~awsSpec.managed /\ ~awsSpec.podIam
  /\ view = "platform" => mode = "kfctl"

CoordinatorNext ==
  \/ view = "directory" /\ DirNext /\ UNCHANGED <<view, platformVars>>
  \/ view = "platform" /\ PlatformNext /\ UNCHANGED <<view, dirVars>>

CoordinatorSpec == CoordinatorInit /\ [][CoordinatorNext]_coordinatorVars
=============================================================================
