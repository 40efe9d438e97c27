----------------------------- MODULE KfPlatforms -----------------------------
(***************************************************************************)
(* The coordinator's choice among the platforms                            *)
(* (pkg/kfapp/coordinator/coordinator.go): spec.platform names one, the    *)
(* others are never touched, and any other name fails.  Minikube only      *)
(* writes the configuration and has no state here.                         *)
(***************************************************************************)
EXTENDS KfGcp, KfAws, KfArrikto

VARIABLE platform

platformVars == <<platform, gcpVars, awsVars, arrVars>>

PlatformTypeOK ==
  /\ platform \in {"gcp", "aws", "existing_arrikto"}
  /\ GcpTypeOK /\ AwsTypeOK /\ ArrTypeOK

PlatformInit ==
  /\ platform \in {"gcp", "aws", "existing_arrikto"}
  /\ GcpInit /\ AwsInit /\ ArrInit
  \* the specifications of the platforms that are not chosen do not matter
  /\ platform # "gcp" => policy.grants = {}
  /\ platform # "aws" => awsSpec = [managed |-> FALSE, podIam |-> FALSE]
  /\ platform # "existing_arrikto" => namespace = "none"

\* getPlatform.
PlatformNext ==
  \/ platform = "gcp" /\ GcpNext /\ UNCHANGED <<platform, awsVars, arrVars>>
  \/ platform = "aws" /\ AwsNext /\ UNCHANGED <<platform, gcpVars, arrVars>>
  \/ platform = "existing_arrikto" /\ ArrNext /\ UNCHANGED <<platform, gcpVars, awsVars>>

PlatformSpec == PlatformInit /\ [][PlatformNext]_platformVars
=============================================================================
