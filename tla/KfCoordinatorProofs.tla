------------------------- MODULE KfCoordinatorProofs -------------------------
(***************************************************************************)
(* KfCoordinator puts the directory and the platforms side by side.  What  *)
(* is proved of each by itself holds of the whole, because every behaviour *)
(* of the whole is a behaviour of each of its parts: the steps of the      *)
(* others leave it alone.                                                  *)
(***************************************************************************)
EXTENDS KfCoordinator, KfGcpProofs, KfPlatformProofs, KfAppDirProofs

-----------------------------------------------------------------------------
(* Each part, seen from the whole *)

LEMMA OnePlatformAtATime ==
  ASSUME [CoordinatorNext]_coordinatorVars
  PROVE  [GcpNext]_gcpVars /\ [AwsNext]_awsVars /\ [ArrNext]_arrVars
<1>1. CASE PlatformNext
  BY <1>1 DEF PlatformNext
<1>2. CASE UNCHANGED platformVars
  BY <1>2 DEF platformVars
<1>3. QED
  BY <1>1, <1>2 DEF CoordinatorNext, coordinatorVars

\* A run of the coordinator is, for the directory, a sequence of commands and
\* of what the world does meanwhile.
THEOREM ImplementsDirectory == CoordinatorSpec => DirSpec
<1>1. CoordinatorInit => DirInit
  BY DEF CoordinatorInit
<1>2. [CoordinatorNext]_coordinatorVars => [DirNext]_dirVars
  BY DEF CoordinatorNext, coordinatorVars
<1>3. QED
  BY <1>1, <1>2, PTL DEF CoordinatorSpec, DirSpec

\* And for each platform, of which only the one that spec.platform names ever
\* does anything (getPlatform, coordinator.go).
THEOREM ImplementsPlatforms == CoordinatorSpec => GcpSpec /\ AwsSpecification /\ ArrSpec
<1>1. CoordinatorInit => GcpInit /\ AwsInit /\ ArrInit
  BY DEF CoordinatorInit, PlatformInit
<1>2. [CoordinatorNext]_coordinatorVars => [GcpNext]_gcpVars /\ [AwsNext]_awsVars /\ [ArrNext]_arrVars
  BY OnePlatformAtATime
<1>3. QED
  BY <1>1, <1>2, PTL DEF CoordinatorSpec, GcpSpec, AwsSpecification, ArrSpec

\* The view and the platform are chosen once.
ChoicesOK == view \in {"directory", "platform"} /\ platform \in {"gcp", "aws", "existing_arrikto"}

LEMMA ChoicesStay == CoordinatorSpec => []ChoicesOK
<1>1. CoordinatorInit => ChoicesOK
  BY DEF CoordinatorInit, PlatformInit, ChoicesOK
<1>2. ChoicesOK /\ [CoordinatorNext]_coordinatorVars => ChoicesOK'
  <2> SUFFICES ASSUME ChoicesOK, [CoordinatorNext]_coordinatorVars PROVE ChoicesOK'
    OBVIOUS
  <2>1. UNCHANGED view
    BY DEF CoordinatorNext, coordinatorVars
  <2>2. UNCHANGED platform
    BY DEF CoordinatorNext, coordinatorVars, PlatformNext, platformVars
  <2>3. QED
    BY <2>1, <2>2 DEF ChoicesOK
<1>3. QED
  BY <1>1, <1>2, PTL DEF CoordinatorSpec

-----------------------------------------------------------------------------
(* Theorems *)

\* Types of the directory and of every platform (CoordinatorTypeOK), for any
\* number of commands that share the directory.
THEOREM CoordinatorTypeCorrect == CoordinatorSpec => []CoordinatorTypeOK
<1>1. ChoicesOK /\ DirTypeOK /\ GcpTypeOK /\ AwsTypeOK /\ ArrTypeOK => CoordinatorTypeOK
  BY DEF ChoicesOK, CoordinatorTypeOK, PlatformTypeOK
<1>2. QED
  BY <1>1, ChoicesStay, ImplementsDirectory, ImplementsPlatforms,
     DirTypeCorrect, GcpTypeCorrect, AwsTypeCorrect, ArrTypeCorrect, PTL

\* What the platforms promise holds of every command the coordinator runs on
\* them, and no delete takes an application the directory never applied.
THEOREM CoordinatorIsSafe ==
  CoordinatorSpec =>
    /\ [](GrantsInForce /\ DeploymentsCurrent /\ KeysBounded /\ NothingLeft)
    /\ [](AccountsTrusted /\ AwsNothingLeft /\ LoginAgrees)
    /\ GrantsOfOthersKept /\ NoForeignDelete
BY ImplementsDirectory, ImplementsPlatforms,
   GrantsAreInForce, DeploymentsAreCurrent, KeysAreBounded, NothingIsLeft,
   AccountsAreTrusted, NothingOfAwsIsLeft, LoginsAgree,
   OthersGrantsAreKept, NothingForeignIsDeleted, PTL

\* With one command at a time in the directory, as kfctl has it, the promises
\* about the directory hold too.
THEOREM CoordinatorKeepsItsDirectory ==
  ASSUME OneWorker
  PROVE  CoordinatorSpec => []CacheComplete /\ PlatformLast /\ AppliesOwnRevision
BY ImplementsDirectory, CacheIsComplete, PlatformGoesLast, OwnRevisionIsApplied, PTL
=============================================================================
