----------------------------- MODULE KfGcpProofs -----------------------------
(* Theorems about KfGcp, for every value of its constants. *)
EXTENDS KfGcp, TLAPS

-----------------------------------------------------------------------------
(* Types: GcpTypeOK, with the records it leaves open and how far a command's *)
(* place in its list can be                                                  *)

Grants == SUBSET (Roles \X Members)
Policy == [etag : Nat, grants : Grants]
Deployment == [present : BOOLEAN, rev : Nat, target : Nat,
               status : {"DONE", "RUNNING"}, error : BOOLEAN]
GcpCommandType == [kind : {"none", "build", "apply", "delete"}, pc : GcpPCs, at : 1..5,
                   waits : SUBSET Deployments, stale : SUBSET Deployments, pol : Policy]

DirOK ==
  /\ gcpDir \in [made : BOOLEAN, files : SUBSET Files, configured : BOOLEAN]
  /\ fileRev \in [Files -> Nat]
DmOK ==
  /\ dm \in [Deployments -> Deployment]
  /\ \A d \in Deployments : dm[d].status = "RUNNING" => dm[d].present
PolicyOK == policy \in Policy
ClusterOK ==
  /\ keys \in [ServiceAccounts -> Nat]
  /\ endpoint \in BOOLEAN
  /\ gke.secrets \subseteq {"admin", "user", "login"}
  /\ gke = [secrets |-> gke.secrets, accounts |-> gke.accounts, admin |-> gke.admin,
            manifests |-> gke.manifests, copied |-> gke.copied]
GcpCmdOK ==
  /\ gcpCmd \in GcpCommandType
  /\ gcpCmd.stale \subseteq gcpCmd.waits
  /\ gcpCmd.pc \in {"secret", "insert"} => gcpCmd.at \in DOMAIN KeyOwners
  /\ gcpCmd.pc = "identity" => gcpCmd.at \in DOMAIN Mappings
  /\ gcpCmd.pc = "deleted" => gcpCmd.at \in DOMAIN DeleteOrder
LastOK ==
  gcpLast \in [kind : {"none", "build", "apply", "delete", "edit"}, outcome : {"none", "ok", "failed"}]
UsedOK == gcpUsed \in [GcpEventKinds -> Nat]

GcpTypeInv == DirOK /\ DmOK /\ PolicyOK /\ ClusterOK /\ GcpCmdOK /\ LastOK /\ UsedOK

LEMMA GcpTypeInvImplies == GcpTypeInv => GcpTypeOK
BY DEF GcpTypeInv, GcpTypeOK, DirOK, DmOK, PolicyOK, ClusterOK, GcpCmdOK, LastOK, UsedOK,
       Policy, Grants, Deployment, GcpCommandType

LEMMA Lists ==
  /\ DOMAIN DmOrder = 1..4 /\ Len(DmOrder) = 4 /\ \A i \in 1..4 : DmOrder[i] \in Deployments
  /\ DOMAIN DeleteOrder = 1..4 /\ Len(DeleteOrder) = 4 /\ \A i \in 1..4 : DeleteOrder[i] \in Deployments
  /\ DOMAIN KeyOwners = 1..2 /\ Len(KeyOwners) = 2
  /\ \A i \in 1..2 : KeyOwners[i] \in ServiceAccounts /\ KeyOwners[i] \in {"admin", "user"}
  /\ DOMAIN Mappings = 1..3 /\ Len(Mappings) = 3
BY DEF DmOrder, DeleteOrder, Deployments, KeyOwners, ServiceAccounts, Mappings

LEMMA GcpInitType == GcpInit => GcpTypeInv
<1> SUFFICES ASSUME GcpInit PROVE GcpTypeInv
  OBVIOUS
<1>1. DirOK
  BY DEF GcpInit, DirOK
<1>2. DmOK
  BY DEF GcpInit, DmOK, NoDeployment, Deployment, Gone
<1>3. PolicyOK
  BY DEF GcpInit, PolicyOK, Policy, Grants, Members
<1>4. ClusterOK
  BY DEF GcpInit, ClusterOK, NoCluster
<1>5. GcpCmdOK
  BY DEF GcpInit, GcpCmdOK, NoGcpCmd, NoPolicy, GcpCommandType, Policy, Grants, GcpPCs
<1>6. LastOK /\ UsedOK
  BY DEF GcpInit, LastOK, UsedOK
<1>7. QED
  BY <1>1, <1>2, <1>3, <1>4, <1>5, <1>6 DEF GcpTypeInv

LEMMA GcpSpendType ==
  ASSUME UsedOK, NEW e \in GcpEventKinds, GcpSpend(e)
  PROVE  UsedOK'
BY DEF UsedOK, GcpSpend

LEMMA IdleType ==
  NoGcpCmd \in GcpCommandType /\ NoGcpCmd.stale \subseteq NoGcpCmd.waits /\ NoGcpCmd.pc = "idle"
BY DEF NoGcpCmd, NoPolicy, GcpCommandType, Policy, Grants, GcpPCs

LEMMA EndType ==
  ASSUME GcpCmdOK, LastOK, UsedOK, NEW outcome \in {"ok", "failed"}, End(outcome)
  PROVE  GcpCmdOK' /\ LastOK' /\ UsedOK'
<1>1. GcpCmdOK'
  BY IdleType DEF GcpCmdOK, End
<1>2. gcpCmd.kind \in {"none", "build", "apply", "delete"}
  BY DEF GcpCmdOK, GcpCommandType
<1>3. QED
  BY <1>1, <1>2 DEF End, LastOK, UsedOK

\* A command's step to the place at of the list of pc.
LEMMA MoveType ==
  ASSUME GcpCmdOK, LastOK, UsedOK, UNCHANGED <<gcpLast, gcpUsed>>,
         NEW pc \in GcpPCs, NEW at \in 1..5, gcpCmd' = [gcpCmd EXCEPT !.pc = pc, !.at = at],
         pc \in {"secret", "insert"} => at \in DOMAIN KeyOwners,
         pc = "identity" => at \in DOMAIN Mappings,
         pc = "deleted" => at \in DOMAIN DeleteOrder
  PROVE  GcpCmdOK' /\ LastOK' /\ UsedOK'
BY DEF GcpCmdOK, GcpCommandType, LastOK, UsedOK

LEMMA GotoType ==
  ASSUME GcpCmdOK, LastOK, UsedOK, NEW pc \in GcpPCs, Goto(pc)
  PROVE  GcpCmdOK' /\ LastOK' /\ UsedOK'
<1>1. 1 \in DOMAIN KeyOwners /\ 1 \in DOMAIN Mappings /\ 1 \in DOMAIN DeleteOrder /\ 1 \in 1..5
  BY Lists
<1>2. QED
  BY <1>1, MoveType DEF Goto

LEMMA AgainType ==
  ASSUME GcpCmdOK, LastOK, UsedOK, NEW pc \in GcpPCs, Again(pc), gcpCmd.at + 1 \in 1..5,
         pc \in {"secret", "insert"} => gcpCmd.at + 1 \in DOMAIN KeyOwners,
         pc = "identity" => gcpCmd.at + 1 \in DOMAIN Mappings,
         pc # "deleted"
  PROVE  GcpCmdOK' /\ LastOK' /\ UsedOK'
<1>1. gcpCmd' = [gcpCmd EXCEPT !.pc = pc, !.at = gcpCmd.at + 1]
  BY DEF Again
<1>2. QED
  BY <1>1, MoveType DEF Again

\* What a command changes of itself, and nothing else of the types.
Rest == DirOK /\ DmOK /\ PolicyOK /\ ClusterOK
Own  == GcpCmdOK /\ LastOK /\ UsedOK

LEMMA GcpStartType ==
  ASSUME GcpTypeInv, NEW kind \in {"build", "apply", "delete"}, GcpStart(kind)
  PROVE  GcpTypeInv'
<1> USE DEF GcpTypeInv
<1> DEFINE pc == "enable"
<1>1. pc \in GcpPCs /\ pc \notin {"secret", "insert", "identity", "deleted"}
  BY DEF GcpPCs
<1> HIDE DEF pc
<1>2. gcpCmd' = [NoGcpCmd EXCEPT !.kind = kind, !.pc = pc]
  BY DEF GcpStart, pc
<1>3. gcpCmd' \in GcpCommandType /\ gcpCmd'.stale \subseteq gcpCmd'.waits /\ gcpCmd'.pc = pc
  BY <1>1, <1>2, IdleType DEF GcpCommandType
<1>4. GcpCmdOK' /\ LastOK'
  BY <1>1, <1>3 DEF GcpCmdOK, LastOK, GcpStart
<1>5. UsedOK'
  BY GcpSpendType DEF GcpStart, GcpEventKinds
<1>6. Rest'
  BY DEF GcpStart, inDir, project, Rest, DirOK, DmOK, PolicyOK, ClusterOK
<1>7. QED
  BY <1>4, <1>5, <1>6 DEF Rest

LEMMA ProceedType ==
  ASSUME Own, Proceed PROVE Own'
<1>1. {"dm", "remove"} \subseteq GcpPCs
  BY DEF GcpPCs
<1>2. QED
  BY <1>1, GotoType, EndType DEF Own, Proceed

LEMMA GcpGenerateType ==
  ASSUME GcpTypeInv,
         \/ GcpInitProject \/ SkipGenerate \/ MakeConfigDir \/ GenerateDMConfigs \/ PersistParameters
  PROVE  GcpTypeInv'
<1> USE DEF Own, Rest
<1> SUFFICES ASSUME Rest, Own PROVE Rest' /\ Own'
  BY DEF GcpTypeInv
<1>1. {"generate", "copy", "iam", "cluster", "storage", "persist"} \subseteq GcpPCs
  BY DEF GcpPCs
<1>2. CASE GcpInitProject
  BY <1>1, <1>2, GotoType DEF GcpInitProject, inDir, project, DirOK, DmOK, PolicyOK, ClusterOK
<1>3. CASE SkipGenerate
  BY <1>3, ProceedType DEF SkipGenerate, inDir, project, DirOK, DmOK, PolicyOK, ClusterOK
<1>4. CASE MakeConfigDir
  BY <1>1, <1>4, GotoType DEF MakeConfigDir, project, DirOK, DmOK, PolicyOK, ClusterOK
<1>5. ASSUME NEW f \in Files, NEW pc, NEW next \in GcpPCs, WriteFile(f, pc, next)
      PROVE  Rest' /\ Own'
  BY <1>5, GotoType DEF WriteFile, project, DirOK, DmOK, PolicyOK, ClusterOK
<1>6. CASE GenerateDMConfigs
  <2>1. {"templates", "iam", "main", "storage"} \subseteq Files
    BY DEF Files, Deployments
  <2>2. (IF Storage THEN "storage" ELSE "persist") \in GcpPCs
    BY <1>1
  <2>3. QED
    BY <1>1, <1>5, <1>6, <2>1, <2>2 DEF GenerateDMConfigs
<1>7. CASE PersistParameters
  BY <1>7, ProceedType DEF PersistParameters, project, DirOK, DmOK, PolicyOK, ClusterOK
<1>8. QED
  BY <1>2, <1>3, <1>4, <1>6, <1>7

LEMMA DmWriteType ==
  ASSUME DmOK, NEW d \in Deployments, NEW rev \in Nat, NEW error \in BOOLEAN, NEW present \in BOOLEAN,
         NEW target \in Nat, NEW status \in {"DONE", "RUNNING"}, status = "RUNNING" => present,
         dm' = [dm EXCEPT ![d] = [present |-> present, rev |-> rev, target |-> target,
                                  status |-> status, error |-> error]]
  PROVE  DmOK'
BY DEF DmOK, Deployment

LEMMA UpdateType ==
  ASSUME GcpTypeInv, UpdateDeployment PROVE GcpTypeInv'
<1> USE DEF GcpTypeInv
<1>1. gcpCmd.at \in 1..4 /\ DmOrder[gcpCmd.at] \in Deployments /\ gcpCmd.at + 1 \in 1..5
  BY Lists DEF UpdateDeployment
<1> DEFINE d == DmOrder[gcpCmd.at]
           next == gcpCmd.at + 1
<1>2. /\ d \in Deployments /\ next \in 1..5 /\ gcpCmd.pc = "dm"
      /\ fileRev[d] \in Nat
  BY <1>1 DEF UpdateDeployment, At, DirOK, Files
<1>3. DmOK' /\ GcpCmdOK'
  <2>1. CASE gcpCmd' = [gcpCmd EXCEPT !.at = gcpCmd.at + 1] /\ UNCHANGED dm
    <3>1. gcpCmd' = [gcpCmd EXCEPT !.at = next] /\ UNCHANGED dm
      BY <2>1
    <3>2. QED
      BY <1>2, <3>1 DEF DmOK, GcpCmdOK, GcpCommandType
  <2>2. CASE UpdateOrWait(d) /\ dm[d].present
    <3>1. CASE /\ dm' = [dm EXCEPT ![d].target = fileRev[d], ![d].status = "RUNNING", ![d].error = FALSE]
               /\ gcpCmd' = [gcpCmd EXCEPT !.at = next, !.waits = gcpCmd.waits \cup {d}]
      <4>1. DmOK'
        BY <1>2, <2>2, <3>1 DEF DmOK, Deployment
      <4>2. GcpCmdOK'
        BY <1>2, <3>1 DEF GcpCmdOK, GcpCommandType
      <4>3. QED
        BY <4>1, <4>2
    <3>2. CASE /\ gcpCmd' = [gcpCmd EXCEPT !.at = next, !.waits = gcpCmd.waits \cup {d},
                                           !.stale = gcpCmd.stale \cup {d}]
               /\ UNCHANGED dm
      BY <1>2, <3>2 DEF DmOK, GcpCmdOK, GcpCommandType
    <3>3. QED
      BY <2>2, <3>1, <3>2 DEF UpdateOrWait
  <2>3. CASE InsertDeployment(d)
    <3>1. DmOK'
      BY <1>2, <2>3, DmWriteType DEF InsertDeployment, Gone
    <3>2. gcpCmd' = [gcpCmd EXCEPT !.at = next, !.waits = gcpCmd.waits \cup {d}]
      BY <2>3 DEF InsertDeployment
    <3>3. GcpCmdOK'
      BY <1>2, <3>2 DEF GcpCmdOK, GcpCommandType
    <3>4. QED
      BY <3>1, <3>3
  <2>4. QED
    BY <2>1, <2>2, <2>3 DEF UpdateDeployment
<1>4. QED
  BY <1>3 DEF UpdateDeployment, inDir, DirOK, PolicyOK, ClusterOK, LastOK, UsedOK

\* What others than the service accounts hold is of the type of a policy, too.
LEMMA GrantsType ==
  ASSUME NEW G \in Grants
  PROVE  ClearIamPolicy(G) \in Grants /\ RewriteIamPolicy(G, FileGrants(IamBindings)) \in Grants
BY DEF ClearIamPolicy, RewriteIamPolicy, FileGrants, Grants

LEMMA SetType ==
  ASSUME PolicyOK, NEW G \in Grants, SetIamPolicy(G)
  PROVE  PolicyOK'
BY DEF SetIamPolicy, PolicyOK, Policy

LEMMA PolicyStepType ==
  ASSUME GcpTypeInv,
         \/ AllUpdated \/ BlockingWait \/ ClearBindings \/ RewriteBindings \/ RetryBindings
         \/ \E get, set \in GcpPCs : set \in {"clearSet", "rewriteSet", "deleteSet"} /\ GetIamPolicy(get, set)
  PROVE  GcpTypeInv'
<1> USE DEF Own, Rest
<1> SUFFICES ASSUME Rest, Own PROVE Rest' /\ Own'
  BY DEF GcpTypeInv
<1>1. {"wait", "clearGet", "k8s", "rewriteGet"} \subseteq GcpPCs
  BY DEF GcpPCs
<1>2. CASE AllUpdated
  BY <1>1, <1>2, GotoType DEF AllUpdated, inDir, project, DirOK, DmOK, PolicyOK, ClusterOK
<1>3. CASE BlockingWait
  <2>1. (IF "iam" \in gcpDir.files THEN "clearGet" ELSE "k8s") \in GcpPCs
    BY <1>1
  <2>2. Own'
    BY <1>3, <2>1, GotoType, EndType DEF BlockingWait
  <2>3. QED
    BY <1>3, <2>2 DEF BlockingWait, inDir, project, DirOK, DmOK, PolicyOK, ClusterOK
<1>4. gcpCmd.pol.grants \in Grants
  BY DEF GcpCmdOK, GcpCommandType, Policy
<1>5. CASE ClearBindings
  <2>1. PolicyOK'
    BY <1>4, <1>5, GrantsType, SetType DEF ClearBindings
  <2>2. QED
    BY <1>1, <1>5, <2>1, GotoType DEF ClearBindings, inDir, DirOK, DmOK, ClusterOK
<1>6. CASE RewriteBindings
  <2>1. PolicyOK'
    BY <1>4, <1>6, GrantsType, SetType DEF RewriteBindings
  <2>2. QED
    BY <1>1, <1>6, <2>1, GotoType DEF RewriteBindings, inDir, DirOK, DmOK, ClusterOK
<1>7. CASE RetryBindings
  BY <1>1, <1>7, GotoType DEF RetryBindings, inDir, project, DirOK, DmOK, PolicyOK, ClusterOK
<1>8. ASSUME NEW get, NEW set \in GcpPCs, set \in {"clearSet", "rewriteSet", "deleteSet"}, GetIamPolicy(get, set)
      PROVE  Rest' /\ Own'
  <2>1. GcpCmdOK'
    BY <1>8 DEF GetIamPolicy, GcpCmdOK, GcpCommandType, PolicyOK
  <2>2. QED
    BY <1>8, <2>1 DEF GetIamPolicy, inDir, project, DirOK, DmOK, PolicyOK, ClusterOK, LastOK, UsedOK
<1>9. QED
  BY <1>2, <1>3, <1>5, <1>6, <1>7, <1>8

\* Steps that change the cluster's Kubernetes objects or the accounts' keys.
LEMMA ClusterStepType ==
  ASSUME GcpTypeInv,
         \/ ConfigK8s \/ SecretExists \/ CreateKey \/ InsertSecret \/ CreateLogin
         \/ AllowAdminEditUserSA \/ BindIdentities \/ BindIdentityOnly \/ ApplyManifests \/ AddedConfig
  PROVE  GcpTypeInv'
<1> USE DEF Own, Rest
<1> SUFFICES ASSUME Rest, Own PROVE Rest' /\ Own'
  BY DEF GcpTypeInv
<1>1. {"secret", "insert", "login", "owner", "identity", "manifests", "added"} \subseteq GcpPCs
  BY DEF GcpPCs
<1>2. CASE ConfigK8s
  BY <1>1, <1>2, GotoType DEF ConfigK8s, inDir, project, DirOK, DmOK, PolicyOK, ClusterOK
<1>3. ASSUME gcpCmd.pc \in {"secret", "insert"}, NextSecret PROVE Own'
  <2>1. gcpCmd.at \in 1..2
    BY <1>3, Lists DEF GcpCmdOK
  <2>2. gcpCmd.at # 2 => gcpCmd.at + 1 \in 1..2 /\ gcpCmd.at + 1 \in 1..5
    BY <2>1
  <2>3. QED
    BY <1>1, <1>3, <2>2, Lists, GotoType, AgainType DEF NextSecret
<1>4. CASE SecretExists
  BY <1>3, <1>4 DEF SecretExists, At, inDir, project, DirOK, DmOK, PolicyOK, ClusterOK
<1>5. CASE CreateKey
  <2>1. KeyOwners[gcpCmd.at] \in ServiceAccounts /\ gcpCmd.pc = "secret"
    BY <1>5, Lists DEF CreateKey, At, GcpCmdOK
  <2>2. GcpCmdOK'
    BY <1>1, <1>5, <2>1 DEF CreateKey, GcpCmdOK, GcpCommandType
  <2>3. ClusterOK'
    BY <1>5, <2>1 DEF CreateKey, ClusterOK
  <2>4. QED
    BY <1>5, <2>2, <2>3 DEF CreateKey, inDir, DirOK, DmOK, PolicyOK, LastOK, UsedOK
<1>6. CASE InsertSecret
  <2>1. KeyOwners[gcpCmd.at] \in {"admin", "user"} /\ gcpCmd.pc = "insert"
    BY <1>6, Lists DEF InsertSecret, At, GcpCmdOK
  <2>2. QED
    BY <1>3, <1>6, <2>1 DEF InsertSecret, inDir, project, DirOK, DmOK, PolicyOK, ClusterOK
<1>7. CASE CreateLogin
  BY <1>1, <1>7, GotoType DEF CreateLogin, inDir, project, DirOK, DmOK, PolicyOK, ClusterOK
<1>8. CASE AllowAdminEditUserSA
  BY <1>1, <1>8, GotoType DEF AllowAdminEditUserSA, inDir, DirOK, DmOK, PolicyOK, ClusterOK
<1>9. gcpCmd.pc = "identity" /\ gcpCmd.at # 3 => gcpCmd.at + 1 \in 1..3 /\ gcpCmd.at + 1 \in 1..5
  BY Lists DEF GcpCmdOK
<1>10. CASE BindIdentities
  <2>1. Own'
    BY <1>1, <1>9, <1>10, Lists, GotoType, AgainType DEF BindIdentities, At
  <2>2. QED
    BY <1>10, <2>1 DEF BindIdentities, SetupWorkloadIdentity, inDir, DirOK, DmOK, PolicyOK, ClusterOK
<1>11. CASE BindIdentityOnly
  <2> DEFINE pc == IF gcpCmd.at = 3 THEN "manifests" ELSE gcpCmd.pc
             at == IF gcpCmd.at = 3 THEN 1 ELSE gcpCmd.at + 1
  <2>1. gcpCmd.pc = "identity"
    BY <1>11 DEF BindIdentityOnly, At
  <2>2. pc \in {"identity", "manifests"} /\ at \in 1..5 /\ (pc = "identity" => at \in 1..3)
    BY <1>9, <2>1
  <2>3. gcpCmd' = [gcpCmd EXCEPT !.pc = pc, !.at = at]
    BY <1>11, Lists DEF BindIdentityOnly
  <2> HIDE DEF pc, at
  <2>4. GcpCmdOK'
    BY <1>1, <2>2, <2>3, Lists DEF GcpCmdOK, GcpCommandType
  <2>5. UsedOK'
    BY <1>11, GcpSpendType DEF BindIdentityOnly, GcpEventKinds
  <2>6. QED
    BY <1>11, <2>4, <2>5 DEF BindIdentityOnly, SetupWorkloadIdentity, inDir,
                             DirOK, DmOK, PolicyOK, ClusterOK, LastOK
<1>12. CASE ApplyManifests
  BY <1>1, <1>12, GotoType DEF ApplyManifests, inDir, project, DirOK, DmOK, PolicyOK, ClusterOK
<1>13. CASE AddedConfig
  BY <1>13, EndType DEF AddedConfig, inDir, DirOK, DmOK, PolicyOK, ClusterOK
<1>14. QED
  BY <1>2, <1>4, <1>5, <1>6, <1>7, <1>8, <1>10, <1>11, <1>12, <1>13

LEMMA DeleteStepType ==
  ASSUME GcpTypeInv,
         \/ RemoveManifests \/ DeleteDeployment \/ WaitDeleted \/ AllDeleted \/ RemoveBindings
         \/ DeleteEndpoints \/ NoClusterFound \/ GcpStop
  PROVE  GcpTypeInv'
<1> USE DEF Own, Rest
<1> SUFFICES ASSUME Rest, Own PROVE Rest' /\ Own'
  BY DEF GcpTypeInv
<1>1. {"delete", "deleted", "deleteGet", "endpoint"} \subseteq GcpPCs
  BY DEF GcpPCs
<1>2. CASE RemoveManifests
  BY <1>1, <1>2, GotoType DEF RemoveManifests, inDir, project, DirOK, DmOK, PolicyOK, ClusterOK
<1>3. gcpCmd.at \in DOMAIN DeleteOrder => DeletingAt \in Deployments /\ gcpCmd.at + 1 \in 1..5
  BY Lists DEF DeletingAt
<1>4. CASE DeleteDeployment
  <2>1. DeletingAt \in Deployments /\ gcpCmd.at + 1 \in 1..5 /\ gcpCmd.at \in DOMAIN DeleteOrder
    BY <1>3, <1>4 DEF DeleteDeployment
  <2>2. CASE Again("delete") /\ UNCHANGED dm
    BY <1>1, <1>4, <2>1, <2>2, AgainType DEF DeleteDeployment, inDir, DirOK, DmOK, PolicyOK, ClusterOK
  <2>3. CASE /\ dm[DeletingAt].present
             /\ dm' = [dm EXCEPT ![DeletingAt].target = Gone, ![DeletingAt].status = "RUNNING",
                                 ![DeletingAt].error = FALSE]
             /\ gcpCmd' = [gcpCmd EXCEPT !.pc = "deleted"] /\ UNCHANGED <<gcpLast, gcpUsed>>
    <3>1. DmOK'
      <4> DEFINE d == DeletingAt
                 new == [dm[d] EXCEPT !.target = Gone, !.status = "RUNNING", !.error = FALSE]
      <4>1. d \in Deployments /\ new \in Deployment /\ new.present
        BY <2>1, <2>3 DEF DmOK, Deployment, Gone
      <4>2. dm' = [dm EXCEPT ![d] = new]
        BY <2>3 DEF DmOK, Deployment
      <4> HIDE DEF d, new
      <4>3. QED
        BY <4>1, <4>2 DEF DmOK
    <3>2. GcpCmdOK'
      BY <1>1, <2>1, <2>3 DEF GcpCmdOK, GcpCommandType
    <3>3. QED
      BY <1>4, <2>3, <3>1, <3>2 DEF DeleteDeployment, inDir, DirOK, PolicyOK, ClusterOK, LastOK, UsedOK
  <2>4. CASE End("failed") /\ UNCHANGED dm
    BY <1>4, <2>4, EndType DEF DeleteDeployment, inDir, DirOK, DmOK, PolicyOK, ClusterOK
  <2>5. QED
    BY <1>4, <2>2, <2>3, <2>4 DEF DeleteDeployment
<1>5. CASE WaitDeleted
  <2>1. gcpCmd.at + 1 \in 1..5
    BY <1>3, <1>5 DEF WaitDeleted, At, GcpCmdOK
  <2>2. Own'
    BY <1>1, <1>5, <2>1, AgainType, EndType DEF WaitDeleted
  <2>3. QED
    BY <1>5, <2>2 DEF WaitDeleted, inDir, project, DirOK, DmOK, PolicyOK, ClusterOK
<1>6. CASE AllDeleted
  BY <1>1, <1>6, GotoType DEF AllDeleted, inDir, project, DirOK, DmOK, PolicyOK, ClusterOK
<1>7. CASE RemoveBindings
  <2>1. gcpCmd.pol.grants \in Grants
    BY DEF GcpCmdOK, GcpCommandType, Policy
  <2>2. PolicyOK'
    BY <1>7, <2>1, GrantsType, SetType DEF RemoveBindings, PolicyOK
  <2>3. QED
    BY <1>1, <1>7, <2>2, GotoType, EndType DEF RemoveBindings, inDir, DirOK, DmOK, ClusterOK
<1>8. CASE DeleteEndpoints
  BY <1>8, EndType DEF DeleteEndpoints, inDir, DirOK, DmOK, PolicyOK, ClusterOK
<1>9. CASE NoClusterFound
  BY <1>9, EndType DEF NoClusterFound, inDir, project, DirOK, DmOK, PolicyOK, ClusterOK
<1>10. CASE GcpStop
  <2>1. UsedOK'
    BY <1>10, GcpSpendType DEF GcpStop, GcpEventKinds
  <2>2. GcpCmdOK'
    BY <1>10, IdleType DEF GcpStop, GcpCmdOK
  <2>3. LastOK'
    BY <1>10 DEF GcpStop, LastOK, GcpCmdOK, GcpCommandType
  <2>4. QED
    BY <1>10, <2>1, <2>2, <2>3 DEF GcpStop, inDir, project, DirOK, DmOK, PolicyOK, ClusterOK
<1>11. QED
  BY <1>2, <1>4, <1>5, <1>6, <1>7, <1>8, <1>9, <1>10

LEMMA WorldType ==
  ASSUME GcpTypeInv, GcpWorld PROVE GcpTypeInv'
<1> USE DEF Own, Rest
<1> SUFFICES ASSUME Rest, Own PROVE Rest' /\ Own'
  BY DEF GcpTypeInv
<1>1. ASSUME NEW d \in Deployments, DmDone(d) PROVE Rest' /\ Own'
  <2>1. DmOK'
    <3>1. CASE dm[d].target = Gone
      <4>1. NoDeployment \in Deployment /\ NoDeployment.status # "RUNNING"
        BY DEF NoDeployment, Deployment, Gone
      <4>2. dm' = [dm EXCEPT ![d] = NoDeployment]
        BY <1>1, <3>1 DEF DmDone
      <4>3. QED
        BY <4>1, <4>2 DEF DmOK
    <3>2. CASE dm[d].target # Gone
      <4>1. dm' = [dm EXCEPT ![d] = [dm[d] EXCEPT !.rev = dm[d].target, !.status = "DONE"]]
        BY <1>1, <3>2 DEF DmDone
      <4>2. QED
        BY <4>1 DEF DmOK, Deployment
    <3>3. QED
      BY <3>1, <3>2
  <2>2. ClusterOK'
    <3>1. CASE gke' = NoCluster /\ keys' = [s \in ServiceAccounts |-> 0]
      BY <1>1, <3>1 DEF DmDone, ClusterOK, NoCluster
    <3>2. CASE UNCHANGED <<gke, keys>>
      BY <1>1, <3>2 DEF DmDone, ClusterOK
    <3>3. QED
      BY <1>1, <3>1, <3>2 DEF DmDone
  <2>3. QED
    BY <1>1, <2>1, <2>2 DEF DmDone, inDir, DirOK, PolicyOK, GcpCmdOK, LastOK, UsedOK
<1>2. ASSUME NEW d \in Deployments, DmFailed(d) PROVE Rest' /\ Own'
  <2>1. DmOK'
    BY <1>2 DEF DmFailed, DmOK, Deployment
  <2>2. UsedOK'
    BY <1>2, GcpSpendType DEF DmFailed, GcpEventKinds
  <2>3. QED
    BY <1>2, <2>1, <2>2 DEF DmFailed, inDir, DirOK, PolicyOK, ClusterOK, GcpCmdOK, LastOK
<1>3. ASSUME NEW r \in Roles, NEW m \in Strangers, ChangeGrant(r, m) PROVE Rest' /\ Own'
  <2>1. PolicyOK'
    BY <1>3 DEF ChangeGrant, PolicyOK, Policy, Grants, Members
  <2>2. UsedOK'
    BY <1>3, GcpSpendType DEF ChangeGrant, GcpEventKinds
  <2>3. QED
    BY <1>3, <2>1, <2>2 DEF ChangeGrant, inDir, DirOK, DmOK, ClusterOK, GcpCmdOK, LastOK
<1>4. ASSUME NEW f \in Files, EditFile(f) PROVE Rest' /\ Own'
  <2>1. DirOK'
    BY <1>4 DEF EditFile, DirOK
  <2>2. UsedOK'
    BY <1>4, GcpSpendType DEF EditFile, GcpEventKinds
  <2>3. LastOK'
    BY <1>4 DEF EditFile, LastOK
  <2>4. QED
    BY <1>4, <2>1, <2>2, <2>3 DEF EditFile, project, DmOK, PolicyOK, ClusterOK, GcpCmdOK
<1>5. CASE EndpointUp
  BY <1>5 DEF EndpointUp, inDir, DirOK, DmOK, PolicyOK, ClusterOK, GcpCmdOK, LastOK, UsedOK
<1>6. QED
  BY <1>1, <1>2, <1>3, <1>4, <1>5 DEF GcpWorld

LEMMA GcpNextType ==
  ASSUME GcpTypeInv, [GcpNext]_gcpVars PROVE GcpTypeInv'
<1>1. CASE GcpCommand
  <2>1. {"clearGet", "clearSet", "rewriteGet", "rewriteSet", "deleteGet", "deleteSet"} \subseteq GcpPCs
    BY DEF GcpPCs
  <2>2. QED
    BY <1>1, <2>1, GcpStartType, GcpGenerateType, UpdateType, PolicyStepType, ClusterStepType, DeleteStepType
       DEF GcpCommand
<1>2. CASE UNCHANGED gcpVars
  BY <1>2 DEF gcpVars, inDir, project, GcpTypeInv, DirOK, DmOK, PolicyOK, ClusterOK, GcpCmdOK, LastOK, UsedOK
<1>3. QED
  BY <1>1, <1>2, WorldType DEF GcpNext

\* The files of gcp_config, the deployments, the policy, the cluster and the
\* command that runs are well-typed in every reachable state.
THEOREM GcpTypeCorrect == GcpSpec => []GcpTypeOK
<1>1. GcpInit => GcpTypeInv
  BY GcpInitType
<1>2. GcpTypeInv /\ [GcpNext]_gcpVars => GcpTypeInv'
  BY GcpNextType
<1>3. QED
  BY <1>1, <1>2, GcpTypeInvImplies, PTL DEF GcpSpec

-----------------------------------------------------------------------------
(* What the steps change *)

\* The policy changes by a rewrite of the command or a grant of somebody else.
LEMMA PolicySteps ==
  ASSUME [GcpNext]_gcpVars
  PROVE  \/ UNCHANGED policy
         \/ ClearBindings \/ RewriteBindings \/ RemoveBindings
         \/ \E r \in Roles, m \in Strangers : ChangeGrant(r, m)
BY DEF GcpNext, GcpCommand, GcpWorld, gcpVars, inDir, project,
       GcpStart, GcpInitProject, SkipGenerate, MakeConfigDir, GenerateDMConfigs, WriteFile,
       PersistParameters, UpdateDeployment, AllUpdated, BlockingWait, GetIamPolicy, RetryBindings,
       ConfigK8s, SecretExists, CreateKey, InsertSecret, CreateLogin, AllowAdminEditUserSA,
       BindIdentities, BindIdentityOnly, ApplyManifests, AddedConfig, RemoveManifests,
       DeleteDeployment, WaitDeleted, AllDeleted, DeleteEndpoints, NoClusterFound, GcpStop,
       DmDone, DmFailed, EditFile, EndpointUp

\* A command ends, or goes on in one of its lists.
LEMMA CommandSteps ==
  ASSUME GcpTypeInv, [GcpNext]_gcpVars
  PROVE  \/ UNCHANGED gcpCmd
         \/ \E get, set : GetIamPolicy(get, set)
         \/ gcpCmd'.pc \notin {"clearSet", "rewriteSet", "deleteSet"}
<1>1. gcpCmd \in GcpCommandType
  BY DEF GcpTypeInv, GcpCmdOK
<1>2. ASSUME NEW pc, Goto(pc) \/ Again(pc) PROVE gcpCmd'.pc = pc
  BY <1>1, <1>2 DEF Goto, Again, GcpCommandType
<1>3. ASSUME NEW outcome, End(outcome) PROVE gcpCmd'.pc = "idle"
  BY <1>3, IdleType DEF End
<1>4. ASSUME NEW kind, GcpStart(kind) PROVE gcpCmd'.pc = "enable"
  BY <1>4 DEF GcpStart, NoGcpCmd
<1>5. CASE GcpCommand
  <2>1. CASE CreateKey \/ BindIdentityOnly \/ UpdateDeployment
    BY <1>1, <2>1 DEF CreateKey, BindIdentityOnly, UpdateDeployment, UpdateOrWait, InsertDeployment, GcpCommandType, At
  <2>2. CASE DeleteDeployment
    BY <1>1, <1>2, <1>3, <2>2 DEF DeleteDeployment, GcpCommandType
  <2>3. CASE GcpStop
    BY <2>3, IdleType DEF GcpStop
  <2>4. CASE \E kind \in {"build", "apply", "delete"} : GcpStart(kind)
    BY <1>4, <2>4
  <2>5. CASE SkipGenerate \/ PersistParameters
    BY <1>2, <1>3, <2>5 DEF SkipGenerate, PersistParameters, Proceed
  <2>6. CASE \/ GcpInitProject \/ MakeConfigDir \/ GenerateDMConfigs \/ AllUpdated
             \/ BlockingWait
    BY <1>2, <1>3, <2>6 DEF GcpInitProject, MakeConfigDir, GenerateDMConfigs, WriteFile, AllUpdated, BlockingWait
  <2>7. CASE ClearBindings \/ RewriteBindings \/ RetryBindings \/ RemoveBindings
    BY <1>2, <1>3, <2>7 DEF ClearBindings, RewriteBindings, RetryBindings, RemoveBindings
  <2>8. CASE ConfigK8s \/ SecretExists \/ InsertSecret \/ CreateLogin
    BY <1>2, <1>3, <2>8 DEF ConfigK8s, SecretExists, InsertSecret, CreateLogin, NextSecret
  <2>9. CASE \/ AllowAdminEditUserSA \/ BindIdentities \/ ApplyManifests \/ AddedConfig \/ RemoveManifests
    BY <1>2, <1>3, <2>9 DEF AllowAdminEditUserSA, BindIdentities, ApplyManifests, AddedConfig, RemoveManifests
  <2>10. CASE WaitDeleted \/ AllDeleted \/ DeleteEndpoints \/ NoClusterFound
    BY <1>2, <1>3, <2>10 DEF WaitDeleted, AllDeleted, DeleteEndpoints, NoClusterFound
  <2>11. QED
    BY <1>5, <2>1, <2>2, <2>3, <2>4, <2>5, <2>6, <2>7, <2>8, <2>9, <2>10 DEF GcpCommand
<1>6. CASE GcpWorld
  BY <1>6 DEF GcpWorld, DmDone, DmFailed, ChangeGrant, EditFile, EndpointUp
<1>7. QED
  BY <1>5, <1>6 DEF GcpNext, gcpVars

-----------------------------------------------------------------------------
(* Grants of others: what a command is about to write is what it has read,  *)
(* unless somebody has written since, and then it is refused                *)

ReadInv ==
  gcpCmd.pc \in {"clearSet", "rewriteSet", "deleteSet"} =>
    /\ gcpCmd.pol.etag <= policy.etag
    /\ gcpCmd.pol.etag = policy.etag => gcpCmd.pol = policy

LEMMA ReadStep ==
  ASSUME GcpTypeInv, ReadInv, [GcpNext]_gcpVars
  PROVE  ReadInv'
<1>1. policy.etag \in Nat /\ gcpCmd \in GcpCommandType /\ policy \in Policy
  BY DEF GcpTypeInv, PolicyOK, Policy, GcpCmdOK
<1>2. gcpCmd.pol.etag \in Nat
  BY <1>1 DEF GcpCommandType, Policy
<1>3. CASE gcpCmd'.pc \notin {"clearSet", "rewriteSet", "deleteSet"}
  BY <1>3 DEF ReadInv
<1>4. ASSUME NEW get, NEW set, GetIamPolicy(get, set) PROVE ReadInv'
  BY <1>1, <1>4 DEF GetIamPolicy, ReadInv, GcpCommandType, project
<1>5. CASE UNCHANGED gcpCmd
  <2>1. CASE UNCHANGED policy
    BY <1>5, <2>1 DEF ReadInv
  <2>2. CASE ClearBindings \/ RewriteBindings \/ RemoveBindings
    <3>1. gcpCmd'.pc # gcpCmd.pc
      BY <1>1, <2>2, IdleType DEF ClearBindings, RewriteBindings, RemoveBindings, At, Goto, End, GcpCommandType
    <3>2. QED
      BY <1>5, <3>1
  <2>3. CASE \E r \in Roles, m \in Strangers : ChangeGrant(r, m)
    <3>1. policy'.etag = policy.etag + 1
      BY <2>3 DEF ChangeGrant
    <3>2. QED
      BY <1>1, <1>2, <1>5, <3>1 DEF ReadInv
  <2>4. QED
    BY <2>1, <2>2, <2>3, PolicySteps
<1>6. QED
  BY <1>3, <1>4, <1>5, CommandSteps

\* A rewrite is of the policy that is in force.
LEMMA WriteOfRead ==
  ASSUME ReadInv, GcpTypeInv, gcpCmd.pc \in {"clearSet", "rewriteSet", "deleteSet"},
         NEW G, SetIamPolicy(G)
  PROVE  gcpCmd.pol = policy /\ policy'.grants = G
BY DEF ReadInv, SetIamPolicy

LEMMA StrangersKeptStep ==
  ASSUME GcpTypeInv, ReadInv, [GcpNext]_gcpVars, NEW g \in Roles \X Strangers
  PROVE  /\ g \in policy.grants /\ g \notin policy'.grants => UNCHANGED gcpCmd
         /\ g \notin policy.grants /\ g \in policy'.grants =>
              UNCHANGED gcpCmd \/ g \in FileGrants(IamBindings)
<1>1. g[2] \notin ServiceAccounts
  BY GcpAssumption
<1>2. \A G : g \in ClearIamPolicy(G) <=> g \in G
  BY <1>1 DEF ClearIamPolicy
<1>3. CASE ClearBindings \/ RemoveBindings
  <2>1. CASE SetIamPolicy(ClearIamPolicy(gcpCmd.pol.grants))
    <3>1. policy'.grants = ClearIamPolicy(policy.grants)
      BY <1>3, <2>1, WriteOfRead DEF ClearBindings, RemoveBindings, At
    <3>2. QED
      BY <1>2, <3>1
  <2>2. CASE UNCHANGED policy
    BY <2>2
  <2>3. QED
    BY <1>3, <2>1, <2>2 DEF ClearBindings, RemoveBindings
<1>4. CASE RewriteBindings
  <2>1. policy'.grants = policy.grants \cup FileGrants(IamBindings)
    BY <1>4, WriteOfRead DEF RewriteBindings, RewriteIamPolicy, At
  <2>2. QED
    BY <2>1
<1>5. CASE \E r \in Roles, m \in Strangers : ChangeGrant(r, m)
  BY <1>5 DEF ChangeGrant
<1>6. QED
  BY <1>3, <1>4, <1>5, PolicySteps

\* Whatever commands run, stop and fail, and whoever else rewrites the policy
\* meanwhile: members that are not of the deployment lose nothing and regain
\* nothing by it, except what iam_bindings.yaml gives them (updateDM, Delete).
THEOREM OthersGrantsAreKept == GcpSpec => GrantsOfOthersKept
<1>1. GcpInit => GcpTypeInv /\ ReadInv
  BY GcpInitType DEF GcpInit, ReadInv, NoGcpCmd
<1>2. GcpTypeInv /\ ReadInv /\ [GcpNext]_gcpVars => (GcpTypeInv /\ ReadInv)'
  BY GcpNextType, ReadStep
<1>3. GcpTypeInv /\ ReadInv /\ [GcpNext]_gcpVars =>
        [\A g \in Roles \X Strangers :
           /\ g \in policy.grants /\ g \notin policy'.grants => UNCHANGED gcpCmd
           /\ g \notin policy.grants /\ g \in policy'.grants =>
                UNCHANGED gcpCmd \/ g \in FileGrants(IamBindings)]_gcpVars
  BY StrangersKeptStep
<1>4. QED
  BY <1>1, <1>2, <1>3, PTL DEF GcpSpec, GrantsOfOthersKept

-----------------------------------------------------------------------------
(* The stages of a command *)

Preparing == {"enable", "generate", "copy", "iam", "cluster", "storage", "persist"}
Deploying == {"dm", "wait", "clearGet", "clearSet"}
Cleared   == {"rewriteGet", "rewriteSet"}
InCluster == {"k8s", "secret", "insert", "login", "owner", "identity", "manifests", "added"}
Removing  == {"remove", "delete", "deleted", "deleteGet", "deleteSet"}
Stages    == {Preparing, Deploying, Cleared, InCluster, Removing}

GcpEnds(outcome) == gcpCmd' = NoGcpCmd /\ gcpLast' = [kind |-> gcpCmd.kind, outcome |-> outcome]
GoesOn(pc)    == gcpCmd'.pc = pc /\ gcpCmd'.kind = gcpCmd.kind /\ UNCHANGED gcpLast

\* The ways of a command through its stages; the four steps that leave a stage
\* in the middle of a command have names of their own.
LEMMA Flow ==
  ASSUME GcpTypeInv, [GcpNext]_gcpVars
  PROVE  \/ UNCHANGED <<gcpCmd, gcpLast>>
         \/ \E f \in Files : EditFile(f)
         \/ \E kind \in {"build", "apply", "delete"} : GcpStart(kind)
         \/ GcpEnds("failed")
         \/ GcpEnds("ok") /\ (gcpCmd.kind = "build" \/ gcpCmd.pc = "added" \/ DeleteEndpoints)
         \/ \E pc : GoesOn(pc) /\ \E S \in Stages : gcpCmd.pc \in S /\ pc \in S
         \/ gcpCmd.pc \in Preparing /\ GoesOn("dm") /\ gcpCmd.kind = "apply"
         \/ gcpCmd.pc \in Preparing /\ GoesOn("remove") /\ gcpCmd.kind = "delete"
         \/ BlockingWait /\ GoesOn(IF "iam" \in gcpDir.files THEN "clearGet" ELSE "k8s")
         \/ ClearBindings /\ GoesOn("rewriteGet")
         \/ RewriteBindings /\ GoesOn("k8s")
         \/ RemoveBindings /\ SetIamPolicy(ClearIamPolicy(gcpCmd.pol.grants)) /\ GoesOn("endpoint")
<1>1. gcpCmd \in GcpCommandType
  BY DEF GcpTypeInv, GcpCmdOK
<1>2. ASSUME NEW pc, Goto(pc) \/ Again(pc) PROVE GoesOn(pc)
  BY <1>1, <1>2 DEF Goto, Again, GcpCommandType, GoesOn
<1>3. ASSUME NEW outcome, End(outcome) PROVE GcpEnds(outcome)
  BY <1>3 DEF End, GcpEnds
<1>4. ASSUME NEW pc, NEW S \in Stages, gcpCmd.pc \in S, pc \in S, Goto(pc) \/ Again(pc)
      PROVE  GoesOn(pc) /\ \E T \in Stages : gcpCmd.pc \in T /\ pc \in T
  BY <1>2, <1>4
<1>5. CASE GcpInitProject \/ MakeConfigDir \/ GenerateDMConfigs
  BY <1>4, <1>5 DEF GcpInitProject, MakeConfigDir, GenerateDMConfigs, WriteFile, At, Stages, Preparing
<1>6. CASE SkipGenerate \/ PersistParameters
  BY <1>2, <1>3, <1>6 DEF SkipGenerate, PersistParameters, Proceed, At, Preparing
<1>7. CASE UpdateDeployment
  <2>1. gcpCmd.pc = "dm" /\ GoesOn("dm")
    BY <1>1, <1>7 DEF UpdateDeployment, UpdateOrWait, InsertDeployment, GcpCommandType, GoesOn, At
  <2>2. QED
    BY <2>1 DEF Stages, Deploying
<1>8. CASE AllUpdated
  BY <1>4, <1>8 DEF AllUpdated, At, Stages, Deploying
<1>9. CASE BlockingWait
  BY <1>2, <1>3, <1>9 DEF BlockingWait
<1>10. ASSUME NEW get, NEW set, GetIamPolicy(get, set)
       PROVE  gcpCmd.pc = get /\ GoesOn(set)
  BY <1>1, <1>10 DEF GetIamPolicy, GcpCommandType, GoesOn, At
<1>11. CASE \/ GetIamPolicy("clearGet", "clearSet") \/ GetIamPolicy("rewriteGet", "rewriteSet")
            \/ GetIamPolicy("deleteGet", "deleteSet")
  BY <1>10, <1>11 DEF Stages, Deploying, Cleared, Removing
<1>12. CASE ClearBindings \/ RewriteBindings
  BY <1>2, <1>12 DEF ClearBindings, RewriteBindings
<1>13. CASE RemoveBindings
  BY <1>2, <1>3, <1>13 DEF RemoveBindings
<1>14. CASE RetryBindings
  BY <1>4, <1>14 DEF RetryBindings, At, Stages, Deploying, Cleared
<1>15. CASE ConfigK8s \/ SecretExists \/ InsertSecret \/ CreateLogin
  BY <1>4, <1>15 DEF ConfigK8s, SecretExists, InsertSecret, CreateLogin, NextSecret, At, Stages, InCluster
<1>16. CASE CreateKey \/ BindIdentityOnly
  <2>1. \E pc \in {"insert", "manifests", "identity"} : GoesOn(pc)
    BY <1>1, <1>16 DEF CreateKey, BindIdentityOnly, GcpCommandType, GoesOn, At
  <2>2. gcpCmd.pc \in InCluster
    BY <1>16 DEF CreateKey, BindIdentityOnly, At, InCluster
  <2>3. QED
    BY <2>1, <2>2 DEF Stages, InCluster
<1>17. CASE AllowAdminEditUserSA \/ BindIdentities \/ ApplyManifests
  BY <1>4, <1>17 DEF AllowAdminEditUserSA, BindIdentities, ApplyManifests, At, Stages, InCluster
<1>18. CASE AddedConfig
  BY <1>3, <1>18 DEF AddedConfig, At
<1>19. CASE RemoveManifests \/ AllDeleted
  BY <1>4, <1>19 DEF RemoveManifests, AllDeleted, At, Stages, Removing
<1>20. CASE DeleteDeployment
  <2>1. CASE gcpCmd' = [gcpCmd EXCEPT !.pc = "deleted"] /\ UNCHANGED <<gcpLast, gcpUsed>>
    <3>1. GoesOn("deleted")
      BY <1>1, <2>1 DEF GoesOn, GcpCommandType
    <3>2. QED
      BY <1>20, <3>1 DEF DeleteDeployment, At, Stages, Removing
  <2>2. CASE Again("delete") \/ End("failed")
    BY <1>3, <1>4, <1>20, <2>2 DEF DeleteDeployment, At, Stages, Removing
  <2>3. QED
    BY <1>20, <2>1, <2>2 DEF DeleteDeployment
<1>21. CASE WaitDeleted
  BY <1>3, <1>4, <1>21 DEF WaitDeleted, At, Stages, Removing
<1>22. CASE DeleteEndpoints \/ NoClusterFound \/ GcpStop
  BY <1>3, <1>22 DEF DeleteEndpoints, NoClusterFound, GcpStop, GcpEnds
<1>23. CASE GcpWorld
  BY <1>23 DEF GcpWorld, DmDone, DmFailed, ChangeGrant, EndpointUp
<1>24. QED
  BY <1>5, <1>6, <1>7, <1>8, <1>9, <1>11, <1>12, <1>13, <1>14, <1>15, <1>16, <1>17, <1>18, <1>19,
     <1>20, <1>21, <1>22, <1>23 DEF GcpNext, GcpCommand, gcpVars

StageInv ==
  /\ gcpCmd.pc \in Deploying \cup Cleared \cup InCluster => gcpCmd.kind = "apply"
  /\ gcpCmd.pc \in Removing \cup {"endpoint"} => gcpCmd.kind = "delete"
  /\ gcpCmd.pc # "idle" => gcpLast.outcome = "none"

\* The stages have no place in common.
LEMMA StagesApart ==
  /\ \A S, T \in Stages : \A pc : pc \in S /\ pc \in T => S = T
  /\ \A S \in Stages : "idle" \notin S /\ "endpoint" \notin S
BY DEF Stages, Preparing, Deploying, Cleared, InCluster, Removing

LEMMA StageStep ==
  ASSUME GcpTypeInv, StageInv, [GcpNext]_gcpVars
  PROVE  StageInv'
<1> USE DEF StageInv
<1>1. CASE UNCHANGED <<gcpCmd, gcpLast>>
  BY <1>1
<1>2. CASE \E f \in Files : EditFile(f)
  BY <1>2 DEF EditFile, At, Deploying, Cleared, InCluster, Removing
<1>3. CASE \E kind \in {"build", "apply", "delete"} : GcpStart(kind)
  <2>1. gcpCmd'.pc = "enable" /\ gcpLast'.outcome = "none"
    BY <1>3 DEF GcpStart, NoGcpCmd
  <2>2. QED
    BY <2>1 DEF Deploying, Cleared, InCluster, Removing
<1>4. CASE \E outcome : GcpEnds(outcome)
  <2>1. gcpCmd'.pc = "idle"
    BY <1>4, IdleType DEF GcpEnds
  <2>2. QED
    BY <2>1 DEF Deploying, Cleared, InCluster, Removing
<1>5. CASE \E pc : GoesOn(pc) /\ \E S \in Stages : gcpCmd.pc \in S /\ pc \in S
  <2>1. PICK pc : GoesOn(pc) /\ \E S \in Stages : gcpCmd.pc \in S /\ pc \in S
    BY <1>5
  <2>2. PICK S \in Stages : gcpCmd.pc \in S /\ pc \in S
    BY <2>1
  <2>3. QED
    BY <2>1, <2>2, StagesApart DEF GoesOn, Stages
<1>6. CASE gcpCmd.pc \in Preparing /\ GoesOn("dm") /\ gcpCmd.kind = "apply"
  BY <1>6 DEF GoesOn, Preparing, Deploying, Cleared, InCluster, Removing
<1>7. CASE gcpCmd.pc \in Preparing /\ GoesOn("remove") /\ gcpCmd.kind = "delete"
  BY <1>7 DEF GoesOn, Preparing, Deploying, Cleared, InCluster, Removing
<1>8. CASE \/ BlockingWait /\ GoesOn(IF "iam" \in gcpDir.files THEN "clearGet" ELSE "k8s")
           \/ ClearBindings /\ GoesOn("rewriteGet")
           \/ RewriteBindings /\ GoesOn("k8s")
  BY <1>8 DEF BlockingWait, ClearBindings, RewriteBindings, At, GoesOn, Deploying, Cleared, InCluster, Removing
<1>9. CASE RemoveBindings /\ GoesOn("endpoint")
  BY <1>9 DEF RemoveBindings, At, GoesOn, Deploying, Cleared, InCluster, Removing
<1>10. QED
  BY <1>1, <1>2, <1>3, <1>4, <1>5, <1>6, <1>7, <1>8, <1>9, Flow

-----------------------------------------------------------------------------
(* The grants of the service accounts                                       *)

Ours(G)   == {g \in G : g[2] \in ServiceAccounts}
InForce   == Ours(policy.grants) = Ours(FileGrants(IamBindings))
NoneIsOurs == Ours(policy.grants) = {}

GrantsInv ==
  /\ gcpCmd.pc \in Cleared \cup {"endpoint"} => NoneIsOurs
  /\ gcpCmd.pc \in InCluster /\ "iam" \in gcpDir.files => InForce
  /\ Applied /\ "iam" \in gcpDir.files => InForce
  /\ gcpLast = [kind |-> "delete", outcome |-> "ok"] => NoneIsOurs

\* The policy is rewritten by others only where the service accounts are not.
LEMMA OursKept ==
  ASSUME [GcpNext]_gcpVars, ~ClearBindings, ~RewriteBindings, ~RemoveBindings \/ UNCHANGED policy
  PROVE  UNCHANGED Ours(policy.grants)
<1>1. ASSUME NEW r \in Roles, NEW m \in Strangers, ChangeGrant(r, m)
      PROVE  Ours(policy'.grants) = Ours(policy.grants)
  <2>1. m \notin ServiceAccounts
    BY GcpAssumption
  <2>2. QED
    BY <1>1, <2>1 DEF ChangeGrant, Ours
<1>2. QED
  BY <1>1, PolicySteps DEF Ours

\* The files of gcp_config change while a command prepares, or between two.
LEMMA FileSteps ==
  ASSUME [GcpNext]_gcpVars
  PROVE  \/ UNCHANGED inDir
         \/ gcpCmd.pc \in Preparing
         \/ \E f \in Files : EditFile(f)
BY DEF GcpNext, GcpCommand, GcpWorld, gcpVars, inDir, project, At, Preparing,
       GcpStart, GcpInitProject, SkipGenerate, MakeConfigDir, GenerateDMConfigs, WriteFile,
       PersistParameters, UpdateDeployment, AllUpdated, BlockingWait, GetIamPolicy, RetryBindings,
       ClearBindings, RewriteBindings, RemoveBindings,
       ConfigK8s, SecretExists, CreateKey, InsertSecret, CreateLogin, AllowAdminEditUserSA,
       BindIdentities, BindIdentityOnly, ApplyManifests, AddedConfig, RemoveManifests,
       DeleteDeployment, WaitDeleted, AllDeleted, DeleteEndpoints, NoClusterFound, GcpStop,
       DmDone, DmFailed, ChangeGrant, EndpointUp

LEMMA GrantsStep ==
  ASSUME GcpTypeInv, ReadInv, StageInv, GrantsInv, [GcpNext]_gcpVars
  PROVE  GrantsInv'
<1> DEFINE Keeps == UNCHANGED Ours(policy.grants) /\ UNCHANGED inDir
<1>1. Keeps => (NoneIsOurs' <=> NoneIsOurs) /\ (InForce' <=> InForce) /\ UNCHANGED gcpDir.files
  BY DEF NoneIsOurs, InForce, IamBindings, inDir
<1>2. CASE UNCHANGED <<gcpCmd, gcpLast>>
  <2>1. ~ClearBindings /\ ~RewriteBindings /\ (~RemoveBindings \/ UNCHANGED policy)
    BY <1>2, IdleType DEF GcpTypeInv, GcpCmdOK, GcpCommandType, ClearBindings, RewriteBindings, RemoveBindings, Goto, End, At
  <2>2. UNCHANGED Ours(policy.grants)
    BY <2>1, OursKept
  <2>3. CASE UNCHANGED inDir
    BY <1>1, <1>2, <2>2, <2>3 DEF GrantsInv, Applied
  <2>4. CASE gcpCmd.pc \in Preparing
    <3>1. gcpLast.outcome = "none" /\ gcpCmd.pc \notin Cleared \cup {"endpoint"} \cup InCluster
      BY <2>4 DEF StageInv, Preparing, Cleared, InCluster
    <3>2. QED
      BY <1>2, <3>1 DEF GrantsInv, Applied
  <2>5. CASE \E f \in Files : EditFile(f)
    <3>1. gcpLast'.kind = "edit" /\ gcpCmd.pc = "idle"
      BY <2>5 DEF EditFile, At
    <3>2. QED
      BY <1>2, <3>1 DEF GrantsInv, Applied, Cleared, InCluster
  <2>6. QED
    BY <2>3, <2>4, <2>5, FileSteps
<1>3. CASE \E f \in Files : EditFile(f)
  BY <1>3 DEF EditFile, At, GrantsInv, Applied, Cleared, InCluster
<1>4. CASE \E kind \in {"build", "apply", "delete"} : GcpStart(kind)
  <2>1. gcpCmd'.pc = "enable" /\ gcpLast'.outcome = "none"
    BY <1>4 DEF GcpStart, NoGcpCmd
  <2>2. QED
    BY <2>1 DEF GrantsInv, Applied, Cleared, InCluster
<1>5. CASE GcpEnds("failed")
  <2>1. gcpCmd'.pc = "idle" /\ gcpLast'.outcome = "failed"
    BY <1>5, IdleType DEF GcpEnds
  <2>2. QED
    BY <2>1 DEF GrantsInv, Applied, Cleared, InCluster
<1>6. CASE GcpEnds("ok") /\ (gcpCmd.kind = "build" \/ gcpCmd.pc = "added" \/ DeleteEndpoints)
  <2>1. gcpCmd'.pc = "idle" /\ gcpLast' = [kind |-> gcpCmd.kind, outcome |-> "ok"]
    BY <1>6, IdleType DEF GcpEnds
  <2>2. CASE gcpCmd.kind = "build"
    BY <2>1, <2>2 DEF GrantsInv, Applied, Cleared, InCluster
  <2>3. ASSUME gcpCmd.pc \in {"added", "endpoint"} PROVE Keeps
    <3>1. ~ClearBindings /\ ~RewriteBindings /\ ~RemoveBindings
      BY <2>3 DEF ClearBindings, RewriteBindings, RemoveBindings, At
    <3>2. gcpCmd.pc \notin Preparing /\ gcpCmd.pc # "idle"
      BY <2>3 DEF Preparing
    <3>3. QED
      BY <3>1, <3>2, OursKept, FileSteps DEF EditFile, At
  <2>4. CASE gcpCmd.pc = "added"
    <3>1. gcpCmd.pc \in InCluster /\ gcpCmd.kind = "apply"
      BY <2>4 DEF InCluster, StageInv
    <3>2. QED
      BY <1>1, <2>1, <2>3, <2>4, <3>1 DEF GrantsInv, Applied, Cleared, InCluster
  <2>5. CASE DeleteEndpoints
    <3>1. gcpCmd.pc = "endpoint" /\ gcpCmd.kind = "delete"
      BY <2>5 DEF DeleteEndpoints, At, StageInv
    <3>2. QED
      BY <1>1, <2>1, <2>3, <3>1 DEF GrantsInv, Applied, Cleared, InCluster
  <2>6. QED
    BY <1>6, <2>2, <2>4, <2>5
<1>7. ASSUME NEW pc, GoesOn(pc), gcpCmd.pc # "idle",
             pc \in Cleared => NoneIsOurs', pc = "endpoint" => NoneIsOurs',
             pc \in InCluster /\ "iam" \in gcpDir'.files => InForce'
      PROVE  GrantsInv'
  <2>1. gcpLast'.outcome = "none" /\ gcpCmd'.pc = pc
    BY <1>7 DEF GoesOn, StageInv
  <2>2. QED
    BY <1>7, <2>1 DEF GrantsInv, Applied
<1>8. CASE \E pc : GoesOn(pc) /\ \E S \in Stages : gcpCmd.pc \in S /\ pc \in S
  <2>1. PICK pc : GoesOn(pc) /\ \E S \in Stages : gcpCmd.pc \in S /\ pc \in S
    BY <1>8
  <2>2. PICK S \in Stages : gcpCmd.pc \in S /\ pc \in S
    BY <2>1
  <2>3. gcpCmd.pc # "idle" /\ pc # "endpoint"
    BY <2>2, StagesApart
  <2>4. CASE S \in {Cleared, InCluster}
    <3>1. ~ClearBindings /\ ~RewriteBindings /\ ~RemoveBindings
      <4>1. CASE ClearBindings \/ RemoveBindings
        BY <2>2, <2>4, <4>1 DEF ClearBindings, RemoveBindings, At, Cleared, InCluster
      <4>2. CASE RewriteBindings
        <5>1. gcpCmd.pc = "rewriteSet" /\ gcpCmd'.pc = "k8s"
          BY <4>2 DEF RewriteBindings, At, Goto, GcpTypeInv, GcpCmdOK, GcpCommandType
        <5>2. QED
          BY <2>1, <2>2, <2>4, <5>1 DEF GoesOn, Cleared, InCluster
      <4>3. QED
        BY <4>1, <4>2
    <3>2. gcpCmd.pc \notin Preparing
      BY <2>2, <2>4 DEF Preparing, Cleared, InCluster
    <3>3. Keeps
      BY <2>3, <3>1, <3>2, OursKept, FileSteps DEF EditFile, At
    <3>4. QED
      BY <1>1, <1>7, <2>1, <2>2, <2>3, <2>4, <3>3 DEF GrantsInv, Cleared, InCluster
  <2>5. CASE S \notin {Cleared, InCluster}
    <3>1. pc \notin Cleared /\ pc \notin InCluster
      BY <2>2, <2>5, StagesApart DEF Stages
    <3>2. QED
      BY <1>7, <2>1, <2>3, <3>1
  <2>6. QED
    BY <2>4, <2>5
<1>9. CASE gcpCmd.pc \in Preparing /\ (GoesOn("dm") \/ GoesOn("remove"))
  BY <1>7, <1>9 DEF Preparing, Cleared, InCluster
<1>10. CASE BlockingWait /\ GoesOn(IF "iam" \in gcpDir.files THEN "clearGet" ELSE "k8s")
  <2>1. gcpCmd.pc = "wait" /\ UNCHANGED gcpDir
    BY <1>10 DEF BlockingWait, At, inDir
  <2>2. QED
    BY <1>7, <1>10, <2>1 DEF Cleared, InCluster
<1>11. CASE ClearBindings /\ GoesOn("rewriteGet")
  <2>1. gcpCmd.pc = "clearSet" /\ SetIamPolicy(ClearIamPolicy(gcpCmd.pol.grants))
    BY <1>11 DEF ClearBindings, At
  <2>2. policy'.grants = ClearIamPolicy(policy.grants)
    BY <2>1, WriteOfRead
  <2>3. NoneIsOurs'
    BY <2>2 DEF NoneIsOurs, Ours, ClearIamPolicy
  <2>4. QED
    BY <1>7, <1>11, <2>1, <2>3 DEF InCluster
<1>12. CASE RewriteBindings /\ GoesOn("k8s")
  <2>1. /\ gcpCmd.pc = "rewriteSet" /\ UNCHANGED fileRev
        /\ SetIamPolicy(RewriteIamPolicy(gcpCmd.pol.grants, FileGrants(IamBindings)))
    BY <1>12 DEF RewriteBindings, At, inDir
  <2>2. policy'.grants = policy.grants \cup FileGrants(IamBindings)
    BY <2>1, WriteOfRead DEF RewriteIamPolicy
  <2>3. NoneIsOurs
    BY <2>1 DEF GrantsInv, Cleared
  <2>4. Ours(policy'.grants) = Ours(FileGrants(IamBindings))
    BY <2>2, <2>3 DEF NoneIsOurs, Ours
  <2>5. InForce'
    BY <2>1, <2>4 DEF InForce, IamBindings
  <2>6. QED
    BY <1>7, <1>12, <2>1, <2>5 DEF Cleared
<1>13. CASE RemoveBindings /\ SetIamPolicy(ClearIamPolicy(gcpCmd.pol.grants)) /\ GoesOn("endpoint")
  <2>1. gcpCmd.pc = "deleteSet"
    BY <1>13 DEF RemoveBindings, At
  <2>2. policy'.grants = ClearIamPolicy(policy.grants)
    BY <1>13, <2>1, WriteOfRead
  <2>3. NoneIsOurs'
    BY <2>2 DEF NoneIsOurs, Ours, ClearIamPolicy
  <2>4. QED
    BY <1>7, <1>13, <2>1, <2>3 DEF Cleared, InCluster
<1>14. QED
  BY <1>2, <1>3, <1>4, <1>5, <1>6, <1>8, <1>9, <1>10, <1>11, <1>12, <1>13, Flow

\* A successful apply leaves the service accounts with exactly the roles of the
\* iam_bindings.yaml it has read, through any retries, earlier commands that
\* stopped, and rewrites by others (updateDM).
THEOREM GrantsAreInForce == GcpSpec => []GrantsInForce
<1>1. GcpInit => GcpTypeInv /\ ReadInv /\ StageInv /\ GrantsInv
  <2>1. GcpInit => gcpCmd.pc = "idle" /\ gcpLast = [kind |-> "none", outcome |-> "none"]
    BY IdleType DEF GcpInit
  <2>2. QED
    BY <2>1, GcpInitType DEF ReadInv, StageInv, GrantsInv, Applied, Deploying, Cleared, InCluster, Removing
<1>2. /\ GcpTypeInv /\ ReadInv /\ StageInv /\ GrantsInv /\ [GcpNext]_gcpVars
      => (GcpTypeInv /\ ReadInv /\ StageInv /\ GrantsInv)'
  BY GcpNextType, ReadStep, StageStep, GrantsStep
<1>3. GrantsInv => GrantsInForce
  BY DEF GrantsInv, GrantsInForce, InForce, Ours
<1>4. QED
  BY <1>1, <1>2, <1>3, PTL DEF GcpSpec

-----------------------------------------------------------------------------
(* Keys: one more than stops only while its secret is there or about to be  *)

HasSecret(s) ==
  s \in gke.secrets \/ (gcpCmd.pc = "insert" /\ KeyOwners[gcpCmd.at] = s)

KeysInv ==
  /\ \A s \in ServiceAccounts : keys[s] <= gcpUsed["stops"] + (IF HasSecret(s) THEN 1 ELSE 0)
  /\ ~ClusterUp => gke.secrets = {} /\ \A s \in ServiceAccounts : keys[s] = 0

\* The keys change when one is created or goes with the cluster.
LEMMA KeySteps ==
  ASSUME [GcpNext]_gcpVars
  PROVE  UNCHANGED keys \/ CreateKey \/ \E d \in Deployments : DmDone(d)
BY DEF GcpNext, GcpCommand, GcpWorld, gcpVars, inDir, project,
       GcpStart, GcpInitProject, SkipGenerate, MakeConfigDir, GenerateDMConfigs, WriteFile,
       PersistParameters, UpdateDeployment, AllUpdated, BlockingWait, GetIamPolicy, RetryBindings,
       ClearBindings, RewriteBindings, RemoveBindings,
       ConfigK8s, SecretExists, InsertSecret, CreateLogin, AllowAdminEditUserSA,
       BindIdentities, BindIdentityOnly, ApplyManifests, AddedConfig, RemoveManifests,
       DeleteDeployment, WaitDeleted, AllDeleted, DeleteEndpoints, NoClusterFound, GcpStop,
       DmFailed, ChangeGrant, EditFile, EndpointUp

\* Secrets are only added, by a command that finds the cluster up.
LEMMA SecretSteps ==
  ASSUME GcpTypeInv, [GcpNext]_gcpVars
  PROVE  \/ UNCHANGED gke.secrets
         \/ gke.secrets \subseteq gke'.secrets /\ ClusterUp
         \/ \E d \in Deployments : DmDone(d)
<1>1. gke = [secrets |-> gke.secrets, accounts |-> gke.accounts, admin |-> gke.admin,
             manifests |-> gke.manifests, copied |-> gke.copied]
  BY DEF GcpTypeInv, ClusterOK
<1>2. CASE ConfigK8s \/ BindIdentities \/ BindIdentityOnly \/ ApplyManifests \/ AddedConfig \/ RemoveManifests
  BY <1>1, <1>2 DEF ConfigK8s, BindIdentities, BindIdentityOnly, SetupWorkloadIdentity, ApplyManifests,
                    AddedConfig, RemoveManifests
<1>3. CASE InsertSecret \/ CreateLogin
  BY <1>1, <1>3 DEF InsertSecret, CreateLogin
<1>4. QED
  BY <1>2, <1>3
  DEF GcpNext, GcpCommand, GcpWorld, gcpVars, inDir, project,
       GcpStart, GcpInitProject, SkipGenerate, MakeConfigDir, GenerateDMConfigs, WriteFile,
       PersistParameters, UpdateDeployment, AllUpdated, BlockingWait, GetIamPolicy, RetryBindings,
       ClearBindings, RewriteBindings, RemoveBindings, SecretExists, CreateKey, AllowAdminEditUserSA,
       DeleteDeployment, WaitDeleted, AllDeleted, DeleteEndpoints, NoClusterFound, GcpStop,
       DmFailed, ChangeGrant, EditFile, EndpointUp

\* The deployments change as a command starts operations and as these end.
LEMMA DmSteps ==
  ASSUME [GcpNext]_gcpVars
  PROVE  \/ UNCHANGED dm
         \/ UpdateDeployment
         \/ DeleteDeployment
         \/ \E d \in Deployments : DmDone(d) \/ DmFailed(d)
BY DEF GcpNext, GcpCommand, GcpWorld, gcpVars, inDir, project,
       GcpStart, GcpInitProject, SkipGenerate, MakeConfigDir, GenerateDMConfigs, WriteFile,
       PersistParameters, AllUpdated, BlockingWait, GetIamPolicy, RetryBindings,
       ClearBindings, RewriteBindings, RemoveBindings,
       ConfigK8s, SecretExists, CreateKey, InsertSecret, CreateLogin, AllowAdminEditUserSA,
       BindIdentities, BindIdentityOnly, ApplyManifests, AddedConfig, RemoveManifests,
       WaitDeleted, AllDeleted, DeleteEndpoints, NoClusterFound, GcpStop,
       ChangeGrant, EditFile, EndpointUp

\* What each of these steps writes.
Running(d, target) == [dm[d] EXCEPT !.target = target, !.status = "RUNNING", !.error = FALSE]

LEMMA DmWrites ==
  ASSUME GcpTypeInv, [GcpNext]_gcpVars
  PROVE  \/ UNCHANGED dm
         \/ \E d \in Deployments :
              \/ dm[d].present /\ \E target \in Nat : dm' = [dm EXCEPT ![d] = Running(d, target)]
              \/ ~dm[d].present /\ \E target \in Nat :
                   dm' = [dm EXCEPT ![d] = [present |-> TRUE, rev |-> Gone, target |-> target,
                                            status |-> "RUNNING", error |-> FALSE]]
              \/ DmDone(d) \/ DmFailed(d)
<1>1. \A d \in Deployments : dm[d] \in Deployment /\ fileRev[d] \in Nat /\ Gone \in Nat
  BY DEF GcpTypeInv, DmOK, DirOK, Files, Gone
<1>2. CASE UpdateDeployment
  <2> DEFINE d == DmOrder[gcpCmd.at]
  <2>1. d \in Deployments
    BY <1>2, Lists DEF UpdateDeployment
  <2>2. CASE UpdateOrWait(d) /\ dm[d].present
    <3>1. UNCHANGED dm \/ dm' = [dm EXCEPT ![d] = Running(d, fileRev[d])]
      BY <2>2 DEF UpdateOrWait, Running
    <3>2. QED
      BY <1>1, <2>1, <2>2, <3>1
  <2>3. CASE InsertDeployment(d) /\ ~dm[d].present
    BY <1>1, <2>1, <2>3 DEF InsertDeployment
  <2>4. QED
    BY <1>2, <2>2, <2>3 DEF UpdateDeployment
<1>3. CASE DeleteDeployment
  <2>1. DeletingAt \in Deployments
    BY <1>3, Lists DEF DeleteDeployment, DeletingAt
  <2>2. \/ UNCHANGED dm
        \/ /\ dm[DeletingAt].present
           /\ dm' = [dm EXCEPT ![DeletingAt].target = Gone, ![DeletingAt].status = "RUNNING",
                               ![DeletingAt].error = FALSE]
    BY <1>3 DEF DeleteDeployment
  <2>3. \/ UNCHANGED dm
        \/ dm[DeletingAt].present /\ dm' = [dm EXCEPT ![DeletingAt] = Running(DeletingAt, Gone)]
    BY <1>1, <2>1, <2>2 DEF Running, Deployment
  <2>4. QED
    BY <1>1, <2>1, <2>3
<1>4. QED
  BY <1>2, <1>3, DmSteps

AbsentInv == \A d \in Deployments : ~dm[d].present => dm[d] = NoDeployment

LEMMA AbsentStep ==
  ASSUME GcpTypeInv, AbsentInv, [GcpNext]_gcpVars
  PROVE  AbsentInv'
<1>1. ASSUME NEW d \in Deployments, NEW new, dm' = [dm EXCEPT ![d] = new],
             new.present \/ new = NoDeployment
      PROVE  AbsentInv'
  BY <1>1 DEF AbsentInv, GcpTypeInv, DmOK
<1>2. ASSUME NEW d \in Deployments, DmDone(d) PROVE AbsentInv'
  <2>1. dm[d].present /\ dm[d] \in Deployment
    BY <1>2 DEF DmDone, GcpTypeInv, DmOK
  <2>2. CASE dm[d].target = Gone
    BY <1>1, <1>2, <2>2 DEF DmDone
  <2>3. CASE dm[d].target # Gone
    <3>1. dm' = [dm EXCEPT ![d] = [dm[d] EXCEPT !.rev = dm[d].target, !.status = "DONE"]]
      BY <1>2, <2>3 DEF DmDone
    <3>2. QED
      BY <1>1, <2>1, <3>1 DEF Deployment
  <2>4. QED
    BY <2>2, <2>3
<1>3. ASSUME NEW d \in Deployments, DmFailed(d) PROVE AbsentInv'
  <2>1. dm[d].present /\ dm[d] \in Deployment
    BY <1>3 DEF DmFailed, GcpTypeInv, DmOK
  <2>2. dm' = [dm EXCEPT ![d] = [dm[d] EXCEPT !.status = "DONE", !.error = TRUE]]
    BY <1>3 DEF DmFailed
  <2>3. QED
    BY <1>1, <2>1, <2>2 DEF Deployment
<1>4. ASSUME NEW d \in Deployments, NEW target, dm[d].present,
             dm' = [dm EXCEPT ![d] = Running(d, target)]
      PROVE  AbsentInv'
  <2>1. Running(d, target).present
    BY <1>4 DEF Running, GcpTypeInv, DmOK, Deployment
  <2>2. QED
    BY <1>1, <1>4, <2>1
<1>5. CASE UNCHANGED dm
  BY <1>5 DEF AbsentInv
<1>6. QED
  BY <1>1, <1>2, <1>3, <1>4, <1>5, DmWrites

\* The cluster is there until its deployment's deletion ends.
LEMMA ClusterKept ==
  ASSUME GcpTypeInv, AbsentInv, [GcpNext]_gcpVars, ~DmDone("main")
  PROVE  ClusterUp' <=> ClusterUp
<1>1. "main" \in Deployments /\ dm \in [Deployments -> Deployment]
  BY DEF Deployments, GcpTypeInv, DmOK
<1>2. ASSUME NEW d \in Deployments, NEW new, dm' = [dm EXCEPT ![d] = new], new.rev = dm[d].rev
      PROVE  ClusterUp' <=> ClusterUp
  BY <1>1, <1>2 DEF ClusterUp
<1>3. ASSUME NEW d \in Deployments, NEW target, dm' = [dm EXCEPT ![d] = Running(d, target)]
      PROVE  ClusterUp' <=> ClusterUp
  <2>1. Running(d, target).rev = dm[d].rev
    BY <1>1 DEF Running, Deployment
  <2>2. QED
    BY <1>2, <1>3, <2>1
<1>4. ASSUME NEW d \in Deployments, NEW target \in Nat, ~dm[d].present,
             dm' = [dm EXCEPT ![d] = [present |-> TRUE, rev |-> Gone, target |-> target,
                                      status |-> "RUNNING", error |-> FALSE]]
      PROVE  ClusterUp' <=> ClusterUp
  <2>1. dm[d].rev = Gone
    BY <1>4 DEF AbsentInv, NoDeployment
  <2>2. QED
    BY <1>2, <1>4, <2>1
<1>5. ASSUME NEW d \in Deployments, DmFailed(d) PROVE ClusterUp' <=> ClusterUp
  <2>1. dm' = [dm EXCEPT ![d] = [dm[d] EXCEPT !.status = "DONE", !.error = TRUE]]
    BY <1>5 DEF DmFailed
  <2>2. QED
    BY <1>1, <1>2, <2>1 DEF Deployment
<1>6. ASSUME NEW d \in Deployments, d # "main", DmDone(d) PROVE ClusterUp' <=> ClusterUp
  BY <1>1, <1>6 DEF DmDone, ClusterUp
<1>7. CASE UNCHANGED dm
  BY <1>7 DEF ClusterUp
<1>8. QED
  BY <1>3, <1>4, <1>5, <1>6, <1>7, DmWrites

\* A command that has created a key puts it into its secret, unless it stops.
LEMMA InsertSteps ==
  ASSUME GcpTypeInv, [GcpNext]_gcpVars, gcpCmd.pc = "insert"
  PROVE  UNCHANGED gcpCmd \/ InsertSecret \/ GcpStop \/ NoClusterFound
BY DEF GcpNext, GcpCommand, GcpWorld, gcpVars, inDir, project, At,
       GcpStart, GcpInitProject, SkipGenerate, MakeConfigDir, GenerateDMConfigs, WriteFile,
       PersistParameters, UpdateDeployment, AllUpdated, BlockingWait, GetIamPolicy, RetryBindings,
       ClearBindings, RewriteBindings, RemoveBindings,
       ConfigK8s, SecretExists, CreateKey, CreateLogin, AllowAdminEditUserSA,
       BindIdentities, BindIdentityOnly, ApplyManifests, AddedConfig, RemoveManifests,
       DeleteDeployment, WaitDeleted, AllDeleted, DeleteEndpoints,
       DmDone, DmFailed, ChangeGrant, EditFile, EndpointUp

LEMMA StopsGrow ==
  ASSUME GcpTypeInv, [GcpNext]_gcpVars
  PROVE  /\ gcpUsed'["stops"] \in Nat /\ gcpUsed["stops"] \in Nat
         /\ gcpUsed'["stops"] >= gcpUsed["stops"]
         /\ GcpStop => gcpUsed'["stops"] = gcpUsed["stops"] + 1
<1>1. gcpUsed["stops"] \in Nat /\ "stops" \in GcpEventKinds /\ gcpUsed \in [GcpEventKinds -> Nat]
  BY DEF GcpTypeInv, UsedOK, GcpEventKinds
<1>2. ASSUME NEW e, GcpSpend(e) PROVE gcpUsed'["stops"] = IF e = "stops" THEN gcpUsed["stops"] + 1
                                                           ELSE gcpUsed["stops"]
  BY <1>1, <1>2 DEF GcpSpend
<1>3. UNCHANGED gcpUsed \/ \E e : GcpSpend(e)
  BY DEF GcpNext, GcpCommand, GcpWorld, gcpVars, inDir, project, Goto, Again, End, NextSecret, Proceed,
         GcpStart, GcpInitProject, SkipGenerate, MakeConfigDir, GenerateDMConfigs, WriteFile,
         PersistParameters, UpdateDeployment, AllUpdated, BlockingWait, GetIamPolicy, RetryBindings,
         ClearBindings, RewriteBindings, RemoveBindings,
         ConfigK8s, SecretExists, CreateKey, InsertSecret, CreateLogin, AllowAdminEditUserSA,
         BindIdentities, BindIdentityOnly, ApplyManifests, AddedConfig, RemoveManifests,
         DeleteDeployment, WaitDeleted, AllDeleted, DeleteEndpoints, NoClusterFound, GcpStop,
         DmDone, DmFailed, ChangeGrant, EditFile, EndpointUp
<1>4. GcpStop => GcpSpend("stops")
  BY DEF GcpStop
<1>5. QED
  BY <1>1, <1>2, <1>3, <1>4

LEMMA KeysStep ==
  ASSUME GcpTypeInv, AbsentInv, KeysInv, [GcpNext]_gcpVars
  PROVE  KeysInv'
<1> DEFINE Owned(s) == IF HasSecret(s) THEN 1 ELSE 0
<1>1. /\ keys \in [ServiceAccounts -> Nat] /\ gcpUsed["stops"] \in Nat
      /\ \A s \in ServiceAccounts : keys[s] \in Nat /\ Owned(s) \in 0..1
  BY DEF GcpTypeInv, ClusterOK, UsedOK, GcpEventKinds
<1>2. gcpUsed'["stops"] \in Nat /\ gcpUsed'["stops"] >= gcpUsed["stops"]
  BY StopsGrow
<1>3. ASSUME NEW d \in Deployments, DmDone(d) PROVE KeysInv'
  <2>1. CASE d = "main" /\ dm[d].target = Gone
    <3>1. gke'.secrets = {} /\ \A s \in ServiceAccounts : keys'[s] = 0
      BY <1>3, <2>1 DEF DmDone, NoCluster
    <3>2. QED
      BY <1>2, <3>1 DEF KeysInv
  <2>2. CASE ~(d = "main" /\ dm[d].target = Gone)
    <3>1. UNCHANGED <<gke, keys, gcpCmd, gcpUsed>>
      BY <1>3, <2>2 DEF DmDone
    <3>2. ClusterUp => ClusterUp'
      BY <1>3, <2>2 DEF DmDone, ClusterUp, GcpTypeInv, DmOK, Deployment
    <3>3. QED
      BY <3>1, <3>2 DEF KeysInv, HasSecret
  <2>3. QED
    BY <2>1, <2>2
<1>4. ASSUME \A d \in Deployments : ~DmDone(d) PROVE KeysInv'
  <2>1. ClusterUp' <=> ClusterUp
    BY <1>4, ClusterKept DEF Deployments
  <2>2. gke.secrets \subseteq gke'.secrets /\ (~ClusterUp => UNCHANGED gke.secrets)
    BY <1>4, SecretSteps
  <2>3. CASE CreateKey
    <3> DEFINE o == KeyOwners[gcpCmd.at]
    <3>1. /\ gcpCmd.pc = "secret" /\ ClusterUp /\ o \notin gke.secrets
          /\ keys' = [keys EXCEPT ![o] = keys[o] + 1]
          /\ gcpCmd' = [gcpCmd EXCEPT !.pc = "insert"] /\ UNCHANGED <<gke, gcpUsed>>
      BY <2>3 DEF CreateKey, At
    <3>2. o \in ServiceAccounts
      BY <3>1, Lists DEF GcpTypeInv, GcpCmdOK
    <3>3. gcpCmd'.pc = "insert" /\ gcpCmd'.at = gcpCmd.at
      BY <3>1 DEF GcpTypeInv, GcpCmdOK, GcpCommandType
    <3>4. ~HasSecret(o) /\ HasSecret(o)'
      BY <3>1, <3>3 DEF HasSecret
    <3>5. \A s \in ServiceAccounts : HasSecret(s) => HasSecret(s)'
      BY <2>2, <3>1 DEF HasSecret
    <3>6. ASSUME NEW s \in ServiceAccounts
          PROVE  keys'[s] <= gcpUsed'["stops"] + (IF HasSecret(s)' THEN 1 ELSE 0)
      <4>1. keys[s] <= gcpUsed["stops"] + Owned(s)
        BY DEF KeysInv
      <4>2. CASE s = o
        BY <1>1, <3>1, <3>2, <3>4, <4>1, <4>2
      <4>3. CASE s # o
        BY <1>1, <3>1, <3>2, <3>5, <4>1, <4>3
      <4>4. QED
        BY <4>2, <4>3
    <3>7. QED
      BY <2>1, <3>1, <3>6 DEF KeysInv
  <2>4. CASE UNCHANGED keys
    <3>1. ~ClusterUp' => gke'.secrets = {} /\ \A s \in ServiceAccounts : keys'[s] = 0
      BY <2>1, <2>2, <2>4 DEF KeysInv
    <3>2. ASSUME NEW s \in ServiceAccounts
          PROVE  keys'[s] <= gcpUsed'["stops"] + (IF HasSecret(s)' THEN 1 ELSE 0)
      <4>1. keys[s] <= gcpUsed["stops"] + Owned(s)
        BY DEF KeysInv
      <4>2. CASE HasSecret(s) => HasSecret(s)'
        BY <1>1, <1>2, <2>4, <4>1, <4>2
      <4>3. CASE HasSecret(s) /\ ~HasSecret(s)'
        <5>1. gcpCmd.pc = "insert" /\ KeyOwners[gcpCmd.at] = s /\ s \notin gke'.secrets
          BY <2>2, <4>3 DEF HasSecret
        <5>2. CASE UNCHANGED gcpCmd
          BY <4>3, <5>1, <5>2 DEF HasSecret
        <5>3. CASE InsertSecret
          <6>1. gke'.secrets = gke.secrets \cup {s}
            BY <5>1, <5>3 DEF InsertSecret, GcpTypeInv, ClusterOK
          <6>2. QED
            BY <5>1, <6>1
        <5>4. CASE GcpStop
          BY <1>1, <2>4, <4>1, <5>4, StopsGrow
        <5>5. CASE NoClusterFound
          BY <1>2, <2>4, <5>5 DEF NoClusterFound, KeysInv
        <5>6. QED
          BY <5>1, <5>2, <5>3, <5>4, <5>5, InsertSteps
      <4>4. QED
        BY <4>2, <4>3
    <3>3. QED
      BY <3>1, <3>2 DEF KeysInv
  <2>5. QED
    BY <1>4, <2>3, <2>4, KeySteps
<1>5. QED
  BY <1>3, <1>4

\* However often kfctl applies, a service account has at most one key more than
\* commands have been stopped (createGcpServiceAcctSecret).
THEOREM KeysAreBounded == GcpSpec => []KeysBounded
<1>1. GcpInit => GcpTypeInv /\ AbsentInv /\ KeysInv
  <2>1. GcpInit => AbsentInv
    BY DEF GcpInit, AbsentInv
  <2>2. GcpInit => KeysInv
    BY DEF GcpInit, KeysInv, NoCluster, GcpEventKinds, HasSecret, NoGcpCmd
  <2>3. QED
    BY <2>1, <2>2, GcpInitType
<1>2. GcpTypeInv /\ AbsentInv /\ KeysInv /\ [GcpNext]_gcpVars => (GcpTypeInv /\ AbsentInv /\ KeysInv)'
  BY GcpNextType, AbsentStep, KeysStep
<1>3. GcpTypeInv /\ KeysInv => KeysBounded
  <2>1. GcpTypeInv => gcpUsed["stops"] \in Nat /\ \A s \in ServiceAccounts : keys[s] \in Nat
    BY DEF GcpTypeInv, UsedOK, GcpEventKinds, ClusterOK
  <2>2. QED
    BY <2>1 DEF KeysInv, KeysBounded
<1>4. QED
  BY <1>1, <1>2, <1>3, PTL DEF GcpSpec

-----------------------------------------------------------------------------
(* Deletion: what is behind the command in its list is gone                 *)

\* Only an apply brings a deployment back.
LEMMA GoneStays ==
  ASSUME GcpTypeInv, [GcpNext]_gcpVars, gcpCmd.pc # "dm", NEW d \in Deployments, ~dm[d].present
  PROVE  ~dm'[d].present
<1>1. dm \in [Deployments -> Deployment] /\ dm[d].status # "RUNNING" /\ ~UpdateDeployment
  BY DEF GcpTypeInv, DmOK, UpdateDeployment, At
<1>2. CASE UNCHANGED dm
  BY <1>2
<1>3. CASE DeleteDeployment
  <2>1. DeletingAt \in Deployments
    BY <1>3, Lists DEF DeleteDeployment, DeletingAt
  <2>2. \/ UNCHANGED dm
        \/ /\ dm[DeletingAt].present
           /\ dm' = [dm EXCEPT ![DeletingAt].target = Gone, ![DeletingAt].status = "RUNNING",
                               ![DeletingAt].error = FALSE]
    BY <1>3 DEF DeleteDeployment
  <2>3. QED
    BY <1>1, <2>1, <2>2
<1>4. ASSUME NEW e \in Deployments, DmDone(e) \/ DmFailed(e) PROVE ~dm'[d].present
  BY <1>1, <1>4 DEF DmDone, DmFailed
<1>5. QED
  BY <1>1, <1>2, <1>3, <1>4, DmSteps

AllGone == \A d \in DeletingDeployments : ~dm[d].present

\* The operation a deletion waits for: under way, done or failed.
OnItsWay(d) ==
  \/ ~dm[d].present
  \/ dm[d].status = "RUNNING" /\ dm[d].target = Gone
  \/ dm[d].status = "DONE" /\ dm[d].error

DeletedInv ==
  /\ gcpCmd.pc \in {"delete", "deleted"} =>
       \A i \in DOMAIN DeleteOrder :
         i < gcpCmd.at /\ DeleteOrder[i] \in DeletingDeployments => ~dm[DeleteOrder[i]].present
  /\ gcpCmd.pc = "deleted" => OnItsWay(DeletingAt)
  /\ gcpCmd.pc \in {"deleteGet", "deleteSet", "endpoint"} => AllGone
  /\ gcpLast = [kind |-> "delete", outcome |-> "ok"] => AllGone

LEMMA DeletingIn == DeletingDeployments \subseteq Deployments
BY DEF DeletingDeployments, Deployments

\* The whole list is all there is to delete.
LEMMA DeleteOrderCovers ==
  ASSUME \A i \in DOMAIN DeleteOrder :
           DeleteOrder[i] \in DeletingDeployments => ~dm[DeleteOrder[i]].present
  PROVE  AllGone
<1>1. /\ DeleteOrder[1] = "main" /\ DeleteOrder[2] = "storage"
      /\ DeleteOrder[3] = "network" /\ DeleteOrder[4] = "gcfs"
  BY DEF DeleteOrder
<1>2. \A d \in DeletingDeployments : \E i \in 1..4 : DeleteOrder[i] = d
  BY <1>1, DeletingIn DEF Deployments
<1>3. QED
  BY <1>2, Lists DEF AllGone

LEMMA OnItsWayKept ==
  ASSUME GcpTypeInv, [GcpNext]_gcpVars, UNCHANGED gcpCmd, gcpCmd.pc = "deleted", OnItsWay(DeletingAt)
  PROVE  OnItsWay(DeletingAt)'
<1> DEFINE d == DeletingAt
<1>1. /\ d \in Deployments /\ dm \in [Deployments -> Deployment] /\ DeletingAt' = d
      /\ ~UpdateDeployment /\ ~DeleteDeployment
  BY Lists DEF GcpTypeInv, DmOK, GcpCmdOK, DeletingAt, UpdateDeployment, DeleteDeployment, At
<1>2. ASSUME NEW e \in Deployments, DmDone(e) PROVE OnItsWay(d)'
  <2>1. CASE e = d
    <3>1. dm[d].status = "RUNNING"
      BY <1>2, <2>1 DEF DmDone
    <3>2. ~dm[d].present \/ dm[d].target = Gone
      BY <3>1 DEF OnItsWay
    <3>3. dm[d].present
      BY <1>1, <3>1 DEF GcpTypeInv, DmOK
    <3>4. dm'[d] = NoDeployment
      BY <1>1, <1>2, <2>1, <3>2, <3>3 DEF DmDone
    <3>5. QED
      BY <1>1, <3>4 DEF OnItsWay, NoDeployment
  <2>2. CASE e # d
    BY <1>1, <1>2, <2>2 DEF DmDone, OnItsWay
  <2>3. QED
    BY <2>1, <2>2
<1>3. ASSUME NEW e \in Deployments, DmFailed(e) PROVE OnItsWay(d)'
  <2>1. dm' = [dm EXCEPT ![e] = [dm[e] EXCEPT !.status = "DONE", !.error = TRUE]]
    BY <1>3 DEF DmFailed
  <2>2. CASE e = d
    <3>1. dm'[d].status = "DONE" /\ dm'[d].error
      BY <1>1, <2>1, <2>2 DEF Deployment
    <3>2. QED
      BY <1>1, <3>1 DEF OnItsWay
  <2>3. CASE e # d
    BY <1>1, <2>1, <2>3 DEF OnItsWay
  <2>4. QED
    BY <2>2, <2>3
<1>4. CASE UNCHANGED dm
  BY <1>1, <1>4 DEF OnItsWay
<1>5. QED
  BY <1>1, <1>2, <1>3, <1>4, DmSteps

\* The steps of a deletion, from its manifests on.
LEMMA GcpRemovingSteps ==
  ASSUME GcpTypeInv, [GcpNext]_gcpVars, gcpCmd.pc \in Removing \cup {"endpoint"}
  PROVE  \/ UNCHANGED gcpCmd \/ NoClusterFound \/ GcpStop \/ DeleteEndpoints
         \/ RemoveManifests \/ DeleteDeployment \/ WaitDeleted \/ AllDeleted
         \/ GetIamPolicy("deleteGet", "deleteSet") \/ RemoveBindings
BY DEF GcpNext, GcpCommand, GcpWorld, gcpVars, inDir, project, At, Removing,
       GcpStart, GcpInitProject, SkipGenerate, MakeConfigDir, GenerateDMConfigs, WriteFile,
       PersistParameters, UpdateDeployment, AllUpdated, BlockingWait, GetIamPolicy, RetryBindings,
       ClearBindings, RewriteBindings,
       ConfigK8s, SecretExists, CreateKey, InsertSecret, CreateLogin, AllowAdminEditUserSA,
       BindIdentities, BindIdentityOnly, ApplyManifests, AddedConfig,
       DmDone, DmFailed, ChangeGrant, EditFile, EndpointUp

LEMMA AllGoneStays ==
  ASSUME GcpTypeInv, [GcpNext]_gcpVars, gcpCmd.pc # "dm", UNCHANGED inDir, AllGone
  PROVE  AllGone'
<1>1. DeletingDeployments' = DeletingDeployments
  BY DEF DeletingDeployments, inDir
<1>2. QED
  BY <1>1, GoneStays, DeletingIn DEF AllGone

LEMMA RemovingStep ==
  ASSUME GcpTypeInv, StageInv, DeletedInv, [GcpNext]_gcpVars, gcpCmd.pc \in Removing \cup {"endpoint"}
  PROVE  DeletedInv'
<1>1. /\ UNCHANGED inDir /\ gcpCmd.pc # "idle" /\ gcpLast.outcome = "none" /\ gcpCmd.pc # "dm"
      /\ gcpCmd \in GcpCommandType /\ gcpCmd.at \in Nat
  BY FileSteps DEF Removing, Preparing, EditFile, At, StageInv, GcpTypeInv, GcpCmdOK, GcpCommandType
<1>2. DeletingDeployments' = DeletingDeployments
  BY <1>1 DEF DeletingDeployments, inDir
<1>3. ASSUME NEW d \in Deployments, ~dm[d].present PROVE ~dm'[d].present
  BY <1>1, <1>3, GoneStays
<1>4. AllGone => AllGone'
  BY <1>1, AllGoneStays
<1> DEFINE Behind(at) == \A i \in DOMAIN DeleteOrder :
                          i < at /\ DeleteOrder[i] \in DeletingDeployments => ~dm[DeleteOrder[i]].present
<1> DEFINE BehindNext(at) == \A i \in DOMAIN DeleteOrder :
                              i < at /\ DeleteOrder[i] \in DeletingDeployments' => ~dm'[DeleteOrder[i]].present
<1>5. ASSUME NEW at, Behind(at) PROVE BehindNext(at)
  BY <1>2, <1>3, <1>5, Lists
<1>6. ASSUME gcpCmd'.pc = "idle", gcpLast'.outcome = "failed" PROVE DeletedInv'
  BY <1>6 DEF DeletedInv
<1>7. ASSUME UNCHANGED gcpLast, gcpCmd'.pc \notin {"delete", "deleted", "deleteGet", "deleteSet", "endpoint"}
      PROVE  DeletedInv'
  BY <1>1, <1>7 DEF DeletedInv
<1>8. ASSUME UNCHANGED gcpLast, gcpCmd'.pc \in {"deleteGet", "deleteSet", "endpoint"}, AllGone
      PROVE  DeletedInv'
  BY <1>1, <1>4, <1>8 DEF DeletedInv
<1>9. CASE UNCHANGED gcpCmd
  <2>1. UNCHANGED gcpLast
    BY <1>1, <1>9, IdleType, Flow DEF EditFile, At, GcpStart, NoGcpCmd, GcpEnds, GoesOn, Removing, Preparing
  <2>2. gcpCmd.pc = "deleted" => OnItsWay(DeletingAt)'
    BY <1>9, OnItsWayKept DEF DeletedInv
  <2>3. gcpCmd.pc \in {"delete", "deleted"} => BehindNext(gcpCmd.at)
    BY <1>5 DEF DeletedInv
  <2>4. QED
    BY <1>1, <1>4, <1>9, <2>1, <2>2, <2>3 DEF DeletedInv
<1>10. CASE NoClusterFound \/ GcpStop
  BY <1>6, <1>10, IdleType DEF NoClusterFound, GcpStop, End
<1>11. CASE DeleteEndpoints
  <2>1. gcpCmd'.pc = "idle" /\ gcpCmd.pc = "endpoint"
    BY <1>11, IdleType DEF DeleteEndpoints, End, At
  <2>2. QED
    BY <1>4, <2>1 DEF DeletedInv
<1>12. CASE RemoveManifests
  <2>1. gcpCmd'.pc = "delete" /\ gcpCmd'.at = 1 /\ UNCHANGED gcpLast
    BY <1>1, <1>12 DEF RemoveManifests, Goto, GcpCommandType
  <2>2. \A i \in DOMAIN DeleteOrder : ~(i < 1)
    BY Lists
  <2>3. QED
    BY <1>1, <2>1, <2>2 DEF DeletedInv
<1>13. ASSUME Again("delete"), gcpCmd.pc \in {"delete", "deleted"}, gcpCmd.at \in DOMAIN DeleteOrder,
              DeletingAt \in DeletingDeployments => ~dm[DeletingAt].present
       PROVE  DeletedInv'
  <2>1. gcpCmd'.pc = "delete" /\ gcpCmd'.at = gcpCmd.at + 1 /\ UNCHANGED gcpLast
    BY <1>1, <1>13 DEF Again, GcpCommandType
  <2>2. Behind(gcpCmd.at)
    BY <1>13 DEF DeletedInv
  <2>3. Behind(gcpCmd.at + 1)
    BY <1>1, <1>13, <2>2, Lists DEF DeletingAt
  <2>4. BehindNext(gcpCmd.at + 1)
    BY <1>5, <2>3
  <2>5. QED
    BY <1>1, <2>1, <2>4 DEF DeletedInv
<1>14. CASE DeleteDeployment
  <2>1. gcpCmd.pc = "delete" /\ gcpCmd.at \in DOMAIN DeleteOrder /\ DeletingAt \in Deployments
    BY <1>14, Lists DEF DeleteDeployment, At, DeletingAt
  <2>2. CASE Again("delete") /\ (DeletingAt \notin DeletingDeployments \/ ~dm[DeletingAt].present)
    BY <1>13, <2>1, <2>2
  <2>3. CASE /\ dm' = [dm EXCEPT ![DeletingAt].target = Gone, ![DeletingAt].status = "RUNNING",
                                 ![DeletingAt].error = FALSE]
             /\ gcpCmd' = [gcpCmd EXCEPT !.pc = "deleted"] /\ UNCHANGED <<gcpLast, gcpUsed>>
    <3>1. gcpCmd'.pc = "deleted" /\ gcpCmd'.at = gcpCmd.at
      BY <1>1, <2>3 DEF GcpCommandType
    <3>2. DeletingAt' = DeletingAt
      BY <3>1 DEF DeletingAt
    <3>3. dm'[DeletingAt].status = "RUNNING" /\ dm'[DeletingAt].target = Gone
      BY <2>1, <2>3 DEF GcpTypeInv, DmOK, Deployment
    <3>4. BehindNext(gcpCmd.at)
      BY <1>5, <2>1 DEF DeletedInv
    <3>5. OnItsWay(DeletingAt)'
      BY <3>2, <3>3 DEF OnItsWay
    <3>6. UNCHANGED gcpLast
      BY <2>3
    <3>7. QED
      BY <1>1, <3>1, <3>4, <3>5, <3>6 DEF DeletedInv
  <2>4. CASE End("failed")
    BY <1>6, <2>4, IdleType DEF End
  <2>5. QED
    BY <1>14, <2>2, <2>3, <2>4 DEF DeleteDeployment
<1>15. CASE WaitDeleted
  <2>1. gcpCmd.pc = "deleted" /\ gcpCmd.at \in DOMAIN DeleteOrder /\ dm[DeletingAt].status = "DONE"
    BY <1>15 DEF WaitDeleted, At, GcpTypeInv, GcpCmdOK
  <2>2. OnItsWay(DeletingAt)
    BY <2>1 DEF DeletedInv
  <2>3. CASE dm[DeletingAt].error
    BY <1>6, <1>15, <2>3, IdleType DEF WaitDeleted, End
  <2>4. CASE ~dm[DeletingAt].error
    BY <1>13, <1>15, <2>1, <2>2, <2>4 DEF WaitDeleted, OnItsWay
  <2>5. QED
    BY <2>3, <2>4
<1>16. CASE AllDeleted
  <2>1. gcpCmd.pc = "delete" /\ gcpCmd.at > 4 /\ gcpCmd'.pc = "deleteGet" /\ UNCHANGED gcpLast
    BY <1>1, <1>16, Lists DEF AllDeleted, At, Goto, GcpCommandType
  <2>2. \A i \in DOMAIN DeleteOrder : i < gcpCmd.at
    BY <1>1, <2>1, Lists
  <2>3. AllGone
    BY <2>1, <2>2, DeleteOrderCovers DEF DeletedInv
  <2>4. QED
    BY <1>8, <2>1, <2>3
<1>17. CASE GetIamPolicy("deleteGet", "deleteSet")
  BY <1>1, <1>8, <1>17 DEF GetIamPolicy, At, GcpCommandType, DeletedInv
<1>18. CASE RemoveBindings
  <2>1. gcpCmd.pc = "deleteSet"
    BY <1>18 DEF RemoveBindings, At
  <2>2. CASE Goto("endpoint")
    BY <1>1, <1>8, <2>1, <2>2 DEF Goto, GcpCommandType, DeletedInv
  <2>3. CASE End("failed")
    BY <1>6, <2>3, IdleType DEF End
  <2>4. QED
    BY <1>18, <2>2, <2>3 DEF RemoveBindings
<1>19. QED
  BY <1>9, <1>10, <1>11, <1>12, <1>14, <1>15, <1>16, <1>17, <1>18, GcpRemovingSteps

LEMMA DeletedStep ==
  ASSUME GcpTypeInv, StageInv, DeletedInv, [GcpNext]_gcpVars
  PROVE  DeletedInv'
<1> SUFFICES ASSUME gcpCmd.pc \notin Removing \cup {"endpoint"} PROVE DeletedInv'
  BY RemovingStep
<1>1. ASSUME gcpCmd'.pc \notin {"delete", "deleted", "deleteGet", "deleteSet", "endpoint"},
             gcpLast' # [kind |-> "delete", outcome |-> "ok"]
      PROVE  DeletedInv'
  BY <1>1 DEF DeletedInv
<1>2. CASE \E f \in Files : EditFile(f)
  BY <1>1, <1>2 DEF EditFile, At
<1>3. CASE \E kind \in {"build", "apply", "delete"} : GcpStart(kind)
  <2>1. gcpCmd'.pc = "enable" /\ gcpLast'.outcome = "none"
    BY <1>3 DEF GcpStart, NoGcpCmd
  <2>2. QED
    BY <1>1, <2>1
<1>4. CASE GcpEnds("failed")
  BY <1>1, <1>4, IdleType DEF GcpEnds
<1>5. CASE GcpEnds("ok") /\ (gcpCmd.kind = "build" \/ gcpCmd.pc = "added" \/ DeleteEndpoints)
  <2>1. gcpCmd.kind # "delete"
    BY <1>5 DEF StageInv, InCluster, DeleteEndpoints, At
  <2>2. gcpCmd'.pc = "idle" /\ gcpLast'.kind # "delete"
    BY <1>5, <2>1, IdleType DEF GcpEnds
  <2>3. QED
    BY <1>1, <2>2
<1>6. ASSUME NEW pc, GoesOn(pc), gcpCmd.pc # "idle",
             pc \notin {"delete", "deleted", "deleteGet", "deleteSet", "endpoint"}
      PROVE  DeletedInv'
  BY <1>1, <1>6 DEF GoesOn, StageInv
<1>7. CASE \E pc : GoesOn(pc) /\ \E S \in Stages : gcpCmd.pc \in S /\ pc \in S
  <2>1. PICK pc : GoesOn(pc) /\ \E S \in Stages : gcpCmd.pc \in S /\ pc \in S
    BY <1>7
  <2>2. PICK S \in Stages : gcpCmd.pc \in S /\ pc \in S
    BY <2>1
  <2>3. gcpCmd.pc # "idle" /\ pc # "endpoint" /\ pc \notin Removing
    BY <2>2, StagesApart DEF Stages
  <2>4. QED
    BY <1>6, <2>1, <2>3 DEF Removing
<1>8. CASE gcpCmd.pc \in Preparing /\ (GoesOn("dm") \/ GoesOn("remove"))
  BY <1>6, <1>8 DEF Preparing
<1>9. CASE \/ BlockingWait /\ GoesOn(IF "iam" \in gcpDir.files THEN "clearGet" ELSE "k8s")
           \/ ClearBindings /\ GoesOn("rewriteGet")
           \/ RewriteBindings /\ GoesOn("k8s")
  BY <1>6, <1>9 DEF BlockingWait, ClearBindings, RewriteBindings, At
<1>10. CASE RemoveBindings
  BY <1>10 DEF RemoveBindings, At, Removing
<1>11. CASE UNCHANGED <<gcpCmd, gcpLast>>
  <2>1. gcpCmd'.pc \notin {"delete", "deleted", "deleteGet", "deleteSet", "endpoint"}
    BY <1>11 DEF Removing
  <2>2. CASE gcpLast # [kind |-> "delete", outcome |-> "ok"]
    BY <1>1, <1>11, <2>1, <2>2
  <2>3. CASE gcpLast = [kind |-> "delete", outcome |-> "ok"]
    <3>1. gcpCmd.pc = "idle" /\ AllGone
      BY <2>3 DEF StageInv, DeletedInv
    <3>2. UNCHANGED inDir
      BY <1>2, <1>11, <2>3, <3>1, FileSteps DEF Preparing, EditFile
    <3>3. AllGone'
      BY <3>1, <3>2, AllGoneStays
    <3>4. QED
      BY <2>1, <3>3 DEF DeletedInv
  <2>4. QED
    BY <2>2, <2>3
<1>12. QED
  BY <1>2, <1>3, <1>4, <1>5, <1>7, <1>8, <1>9, <1>10, <1>11, Flow

\* A deletion that reports success has left none of the deployments it had to
\* delete and no role of the service accounts, whatever commands ran, stopped
\* or failed before it (Delete).
THEOREM NothingIsLeft == GcpSpec => []NothingLeft
<1> DEFINE Inv == GcpTypeInv /\ ReadInv /\ StageInv /\ GrantsInv /\ DeletedInv
<1>1. GcpInit => Inv
  <2>1. GcpInit => gcpCmd.pc = "idle" /\ gcpLast = [kind |-> "none", outcome |-> "none"]
    BY IdleType DEF GcpInit
  <2>2. QED
    BY <2>1, GcpInitType DEF ReadInv, StageInv, GrantsInv, DeletedInv, Applied,
                          Deploying, Cleared, InCluster, Removing
<1>2. Inv /\ [GcpNext]_gcpVars => Inv'
  BY GcpNextType, ReadStep, StageStep, GrantsStep, DeletedStep
<1>3. Inv => NothingLeft
  BY DEF GrantsInv, DeletedInv, NothingLeft, NoneIsOurs, Ours, AllGone, DeletingDeployments
<1>4. QED
  BY <1>1, <1>2, <1>3, PTL DEF GcpSpec
-----------------------------------------------------------------------------
(* Apply: what it has waited for is current                                 *)

Waited == {"clearGet", "clearSet"} \cup Cleared \cup InCluster

\* The operation an apply has started on a deployment: under way, failed, or
\* done with the file of gcp_config.
Started(d) ==
  /\ dm[d].present /\ dm[d].target = fileRev[d]
  /\ dm[d].status = "RUNNING" \/ dm[d].error \/ dm[d].rev = fileRev[d]

AtRest(d) ==
  /\ dm[d].status = "DONE" /\ ~dm[d].error
  /\ d \notin gcpCmd.stale => dm[d].present /\ dm[d].rev = fileRev[d]

WaitInv ==
  /\ \A f \in Files : fileRev[f] # Gone
  /\ gcpCmd.pc \in Preparing => gcpCmd.waits = {}
  /\ gcpCmd.pc = "dm" =>
       \A i \in DOMAIN DmOrder : i < gcpCmd.at /\ DmOrder[i] \in gcpDir.files => DmOrder[i] \in gcpCmd.waits
  /\ gcpCmd.pc = "wait" => gcpDir.files \cap Deployments \subseteq gcpCmd.waits
  /\ gcpCmd.pc \in {"dm", "wait"} => \A d \in gcpCmd.waits \ gcpCmd.stale : Started(d)
  /\ gcpCmd.pc \in Waited => \A d \in gcpDir.files \cap Deployments : AtRest(d)

LEMMA DmOrderCovers == \A d \in Deployments : \E i \in 1..4 : DmOrder[i] = d
<1>1. DmOrder[1] = "storage" /\ DmOrder[2] = "main" /\ DmOrder[3] = "network" /\ DmOrder[4] = "gcfs"
  BY DEF DmOrder
<1>2. QED
  BY <1>1 DEF Deployments

LEMMA RevisionsGrow ==
  ASSUME GcpTypeInv, WaitInv, [GcpNext]_gcpVars
  PROVE  \A f \in Files : fileRev'[f] # Gone
<1>1. fileRev \in [Files -> Nat]
  BY DEF GcpTypeInv, DirOK
<1>2. ASSUME NEW f \in Files, EditFile(f) PROVE \A g \in Files : fileRev'[g] # Gone
  <2>1. UNCHANGED fileRev \/ fileRev' = [fileRev EXCEPT ![f] = fileRev[f] + 1]
    BY <1>2 DEF EditFile
  <2>2. QED
    BY <1>1, <2>1 DEF WaitInv, Gone
<1>3. UNCHANGED fileRev \/ \E f \in Files : EditFile(f)
  BY DEF GcpNext, GcpCommand, GcpWorld, gcpVars, inDir, project,
       GcpStart, GcpInitProject, SkipGenerate, MakeConfigDir, GenerateDMConfigs, WriteFile,
       PersistParameters, UpdateDeployment, AllUpdated, BlockingWait, GetIamPolicy, RetryBindings,
       ClearBindings, RewriteBindings, RemoveBindings,
       ConfigK8s, SecretExists, CreateKey, InsertSecret, CreateLogin, AllowAdminEditUserSA,
       BindIdentities, BindIdentityOnly, ApplyManifests, AddedConfig, RemoveManifests,
       DeleteDeployment, WaitDeleted, AllDeleted, DeleteEndpoints, NoClusterFound, GcpStop,
       DmDone, DmFailed, ChangeGrant, EndpointUp
<1>4. QED
  BY <1>2, <1>3 DEF WaitInv

\* The steps of an apply while it updates and waits.
LEMMA DeployingSteps ==
  ASSUME GcpTypeInv, [GcpNext]_gcpVars, gcpCmd.pc \in {"dm", "wait"}
  PROVE  \/ UpdateDeployment \/ AllUpdated \/ BlockingWait \/ GcpStop
         \/ UNCHANGED <<inDir, gcpCmd>> /\ (UNCHANGED dm \/ \E d \in Deployments : DmDone(d) \/ DmFailed(d))
BY DEF GcpNext, GcpCommand, GcpWorld, gcpVars, inDir, project, At,
       GcpStart, GcpInitProject, SkipGenerate, MakeConfigDir, GenerateDMConfigs, WriteFile,
       PersistParameters, GetIamPolicy, RetryBindings,
       ClearBindings, RewriteBindings, RemoveBindings,
       ConfigK8s, SecretExists, CreateKey, InsertSecret, CreateLogin, AllowAdminEditUserSA,
       BindIdentities, BindIdentityOnly, ApplyManifests, AddedConfig, RemoveManifests,
       DeleteDeployment, WaitDeleted, AllDeleted, DeleteEndpoints, NoClusterFound,
       DmDone, DmFailed, ChangeGrant, EditFile, EndpointUp

\* A command on its way keeps what it waits for, or forgets it as it ends.
LEMMA WaitsKept ==
  ASSUME GcpTypeInv, [GcpNext]_gcpVars
  PROVE  \/ UpdateDeployment
         \/ gcpCmd'.waits = gcpCmd.waits /\ gcpCmd'.stale = gcpCmd.stale
         \/ gcpCmd'.waits = {} /\ gcpCmd'.pc \in {"idle", "enable"}
<1>1. gcpCmd \in GcpCommandType
  BY DEF GcpTypeInv, GcpCmdOK
<1>2. ASSUME NEW pc, Goto(pc) \/ Again(pc) PROVE gcpCmd'.waits = gcpCmd.waits /\ gcpCmd'.stale = gcpCmd.stale
  BY <1>1, <1>2 DEF Goto, Again, GcpCommandType
<1>3. ASSUME NEW outcome, End(outcome) PROVE gcpCmd'.waits = {} /\ gcpCmd'.pc = "idle"
  BY <1>3 DEF End, NoGcpCmd
<1>4. CASE GcpWorld \/ UNCHANGED gcpVars
  BY <1>4 DEF GcpWorld, gcpVars, DmDone, DmFailed, ChangeGrant, EditFile, EndpointUp
<1>5. CASE GcpStop \/ \E kind \in {"build", "apply", "delete"} : GcpStart(kind)
  <2>1. CASE GcpStop
    BY <2>1 DEF GcpStop, NoGcpCmd
  <2>2. ASSUME NEW kind, GcpStart(kind) PROVE gcpCmd'.waits = {} /\ gcpCmd'.pc = "enable"
    BY <2>2 DEF GcpStart, NoGcpCmd
  <2>3. QED
    BY <1>5, <2>1, <2>2
<1>6. CASE \/ GetIamPolicy("clearGet", "clearSet") \/ GetIamPolicy("rewriteGet", "rewriteSet")
           \/ GetIamPolicy("deleteGet", "deleteSet") \/ CreateKey \/ BindIdentityOnly
  BY <1>1, <1>6 DEF GetIamPolicy, CreateKey, BindIdentityOnly, GcpCommandType
<1>7. CASE DeleteDeployment
  <2>1. CASE gcpCmd' = [gcpCmd EXCEPT !.pc = "deleted"]
    BY <1>1, <2>1 DEF GcpCommandType
  <2>2. QED
    BY <1>2, <1>3, <1>7, <2>1 DEF DeleteDeployment
<1>8. CASE \/ GcpInitProject \/ SkipGenerate \/ MakeConfigDir \/ GenerateDMConfigs \/ PersistParameters
           \/ AllUpdated \/ BlockingWait \/ ClearBindings \/ RewriteBindings \/ RetryBindings
  BY <1>2, <1>3, <1>8 DEF GcpInitProject, SkipGenerate, MakeConfigDir, GenerateDMConfigs, WriteFile,
       PersistParameters, Proceed, AllUpdated, BlockingWait, ClearBindings, RewriteBindings, RetryBindings
<1>9. CASE \/ ConfigK8s \/ SecretExists \/ InsertSecret \/ CreateLogin \/ AllowAdminEditUserSA
           \/ BindIdentities \/ ApplyManifests \/ AddedConfig
  BY <1>2, <1>3, <1>9 DEF ConfigK8s, SecretExists, InsertSecret, NextSecret, CreateLogin,
       AllowAdminEditUserSA, BindIdentities, ApplyManifests, AddedConfig
<1>10. CASE \/ RemoveManifests \/ WaitDeleted \/ AllDeleted \/ RemoveBindings \/ DeleteEndpoints
            \/ NoClusterFound
  BY <1>2, <1>3, <1>10 DEF RemoveManifests, WaitDeleted, AllDeleted, RemoveBindings, DeleteEndpoints,
       NoClusterFound
<1>11. QED
  BY <1>4, <1>5, <1>6, <1>7, <1>8, <1>9, <1>10 DEF GcpNext, GcpCommand

\* Where a command may go from, and to, the stages before and after the wait.
LEMMA WaitedFlow ==
  ASSUME GcpTypeInv, StageInv, [GcpNext]_gcpVars
  PROVE  /\ gcpCmd.pc \in Waited => gcpCmd'.pc \in Waited \cup {"idle"}
         /\ gcpCmd.pc \notin Waited \cup {"dm", "wait"} =>
              /\ gcpCmd'.pc \notin Waited \cup {"wait"}
              /\ gcpCmd'.pc = "dm" => gcpCmd.pc \in Preparing /\ gcpCmd'.at = 1
              /\ gcpCmd'.pc \in Preparing \ {"enable"} => gcpCmd.pc \in Preparing
              /\ gcpCmd'.pc = "enable" => gcpCmd'.waits = {} \/ gcpCmd.pc = "enable"
<1>1. gcpCmd \in GcpCommandType
  BY DEF GcpTypeInv, GcpCmdOK
<1>2. ASSUME NEW pc, Goto(pc) PROVE gcpCmd'.pc = pc /\ gcpCmd'.at = 1
  BY <1>1, <1>2 DEF Goto, GcpCommandType
<1>3. ASSUME NEW pc, Again(pc) PROVE gcpCmd'.pc = pc
  BY <1>1, <1>3 DEF Again, GcpCommandType
<1>4. ASSUME NEW outcome, End(outcome) PROVE gcpCmd'.pc = "idle"
  BY <1>4 DEF End, NoGcpCmd
<1> USE DEF Waited, Preparing, Cleared, InCluster
<1>5. CASE GcpWorld \/ UNCHANGED gcpVars
  BY <1>5 DEF GcpWorld, gcpVars, DmDone, DmFailed, ChangeGrant, EditFile, EndpointUp
<1>6. CASE GcpStop \/ \E kind \in {"build", "apply", "delete"} : GcpStart(kind)
  <2>1. CASE GcpStop
    BY <2>1, IdleType DEF GcpStop
  <2>2. ASSUME NEW kind, GcpStart(kind) PROVE gcpCmd'.waits = {} /\ gcpCmd'.pc = "enable" /\ gcpCmd.pc = "idle"
    BY <2>2 DEF GcpStart, NoGcpCmd, At
  <2>3. QED
    BY <1>6, <2>1, <2>2
<1>7. ASSUME NEW get, NEW set, GetIamPolicy(get, set) PROVE gcpCmd.pc = get /\ gcpCmd'.pc = set
  BY <1>1, <1>7 DEF GetIamPolicy, At, GcpCommandType
<1>8. CASE \/ GetIamPolicy("clearGet", "clearSet") \/ GetIamPolicy("rewriteGet", "rewriteSet")
           \/ GetIamPolicy("deleteGet", "deleteSet")
  BY <1>7, <1>8
<1>9. CASE CreateKey \/ BindIdentityOnly
  <2>1. gcpCmd'.pc \in {"insert", "manifests", "identity"}
    BY <1>1, <1>9 DEF CreateKey, BindIdentityOnly, GcpCommandType, At
  <2>2. gcpCmd.pc \in {"secret", "identity"}
    BY <1>9 DEF CreateKey, BindIdentityOnly, At
  <2>3. QED
    BY <2>1, <2>2
<1>10. CASE DeleteDeployment
  <2>1. CASE gcpCmd' = [gcpCmd EXCEPT !.pc = "deleted"]
    <3>1. gcpCmd'.pc = "deleted"
      BY <1>1, <2>1 DEF GcpCommandType
    <3>2. QED
      BY <1>10, <3>1 DEF DeleteDeployment, At
  <2>2. QED
    BY <1>3, <1>4, <1>10, <2>1 DEF DeleteDeployment, At
<1>11. CASE \/ GcpInitProject \/ SkipGenerate \/ MakeConfigDir \/ GenerateDMConfigs \/ PersistParameters
  BY <1>2, <1>4, <1>11 DEF GcpInitProject, SkipGenerate, MakeConfigDir, GenerateDMConfigs, WriteFile,
       PersistParameters, Proceed, At
<1>12. CASE UpdateDeployment \/ AllUpdated \/ BlockingWait
  BY <1>12 DEF UpdateDeployment, AllUpdated, BlockingWait, At
<1>13. CASE ClearBindings \/ RewriteBindings \/ RetryBindings
  BY <1>2, <1>13 DEF ClearBindings, RewriteBindings, RetryBindings, At
<1>14. CASE \/ ConfigK8s \/ SecretExists \/ InsertSecret \/ CreateLogin
  BY <1>2, <1>3, <1>14 DEF ConfigK8s, SecretExists, InsertSecret, NextSecret, CreateLogin, At
<1>15. CASE AllowAdminEditUserSA \/ BindIdentities \/ ApplyManifests \/ AddedConfig
  BY <1>2, <1>3, <1>4, <1>15 DEF AllowAdminEditUserSA, BindIdentities, ApplyManifests, AddedConfig, At
<1>16. CASE \/ RemoveManifests \/ WaitDeleted \/ AllDeleted \/ RemoveBindings \/ DeleteEndpoints
            \/ NoClusterFound
  BY <1>2, <1>3, <1>4, <1>16 DEF RemoveManifests, WaitDeleted, AllDeleted, RemoveBindings,
       DeleteEndpoints, NoClusterFound, At
<1>17. QED
  BY <1>5, <1>6, <1>8, <1>9, <1>10, <1>11, <1>12, <1>13, <1>14, <1>15, <1>16 DEF GcpNext, GcpCommand

\* One step of the invariant while the apply updates.
LEMMA UpdateStep ==
  ASSUME GcpTypeInv, WaitInv, UpdateDeployment
  PROVE  WaitInv'
<1>0. PICK d \in Deployments : d = DmOrder[gcpCmd.at]
  BY Lists DEF UpdateDeployment
<1>1. /\ gcpCmd.pc = "dm" /\ gcpCmd.at \in 1..4 /\ gcpDir' = gcpDir /\ fileRev' = fileRev
      /\ gcpCmd \in GcpCommandType /\ dm \in [Deployments -> Deployment] /\ DOMAIN DmOrder = 1..4
      /\ gcpCmd.waits \subseteq Deployments
  BY Lists DEF UpdateDeployment, At, GcpTypeInv, GcpCmdOK, DmOK, GcpCommandType, inDir
<1>2. /\ gcpCmd'.pc = "dm" /\ gcpCmd'.at = gcpCmd.at + 1
      /\ gcpCmd'.waits = IF d \in gcpDir.files THEN gcpCmd.waits \cup {d} ELSE gcpCmd.waits
      /\ gcpCmd'.stale = gcpCmd.stale \/ gcpCmd'.stale = gcpCmd.stale \cup {d}
  BY <1>0, <1>1 DEF UpdateDeployment, UpdateOrWait, InsertDeployment, GcpCommandType
<1>3. /\ \A e \in Deployments \ {d} : dm'[e] = dm[e]
      /\ d \notin gcpDir.files => dm'[d] = dm[d]
  BY <1>0, <1>1 DEF UpdateDeployment, UpdateOrWait, InsertDeployment
<1>4. ASSUME d \in gcpDir.files, d \notin gcpCmd'.stale PROVE Started(d)'
  <2>1. fileRev[d] \in Nat /\ fileRev'[d] = fileRev[d] /\ dm[d] \in Deployment
    BY <1>1 DEF GcpTypeInv, DirOK, DmOK, Files
  <2>2. CASE InsertDeployment(d)
    BY <1>1, <2>1, <2>2 DEF InsertDeployment, Started
  <2>3. CASE UpdateOrWait(d) /\ dm[d].present
    <3>1. dm' = [dm EXCEPT ![d].target = fileRev[d], ![d].status = "RUNNING", ![d].error = FALSE]
      BY <1>1, <1>4, <2>3 DEF UpdateOrWait, GcpCommandType
    <3>2. dm' = [dm EXCEPT ![d] = Running(d, fileRev[d])]
      BY <1>1, <3>1 DEF Running, Deployment
    <3>3. dm'[d].present /\ dm'[d].target = fileRev[d] /\ dm'[d].status = "RUNNING"
      BY <1>1, <2>1, <2>3, <3>2 DEF Running, Deployment
    <3>4. QED
      BY <2>1, <3>3 DEF Started
  <2>4. QED
    BY <1>0, <1>4, <2>2, <2>3 DEF UpdateDeployment
<1>5. \A e \in gcpCmd'.waits \ gcpCmd'.stale : Started(e)'
  <2> SUFFICES ASSUME NEW e \in gcpCmd'.waits \ gcpCmd'.stale PROVE Started(e)'
    OBVIOUS
  <2>1. CASE e # d \/ d \notin gcpDir.files
    <3>1. e \in gcpCmd.waits /\ e \notin gcpCmd.stale /\ dm'[e] = dm[e]
      BY <1>1, <1>2, <1>3, <2>1
    <3>2. Started(e)
      BY <1>1, <3>1 DEF WaitInv
    <3>3. QED
      BY <1>1, <3>1, <3>2 DEF Started, inDir
  <2>2. QED
    BY <1>4, <2>1
<1>6. \A i \in DOMAIN DmOrder : i < gcpCmd'.at /\ DmOrder[i] \in gcpDir'.files => DmOrder[i] \in gcpCmd'.waits
  <2> SUFFICES ASSUME NEW i \in 1..4, i < gcpCmd.at + 1, DmOrder[i] \in gcpDir.files
               PROVE  DmOrder[i] \in gcpCmd'.waits
    BY <1>1, <1>2 DEF inDir
  <2>1. CASE i = gcpCmd.at
    BY <1>0, <1>2, <2>1
  <2>2. CASE i # gcpCmd.at
    <3>1. i < gcpCmd.at
      BY <1>1, <2>2
    <3>2. QED
      BY <1>1, <1>2, <3>1 DEF WaitInv
  <2>3. QED
    BY <2>1, <2>2
<1>7. \A f \in Files : fileRev'[f] # Gone
  BY <1>1 DEF inDir, WaitInv
<1>8. QED
  BY <1>2, <1>5, <1>6, <1>7 DEF WaitInv, Waited, Preparing, Cleared, InCluster

\* An operation that ends keeps the invariant: the apply cannot tell when.
LEMMA OperationStep ==
  ASSUME GcpTypeInv, WaitInv, UNCHANGED <<inDir, gcpCmd>>,
         UNCHANGED dm \/ \E d \in Deployments : DmDone(d) \/ DmFailed(d)
  PROVE  WaitInv'
<1>1. dm \in [Deployments -> Deployment] /\ gcpCmd.waits \subseteq Deployments
  BY DEF GcpTypeInv, DmOK, GcpCmdOK, GcpCommandType
<1>2. ASSUME NEW e \in Deployments, Started(e) PROVE Started(e)'
  <2>1. dm[e] \in Deployment /\ fileRev'[e] = fileRev[e] /\ fileRev[e] # Gone
    BY <1>1 DEF inDir, WaitInv, Files
  <2>2. CASE dm'[e] = dm[e]
    BY <1>2, <2>1, <2>2 DEF Started
  <2>3. CASE DmDone(e)
    <3>1. dm'[e] = [dm[e] EXCEPT !.rev = dm[e].target, !.status = "DONE"]
      BY <1>1, <1>2, <2>1, <2>3 DEF DmDone, Started
    <3>2. dm'[e].present /\ dm'[e].target = dm[e].target /\ dm'[e].rev = dm[e].target
      BY <1>2, <2>1, <3>1 DEF Deployment, Started
    <3>3. QED
      BY <1>2, <2>1, <3>2 DEF Started
  <2>4. CASE DmFailed(e)
    <3>1. dm' = [dm EXCEPT ![e] = [dm[e] EXCEPT !.status = "DONE", !.error = TRUE]]
      BY <2>4 DEF DmFailed
    <3>2. dm'[e].present /\ dm'[e].target = dm[e].target /\ dm'[e].error
      BY <1>1, <1>2, <2>1, <3>1 DEF Deployment, Started
    <3>3. QED
      BY <1>2, <2>1, <3>2 DEF Started
  <2>5. dm'[e] = dm[e] \/ DmDone(e) \/ DmFailed(e)
    BY <1>1 DEF DmDone, DmFailed
  <2>6. QED
    BY <2>2, <2>3, <2>4, <2>5
<1>3. ASSUME NEW e \in Deployments, AtRest(e) PROVE AtRest(e)'
  <2>1. dm'[e] = dm[e]
    BY <1>1, <1>3 DEF AtRest, DmDone, DmFailed
  <2>2. QED
    BY <1>3, <2>1 DEF AtRest, inDir
<1>4. gcpCmd' = gcpCmd /\ gcpDir' = gcpDir /\ fileRev' = fileRev
  BY DEF inDir
<1>5. gcpCmd.pc \in {"dm", "wait"} => \A d \in gcpCmd.waits \ gcpCmd.stale : Started(d)'
  BY <1>1, <1>2 DEF WaitInv
<1>6. gcpCmd.pc \in Waited => \A d \in gcpDir.files \cap Deployments : AtRest(d)'
  BY <1>3 DEF WaitInv
<1>7. QED
  BY <1>4, <1>5, <1>6 DEF WaitInv

LEMMA WaitStep ==
  ASSUME GcpTypeInv, StageInv, WaitInv, [GcpNext]_gcpVars
  PROVE  WaitInv'
<1>1. gcpCmd \in GcpCommandType /\ \A f \in Files : fileRev'[f] # Gone
  BY RevisionsGrow DEF GcpTypeInv, GcpCmdOK
<1>2. ASSUME gcpCmd'.pc = "idle" PROVE WaitInv'
  BY <1>1, <1>2 DEF WaitInv, Waited, Preparing, Cleared, InCluster
<1>3. CASE gcpCmd.pc \in {"dm", "wait"}
  <2>1. CASE AllUpdated
    <3>1. /\ gcpCmd'.pc = "wait" /\ gcpCmd'.waits = gcpCmd.waits /\ gcpCmd'.stale = gcpCmd.stale
          /\ UNCHANGED <<dm, inDir>> /\ gcpCmd.pc = "dm" /\ gcpCmd.at > 4
      BY <1>1, <2>1, Lists DEF AllUpdated, Goto, At, GcpCommandType, project
    <3>2. gcpDir.files \cap Deployments \subseteq gcpCmd.waits
      <4> SUFFICES ASSUME NEW d \in gcpDir.files \cap Deployments PROVE d \in gcpCmd.waits
        OBVIOUS
      <4>1. PICK i \in 1..4 : DmOrder[i] = d
        BY DmOrderCovers
      <4>2. i < gcpCmd.at
        BY <1>1, <3>1 DEF GcpCommandType
      <4>3. QED
        BY <3>1, <4>1, <4>2, Lists DEF WaitInv
    <3>3. \A d \in gcpCmd'.waits \ gcpCmd'.stale : Started(d)'
      BY <3>1 DEF WaitInv, Started, inDir
    <3>4. QED
      BY <1>1, <3>1, <3>2, <3>3 DEF WaitInv, Waited, Preparing, Cleared, InCluster, inDir
  <2>2. CASE BlockingWait
    <3>1. CASE End("failed")
      BY <1>2, <3>1, IdleType DEF End
    <3>2. CASE /\ \A d \in gcpCmd.waits : dm[d].status = "DONE" /\ ~dm[d].error
               /\ Goto(IF "iam" \in gcpDir.files THEN "clearGet" ELSE "k8s")
      <4>1. /\ gcpCmd'.pc \in {"clearGet", "k8s"} /\ gcpCmd'.stale = gcpCmd.stale
            /\ UNCHANGED <<dm, inDir>> /\ gcpCmd.pc = "wait"
        BY <1>1, <2>2, <3>2 DEF BlockingWait, Goto, At, GcpCommandType, project
      <4>2. \A d \in gcpDir.files \cap Deployments : AtRest(d)'
        BY <3>2, <4>1 DEF WaitInv, Started, AtRest, inDir
      <4>3. QED
        BY <1>1, <4>1, <4>2 DEF WaitInv, Waited, Preparing, Cleared, InCluster, inDir
    <3>3. QED
      BY <2>2, <3>1, <3>2 DEF BlockingWait
  <2>3. CASE GcpStop
    BY <1>2, <2>3, IdleType DEF GcpStop
  <2>4. QED
    BY <1>3, <2>1, <2>2, <2>3, DeployingSteps, UpdateStep, OperationStep
<1>4. CASE gcpCmd.pc \in Waited
  <2>1. gcpCmd.kind = "apply" /\ ~UpdateDeployment /\ ~DeleteDeployment
    BY <1>4 DEF StageInv, Waited, Deploying, Cleared, InCluster, UpdateDeployment, DeleteDeployment, At
  <2>2. UNCHANGED inDir
    BY <1>4, FileSteps DEF EditFile, At, Preparing, Waited, Cleared, InCluster
  <2>3. CASE gcpCmd'.pc \in Waited
    <3>1. gcpCmd'.stale = gcpCmd.stale
      BY <2>1, <2>3, WaitsKept DEF Waited, Cleared, InCluster
    <3>2. ASSUME NEW d \in gcpDir.files \cap Deployments PROVE AtRest(d)'
      <4>1. AtRest(d)
        BY <1>4 DEF WaitInv
      <4>2. dm'[d] = dm[d]
        BY <2>1, <4>1, DmSteps DEF AtRest, DmDone, DmFailed, GcpTypeInv, DmOK
      <4>3. QED
        BY <2>2, <3>1, <4>1, <4>2 DEF AtRest, inDir
    <3>3. gcpCmd'.pc \notin Preparing \cup {"dm", "wait"} /\ gcpDir' = gcpDir
      BY <2>2, <2>3 DEF Waited, Preparing, Cleared, InCluster, inDir
    <3>4. QED
      BY <1>1, <3>2, <3>3 DEF WaitInv
  <2>4. QED
    BY <1>2, <1>4, <2>3, WaitedFlow
<1>5. CASE gcpCmd.pc \notin Waited \cup {"dm", "wait"}
  <2>1. ~UpdateDeployment
    BY <1>5 DEF UpdateDeployment, At
  <2>2. /\ gcpCmd'.pc \notin Waited \cup {"wait"}
        /\ gcpCmd'.pc = "dm" => gcpCmd.pc \in Preparing /\ gcpCmd'.at = 1
        /\ gcpCmd'.pc \in Preparing \ {"enable"} => gcpCmd.pc \in Preparing
        /\ gcpCmd'.pc = "enable" => gcpCmd'.waits = {} \/ gcpCmd.pc = "enable"
    BY <1>5, WaitedFlow
  <2>3. gcpCmd.pc \in Preparing => gcpCmd'.waits = {}
    BY <2>1, WaitsKept DEF WaitInv
  <2>4. gcpCmd'.pc \in Preparing => gcpCmd'.waits = {}
    BY <2>2, <2>3 DEF Preparing
  <2>5. \A i \in DOMAIN DmOrder : ~(i < 1)
    BY Lists
  <2>6. QED
    BY <1>1, <2>2, <2>3, <2>4, <2>5 DEF WaitInv
<1>6. QED
  BY <1>3, <1>4, <1>5

\* Once an apply has waited, the deployments of gcp_config are at rest, without
\* an error, and made from the current files, unless an operation was found
\* under way: whatever edits, failures and commands came before (updateDM).
THEOREM DeploymentsAreCurrent == GcpSpec => []DeploymentsCurrent
<1> DEFINE Inv == GcpTypeInv /\ StageInv /\ WaitInv
<1>1. GcpInit => Inv
  <2>1. GcpInit => gcpCmd.pc = "idle" /\ gcpLast = [kind |-> "none", outcome |-> "none"]
    BY IdleType DEF GcpInit
  <2>2. GcpInit => \A f \in Files : fileRev[f] # Gone
    BY DEF GcpInit, Gone
  <2>3. QED
    BY <2>1, <2>2, GcpInitType DEF StageInv, WaitInv, Waited, Preparing, Deploying, Cleared, InCluster, Removing
<1>2. Inv /\ [GcpNext]_gcpVars => Inv'
  BY GcpNextType, StageStep, WaitStep
<1>3. Inv => DeploymentsCurrent
  <2> SUFFICES ASSUME Inv, gcpCmd.pc \notin {"idle", "dm", "wait"}, gcpCmd.kind = "apply", gcpCmd.waits # {}
               PROVE  \A d \in gcpDir.files \cap Deployments : AtRest(d)
    BY DEF DeploymentsCurrent, AtRest
  <2>1. gcpCmd.pc \notin Preparing \cup Removing \cup {"endpoint"}
    BY DEF WaitInv, StageInv
  <2>2. gcpCmd.pc \in Waited
    BY <2>1 DEF GcpTypeInv, GcpCmdOK, GcpCommandType, GcpPCs, Waited, Preparing, Cleared, InCluster, Removing
  <2>3. QED
    BY <2>2 DEF WaitInv
<1>4. QED
  BY <1>1, <1>2, <1>3, PTL DEF GcpSpec
=============================================================================
