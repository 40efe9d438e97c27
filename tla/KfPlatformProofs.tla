--------------------------- MODULE KfPlatformProofs ---------------------------
(* Theorems about KfArrikto and KfAws, for every value of their constants. *)
EXTENDS KfAws, KfArrikto, TLAPS

-----------------------------------------------------------------------------
(* The existing_arrikto platform *)

ArrPCs == {"idle", "namespace", "crds", "control plane", "endpoint", "certs", "render authservice",
           "render dex", "gateway", "filter", "dex", "authservice", "remove", "manifests"}

ArrTypeInv == ArrTypeOK /\ arrCmd \in [kind : {"none", "apply", "delete"}, pc : ArrPCs]

\* Without a stop the two files have the secret of the apply that is running
\* from when it has written them, and Dex is without the AuthService, or the
\* AuthService without Dex, only between the last two steps.
SecretsInv ==
  arrUsed["stops"] = 0 =>
    /\ ArrAt("render dex") => files.authservice = NewSecret
    /\ arrCmd.pc \in {"gateway", "filter", "dex"} => files.dex = files.authservice
    /\ ~ArrAt("authservice") => dex = authservice
    /\ ArrAt("authservice") =>
         dex = IF authservice = 0 THEN files.authservice ELSE authservice

ArrInv == ArrTypeInv /\ SecretsInv

LEMMA Ways ==
  /\ After["crds"] = "control plane" /\ After["control plane"] = "endpoint"
  /\ After["certs"] = "render authservice"
  /\ After["gateway"] = "filter" /\ After["filter"] = "dex"

BY DEF After, Manifests

LEMMA ArrInitInv == ArrInit => ArrInv
BY DEF ArrInit, ArrInv, ArrTypeInv, ArrTypeOK, SecretsInv, ArrAt, NoArrCmd, ArrPCs

LEMMA ArrSpendType ==
  ASSUME ArrTypeInv, NEW e \in ArrEventKinds, ArrSpend(e)
  PROVE  /\ arrUsed' \in [ArrEventKinds -> Nat] /\ arrUsed'[e] # 0
         /\ e # "stops" => arrUsed'["stops"] = arrUsed["stops"]
<1>1. "stops" \in ArrEventKinds
  BY DEF ArrEventKinds
<1>2. arrUsed \in [ArrEventKinds -> Nat]
  BY DEF ArrTypeInv, ArrTypeOK
<1>3. arrUsed' = [arrUsed EXCEPT ![e] = arrUsed[e] + 1]
  BY DEF ArrSpend
<1>4. QED
  BY <1>1, <1>2, <1>3

LEMMA ArrGotoType ==
  ASSUME ArrTypeInv, NEW pc \in ArrPCs, ArrGoto(pc)
  PROVE  /\ arrCmd' \in [kind : {"none", "apply", "delete"}, pc : ArrPCs] /\ arrCmd'.pc = pc
         /\ arrCmd'.kind \in {"none", "apply", "delete"}
         /\ UNCHANGED <<arrLast, arrUsed>>
BY DEF ArrTypeInv, ArrGoto

LEMMA ArrFinishType ==
  ASSUME ArrTypeInv, NEW outcome \in {"ok", "failed"}, ArrFinish(outcome)
  PROVE  /\ arrCmd' \in [kind : {"none", "apply", "delete"}, pc : ArrPCs] /\ arrCmd'.pc = "idle"
         /\ arrCmd'.kind \in {"none", "apply", "delete"}
         /\ arrLast' \in [kind : {"none", "apply", "delete"}, outcome : {"none", "ok", "failed"}]
BY DEF ArrTypeInv, ArrTypeOK, ArrFinish, NoArrCmd, ArrPCs

LEMMA ArrTypeNext ==
  ASSUME ArrTypeInv, [ArrNext]_arrVars PROVE ArrTypeInv'
<1> USE DEF ArrTypeInv, ArrTypeOK, login
<1>1. CASE ArrStart
  <2>1. PICK kind \in {"apply", "delete"} :
          /\ arrCmd' = [kind |-> kind, pc |-> IF kind = "apply" THEN "namespace" ELSE "remove"]
          /\ arrLast' = [kind |-> kind, outcome |-> "none"]
    BY <1>1 DEF ArrStart
  <2>2. PICK pc \in ArrPCs : arrCmd' = [kind |-> kind, pc |-> pc]
    BY <2>1 DEF ArrPCs
  <2>3. arrUsed' \in [ArrEventKinds -> Nat]
    BY <1>1, ArrSpendType DEF ArrStart, ArrEventKinds
  <2>4. QED
    BY <1>1, <2>1, <2>2, <2>3 DEF ArrStart
<1>2. CASE ArrCreateNamespace
  BY <1>2, ArrGotoType DEF ArrCreateNamespace, ArrPCs
<1>3. CASE \E f \in Manifests : Install(f)
  <2>1. PICK f \in Manifests : Install(f)
    BY <1>3
  <2>2. After[f] \in ArrPCs
    BY <2>1, Ways DEF Manifests, ArrPCs
  <2>3. QED
    BY <2>1, <2>2, ArrGotoType DEF Install
<1>4. CASE GetEndpoints
  BY <1>4, ArrGotoType, ArrFinishType, ArrSpendType DEF GetEndpoints, ArrPCs, ArrEventKinds
<1>5. CASE CreateSelfSignedCerts
  BY <1>5, Ways, ArrGotoType DEF CreateSelfSignedCerts, ArrPCs
<1>6. CASE RenderAuthService \/ RenderDex
  BY <1>6, ArrGotoType DEF RenderAuthService, RenderDex, NewSecret, ArrPCs, ArrEventKinds
<1>7. CASE ApplyDex
  BY <1>7, ArrGotoType DEF ApplyDex, ArrPCs
<1>8. CASE ApplyAuthService
  BY <1>8, ArrFinishType DEF ApplyAuthService, ArrEnd
<1>9. CASE ArrDeleteNamespace
  BY <1>9, ArrGotoType DEF ArrDeleteNamespace, ArrPCs
<1>10. CASE PassOverManifests
  BY <1>10, ArrFinishType DEF PassOverManifests, ArrEnd
<1>11. CASE ArrStop
  BY <1>11, ArrFinishType, ArrSpendType DEF ArrStop, ArrEventKinds
<1>12. CASE ArrNamespaceGone
  BY <1>12 DEF ArrNamespaceGone
<1>13. CASE UNCHANGED arrVars
  BY <1>13 DEF arrVars
<1>14. QED
  BY <1>1, <1>2, <1>3, <1>4, <1>5, <1>6, <1>7, <1>8, <1>9, <1>10, <1>11, <1>12, <1>13 DEF ArrNext

LEMMA SecretsNext ==
  ASSUME ArrInv, [ArrNext]_arrVars PROVE SecretsInv'
<1> USE DEF ArrInv, SecretsInv, ArrAt, NewSecret, login
<1>1. CASE ArrStart
  BY <1>1, ArrSpendType DEF ArrStart, ArrEventKinds
<1>2. CASE ArrCreateNamespace
  BY <1>2, ArrGotoType DEF ArrCreateNamespace, ArrPCs
<1>3. CASE \E f \in Manifests : Install(f)
  <2>1. PICK f \in Manifests : Install(f)
    BY <1>3
  <2>2. /\ f \in {"crds", "control plane", "gateway", "filter"}
        /\ After[f] = IF f = "crds" THEN "control plane" ELSE IF f = "control plane" THEN "endpoint"
                      ELSE IF f = "gateway" THEN "filter" ELSE "dex"
    BY <2>1, Ways DEF Manifests
  <2>3. After[f] \in ArrPCs /\ (After[f] \in {"filter", "dex"} => f \in {"gateway", "filter"})
        /\ After[f] \notin {"authservice", "render dex", "gateway"}
    BY <2>2 DEF ArrPCs
  <2>4. QED
    BY <2>1, <2>2, <2>3, ArrGotoType DEF Install
<1>4. CASE GetEndpoints
  BY <1>4, ArrGotoType, ArrFinishType, ArrSpendType DEF GetEndpoints, ArrPCs, ArrEventKinds
<1>5. CASE CreateSelfSignedCerts
  BY <1>5, Ways, ArrGotoType DEF CreateSelfSignedCerts, ArrPCs
<1>6. CASE RenderAuthService
  BY <1>6, ArrGotoType DEF RenderAuthService, ArrPCs, ArrTypeInv, ArrTypeOK
<1>7. CASE RenderDex
  BY <1>7, ArrGotoType DEF RenderDex, ArrPCs, ArrTypeInv, ArrTypeOK
<1>8. CASE ApplyDex
  <2>1. arrCmd'.pc = "authservice" /\ UNCHANGED <<authservice, files, arrUsed>>
    BY <1>8, ArrGotoType DEF ApplyDex, ArrPCs
  <2>2. CASE dex = 0
    BY <1>8, <2>1, <2>2 DEF ApplyDex
  <2>3. CASE dex # 0
    BY <1>8, <2>1, <2>3 DEF ApplyDex
  <2>4. QED
    BY <2>2, <2>3
<1>9. CASE ApplyAuthService
  BY <1>9, ArrFinishType DEF ApplyAuthService, ArrEnd
<1>10. CASE ArrDeleteNamespace
  BY <1>10, ArrGotoType DEF ArrDeleteNamespace, ArrPCs
<1>11. CASE PassOverManifests
  BY <1>11, ArrFinishType DEF PassOverManifests, ArrEnd
<1>12. CASE ArrStop
  <2>1. arrUsed'["stops"] # 0
    BY <1>12, ArrSpendType DEF ArrStop, ArrEventKinds
  <2>2. QED
    BY <2>1
<1>13. CASE ArrNamespaceGone
  BY <1>13 DEF ArrNamespaceGone
<1>14. CASE UNCHANGED arrVars
  BY <1>14 DEF arrVars
<1>15. QED
  BY <1>1, <1>2, <1>3, <1>4, <1>5, <1>6, <1>7, <1>8, <1>9, <1>10, <1>11, <1>12, <1>13, <1>14 DEF ArrNext

\* The types of the platform's state (ArrTypeOK).
THEOREM ArrTypeCorrect == ArrSpec => []ArrTypeOK
<1>1. ArrInit => ArrTypeInv
  BY ArrInitInv DEF ArrInv
<1>2. ArrTypeInv /\ [ArrNext]_arrVars => ArrTypeInv'
  BY ArrTypeNext
<1>3. ArrTypeInv => ArrTypeOK
  BY DEF ArrTypeInv
<1>4. QED
  BY <1>1, <1>2, <1>3, PTL DEF ArrSpec

\* The AuthService and Dex share a secret as long as no apply was stopped on
\* its way (LoginAgrees; Apply, existing.go).
THEOREM LoginsAgree == ArrSpec => []LoginAgrees
<1>1. ArrInit => ArrInv
  BY ArrInitInv
<1>2. ArrInv /\ [ArrNext]_arrVars => ArrInv'
  BY ArrTypeNext, SecretsNext DEF ArrInv
<1>3. ArrInv => LoginAgrees
  BY DEF ArrInv, SecretsInv, LoginAgrees, ArrAt
<1>4. QED
  BY <1>1, <1>2, <1>3, PTL DEF ArrSpec

-----------------------------------------------------------------------------
(* The AWS platform: types *)

AwsKinds == {"none", "build", "apply", "delete"}
Role     == [there : BOOLEAN, issuer : Nat, subjects : SUBSET Accounts]
Cluster  == [namespaces : BOOLEAN, accounts : SUBSET Accounts, oidc : BOOLEAN, manifests : BOOLEAN]
Command  == [kind : AwsKinds, pc : AwsPCs, client : Clusters \cup {"none"}, roles : {{}},
             todo : SUBSET Accounts, account : Accounts \cup {"none"}]

WorldOK ==
  /\ awsSpec \in [managed : BOOLEAN, podIam : BOOLEAN]
  /\ awsDir \in {"none", "made", "copied", "named", "set"}
  /\ context \in Clusters \cup {"none"}
  /\ k8s \in [Clusters -> Cluster]
CloudOK ==
  /\ eks \in [up : BOOLEAN, issuer : Nat] /\ (eks.up => eks.issuer # 0)
  /\ providers \subseteq 1..eks.issuer
  /\ iamRoles \in [{"admin", "user"} -> Role]
  /\ attached \subseteq {"admin", "worker"}
AwsCmdOK ==
  /\ awsCmd \in Command
  /\ awsLast \in [kind : AwsKinds, outcome : {"none", "ok", "failed", "panic"},
                  client : Clusters \cup {"none"}]
AwsUsedOK == awsUsed \in [AwsEventKinds -> Nat]

AwsTypeInv == WorldOK /\ CloudOK /\ AwsCmdOK /\ AwsUsedOK

LEMMA AccountRoles ==
  /\ \A ksa \in Accounts : RoleOfAccount[ksa] \in {"admin", "user"}
  /\ RoleOfAccount["kf-admin"] = "admin" /\ "kf-admin" \in Accounts /\ "none" \notin Accounts
BY DEF RoleOfAccount, Accounts

LEMMA ClusterTypes ==
  EmptyCluster \in Cluster /\ NoRole \in Role /\ ~NoRole.there /\ NoRole.subjects = {}
BY DEF EmptyCluster, NoRole, Cluster, Role

LEMMA AwsInitType == AwsInit => AwsTypeInv
<1> SUFFICES ASSUME AwsInit PROVE AwsTypeInv
  OBVIOUS
<1>1. WorldOK
  BY ClusterTypes DEF AwsInit, WorldOK, Clusters
<1>2. CloudOK
  <2>1. eks \in [up : BOOLEAN, issuer : Nat] /\ (eks.up => eks.issuer # 0)
    <3>1. CASE awsSpec.managed
      BY <3>1 DEF AwsInit
    <3>2. CASE ~awsSpec.managed
      BY <3>2 DEF AwsInit
    <3>3. QED
      BY <3>1, <3>2
  <2>2. QED
    BY <2>1, ClusterTypes DEF AwsInit, CloudOK
<1>3. AwsCmdOK
  BY DEF AwsInit, AwsCmdOK, NoAwsCmd, Command, AwsKinds, AwsPCs
<1>4. AwsUsedOK
  BY DEF AwsInit, AwsUsedOK
<1>5. QED
  BY <1>1, <1>2, <1>3, <1>4 DEF AwsTypeInv

LEMMA AwsSpendType ==
  ASSUME AwsUsedOK, NEW e \in AwsEventKinds, AwsSpend(e)
  PROVE  /\ AwsUsedOK' /\ awsUsed'[e] # 0
         /\ \A f \in AwsEventKinds : awsUsed[f] # 0 => awsUsed'[f] # 0
         /\ \A f \in AwsEventKinds : f # e => awsUsed'[f] = awsUsed[f]
<1>1. awsUsed' = [awsUsed EXCEPT ![e] = awsUsed[e] + 1]
  BY DEF AwsSpend
<1>2. QED
  BY <1>1 DEF AwsUsedOK

LEMMA AwsMoveType ==
  ASSUME AwsCmdOK, NEW pc \in AwsPCs, AwsMove(pc)
  PROVE  /\ AwsCmdOK' /\ awsCmd' = [awsCmd EXCEPT !.pc = pc] /\ awsCmd'.pc = pc
         /\ awsCmd'.kind = awsCmd.kind /\ awsCmd'.client = awsCmd.client
         /\ awsCmd'.todo = awsCmd.todo /\ awsCmd'.account = awsCmd.account
         /\ UNCHANGED awsLast
BY DEF AwsCmdOK, AwsMove, Command

LEMMA AwsFinishType ==
  ASSUME AwsCmdOK, NEW outcome \in {"ok", "failed", "panic"}, AwsFinish(outcome)
  PROVE  /\ AwsCmdOK' /\ awsCmd'.pc = "idle" /\ awsCmd'.todo = {}
         /\ awsLast'.kind = awsCmd.kind /\ awsLast'.outcome = outcome
         /\ awsLast'.client = awsCmd.client
BY DEF AwsCmdOK, AwsFinish, Command, NoAwsCmd, AwsKinds, AwsPCs

-----------------------------------------------------------------------------
(* What a step changes.  Each case of a proof about AwsNext is one of these. *)

\* What a command has in hand.
Registers == <<awsCmd.todo, awsCmd.account, awsCmd.client, awsCmd.kind>>

\* A step of the command from one place to another, without anything else.
Steps(from, to) ==
  /\ awsCmd.pc = from /\ awsCmd'.pc = to /\ UNCHANGED Registers /\ UNCHANGED awsLast

LEMMA StepsType ==
  ASSUME AwsTypeInv, NEW from \in AwsPCs, NEW to \in AwsPCs, AwsAt(from), AwsMove(to)
  PROVE  AwsCmdOK' /\ Steps(from, to)
BY AwsMoveType DEF AwsTypeInv, AwsAt, Steps, Registers

LEMMA ProceedTypes ==
  ASSUME AwsTypeInv, AwsProceed
  PROVE  /\ AwsCmdOK' /\ AwsUsedOK' /\ UNCHANGED awsUsed
         /\ \/ awsCmd.kind = "build" /\ AwsFinish("ok")
            \/ awsCmd.kind = "apply" /\ AwsMove("create")
            \/ awsCmd.kind = "delete" /\ AwsMove("remove")
<1>1. "create" \in AwsPCs /\ "remove" \in AwsPCs
  BY DEF AwsPCs
<1>2. QED
  BY <1>1, AwsMoveType, AwsFinishType DEF AwsTypeInv, AwsProceed, AwsEnd, AwsGoto, AwsUsedOK

LEMMA NoCommand == NoAwsCmd \in Command /\ NoAwsCmd.todo = {}
BY DEF NoAwsCmd, Command, AwsKinds, AwsPCs

LEMMA AwsStartType ==
  ASSUME AwsTypeInv, NEW kind \in {"build", "apply", "delete"}, AwsStart(kind)
  PROVE  /\ AwsTypeInv' /\ AwsAt("idle") /\ awsLast'.kind = kind
         /\ UNCHANGED <<awsSpec, awsDir, context, k8s, cloud>>
         /\ \/ awsCmd' = awsCmd /\ awsLast'.outcome = "failed"
            \/ /\ awsCmd'.pc = "generate" /\ awsCmd'.kind = kind /\ awsCmd'.todo = {}
               /\ awsCmd'.client \in Clusters /\ awsLast'.outcome = "none"
<1> DEFINE pc == "generate"
<1>1. pc \in AwsPCs /\ kind \in AwsKinds
  BY DEF AwsPCs, AwsKinds
<1> HIDE DEF pc
<1>3. AwsUsedOK'
  BY AwsSpendType DEF AwsStart, AwsTypeInv, AwsEventKinds
<1>4. CASE context = "none"
  BY <1>1, <1>3, <1>4 DEF AwsStart, AwsTypeInv, WorldOK, CloudOK, AwsCmdOK, cloud
<1>5. CASE context # "none"
  <2>1. context \in Clusters
    BY <1>5 DEF AwsTypeInv, WorldOK
  <2>2. /\ awsCmd' = [NoAwsCmd EXCEPT !.kind = kind, !.pc = pc, !.client = context]
        /\ awsLast' = [kind |-> kind, outcome |-> "none", client |-> context]
    BY <1>5 DEF AwsStart, pc
  <2>3. /\ awsCmd' \in Command
        /\ awsCmd'.kind = kind /\ awsCmd'.pc = pc /\ awsCmd'.client = context /\ awsCmd'.todo = {}
    BY <1>1, <2>1, <2>2, NoCommand DEF Command
  <2>4. AwsCmdOK'
    BY <1>1, <2>1, <2>2, <2>3 DEF AwsCmdOK
  <2>5. QED
    BY <1>1, <1>3, <2>1, <2>2, <2>3, <2>4 DEF AwsStart, AwsTypeInv, WorldOK, CloudOK, cloud, pc
<1>6. QED
  BY <1>4, <1>5

LEMMA SkipType ==
  ASSUME AwsTypeInv, AwsSkipGenerate
  PROVE  AwsTypeInv'
BY ProceedTypes DEF AwsSkipGenerate, AwsTypeInv, WorldOK, CloudOK, cloud

LEMMA GenerateType ==
  ASSUME AwsTypeInv, GenerateInfraConfigs
  PROVE  /\ AwsTypeInv'
         /\ Steps("generate", "copy") \/ Steps("copy", "name") \/ Steps("name", "persist")
<1>1. {"generate", "copy", "name", "persist"} \subseteq AwsPCs
  BY DEF AwsPCs
<1>2. /\ AwsCmdOK'
      /\ Steps("generate", "copy") \/ Steps("copy", "name") \/ Steps("name", "persist")
  BY <1>1, StepsType DEF GenerateInfraConfigs, AwsGoto
<1>3. QED
  BY <1>2 DEF GenerateInfraConfigs, AwsGoto, AwsTypeInv, WorldOK, CloudOK, AwsUsedOK, cloud

LEMMA PersistType ==
  ASSUME AwsTypeInv, AwsPersistParameters
  PROVE  AwsTypeInv'
BY ProceedTypes DEF AwsPersistParameters, AwsTypeInv, WorldOK, CloudOK, cloud

LEMMA CreateType ==
  ASSUME AwsTypeInv, CreateEKSCluster
  PROVE  AwsTypeInv' /\ (Steps("create", "namespaces") \/ AwsFinish("failed"))
<1>1. "create" \in AwsPCs /\ "namespaces" \in AwsPCs
  BY DEF AwsPCs
<1>2. AwsCmdOK' /\ (Steps("create", "namespaces") \/ AwsFinish("failed"))
  BY <1>1, StepsType, AwsFinishType DEF CreateEKSCluster, AwsGoto, AwsEnd, AwsTypeInv
<1>3. WorldOK' /\ CloudOK'
  <2>1. CASE UNCHANGED <<eks, context>>
    BY <2>1 DEF CreateEKSCluster, AwsTypeInv, WorldOK, CloudOK
  <2>2. CASE eks' = [up |-> TRUE, issuer |-> eks.issuer + 1] /\ context' = "own"
    <3>1. eks'.issuer = eks.issuer + 1 /\ eks'.issuer \in Nat /\ eks'.issuer # 0 /\ eks.issuer \in Nat
      BY <2>2 DEF AwsTypeInv, CloudOK
    <3>2. 1..eks.issuer \subseteq 1..eks'.issuer
      BY <3>1
    <3>3. QED
      BY <2>2, <3>1, <3>2 DEF CreateEKSCluster, AwsTypeInv, WorldOK, CloudOK, Clusters
  <2>3. QED
    BY <2>1, <2>2 DEF CreateEKSCluster
<1>4. QED
  BY <1>2, <1>3 DEF CreateEKSCluster, AwsGoto, AwsEnd, AwsTypeInv, AwsUsedOK

LEMMA NamespacesType ==
  ASSUME AwsTypeInv, CreateNamespaces, awsCmd.client \in Clusters
  PROVE  /\ AwsTypeInv'
         /\ \/ Steps("namespaces", "attach") /\ ~awsSpec.podIam
            \/ Steps("namespaces", "provider") /\ awsSpec.podIam
            \/ AwsFinish("failed")
<1>1. {"namespaces", "attach", "provider"} \subseteq AwsPCs
  BY DEF AwsPCs
<1>2. /\ AwsCmdOK'
      /\ \/ Steps("namespaces", "attach") /\ ~awsSpec.podIam
         \/ Steps("namespaces", "provider") /\ awsSpec.podIam
         \/ AwsFinish("failed")
  BY <1>1, StepsType, AwsFinishType DEF CreateNamespaces, AwsGoto, AwsEnd, AwsTypeInv
<1>3. k8s' \in [Clusters -> Cluster]
  BY DEF CreateNamespaces, AwsTypeInv, WorldOK, Cluster
<1>4. QED
  BY <1>2, <1>3 DEF CreateNamespaces, AwsGoto, AwsEnd, AwsTypeInv, WorldOK, CloudOK, AwsUsedOK, cloud

LEMMA ProviderType ==
  ASSUME AwsTypeInv, CreateIdentityProvider
  PROVE  /\ AwsTypeInv' /\ awsCmd'.pc = "accounts" /\ awsCmd'.todo = Accounts
         /\ UNCHANGED <<awsCmd.client, awsCmd.kind, awsCmd.account>>
<1> DEFINE pc == "accounts"
<1>1. pc \in AwsPCs
  BY DEF AwsPCs
<1>2. awsCmd' = [awsCmd EXCEPT !.pc = pc, !.todo = Accounts]
  BY DEF CreateIdentityProvider
<1>3. eks.issuer \in 1..eks.issuer
  BY DEF CreateIdentityProvider, AwsTypeInv, CloudOK
<1>4. CloudOK'
  BY <1>3 DEF CreateIdentityProvider, AwsTypeInv, CloudOK
<1> HIDE DEF pc
<1>5. /\ awsCmd' \in Command /\ awsCmd'.pc = pc /\ awsCmd'.todo = Accounts
      /\ UNCHANGED <<awsCmd.client, awsCmd.kind, awsCmd.account>>
  BY <1>1, <1>2 DEF AwsTypeInv, AwsCmdOK, Command
<1>6. QED
  BY <1>4, <1>5 DEF CreateIdentityProvider, AwsTypeInv, WorldOK, AwsCmdOK, AwsUsedOK, pc

LEMMA RoleType ==
  ASSUME AwsTypeInv, NEW ksa \in awsCmd.todo, AwsAt("accounts"),
         iamRoles' = IF iamRoles[RoleOfAccount[ksa]].there THEN iamRoles
                     ELSE [iamRoles EXCEPT ![RoleOfAccount[ksa]] =
                             [there |-> TRUE, issuer |-> eks.issuer, subjects |-> {ksa}]],
         awsCmd' = [awsCmd EXCEPT !.pc = "annotate", !.account = ksa],
         UNCHANGED <<awsSpec, awsDir, context, k8s, eks, providers, attached, awsLast, awsUsed>>
  PROVE  /\ AwsTypeInv'
         /\ awsCmd'.pc = "annotate" /\ awsCmd'.account = ksa /\ ksa \in Accounts
         /\ UNCHANGED <<awsCmd.client, awsCmd.kind, awsCmd.todo>>
<1> DEFINE pc == "annotate"
<1>1. pc \in AwsPCs
  BY DEF AwsPCs
<1>2. ksa \in Accounts /\ awsCmd \in Command
  BY DEF AwsTypeInv, AwsCmdOK, Command
<1>3. awsCmd' = [awsCmd EXCEPT !.pc = pc, !.account = ksa]
  OBVIOUS
<1>4. iamRoles' \in [{"admin", "user"} -> Role]
  <2>1. iamRoles \in [{"admin", "user"} -> Role] /\ RoleOfAccount[ksa] \in {"admin", "user"}
    BY <1>2, AccountRoles DEF AwsTypeInv, CloudOK
  <2>2. [there |-> TRUE, issuer |-> eks.issuer, subjects |-> {ksa}] \in Role
    BY <1>2 DEF AwsTypeInv, CloudOK, Role
  <2>3. QED
    BY <2>1, <2>2
<1> HIDE DEF pc
<1>5. /\ awsCmd' \in Command /\ awsCmd'.pc = pc /\ awsCmd'.account = ksa
      /\ UNCHANGED <<awsCmd.client, awsCmd.kind, awsCmd.todo>>
  BY <1>1, <1>2, <1>3 DEF Command
<1>6. QED
  BY <1>2, <1>4, <1>5 DEF AwsTypeInv, WorldOK, CloudOK, AwsCmdOK, AwsUsedOK, pc

LEMMA AnnotateType ==
  ASSUME AwsTypeInv, AnnotateAccount, awsCmd.client \in Clusters, awsCmd.account \in Accounts
  PROVE  AwsTypeInv' /\ Steps("annotate", "trust")
<1>1. {"annotate", "trust"} \subseteq AwsPCs
  BY DEF AwsPCs
<1>2. AwsCmdOK' /\ Steps("annotate", "trust")
  BY <1>1, StepsType DEF AnnotateAccount, AwsGoto
<1>3. k8s' \in [Clusters -> Cluster]
  BY DEF AnnotateAccount, AwsTypeInv, WorldOK, Cluster
<1>4. QED
  BY <1>2, <1>3 DEF AnnotateAccount, AwsGoto, AwsTypeInv, WorldOK, CloudOK, AwsUsedOK, cloud

LEMMA TrustType ==
  ASSUME AwsTypeInv, UpdateRoleTrustIdentity, awsCmd.account \in Accounts
  PROVE  /\ AwsTypeInv'
         /\ awsCmd'.todo = awsCmd.todo \ {awsCmd.account}
         /\ awsCmd'.pc = IF awsCmd'.todo = {} THEN "attach" ELSE "accounts"
         /\ UNCHANGED <<awsCmd.client, awsCmd.kind>>
<1> DEFINE left == awsCmd.todo \ {awsCmd.account}
           nobody == "none"
<1>1. PICK pc \in AwsPCs : /\ pc = IF left = {} THEN "attach" ELSE "accounts"
                           /\ awsCmd' = [awsCmd EXCEPT !.pc = pc, !.todo = left, !.account = nobody]
  BY DEF UpdateRoleTrustIdentity, AwsPCs
<1>2. nobody \in Accounts \cup {"none"} /\ left \in SUBSET Accounts
  BY DEF AwsTypeInv, AwsCmdOK, Command
<1> HIDE DEF left, nobody
<1>3. /\ awsCmd' \in Command /\ awsCmd'.pc = pc /\ awsCmd'.todo = left
      /\ UNCHANGED <<awsCmd.client, awsCmd.kind>>
  BY <1>1, <1>2 DEF AwsTypeInv, AwsCmdOK, Command
<1>4. iamRoles' \in [{"admin", "user"} -> Role]
  <2>1. RoleOfAccount[awsCmd.account] \in {"admin", "user"}
    BY AccountRoles
  <2>2. QED
    BY <2>1 DEF UpdateRoleTrustIdentity, AwsTypeInv, CloudOK, Role
<1>5. QED
  BY <1>1, <1>3, <1>4 DEF UpdateRoleTrustIdentity, AwsTypeInv, WorldOK, CloudOK, AwsCmdOK, AwsUsedOK, left

\* A call that may fail leaves its mark in awsUsed, and nothing else, if it does.
LEMMA MayFailType ==
  ASSUME AwsUsedOK, NEW works \in BOOLEAN, MayFail(works)
  PROVE  /\ AwsUsedOK'
         /\ \A f \in AwsEventKinds : awsUsed[f] # 0 => awsUsed'[f] # 0
         /\ awsUsed'["clusters"] = awsUsed["clusters"]
         /\ \/ works /\ UNCHANGED awsUsed
            \/ awsUsed'["failures"] # 0 /\ UNCHANGED <<providers, iamRoles, attached>>
<1>1. "failures" \in AwsEventKinds /\ "clusters" \in AwsEventKinds
  BY DEF AwsEventKinds
<1>2. CASE works /\ UNCHANGED awsUsed
  BY <1>2 DEF AwsUsedOK
<1>3. CASE AwsSpend("failures") /\ UNCHANGED <<providers, iamRoles, attached>>
  BY <1>1, <1>3, AwsSpendType
<1>4. QED
  BY <1>2, <1>3 DEF MayFail

LEMMA AttachType ==
  ASSUME AwsTypeInv, AttachPolicies
  PROVE  /\ AwsTypeInv' /\ Steps("attach", "oidc")
         /\ UNCHANGED <<awsSpec, context, k8s, eks, providers, iamRoles>>
         /\ "admin" \in attached' => "admin" \in attached \/ awsSpec.podIam
         /\ awsUsed["failures"] # 0 => awsUsed'["failures"] # 0
         /\ awsUsed'["clusters"] = awsUsed["clusters"]
<1>1. {"attach", "oidc"} \subseteq AwsPCs
  BY DEF AwsPCs
<1>2. AwsCmdOK' /\ Steps("attach", "oidc")
  BY <1>1, StepsType DEF AttachPolicies
<1> DEFINE works == /\ attached' = IF awsDir = "made" THEN attached ELSE attached \cup RolesToAttach
                    /\ UNCHANGED <<providers, iamRoles>>
<1>3. works => /\ attached' \subseteq {"admin", "worker"} /\ UNCHANGED <<providers, iamRoles>>
               /\ "admin" \in attached' => "admin" \in attached \/ awsSpec.podIam
  BY DEF RolesToAttach, AwsTypeInv, CloudOK
<1>4. works \in BOOLEAN /\ MayFail(works)
  BY DEF AttachPolicies
<1> HIDE DEF works
<1>5. /\ AwsUsedOK' /\ attached' \subseteq {"admin", "worker"} /\ UNCHANGED <<providers, iamRoles>>
      /\ "admin" \in attached' => "admin" \in attached \/ awsSpec.podIam
      /\ awsUsed["failures"] # 0 => awsUsed'["failures"] # 0
      /\ awsUsed'["clusters"] = awsUsed["clusters"]
  BY <1>3, <1>4, MayFailType DEF AwsTypeInv, CloudOK, AwsEventKinds
<1>6. QED
  BY <1>2, <1>5 DEF AttachPolicies, AwsTypeInv, WorldOK, CloudOK

LEMMA OidcType ==
  ASSUME AwsTypeInv, SetupOIDC, awsCmd.client \in Clusters
  PROVE  AwsTypeInv' /\ Steps("oidc", "manifests")
<1>1. {"oidc", "manifests"} \subseteq AwsPCs
  BY DEF AwsPCs
<1>2. AwsCmdOK' /\ Steps("oidc", "manifests")
  BY <1>1, StepsType DEF SetupOIDC, AwsGoto
<1>3. k8s' \in [Clusters -> Cluster]
  BY DEF SetupOIDC, AwsTypeInv, WorldOK, Cluster
<1>4. QED
  BY <1>2, <1>3 DEF SetupOIDC, AwsGoto, AwsTypeInv, WorldOK, CloudOK, AwsUsedOK, cloud

LEMMA ApplyManifestsType ==
  ASSUME AwsTypeInv, AwsApplyManifests
  PROVE  AwsTypeInv' /\ AwsFinish("ok")
<1>1. AwsCmdOK'
  BY AwsFinishType DEF AwsApplyManifests, AwsEnd, AwsTypeInv
<1>2. k8s' \in [Clusters -> Cluster]
  BY DEF AwsApplyManifests, AwsTypeInv, WorldOK, Cluster
<1>3. QED
  BY <1>1, <1>2 DEF AwsApplyManifests, AwsEnd, AwsTypeInv, WorldOK, CloudOK, AwsUsedOK, cloud

LEMMA RemoveType ==
  ASSUME AwsTypeInv, AwsRemoveManifests
  PROVE  AwsTypeInv' /\ Steps("remove", "uninstall")
<1>1. {"remove", "uninstall"} \subseteq AwsPCs
  BY DEF AwsPCs
<1>2. AwsCmdOK' /\ Steps("remove", "uninstall")
  BY <1>1, StepsType DEF AwsRemoveManifests, AwsGoto
<1>3. k8s' \in [Clusters -> Cluster]
  BY DEF AwsRemoveManifests, AwsTypeInv, WorldOK, Cluster
<1>4. QED
  BY <1>2, <1>3 DEF AwsRemoveManifests, AwsGoto, AwsTypeInv, WorldOK, CloudOK, AwsUsedOK, cloud

LEMMA UninstallType ==
  ASSUME AwsTypeInv, UninstallDependencies
  PROVE  AwsTypeInv' /\ Steps("uninstall", "detach")
<1>1. {"uninstall", "detach"} \subseteq AwsPCs
  BY DEF AwsPCs
<1>2. AwsCmdOK' /\ Steps("uninstall", "detach")
  BY <1>1, StepsType DEF UninstallDependencies, AwsGoto
<1>3. QED
  BY <1>2 DEF UninstallDependencies, AwsGoto, AwsTypeInv, WorldOK, CloudOK, AwsUsedOK, cloud

LEMMA DetachType ==
  ASSUME AwsTypeInv, DetachPolicies
  PROVE  /\ AwsTypeInv' /\ Steps("detach", "roles")
         /\ UNCHANGED <<awsSpec, context, k8s, eks, providers, iamRoles>>
         /\ attached' \subseteq attached
         /\ attached' \cap RolesToDetach = {} \/ awsUsed'["failures"] # 0
         /\ awsUsed["failures"] # 0 => awsUsed'["failures"] # 0
         /\ awsUsed'["clusters"] = awsUsed["clusters"]
<1>1. {"detach", "roles"} \subseteq AwsPCs
  BY DEF AwsPCs
<1>2. AwsCmdOK' /\ Steps("detach", "roles")
  BY <1>1, StepsType DEF DetachPolicies
<1> DEFINE works == attached' = attached \ RolesToDetach /\ UNCHANGED <<providers, iamRoles>>
<1>3. works => /\ attached' \subseteq attached /\ UNCHANGED <<providers, iamRoles>>
               /\ attached' \cap RolesToDetach = {}
  OBVIOUS
<1>4. works \in BOOLEAN /\ MayFail(works)
  BY DEF DetachPolicies
<1> HIDE DEF works
<1>5. /\ AwsUsedOK' /\ attached' \subseteq attached /\ UNCHANGED <<providers, iamRoles>>
      /\ attached' \cap RolesToDetach = {} \/ awsUsed'["failures"] # 0
      /\ awsUsed["failures"] # 0 => awsUsed'["failures"] # 0
      /\ awsUsed'["clusters"] = awsUsed["clusters"]
  BY <1>3, <1>4, MayFailType DEF AwsTypeInv, CloudOK, AwsEventKinds
<1>6. QED
  BY <1>2, <1>5 DEF DetachPolicies, AwsTypeInv, WorldOK, CloudOK

LEMMA DeleteRolesType ==
  ASSUME AwsTypeInv, DeleteRoles
  PROVE  /\ AwsTypeInv'
         /\ UNCHANGED <<awsSpec, context, k8s, eks, providers, attached>>
         /\ awsUsed["failures"] # 0 => awsUsed'["failures"] # 0
         /\ awsUsed'["clusters"] = awsUsed["clusters"]
         /\ \/ ~awsSpec.podIam /\ Steps("roles", "delete") /\ UNCHANGED iamRoles
            \/ awsSpec.podIam /\ Steps("roles", "provider gone")
         /\ \/ UNCHANGED iamRoles
            \/ iamRoles' = [r \in DOMAIN iamRoles |-> IF r \in attached THEN iamRoles[r] ELSE NoRole]
         /\ \/ ~awsSpec.podIam \/ awsUsed'["failures"] # 0
            \/ iamRoles' = [r \in DOMAIN iamRoles |-> IF r \in attached THEN iamRoles[r] ELSE NoRole]
<1>1. {"roles", "delete", "provider gone"} \subseteq AwsPCs
  BY DEF AwsPCs
<1> DEFINE left == [r \in DOMAIN iamRoles |-> IF r \in attached THEN iamRoles[r] ELSE NoRole]
           works == iamRoles' = left /\ UNCHANGED <<providers, attached>>
<1>2. left \in [{"admin", "user"} -> Role]
  BY ClusterTypes DEF AwsTypeInv, CloudOK
<1>3. CASE ~awsSpec.podIam
  <2>1. AwsCmdOK' /\ Steps("roles", "delete") /\ UNCHANGED <<awsUsed, providers, iamRoles, attached>>
    BY <1>1, <1>3, StepsType DEF DeleteRoles, AwsGoto
  <2>2. QED
    BY <1>3, <2>1 DEF DeleteRoles, AwsTypeInv, WorldOK, CloudOK, AwsUsedOK
<1>4. CASE awsSpec.podIam
  <2>1. AwsCmdOK' /\ Steps("roles", "provider gone")
    BY <1>1, <1>4, StepsType DEF DeleteRoles
  <2>2. works \in BOOLEAN /\ MayFail(works)
    BY <1>4 DEF DeleteRoles
  <2>3. works => iamRoles' = left /\ UNCHANGED <<providers, attached>>
    OBVIOUS
  <2> HIDE DEF works, left
  <2>4. /\ AwsUsedOK' /\ UNCHANGED <<providers, attached>>
        /\ awsUsed["failures"] # 0 => awsUsed'["failures"] # 0
        /\ awsUsed'["clusters"] = awsUsed["clusters"]
        /\ iamRoles' = left \/ (UNCHANGED iamRoles /\ awsUsed'["failures"] # 0)
    BY <2>2, <2>3, MayFailType DEF AwsTypeInv, AwsEventKinds
  <2>5. CloudOK'
    BY <1>2, <2>4 DEF DeleteRoles, AwsTypeInv, CloudOK
  <2>6. QED
    BY <1>4, <2>1, <2>4, <2>5 DEF DeleteRoles, AwsTypeInv, WorldOK, left
<1>5. QED
  BY <1>3, <1>4

LEMMA DeleteProviderType ==
  ASSUME AwsTypeInv, DeleteProvider
  PROVE  AwsTypeInv' /\ Steps("provider gone", "delete")
<1>1. {"provider gone", "delete"} \subseteq AwsPCs
  BY DEF AwsPCs
<1>2. AwsCmdOK' /\ Steps("provider gone", "delete")
  BY <1>1, StepsType DEF DeleteProvider, AwsGoto
<1>3. QED
  BY <1>2 DEF DeleteProvider, AwsGoto, AwsTypeInv, WorldOK, CloudOK, AwsUsedOK

LEMMA DeleteClusterType ==
  ASSUME AwsTypeInv, DeleteEKSCluster
  PROVE  /\ AwsTypeInv' /\ (AwsFinish("ok") \/ AwsFinish("failed"))
         /\ UNCHANGED <<awsSpec, providers, iamRoles, awsUsed>>
         /\ attached' \subseteq attached /\ eks'.issuer = eks.issuer /\ (eks'.up => eks' = eks)
<1>1. AwsCmdOK' /\ (AwsFinish("ok") \/ AwsFinish("failed")) /\ UNCHANGED awsUsed
  BY AwsFinishType DEF DeleteEKSCluster, AwsEnd, AwsTypeInv
<1>2. CASE UNCHANGED <<eks, context, k8s, attached>>
  BY <1>1, <1>2 DEF DeleteEKSCluster, AwsTypeInv, WorldOK, CloudOK, AwsUsedOK
<1>3. CASE /\ eks' = [eks EXCEPT !.up = FALSE] /\ k8s' = [k8s EXCEPT !["own"] = EmptyCluster]
           /\ context' = IF context = "own" THEN "none" ELSE context
           /\ attached' = attached \ {"worker"}
  <2>1. eks' \in [up : BOOLEAN, issuer : Nat] /\ ~eks'.up /\ eks'.issuer = eks.issuer
    BY <1>3 DEF AwsTypeInv, CloudOK
  <2>2. k8s' \in [Clusters -> Cluster]
    BY <1>3, ClusterTypes DEF AwsTypeInv, WorldOK
  <2>3. WorldOK'
    BY <1>3, <2>2 DEF DeleteEKSCluster, AwsTypeInv, WorldOK
  <2>4. CloudOK'
    BY <1>3, <2>1 DEF DeleteEKSCluster, AwsTypeInv, CloudOK
  <2>5. QED
    BY <1>1, <1>3, <2>1, <2>3, <2>4 DEF DeleteEKSCluster, AwsTypeInv, AwsUsedOK
<1>4. QED
  BY <1>2, <1>3 DEF DeleteEKSCluster

LEMMA AwsStopType ==
  ASSUME AwsTypeInv, AwsStop
  PROVE  AwsTypeInv' /\ awsUsed'["failures"] = awsUsed["failures"]
                     /\ awsUsed'["clusters"] = awsUsed["clusters"]
BY AwsFinishType, AwsSpendType
   DEF AwsStop, AwsEventKinds, AwsTypeInv, WorldOK, CloudOK, cloud

LEMMA DescribeFailsType ==
  ASSUME AwsTypeInv, DescribeFails
  PROVE  /\ AwsTypeInv' /\ UNCHANGED <<awsSpec, awsDir, context, k8s, cloud, awsUsed>>
         /\ \E outcome \in {"failed", "panic"} : AwsFinish(outcome)
<1>1. PICK outcome \in {"failed", "panic"} : AwsFinish(outcome) /\ UNCHANGED awsUsed
  BY DEF DescribeFails, AwsEnd
<1>2. AwsCmdOK'
  BY <1>1, AwsFinishType DEF AwsTypeInv
<1>3. QED
  BY <1>1, <1>2 DEF DescribeFails, AwsTypeInv, WorldOK, CloudOK, AwsUsedOK, cloud

LEMMA NoContextType ==
  ASSUME AwsTypeInv, NoContext PROVE AwsTypeInv' /\ AwsFinish("failed")
BY AwsFinishType DEF NoContext, AwsEnd, AwsTypeInv, WorldOK, CloudOK, AwsUsedOK, cloud

LEMMA ForgetType ==
  ASSUME AwsTypeInv, awsLast' = [awsLast EXCEPT !.kind = "none"], UNCHANGED awsCmd
  PROVE  AwsCmdOK' /\ awsLast'.kind = "none" /\ awsLast'.outcome = awsLast.outcome
<1> DEFINE none == "none"
<1>1. none \in AwsKinds
  BY DEF AwsKinds
<1>2. awsLast' = [awsLast EXCEPT !.kind = none]
  OBVIOUS
<1> HIDE DEF none
<1>3. awsLast'.kind = none
  BY <1>1, <1>2 DEF AwsTypeInv, AwsCmdOK
<1>4. AwsCmdOK' /\ awsLast'.outcome = awsLast.outcome
  BY <1>1, <1>2 DEF AwsTypeInv, AwsCmdOK
<1>5. QED
  BY <1>3, <1>4 DEF none

LEMMA ReplaceType ==
  ASSUME AwsTypeInv, ReplaceCluster
  PROVE  /\ AwsTypeInv' /\ awsLast'.kind = "none" /\ awsLast'.outcome = awsLast.outcome
         /\ awsUsed'["clusters"] # 0
<1>1. AwsCmdOK' /\ awsLast'.kind = "none" /\ awsLast'.outcome = awsLast.outcome
  BY ForgetType DEF ReplaceCluster
<1>2. AwsUsedOK' /\ awsUsed'["clusters"] # 0
  BY AwsSpendType DEF ReplaceCluster, AwsEventKinds, AwsTypeInv
<1>3. k8s' \in [Clusters -> Cluster]
  BY ClusterTypes DEF ReplaceCluster, AwsTypeInv, WorldOK
<1>4. WorldOK'
  BY <1>3 DEF ReplaceCluster, AwsTypeInv, WorldOK
<1>5. eks' \in [up : BOOLEAN, issuer : Nat] /\ eks'.issuer = eks.issuer + 1 /\ eks.issuer \in Nat
  BY DEF ReplaceCluster, AwsTypeInv, CloudOK
<1>6. 1..eks.issuer \subseteq 1..eks'.issuer /\ eks'.issuer # 0
  BY <1>5
<1>7. CloudOK'
  BY <1>5, <1>6 DEF ReplaceCluster, AwsTypeInv, CloudOK
<1>8. QED
  BY <1>1, <1>2, <1>4, <1>7 DEF AwsTypeInv

LEMMA UseType ==
  ASSUME AwsTypeInv, NEW c \in Clusters, UseContext(c)
  PROVE  /\ AwsTypeInv' /\ awsLast'.kind = "none" /\ awsLast'.outcome = awsLast.outcome
         /\ awsUsed'["clusters"] = awsUsed["clusters"] /\ awsUsed'["failures"] = awsUsed["failures"]
<1>1. AwsCmdOK' /\ awsLast'.kind = "none" /\ awsLast'.outcome = awsLast.outcome
  BY ForgetType DEF UseContext
<1>2. /\ AwsUsedOK' /\ awsUsed'["clusters"] = awsUsed["clusters"]
      /\ awsUsed'["failures"] = awsUsed["failures"]
  BY AwsSpendType DEF UseContext, AwsEventKinds, AwsTypeInv
<1>3. QED
  BY <1>1, <1>2 DEF UseContext, AwsTypeInv, WorldOK, CloudOK, cloud

-----------------------------------------------------------------------------
(* The AWS platform: the command that runs *)

Applying == {"create", "namespaces", "provider", "accounts", "annotate", "trust", "attach", "oidc",
             "manifests"}
Deleting == {"remove", "uninstall", "detach", "roles", "provider gone", "delete"}

\* A command has a client, applies or deletes, and goes through the accounts
\* only if it is asked to.
PlaceInv ==
  /\ ~AwsAt("idle") => awsCmd.client \in Clusters /\ awsLast.outcome = "none"
  /\ awsCmd.pc \in Applying => awsCmd.kind = "apply"
  /\ awsCmd.pc \in Deleting => awsCmd.kind = "delete"
  /\ awsCmd.pc \in {"provider", "accounts", "annotate", "trust", "provider gone"} => awsSpec.podIam
  /\ awsCmd.pc \notin {"accounts", "annotate", "trust"} => awsCmd.todo = {}
  /\ awsCmd.pc \in {"annotate", "trust"} => awsCmd.account \in awsCmd.todo

BaseInv == AwsTypeInv /\ PlaceInv

LEMMA BaseInit == AwsInit => BaseInv
BY AwsInitType DEF AwsInit, BaseInv, PlaceInv, AwsAt, NoAwsCmd, Applying, Deleting

LEMMA PlaceFinish ==
  ASSUME AwsTypeInv, NEW outcome \in {"ok", "failed", "panic"}, AwsFinish(outcome)
  PROVE  PlaceInv'
BY AwsFinishType DEF AwsTypeInv, PlaceInv, AwsAt, Applying, Deleting

LEMMA PlaceSteps ==
  ASSUME BaseInv, NEW from \in AwsPCs \ {"idle", "accounts", "annotate", "trust"},
         NEW to \in AwsPCs \ {"idle", "accounts", "annotate", "trust"},
         Steps(from, to), UNCHANGED awsSpec,
         to \in Applying => awsCmd.kind = "apply",
         to \in Deleting => awsCmd.kind = "delete",
         to \in {"provider", "provider gone"} => awsSpec.podIam
  PROVE  PlaceInv'
BY DEF BaseInv, PlaceInv, AwsAt, Steps, Registers

LEMMA PlaceProceed ==
  ASSUME BaseInv, AwsProceed, UNCHANGED awsSpec, ~AwsAt("idle"),
         awsCmd.pc \notin {"accounts", "annotate", "trust"}
  PROVE  PlaceInv'
<1>1. {"create", "remove"} \subseteq AwsPCs
  BY DEF AwsPCs
<1>2. QED
  BY <1>1, ProceedTypes, PlaceFinish, AwsMoveType
     DEF BaseInv, AwsTypeInv, PlaceInv, AwsAt, Applying, Deleting

LEMMA BaseNext ==
  ASSUME BaseInv, [AwsNext]_awsVars PROVE BaseInv'
<1> USE DEF BaseInv
<1>0. {"generate", "copy", "name", "persist", "create", "namespaces", "provider", "attach", "oidc",
       "manifests", "remove", "uninstall", "detach", "roles", "provider gone", "delete"}
        \subseteq AwsPCs \ {"idle", "accounts", "annotate", "trust"}
  BY DEF AwsPCs
<1>1. ASSUME NEW kind \in {"build", "apply", "delete"}, AwsStart(kind) PROVE BaseInv'
  BY <1>1, AwsStartType DEF PlaceInv, AwsAt, Applying, Deleting
<1>2. CASE AwsSkipGenerate
  <2>1. ~AwsAt("idle") /\ awsCmd.pc \notin {"accounts", "annotate", "trust"} /\ UNCHANGED awsSpec
    BY <1>2 DEF AwsSkipGenerate, AwsAt
  <2>2. AwsTypeInv'
    BY <1>2, SkipType
  <2>3. PlaceInv'
    BY <1>2, <2>1, PlaceProceed DEF AwsSkipGenerate
  <2>4. QED
    BY <2>2, <2>3
<1>3. CASE GenerateInfraConfigs
  BY <1>0, <1>3, GenerateType, PlaceSteps DEF GenerateInfraConfigs, Applying, Deleting
<1>4. CASE AwsPersistParameters
  <2>1. ~AwsAt("idle") /\ awsCmd.pc \notin {"accounts", "annotate", "trust"} /\ UNCHANGED awsSpec
    BY <1>4 DEF AwsPersistParameters, AwsAt
  <2>2. AwsTypeInv'
    BY <1>4, PersistType
  <2>3. PlaceInv'
    BY <1>4, <2>1, PlaceProceed DEF AwsPersistParameters
  <2>4. QED
    BY <2>2, <2>3
<1>5. CASE CreateEKSCluster
  <2>1. awsCmd.kind = "apply" /\ UNCHANGED awsSpec
    BY <1>5 DEF CreateEKSCluster, AwsAt, PlaceInv, Applying
  <2>2. AwsTypeInv' /\ (Steps("create", "namespaces") \/ AwsFinish("failed"))
    BY <1>5, CreateType
  <2>3. PlaceInv'
    BY <1>0, <2>1, <2>2, PlaceSteps, PlaceFinish DEF Deleting
  <2>4. QED
    BY <2>2, <2>3
<1>6. CASE CreateNamespaces
  <2>1. awsCmd.kind = "apply" /\ UNCHANGED awsSpec /\ awsCmd.client \in Clusters
    BY <1>6 DEF CreateNamespaces, AwsAt, PlaceInv, Applying
  <2>2. /\ AwsTypeInv'
        /\ \/ Steps("namespaces", "attach")
           \/ Steps("namespaces", "provider") /\ awsSpec.podIam
           \/ AwsFinish("failed")
    BY <1>6, <2>1, NamespacesType
  <2>3. PlaceInv'
    BY <1>0, <2>1, <2>2, PlaceSteps, PlaceFinish DEF Deleting
  <2>4. QED
    BY <2>2, <2>3
<1>7. CASE CreateIdentityProvider
  <2>1. UNCHANGED <<awsSpec, awsLast>> /\ awsCmd.pc = "provider"
    BY <1>7 DEF CreateIdentityProvider, AwsAt
  <2>2. QED
    BY <1>7, <2>1, ProviderType DEF PlaceInv, AwsAt, Applying, Deleting
<1>8. CASE CreateWebIdentityRole
  <2>1. PICK ksa \in awsCmd.todo :
          /\ iamRoles' = IF iamRoles[RoleOfAccount[ksa]].there THEN iamRoles
                         ELSE [iamRoles EXCEPT ![RoleOfAccount[ksa]] =
                                 [there |-> TRUE, issuer |-> eks.issuer, subjects |-> {ksa}]]
          /\ awsCmd' = [awsCmd EXCEPT !.pc = "annotate", !.account = ksa]
    BY <1>8 DEF CreateWebIdentityRole
  <2>2. /\ UNCHANGED <<awsSpec, awsDir, context, k8s, eks, providers, attached, awsLast, awsUsed>>
        /\ AwsAt("accounts")
    BY <1>8 DEF CreateWebIdentityRole
  <2>3. /\ AwsTypeInv' /\ awsCmd'.pc = "annotate" /\ awsCmd'.account = ksa
        /\ UNCHANGED <<awsCmd.client, awsCmd.kind, awsCmd.todo>>
    BY <2>1, <2>2, RoleType
  <2>4. QED
    BY <2>1, <2>2, <2>3 DEF PlaceInv, AwsAt, Applying, Deleting
<1>9. CASE AnnotateAccount
  <2>1. /\ awsCmd.client \in Clusters /\ awsCmd.account \in awsCmd.todo /\ awsCmd.account \in Accounts
        /\ UNCHANGED awsSpec
    BY <1>9 DEF AnnotateAccount, AwsAt, PlaceInv, AwsTypeInv, AwsCmdOK, Command
  <2>2. AwsTypeInv' /\ Steps("annotate", "trust")
    BY <1>9, <2>1, AnnotateType
  <2>3. QED
    BY <2>1, <2>2 DEF PlaceInv, AwsAt, Steps, Registers, Applying, Deleting
<1>10. CASE UpdateRoleTrustIdentity
  <2>1. /\ awsCmd.account \in Accounts /\ awsCmd.pc = "trust" /\ awsCmd.account \in awsCmd.todo
        /\ UNCHANGED <<awsSpec, awsLast>>
    BY <1>10 DEF UpdateRoleTrustIdentity, AwsAt, PlaceInv, AwsTypeInv, AwsCmdOK, Command
  <2>2. /\ AwsTypeInv' /\ awsCmd'.pc = IF awsCmd'.todo = {} THEN "attach" ELSE "accounts"
        /\ UNCHANGED <<awsCmd.client, awsCmd.kind>>
    BY <1>10, <2>1, TrustType
  <2>3. QED
    BY <2>1, <2>2 DEF PlaceInv, AwsAt, Applying, Deleting
<1>11. CASE AttachPolicies
  <2>1. awsCmd.kind = "apply"
    BY <1>11 DEF AttachPolicies, AwsAt, PlaceInv, Applying
  <2>2. QED
    BY <1>0, <1>11, <2>1, AttachType, PlaceSteps DEF Deleting
<1>12. CASE SetupOIDC
  <2>1. awsCmd.kind = "apply" /\ awsCmd.client \in Clusters /\ UNCHANGED awsSpec
    BY <1>12 DEF SetupOIDC, AwsAt, PlaceInv, Applying
  <2>2. QED
    BY <1>0, <1>12, <2>1, OidcType, PlaceSteps DEF Deleting
<1>13. CASE AwsApplyManifests
  BY <1>13, ApplyManifestsType, PlaceFinish
<1>14. CASE AwsRemoveManifests
  <2>1. awsCmd.kind = "delete" /\ UNCHANGED awsSpec
    BY <1>14 DEF AwsRemoveManifests, AwsAt, PlaceInv, Deleting
  <2>2. QED
    BY <1>0, <1>14, <2>1, RemoveType, PlaceSteps DEF Applying
<1>15. CASE UninstallDependencies
  <2>1. awsCmd.kind = "delete" /\ UNCHANGED awsSpec
    BY <1>15 DEF UninstallDependencies, AwsAt, PlaceInv, Deleting
  <2>2. QED
    BY <1>0, <1>15, <2>1, UninstallType, PlaceSteps DEF Applying
<1>16. CASE DetachPolicies
  <2>1. awsCmd.kind = "delete"
    BY <1>16 DEF DetachPolicies, AwsAt, PlaceInv, Deleting
  <2>2. QED
    BY <1>0, <1>16, <2>1, DetachType, PlaceSteps DEF Applying
<1>17. CASE DeleteRoles
  <2>1. awsCmd.kind = "delete"
    BY <1>17 DEF DeleteRoles, AwsAt, PlaceInv, Deleting
  <2>2. QED
    BY <1>0, <1>17, <2>1, DeleteRolesType, PlaceSteps DEF Applying
<1>18. CASE DeleteProvider
  <2>1. awsCmd.kind = "delete" /\ UNCHANGED awsSpec
    BY <1>18 DEF DeleteProvider, AwsAt, PlaceInv, Deleting
  <2>2. QED
    BY <1>0, <1>18, <2>1, DeleteProviderType, PlaceSteps DEF Applying
<1>19. CASE DeleteEKSCluster
  BY <1>19, DeleteClusterType, PlaceFinish
<1>20. CASE AwsStop
  BY <1>20, AwsStopType, PlaceFinish DEF AwsStop
<1>21. CASE DescribeFails
  <2>1. PICK outcome \in {"failed", "panic"} : AwsFinish(outcome)
    BY <1>21, DescribeFailsType
  <2>2. QED
    BY <1>21, <2>1, DescribeFailsType, PlaceFinish
<1>22. CASE NoContext
  BY <1>22, NoContextType, PlaceFinish
<1>23. CASE ReplaceCluster
  BY <1>23, ReplaceType DEF ReplaceCluster, PlaceInv, AwsAt, Applying, Deleting
<1>24. ASSUME NEW c \in Clusters, UseContext(c) PROVE BaseInv'
  BY <1>24, UseType DEF UseContext, PlaceInv, AwsAt, Applying, Deleting
<1>25. CASE UNCHANGED awsVars
  <2>1. /\ UNCHANGED <<awsSpec, awsDir, context, k8s, awsCmd, awsLast, awsUsed>>
        /\ UNCHANGED <<eks, providers, iamRoles, attached>>
    BY <1>25 DEF awsVars, cloud
  <2>2. AwsTypeInv'
    BY <2>1 DEF AwsTypeInv, WorldOK, CloudOK, AwsCmdOK, AwsUsedOK
  <2>3. PlaceInv'
    BY <2>1 DEF PlaceInv, AwsAt
  <2>4. QED
    BY <2>2, <2>3
<1>26. QED
  BY <1>1, <1>2, <1>3, <1>4, <1>5, <1>6, <1>7, <1>8, <1>9, <1>10, <1>11, <1>12, <1>13, <1>14, <1>15,
     <1>16, <1>17, <1>18, <1>19, <1>20, <1>21, <1>22, <1>23, <1>24, <1>25 DEF AwsNext

-----------------------------------------------------------------------------
(* The AWS platform: who changes what *)

LEMMA CloudChanges ==
  ASSUME [AwsNext]_awsVars
  PROVE  /\ UNCHANGED awsSpec
         /\ UNCHANGED iamRoles \/ CreateWebIdentityRole \/ UpdateRoleTrustIdentity \/ DeleteRoles
         /\ UNCHANGED eks \/ CreateEKSCluster \/ DeleteEKSCluster \/ ReplaceCluster
         /\ UNCHANGED attached \/ AttachPolicies \/ DetachPolicies \/ DeleteEKSCluster
<1>1. UNCHANGED awsSpec
  BY DEF AwsNext, awsVars, cloud, MayFail, AwsStart, AwsSkipGenerate, GenerateInfraConfigs,
         AwsPersistParameters, CreateEKSCluster, CreateNamespaces, CreateIdentityProvider,
         CreateWebIdentityRole, AnnotateAccount, UpdateRoleTrustIdentity, AttachPolicies,
         SetupOIDC, AwsApplyManifests, AwsRemoveManifests, UninstallDependencies,
         DetachPolicies, DeleteRoles, DeleteProvider, DeleteEKSCluster, AwsStop, DescribeFails,
         NoContext, ReplaceCluster, UseContext
<1>2. UNCHANGED iamRoles \/ CreateWebIdentityRole \/ UpdateRoleTrustIdentity \/ DeleteRoles
  BY DEF AwsNext, awsVars, cloud, MayFail, AwsStart, AwsSkipGenerate, GenerateInfraConfigs,
         AwsPersistParameters, CreateEKSCluster, CreateNamespaces, CreateIdentityProvider,
         AnnotateAccount, AttachPolicies, SetupOIDC, AwsApplyManifests, AwsRemoveManifests,
         UninstallDependencies, DetachPolicies, DeleteProvider, DeleteEKSCluster, AwsStop,
         DescribeFails, NoContext, ReplaceCluster, UseContext
<1>3. UNCHANGED eks \/ CreateEKSCluster \/ DeleteEKSCluster \/ ReplaceCluster
  BY DEF AwsNext, awsVars, cloud, MayFail, AwsStart, AwsSkipGenerate, GenerateInfraConfigs,
         AwsPersistParameters, CreateNamespaces, CreateIdentityProvider, CreateWebIdentityRole,
         AnnotateAccount, UpdateRoleTrustIdentity, AttachPolicies, SetupOIDC, AwsApplyManifests,
         AwsRemoveManifests, UninstallDependencies, DetachPolicies, DeleteRoles, DeleteProvider,
         AwsStop, DescribeFails, NoContext, UseContext
<1>4. UNCHANGED attached \/ AttachPolicies \/ DetachPolicies \/ DeleteEKSCluster
  BY DEF AwsNext, awsVars, cloud, MayFail, AwsStart, AwsSkipGenerate, GenerateInfraConfigs,
         AwsPersistParameters, CreateEKSCluster, CreateNamespaces, CreateIdentityProvider,
         CreateWebIdentityRole, AnnotateAccount, UpdateRoleTrustIdentity, SetupOIDC,
         AwsApplyManifests, AwsRemoveManifests, UninstallDependencies, DeleteRoles,
         DeleteProvider, AwsStop, DescribeFails, NoContext, ReplaceCluster, UseContext
<1>5. QED
  BY <1>1, <1>2, <1>3, <1>4

\* Failures and replaced clusters are never forgotten.
LEMMA EventsLast ==
  ASSUME BaseInv, [AwsNext]_awsVars
  PROVE  /\ awsUsed["failures"] # 0 => awsUsed'["failures"] # 0
         /\ awsUsed["clusters"] # 0 => awsUsed'["clusters"] # 0
<1> DEFINE Kept == \A f \in AwsEventKinds : awsUsed[f] # 0 => awsUsed'[f] # 0
<1>1. AwsUsedOK
  BY DEF BaseInv, AwsTypeInv
<1>2. UNCHANGED awsUsed \/ (\E e \in AwsEventKinds : AwsSpend(e)) \/ AttachPolicies \/ DetachPolicies
        \/ DeleteRoles
  BY DEF AwsNext, awsVars, AwsEventKinds, AwsGoto, AwsEnd, AwsProceed,
         AwsStart, AwsSkipGenerate, GenerateInfraConfigs,
         AwsPersistParameters, CreateEKSCluster, CreateNamespaces, CreateIdentityProvider,
         AnnotateAccount, SetupOIDC, AwsApplyManifests, CreateWebIdentityRole,
         UpdateRoleTrustIdentity, DeleteEKSCluster, ReplaceCluster,
         AwsRemoveManifests, UninstallDependencies, DeleteProvider, AwsStop, DescribeFails, NoContext,
         UseContext
<1>3. AwsTypeInv /\ "failures" \in AwsEventKinds /\ "clusters" \in AwsEventKinds
  BY DEF BaseInv, AwsEventKinds
<1>4. QED
  BY <1>1, <1>2, <1>3, AwsSpendType, AttachType, DetachType, DeleteRolesType

\* A step that is on the way through the accounts, or right after it.
Trusting == {"accounts", "annotate", "trust", "attach", "oidc", "manifests"}

LEMMA TrustingSteps ==
  ASSUME BaseInv, [AwsNext]_awsVars, awsSpec.podIam, awsCmd'.pc \in Trusting
  PROVE  \/ CreateIdentityProvider \/ CreateWebIdentityRole \/ AnnotateAccount
         \/ UpdateRoleTrustIdentity \/ AttachPolicies \/ SetupOIDC
         \/ UNCHANGED awsVars
<1> USE DEF Trusting
<1>1. ASSUME NEW kind \in {"build", "apply", "delete"}, AwsStart(kind) PROVE FALSE
  BY <1>1, AwsStartType DEF BaseInv, AwsAt
<1>2. ~AwsSkipGenerate /\ ~AwsPersistParameters
  BY ProceedTypes, AwsFinishType DEF AwsSkipGenerate, AwsPersistParameters, AwsMove, BaseInv,
     AwsTypeInv, AwsCmdOK, Command
<1>3. ~GenerateInfraConfigs
  BY GenerateType DEF BaseInv, Steps
<1>4. ~CreateEKSCluster
  BY CreateType, AwsFinishType DEF BaseInv, AwsTypeInv, Steps
<1>5. ~CreateNamespaces
  <2>1. CreateNamespaces => awsCmd.client \in Clusters
    BY DEF CreateNamespaces, BaseInv, PlaceInv, AwsAt
  <2>2. QED
    BY <2>1, NamespacesType, AwsFinishType DEF BaseInv, AwsTypeInv, Steps
<1>6. ~AwsApplyManifests /\ ~NoContext
  BY ApplyManifestsType, NoContextType, AwsFinishType DEF BaseInv, AwsTypeInv
<1>7. ~AwsRemoveManifests /\ ~UninstallDependencies /\ ~DetachPolicies /\ ~DeleteRoles /\ ~DeleteProvider
  BY RemoveType, UninstallType, DetachType, DeleteRolesType, DeleteProviderType DEF BaseInv, Steps
<1>8. ~DeleteEKSCluster
  BY DeleteClusterType, AwsFinishType DEF BaseInv, AwsTypeInv
<1>9. ~AwsStop
  BY AwsFinishType DEF AwsStop, BaseInv, AwsTypeInv
<1>10. ~DescribeFails
  BY DescribeFailsType, AwsFinishType DEF BaseInv, AwsTypeInv
<1>11. ~ReplaceCluster /\ ~\E c \in Clusters : UseContext(c)
  BY DEF ReplaceCluster, UseContext, AwsAt
<1>12. QED
  BY <1>1, <1>2, <1>3, <1>4, <1>5, <1>6, <1>7, <1>8, <1>9, <1>10, <1>11 DEF AwsNext

\* The same for a deletion whose roles are at stake.
LEMMA RemovingSteps ==
  ASSUME BaseInv, [AwsNext]_awsVars, awsCmd'.pc \in {"roles", "provider gone", "delete"}
  PROVE  DetachPolicies \/ DeleteRoles \/ DeleteProvider \/ UNCHANGED awsVars
<1>1. ASSUME NEW kind \in {"build", "apply", "delete"}, AwsStart(kind) PROVE FALSE
  BY <1>1, AwsStartType DEF BaseInv, AwsAt
<1>2. ~AwsSkipGenerate /\ ~AwsPersistParameters
  BY ProceedTypes, AwsFinishType DEF AwsSkipGenerate, AwsPersistParameters, AwsMove, BaseInv,
     AwsTypeInv, AwsCmdOK, Command
<1>3. ~GenerateInfraConfigs
  BY GenerateType DEF BaseInv, Steps
<1>4. ~CreateEKSCluster
  BY CreateType, AwsFinishType DEF BaseInv, AwsTypeInv, Steps
<1>5. ~CreateNamespaces
  <2>1. CreateNamespaces => awsCmd.client \in Clusters
    BY DEF CreateNamespaces, BaseInv, PlaceInv, AwsAt
  <2>2. QED
    BY <2>1, NamespacesType, AwsFinishType DEF BaseInv, AwsTypeInv, Steps
<1>6. ~AwsApplyManifests /\ ~NoContext
  BY ApplyManifestsType, NoContextType, AwsFinishType DEF BaseInv, AwsTypeInv
<1>7. ~CreateIdentityProvider
  BY ProviderType DEF BaseInv
<1>8. ~CreateWebIdentityRole
  BY DEF CreateWebIdentityRole, BaseInv, AwsTypeInv, AwsCmdOK, Command
<1>9. ~AnnotateAccount /\ ~UpdateRoleTrustIdentity
  BY DEF AnnotateAccount, UpdateRoleTrustIdentity, AwsGoto, AwsMove, BaseInv, AwsTypeInv, AwsCmdOK,
         Command
<1>10. ~AttachPolicies
  BY AttachType DEF BaseInv, Steps
<1>11. ~SetupOIDC
  <2>1. SetupOIDC => awsCmd.client \in Clusters
    BY DEF SetupOIDC, BaseInv, PlaceInv, AwsAt
  <2>2. QED
    BY <2>1, OidcType DEF BaseInv, Steps
<1>12. ~AwsRemoveManifests /\ ~UninstallDependencies
  BY RemoveType, UninstallType DEF BaseInv, Steps
<1>13. ~DeleteEKSCluster
  BY DeleteClusterType, AwsFinishType DEF BaseInv, AwsTypeInv
<1>14. ~AwsStop
  BY AwsFinishType DEF AwsStop, BaseInv, AwsTypeInv
<1>15. ~DescribeFails
  BY DescribeFailsType, AwsFinishType DEF BaseInv, AwsTypeInv
<1>16. ~ReplaceCluster /\ ~\E c \in Clusters : UseContext(c)
  BY DEF ReplaceCluster, UseContext, AwsAt
<1>17. QED
  BY <1>1, <1>2, <1>3, <1>4, <1>5, <1>6, <1>7, <1>8, <1>9, <1>10, <1>11, <1>12, <1>13, <1>14, <1>15,
     <1>16 DEF AwsNext

\* And for the step that ends an apply or a deletion well.
LEMMA EndingSteps ==
  ASSUME BaseInv, [AwsNext]_awsVars, awsLast'.outcome = "ok"
  PROVE  /\ awsLast'.kind = "apply" => AwsApplyManifests \/ UNCHANGED awsVars
         /\ awsLast'.kind = "delete" => DeleteEKSCluster \/ UNCHANGED awsVars
<1> DEFINE Same == UNCHANGED awsLast /\ ~AwsAt("idle")
<1>1. ~Same /\ ~AwsFinish("failed") /\ ~AwsFinish("panic")
  BY AwsFinishType DEF BaseInv, PlaceInv, AwsTypeInv
<1>2. ASSUME NEW kind \in {"build", "apply", "delete"}, AwsStart(kind) PROVE FALSE
  BY <1>2, AwsStartType DEF BaseInv
<1>3. AwsProceed /\ ~AwsAt("idle") => awsLast'.kind = "build"
  BY <1>1, ProceedTypes, AwsFinishType DEF BaseInv, AwsTypeInv, AwsMove
<1>4. AwsSkipGenerate \/ AwsPersistParameters => awsLast'.kind = "build"
  BY <1>3 DEF AwsSkipGenerate, AwsPersistParameters, AwsAt
<1>5. ~GenerateInfraConfigs /\ ~CreateEKSCluster /\ ~CreateNamespaces
  BY <1>1 DEF GenerateInfraConfigs, CreateEKSCluster, CreateNamespaces, AwsGoto, AwsMove, AwsEnd, AwsAt
<1>6. ~CreateIdentityProvider /\ ~CreateWebIdentityRole /\ ~AnnotateAccount /\ ~UpdateRoleTrustIdentity
  BY <1>1 DEF CreateIdentityProvider, CreateWebIdentityRole, AnnotateAccount, UpdateRoleTrustIdentity,
              AwsGoto, AwsMove, AwsAt
<1>7. ~AttachPolicies /\ ~SetupOIDC /\ ~AwsRemoveManifests /\ ~UninstallDependencies
  BY <1>1 DEF AttachPolicies, SetupOIDC, AwsRemoveManifests, UninstallDependencies, AwsGoto, AwsMove, AwsAt
<1>8. ~DetachPolicies /\ ~DeleteRoles /\ ~DeleteProvider
  BY <1>1 DEF DetachPolicies, DeleteRoles, DeleteProvider, AwsGoto, AwsMove, AwsAt
<1>9. AwsApplyManifests => awsLast'.kind = "apply"
  BY ApplyManifestsType, AwsFinishType
     DEF AwsApplyManifests, AwsAt, BaseInv, AwsTypeInv, PlaceInv, Applying
<1>10. DeleteEKSCluster => awsLast'.kind = "delete"
  <2>1. DeleteEKSCluster => awsCmd.kind = "delete"
    BY DEF DeleteEKSCluster, AwsAt, BaseInv, PlaceInv, Deleting
  <2>2. QED
    BY <2>1, DeleteClusterType, AwsFinishType DEF BaseInv, AwsTypeInv
<1>11. ~AwsStop /\ ~DescribeFails /\ ~NoContext
  BY <1>1 DEF AwsStop, DescribeFails, NoContext, AwsEnd
<1>12. ReplaceCluster => awsLast'.kind = "none"
  BY ReplaceType DEF BaseInv
<1>13. ASSUME NEW c \in Clusters, UseContext(c) PROVE awsLast'.kind = "none"
  BY <1>13, UseType DEF BaseInv
<1>14. QED
  BY <1>2, <1>4, <1>5, <1>6, <1>7, <1>8, <1>9, <1>10, <1>11, <1>12, <1>13 DEF AwsNext

-----------------------------------------------------------------------------
(* The AWS platform: the invariants *)

Trusted(ksa) ==
  LET role == iamRoles[RoleOfAccount[ksa]]
  IN role.there /\ ksa \in role.subjects /\ ksa \in k8s[awsCmd.client].accounts

\* The accounts an apply is done with are trusted, whatever is done for the
\* others meanwhile; the cluster and its identity provider stay.
TrustInv ==
  awsSpec.podIam /\ awsCmd.pc \in Trusting =>
    /\ \A ksa \in Accounts \ awsCmd.todo : Trusted(ksa)
    /\ awsCmd.pc \in {"annotate", "trust"} => iamRoles[RoleOfAccount[awsCmd.account]].there
    /\ awsCmd.pc = "trust" => awsCmd.account \in k8s[awsCmd.client].accounts
    /\ eks.up /\ eks.issuer \in providers

\* Only a failure or another cluster separates a role from the issuer it trusts.
Undisturbed == awsSpec.podIam /\ awsUsed["failures"] = 0 /\ awsUsed["clusters"] = 0
IssuerInv ==
  Undisturbed =>
    \A r \in {"admin", "user"} : iamRoles[r].there => eks.up /\ iamRoles[r].issuer = eks.issuer

\* A deletion detaches, then deletes the roles, then the provider.
RemovedInv ==
  awsUsed["failures"] = 0 =>
    /\ awsCmd.pc \in {"roles", "provider gone", "delete"} => attached \cap RolesToDetach = {}
    /\ awsSpec.podIam /\ awsCmd.pc \in {"provider gone", "delete"} =>
         \A r \in {"admin", "user"} : ~iamRoles[r].there
    /\ awsSpec.podIam /\ awsCmd.pc = "delete" => eks.issuer \notin providers

\* Policies are attached to a role there is.
AttachedInv == "admin" \in attached => iamRoles["admin"].there

AwsInv ==
  BaseInv /\ TrustInv /\ IssuerInv /\ RemovedInv /\ AttachedInv /\ AccountsTrusted /\ AwsNothingLeft

LEMMA AwsInitInv == AwsInit => AwsInv
<1> SUFFICES ASSUME AwsInit PROVE AwsInv
  OBVIOUS
<1>1. awsCmd.pc = "idle" /\ awsLast.outcome = "none"
  BY DEF AwsInit, NoAwsCmd
<1>2. \A r \in {"admin", "user"} : ~iamRoles[r].there
  BY ClusterTypes DEF AwsInit
<1>3. attached = {}
  BY DEF AwsInit
<1>4. QED
  BY <1>1, <1>2, <1>3, BaseInit
     DEF AwsInv, TrustInv, IssuerInv, RemovedInv, AttachedInv, AccountsTrusted, AwsNothingLeft, Trusting

LEMMA Still ==
  ASSUME UNCHANGED awsVars
  PROVE  /\ UNCHANGED <<awsSpec, awsDir, context, k8s, awsCmd, awsLast, awsUsed>>
         /\ UNCHANGED <<eks, providers, iamRoles, attached>>
BY DEF awsVars, cloud

LEMMA TrustNext ==
  ASSUME AwsInv, [AwsNext]_awsVars PROVE TrustInv'
<1> USE DEF AwsInv
<1>0. UNCHANGED awsSpec
  BY CloudChanges
<1> SUFFICES ASSUME awsSpec.podIam, awsCmd'.pc \in Trusting PROVE TrustInv'
  BY <1>0 DEF TrustInv
<1>1. CASE CreateIdentityProvider
  BY <1>1, ProviderType DEF CreateIdentityProvider, BaseInv, TrustInv, Trusted
<1>2. CASE CreateWebIdentityRole
  <2>1. PICK ksa \in awsCmd.todo :
          /\ iamRoles' = IF iamRoles[RoleOfAccount[ksa]].there THEN iamRoles
                         ELSE [iamRoles EXCEPT ![RoleOfAccount[ksa]] =
                                 [there |-> TRUE, issuer |-> eks.issuer, subjects |-> {ksa}]]
          /\ awsCmd' = [awsCmd EXCEPT !.pc = "annotate", !.account = ksa]
    BY <1>2 DEF CreateWebIdentityRole
  <2>2. /\ UNCHANGED <<awsSpec, awsDir, context, k8s, eks, providers, attached, awsLast, awsUsed>>
        /\ AwsAt("accounts")
    BY <1>2 DEF CreateWebIdentityRole
  <2>3. /\ AwsTypeInv' /\ awsCmd'.pc = "annotate" /\ awsCmd'.account = ksa
        /\ UNCHANGED <<awsCmd.client, awsCmd.kind, awsCmd.todo>> /\ ksa \in Accounts
    BY <2>1, <2>2, RoleType DEF BaseInv
  <2>4. /\ \A r \in {"admin", "user"} : iamRoles[r].there => iamRoles'[r] = iamRoles[r]
        /\ iamRoles'[RoleOfAccount[ksa]].there
    BY <2>1, <2>3, AccountRoles DEF BaseInv, AwsTypeInv, CloudOK
  <2>5. \A other \in Accounts \ awsCmd.todo : Trusted(other)
    BY <2>2 DEF TrustInv, AwsAt, Trusting
  <2>6. \A other \in Accounts \ awsCmd'.todo : Trusted(other)'
    BY <2>2, <2>3, <2>4, <2>5, AccountRoles DEF Trusted
  <2>7. eks'.up /\ eks'.issuer \in providers'
    BY <2>2 DEF TrustInv, AwsAt, Trusting
  <2>8. QED
    BY <2>2, <2>3, <2>4, <2>6, <2>7 DEF TrustInv
<1>3. CASE AnnotateAccount
  <2>1. /\ awsCmd.client \in Clusters /\ awsCmd.account \in awsCmd.todo /\ awsCmd.account \in Accounts
        /\ UNCHANGED <<awsSpec, eks, providers, iamRoles>> /\ awsCmd.pc = "annotate"
        /\ k8s' = [k8s EXCEPT ![awsCmd.client].accounts = @ \cup {awsCmd.account}]
    BY <1>3 DEF AnnotateAccount, AwsAt, BaseInv, PlaceInv, AwsTypeInv, AwsCmdOK, Command, cloud
  <2>2. Steps("annotate", "trust")
    BY <1>3, <2>1, AnnotateType DEF BaseInv
  <2>3. k8s'[awsCmd.client].accounts = k8s[awsCmd.client].accounts \cup {awsCmd.account}
    BY <2>1 DEF BaseInv, AwsTypeInv, WorldOK, Cluster
  <2>4. QED
    BY <2>1, <2>2, <2>3 DEF TrustInv, Trusted, Steps, Registers, Trusting
<1>4. CASE UpdateRoleTrustIdentity
  <2>1. /\ awsCmd.account \in Accounts /\ awsCmd.pc = "trust" /\ awsCmd.account \in awsCmd.todo
        /\ UNCHANGED <<awsSpec, awsLast, k8s, eks, providers>>
        /\ iamRoles' = [iamRoles EXCEPT ![RoleOfAccount[awsCmd.account]].subjects = @ \cup {awsCmd.account}]
    BY <1>4 DEF UpdateRoleTrustIdentity, AwsAt, BaseInv, PlaceInv, AwsTypeInv, AwsCmdOK, Command
  <2>2. /\ awsCmd'.todo = awsCmd.todo \ {awsCmd.account}
        /\ awsCmd'.pc = IF awsCmd'.todo = {} THEN "attach" ELSE "accounts"
        /\ UNCHANGED <<awsCmd.client, awsCmd.kind>>
    BY <1>4, <2>1, TrustType DEF BaseInv
  <2>3. /\ \A r \in {"admin", "user"} : /\ iamRoles'[r].there = iamRoles[r].there
                                        /\ iamRoles[r].subjects \subseteq iamRoles'[r].subjects
        /\ awsCmd.account \in iamRoles'[RoleOfAccount[awsCmd.account]].subjects
    BY <2>1, AccountRoles DEF BaseInv, AwsTypeInv, CloudOK, Role
  <2>4. /\ \A ksa \in Accounts \ awsCmd.todo : Trusted(ksa)
        /\ iamRoles[RoleOfAccount[awsCmd.account]].there
        /\ awsCmd.account \in k8s[awsCmd.client].accounts
        /\ eks.up /\ eks.issuer \in providers
    BY <2>1 DEF TrustInv, Trusting
  <2>5. \A ksa \in Accounts \ awsCmd'.todo : Trusted(ksa)'
    BY <2>1, <2>2, <2>3, <2>4, AccountRoles DEF Trusted
  <2>6. QED
    BY <2>1, <2>2, <2>4, <2>5 DEF TrustInv
<1>5. CASE AttachPolicies
  BY <1>5, AttachType DEF BaseInv, Steps, Registers, TrustInv, Trusted, Trusting
<1>6. CASE SetupOIDC
  <2>1. /\ awsCmd.client \in Clusters /\ UNCHANGED <<awsSpec, eks, providers, iamRoles>>
        /\ k8s' = [k8s EXCEPT ![awsCmd.client].oidc = TRUE]
    BY <1>6 DEF SetupOIDC, AwsAt, BaseInv, PlaceInv, cloud
  <2>2. Steps("oidc", "manifests")
    BY <1>6, <2>1, OidcType DEF BaseInv
  <2>3. k8s'[awsCmd.client].accounts = k8s[awsCmd.client].accounts
    BY <2>1 DEF BaseInv, AwsTypeInv, WorldOK, Cluster
  <2>4. QED
    BY <2>1, <2>2, <2>3 DEF TrustInv, Trusted, Steps, Registers, Trusting
<1>7. CASE UNCHANGED awsVars
  BY <1>7, Still DEF TrustInv, Trusted
<1>8. QED
  BY <1>1, <1>2, <1>3, <1>4, <1>5, <1>6, <1>7, TrustingSteps

\* What the two steps of an account do to the roles.
LEMMA RoleChanges ==
  ASSUME AwsInv, CreateWebIdentityRole \/ UpdateRoleTrustIdentity
  PROVE  /\ UNCHANGED <<awsSpec, eks, awsUsed>> /\ eks.up
         /\ \A r \in {"admin", "user"} : /\ iamRoles[r].there => iamRoles'[r].there
                                         /\ iamRoles'[r].there =>
                                              \/ iamRoles[r].there /\ iamRoles'[r].issuer = iamRoles[r].issuer
                                              \/ iamRoles'[r].issuer = eks.issuer
<1> USE DEF AwsInv, BaseInv
<1>1. CASE CreateWebIdentityRole
  <2>1. PICK ksa \in awsCmd.todo :
          iamRoles' = IF iamRoles[RoleOfAccount[ksa]].there THEN iamRoles
                      ELSE [iamRoles EXCEPT ![RoleOfAccount[ksa]] =
                              [there |-> TRUE, issuer |-> eks.issuer, subjects |-> {ksa}]]
    BY <1>1 DEF CreateWebIdentityRole
  <2>2. ksa \in Accounts
    BY DEF AwsTypeInv, AwsCmdOK, Command
  <2>3. UNCHANGED <<awsSpec, eks, awsUsed>> /\ eks.up
    BY <1>1 DEF CreateWebIdentityRole, AwsAt, TrustInv, PlaceInv, Trusting
  <2>4. QED
    BY <2>1, <2>2, <2>3, AccountRoles DEF AwsTypeInv, CloudOK
<1>2. CASE UpdateRoleTrustIdentity
  <2>1. awsCmd.account \in Accounts
    BY <1>2 DEF UpdateRoleTrustIdentity, AwsAt, PlaceInv, AwsTypeInv, AwsCmdOK, Command
  <2>2. UNCHANGED <<awsSpec, eks, awsUsed>> /\ eks.up
    BY <1>2 DEF UpdateRoleTrustIdentity, AwsAt, TrustInv, PlaceInv, Trusting
  <2>3. iamRoles' = [iamRoles EXCEPT ![RoleOfAccount[awsCmd.account]].subjects = @ \cup {awsCmd.account}]
    BY <1>2 DEF UpdateRoleTrustIdentity
  <2>4. QED
    BY <2>1, <2>2, <2>3, AccountRoles DEF AwsTypeInv, CloudOK, Role
<1>3. QED
  BY <1>1, <1>2

\* DeleteRoles takes roles away and leaves the others as they are.
LEMMA RolesGo ==
  ASSUME AwsInv, DeleteRoles
  PROVE  /\ \A r \in {"admin", "user"} : iamRoles'[r].there => iamRoles'[r] = iamRoles[r]
         /\ \A r \in attached \cap {"admin", "user"} : iamRoles'[r] = iamRoles[r]
         /\ UNCHANGED <<awsSpec, eks, providers, attached>>
BY DeleteRolesType, ClusterTypes DEF AwsInv, BaseInv, AwsTypeInv, CloudOK

LEMMA IssuerNext ==
  ASSUME AwsInv, [AwsNext]_awsVars PROVE IssuerInv'
<1> USE DEF AwsInv
<1>1. UNCHANGED awsSpec
  BY CloudChanges
<1> SUFFICES ASSUME Undisturbed' PROVE IssuerInv'
  BY DEF IssuerInv
<1>2. Undisturbed
  BY <1>1, EventsLast DEF Undisturbed
<1>3. \A r \in {"admin", "user"} : iamRoles[r].there => eks.up /\ iamRoles[r].issuer = eks.issuer
  BY <1>2 DEF IssuerInv
<1>4. CASE CreateWebIdentityRole \/ UpdateRoleTrustIdentity
  BY <1>3, <1>4, RoleChanges DEF IssuerInv
<1>5. CASE DeleteRoles
  BY <1>3, <1>5, RolesGo DEF IssuerInv
<1>6. CASE CreateEKSCluster
  \* there is no role without a cluster
  BY <1>3, <1>6 DEF CreateEKSCluster, IssuerInv
<1>7. CASE DeleteEKSCluster
  <2>1. \A r \in {"admin", "user"} : ~iamRoles[r].there
    BY <1>2, <1>7 DEF DeleteEKSCluster, AwsAt, RemovedInv, Undisturbed
  <2>2. QED
    BY <1>7, <2>1 DEF DeleteEKSCluster, IssuerInv
<1>8. CASE ReplaceCluster
  BY <1>8, ReplaceType DEF Undisturbed, BaseInv
<1>9. CASE UNCHANGED <<iamRoles, eks>>
  BY <1>3, <1>9 DEF IssuerInv
<1>10. CASE UNCHANGED iamRoles /\ ~UNCHANGED eks
  BY <1>6, <1>7, <1>8, <1>10, CloudChanges
<1>11. QED
  BY <1>4, <1>5, <1>9, <1>10, CloudChanges

LEMMA AttachedNext ==
  ASSUME AwsInv, [AwsNext]_awsVars PROVE AttachedInv'
<1> USE DEF AwsInv
<1> SUFFICES ASSUME "admin" \in attached' PROVE iamRoles'["admin"].there
  BY DEF AttachedInv
<1>1. CASE AttachPolicies
  <2>1. UNCHANGED iamRoles /\ ("admin" \in attached \/ awsSpec.podIam)
    BY <1>1, AttachType DEF BaseInv
  <2>2. awsCmd.pc = "attach" /\ awsCmd.todo = {}
    BY <1>1 DEF AttachPolicies, AwsAt, BaseInv, PlaceInv
  <2>3. awsSpec.podIam => Trusted("kf-admin")
    BY <2>2, AccountRoles DEF TrustInv, Trusting
  <2>4. QED
    BY <2>1, <2>3, AccountRoles DEF AttachedInv, Trusted
<1>2. CASE ~AttachPolicies
  <2>1. "admin" \in attached
    BY <1>2, CloudChanges, DetachType, DeleteClusterType DEF BaseInv
  <2>2. iamRoles["admin"].there
    BY <2>1 DEF AttachedInv
  <2>3. QED
    BY <2>1, <2>2, CloudChanges, RoleChanges, RolesGo
<1>3. QED
  BY <1>1, <1>2

LEMMA RemovedNext ==
  ASSUME AwsInv, [AwsNext]_awsVars PROVE RemovedInv'
<1> USE DEF AwsInv
<1>0. UNCHANGED awsSpec
  BY CloudChanges
<1> SUFFICES ASSUME awsUsed'["failures"] = 0, awsCmd'.pc \in {"roles", "provider gone", "delete"}
             PROVE  RemovedInv'
  BY DEF RemovedInv
<1>1. awsUsed["failures"] = 0
  BY EventsLast
<1>2. RolesToDetach' = RolesToDetach
  BY <1>0 DEF RolesToDetach
<1>3. CASE DetachPolicies
  BY <1>2, <1>3, DetachType DEF BaseInv, Steps, RemovedInv
<1>4. CASE DeleteRoles
  <2>1. attached \cap RolesToDetach = {} /\ attached \subseteq {"admin", "worker"}
    BY <1>1, <1>4 DEF DeleteRoles, AwsAt, RemovedInv, BaseInv, AwsTypeInv, CloudOK
  <2>2. awsSpec.podIam => attached \subseteq {"worker"}
    BY <2>1 DEF RolesToDetach
  <2>3. /\ UNCHANGED attached
        /\ ~awsSpec.podIam \/ iamRoles' = [r \in DOMAIN iamRoles |-> IF r \in attached THEN iamRoles[r] ELSE NoRole]
        /\ IF awsSpec.podIam THEN awsCmd'.pc = "provider gone" ELSE awsCmd'.pc = "delete"
    BY <1>4, DeleteRolesType DEF BaseInv, Steps
  <2>4. awsSpec.podIam => \A r \in {"admin", "user"} : ~iamRoles'[r].there
    BY <2>2, <2>3, ClusterTypes DEF BaseInv, AwsTypeInv, CloudOK
  <2>5. QED
    BY <1>0, <1>2, <2>1, <2>3, <2>4 DEF RemovedInv
<1>5. CASE DeleteProvider
  <2>1. awsCmd.pc = "provider gone" /\ awsSpec.podIam /\ awsCmd'.pc = "delete"
    BY <1>5, DeleteProviderType DEF DeleteProvider, AwsAt, BaseInv, PlaceInv, Steps
  <2>2. attached \cap RolesToDetach = {} /\ \A r \in {"admin", "user"} : ~iamRoles[r].there
    BY <1>1, <2>1 DEF RemovedInv
  <2>3. UNCHANGED <<attached, iamRoles, eks>> /\ providers' = providers \ {eks.issuer}
    BY <1>5 DEF DeleteProvider
  <2>4. attached' \cap RolesToDetach' = {} /\ (\A r \in {"admin", "user"} : ~iamRoles'[r].there)
        /\ eks'.issuer \notin providers'
    BY <1>2, <2>2, <2>3
  <2>5. QED
    BY <2>4 DEF RemovedInv
<1>6. CASE UNCHANGED awsVars
  <2>1. UNCHANGED <<awsCmd, awsUsed, awsSpec, attached, iamRoles, eks, providers>>
    BY <1>6, Still
  <2>2. attached' \cap RolesToDetach' = attached \cap RolesToDetach
    BY <1>2, <2>1
  <2>3. QED
    BY <2>1, <2>2 DEF RemovedInv
<1>7. QED
  BY <1>3, <1>4, <1>5, <1>6, RemovingSteps

LEMMA AccountsNext ==
  ASSUME AwsInv, [AwsNext]_awsVars PROVE AccountsTrusted'
<1> USE DEF AwsInv
<1>0. UNCHANGED awsSpec
  BY CloudChanges
<1> SUFFICES ASSUME awsLast'.kind = "apply", awsLast'.outcome = "ok", awsSpec.podIam
             PROVE  AccountsTrusted'
  BY <1>0 DEF AccountsTrusted
<1>1. CASE UNCHANGED awsVars
  BY <1>1, Still DEF AccountsTrusted
<1>2. CASE AwsApplyManifests
  <2>1. awsCmd.pc = "manifests" /\ awsCmd.todo = {}
    BY <1>2 DEF AwsApplyManifests, AwsAt, BaseInv, PlaceInv
  <2>2. \A ksa \in Accounts : Trusted(ksa)
    BY <2>1 DEF TrustInv, Trusting
  <2>3. eks.issuer \in providers
    BY <2>1 DEF TrustInv, Trusting
  <2>4. awsLast'.client = awsCmd.client /\ awsCmd.client \in Clusters
    BY <1>2, <2>1, ApplyManifestsType, AwsFinishType DEF BaseInv, AwsTypeInv, PlaceInv, AwsAt
  <2>5. UNCHANGED <<iamRoles, providers, eks, awsUsed>>
    BY <1>2 DEF AwsApplyManifests, AwsEnd, cloud
  <2>6. k8s'[awsCmd.client].accounts = k8s[awsCmd.client].accounts
    BY <1>2, <2>4 DEF AwsApplyManifests, BaseInv, AwsTypeInv, WorldOK, Cluster
  <2>7. awsUsed["failures"] \in Nat /\ awsUsed["clusters"] \in Nat
    BY DEF BaseInv, AwsTypeInv, AwsUsedOK, AwsEventKinds
  <2>8. ASSUME awsUsed["failures"] + awsUsed["clusters"] = 0, NEW ksa \in Accounts
        PROVE  iamRoles[RoleOfAccount[ksa]].issuer = eks.issuer
    <3>1. awsUsed["failures"] = 0 /\ awsUsed["clusters"] = 0
      BY <2>7, <2>8
    <3>2. QED
      BY <2>2, <3>1, AccountRoles DEF IssuerInv, Undisturbed, Trusted
  <2>9. QED
    BY <2>2, <2>3, <2>4, <2>5, <2>6, <2>8 DEF AccountsTrusted, Trusted
<1>3. QED
  BY <1>1, <1>2, EndingSteps

LEMMA NothingLeftNext ==
  ASSUME AwsInv, [AwsNext]_awsVars PROVE AwsNothingLeft'
<1> USE DEF AwsInv
<1>0. UNCHANGED awsSpec
  BY CloudChanges
<1> SUFFICES ASSUME awsLast'.kind = "delete", awsLast'.outcome = "ok", awsUsed'["failures"] = 0
             PROVE  AwsNothingLeft'
  BY DEF AwsNothingLeft
<1>1. RolesToDetach' = RolesToDetach
  BY <1>0 DEF RolesToDetach
<1>2. CASE UNCHANGED awsVars
  BY <1>1, <1>2, Still DEF AwsNothingLeft
<1>3. CASE DeleteEKSCluster
  <2>1. awsCmd.pc = "delete" /\ awsUsed["failures"] = 0
    BY <1>3, EventsLast DEF DeleteEKSCluster, AwsAt
  <2>2. /\ attached \cap RolesToDetach = {}
        /\ awsSpec.podIam => /\ \A r \in {"admin", "user"} : ~iamRoles[r].there
                             /\ eks.issuer \notin providers
    BY <2>1 DEF RemovedInv
  <2>3. UNCHANGED <<providers, iamRoles>> /\ attached' \subseteq attached /\ eks'.issuer = eks.issuer
    BY <1>3, DeleteClusterType DEF BaseInv
  <2>4. DOMAIN iamRoles = {"admin", "user"}
    BY DEF BaseInv, AwsTypeInv, CloudOK
  <2>5. QED
    BY <1>0, <1>1, <2>2, <2>3, <2>4 DEF AwsNothingLeft
<1>4. QED
  BY <1>2, <1>3, EndingSteps

LEMMA AwsAlways == AwsSpecification => []AwsInv
<1>1. AwsInit => AwsInv
  BY AwsInitInv
<1>2. AwsInv /\ [AwsNext]_awsVars => AwsInv'
  BY BaseNext, TrustNext, IssuerNext, AttachedNext, RemovedNext, AccountsNext, NothingLeftNext DEF AwsInv
<1>3. QED
  BY <1>1, <1>2, PTL DEF AwsSpecification

-----------------------------------------------------------------------------
(* The AWS platform: theorems *)

\* Types, and policies are attached only to a role there is (AwsTypeOK).
THEOREM AwsTypeCorrect == AwsSpecification => []AwsTypeOK
<1>1. AwsInv => AwsTypeOK
  BY DEF AwsInv, BaseInv, AwsTypeInv, WorldOK, CloudOK, AwsCmdOK, AwsUsedOK, AttachedInv, AwsTypeOK,
         Command, Cluster, Role, AwsKinds
<1>2. QED
  BY <1>1, AwsAlways, PTL

\* An apply that succeeded has made every role trust its accounts
\* (AccountsTrusted; setupIamRoleForServiceAccount, aws.go).
THEOREM AccountsAreTrusted == AwsSpecification => []AccountsTrusted
<1>1. AwsInv => AccountsTrusted
  BY DEF AwsInv
<1>2. QED
  BY <1>1, AwsAlways, PTL

\* A deletion that succeeded has removed what it is to remove
\* (AwsNothingLeft; Delete, aws.go).
THEOREM NothingOfAwsIsLeft == AwsSpecification => []AwsNothingLeft
<1>1. AwsInv => AwsNothingLeft
  BY DEF AwsInv
<1>2. QED
  BY <1>1, AwsAlways, PTL
=============================================================================
