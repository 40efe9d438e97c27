-------------------------------- MODULE KfAws --------------------------------
(***************************************************************************)
(* The AWS platform (pkg/kfapp/aws) as one kfctl command after the other   *)
(* uses it.  Its Apply spreads over two systems: in AWS an identity        *)
(* provider for the cluster's issuer, two IAM roles and inline policies;   *)
(* in Kubernetes the service accounts annotated with the roles.  A role    *)
(* and its policies outlive the cluster they were made for, their names    *)
(* holding no more than the region and the name of the cluster.            *)
(***************************************************************************)
EXTENDS Naturals, FiniteSets

CONSTANT AwsLimit          \* bounds: how often each event may happen

AwsEventKinds == {"commands", "stops", "failures", "clusters", "contexts"}

ASSUME AwsAssumption == AwsLimit \in [AwsEventKinds -> Nat]

VARIABLES
  awsSpec,   \* the plugin's specification: managedCluster, enablePodIamPolicy
  awsDir,    \* how far the directory aws_config has been written
  eks,       \* the cluster of the KfDef's name, and the issuer of its tokens
  context,   \* the cluster the kubeconfig's current context points to
  k8s,       \* what a cluster holds
  providers, \* issuers with an identity provider
  iamRoles,  \* the roles of the administrator and of the user
  attached,  \* the roles that have inline policies of Kubeflow
  awsCmd, awsLast, awsUsed

cloud == <<eks, providers, iamRoles, attached>>
awsVars == <<awsSpec, awsDir, context, k8s, cloud, awsCmd, awsLast, awsUsed>>

\* kubeflowSAIamRoleMapping.
RoleOfAccount == [ksa \in {"kf-admin", "alb", "profiles", "fluentd", "kf-user"} |->
                    IF ksa = "kf-user" THEN "user" ELSE "admin"]
Accounts == DOMAIN RoleOfAccount

Clusters == {"own", "other"}
EmptyCluster == [namespaces |-> FALSE, accounts |-> {}, oidc |-> FALSE, manifests |-> FALSE]
NoRole   == [there |-> FALSE, issuer |-> 0, subjects |-> {}]
NoAwsCmd == [kind |-> "none", pc |-> "idle", client |-> "none", roles |-> {}, todo |-> {}, account |-> "none"]

AwsPCs == {"idle", "generate", "copy", "name", "persist", "create", "namespaces", "provider",
           "accounts", "annotate", "trust", "attach", "oidc", "manifests", "remove",
           "uninstall", "detach", "roles", "provider gone", "delete"}

AwsTypeOK ==
  /\ awsSpec \in [managed : BOOLEAN, podIam : BOOLEAN]
  /\ awsDir \in {"none", "made", "copied", "named", "set"}
  /\ eks \in [up : BOOLEAN, issuer : Nat]
  /\ context \in Clusters \cup {"none"}
  /\ k8s \in [Clusters -> [namespaces : BOOLEAN, accounts : SUBSET Accounts,
                           oidc : BOOLEAN, manifests : BOOLEAN]]
  /\ providers \subseteq 1..eks.issuer
  /\ iamRoles \in [{"admin", "user"} -> [there : BOOLEAN, issuer : Nat, subjects : SUBSET Accounts]]
  /\ attached \subseteq {"admin", "worker"}
  /\ "admin" \in attached => iamRoles["admin"].there
  /\ awsCmd.pc \in AwsPCs /\ awsCmd.client \in Clusters \cup {"none"}
  /\ awsCmd.todo \subseteq Accounts
  /\ awsLast.outcome \in {"none", "ok", "failed", "panic"}
  /\ awsUsed \in [AwsEventKinds -> Nat]

\* kfctl needs a context to start with, also when it is to create the cluster.
AwsInit ==
  /\ awsSpec \in [managed : BOOLEAN, podIam : BOOLEAN]
  /\ awsDir = "none"
  /\ eks = [up |-> ~awsSpec.managed, issuer |-> IF awsSpec.managed THEN 0 ELSE 1]
  /\ context = IF awsSpec.managed THEN "other" ELSE "own"
  /\ k8s = [c \in Clusters |-> EmptyCluster]
  /\ providers = {}
  /\ iamRoles = [r \in {"admin", "user"} |-> NoRole]
  /\ attached = {}
  /\ awsCmd = NoAwsCmd
  /\ awsLast = [kind |-> "none", outcome |-> "none", client |-> "none"]
  /\ awsUsed = [e \in AwsEventKinds |-> 0]

-----------------------------------------------------------------------------
(* Helpers *)

AwsSpend(e) == awsUsed[e] < AwsLimit[e] /\ awsUsed' = [awsUsed EXCEPT ![e] = @ + 1]

AwsAt(pc) == awsCmd.pc = pc
AwsMove(pc) == awsCmd' = [awsCmd EXCEPT !.pc = pc] /\ UNCHANGED awsLast
AwsGoto(pc) == AwsMove(pc) /\ UNCHANGED awsUsed
AwsFinish(outcome) ==
  /\ awsCmd' = NoAwsCmd
  /\ awsLast' = [kind |-> awsCmd.kind, outcome |-> outcome, client |-> awsCmd.client]
AwsEnd(outcome) == AwsFinish(outcome) /\ UNCHANGED awsUsed

\* A call whose error is only logged: it works, or fails without a trace.
MayFail(works) ==
  \/ works /\ UNCHANGED awsUsed
  \/ AwsSpend("failures") /\ UNCHANGED <<providers, iamRoles, attached>>

\* The roles that attachPoliciesToRoles gets: the specification's or the new
\* cluster's, and the administrator's.
RolesToAttach == {"worker"} \cup (IF awsSpec.podIam THEN {"admin"} ELSE {})

\* The roles that Delete detaches the policies from.
RolesToDetach == IF awsSpec.podIam THEN {"admin"} ELSE {"worker"}

-----------------------------------------------------------------------------
(* Init and Generate *)

\* GetPlatform makes the Kubernetes client, of the context of that moment.
AwsStart(kind) ==
  /\ AwsAt("idle") /\ AwsSpend("commands")
  /\ IF context = "none"
     THEN UNCHANGED awsCmd /\ awsLast' = [kind |-> kind, outcome |-> "failed", client |-> "none"]
     ELSE /\ awsCmd' = [NoAwsCmd EXCEPT !.kind = kind, !.pc = "generate", !.client = context]
          /\ awsLast' = [kind |-> kind, outcome |-> "none", client |-> context]
  /\ UNCHANGED <<awsSpec, awsDir, context, k8s, cloud>>

AwsProceed ==
  \/ awsCmd.kind = "build" /\ AwsEnd("ok")
  \/ awsCmd.kind = "apply" /\ AwsGoto("create")
  \/ awsCmd.kind = "delete" /\ AwsGoto("remove")

\* Generate does nothing if aws_config exists, complete or not.
AwsSkipGenerate ==
  AwsAt("generate") /\ awsDir # "none" /\ AwsProceed
    /\ UNCHANGED <<awsSpec, awsDir, context, k8s, cloud>>

\* The directory, its files, and the cluster's name in one of them.
GenerateInfraConfigs ==
  /\ \/ AwsAt("generate") /\ awsDir = "none" /\ awsDir' = "made" /\ AwsGoto("copy")
     \/ AwsAt("copy") /\ awsDir' = "copied" /\ AwsGoto("name")
     \/ AwsAt("name") /\ awsDir' = "named" /\ AwsGoto("persist")
  /\ UNCHANGED <<awsSpec, context, k8s, cloud>>

\* The parameters of Generate, which the coordinator writes with the
\* configuration.
AwsPersistParameters ==
  /\ AwsAt("persist") /\ awsDir' = "set" /\ AwsProceed
  /\ UNCHANGED <<awsSpec, context, k8s, cloud>>

-----------------------------------------------------------------------------
(* Apply *)

\* createEKSCluster: eksctl refuses a cluster that exists and a file that does
\* not name one; it points the kubeconfig to the new cluster.
CreateEKSCluster ==
  /\ AwsAt("create")
  /\ \/ ~awsSpec.managed /\ AwsGoto("namespaces") /\ UNCHANGED <<eks, context>>
     \/ /\ awsSpec.managed /\ ~eks.up /\ awsDir \in {"named", "set"}
        /\ eks' = [up |-> TRUE, issuer |-> eks.issuer + 1]
        /\ context' = "own"
        /\ AwsGoto("namespaces")
     \/ /\ awsSpec.managed /\ (eks.up \/ awsDir \notin {"named", "set"})
        /\ AwsEnd("failed") /\ UNCHANGED <<eks, context>>
  /\ UNCHANGED <<awsSpec, awsDir, k8s, providers, iamRoles, attached>>

\* createNamespace, twice, then what enablePodIamPolicy asks for, which needs
\* an EKS cluster.
CreateNamespaces ==
  /\ AwsAt("namespaces")
  /\ k8s' = [k8s EXCEPT ![awsCmd.client].namespaces = TRUE]
  /\ IF ~awsSpec.podIam THEN AwsGoto("attach")
     ELSE IF eks.up THEN AwsGoto("provider") ELSE AwsEnd("failed")
  /\ UNCHANGED <<awsSpec, awsDir, context, cloud>>

CreateIdentityProvider ==
  /\ AwsAt("provider") /\ eks.up
  /\ providers' = providers \cup {eks.issuer}
  /\ awsCmd' = [awsCmd EXCEPT !.pc = "accounts", !.todo = Accounts]
  /\ UNCHANGED <<awsSpec, awsDir, context, k8s, eks, iamRoles, attached, awsLast, awsUsed>>

\* Mutant: the role is made anew for each account.
CreateRoleAnew ==
  /\ AwsAt("accounts")
  /\ \E ksa \in awsCmd.todo :
       /\ iamRoles' = [iamRoles EXCEPT ![RoleOfAccount[ksa]] =
                         [there |-> TRUE, issuer |-> eks.issuer, subjects |-> {ksa}]]
       /\ awsCmd' = [awsCmd EXCEPT !.pc = "annotate", !.account = ksa]
  /\ UNCHANGED <<awsSpec, awsDir, context, k8s, eks, providers, attached, awsLast, awsUsed>>

\* createOrUpdateWebIdentityRole updates nothing: a role that exists keeps the
\* issuer it was made for.  The order of the accounts is that of a Go map.
CreateWebIdentityRole ==
  /\ AwsAt("accounts")
  /\ \E ksa \in awsCmd.todo :
       LET r == RoleOfAccount[ksa]
       IN /\ iamRoles' = IF iamRoles[r].there THEN iamRoles
                         ELSE [iamRoles EXCEPT ![r] = [there |-> TRUE, issuer |-> eks.issuer,
                                                       subjects |-> {ksa}]]
          /\ awsCmd' = [awsCmd EXCEPT !.pc = "annotate", !.account = ksa]
  /\ UNCHANGED <<awsSpec, awsDir, context, k8s, eks, providers, attached, awsLast, awsUsed>>

AnnotateAccount ==
  /\ AwsAt("annotate")
  /\ k8s' = [k8s EXCEPT ![awsCmd.client].accounts = @ \cup {awsCmd.account}]
  /\ AwsGoto("trust")
  /\ UNCHANGED <<awsSpec, awsDir, context, cloud>>

\* updateRoleTrustIdentity keeps the statement's issuer and adds the account.
UpdateRoleTrustIdentity ==
  /\ AwsAt("trust")
  /\ LET left == awsCmd.todo \ {awsCmd.account}
     IN /\ iamRoles' = [iamRoles EXCEPT ![RoleOfAccount[awsCmd.account]].subjects = @ \cup {awsCmd.account}]
        /\ awsCmd' = [awsCmd EXCEPT !.pc = IF left = {} THEN "attach" ELSE "accounts",
                                    !.todo = left, !.account = "none"]
  /\ UNCHANGED <<awsSpec, awsDir, context, k8s, eks, providers, attached, awsLast, awsUsed>>

\* attachPoliciesToRoles: a missing file makes an empty document, which IAM
\* refuses; that is logged like any other failure.
AttachPolicies ==
  /\ AwsAt("attach") /\ AwsMove("oidc")
  /\ MayFail(/\ attached' = IF awsDir = "made" THEN attached ELSE attached \cup RolesToAttach
             /\ UNCHANGED <<providers, iamRoles>>)
  /\ UNCHANGED <<awsSpec, awsDir, context, k8s, eks>>

\* With an OIDC login configured; a secret that is there stays as it is.
SetupOIDC ==
  /\ AwsAt("oidc")
  /\ k8s' = [k8s EXCEPT ![awsCmd.client].oidc = TRUE]
  /\ AwsGoto("manifests")
  /\ UNCHANGED <<awsSpec, awsDir, context, cloud>>

\* The coordinator applies the manifests to the cluster of the context.
AwsApplyManifests ==
  /\ AwsAt("manifests") /\ context \in Clusters
  /\ k8s' = [k8s EXCEPT ![context].manifests = TRUE]
  /\ AwsEnd("ok")
  /\ UNCHANGED <<awsSpec, awsDir, context, cloud>>

-----------------------------------------------------------------------------
(* Delete *)

\* The coordinator deletes the manifests first.
AwsRemoveManifests ==
  /\ AwsAt("remove") /\ context \in Clusters
  /\ k8s' = [k8s EXCEPT ![context].manifests = FALSE]
  /\ AwsGoto("uninstall")
  /\ UNCHANGED <<awsSpec, awsDir, context, cloud>>

\* uninstallK8sDependencies: ingress, cert-manager and Istio are among the
\* manifests; files that are missing are passed over.
UninstallDependencies ==
  AwsAt("uninstall") /\ AwsGoto("detach") /\ UNCHANGED <<awsSpec, awsDir, context, k8s, cloud>>

\* Mutant: the policies stay attached.
DetachNothing ==
  AwsAt("detach") /\ eks.up /\ AwsGoto("roles") /\ UNCHANGED <<awsSpec, awsDir, context, k8s, cloud>>

\* detachPoliciesFromWorkerRoles.
DetachPolicies ==
  /\ AwsAt("detach") /\ eks.up /\ AwsMove("roles")
  /\ MayFail(attached' = attached \ RolesToDetach /\ UNCHANGED <<providers, iamRoles>>)
  /\ UNCHANGED <<awsSpec, awsDir, context, k8s, eks>>

\* Mutant: the roles go whatever is attached to them.
DeleteRolesAnyway ==
  /\ AwsAt("roles") /\ eks.up
  /\ AwsMove("provider gone")
  /\ MayFail(/\ iamRoles' = [r \in DOMAIN iamRoles |-> NoRole]
             /\ UNCHANGED <<providers, attached>>)
  /\ UNCHANGED <<awsSpec, awsDir, context, k8s, eks>>

\* deleteWebIdentityRolesAndProvider: IAM keeps a role that has inline policies,
\* and the error is not looked at.
DeleteRoles ==
  /\ AwsAt("roles") /\ eks.up
  /\ IF ~awsSpec.podIam
     THEN AwsGoto("delete") /\ UNCHANGED <<providers, iamRoles, attached>>
     ELSE /\ AwsMove("provider gone")
          /\ MayFail(/\ iamRoles' = [r \in DOMAIN iamRoles |-> IF r \in attached THEN iamRoles[r] ELSE NoRole]
                     /\ UNCHANGED <<providers, attached>>)
  /\ UNCHANGED <<awsSpec, awsDir, context, k8s, eks>>

DeleteProvider ==
  /\ AwsAt("provider gone")
  /\ providers' = providers \ {eks.issuer}
  /\ AwsGoto("delete")
  /\ UNCHANGED <<awsSpec, awsDir, context, k8s, eks, iamRoles, attached>>

\* deleteEKSCluster: the worker roles go with the cluster, and the context.
DeleteEKSCluster ==
  /\ AwsAt("delete")
  /\ \/ ~awsSpec.managed /\ AwsEnd("ok") /\ UNCHANGED <<eks, context, k8s, attached>>
     \/ /\ awsSpec.managed /\ awsDir \in {"named", "set"}
        /\ eks' = [eks EXCEPT !.up = FALSE]
        /\ k8s' = [k8s EXCEPT !["own"] = EmptyCluster]
        /\ context' = IF context = "own" THEN "none" ELSE context
        /\ attached' = attached \ {"worker"}
        /\ AwsEnd("ok")
     \/ /\ awsSpec.managed /\ awsDir \notin {"named", "set"}
        /\ AwsEnd("failed") /\ UNCHANGED <<eks, context, k8s, attached>>
  /\ UNCHANGED <<awsSpec, awsDir, providers, iamRoles>>

-----------------------------------------------------------------------------
(* Errors and the rest of the world *)

AwsStop ==
  /\ ~AwsAt("idle") /\ AwsSpend("stops") /\ AwsFinish("failed")
  /\ UNCHANGED <<awsSpec, awsDir, context, k8s, cloud>>

\* getEksCluster: the error of a missing cluster is not a KfError, and Delete
\* asserts that it is one.
DescribeFails ==
  /\ awsCmd.pc \in {"provider", "detach", "roles"} /\ ~eks.up
  /\ AwsEnd(IF AwsAt("provider") THEN "failed" ELSE "panic")
  /\ UNCHANGED <<awsSpec, awsDir, context, k8s, cloud>>

NoContext ==
  /\ awsCmd.pc \in {"manifests", "remove"} /\ context = "none" /\ AwsEnd("failed")
  /\ UNCHANGED <<awsSpec, awsDir, context, k8s, cloud>>

\* The user, between two commands: replaces the cluster, changes the context.
ReplaceCluster ==
  /\ AwsAt("idle") /\ ~awsSpec.managed /\ AwsSpend("clusters")
  /\ eks' = [eks EXCEPT !.issuer = @ + 1]
  /\ k8s' = [k8s EXCEPT !["own"] = EmptyCluster]
  /\ awsLast' = [awsLast EXCEPT !.kind = "none"]
  /\ UNCHANGED <<awsSpec, awsDir, context, providers, iamRoles, attached, awsCmd>>

UseContext(c) ==
  /\ AwsAt("idle") /\ c # context /\ (c = "own" => eks.up) /\ AwsSpend("contexts")
  /\ context' = c
  /\ awsLast' = [awsLast EXCEPT !.kind = "none"]
  /\ UNCHANGED <<awsSpec, awsDir, k8s, cloud, awsCmd>>

AwsNext ==
  \/ \E kind \in {"build", "apply", "delete"} : AwsStart(kind)
  \/ AwsSkipGenerate \/ GenerateInfraConfigs \/ AwsPersistParameters
  \/ CreateEKSCluster \/ CreateNamespaces \/ CreateIdentityProvider
  \/ CreateWebIdentityRole \/ AnnotateAccount \/ UpdateRoleTrustIdentity
  \/ AttachPolicies \/ SetupOIDC \/ AwsApplyManifests
  \/ AwsRemoveManifests \/ UninstallDependencies \/ DetachPolicies \/ DeleteRoles
  \/ DeleteProvider \/ DeleteEKSCluster
  \/ AwsStop \/ DescribeFails \/ NoContext \/ ReplaceCluster
  \/ \E c \in Clusters : UseContext(c)

AwsSpecification == AwsInit /\ [][AwsNext]_awsVars

-----------------------------------------------------------------------------
(* Properties *)

\* After an apply that succeeded with enablePodIamPolicy, in whatever order it
\* went through the accounts and after whatever earlier commands: the role of
\* each account trusts it, by the issuer of the cluster that is there now
\* unless a role was left by a cluster before it, and the account is annotated
\* in the cluster the command's client belongs to (setupIamRoleForServiceAccount,
\* aws.go; identity.go).
AccountsTrusted ==
  awsLast.kind = "apply" /\ awsLast.outcome = "ok" /\ awsSpec.podIam =>
    \A ksa \in Accounts :
      LET role == iamRoles[RoleOfAccount[ksa]]
      IN /\ role.there /\ ksa \in role.subjects
         /\ ksa \in k8s[awsLast.client].accounts
         /\ awsUsed["failures"] + awsUsed["clusters"] = 0 =>
              role.issuer = eks.issuer /\ role.issuer \in providers

\* After a deletion that succeeded no role, provider or policy that it is to
\* remove is left, although no call that fails on them stops it: a role is free
\* of policies when it is to go (Delete, aws.go).
AwsNothingLeft ==
  awsLast.kind = "delete" /\ awsLast.outcome = "ok" /\ awsUsed["failures"] = 0 =>
    /\ attached \cap RolesToDetach = {}
    /\ awsSpec.podIam =>
         eks.issuer \notin providers /\ \A r \in DOMAIN iamRoles : ~iamRoles[r].there

\* A deletion that succeeded leaves no inline policy on the worker roles ("Detach
\* inline policies from worker IAM Roles", aws.go:777).
WorkerPoliciesDetached ==
  awsLast.kind = "delete" /\ awsLast.outcome = "ok" /\ awsUsed["failures"] = 0 =>
    "worker" \notin attached
=============================================================================
