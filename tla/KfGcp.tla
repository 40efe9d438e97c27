-------------------------------- MODULE KfGcp --------------------------------
(***************************************************************************)
(* The GCP platform (pkg/kfapp/gcp/gcp.go, pkg/utils/iamutils.go) as one   *)
(* kfctl command after the other uses it: kfctl build runs Init and        *)
(* Generate, kfctl apply goes on with Apply, kfctl delete with Delete      *)
(* (pkg/kfapp/coordinator/coordinator.go).                                 *)
(*                                                                         *)
(* Generate writes the directory gcp_config; Apply turns its files into    *)
(* deployments of the Deployment Manager, rewrites the project's IAM       *)
(* policy, which belongs to everybody in the project, and prepares the     *)
(* cluster.  A command may stop at any step, by an error or an interrupt,  *)
(* and the next one starts from what it has left.                          *)
(***************************************************************************)
EXTENDS Naturals, Sequences, FiniteSets

CONSTANTS
  Roles,
  Strangers,        \* members of the project's policy that are not of this deployment
  IamTemplates,     \* iam_bindings.yaml, as shipped and as the user may edit it
  Storage,          \* the plugin's createPipelinePersistentStorage
  DeleteStorage,    \* spec.deleteStorage
  GcpLimit          \* bounds: how often each event may happen

Deployments     == {"storage", "main", "network", "gcfs"}
ServiceAccounts == {"admin", "user", "vm"}
Members         == ServiceAccounts \cup {"iap"} \cup Strangers
Files           == Deployments \cup {"templates", "iam"}
GcpEventKinds   == {"commands", "stops", "failures", "edits", "grants"}
Placeholders    == {"set-admin", "set-user", "set-vm", "set-iap"}

ASSUME GcpAssumption ==
  /\ Strangers \cap (ServiceAccounts \cup {"iap"} \cup Placeholders) = {}
  /\ IamTemplates \in Seq(Seq([members : SUBSET (Placeholders \cup Strangers),
                               roles : SUBSET Roles]))
  /\ Len(IamTemplates) > 0
  /\ {Storage, DeleteStorage} \subseteq BOOLEAN
  /\ GcpLimit \in [GcpEventKinds -> Nat]

VARIABLES
  gcpDir,     \* the files of gcp_config, if the directory exists
  fileRev,    \* the revision of each file
  dm,         \* the deployments of the Deployment Manager
  policy,     \* the project's IAM policy
  keys,       \* how many keys each service account has
  identities, \* bindings in the policies of the service accounts themselves
  endpoint,   \* the service of Cloud Endpoints is there
  gke,        \* the cluster's secrets, service accounts and so on
  gcpCmd,     \* the command that is running
  gcpLast,    \* the last command and how it ended
  gcpUsed     \* how often each event has happened

inDir   == <<gcpDir, fileRev>>
project == <<dm, policy, keys, identities, endpoint>>
gcpVars == <<inDir, project, gke, gcpCmd, gcpLast, gcpUsed>>

Gone == 0
NoDeployment == [present |-> FALSE, rev |-> Gone, target |-> Gone, status |-> "DONE", error |-> FALSE]
NoPolicy  == [etag |-> 0, grants |-> {}]
NoCluster == [secrets |-> {}, accounts |-> {}, admin |-> FALSE, manifests |-> FALSE, copied |-> FALSE]
NoGcpCmd  == [kind |-> "none", pc |-> "idle", at |-> 1, waits |-> {}, stale |-> {}, pol |-> NoPolicy]

KeyOwners == <<"admin", "user">>
DmOrder   == <<"storage", "main", "network", "gcfs">>      \* as updateDM goes through them
DeleteOrder == <<"main", "storage", "network", "gcfs">>    \* and Delete

\* The Kubernetes service accounts Apply binds, and the one for the profiles
\* controller, each to the service account it acts for.
Mappings == <<[ns |-> "kubeflow", ksa |-> "kf-admin", sa |-> "admin"],
              [ns |-> "kubeflow", ksa |-> "kf-user", sa |-> "user"],
              [ns |-> "istio", ksa |-> "kf-admin", sa |-> "admin"]>>
ProfilesMapping == [ns |-> "kubeflow", ksa |-> "profiles", sa |-> "admin"]
Owner == [ns |-> "none", ksa |-> "owner", sa |-> "user"]

GcpPCs == {"idle", "enable", "generate", "copy", "iam", "cluster", "storage", "persist",
           "dm", "wait", "clearGet", "clearSet", "rewriteGet", "rewriteSet", "k8s",
           "secret", "insert", "login", "owner", "identity", "manifests", "added",
           "remove", "delete", "deleted", "deleteGet", "deleteSet", "endpoint"}

GcpTypeOK ==
  /\ gcpDir \in [made : BOOLEAN, files : SUBSET Files, configured : BOOLEAN]
  /\ fileRev \in [Files -> Nat]
  /\ dm \in [Deployments -> [present : BOOLEAN, rev : Nat, target : Nat,
                             status : {"DONE", "RUNNING"}, error : BOOLEAN]]
  /\ policy \in [etag : Nat, grants : SUBSET (Roles \X Members)]
  /\ keys \in [ServiceAccounts -> Nat]
  /\ endpoint \in BOOLEAN
  /\ gke.secrets \subseteq {"admin", "user", "login"}
  /\ gcpCmd.pc \in GcpPCs /\ gcpCmd.at \in 1..5
  /\ gcpCmd.waits \subseteq Deployments /\ gcpCmd.stale \subseteq gcpCmd.waits
  /\ gcpLast.outcome \in {"none", "ok", "failed"}
  /\ gcpUsed \in [GcpEventKinds -> Nat]
  /\ \A d \in Deployments : dm[d].status = "RUNNING" => dm[d].present

\* A project in which a stranger holds a role, and an empty directory.
GcpInit ==
  /\ gcpDir = [made |-> FALSE, files |-> {}, configured |-> FALSE]
  /\ fileRev = [f \in Files |-> 1]
  /\ dm = [d \in Deployments |-> NoDeployment]
  /\ \E g \in SUBSET (Roles \X Strangers) : policy = [etag |-> 1, grants |-> g]
  /\ keys = [s \in ServiceAccounts |-> 0]
  /\ identities = {}
  /\ endpoint = FALSE
  /\ gke = NoCluster
  /\ gcpCmd = NoGcpCmd
  /\ gcpLast = [kind |-> "none", outcome |-> "none"]
  /\ gcpUsed = [e \in GcpEventKinds |-> 0]

-----------------------------------------------------------------------------
(* Helpers *)

GcpSpend(e) == gcpUsed[e] < GcpLimit[e] /\ gcpUsed' = [gcpUsed EXCEPT ![e] = @ + 1]

At(pc) == gcpCmd.pc = pc
Goto(pc) == gcpCmd' = [gcpCmd EXCEPT !.pc = pc, !.at = 1] /\ UNCHANGED <<gcpLast, gcpUsed>>
Again(pc) == gcpCmd' = [gcpCmd EXCEPT !.pc = pc, !.at = @ + 1] /\ UNCHANGED <<gcpLast, gcpUsed>>
End(outcome) ==
  /\ gcpCmd' = NoGcpCmd
  /\ gcpLast' = [kind |-> gcpCmd.kind, outcome |-> outcome]
  /\ UNCHANGED gcpUsed

ClusterUp == dm["main"].rev # Gone

\* Placeholders of the template and the accounts they stand for.
RoleAccounts == [p \in Placeholders |->
  CASE p = "set-admin" -> "admin" [] p = "set-user" -> "user"
    [] p = "set-vm" -> "vm" [] p = "set-iap" -> "iap"]
Account(m) == IF m \in Placeholders THEN RoleAccounts[m] ELSE m

\* iam_bindings.yaml, the placeholders replaced.
IamBindings ==
  LET template == IamTemplates[fileRev["iam"]]
  IN [i \in DOMAIN template |-> [template[i] EXCEPT !.members = {Account(m) : m \in @}]]

\* ReadIamBindingsYAML: the members of the first binding that lists a role;
\* those of the later ones go into a union whose result is dropped.
BoundFirst(bindings, r, i) ==
  /\ r \in bindings[i].roles
  /\ \A j \in DOMAIN bindings : j < i => r \notin bindings[j].roles
FileGrants(bindings) ==
  {g \in Roles \X Members :
     \E i \in DOMAIN bindings : BoundFirst(bindings, g[1], i) /\ g[2] \in bindings[i].members}

\* Mutant: only the accounts that will be bound again are cleared.
ClearVmOnly(grants) == {g \in grants : g[2] # "vm"}

\* ClearIamPolicy, and the loop of Delete.
ClearIamPolicy(grants) == {g \in grants : g[2] \notin ServiceAccounts}

\* RewriteIamPolicy.
RewriteIamPolicy(grants, adding) == grants \cup adding

-----------------------------------------------------------------------------
(* Init and Generate *)

\* kfctl build, apply or delete.
GcpStart(kind) ==
  /\ At("idle") /\ GcpSpend("commands")
  /\ gcpCmd' = [NoGcpCmd EXCEPT !.kind = kind, !.pc = "enable"]
  /\ gcpLast' = [kind |-> kind, outcome |-> "none"]
  /\ UNCHANGED <<inDir, project, gke>>

\* Init enables the APIs of the project and waits for it.
GcpInitProject == At("enable") /\ Goto("generate") /\ UNCHANGED <<inDir, project, gke>>

\* What follows Generate.
Proceed ==
  \/ gcpCmd.kind = "build" /\ End("ok")
  \/ gcpCmd.kind = "apply" /\ Goto("dm")
  \/ gcpCmd.kind = "delete" /\ Goto("remove")

\* Generate does nothing if gcp_config exists, complete or not.
SkipGenerate == At("generate") /\ gcpDir.made /\ Proceed /\ UNCHANGED <<inDir, project, gke>>

MakeConfigDir ==
  /\ At("generate") /\ ~gcpDir.made
  /\ gcpDir' = [gcpDir EXCEPT !.made = TRUE]
  /\ Goto("copy") /\ UNCHANGED <<fileRev, project, gke>>

\* Each file of generateDMConfigs, in its order.
WriteFile(f, pc, next) ==
  /\ At(pc)
  /\ gcpDir' = [gcpDir EXCEPT !.files = @ \cup {f}]
  /\ Goto(next) /\ UNCHANGED <<fileRev, project, gke>>

GenerateDMConfigs ==
  \/ WriteFile("templates", "copy", "iam")
  \/ WriteFile("iam", "iam", "cluster")
  \/ WriteFile("main", "cluster", IF Storage THEN "storage" ELSE "persist")
  \/ WriteFile("storage", "storage", "persist")

\* The parameters Generate sets are in memory until the coordinator writes the
\* configuration.
PersistParameters ==
  /\ At("persist")
  /\ gcpDir' = [gcpDir EXCEPT !.configured = TRUE]
  /\ Proceed /\ UNCHANGED <<fileRev, project, gke>>

-----------------------------------------------------------------------------
(* Apply: the Deployment Manager and the project's policy *)

\* Mutant: an update is not waited for.
UpdateUnwaited(d) ==
  /\ dm' = [dm EXCEPT ![d].target = fileRev[d], ![d].status = "RUNNING", ![d].error = FALSE]
  /\ gcpCmd' = [gcpCmd EXCEPT !.at = @ + 1]

\* updateDeployment finds the deployment at rest.
UpdateOrWait(d) ==
  \/ /\ dm[d].status = "DONE"
     /\ dm' = [dm EXCEPT ![d].target = fileRev[d], ![d].status = "RUNNING", ![d].error = FALSE]
     /\ gcpCmd' = [gcpCmd EXCEPT !.at = @ + 1, !.waits = @ \cup {d}]
  \/ /\ dm[d].status = "RUNNING"     \* an operation that an earlier command has started
     /\ gcpCmd' = [gcpCmd EXCEPT !.at = @ + 1, !.waits = @ \cup {d}, !.stale = @ \cup {d}]
     /\ UNCHANGED dm

InsertDeployment(d) ==
  /\ dm' = [dm EXCEPT ![d] = [present |-> TRUE, rev |-> Gone, target |-> fileRev[d],
                              status |-> "RUNNING", error |-> FALSE]]
  /\ gcpCmd' = [gcpCmd EXCEPT !.at = @ + 1, !.waits = @ \cup {d}]

UpdateDeployment ==
  /\ At("dm") /\ gcpCmd.at \in DOMAIN DmOrder
  /\ LET d == DmOrder[gcpCmd.at]
     IN \/ /\ d \notin gcpDir.files
           /\ gcpCmd' = [gcpCmd EXCEPT !.at = @ + 1] /\ UNCHANGED dm
        \/ d \in gcpDir.files /\ dm[d].present /\ UpdateOrWait(d)
        \/ d \in gcpDir.files /\ ~dm[d].present /\ InsertDeployment(d)
  /\ UNCHANGED <<inDir, policy, keys, identities, endpoint, gke, gcpLast, gcpUsed>>

AllUpdated == At("dm") /\ gcpCmd.at > Len(DmOrder) /\ Goto("wait") /\ UNCHANGED <<inDir, project, gke>>

\* blockingWait: an operation that ended with an HTTP error is permanent.
BlockingWait ==
  /\ At("wait")
  /\ \/ /\ \A d \in gcpCmd.waits : dm[d].status = "DONE" /\ ~dm[d].error
        /\ Goto(IF "iam" \in gcpDir.files THEN "clearGet" ELSE "k8s")
     \/ (\E d \in gcpCmd.waits : dm[d].status = "DONE" /\ dm[d].error) /\ End("failed")
  /\ UNCHANGED <<inDir, project, gke>>

GetIamPolicy(get, set) ==
  /\ At(get)
  /\ gcpCmd' = [gcpCmd EXCEPT !.pc = set, !.pol = policy]
  /\ UNCHANGED <<inDir, project, gke, gcpLast, gcpUsed>>

\* Mutant: the etag that was read is not sent with the policy.
SetWithoutEtag(grants) == policy' = [etag |-> policy.etag + 1, grants |-> grants]

\* SetIamPolicy: the policy keeps the etag it was read with, and the service
\* refuses it when somebody else was faster.
SetIamPolicy(grants) ==
  /\ gcpCmd.pol.etag = policy.etag
  /\ policy' = [etag |-> policy.etag + 1, grants |-> grants]

ClearBindings ==
  /\ At("clearSet") /\ SetIamPolicy(ClearIamPolicy(gcpCmd.pol.grants)) /\ Goto("rewriteGet")
  /\ UNCHANGED <<inDir, dm, keys, identities, endpoint, gke>>

RewriteBindings ==
  /\ At("rewriteSet")
  /\ SetIamPolicy(RewriteIamPolicy(gcpCmd.pol.grants, FileGrants(IamBindings)))
  /\ Goto("k8s")
  /\ UNCHANGED <<inDir, dm, keys, identities, endpoint, gke>>

\* The backoff reads the policy again.
RetryBindings ==
  /\ gcpCmd.pol.etag # policy.etag
  /\ \/ At("clearSet") /\ Goto("clearGet")
     \/ At("rewriteSet") /\ Goto("rewriteGet")
  /\ UNCHANGED <<inDir, project, gke>>

-----------------------------------------------------------------------------
(* Apply: the cluster *)

\* ConfigK8s makes the account an administrator of the cluster; get-credentials
\* points the kubeconfig to it.
ConfigK8s ==
  /\ At("k8s") /\ ClusterUp
  /\ gke' = [gke EXCEPT !.admin = TRUE]
  /\ Goto("secret") /\ UNCHANGED <<inDir, project>>

NextSecret == IF gcpCmd.at = Len(KeyOwners) THEN Goto("login") ELSE Again("secret")

\* createGcpServiceAcctSecret creates a key, then the secret that holds it.
SecretExists ==
  /\ At("secret") /\ ClusterUp /\ KeyOwners[gcpCmd.at] \in gke.secrets
  /\ NextSecret /\ UNCHANGED <<inDir, project, gke>>

\* Mutant: the key is created whether or not its secret is there.
CreateKeyAnyway ==
  /\ At("secret") /\ ClusterUp
  /\ keys' = [keys EXCEPT ![KeyOwners[gcpCmd.at]] = @ + 1]
  /\ gcpCmd' = [gcpCmd EXCEPT !.pc = "insert"]
  /\ UNCHANGED <<inDir, dm, policy, identities, endpoint, gke, gcpLast, gcpUsed>>

CreateKey ==
  /\ At("secret") /\ ClusterUp /\ KeyOwners[gcpCmd.at] \notin gke.secrets
  /\ keys' = [keys EXCEPT ![KeyOwners[gcpCmd.at]] = @ + 1]
  /\ gcpCmd' = [gcpCmd EXCEPT !.pc = "insert"]
  /\ UNCHANGED <<inDir, dm, policy, identities, endpoint, gke, gcpLast, gcpUsed>>

InsertSecret ==
  /\ At("insert") /\ ClusterUp
  /\ gke' = [gke EXCEPT !.secrets = @ \cup {KeyOwners[gcpCmd.at]}]
  /\ NextSecret /\ UNCHANGED <<inDir, project>>

\* The secret of basic auth or of the identity-aware proxy.
CreateLogin ==
  /\ At("login") /\ ClusterUp
  /\ gke' = [gke EXCEPT !.secrets = @ \cup {"login"}]
  /\ Goto("owner") /\ UNCHANGED <<inDir, project>>

AllowAdminEditUserSA ==
  /\ At("owner")
  /\ identities' = identities \cup {Owner}
  /\ Goto("identity") /\ UNCHANGED <<inDir, dm, policy, keys, endpoint, gke>>

\* setupWorkloadIdentity: the Kubernetes service account may be missing after
\* it, the error of createOrUpdateK8sServiceAccount is not looked at.
SetupWorkloadIdentity(m, failed) ==
  /\ gke' = [gke EXCEPT !.accounts = IF failed THEN @ ELSE @ \cup {m}]
  /\ identities' = identities \cup {m}

BindIdentities ==
  /\ At("identity") /\ ClusterUp
  /\ SetupWorkloadIdentity(Mappings[gcpCmd.at], FALSE)
  /\ IF gcpCmd.at = Len(Mappings) THEN Goto("manifests") ELSE Again("identity")
  /\ UNCHANGED <<inDir, dm, policy, keys, endpoint>>

BindIdentityOnly ==
  /\ At("identity") /\ ClusterUp /\ GcpSpend("failures")
  /\ SetupWorkloadIdentity(Mappings[gcpCmd.at], TRUE)
  /\ gcpCmd' = [gcpCmd EXCEPT !.pc = IF gcpCmd.at = Len(Mappings) THEN "manifests" ELSE @,
                              !.at = IF gcpCmd.at = Len(Mappings) THEN 1 ELSE @ + 1]
  /\ UNCHANGED <<inDir, dm, policy, keys, endpoint, gcpLast>>

\* The coordinator applies the manifests between Apply and what it adds to it.
ApplyManifests ==
  /\ At("manifests") /\ ClusterUp
  /\ gke' = [gke EXCEPT !.manifests = TRUE]
  /\ Goto("added") /\ UNCHANGED <<inDir, project>>

\* SetupWorkloadIdentityPermission; ConfigPodDefault, if the user's default
\* namespace is there, copies the user secret into it.
AddedConfig ==
  /\ At("added") /\ ClusterUp
  /\ identities' = identities \cup {ProfilesMapping}
  /\ \E copies \in BOOLEAN :
       /\ copies => "user" \in gke.secrets
       /\ gke' = [gke EXCEPT !.accounts = @ \cup {ProfilesMapping},
                             !.copied = @ \/ copies]
  /\ End("ok") /\ UNCHANGED <<inDir, dm, policy, keys, endpoint>>

-----------------------------------------------------------------------------
(* Delete *)

\* The coordinator deletes the manifests before the platform.
RemoveManifests ==
  /\ At("remove") /\ ClusterUp
  /\ gke' = [gke EXCEPT !.manifests = FALSE]
  /\ Goto("delete") /\ UNCHANGED <<inDir, project>>

\* Mutant: the storage deployment is left out whatever the specification says.
DeletingWithoutStorage == {"main"} \cup ({"network", "gcfs"} \cap gcpDir.files)

DeletingDeployments ==
  {"main"} \cup (IF DeleteStorage THEN {"storage"} ELSE {})
           \cup ({"network", "gcfs"} \cap gcpDir.files)

\* The deletion has come to this deployment.
DeletingAt == DeleteOrder[gcpCmd.at]

\* deleteDeployment: one that is not there counts as deleted; the service
\* refuses to delete one that is being changed.
DeleteDeployment ==
  /\ At("delete") /\ gcpCmd.at \in DOMAIN DeleteOrder
  /\ LET d == DeletingAt
     IN \/ /\ d \notin DeletingDeployments \/ ~dm[d].present
           /\ Again("delete") /\ UNCHANGED dm
        \/ /\ d \in DeletingDeployments /\ dm[d].present /\ dm[d].status = "DONE"
           /\ dm' = [dm EXCEPT ![d].target = Gone, ![d].status = "RUNNING", ![d].error = FALSE]
           /\ gcpCmd' = [gcpCmd EXCEPT !.pc = "deleted"] /\ UNCHANGED <<gcpLast, gcpUsed>>
        \/ /\ d \in DeletingDeployments /\ dm[d].present /\ dm[d].status = "RUNNING"
           /\ End("failed") /\ UNCHANGED dm
  /\ UNCHANGED <<inDir, policy, keys, identities, endpoint, gke>>

WaitDeleted ==
  /\ At("deleted") /\ dm[DeletingAt].status = "DONE"
  /\ IF dm[DeletingAt].error THEN End("failed") ELSE Again("delete")
  /\ UNCHANGED <<inDir, project, gke>>

AllDeleted ==
  /\ At("delete") /\ gcpCmd.at > Len(DeleteOrder)
  /\ Goto("deleteGet") /\ UNCHANGED <<inDir, project, gke>>

\* Unlike Apply, Delete does not try again when the policy has changed.
RemoveBindings ==
  /\ At("deleteSet")
  /\ \/ SetIamPolicy(ClearIamPolicy(gcpCmd.pol.grants)) /\ Goto("endpoint")
     \/ gcpCmd.pol.etag # policy.etag /\ End("failed") /\ UNCHANGED policy
  /\ UNCHANGED <<inDir, dm, keys, identities, endpoint, gke>>

\* deleteEndpoints: a refused deletion is fine if the service is not listed.
DeleteEndpoints ==
  /\ At("endpoint")
  /\ endpoint' = FALSE
  /\ End("ok") /\ UNCHANGED <<inDir, dm, policy, keys, identities, gke>>

-----------------------------------------------------------------------------
(* The rest of the world *)

\* A call fails, a backoff gives up or the user interrupts the command.
GcpStop ==
  /\ ~At("idle") /\ GcpSpend("stops")
  /\ gcpCmd' = NoGcpCmd
  /\ gcpLast' = [kind |-> gcpCmd.kind, outcome |-> "failed"]
  /\ UNCHANGED <<inDir, project, gke>>

\* There is no cluster to talk to.
NoClusterFound ==
  /\ gcpCmd.pc \in {"k8s", "secret", "insert", "login", "identity", "manifests", "added", "remove"}
  /\ ~ClusterUp /\ End("failed")
  /\ UNCHANGED <<inDir, project, gke>>

\* An operation of the Deployment Manager ends.  The deployment main holds the
\* cluster and the service accounts.
DmDone(d) ==
  /\ dm[d].status = "RUNNING"
  /\ LET gone == dm[d].target = Gone
     IN /\ dm' = [dm EXCEPT ![d] = IF gone THEN NoDeployment
                                   ELSE [dm[d] EXCEPT !.rev = dm[d].target, !.status = "DONE"]]
        /\ IF gone /\ d = "main"
           THEN gke' = NoCluster /\ keys' = [s \in ServiceAccounts |-> 0] /\ identities' = {}
           ELSE UNCHANGED <<gke, keys, identities>>
  /\ UNCHANGED <<inDir, policy, endpoint, gcpCmd, gcpLast, gcpUsed>>

DmFailed(d) ==
  /\ dm[d].status = "RUNNING" /\ GcpSpend("failures")
  /\ dm' = [dm EXCEPT ![d].status = "DONE", ![d].error = TRUE]
  /\ UNCHANGED <<inDir, policy, keys, identities, endpoint, gke, gcpCmd, gcpLast>>

\* Somebody else in the project changes who holds a role.
ChangeGrant(r, m) ==
  /\ m \in Strangers /\ GcpSpend("grants")
  /\ policy' = [etag |-> policy.etag + 1,
                grants |-> IF <<r, m>> \in policy.grants THEN policy.grants \ {<<r, m>>}
                           ELSE policy.grants \cup {<<r, m>>}]
  /\ UNCHANGED <<inDir, dm, keys, identities, endpoint, gke, gcpCmd, gcpLast>>

\* Between two commands the user edits a file of gcp_config, or adds one.
EditFile(f) ==
  /\ At("idle") /\ gcpDir.made /\ GcpSpend("edits")
  /\ \/ /\ f \in gcpDir.files \cap (Deployments \cup {"iam"})
        /\ f = "iam" => fileRev[f] < Len(IamTemplates)
        /\ fileRev' = [fileRev EXCEPT ![f] = @ + 1] /\ UNCHANGED gcpDir
     \/ /\ f \in {"network", "gcfs"} \ gcpDir.files
        /\ gcpDir' = [gcpDir EXCEPT !.files = @ \cup {f}] /\ UNCHANGED fileRev
  /\ gcpLast' = [kind |-> "edit", outcome |-> "none"]
  /\ UNCHANGED <<project, gke, gcpCmd>>

\* The manifests' cloud-endpoints controller registers the service.
EndpointUp ==
  /\ gke.manifests /\ ~endpoint /\ endpoint' = TRUE
  /\ UNCHANGED <<inDir, dm, policy, keys, identities, gke, gcpCmd, gcpLast, gcpUsed>>

GcpCommand ==
  \/ \E kind \in {"build", "apply", "delete"} : GcpStart(kind)
  \/ GcpInitProject \/ SkipGenerate \/ MakeConfigDir \/ GenerateDMConfigs \/ PersistParameters
  \/ UpdateDeployment \/ AllUpdated \/ BlockingWait
  \/ GetIamPolicy("clearGet", "clearSet") \/ GetIamPolicy("rewriteGet", "rewriteSet")
  \/ GetIamPolicy("deleteGet", "deleteSet")
  \/ ClearBindings \/ RewriteBindings \/ RetryBindings
  \/ ConfigK8s \/ SecretExists \/ CreateKey \/ InsertSecret \/ CreateLogin
  \/ AllowAdminEditUserSA \/ BindIdentities \/ BindIdentityOnly \/ ApplyManifests \/ AddedConfig
  \/ RemoveManifests \/ DeleteDeployment \/ WaitDeleted \/ AllDeleted \/ RemoveBindings
  \/ DeleteEndpoints \/ NoClusterFound \/ GcpStop

GcpWorld ==
  \/ \E d \in Deployments : DmDone(d) \/ DmFailed(d)
  \/ \E r \in Roles, m \in Strangers : ChangeGrant(r, m)
  \/ \E f \in Files : EditFile(f)
  \/ EndpointUp

GcpNext == GcpCommand \/ GcpWorld
GcpSpec == GcpInit /\ [][GcpNext]_gcpVars

-----------------------------------------------------------------------------
(* Properties *)

Applied == gcpLast = [kind |-> "apply", outcome |-> "ok"]

\* What others hold in the project changes only by their own doing, whatever
\* kfctl does to the policy meanwhile: nothing of theirs is lost and nothing
\* they have taken back returns, unless iam_bindings.yaml itself gives it to
\* them (updateDM and Delete, gcp.go).
GrantsOfOthersKept ==
  [][\A g \in Roles \X Strangers :
       /\ g \in policy.grants /\ g \notin policy'.grants => UNCHANGED gcpCmd
       /\ g \notin policy.grants /\ g \in policy'.grants =>
            UNCHANGED gcpCmd \/ g \in FileGrants(IamBindings)]_gcpVars

\* After an apply that succeeded the service accounts of the deployment hold
\* the roles of the iam_bindings.yaml it has read and no others, also those of
\* an earlier edition (updateDM, gcp.go:760).
GrantsInForce ==
  Applied /\ "iam" \in gcpDir.files =>
    {g \in policy.grants : g[2] \in ServiceAccounts}
      = {g \in FileGrants(IamBindings) : g[2] \in ServiceAccounts}

\* Once an apply has waited, every deployment of gcp_config is at rest and free
\* of errors, and it is there and made from the current file, unless the apply
\* found an operation of an earlier command under way, which may even delete it
\* (updateDeployment and blockingWait, gcp.go).
DeploymentsCurrent ==
  gcpCmd.pc \notin {"idle", "dm", "wait"} /\ gcpCmd.kind = "apply" /\ gcpCmd.waits # {} =>
    \A d \in gcpDir.files \cap Deployments :
      /\ dm[d].status = "DONE" /\ ~dm[d].error
      /\ d \notin gcpCmd.stale => dm[d].present /\ dm[d].rev = fileRev[d]

\* Applying again creates no key for a service account whose secret is there:
\* a key without a secret is left only by a command that stopped in between
\* (createGcpServiceAcctSecret, gcp.go:1501).
KeysBounded == \A s \in ServiceAccounts : keys[s] <= 1 + gcpUsed["stops"]

\* After a deletion that succeeded nothing of the deployment is left: not the
\* deployments it has to delete, nor a role of its service accounts (Delete,
\* gcp.go:1059).
NothingLeft ==
  gcpLast = [kind |-> "delete", outcome |-> "ok"] =>
    /\ ~dm["main"].present
    /\ DeleteStorage => ~dm["storage"].present
    /\ \A d \in {"network", "gcfs"} \cap gcpDir.files : ~dm[d].present
    /\ \A g \in policy.grants : g[2] \notin ServiceAccounts
=============================================================================
