------------------------------ MODULE KfAppDir -------------------------------
(***************************************************************************)
(* The directory of a deployment: the configuration file, the cache of the *)
(* manifests repository and the directory kustomize with the applications' *)
(* manifests, as the coordinator                                           *)
(* (pkg/kfapp/coordinator/coordinator.go), KfConfig.SyncCache              *)
(* (pkg/kfconfig/types.go), the loaders and the package manager            *)
(* (pkg/kfapp/kustomize/kustomize.go) write and read it, one file after    *)
(* the other.                                                              *)
(*                                                                         *)
(* The operator's workers use it as kfApply and kfDelete do                *)
(* (pkg/controller/kfdef/kfdef_controller.go), kfctl as its commands do    *)
(* (cmd/kfctl/cmd).  A file that is there is taken for finished nearly     *)
(* everywhere, and any command may end before it is.                       *)
(***************************************************************************)
EXTENDS Naturals, Sequences, FiniteSets

CONSTANTS
  Workers,      \* Reconciles that may run at a time; kfctl is one
  SpecApps,     \* the applications of each revision of the KfDef, in order
  DirLimit      \* bounds: how often each event may happen

Revs == DOMAIN SpecApps
Apps == UNION {{SpecApps[r][i] : i \in DOMAIN SpecApps[r]} : r \in Revs}
Contexts == {"c1", "c2"}
DirEventKinds == {"commands", "faults", "crashes", "edits", "removals", "switches"}

ASSUME DirAssumption ==
  /\ SpecApps \in Seq(Seq(STRING)) /\ Len(SpecApps) > 0
  /\ \A r \in Revs : \A i, j \in DOMAIN SpecApps[r] : SpecApps[r][i] = SpecApps[r][j] => i = j
  /\ DirLimit \in [DirEventKinds -> Nat]

VARIABLES
  mode,      \* who uses the directory: "operator" or "kfctl"
  spec,      \* the revision of the KfDef in the API server or at the URI
  config,    \* the configuration file
  cache,     \* .cache/manifests
  kust,      \* kustomize: whether it exists, and each application in it
  current,   \* the cluster of the current context
  applied,   \* what each cluster runs of each application
  platformUp,\* the platform's deployment
  finished,  \* the clusters an apply of kfctl has finished on
  cmd, used

dir  == <<config, cache, kust>>
dirVars == <<mode, spec, dir, current, applied, platformUp, finished, cmd, used>>

NoConfig == [state |-> "none", rev |-> 0, caches |-> <<>>, cluster |-> "none", force |-> FALSE]
NoCache  == [state |-> "none", rev |-> 0]
NoApp    == [state |-> "none", rev |-> 0]
NoKust   == [made |-> FALSE, apps |-> [a \in Apps |-> NoApp]]
NoCmd    == [kind |-> "none", pc |-> "idle", given |-> 0, conf |-> NoConfig, at |-> 1]

PCs == {"idle", "remove", "write", "annotate", "create", "load", "init", "sync", "fetch", "platform",
        "generate", "copy", "build", "resync", "refetch", "apply", "save", "check", "delete",
        "platform gone"}

DirTypeOK ==
  /\ mode \in {"operator", "kfctl"} /\ spec \in Revs
  /\ config.state \in {"none", "torn", "ok"} /\ config.cluster \in Contexts \cup {"none"}
  /\ config.state = "ok" => config.rev \in Revs
  /\ config.caches \in Seq(Revs)
  /\ cache.state \in {"none", "partial", "full"}
  /\ \A a \in Apps : /\ kust.apps[a].state \in {"none", "copied", "built"}
                   /\ kust.apps[a].state # "none" => kust.apps[a].rev \in Revs
  /\ ~kust.made => kust = NoKust
  /\ current \in Contexts /\ platformUp \in BOOLEAN /\ finished \subseteq Contexts
  /\ \A w \in Workers : cmd[w].pc \in PCs /\ cmd[w].at \in Nat
  /\ used \in [DirEventKinds -> Nat]

DirInit ==
  /\ mode \in {"operator", "kfctl"}
  /\ spec = 1
  /\ config = NoConfig /\ cache = NoCache /\ kust = NoKust
  /\ current = "c1"
  /\ applied = [c \in Contexts |-> [a \in Apps |-> NoApp]]
  /\ platformUp = FALSE
  /\ finished = {}
  /\ cmd = [w \in Workers |-> NoCmd]
  /\ used = [e \in DirEventKinds |-> 0]

-----------------------------------------------------------------------------
(* Helpers *)

Spend(e) == used[e] < DirLimit[e] /\ used' = [used EXCEPT ![e] = @ + 1]
AtPC(w, pc) == cmd[w].pc = pc
Step(w, pc) == cmd' = [cmd EXCEPT ![w].pc = pc, ![w].at = 1] /\ UNCHANGED used
NextApp(w, pc) == cmd' = [cmd EXCEPT ![w].pc = pc, ![w].at = @ + 1] /\ UNCHANGED used
Done(w) == cmd' = [cmd EXCEPT ![w] = NoCmd] /\ UNCHANGED used

AppsOf(w) == SpecApps[cmd[w].conf.rev]
World == <<applied, platformUp, finished>>

\* The application a command is at; a deletion goes through them backwards.
AppAt(w) == AppsOf(w)[cmd[w].at]
LastFirst(w) == AppsOf(w)[Len(AppsOf(w)) + 1 - cmd[w].at]

-----------------------------------------------------------------------------
(* How a command begins *)

\* Mutant: the directory is left as it is.
StartInPlace(w, kind) ==
  /\ mode = "operator" /\ AtPC(w, "idle") /\ Spend("commands")
  /\ cmd' = [cmd EXCEPT ![w] = [NoCmd EXCEPT !.kind = kind, !.given = spec, !.pc = "write"]]
  /\ UNCHANGED <<mode, spec, dir, current, World>>

\* Reconcile reads the KfDef.  An apply removes the directory first.
OperatorStart(w, kind) ==
  /\ mode = "operator" /\ AtPC(w, "idle") /\ Spend("commands")
  /\ cmd' = [cmd EXCEPT ![w] = [NoCmd EXCEPT !.kind = kind, !.given = spec,
                                             !.pc = IF kind = "apply" THEN "remove" ELSE "write"]]
  /\ UNCHANGED <<mode, spec, dir, current, World>>

RemoveDir(w) ==
  /\ AtPC(w, "remove") /\ Step(w, "write")
  /\ config' = NoConfig /\ cache' = NoCache /\ kust' = NoKust
  /\ UNCHANGED <<mode, spec, current, World>>

\* kfLoadConfig: the KfDef knows nothing of the cache.
WriteKfDef(w) ==
  /\ AtPC(w, "write") /\ Step(w, "annotate")
  /\ config' = [NoConfig EXCEPT !.state = "ok", !.rev = cmd[w].given]
  /\ UNCHANGED <<mode, spec, cache, kust, current, World>>

\* setAnnotations, whose errors nobody looks at.
Annotate(w) ==
  /\ AtPC(w, "annotate") /\ Step(w, "load")
  /\ config' = IF config.state = "ok"
               THEN [config EXCEPT !.force = mode = "operator" /\ cmd[w].kind = "delete"]
               ELSE config
  /\ UNCHANGED <<mode, spec, cache, kust, current, World>>

\* kfctl build, apply or delete, of the file in the directory or of a URI.
KfctlStart(w, kind, remote) ==
  /\ mode = "kfctl" /\ AtPC(w, "idle") /\ Spend("commands")
  /\ kind = "delete" => ~remote
  /\ cmd' = [cmd EXCEPT ![w] = [NoCmd EXCEPT !.kind = kind,
                 !.given = IF remote THEN spec ELSE config.rev,
                 !.pc = IF remote THEN "create" ELSE IF kind = "delete" THEN "annotate" ELSE "load"]]
  /\ UNCHANGED <<mode, spec, dir, current, World>>

\* isDirEmpty takes a directory with one entry for an empty one.
DirEntries == Cardinality({x \in {"config", "cache", "kust"} :
                             \/ x = "config" /\ config.state # "none"
                             \/ x = "cache" /\ cache.state # "none"
                             \/ x = "kust" /\ kust.made})

\* CreateKfAppCfgFile writes over a file that is there.
CreateConfig(w) ==
  /\ AtPC(w, "create")
  /\ \/ DirEntries > 1 /\ Done(w) /\ UNCHANGED config
     \/ /\ DirEntries <= 1 /\ Step(w, "load")
        /\ config' = [NoConfig EXCEPT !.state = "ok", !.rev = cmd[w].given]
  /\ UNCHANGED <<mode, spec, cache, kust, current, World>>

\* LoadConfigFromURI.
Load(w) ==
  /\ AtPC(w, "load")
  /\ \/ config.state # "ok" /\ Done(w)
     \/ /\ config.state = "ok"
        /\ cmd' = [cmd EXCEPT ![w].pc = "init", ![w].conf = config] /\ UNCHANGED used
  /\ UNCHANGED <<mode, spec, dir, current, World>>

-----------------------------------------------------------------------------
(* SyncCache, twice in each command *)

AfterSync(w) == IF AtPC(w, "sync") \/ AtPC(w, "fetch") THEN "platform"
                ELSE IF cmd[w].kind = "delete" THEN "check" ELSE "apply"

\* Mutant: a cache that is there is taken and listed.
TakeCache(w) ==
  \/ /\ cache.state # "none"
     /\ cmd' = [cmd EXCEPT ![w].pc = AfterSync(w), ![w].conf.caches = <<cache.rev>>]
     /\ UNCHANGED <<cache, used>>
  \/ /\ cache.state = "none" /\ cache' = [state |-> "partial", rev |-> 0]
     /\ Step(w, IF AtPC(w, "sync") THEN "fetch" ELSE "refetch")

\* A cache that is there and listed is kept, whatever it holds; one that is not
\* listed is removed.
KeepOrFetch(w) ==
  \/ cache.state # "none" /\ cmd[w].conf.caches # <<>> /\ Step(w, AfterSync(w)) /\ UNCHANGED cache
  \/ /\ cache.state = "none" \/ cmd[w].conf.caches = <<>>
     /\ cache' = [state |-> "partial", rev |-> 0]
     /\ Step(w, IF AtPC(w, "sync") THEN "fetch" ELSE "refetch")

SyncCache(w) ==
  /\ AtPC(w, "sync") \/ AtPC(w, "resync")
  /\ KeepOrFetch(w)
  /\ UNCHANGED <<mode, spec, config, kust, current, World>>

\* A tarball unpacks into a directory named after its revision, which is listed
\* behind those that are listed already.
Fetched(w) ==
  /\ AtPC(w, "fetch") \/ AtPC(w, "refetch")
  /\ cache' = [state |-> "full", rev |-> cmd[w].conf.rev]
  /\ cmd' = [cmd EXCEPT ![w].pc = AfterSync(w),
                        ![w].conf.caches = Append(@, cmd[w].conf.rev)]
  /\ UNCHANGED <<mode, spec, config, kust, current, World, used>>

-----------------------------------------------------------------------------
(* Generate *)

\* A platform has the configuration written after its Init and its Generate; the
\* operator's deployments have none.
WithPlatform(w, pc, next) ==
  /\ AtPC(w, pc) /\ Step(w, next)
  /\ config' = IF mode = "kfctl" THEN cmd[w].conf ELSE config
  /\ UNCHANGED <<mode, spec, cache, kust, current, World>>

InitPlatform(w)     == WithPlatform(w, "init", "sync")
GeneratePlatform(w) == WithPlatform(w, "platform", "generate")

AfterGenerate(w) == IF cmd[w].kind = "build" THEN Done(w) ELSE Step(w, "resync")

\* Nothing is generated into a directory that exists.
SkipKustomize(w) ==
  /\ AtPC(w, "generate") /\ kust.made /\ AfterGenerate(w)
  /\ UNCHANGED <<mode, spec, dir, current, World>>

MakeKustomizeDir(w) ==
  /\ AtPC(w, "generate") /\ ~kust.made
  /\ kust' = [kust EXCEPT !.made = TRUE]
  /\ Step(w, "copy")
  /\ UNCHANGED <<mode, spec, config, cache, current, World>>

\* GetRepoCache: the first path that is listed; not all of it need be there.
CopyApp(w) ==
  /\ AtPC(w, "copy") /\ cmd[w].at \in DOMAIN AppsOf(w)
  /\ cache.state # "none" /\ (cache.state = "full" => Head(cmd[w].conf.caches) = cache.rev)
  /\ kust' = [made |-> TRUE, apps |-> [kust.apps EXCEPT ![AppAt(w)] =
                [state |-> "copied", rev |-> Head(cmd[w].conf.caches)]]]
  /\ cmd' = [cmd EXCEPT ![w].pc = "build"]
  /\ UNCHANGED <<mode, spec, config, cache, current, World, used>>

CopyFails(w) ==
  /\ AtPC(w, "copy") /\ cmd[w].at \in DOMAIN AppsOf(w)
  /\ cache.state # "full" \/ Head(cmd[w].conf.caches) # cache.rev
  /\ Done(w)
  /\ UNCHANGED <<mode, spec, dir, current, World>>

\* GenerateKustomizationFile, with the parameters of the KfDef.
BuildApp(w) ==
  /\ AtPC(w, "build")
  /\ \/ /\ kust.apps[AppAt(w)].state # "none"
        /\ kust' = [kust EXCEPT !.apps[AppAt(w)] = [state |-> "built", rev |-> cmd[w].conf.rev]]
        /\ NextApp(w, "copy")
     \/ kust.apps[AppAt(w)].state = "none" /\ Done(w) /\ UNCHANGED kust
  /\ UNCHANGED <<mode, spec, config, cache, current, World>>

AllBuilt(w) ==
  /\ AtPC(w, "copy") /\ cmd[w].at > Len(AppsOf(w)) /\ AfterGenerate(w)
  /\ UNCHANGED <<mode, spec, dir, current, World>>

-----------------------------------------------------------------------------
(* Apply and Delete *)

\* render and apply one application; a platform is applied before the first.
ApplyApp(w) ==
  /\ AtPC(w, "apply") /\ cmd[w].at \in DOMAIN AppsOf(w)
  /\ platformUp' = (platformUp \/ mode = "kfctl")
  /\ \/ /\ kust.apps[AppAt(w)].state # "none"
        /\ applied' = [applied EXCEPT ![current][AppAt(w)] = kust.apps[AppAt(w)]]
        /\ NextApp(w, "apply")
     \/ kust.apps[AppAt(w)].state = "none" /\ Done(w) /\ UNCHANGED applied
  /\ UNCHANGED <<mode, spec, dir, current, finished>>

\* Apply notes the cluster of the current context, for the file that is written
\* at the end.  The operator's pod has no kubeconfig.
AllApplied(w) ==
  /\ AtPC(w, "apply") /\ cmd[w].at > Len(AppsOf(w))
  /\ cmd' = [cmd EXCEPT ![w].pc = "save",
                        ![w].conf.cluster = IF mode = "kfctl" THEN current ELSE @]
  /\ UNCHANGED <<mode, spec, dir, current, World, used>>

SaveConfig(w) ==
  /\ AtPC(w, "save") /\ Done(w)
  /\ config' = cmd[w].conf
  /\ finished' = IF mode = "kfctl" THEN finished \cup {current} ELSE finished
  /\ UNCHANGED <<mode, spec, cache, kust, current, applied, platformUp>>

\* Mutant: the cluster is not compared.
CheckNothing(w) ==
  /\ AtPC(w, "check") /\ Step(w, "delete")
  /\ UNCHANGED <<mode, spec, dir, current, World>>

\* The current context must be of the cluster that was noted, unless forced.
CheckCluster(w) ==
  /\ AtPC(w, "check")
  /\ IF cmd[w].conf.force \/ (mode = "kfctl" /\ cmd[w].conf.cluster = current)
     THEN Step(w, "delete") ELSE Done(w)
  /\ UNCHANGED <<mode, spec, dir, current, World>>

\* Mutant: the platform goes although an application could not be deleted, as
\* when only the platform is to be deleted.
DeleteBestEffort(w) ==
  /\ AtPC(w, "delete") /\ cmd[w].at \in DOMAIN AppsOf(w)
  /\ \/ /\ kust.apps[LastFirst(w)].state # "none"
        /\ applied' = [applied EXCEPT ![current][LastFirst(w)] = NoApp]
        /\ NextApp(w, "delete")
     \/ /\ kust.apps[LastFirst(w)].state = "none" /\ UNCHANGED applied
        /\ Step(w, "platform gone")
  /\ UNCHANGED <<mode, spec, dir, current, platformUp, finished>>

\* The first application that cannot be rendered ends the deletion.
DeleteApp(w) ==
  /\ AtPC(w, "delete") /\ cmd[w].at \in DOMAIN AppsOf(w)
  /\ \/ /\ kust.apps[LastFirst(w)].state # "none"
        /\ applied' = [applied EXCEPT ![current][LastFirst(w)] = NoApp]
        /\ NextApp(w, "delete")
     \/ kust.apps[LastFirst(w)].state = "none" /\ Done(w) /\ UNCHANGED applied
  /\ UNCHANGED <<mode, spec, dir, current, platformUp, finished>>

AppsDeleted(w) ==
  /\ AtPC(w, "delete") /\ cmd[w].at > Len(AppsOf(w))
  /\ IF mode = "kfctl" THEN cmd' = [cmd EXCEPT ![w].pc = "platform gone"] /\ UNCHANGED used
     ELSE Done(w)
  /\ UNCHANGED <<mode, spec, dir, current, World>>

DeletePlatform(w) ==
  /\ AtPC(w, "platform gone") /\ Done(w)
  /\ platformUp' = FALSE
  /\ UNCHANGED <<mode, spec, dir, current, applied, finished>>

-----------------------------------------------------------------------------
(* Errors, crashes and the user *)

\* A step fails, or kfctl is interrupted, also while it writes the file.
Fault(w) ==
  /\ ~AtPC(w, "idle") /\ Spend("faults")
  /\ cmd' = [cmd EXCEPT ![w] = NoCmd]
  /\ config' \in {config} \cup (IF mode = "kfctl" /\ cmd[w].pc \in {"annotate", "create", "init", "platform", "save"}
                                THEN {[NoConfig EXCEPT !.state = "torn"]} ELSE {})
  /\ UNCHANGED <<mode, spec, cache, kust, current, World>>

\* The operator's directory is in the file system of its container.
DirCrash ==
  /\ mode = "operator" /\ Spend("crashes")
  /\ config' = NoConfig /\ cache' = NoCache /\ kust' = NoKust
  /\ cmd' = [w \in Workers |-> NoCmd]
  /\ UNCHANGED <<mode, spec, current, World>>

\* The user changes the KfDef, or the file, whatever is running.
Edit(r) ==
  /\ Spend("edits")
  /\ \/ spec' = r /\ spec # r /\ UNCHANGED config
     \/ /\ mode = "kfctl" /\ config.state = "ok" /\ config.rev # r
        /\ config' = [config EXCEPT !.rev = r] /\ UNCHANGED spec
  /\ UNCHANGED <<mode, cache, kust, current, World, cmd>>

\* The user removes the cache or the generated manifests to have them made anew.
RemoveByHand ==
  /\ mode = "kfctl" /\ (\A w \in Workers : AtPC(w, "idle")) /\ Spend("removals")
  /\ \/ cache.state # "none" /\ cache' = NoCache /\ UNCHANGED kust
     \/ kust.made /\ kust' = NoKust /\ UNCHANGED cache
  /\ UNCHANGED <<mode, spec, config, current, World, cmd>>

SwitchContext ==
  /\ mode = "kfctl" /\ (\A w \in Workers : AtPC(w, "idle")) /\ Spend("switches")
  /\ current' \in Contexts \ {current}
  /\ UNCHANGED <<mode, spec, dir, World, cmd>>

DirStep(w) ==
  \/ \E kind \in {"apply", "delete"} : OperatorStart(w, kind)
  \/ \E kind \in {"build", "apply", "delete"}, remote \in BOOLEAN : KfctlStart(w, kind, remote)
  \/ RemoveDir(w) \/ WriteKfDef(w) \/ Annotate(w) \/ CreateConfig(w) \/ Load(w)
  \/ InitPlatform(w) \/ SyncCache(w) \/ Fetched(w)
  \/ GeneratePlatform(w) \/ SkipKustomize(w) \/ MakeKustomizeDir(w) \/ CopyApp(w) \/ CopyFails(w)
  \/ BuildApp(w) \/ AllBuilt(w)
  \/ ApplyApp(w) \/ AllApplied(w) \/ SaveConfig(w)
  \/ CheckCluster(w) \/ DeleteApp(w) \/ AppsDeleted(w) \/ DeletePlatform(w)
  \/ Fault(w)

DirNext ==
  \/ \E w \in Workers : DirStep(w)
  \/ DirCrash
  \/ \E r \in Revs : Edit(r)
  \/ RemoveByHand \/ SwitchContext

DirSpec == DirInit /\ [][DirNext]_dirVars

-----------------------------------------------------------------------------
(* Properties *)

\* What an apply of the operator sends to the cluster is made from the revision
\* of the KfDef its Reconcile has read, parameters and all, whatever an earlier
\* Reconcile that failed or a crash has left in the directory, and whatever
\* becomes of the KfDef meanwhile (Reconcile and kfLoadConfig,
\* kfdef_controller.go; kustomize.Generate).
AppliesOwnRevision ==
  [][\A a \in Apps :
       mode = "operator" /\ applied'["c1"][a] \notin {NoApp, applied["c1"][a]} =>
         \E w \in Workers : cmd[w].kind = "apply" /\
           applied'["c1"][a] = [state |-> "built", rev |-> cmd[w].given]]_dirVars

\* Without force no application disappears from a cluster on which no apply of
\* this directory has come to its end: neither after the context has been
\* switched, nor after an apply that stopped half-way (Delete, kustomize.go:390).
NoForeignDelete ==
  [][\A c \in Contexts, a \in Apps :
       mode = "kfctl" /\ applied[c][a] # NoApp /\ applied'[c][a] = NoApp => c \in finished]_dirVars

\* Once the configuration lists the cache it is complete, until the user removes
\* it: a fetch that failed is not taken for the manifests (SyncCache, types.go).
CacheComplete ==
  config.state = "ok" /\ config.caches # <<>> /\ used["removals"] = 0 => cache.state = "full"

\* The platform is deleted only after every application of the configuration is
\* ("any problems with deleting k8s will abort and not delete the platform",
\* coordinator.go:509).
PlatformLast ==
  [][platformUp /\ ~platformUp' =>
       \E w \in Workers :
         \A i \in DOMAIN AppsOf(w) : applied[current][AppsOf(w)[i]] = NoApp]_dirVars
=============================================================================
