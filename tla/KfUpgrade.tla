------------------------------ MODULE KfUpgrade ------------------------------
(***************************************************************************)
(* kfctl build and apply of a KfUpgrade (pkg/kfupgrade/kfupgrade.go): a    *)
(* configuration for the new version is found below the current directory  *)
(* or made of a base configuration and the values of the old one, its      *)
(* manifests are generated, the labelled workloads of the old version are  *)
(* deleted and the new ones applied.  A configuration is its version, its  *)
(* namespace and its parameters; a directory is known by the hash of the   *)
(* configuration it was made for, here the configuration's parameters.     *)
(***************************************************************************)
EXTENDS Naturals, Sequences, FiniteSets

CONSTANTS
  OldParams,     \* the parameters in the old configuration
  BaseParams,    \* those in the base configuration
  ParamValues,   \* what they may be
  NewVersion,    \* spec.newKfDef.version
  UpgradeLimit   \* bounds of the model: how often each event happens

UpgradeEventKinds == {"commands", "stops", "edits"}

ASSUME UpgradeAssumption ==
  /\ NewVersion # "old"
  /\ UpgradeLimit \in [UpgradeEventKinds -> Nat]

VARIABLES
  sameName,   \* does spec.newKfDef give the old configuration's name
  oldCfg,     \* the old configuration's file
  baseCfg,    \* the base configuration
  newDirs,    \* hash -> the new configuration's file, and the manifests made of it
  workloads,  \* in the cluster: namespace, name, label, version and values
  upgrade,    \* the command that runs: how far, and its target directory
  edited,     \* hashes whose file, base or old configuration was edited since
  upgradeUsed

upgradeVars == <<sameName, oldCfg, baseCfg, newDirs, workloads, upgrade, edited, upgradeUsed>>

UpgradeOnce(k) == upgradeUsed[k] < UpgradeLimit[k] /\ upgradeUsed' = [upgradeUsed EXCEPT ![k] = @ + 1]

NotBuilt == {}
Idle     == [cmd |-> "none", at |-> "idle", target |-> <<>>]
Foreign  == {[ns |-> n, app |-> "foreign", kubeflow |-> FALSE, version |-> "none", params |-> <<>>] :
               n \in {"kubeflow", "istio-system"}}
Workload(n, a, cfg) ==
  [ns |-> n, app |-> a, kubeflow |-> TRUE, version |-> cfg.version, params |-> cfg.params]

\* The old version runs what the new one has no more, in both namespaces.
OldWorkloads(cfg) ==
  {Workload("kubeflow", "hub", cfg), Workload("kubeflow", "retired", cfg),
   Workload("istio-system", "pilot", cfg), Workload("istio-system", "policy", cfg)}
NewWorkloads(cfg) ==
  {Workload(cfg.ns, "hub", cfg), Workload("istio-system", "pilot", cfg)}

UpgradeInit ==
  /\ sameName \in BOOLEAN
  /\ oldCfg \in [version : {"old"}, ns : {"kubeflow"}, params : [OldParams -> ParamValues]]
  /\ baseCfg \in [version : {NewVersion, "stale"}, ns : {"kubeflow", "moved"},
                  params : [BaseParams -> {CHOOSE v \in ParamValues : TRUE}]]
  /\ newDirs = <<>>
  /\ workloads = OldWorkloads(oldCfg) \cup Foreign
  /\ upgrade = Idle
  /\ edited = {}
  /\ upgradeUsed = [k \in UpgradeEventKinds |-> 0]

-----------------------------------------------------------------------------

\* MergeKfCfg: the parameters both have get the old one's values.
MergeKfCfg ==
  [baseCfg EXCEPT !.params = [p \in DOMAIN @ |-> IF p \in DOMAIN oldCfg.params THEN oldCfg.params[p] ELSE @[p]]]

\* findKfCfg: a file with the name and the version that spec.newKfDef gives; the
\* merged configuration has the old one's name.
Found == {h \in DOMAIN newDirs : sameName /\ newDirs[h].file.version = NewVersion}

\* createNewKfApp: writes the merged configuration, also over one that is there.
CreateNewKfApp ==
  LET h == MergeKfCfg
  IN /\ newDirs' = [d \in DOMAIN newDirs \cup {h} |->
                      IF d = h THEN [file  |-> [h EXCEPT !.version = NewVersion],
                                     built |-> IF h \in DOMAIN newDirs THEN newDirs[h].built ELSE NotBuilt]
                      ELSE newDirs[d]]
     /\ edited' = IF h \in DOMAIN newDirs THEN edited ELSE edited \ {h}
     /\ upgrade' = [upgrade EXCEPT !.target = h, !.at = "generate"]

\* kfctl build or apply: NewKfUpgrade.
BeginUpgrade(cmd) ==
  /\ upgrade.at = "idle" /\ UpgradeOnce("commands")
  /\ upgrade' = [Idle EXCEPT !.cmd = cmd, !.at = "find"]
  /\ UNCHANGED <<sameName, oldCfg, baseCfg, newDirs, workloads, edited>>
NewKfUpgrade ==
  /\ upgrade.at = "find"
  /\ IF Found # {}
     THEN /\ \E h \in Found : upgrade' = [upgrade EXCEPT !.target = h, !.at = "generate"]
          /\ UNCHANGED <<newDirs, edited>>
     ELSE CreateNewKfApp
  /\ UNCHANGED <<sameName, oldCfg, baseCfg, workloads, upgradeUsed>>

\* Generate: manifests that are there are kept.
UpgradeGenerate ==
  /\ upgrade.at = "generate"
  /\ newDirs' = [newDirs EXCEPT ![upgrade.target].built = IF @ = NotBuilt THEN {newDirs[upgrade.target].file} ELSE @]
  /\ upgrade' = IF upgrade.cmd = "build" THEN Idle ELSE [upgrade EXCEPT !.at = "delete old"]
  /\ UNCHANGED <<sameName, oldCfg, baseCfg, workloads, edited, upgradeUsed>>

\* Mutant: only what the new version has, too, is deleted.
DeleteByName(ns) == {w \in workloads : ~(w.ns = ns /\ w.app \in {"hub", "pilot"})}

\* DeleteObsoleteResources: what is part of Kubeflow in a namespace.
DeleteObsoleteResources(ns) == {w \in workloads : ~(w.ns = ns /\ w.kubeflow)}

DeleteOld ==
  /\ upgrade.at = "delete old"
  /\ workloads' = DeleteObsoleteResources(oldCfg.ns)
  /\ upgrade' = [upgrade EXCEPT !.at = "delete istio"]
  /\ UNCHANGED <<sameName, oldCfg, baseCfg, newDirs, edited, upgradeUsed>>
DeleteIstio ==
  /\ upgrade.at = "delete istio"
  /\ workloads' = DeleteObsoleteResources("istio-system")
  /\ upgrade' = [upgrade EXCEPT !.at = "apply"]
  /\ UNCHANGED <<sameName, oldCfg, baseCfg, newDirs, edited, upgradeUsed>>

\* Apply: creates what is missing and replaces what is there, application by
\* application.
ApplyNew(w) ==
  /\ upgrade.at = "apply"
  /\ w \in UNION {NewWorkloads(cfg) : cfg \in newDirs[upgrade.target].built} \ workloads
  /\ workloads' = {v \in workloads : <<v.ns, v.app>> # <<w.ns, w.app>>} \cup {w}
  /\ UNCHANGED <<sameName, oldCfg, baseCfg, newDirs, upgrade, edited, upgradeUsed>>
Upgraded ==
  /\ upgrade.at = "apply"
  /\ UNION {NewWorkloads(cfg) : cfg \in newDirs[upgrade.target].built} \subseteq workloads
  /\ upgrade' = [upgrade EXCEPT !.at = "done"]
  /\ UNCHANGED <<sameName, oldCfg, baseCfg, newDirs, workloads, edited, upgradeUsed>>
EndUpgrade ==
  /\ upgrade.at = "done"
  /\ upgrade' = Idle
  /\ UNCHANGED <<sameName, oldCfg, baseCfg, newDirs, workloads, edited, upgradeUsed>>

\* A step fails or the process is interrupted: kfctl ends.
StopUpgrade ==
  /\ upgrade.at \notin {"idle", "done"} /\ UpgradeOnce("stops")
  /\ upgrade' = Idle
  /\ UNCHANGED <<sameName, oldCfg, baseCfg, newDirs, workloads, edited>>

\* External: the user edits a configuration between two commands.
EditUpgrade ==
  /\ upgrade.at = "idle" /\ UpgradeOnce("edits")
  /\ \/ \E p \in OldParams, v \in ParamValues :
          oldCfg' = [oldCfg EXCEPT !.params[p] = v] /\ UNCHANGED <<baseCfg, newDirs>>
     \/ \E p \in BaseParams, v \in ParamValues :
          baseCfg' = [baseCfg EXCEPT !.params[p] = v] /\ UNCHANGED <<oldCfg, newDirs>>
     \/ \E h \in DOMAIN newDirs, p \in BaseParams, v \in ParamValues :
          newDirs' = [newDirs EXCEPT ![h].file.params[p] = v] /\ UNCHANGED <<sameName, oldCfg, baseCfg>>
  /\ edited' = edited \cup DOMAIN newDirs
  /\ UNCHANGED <<sameName, workloads, upgrade>>

UpgradeStep ==
  \/ \E cmd \in {"build", "apply"} : BeginUpgrade(cmd)
  \/ NewKfUpgrade \/ UpgradeGenerate \/ DeleteOld \/ DeleteIstio
  \/ \E w \in UNION {NewWorkloads(cfg) : cfg \in UNION {newDirs[h].built : h \in DOMAIN newDirs}} : ApplyNew(w)
  \/ Upgraded \/ EndUpgrade \/ StopUpgrade \/ EditUpgrade

UpgradeTypeOK ==
  /\ upgrade.at # "idle" /\ upgrade.at # "find" => upgrade.target \in DOMAIN newDirs
  /\ edited \subseteq DOMAIN newDirs
  /\ \A h \in DOMAIN newDirs : Cardinality(newDirs[h].built) <= 1
  /\ Foreign \subseteq workloads

-----------------------------------------------------------------------------
(* Properties *)

\* After an upgrade that succeeded, whatever was interrupted or repeated before, no
\* labelled workload is left in the old namespace or istio-system but those of the
\* new version, and other workloads are; if no configuration was edited since the
\* new one was made, the new version runs with the values the old one gave to the
\* parameters they share (KfUpgrader.Apply, kfupgrade.go).
UpgradeTakesOver ==
  upgrade.at = "done" =>
    LET kept == {w \in workloads : w.kubeflow /\ w.ns \in {oldCfg.ns, "istio-system"}}
    IN /\ \A w \in kept : w.version = NewVersion
       /\ Foreign \subseteq workloads
       /\ upgrade.target \notin edited =>
            \A a \in {"hub", "pilot"} : \E w \in workloads :
              /\ w.app = a /\ w.version = NewVersion
              /\ \A p \in DOMAIN w.params :
                   w.params[p] = IF p \in DOMAIN oldCfg.params THEN oldCfg.params[p] ELSE baseCfg.params[p]
=============================================================================
