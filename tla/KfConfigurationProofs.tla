------------------------ MODULE KfConfigurationProofs ------------------------
(* Theorems about the parts of KfConfiguration, for every value of their constants. *)
EXTENDS KfConfiguration, FiniteSetTheorems, TLAPS

-----------------------------------------------------------------------------
(* An upgrade: types *)

Values == ParamValues \cup {CHOOSE v \in ParamValues : TRUE}
Config == [version : {NewVersion, "stale"}, ns : {"kubeflow", "moved"}, params : [BaseParams -> Values]]
UpgradePCs == {"idle", "find", "generate", "delete old", "delete istio", "apply", "done"}

ConfigsOK ==
  /\ oldCfg \in [version : {"old"}, ns : {"kubeflow"}, params : [OldParams -> ParamValues]]
  /\ baseCfg \in Config
NewDirsOK ==
  /\ DOMAIN newDirs \subseteq Config
  /\ \A h \in DOMAIN newDirs : newDirs[h] \in [file : Config, built : SUBSET Config]
  /\ newDirs = [h \in DOMAIN newDirs |-> newDirs[h]]
UpgradeOK ==
  upgrade \in [cmd : {"none", "build", "apply"}, at : UpgradePCs, target : Config \cup {<<>>}]

\* What the upgrades of one configuration have in common, whatever was edited.
NewFilesInv ==
  \A h \in DOMAIN newDirs :
    /\ newDirs[h].file.version = NewVersion
    /\ \A cfg \in newDirs[h].built : cfg.version = NewVersion

\* Without an edit, the file and the manifests have the mixed parameters.
CurrentInv ==
  \A h \in DOMAIN newDirs \ edited :
    /\ newDirs[h].file.params = MergeKfCfg.params
    /\ \A cfg \in newDirs[h].built : cfg.params = MergeKfCfg.params

\* How far the command is with the workloads.
ReachedInv ==
  /\ Foreign \subseteq workloads
  /\ upgrade.at \in UpgradePCs \ {"idle", "find"} => upgrade.target \in DOMAIN newDirs
  /\ upgrade.at \in {"delete old", "delete istio", "apply", "done"} =>
       newDirs[upgrade.target].built # {}
  /\ upgrade.at = "delete istio" => \A w \in workloads : ~(w.kubeflow /\ w.ns = "kubeflow")
  /\ upgrade.at \in {"apply", "done"} =>
       \A w \in workloads : w.kubeflow /\ w.ns \in {"kubeflow", "istio-system"} => w.version = NewVersion
  /\ upgrade.at = "done" =>
       \A cfg \in newDirs[upgrade.target].built : NewWorkloads(cfg) \subseteq workloads

UpgradeTypeInv == ConfigsOK /\ NewDirsOK /\ UpgradeOK
UpgradeInv == UpgradeTypeInv /\ NewFilesInv /\ CurrentInv /\ ReachedInv

LEMMA MergedConfig ==
  ASSUME ConfigsOK
  PROVE  /\ MergeKfCfg \in Config
         /\ MergeKfCfg.params =
              [p \in BaseParams |-> IF p \in OldParams THEN oldCfg.params[p] ELSE baseCfg.params[p]]
<1> DEFINE mixed == [p \in BaseParams |-> IF p \in OldParams THEN oldCfg.params[p] ELSE baseCfg.params[p]]
<1>1. DOMAIN baseCfg.params = BaseParams /\ DOMAIN oldCfg.params = OldParams
  BY DEF ConfigsOK, Config
<1>2. MergeKfCfg = [baseCfg EXCEPT !.params = mixed]
  BY <1>1 DEF MergeKfCfg
<1>3. mixed \in [BaseParams -> Values]
  BY DEF ConfigsOK, Config, Values
<1> HIDE DEF mixed
<1>4. MergeKfCfg \in Config /\ MergeKfCfg.params = mixed
  BY <1>2, <1>3 DEF ConfigsOK, Config
<1>5. QED
  BY <1>4 DEF mixed

LEMMA IdleUpgrade == Idle \in [cmd : {"none", "build", "apply"}, at : UpgradePCs, target : Config \cup {<<>>}]
BY DEF Idle, UpgradePCs

LEMMA UpgradeInitInv == UpgradeInit => UpgradeInv
<1> SUFFICES ASSUME UpgradeInit PROVE UpgradeInv
  OBVIOUS
<1>1. ConfigsOK
  BY DEF UpgradeInit, ConfigsOK, Config, Values
<1>2. DOMAIN newDirs = {} /\ newDirs = <<>>
  BY DEF UpgradeInit
<1>3. NewDirsOK
  BY <1>2 DEF NewDirsOK
<1>4. UpgradeOK /\ upgrade.at = "idle"
  BY IdleUpgrade DEF UpgradeInit, UpgradeOK, Idle
<1>5. ReachedInv
  BY <1>4 DEF UpgradeInit, ReachedInv
<1>6. QED
  BY <1>1, <1>2, <1>3, <1>4, <1>5 DEF UpgradeInv, UpgradeTypeInv, NewFilesInv, CurrentInv

-----------------------------------------------------------------------------
(* An upgrade: its steps *)

LEMMA BeginInv ==
  ASSUME UpgradeInv, NEW cmd \in {"build", "apply"}, BeginUpgrade(cmd) PROVE UpgradeInv'
<1> USE DEF UpgradeInv, UpgradeTypeInv
<1> DEFINE at == "find"
<1>1. at \in UpgradePCs
  BY DEF UpgradePCs
<1>2. upgrade' = [Idle EXCEPT !.cmd = cmd, !.at = at]
  BY DEF BeginUpgrade
<1> HIDE DEF at
<1>3. UpgradeOK' /\ upgrade'.at = at
  BY <1>1, <1>2, IdleUpgrade DEF UpgradeOK
<1>4. UNCHANGED <<oldCfg, baseCfg, newDirs, workloads, edited>>
  BY DEF BeginUpgrade
<1>5. ConfigsOK' /\ NewDirsOK' /\ NewFilesInv' /\ CurrentInv'
  BY <1>4 DEF ConfigsOK, NewDirsOK, NewFilesInv, CurrentInv, MergeKfCfg
<1>6. QED
  BY <1>3, <1>4, <1>5 DEF ReachedInv, Foreign, at

LEMMA CreateInv ==
  ASSUME UpgradeInv, upgrade.at = "find", CreateNewKfApp,
         UNCHANGED <<oldCfg, baseCfg, workloads>>
  PROVE  UpgradeInv'
<1> USE DEF UpgradeInv, UpgradeTypeInv
<1> DEFINE h == MergeKfCfg
           at == "generate"
           built == IF h \in DOMAIN newDirs THEN newDirs[h].built ELSE NotBuilt
           text == [h EXCEPT !.version = NewVersion]
           new == [file |-> text, built |-> built]
<1>1. /\ newDirs' = [d \in DOMAIN newDirs \cup {h} |-> IF d = h THEN new ELSE newDirs[d]]
      /\ edited' = IF h \in DOMAIN newDirs THEN edited ELSE edited \ {h}
      /\ upgrade' = [upgrade EXCEPT !.target = h, !.at = at]
  BY DEF CreateNewKfApp
<1>2. h \in Config
  BY MergedConfig
<1>3. text \in Config /\ text.version = NewVersion /\ text.params = h.params
  BY <1>2 DEF Config
<1>4. built \in SUBSET Config /\ (\A cfg \in built : cfg.version = NewVersion)
  BY DEF NewDirsOK, NewFilesInv, NotBuilt
<1>5. h \notin edited' => \A cfg \in built : cfg.params = h.params
  BY <1>1 DEF CurrentInv, NotBuilt
<1>6. MergeKfCfg' = h
  BY DEF MergeKfCfg
<1>7. at \in UpgradePCs
  BY DEF UpgradePCs
<1> HIDE DEF h, text, built
<1>8. new \in [file : Config, built : SUBSET Config] /\ new.file = text /\ new.built = built
  BY <1>3, <1>4
<1> HIDE DEF new, at
<1>9. /\ DOMAIN newDirs' = DOMAIN newDirs \cup {h} /\ newDirs'[h] = new
      /\ \A d \in DOMAIN newDirs \ {h} : newDirs'[d] = newDirs[d]
  BY <1>1
<1>10. NewDirsOK'
  BY <1>1, <1>2, <1>8, <1>9 DEF NewDirsOK
<1>11. NewFilesInv'
  BY <1>3, <1>4, <1>8, <1>9 DEF NewFilesInv
<1>12. CurrentInv'
  <2>1. MergeKfCfg'.params = h.params /\ MergeKfCfg.params = h.params
    BY <1>6 DEF h
  <2>2. \A d \in DOMAIN newDirs' \ edited' : d # h => d \in DOMAIN newDirs \ edited
    BY <1>1, <1>9
  <2>3. QED
    BY <1>3, <1>5, <1>8, <1>9, <2>1, <2>2 DEF CurrentInv
<1>13. UpgradeOK' /\ upgrade'.at = at /\ upgrade'.target = h
  BY <1>1, <1>2, <1>7 DEF UpgradeOK
<1>14. ConfigsOK'
  BY DEF ConfigsOK
<1>15. ReachedInv'
  BY <1>9, <1>13 DEF ReachedInv, Foreign, at
<1>16. QED
  BY <1>10, <1>11, <1>12, <1>13, <1>14, <1>15

LEMMA FindInv ==
  ASSUME UpgradeInv, NewKfUpgrade PROVE UpgradeInv'
<1>1. CASE Found = {}
  BY <1>1, CreateInv DEF NewKfUpgrade
<1>2. CASE Found # {}
  <2> USE DEF UpgradeInv, UpgradeTypeInv
  <2> DEFINE at == "generate"
  <2>1. PICK h \in Found : upgrade' = [upgrade EXCEPT !.target = h, !.at = at]
    BY <1>2 DEF NewKfUpgrade
  <2>2. h \in DOMAIN newDirs /\ h \in Config /\ at \in UpgradePCs
    BY DEF Found, NewDirsOK, UpgradePCs
  <2> HIDE DEF at
  <2>3. UpgradeOK' /\ upgrade'.at = at /\ upgrade'.target = h
    BY <2>1, <2>2 DEF UpgradeOK
  <2>4. UNCHANGED <<oldCfg, baseCfg, newDirs, workloads, edited>>
    BY <1>2 DEF NewKfUpgrade
  <2>5. ConfigsOK' /\ NewDirsOK' /\ NewFilesInv' /\ CurrentInv'
    BY <2>4 DEF ConfigsOK, NewDirsOK, NewFilesInv, CurrentInv, MergeKfCfg
  <2>6. QED
    BY <2>2, <2>3, <2>4, <2>5 DEF ReachedInv, Foreign, at
<1>3. QED
  BY <1>1, <1>2

LEMMA GenerateInv ==
  ASSUME UpgradeInv, UpgradeGenerate PROVE UpgradeInv'
<1> USE DEF UpgradeInv, UpgradeTypeInv
<1> DEFINE h == upgrade.target
           built == IF newDirs[h].built = NotBuilt THEN {newDirs[h].file} ELSE newDirs[h].built
           at == "delete old"
<1>1. h \in DOMAIN newDirs /\ newDirs[h] \in [file : Config, built : SUBSET Config]
  BY DEF UpgradeGenerate, ReachedInv, NewDirsOK, UpgradePCs
<1>2. newDirs' = [newDirs EXCEPT ![h].built = built]
  BY DEF UpgradeGenerate
<1>3. built \in SUBSET Config /\ built # {} /\ (\A cfg \in built : cfg.version = NewVersion)
  BY <1>1 DEF NotBuilt, NewFilesInv
<1>4. h \notin edited => \A cfg \in built : cfg.params = MergeKfCfg.params
  BY <1>1 DEF CurrentInv
<1>5. UNCHANGED <<oldCfg, baseCfg, workloads, edited>>
  BY DEF UpgradeGenerate
<1> HIDE DEF built
<1>6. /\ DOMAIN newDirs' = DOMAIN newDirs
      /\ newDirs'[h] = [newDirs[h] EXCEPT !.built = built]
      /\ \A d \in DOMAIN newDirs \ {h} : newDirs'[d] = newDirs[d]
      /\ newDirs' = [d \in DOMAIN newDirs' |-> newDirs'[d]]
  BY <1>1, <1>2 DEF NewDirsOK
<1>7. /\ newDirs'[h] \in [file : Config, built : SUBSET Config]
      /\ newDirs'[h].file = newDirs[h].file /\ newDirs'[h].built = built
  BY <1>1, <1>3, <1>6
<1>8. NewDirsOK'
  BY <1>6, <1>7 DEF NewDirsOK
<1>9. NewFilesInv'
  BY <1>3, <1>6, <1>7 DEF NewFilesInv
<1>10. MergeKfCfg' = MergeKfCfg
  BY <1>5 DEF MergeKfCfg
<1>11. CurrentInv'
  <2>1. MergeKfCfg'.params = MergeKfCfg.params
    BY <1>10
  <2>2. ASSUME NEW d \in DOMAIN newDirs' \ edited'
        PROVE  /\ newDirs'[d].file.params = MergeKfCfg.params
               /\ \A cfg \in newDirs'[d].built : cfg.params = MergeKfCfg.params
    BY <1>4, <1>5, <1>6, <1>7, <2>2 DEF CurrentInv
  <2>3. QED
    BY <2>1, <2>2 DEF CurrentInv
<1>12. /\ upgrade'.at \in {"idle", "delete old"} /\ UpgradeOK'
       /\ upgrade'.at = "delete old" => upgrade'.target = h
  <2>1. CASE upgrade.cmd = "build"
    BY <2>1, IdleUpgrade DEF UpgradeGenerate, UpgradeOK, Idle
  <2>2. CASE upgrade.cmd # "build"
    <3>1. upgrade' = [upgrade EXCEPT !.at = at] /\ at \in UpgradePCs
      BY <2>2 DEF UpgradeGenerate, UpgradePCs
    <3> HIDE DEF at
    <3>2. UpgradeOK' /\ upgrade'.at = at /\ upgrade'.target = h
      BY <3>1 DEF UpgradeOK
    <3>3. QED
      BY <3>2 DEF at
  <2>3. QED
    BY <2>1, <2>2
<1>13. ConfigsOK'
  BY <1>5 DEF ConfigsOK
<1>14. ReachedInv'
  <2>1. upgrade'.at \in {"delete old", "delete istio", "apply", "done"} =>
          upgrade'.target \in DOMAIN newDirs' /\ newDirs'[upgrade'.target].built # {}
    BY <1>1, <1>3, <1>6, <1>7, <1>12
  <2>2. upgrade'.at = "idle" \/ upgrade'.at = "delete old"
    BY <1>12
  <2>3. QED
    BY <1>5, <2>1, <2>2 DEF ReachedInv, Foreign
<1>15. QED
  BY <1>8, <1>9, <1>11, <1>12, <1>13, <1>14

\* The command goes on to at without changing any file.
LEMMA ReachType ==
  ASSUME UpgradeInv, NEW at \in UpgradePCs, upgrade' = [upgrade EXCEPT !.at = at],
         UNCHANGED <<oldCfg, baseCfg, newDirs, edited>>
  PROVE  /\ UpgradeTypeInv' /\ NewFilesInv' /\ CurrentInv'
         /\ upgrade'.at = at /\ upgrade'.target = upgrade.target
<1> USE DEF UpgradeInv, UpgradeTypeInv
<1>1. UpgradeOK' /\ upgrade'.at = at /\ upgrade'.target = upgrade.target
  BY DEF UpgradeOK
<1>2. QED
  BY <1>1 DEF ConfigsOK, NewDirsOK, NewFilesInv, CurrentInv, MergeKfCfg

\* DeleteObsoleteResources takes what is part of Kubeflow in the namespace.
LEMMA ObsoleteGone ==
  ASSUME NEW ns, Foreign \subseteq workloads
  PROVE  /\ Foreign \subseteq DeleteObsoleteResources(ns)
         /\ DeleteObsoleteResources(ns) \subseteq workloads
         /\ \A w \in DeleteObsoleteResources(ns) : ~(w.kubeflow /\ w.ns = ns)
<1>1. \A w \in Foreign : ~w.kubeflow
  BY DEF Foreign
<1>2. QED
  BY <1>1 DEF DeleteObsoleteResources

LEMMA DeleteOldInv ==
  ASSUME UpgradeInv, DeleteOld PROVE UpgradeInv'
<1> USE DEF UpgradeInv
<1> DEFINE at == "delete istio"
<1>1. at \in UpgradePCs /\ upgrade' = [upgrade EXCEPT !.at = at]
  BY DEF UpgradePCs, DeleteOld
<1>2. UNCHANGED <<oldCfg, baseCfg, newDirs, edited>>
  BY DEF DeleteOld
<1> HIDE DEF at
<1>3. /\ UpgradeTypeInv' /\ NewFilesInv' /\ CurrentInv'
      /\ upgrade'.at = at /\ upgrade'.target = upgrade.target
  BY <1>1, <1>2, ReachType
<1>4. workloads' = DeleteObsoleteResources("kubeflow")
  BY DEF DeleteOld, UpgradeTypeInv, ConfigsOK
<1>5. /\ upgrade.at = "delete old" /\ Foreign \subseteq workloads
      /\ upgrade.target \in DOMAIN newDirs /\ newDirs[upgrade.target].built # {}
  BY DEF DeleteOld, ReachedInv, UpgradePCs
<1>6. QED
  BY <1>2, <1>3, <1>4, <1>5, ObsoleteGone DEF ReachedInv, Foreign, at

LEMMA DeleteIstioInv ==
  ASSUME UpgradeInv, DeleteIstio PROVE UpgradeInv'
<1> USE DEF UpgradeInv
<1> DEFINE at == "apply"
<1>1. at \in UpgradePCs /\ upgrade' = [upgrade EXCEPT !.at = at]
  BY DEF UpgradePCs, DeleteIstio
<1>2. UNCHANGED <<oldCfg, baseCfg, newDirs, edited>>
  BY DEF DeleteIstio
<1> HIDE DEF at
<1>3. /\ UpgradeTypeInv' /\ NewFilesInv' /\ CurrentInv'
      /\ upgrade'.at = at /\ upgrade'.target = upgrade.target
  BY <1>1, <1>2, ReachType
<1>4. workloads' = DeleteObsoleteResources("istio-system")
  BY DEF DeleteIstio
<1>5. /\ upgrade.at = "delete istio" /\ Foreign \subseteq workloads
      /\ upgrade.target \in DOMAIN newDirs /\ newDirs[upgrade.target].built # {}
      /\ \A w \in workloads : ~(w.kubeflow /\ w.ns = "kubeflow")
  BY DEF DeleteIstio, ReachedInv, UpgradePCs
<1>6. QED
  BY <1>2, <1>3, <1>4, <1>5, ObsoleteGone DEF ReachedInv, Foreign, at

LEMMA NewWorkloadsAre ==
  ASSUME NEW cfg, NEW w \in NewWorkloads(cfg)
  PROVE  w.version = cfg.version /\ w.params = cfg.params /\ w.app \in {"hub", "pilot"}
BY DEF NewWorkloads, Workload

LEMMA ApplyNewInv ==
  ASSUME UpgradeInv, NEW w, ApplyNew(w) PROVE UpgradeInv'
<1> USE DEF UpgradeInv
<1>1. /\ upgrade.at = "apply" /\ UNCHANGED <<oldCfg, baseCfg, newDirs, upgrade, edited>>
      /\ workloads' = {v \in workloads : <<v.ns, v.app>> # <<w.ns, w.app>>} \cup {w}
  BY DEF ApplyNew
<1>2. PICK cfg \in newDirs[upgrade.target].built : w \in NewWorkloads(cfg)
  BY DEF ApplyNew
<1>3. upgrade.target \in DOMAIN newDirs
  BY <1>1 DEF ReachedInv, UpgradePCs
<1>4. w.version = NewVersion /\ w.app \in {"hub", "pilot"}
  BY <1>2, <1>3, NewWorkloadsAre DEF NewFilesInv
<1>5. Foreign \subseteq workloads'
  <2>1. \A v \in Foreign : v.app = "foreign"
    BY DEF Foreign
  <2>2. \A v \in Foreign : v \in workloads /\ <<v.ns, v.app>> # <<w.ns, w.app>>
    BY <1>4, <2>1 DEF ReachedInv
  <2>3. QED
    BY <1>1, <2>2
<1>6. \A v \in workloads' : v.kubeflow /\ v.ns \in {"kubeflow", "istio-system"} => v.version = NewVersion
  BY <1>1, <1>4 DEF ReachedInv
<1>7. ReachedInv'
  BY <1>1, <1>5, <1>6 DEF ReachedInv, Foreign
<1>8. UpgradeTypeInv' /\ NewFilesInv' /\ CurrentInv'
  BY <1>1 DEF UpgradeTypeInv, UpgradeOK, ConfigsOK, NewDirsOK, NewFilesInv, CurrentInv, MergeKfCfg
<1>9. QED
  BY <1>7, <1>8

LEMMA UpgradedInv ==
  ASSUME UpgradeInv, Upgraded PROVE UpgradeInv'
<1> USE DEF UpgradeInv
<1> DEFINE at == "done"
<1>1. at \in UpgradePCs /\ upgrade' = [upgrade EXCEPT !.at = at]
  BY DEF UpgradePCs, Upgraded
<1>2. UNCHANGED <<oldCfg, baseCfg, newDirs, edited, workloads>>
  BY DEF Upgraded
<1> HIDE DEF at
<1>3. /\ UpgradeTypeInv' /\ NewFilesInv' /\ CurrentInv'
      /\ upgrade'.at = at /\ upgrade'.target = upgrade.target
  BY <1>1, <1>2, ReachType
<1>4. /\ upgrade.at = "apply"
      /\ \A cfg \in newDirs[upgrade.target].built : NewWorkloads(cfg) \subseteq workloads
  BY DEF Upgraded
<1>5. /\ Foreign \subseteq workloads
      /\ upgrade.target \in DOMAIN newDirs /\ newDirs[upgrade.target].built # {}
      /\ \A w \in workloads : w.kubeflow /\ w.ns \in {"kubeflow", "istio-system"} => w.version = NewVersion
  BY <1>4 DEF ReachedInv, UpgradePCs
<1>6. \A cfg : NewWorkloads(cfg)' = NewWorkloads(cfg)
  BY DEF NewWorkloads, Workload
<1>7. QED
  BY <1>2, <1>3, <1>4, <1>5, <1>6 DEF ReachedInv, Foreign, at

LEMMA ResetInv ==
  ASSUME UpgradeInv, upgrade' = Idle, UNCHANGED <<oldCfg, baseCfg, newDirs, edited, workloads>>
  PROVE  UpgradeInv'
<1> USE DEF UpgradeInv, UpgradeTypeInv
<1>1. upgrade'.at = "idle" /\ UpgradeOK'
  BY IdleUpgrade DEF Idle, UpgradeOK
<1>2. ConfigsOK' /\ NewDirsOK' /\ NewFilesInv' /\ CurrentInv'
  BY DEF ConfigsOK, NewDirsOK, NewFilesInv, CurrentInv, MergeKfCfg
<1>3. ReachedInv'
  BY <1>1 DEF ReachedInv, Foreign
<1>4. QED
  BY <1>1, <1>2, <1>3

LEMMA EditInv ==
  ASSUME UpgradeInv, EditUpgrade PROVE UpgradeInv'
<1> USE DEF UpgradeInv, UpgradeTypeInv
<1>1. /\ upgrade.at = "idle" /\ UNCHANGED <<sameName, workloads, upgrade>>
      /\ edited' = edited \cup DOMAIN newDirs
  BY DEF EditUpgrade
<1>2. UpgradeOK' /\ ReachedInv'
  BY <1>1 DEF UpgradeOK, ReachedInv, Foreign
<1>3. ASSUME NEW p \in OldParams, NEW v \in ParamValues, oldCfg' = [oldCfg EXCEPT !.params[p] = v],
             UNCHANGED <<baseCfg, newDirs>>
      PROVE  ConfigsOK' /\ NewDirsOK' /\ NewFilesInv' /\ CurrentInv'
  <2>1. ConfigsOK'
    BY <1>3 DEF ConfigsOK
  <2>2. NewDirsOK' /\ NewFilesInv' /\ CurrentInv'
    BY <1>1, <1>3 DEF NewDirsOK, NewFilesInv, CurrentInv
  <2>3. QED
    BY <2>1, <2>2
<1>4. ASSUME NEW p \in BaseParams, NEW v \in ParamValues, baseCfg' = [baseCfg EXCEPT !.params[p] = v],
             UNCHANGED <<oldCfg, newDirs>>
      PROVE  ConfigsOK' /\ NewDirsOK' /\ NewFilesInv' /\ CurrentInv'
  <2>1. ConfigsOK'
    BY <1>4 DEF ConfigsOK, Config, Values
  <2>2. NewDirsOK' /\ NewFilesInv' /\ CurrentInv'
    BY <1>1, <1>4 DEF NewDirsOK, NewFilesInv, CurrentInv
  <2>3. QED
    BY <2>1, <2>2
<1>5. ASSUME NEW h \in DOMAIN newDirs, NEW p \in BaseParams, NEW v \in ParamValues,
             newDirs' = [newDirs EXCEPT ![h].file.params[p] = v], UNCHANGED <<oldCfg, baseCfg>>
      PROVE  ConfigsOK' /\ NewDirsOK' /\ NewFilesInv' /\ CurrentInv'
  <2> DEFINE text == [newDirs[h].file EXCEPT !.params[p] = v]
  <2>1. newDirs[h] \in [file : Config, built : SUBSET Config]
    BY DEF NewDirsOK
  <2>2. text \in Config /\ text.version = newDirs[h].file.version
    BY <2>1 DEF Config, Values
  <2>3. newDirs' = [newDirs EXCEPT ![h].file = text]
    BY <1>5
  <2> HIDE DEF text
  <2>4. /\ DOMAIN newDirs' = DOMAIN newDirs
        /\ newDirs'[h] = [newDirs[h] EXCEPT !.file = text]
        /\ \A d \in DOMAIN newDirs \ {h} : newDirs'[d] = newDirs[d]
        /\ newDirs' = [d \in DOMAIN newDirs' |-> newDirs'[d]]
    BY <2>3 DEF NewDirsOK
  <2>5. /\ newDirs'[h] \in [file : Config, built : SUBSET Config]
        /\ newDirs'[h].file = text /\ newDirs'[h].built = newDirs[h].built
    BY <2>1, <2>2, <2>4
  <2>6. NewDirsOK' /\ NewFilesInv'
    BY <2>2, <2>4, <2>5 DEF NewDirsOK, NewFilesInv
  <2>7. ConfigsOK' /\ CurrentInv'
    BY <1>1, <1>5, <2>4 DEF ConfigsOK, CurrentInv
  <2>8. QED
    BY <2>6, <2>7
<1>6. QED
  BY <1>2, <1>3, <1>4, <1>5 DEF EditUpgrade

LEMMA UpgradeNextInv ==
  ASSUME UpgradeInv, UpgradeStep \/ UNCHANGED upgradeVars PROVE UpgradeInv'
<1>1. ASSUME NEW cmd \in {"build", "apply"}, BeginUpgrade(cmd) PROVE UpgradeInv'
  BY <1>1, BeginInv
<1>2. CASE NewKfUpgrade
  BY <1>2, FindInv
<1>3. CASE UpgradeGenerate
  BY <1>3, GenerateInv
<1>4. CASE DeleteOld \/ DeleteIstio
  BY <1>4, DeleteOldInv, DeleteIstioInv
<1>5. ASSUME NEW w, ApplyNew(w) PROVE UpgradeInv'
  BY <1>5, ApplyNewInv
<1>6. CASE Upgraded
  BY <1>6, UpgradedInv
<1>7. CASE EndUpgrade \/ StopUpgrade
  BY <1>7, ResetInv DEF EndUpgrade, StopUpgrade
<1>8. CASE EditUpgrade
  BY <1>8, EditInv
<1>9. CASE UNCHANGED upgradeVars
  <2>1. UNCHANGED <<sameName, oldCfg, baseCfg, newDirs, workloads, upgrade, edited, upgradeUsed>>
    BY <1>9 DEF upgradeVars
  <2>2. ConfigsOK' /\ NewDirsOK' /\ UpgradeOK' /\ NewFilesInv' /\ CurrentInv'
    BY <2>1 DEF UpgradeInv, UpgradeTypeInv, ConfigsOK, NewDirsOK, UpgradeOK, NewFilesInv, CurrentInv,
                MergeKfCfg
  <2>3. \A cfg : NewWorkloads(cfg)' = NewWorkloads(cfg)
    BY DEF NewWorkloads, Workload
  <2>4. ReachedInv'
    BY <2>1, <2>3 DEF UpgradeInv, ReachedInv, Foreign
  <2>5. QED
    BY <2>2, <2>4 DEF UpgradeInv, UpgradeTypeInv
<1>10. QED
  BY <1>1, <1>2, <1>3, <1>4, <1>5, <1>6, <1>7, <1>8, <1>9 DEF UpgradeStep

LEMMA TakesOver == UpgradeInv => UpgradeTakesOver
<1> SUFFICES ASSUME UpgradeInv, upgrade.at = "done" PROVE UpgradeTakesOver
  BY DEF UpgradeTakesOver
<1> USE DEF UpgradeInv, UpgradeTypeInv
<1>1. /\ \A w \in workloads : w.kubeflow /\ w.ns \in {"kubeflow", "istio-system"} => w.version = NewVersion
      /\ upgrade.target \in DOMAIN newDirs /\ newDirs[upgrade.target].built # {}
      /\ \A cfg \in newDirs[upgrade.target].built : NewWorkloads(cfg) \subseteq workloads
      /\ Foreign \subseteq workloads
  BY DEF ReachedInv, UpgradePCs
<1>2. oldCfg.ns = "kubeflow"
  BY DEF ConfigsOK
<1>3. PICK cfg \in newDirs[upgrade.target].built : TRUE
  BY <1>1
<1>4. cfg.version = NewVersion
  BY <1>1 DEF NewFilesInv
<1>5. ASSUME upgrade.target \notin edited, NEW a \in {"hub", "pilot"}
      PROVE  \E w \in workloads :
               /\ w.app = a /\ w.version = NewVersion
               /\ \A p \in DOMAIN w.params :
                    w.params[p] = IF p \in DOMAIN oldCfg.params THEN oldCfg.params[p] ELSE baseCfg.params[p]
  <2>1. cfg.params = MergeKfCfg.params
    BY <1>1, <1>5 DEF CurrentInv
  <2>2. PICK w \in NewWorkloads(cfg) : w.app = a
    BY DEF NewWorkloads, Workload
  <2>3. w \in workloads /\ w.version = NewVersion /\ w.params = cfg.params
    BY <1>1, <1>4, <2>2, NewWorkloadsAre
  <2>4. DOMAIN oldCfg.params = OldParams
    BY DEF ConfigsOK
  <2>5. \A p \in DOMAIN w.params :
          w.params[p] = IF p \in DOMAIN oldCfg.params THEN oldCfg.params[p] ELSE baseCfg.params[p]
    BY <2>1, <2>3, <2>4, MergedConfig
  <2>6. QED
    BY <2>2, <2>3, <2>5
<1>6. QED
  BY <1>1, <1>2, <1>5 DEF UpgradeTakesOver

LEMMA UpgradeAlways == ConfigurationSpec => []UpgradeInv
<1>1. ConfigurationInit => UpgradeInv
  BY UpgradeInitInv DEF ConfigurationInit
<1>2. UpgradeInv /\ [ConfigurationNext]_configurationVars => UpgradeInv'
  BY UpgradeNextInv DEF ConfigurationNext, configurationVars
<1>3. QED
  BY <1>1, <1>2, PTL DEF ConfigurationSpec

\* After an upgrade that succeeded only workloads of the new version are left of
\* Kubeflow where the old one was, and they have the values they are to have
\* (UpgradeTakesOver; KfUpgrader.Apply, kfupgrade.go).
THEOREM UpgradesTakeOver == ConfigurationSpec => []UpgradeTakesOver
BY UpgradeAlways, TakesOver, PTL

-----------------------------------------------------------------------------
(* The stacks *)

StackApps == DOMAIN StackOf

StacksOK ==
  \A d \in DOMAIN stackDirs :
    /\ DOMAIN stackDirs[d] = {"bases", "patches", "maps"}
    /\ stackDirs[d].bases \in Seq(StackApps) /\ stackDirs[d].patches \in Seq(StackApps)
    /\ IsInjective(stackDirs[d].bases) /\ IsInjective(stackDirs[d].patches)

\* The parameter at hand belongs to a stack whose kustomization is written.
SettingOK ==
  setting # <<>> =>
    /\ setting \in StackApps \X ParamNames \X SettingValues
    /\ StackOf[setting[1]] \in DOMAIN stackDirs

\* A patch is in the stack of its application, and has its file, unless the
\* command is, or was stopped, between the two.
PatchesInv ==
  \A d \in DOMAIN stackDirs : \A a \in ToSet(stackDirs[d].patches) :
    /\ StackOf[a] = d
    /\ \/ a \in DOMAIN stackDirs[d].maps \/ <<d, a>> \in torn
       \/ (setting # <<>> /\ setting[1] = a)

\* What was set is in the files.
MeantInv ==
  /\ "stack" \in DOMAIN meant
  /\ \A x \in DOMAIN meant.stack :
       /\ x \in StackApps \X ParamNames
       /\ StackOf[x[1]] \in DOMAIN stackDirs
       /\ x[1] \in DOMAIN stackDirs[StackOf[x[1]]].maps
       /\ x[2] \in DOMAIN stackDirs[StackOf[x[1]]].maps[x[1]]
       /\ stackDirs[StackOf[x[1]]].maps[x[1]][x[2]] = meant.stack[x]

StackInv == StacksOK /\ SettingOK /\ PatchesInv /\ MeantInv

\* A list without duplicates gets an element, unless it has it.
Added(seq, x) == IF x \in ToSet(seq) THEN seq ELSE Append(seq, x)

LEMMA AddOnce ==
  ASSUME NEW S, NEW seq \in Seq(S), IsInjective(seq), NEW x \in S
  PROVE  /\ Added(seq, x) \in Seq(S) /\ IsInjective(Added(seq, x))
         /\ ToSet(Added(seq, x)) = ToSet(seq) \cup {x}
<1>1. CASE x \in ToSet(seq)
  BY <1>1 DEF Added
<1>2. CASE x \notin ToSet(seq)
  <2> DEFINE new == Append(seq, x)
  <2>1. Added(seq, x) = new /\ new \in Seq(S)
    BY <1>2 DEF Added
  <2>2. /\ DOMAIN new = 1..Len(seq) + 1 /\ DOMAIN seq = 1..Len(seq) /\ Len(seq) \in Nat
        /\ new[Len(seq) + 1] = x /\ \A i \in 1..Len(seq) : new[i] = seq[i]
    OBVIOUS
  <2>3. \A i \in DOMAIN seq : seq[i] # x
    BY <1>2 DEF ToSet
  <2> HIDE DEF new
  <2>4. IsInjective(new)
    BY <2>2, <2>3 DEF IsInjective
  <2>5. ToSet(new) = ToSet(seq) \cup {x}
    BY <2>2 DEF ToSet
  <2>6. QED
    BY <2>1, <2>4, <2>5
<1>3. QED
  BY <1>1, <1>2

LEMMA StackDirIs ==
  ASSUME StackInv, NEW d
  PROVE  /\ DOMAIN StackDir(d) = {"bases", "patches", "maps"}
         /\ StackDir(d).bases \in Seq(StackApps) /\ StackDir(d).patches \in Seq(StackApps)
         /\ IsInjective(StackDir(d).bases) /\ IsInjective(StackDir(d).patches)
         /\ d \in DOMAIN stackDirs => StackDir(d) = stackDirs[d]
         /\ d \notin DOMAIN stackDirs => StackDir(d).patches = <<>> /\ ToSet(StackDir(d).patches) = {}
<1>1. CASE d \in DOMAIN stackDirs
  BY <1>1 DEF StackInv, StacksOK, StackDir
<1>2. CASE d \notin DOMAIN stackDirs
  <2>1. StackDir(d) = [bases |-> <<>>, patches |-> <<>>, maps |-> <<>>]
    BY <1>2 DEF StackDir, NoStack
  <2>2. IsInjective(<<>>) /\ ToSet(<<>>) = {} /\ <<>> \in Seq(StackApps)
    BY DEF IsInjective, ToSet
  <2>3. QED
    BY <1>2, <2>1, <2>2
<1>3. QED
  BY <1>1, <1>2

LEMMA StackInitInv == SettingInit => StackInv
<1> SUFFICES ASSUME SettingInit PROVE StackInv
  OBVIOUS
<1>1. DOMAIN stackDirs = {} /\ setting = <<>> /\ "stack" \in DOMAIN meant /\ DOMAIN meant.stack = {}
  BY DEF SettingInit
<1>2. QED
  BY <1>1 DEF StackInv, StacksOK, SettingOK, PatchesInv, MeantInv

\* One kustomization is written, with the config maps it had.
LEMMA StackWritten ==
  ASSUME StackInv, NEW d, NEW k, stackDirs' = With(stackDirs, d, k),
         DOMAIN k = {"bases", "patches", "maps"}, k.maps = StackDir(d).maps,
         k.bases \in Seq(StackApps), k.patches \in Seq(StackApps),
         IsInjective(k.bases), IsInjective(k.patches), UNCHANGED meant
  PROVE  /\ StacksOK' /\ MeantInv'
         /\ DOMAIN stackDirs' = DOMAIN stackDirs \cup {d} /\ stackDirs'[d] = k
         /\ \A e \in DOMAIN stackDirs \ {d} : stackDirs'[e] = stackDirs[e]
<1>1. /\ DOMAIN stackDirs' = DOMAIN stackDirs \cup {d} /\ stackDirs'[d] = k
      /\ \A e \in DOMAIN stackDirs \ {d} : stackDirs'[e] = stackDirs[e]
  BY DEF With
<1>2. StacksOK'
  BY <1>1 DEF StackInv, StacksOK
<1>3. \A e \in DOMAIN stackDirs : stackDirs'[e].maps = stackDirs[e].maps
  BY <1>1, StackDirIs
<1>4. MeantInv'
  BY <1>1, <1>3 DEF StackInv, MeantInv
<1>5. QED
  BY <1>1, <1>2, <1>4

LEMMA AddPatchInv ==
  ASSUME StackInv, NEW a \in StackApps, NEW p \in ParamNames, NEW v \in SettingValues,
         AddPatch(a), setting = <<>>, setting' = <<a, p, v>>, UNCHANGED <<meant, torn>>
  PROVE  StackInv'
<1> DEFINE d == StackOf[a]
           old == StackDir(d).patches
           patches == Added(old, a)
           k == [StackDir(d) EXCEPT !.patches = patches]
<1>1. stackDirs' = With(stackDirs, d, k)
  BY DEF AddPatch, Added
<1>2. /\ patches \in Seq(StackApps) /\ IsInjective(patches)
      /\ ToSet(patches) = ToSet(StackDir(d).patches) \cup {a}
  <2>1. old \in Seq(StackApps) /\ IsInjective(old)
    BY StackDirIs
  <2> HIDE DEF old
  <2>2. /\ patches \in Seq(StackApps) /\ IsInjective(patches)
        /\ ToSet(patches) = ToSet(old) \cup {a}
    BY <2>1, AddOnce
  <2>3. QED
    BY <2>2 DEF old
<1> HIDE DEF patches
<1>3. /\ DOMAIN k = {"bases", "patches", "maps"} /\ k.maps = StackDir(d).maps
      /\ k.bases = StackDir(d).bases /\ k.patches = patches
  BY StackDirIs
<1>4. k.bases \in Seq(StackApps) /\ IsInjective(k.bases)
  BY <1>3, StackDirIs
<1> HIDE DEF k, d
<1>5. /\ StacksOK' /\ MeantInv'
      /\ DOMAIN stackDirs' = DOMAIN stackDirs \cup {d} /\ stackDirs'[d] = k
      /\ \A e \in DOMAIN stackDirs \ {d} : stackDirs'[e] = stackDirs[e]
  BY <1>1, <1>2, <1>3, <1>4, StackWritten
<1>6. setting' # <<>> /\ setting' \in StackApps \X ParamNames \X SettingValues /\ setting'[1] = a
  OBVIOUS
<1>7. SettingOK'
  BY <1>5, <1>6 DEF SettingOK, d
<1>8. PatchesInv'
  <2>1. ASSUME NEW e \in DOMAIN stackDirs', NEW b \in ToSet(stackDirs'[e].patches)
        PROVE  /\ StackOf[b] = e
               /\ b \in DOMAIN stackDirs'[e].maps \/ <<e, b>> \in torn' \/ (setting' # <<>> /\ setting'[1] = b)
    <3>1. CASE b = a /\ e = d
      BY <1>6, <3>1 DEF d
    <3>2. CASE e # d
      BY <1>5, <2>1, <3>2 DEF StackInv, PatchesInv
    <3>3. CASE e = d /\ b # a
      <4>1. b \in ToSet(StackDir(d).patches)
        BY <1>2, <1>3, <1>5, <2>1, <3>3
      <4>2. d \in DOMAIN stackDirs /\ StackDir(d) = stackDirs[d]
        BY <4>1, StackDirIs
      <4>3. QED
        BY <1>3, <1>5, <3>3, <4>1, <4>2 DEF StackInv, PatchesInv
    <3>4. QED
      BY <3>1, <3>2, <3>3
  <2>2. QED
    BY <2>1 DEF PatchesInv
<1>9. QED
  BY <1>5, <1>7, <1>8 DEF StackInv

LEMMA WriteConfigMapInv == StackInv /\ WriteConfigMap => StackInv'
<1> SUFFICES ASSUME StackInv, WriteConfigMap PROVE StackInv'
  OBVIOUS
<1> DEFINE a == setting[1]
           p == setting[2]
           v == setting[3]
           d == StackOf[a]
           maps == stackDirs[d].maps
           had == IF a \in DOMAIN maps THEN maps[a] ELSE <<>>
           table == With(had, p, v)
           new == With(maps, a, table)
           x == <<a, p>>
           said == With(meant.stack, x, v)
<1>1. /\ a \in StackApps /\ p \in ParamNames /\ d \in DOMAIN stackDirs
      /\ DOMAIN stackDirs[d] = {"bases", "patches", "maps"} /\ "stack" \in DOMAIN meant
  BY DEF WriteConfigMap, StackInv, SettingOK, StacksOK, MeantInv
<1>2. /\ stackDirs' = [stackDirs EXCEPT ![d].maps = new] /\ torn' = torn \ {<<d, a>>}
      /\ meant' = [meant EXCEPT !.stack = said] /\ setting' = <<>>
  BY DEF WriteConfigMap
<1>3. /\ DOMAIN table = DOMAIN had \cup {p} /\ table[p] = v
      /\ \A q \in DOMAIN had \ {p} : table[q] = had[q]
  <2> HIDE DEF had, p, v
  <2> QED
    BY DEF With
<1>4. /\ DOMAIN new = DOMAIN maps \cup {a} /\ new[a] = table
      /\ \A b \in DOMAIN maps \ {a} : new[b] = maps[b]
  <2> HIDE DEF maps, a, table
  <2> QED
    BY DEF With
<1>5. /\ DOMAIN said = DOMAIN meant.stack \cup {x} /\ said[x] = v
      /\ \A y \in DOMAIN meant.stack \ {x} : said[y] = meant.stack[y]
  <2> HIDE DEF x, v
  <2> QED
    BY DEF With
<1>6. a \in DOMAIN maps => had = maps[a]
  OBVIOUS
<1>7. x[1] = a /\ x[2] = p /\ x \in StackApps \X ParamNames
  BY <1>1
<1>8. \A y \in StackApps \X ParamNames : y[1] = a /\ y[2] = p => y = x
  OBVIOUS
<1>9. /\ DOMAIN stackDirs' = DOMAIN stackDirs
      /\ \A e \in DOMAIN stackDirs \ {d} : stackDirs'[e] = stackDirs[e]
      /\ DOMAIN stackDirs'[d] = {"bases", "patches", "maps"} /\ stackDirs'[d].maps = new
      /\ stackDirs'[d].bases = stackDirs[d].bases /\ stackDirs'[d].patches = stackDirs[d].patches
  <2> HIDE DEF new, d
  <2> QED
    BY <1>1, <1>2
<1>10. DOMAIN meant' = DOMAIN meant /\ meant'.stack = said
  <2> HIDE DEF said
  <2> QED
    BY <1>1, <1>2
<1> HIDE DEF had, table, new, said, x, v, p
<1>11. StacksOK' /\ SettingOK'
  BY <1>2, <1>9 DEF StackInv, StacksOK, SettingOK
<1>12. PatchesInv'
  <2>1. ASSUME NEW e \in DOMAIN stackDirs', NEW b \in ToSet(stackDirs'[e].patches)
        PROVE  /\ StackOf[b] = e
               /\ b \in DOMAIN stackDirs'[e].maps \/ <<e, b>> \in torn'
    <3>1. e \in DOMAIN stackDirs /\ b \in ToSet(stackDirs[e].patches)
      BY <1>9, <2>1
    <3>2. /\ StackOf[b] = e
          /\ b \in DOMAIN stackDirs[e].maps \/ <<e, b>> \in torn \/ b = a
      BY <3>1 DEF StackInv, PatchesInv
    <3>3. CASE e = d
      BY <1>2, <1>4, <1>9, <3>2, <3>3
    <3>4. CASE e # d
      BY <1>2, <1>9, <3>1, <3>2, <3>4
    <3>5. QED
      BY <3>3, <3>4
  <2>2. QED
    BY <2>1 DEF PatchesInv
<1>13. MeantInv'
  <2>1. ASSUME NEW y \in DOMAIN said
        PROVE  /\ y \in StackApps \X ParamNames
               /\ StackOf[y[1]] \in DOMAIN stackDirs'
               /\ y[1] \in DOMAIN stackDirs'[StackOf[y[1]]].maps
               /\ y[2] \in DOMAIN stackDirs'[StackOf[y[1]]].maps[y[1]]
               /\ stackDirs'[StackOf[y[1]]].maps[y[1]][y[2]] = said[y]
    <3>1. CASE y = x
      BY <1>1, <1>3, <1>4, <1>5, <1>7, <1>9, <3>1
    <3>2. CASE y # x
      <4>1. y \in DOMAIN meant.stack /\ said[y] = meant.stack[y]
        BY <1>5, <3>2
      <4>2. /\ y \in StackApps \X ParamNames /\ StackOf[y[1]] \in DOMAIN stackDirs
            /\ y[1] \in DOMAIN stackDirs[StackOf[y[1]]].maps
            /\ y[2] \in DOMAIN stackDirs[StackOf[y[1]]].maps[y[1]]
            /\ stackDirs[StackOf[y[1]]].maps[y[1]][y[2]] = meant.stack[y]
        BY <4>1 DEF StackInv, MeantInv
      <4>3. CASE y[1] = a
        <5>1. y[2] # p
          BY <1>8, <3>2, <4>2, <4>3
        <5>2. y[2] \in DOMAIN had /\ had[y[2]] = meant.stack[y]
          BY <1>6, <4>2, <4>3
        <5>3. table[y[2]] = meant.stack[y] /\ y[2] \in DOMAIN table
          BY <1>3, <5>1, <5>2
        <5>4. QED
          BY <1>4, <1>9, <4>1, <4>2, <4>3, <5>3
      <4>4. CASE y[1] # a
        <5>1. CASE StackOf[y[1]] = d
          BY <1>4, <1>9, <4>1, <4>2, <4>4, <5>1
        <5>2. CASE StackOf[y[1]] # d
          BY <1>9, <4>1, <4>2, <5>2
        <5>3. QED
          BY <5>1, <5>2
      <4>5. QED
        BY <4>3, <4>4
    <3>3. QED
      BY <3>1, <3>2
  <2>2. QED
    BY <1>10, <2>1 DEF StackInv, MeantInv
<1>14. QED
  BY <1>11, <1>12, <1>13 DEF StackInv

LEMMA GenerateStackInv ==
  ASSUME StackInv, NEW a \in StackApps, GenerateStack(a) PROVE StackInv'
<1> DEFINE old == StackDir(a).bases
           bases == Added(old, a)
           k == [StackDir(a) EXCEPT !.bases = bases]
<1>1. stackDirs' = With(stackDirs, a, k) /\ setting = <<>> /\ UNCHANGED <<setting, meant, torn>>
  BY DEF GenerateStack, AddStackBase, Added
<1>2. bases \in Seq(StackApps) /\ IsInjective(bases)
  <2>1. old \in Seq(StackApps) /\ IsInjective(old)
    BY StackDirIs
  <2> HIDE DEF old
  <2>2. QED
    BY <2>1, AddOnce
<1> HIDE DEF bases
<1>3. /\ DOMAIN k = {"bases", "patches", "maps"} /\ k.maps = StackDir(a).maps
      /\ k.bases = bases /\ k.patches = StackDir(a).patches
  BY StackDirIs
<1>4. k.patches \in Seq(StackApps) /\ IsInjective(k.patches)
  BY <1>3, StackDirIs
<1> HIDE DEF k
<1>5. /\ StacksOK' /\ MeantInv'
      /\ DOMAIN stackDirs' = DOMAIN stackDirs \cup {a} /\ stackDirs'[a] = k
      /\ \A e \in DOMAIN stackDirs \ {a} : stackDirs'[e] = stackDirs[e]
  BY <1>1, <1>2, <1>3, <1>4, StackWritten
<1>6. SettingOK'
  BY <1>1 DEF SettingOK
<1>7. PatchesInv'
  <2>1. ASSUME NEW e \in DOMAIN stackDirs', NEW b \in ToSet(stackDirs'[e].patches)
        PROVE  /\ StackOf[b] = e
               /\ b \in DOMAIN stackDirs'[e].maps \/ <<e, b>> \in torn'
    <3>1. CASE e # a
      BY <1>1, <1>5, <2>1, <3>1 DEF StackInv, PatchesInv
    <3>2. CASE e = a
      <4>1. b \in ToSet(StackDir(a).patches)
        BY <1>3, <1>5, <2>1, <3>2
      <4>2. a \in DOMAIN stackDirs /\ StackDir(a) = stackDirs[a]
        BY <4>1, StackDirIs
      <4>3. QED
        BY <1>1, <1>3, <1>5, <3>2, <4>1, <4>2 DEF StackInv, PatchesInv
    <3>3. QED
      BY <3>1, <3>2
  <2>2. QED
    BY <2>1 DEF PatchesInv
<1>8. QED
  BY <1>5, <1>6, <1>7 DEF StackInv

LEMMA StopSettingsInv == StackInv /\ StopSettings => StackInv'
<1> SUFFICES ASSUME StackInv, StopSettings PROVE StackInv'
  OBVIOUS
<1> DEFINE a == setting[1]
           d == StackOf[a]
<1>1. UNCHANGED <<stackDirs, meant>> /\ setting' = <<>>
  BY DEF StopSettings
<1>2. /\ torn' = IF a \in DOMAIN stackDirs[d].maps THEN torn ELSE torn \cup {<<d, a>>}
  BY DEF StopSettings
<1>3. StacksOK' /\ SettingOK' /\ MeantInv'
  BY <1>1 DEF StackInv, StacksOK, SettingOK, MeantInv
<1>4. PatchesInv'
  <2>1. ASSUME NEW e \in DOMAIN stackDirs, NEW b \in ToSet(stackDirs[e].patches)
        PROVE  StackOf[b] = e /\ (b \in DOMAIN stackDirs[e].maps \/ <<e, b>> \in torn')
    <3>1. StackOf[b] = e /\ (b \in DOMAIN stackDirs[e].maps \/ <<e, b>> \in torn \/ b = a)
      BY <2>1 DEF StackInv, PatchesInv
    <3>2. QED
      BY <1>2, <3>1
  <2>2. QED
    BY <1>1, <2>1 DEF PatchesInv
<1>5. QED
  BY <1>3, <1>4 DEF StackInv

\* What is unchanged keeps the stacks.
LEMMA StacksUntouched ==
  StackInv /\ UNCHANGED <<stackDirs, setting, torn>> /\ meant'.stack = meant.stack /\ "stack" \in DOMAIN meant'
    => StackInv'
BY DEF StackInv, StacksOK, SettingOK, PatchesInv, MeantInv

LEMMA SetParameterInv ==
  ASSUME StackInv, NEW a \in StackApps, NEW p \in ParamNames, NEW v \in SettingValues,
         SetApplicationParameter(a, p, v)
  PROVE  StackInv'
<1>1. setting = <<>> /\ UNCHANGED torn
  BY DEF SetApplicationParameter
<1>2. CASE UsingStacks
  <2>1. AddPatch(a) /\ setting' = <<a, p, v>> /\ UNCHANGED meant
    BY <1>2 DEF SetApplicationParameter
  <2>2. QED
    BY <1>1, <2>1, AddPatchInv
<1>3. CASE ~UsingStacks
  <2>1. LegacySetParameter(a, p, v) /\ UNCHANGED <<setting, stackDirs>>
    BY <1>3 DEF SetApplicationParameter
  <2>2. "stack" \in DOMAIN meant
    BY DEF StackInv, MeantInv
  <2>3. "stack" \in DOMAIN meant' /\ meant'.stack = meant.stack
    BY <2>1, <2>2 DEF LegacySetParameter
  <2>4. QED
    BY <1>1, <2>1, <2>3, StacksUntouched
<1>4. QED
  BY <1>2, <1>3

LEMMA StackStepInv == StackInv /\ SettingStep => StackInv'
<1> SUFFICES ASSUME StackInv, SettingStep PROVE StackInv'
  OBVIOUS
<1>1. "stack" \in DOMAIN meant
  BY DEF StackInv, MeantInv
<1>2. CASE WriteConfigMap
  BY <1>2, WriteConfigMapInv
<1>3. CASE StopSettings
  BY <1>3, StopSettingsInv
<1>4. CASE \E a \in DOMAIN StackOf : GenerateStack(a)
  BY <1>4, GenerateStackInv DEF StackApps
<1>5. CASE \E a \in DOMAIN StackOf : \E p \in ParamNames, v \in SettingValues : SetApplicationParameter(a, p, v)
  BY <1>5, SetParameterInv DEF StackApps
<1>6. CASE LoadSettings
  <2>1. UNCHANGED <<stackDirs, setting, torn>> /\ "stack" \in DOMAIN meant' /\ meant'.stack = meant.stack
    BY <1>1, <1>6 DEF LoadSettings
  <2>2. QED
    BY <2>1, StacksUntouched
<1>7. CASE WriteSettings \/ EndSettings
  <2>1. UNCHANGED <<stackDirs, setting, torn, meant>>
    BY <1>7 DEF WriteSettings, EndSettings
  <2>2. QED
    BY <1>1, <2>1, StacksUntouched
<1>8. CASE \E a \in DOMAIN StackOf :
             DeleteApplication(a) \/ \E o \in OverlayNames, add \in BOOLEAN : SetOverlay(a, o, add)
  <2>1. PICK a \in DOMAIN StackOf :
             DeleteApplication(a) \/ \E o \in OverlayNames, add \in BOOLEAN : SetOverlay(a, o, add)
    BY <1>8
  <2>2. UNCHANGED <<stackDirs, setting, torn>> /\ "stack" \in DOMAIN meant' /\ meant'.stack = meant.stack
    <3>1. CASE DeleteApplication(a)
      BY <1>1, <3>1 DEF DeleteApplication
    <3>2. ASSUME NEW o \in OverlayNames, NEW add \in BOOLEAN, SetOverlay(a, o, add)
          PROVE  UNCHANGED <<stackDirs, setting, torn>> /\ "stack" \in DOMAIN meant' /\ meant'.stack = meant.stack
      BY <1>1, <3>2 DEF SetOverlay
    <3>3. QED
      BY <2>1, <3>1, <3>2
  <2>3. QED
    BY <2>2, StacksUntouched
<1>9. CASE \E k \in Platforms, v \in SettingValues : SetPluginSpec(k, v)
  <2>1. PICK k \in Platforms, v \in SettingValues : SetPluginSpec(k, v)
    BY <1>9
  <2>2. UNCHANGED <<stackDirs, setting, torn>> /\ "stack" \in DOMAIN meant' /\ meant'.stack = meant.stack
    BY <1>1, <2>1 DEF SetPluginSpec
  <2>3. QED
    BY <2>2, StacksUntouched
<1>10. CASE \E n \in SecretNames, src \in SetSources : SetSecret(n, src)
  <2>1. PICK n \in SecretNames, src \in SetSources : SetSecret(n, src)
    BY <1>10
  <2>2. UNCHANGED <<stackDirs, setting, torn>> /\ "stack" \in DOMAIN meant' /\ meant'.stack = meant.stack
    BY <1>1, <2>1 DEF SetSecret
  <2>3. QED
    BY <2>2, StacksUntouched
<1>11. QED
  BY <1>2, <1>3, <1>4, <1>5, <1>6, <1>7, <1>8, <1>9, <1>10 DEF SettingStep

LEMMA StackInvComplete == StackInv => StackComplete
BY DEF StackInv, StacksOK, PatchesInv, MeantInv, StackComplete

LEMMA StackAlways == ConfigurationSpec => []StackInv
<1>1. ConfigurationInit => StackInv
  BY StackInitInv DEF ConfigurationInit
<1>2. StackInv /\ [ConfigurationNext]_configurationVars => StackInv'
  <2> SUFFICES ASSUME StackInv, [ConfigurationNext]_configurationVars PROVE StackInv'
    OBVIOUS
  <2>1. CASE SettingStep
    BY <2>1, StackStepInv
  <2>2. CASE UNCHANGED settingVars
    <3>1. UNCHANGED <<stackDirs, setting, torn, meant>>
      BY <2>2 DEF settingVars
    <3>2. "stack" \in DOMAIN meant
      BY DEF StackInv, MeantInv
    <3>3. QED
      BY <3>1, <3>2, StacksUntouched
  <2>3. QED
    BY <2>1, <2>2 DEF ConfigurationNext, configurationVars
<1>3. QED
  BY <1>1, <1>2, PTL DEF ConfigurationSpec

\* A stack's kustomization has every base and every patch once and the file of
\* every patch, unless the command stopped between the two files, and every
\* parameter that was set is in its config map with its last value
\* (SetApplicationParameter, types.go; createStackAppKustomization, kustomize.go).
THEOREM StacksAreComplete == ConfigurationSpec => []StackComplete
BY StackAlways, StackInvComplete, PTL

-----------------------------------------------------------------------------
(* The secrets of the file *)

\* The secrets in memory and in the file; what a command wrote is what LoadKfDef
\* makes of some configuration.
SecretsOK ==
  /\ kfFile.secrets \in Seq(Secrets)
  /\ conf # <<>> => "secrets" \in DOMAIN conf /\ conf.secrets \in Seq(Secrets)
WrittenInv ==
  kfFile \notin KfDefFiles =>
    /\ DOMAIN kfFile = {"apps", "plugins", "secrets"}
    /\ kfFile = [apps |-> kfFile.apps, plugins |-> kfFile.plugins, secrets |-> kfFile.secrets]
    /\ \A i \in DOMAIN kfFile.secrets :
         kfFile.secrets[i].source[1] = "env" \/ kfFile.secrets[i].source = <<"none", "">>
FileInv == SecretsOK /\ WrittenInv

\* What is written for a secret.
Masked(s) == [s EXCEPT !.source = IF @[1] = "env" THEN @ ELSE <<"none", "">>]
MaskedAll(seq) == [i \in DOMAIN seq |-> Masked(seq[i])]

LEMMA MaskedSecret ==
  ASSUME NEW s \in Secrets
  PROVE  /\ Masked(s) \in Secrets
         /\ Masked(s).source[1] = "env" \/ Masked(s).source = <<"none", "">>
         /\ (s.source[1] = "env" \/ s.source = <<"none", "">>) => Masked(s) = s
<1> DEFINE src == IF s.source[1] = "env" THEN s.source ELSE <<"none", "">>
<1>1. Masked(s) = [s EXCEPT !.source = src]
  BY DEF Masked
<1>2. src \in Sources
  <2>1. s.source \in Sources
    BY DEF Secrets
  <2>2. <<"none", "">> \in Sources
    BY DEF Sources
  <2>3. QED
    BY <2>1, <2>2
<1>3. src[1] = "env" \/ src = <<"none", "">>
  OBVIOUS
<1>4. (s.source[1] = "env" \/ s.source = <<"none", "">>) => src = s.source
  OBVIOUS
<1> HIDE DEF src
<1>5. [s EXCEPT !.source = src] \in Secrets /\ [s EXCEPT !.source = src].source = src
  BY <1>2 DEF Secrets
<1>6. src = s.source => [s EXCEPT !.source = src] = s
  BY DEF Secrets
<1>7. QED
  BY <1>1, <1>3, <1>4, <1>5, <1>6

LEMMA MaskedSeq ==
  ASSUME NEW seq \in Seq(Secrets)
  PROVE  /\ MaskedAll(seq) \in Seq(Secrets) /\ DOMAIN MaskedAll(seq) = DOMAIN seq
         /\ \A i \in DOMAIN seq : MaskedAll(seq)[i].source[1] = "env" \/ MaskedAll(seq)[i].source = <<"none", "">>
         /\ (\A i \in DOMAIN seq : seq[i].source[1] = "env" \/ seq[i].source = <<"none", "">>)
              => MaskedAll(seq) = seq
<1>1. DOMAIN seq = 1..Len(seq) /\ Len(seq) \in Nat /\ \A i \in 1..Len(seq) : seq[i] \in Secrets
  OBVIOUS
<1>2. \A i \in 1..Len(seq) : /\ Masked(seq[i]) \in Secrets
                             /\ Masked(seq[i]).source[1] = "env" \/ Masked(seq[i]).source = <<"none", "">>
  BY <1>1, MaskedSecret
<1>3. MaskedAll(seq) = [i \in 1..Len(seq) |-> Masked(seq[i])]
  BY <1>1 DEF MaskedAll
<1>4. MaskedAll(seq) \in Seq(Secrets)
  <2>1. MaskedAll(seq) \in [1..Len(seq) -> Secrets]
    BY <1>2, <1>3
  <2>2. QED
    BY <1>1, <2>1
<1>5. ASSUME \A i \in DOMAIN seq : seq[i].source[1] = "env" \/ seq[i].source = <<"none", "">>
      PROVE  MaskedAll(seq) = seq
  <2>1. \A i \in 1..Len(seq) : Masked(seq[i]) = seq[i]
    BY <1>1, <1>5, MaskedSecret
  <2>2. MaskedAll(seq) = [i \in 1..Len(seq) |-> seq[i]]
    BY <1>3, <2>1
  <2>3. QED
    BY <1>1, <2>2
<1>6. QED
  BY <1>1, <1>2, <1>3, <1>4, <1>5

LEMMA LoadKfDefIs ==
  ASSUME NEW c
  PROVE  LoadKfDef(c) = [apps |-> c.apps, plugins |-> c.plugins, secrets |-> MaskedAll(c.secrets)]
BY DEF LoadKfDef, MaskedAll, Masked

\* The setters of secrets keep their type.
LEMMA SetInSecret ==
  ASSUME NEW seq \in Seq(Secrets), NEW s \in Secrets PROVE SetIn(seq, s) \in Seq(Secrets)
<1>1. CASE s.name \in Names(seq)
  <2> DEFINE i == Index(seq, s.name)
  <2>1. i \in DOMAIN seq
    BY <1>1 DEF Names, Index
  <2>2. SetIn(seq, s) = [seq EXCEPT ![i] = s]
    BY <1>1 DEF SetIn
  <2> HIDE DEF i
  <2>3. QED
    BY <2>1, <2>2
<1>2. CASE s.name \notin Names(seq)
  BY <1>2 DEF SetIn
<1>3. QED
  BY <1>1, <1>2

LEMMA FileStepInv == FileInv /\ SettingStep => FileInv'
<1> SUFFICES ASSUME FileInv, SettingStep PROVE FileInv'
  OBVIOUS
<1>0. ASSUME UNCHANGED kfFile,
             conf' # <<>> => "secrets" \in DOMAIN conf' /\ conf'.secrets \in Seq(Secrets)
      PROVE  FileInv'
  BY <1>0 DEF FileInv, SecretsOK, WrittenInv
<1>1. CASE LoadSettings
  <2>1. UNCHANGED kfFile /\ conf' = LoadKfConfig(kfFile)
    BY <1>1 DEF LoadSettings
  <2>2. conf'.secrets = kfFile.secrets /\ "secrets" \in DOMAIN conf'
    BY <2>1 DEF LoadKfConfig
  <2>3. QED
    BY <1>0, <2>1, <2>2 DEF FileInv, SecretsOK
<1>2. CASE WriteSettings
  <2>1. kfFile' = LoadKfDef(conf) /\ conf # <<>> /\ UNCHANGED conf
    BY <1>2 DEF WriteSettings, Running, NoCommand
  <2> DEFINE secrets == MaskedAll(conf.secrets)
             new == [apps |-> conf.apps, plugins |-> conf.plugins, secrets |-> secrets]
  <2>2. kfFile' = new
    BY <2>1, LoadKfDefIs
  <2>3. /\ secrets \in Seq(Secrets)
        /\ \A i \in DOMAIN secrets : secrets[i].source[1] = "env" \/ secrets[i].source = <<"none", "">>
    <3>1. conf.secrets \in Seq(Secrets)
      BY <2>1 DEF FileInv, SecretsOK
    <3>2. QED
      BY <3>1, MaskedSeq
  <2> HIDE DEF secrets
  <2>4. /\ DOMAIN kfFile' = {"apps", "plugins", "secrets"} /\ kfFile'.secrets = secrets
        /\ kfFile'.apps = conf.apps /\ kfFile'.plugins = conf.plugins
    BY <2>2
  <2>6. SecretsOK'
    BY <2>1, <2>3, <2>4 DEF FileInv, SecretsOK
  <2>7. kfFile' = [apps |-> kfFile'.apps, plugins |-> kfFile'.plugins, secrets |-> kfFile'.secrets]
    BY <2>2, <2>4
  <2>8. WrittenInv'
    BY <2>3, <2>4, <2>7 DEF WrittenInv
  <2>5. QED
    BY <2>6, <2>8 DEF FileInv
<1>3. CASE EndSettings \/ StopSettings
  BY <1>0, <1>3 DEF EndSettings, StopSettings, NoCommand
<1>4. CASE WriteConfigMap \/ \E a \in DOMAIN StackOf : GenerateStack(a)
  <2>1. UNCHANGED <<kfFile, conf>>
    BY <1>4 DEF WriteConfigMap, GenerateStack
  <2>2. QED
    BY <1>0, <2>1 DEF FileInv, SecretsOK
<1>5. CASE \/ \E a \in DOMAIN StackOf : DeleteApplication(a)
           \/ \E a \in DOMAIN StackOf : \E p \in ParamNames, v \in SettingValues : SetApplicationParameter(a, p, v)
           \/ \E a \in DOMAIN StackOf : \E o \in OverlayNames, add \in BOOLEAN : SetOverlay(a, o, add)
           \/ \E k \in Platforms, v \in SettingValues : SetPluginSpec(k, v)
  <2>1. UNCHANGED kfFile /\ conf # <<>>
    BY <1>5 DEF DeleteApplication, SetApplicationParameter, SetOverlay, SetPluginSpec, Running, NoCommand
  <2>0. "secrets" \in DOMAIN conf
    BY <2>1 DEF FileInv, SecretsOK
  <2>2. "secrets" \in DOMAIN conf' /\ conf'.secrets = conf.secrets
    <3>1. CASE \E a \in DOMAIN StackOf : DeleteApplication(a)
      BY <2>0, <3>1 DEF DeleteApplication
    <3>2. CASE \E a \in DOMAIN StackOf : \E p \in ParamNames, v \in SettingValues : SetApplicationParameter(a, p, v)
      BY <2>0, <3>2 DEF SetApplicationParameter, LegacySetParameter
    <3>3. CASE \E a \in DOMAIN StackOf : \E o \in OverlayNames, add \in BOOLEAN : SetOverlay(a, o, add)
      BY <2>0, <3>3 DEF SetOverlay
    <3>4. CASE \E k \in Platforms, v \in SettingValues : SetPluginSpec(k, v)
      BY <2>0, <3>4 DEF SetPluginSpec
    <3>5. QED
      BY <1>5, <3>1, <3>2, <3>3, <3>4
  <2>3. QED
    BY <1>0, <2>1, <2>2, SMTT(60) DEF FileInv, SecretsOK
<1>6. CASE \E n \in SecretNames, src \in SetSources : SetSecret(n, src)
  <2>1. PICK n \in SecretNames, src \in SetSources : SetSecret(n, src)
    BY <1>6
  <2> DEFINE s == [name |-> n, source |-> src]
             secrets == SetIn(conf.secrets, s)
  <2>2. conf' = [conf EXCEPT !.secrets = secrets] /\ UNCHANGED kfFile /\ conf # <<>>
    BY <2>1 DEF SetSecret, PutSecret, Running, NoCommand
  <2>3. s \in Secrets /\ "secrets" \in DOMAIN conf /\ conf.secrets \in Seq(Secrets)
    <3>1. src \in Sources
      BY DEF Sources
    <3> HIDE DEF SetSecret
    <3>2. s \in Secrets
      BY <3>1 DEF Secrets
    <3>3. QED
      BY <2>2, <3>2 DEF FileInv, SecretsOK
  <2>4. secrets \in Seq(Secrets)
    <3> HIDE DEF s
    <3> QED
      BY <2>3, SetInSecret
  <2> HIDE DEF secrets
  <2>5. "secrets" \in DOMAIN conf' /\ conf'.secrets = secrets
    BY <2>2, <2>3
  <2>6. QED
    BY <1>0, <2>2, <2>3, <2>4, <2>5
<1>7. QED
  BY <1>1, <1>2, <1>3, <1>4, <1>5, <1>6 DEF SettingStep

LEMMA FileInvWritten == FileInv => WrittenIsRead
<1> SUFFICES ASSUME FileInv, kfFile \notin KfDefFiles PROVE WrittenIsRead
  BY DEF WrittenIsRead
<1> DEFINE c == LoadKfConfig(kfFile)
<1>1. c.apps = kfFile.apps /\ c.plugins = kfFile.plugins /\ c.secrets = kfFile.secrets
  BY DEF LoadKfConfig
<1>2. MaskedAll(kfFile.secrets) = kfFile.secrets
  BY MaskedSeq DEF FileInv, SecretsOK, WrittenInv
<1> HIDE DEF c
<1>3. LoadKfDef(c) = [apps |-> kfFile.apps, plugins |-> kfFile.plugins, secrets |-> kfFile.secrets]
  BY <1>1, <1>2, LoadKfDefIs
<1>4. LoadKfDef(c) = kfFile
  BY <1>3 DEF FileInv, WrittenInv
<1>5. \A i \in DOMAIN kfFile.secrets : kfFile.secrets[i].source[1] # "literal"
  <2>1. ASSUME NEW i \in DOMAIN kfFile.secrets PROVE kfFile.secrets[i].source[1] # "literal"
    <3>1. kfFile.secrets[i].source[1] = "env" \/ kfFile.secrets[i].source = <<"none", "">>
      BY DEF FileInv, WrittenInv
    <3>2. <<"none", "">>[1] # "literal"
      OBVIOUS
    <3>3. QED
      BY <3>1, <3>2
  <2>2. QED
    BY <2>1
<1>6. QED
  BY <1>4, <1>5 DEF WrittenIsRead, c

\* A file that a command wrote has no literal secret in it, and is the same when
\* it is loaded and written again (LoadKfConfig, LoadKfDef, loaders/v1.go).
THEOREM WrittenFilesAreStable == ConfigurationSpec => []WrittenIsRead
<1>1. ConfigurationInit => FileInv
  BY SettingAssumption DEF ConfigurationInit, SettingInit, NoCommand, FileInv, SecretsOK, WrittenInv
<1>2. FileInv /\ [ConfigurationNext]_configurationVars => FileInv'
  <2> SUFFICES ASSUME FileInv, [ConfigurationNext]_configurationVars PROVE FileInv'
    OBVIOUS
  <2>1. CASE SettingStep
    BY <2>1, FileStepInv
  <2>2. CASE UNCHANGED settingVars
    BY <2>2 DEF settingVars, FileInv, SecretsOK, WrittenInv
  <2>3. QED
    BY <2>1, <2>2 DEF ConfigurationNext, configurationVars
<1>3. QED
  BY <1>1, <1>2, FileInvWritten, PTL DEF ConfigurationSpec

-----------------------------------------------------------------------------
(* The least and the greatest of some numbers *)

LEMMA Smallest ==
  ASSUME NEW T \in SUBSET Nat, T # {} PROVE \E m \in T : \A n \in T : m <= n
<1> DEFINE R == {x \in Nat \X Nat : x[1] < x[2]}
<1>1. IsWellFoundedOn(R, Nat)
  <2>1. OpToRel(<, Nat) = R
    BY DEF OpToRel
  <2>2. QED
    BY <2>1, NatLessThanWellFounded
<1>2. PICK m \in T : \A n \in T : ~(<<n, m>> \in R)
  <2> HIDE DEF R
  <2>1. QED
    BY <1>1, WFMin
<1>3. ASSUME NEW n \in T PROVE m <= n
  <2>1. ~(<<n, m>> \in R)
    BY <1>2
  <2>2. QED
    BY <2>1
<1>4. QED
  BY <1>3

LEMMA Largest ==
  ASSUME NEW N \in Nat, NEW T \in SUBSET (1..N), T # {} PROVE \E m \in T : \A n \in T : n <= m
<1> DEFINE below == {N - n : n \in T}
<1>1. below \in SUBSET Nat /\ below # {} /\ \A n \in T : N - n \in below
  <2>1. \A n \in T : n \in 1..N
    OBVIOUS
  <2>2. \A n \in T : N - n \in Nat
    BY <2>1
  <2>3. QED
    BY <2>2
<1>2. \A b \in below : \E n \in T : b = N - n
  OBVIOUS
<1> HIDE DEF below
<1>3. PICK b \in below : \A c \in below : b <= c
  BY <1>1, Smallest
<1>4. PICK m \in T : b = N - m
  BY <1>2
<1>5. ASSUME NEW n \in T PROVE n <= m
  <2>1. N - m <= N - n
    BY <1>1, <1>3, <1>4
  <2>2. n \in 1..N /\ m \in 1..N
    OBVIOUS
  <2>3. QED
    BY <2>1, <2>2
<1>6. QED
  BY <1>5

\* Induction, for what a set of numbers has: the next of each that is in it.
LEMMA UpTo ==
  ASSUME NEW N \in Nat, NEW P, 0 \in P, \A i \in 1..N : i - 1 \in P => i \in P
  PROVE  \A i \in 0..N : i \in P
<1> DEFINE T == {i \in 0..N : i \notin P}
<1> SUFFICES ASSUME T # {} PROVE FALSE
  OBVIOUS
<1>1. T \in SUBSET Nat
  OBVIOUS
<1>2. PICK m \in T : \A n \in T : m <= n
  <2> HIDE DEF T
  <2>1. QED
    BY <1>1, Smallest
<1>3. m \in 1..N /\ m - 1 \in 0..N
  OBVIOUS
<1>4. m - 1 \notin T
  BY <1>2, <1>3
<1>5. m - 1 \in P
  BY <1>3, <1>4
<1>6. QED
  BY <1>3, <1>5

\* What is defined from one number to the next exists.
StaysIn(T, N, step) == \A i \in 1..N, x \in T : step[<<i, x>>] \in T
Iterates(f, N, start, step) == f[0] = start /\ \A i \in 1..N : f[i] = step[<<i, f[i - 1]>>]
LEMMA Iterated ==
  ASSUME NEW N \in Nat, NEW T, NEW start \in T, NEW step, StaysIn(T, N, step)
  PROVE  \E f \in [0..N -> T] : Iterates(f, N, start, step)
<1> DEFINE Is(n, f) == f[0] = start /\ \A i \in 1..n : f[i] = step[<<i, f[i - 1]>>]
           P == {n \in 0..N : \E f \in [0..n -> T] : Is(n, f)}
<1>1. 0 \in P
  <2> DEFINE f == [i \in 0..0 |-> start]
  <2>1. f \in [0..0 -> T] /\ Is(0, f)
    OBVIOUS
  <2> HIDE DEF f
  <2>2. \E x \in [0..0 -> T] : Is(0, x)
    BY <2>1
  <2> HIDE DEF Is
  <2>3. QED
    BY <2>2
<1>2. ASSUME NEW n \in 1..N, n - 1 \in P PROVE n \in P
  <2>1. PICK f \in [0..n - 1 -> T] : Is(n - 1, f)
    BY <1>2
  <2> DEFINE last == step[<<n, f[n - 1]>>]
             g == [i \in 0..n |-> IF i = n THEN last ELSE f[i]]
  <2>2. n - 1 \in 0..n - 1 /\ last \in T
    BY DEF StaysIn
  <2> HIDE DEF last
  <2>3. g \in [0..n -> T]
    BY <2>2
  <2>4. \A i \in 0..n - 1 : g[i] = f[i]
    OBVIOUS
  <2>5. g[n] = step[<<n, g[n - 1]>>]
    <3>1. g[n] = last /\ g[n - 1] = f[n - 1]
      BY <2>2, <2>4
    <3> HIDE DEF g
    <3>2. QED
      BY <3>1 DEF last
  <2>6. \A i \in 1..n - 1 : g[i] = step[<<i, g[i - 1]>>]
    BY <2>1, <2>4
  <2>7. g[0] = start
    BY <2>1, <2>4
  <2> HIDE DEF g
  <2>8. Is(n, g)
    <3>1. \A i \in 1..n : i = n \/ i \in 1..n - 1
      OBVIOUS
    <3>2. QED
      BY <2>5, <2>6, <2>7, <3>1
  <2>9. QED
    BY <2>3, <2>8
<1>3. N \in P
  <2> HIDE DEF P
  <2>1. QED
    BY <1>1, <1>2, UpTo
<1>4. QED
  BY <1>3 DEF Iterates

-----------------------------------------------------------------------------
(* Lists: parts of them, and one after the other *)

\* The places the entries of a part have in the list.
Places(g, part, seq, I) ==
  /\ g \in [1..Len(part) -> I]
  /\ \A j \in 1..Len(part) : part[j] = seq[g[j]]
  /\ \A j, k \in 1..Len(part) : j < k => g[j] < g[k]
  /\ \A i \in I : \E j \in 1..Len(part) : g[j] = i

LEMMA KeptIs ==
  ASSUME NEW S, NEW seq \in Seq(S), NEW I \in SUBSET (DOMAIN seq)
  PROVE  KeptAt(seq, I) \in Seq(S) /\ \E g : Places(g, KeptAt(seq, I), seq, I)
<1> DEFINE N == Len(seq)
           Next1(i, s) == IF i \in I THEN Append(s, seq[i]) ELSE s
           Def(f) == [i \in 0..N |-> IF i = 0 THEN <<>> ELSE IF i \in I THEN Append(f[i - 1], seq[i]) ELSE f[i - 1]]
           kept == CHOOSE f : f = Def(f)
           step == [x \in (1..N) \X Seq(S) |-> Next1(x[1], x[2])]
<1>0. N \in Nat /\ DOMAIN seq = 1..N /\ \A i \in 1..N : seq[i] \in S
  OBVIOUS
<1>1. KeptAt(seq, I) = kept[N]
  BY DEF KeptAt
<1> HIDE DEF N
<1>2. \E f : f = Def(f)
  <2>1. \A i \in 1..N, s \in Seq(S) : step[<<i, s>>] \in Seq(S)
    BY <1>0
  <2>2. <<>> \in Seq(S)
    OBVIOUS
  <2>3. \A i \in 1..N, s \in Seq(S) : step[<<i, s>>] = Next1(i, s)
    OBVIOUS
  <2> HIDE DEF step
  <2>4. PICK f \in [0..N -> Seq(S)] : f[0] = <<>> /\ \A i \in 1..N : f[i] = step[<<i, f[i - 1]>>]
    <3> DEFINE T == Seq(S)
               start == <<>>
    <3>1. start \in T /\ StaysIn(T, N, step) /\ N \in Nat
      BY <1>0, <2>1, <2>2 DEF StaysIn
    <3> HIDE DEF T, start
    <3>2. \E f \in [0..N -> T] : Iterates(f, N, start, step)
      BY <3>1, Iterated
    <3>3. QED
      BY <3>2 DEF T, start, Iterates
  <2>5. \A i \in 1..N : f[i] = Next1(i, f[i - 1])
    <3>1. \A i \in 1..N : i - 1 \in 0..N
      BY <1>0
    <3>2. \A i \in 1..N : f[i - 1] \in Seq(S)
      BY <2>4, <3>1
    <3> HIDE DEF Next1
    <3>3. QED
      BY <2>3, <2>4, <3>2
  <2>6. f = Def(f)
    <3>1. f = [i \in 0..N |-> f[i]]
      BY <2>4
    <3>2. \A i \in 0..N : f[i] = IF i = 0 THEN <<>> ELSE Next1(i, f[i - 1])
      <4>1. f[0] = <<>>
        BY <2>4
      <4>2. \A i \in 0..N : i = 0 \/ i \in 1..N
        BY <1>0, SMTT(60)
      <4> HIDE DEF Next1
      <4>3. QED
        BY <2>5, <4>1, <4>2
    <3>3. QED
      BY <3>1, <3>2
  <2>7. QED
    BY <2>6
<1>3. kept = Def(kept)
  BY <1>2, ZenonT(60)
<1>4. kept[0] = <<>> /\ \A i \in 1..N : kept[i] = Next1(i, kept[i - 1])
  <2> HIDE DEF kept
  <2> DEFINE e == Def(kept)
  <2>1. \A i \in 0..N : e[i] = IF i = 0 THEN <<>> ELSE Next1(i, kept[i - 1])
    BY Zenon
  <2>2. kept = e
    BY <1>3
  <2> HIDE DEF e
  <2>3. \A i \in 0..N : kept[i] = e[i]
    BY <2>2
  <2>4. QED
    BY <1>0, <2>1, <2>3
<1> HIDE DEF kept, step
<1> DEFINE Is(i, g) ==
             /\ g \in [1..Len(kept[i]) -> I \cap (1..i)]
             /\ \A j \in 1..Len(kept[i]) : kept[i][j] = seq[g[j]]
             /\ \A j, k \in 1..Len(kept[i]) : j < k => g[j] < g[k]
             /\ \A n \in I \cap (1..i) : \E j \in 1..Len(kept[i]) : g[j] = n
           P == {i \in 0..N : kept[i] \in Seq(S) /\ \E g : Is(i, g)}
<1>5. 0 \in P
  <2> DEFINE g == [j \in 1..0 |-> 0]
  <2>1. Is(0, g)
    BY <1>4
  <2> HIDE DEF g
  <2>2. \E x : Is(0, x)
    BY <2>1
  <2> HIDE DEF Is
  <2>3. kept[0] \in Seq(S) /\ 0 \in 0..N
    BY <1>0, <1>4
  <2>4. QED
    BY <2>2, <2>3
<1>6. ASSUME NEW i \in 1..N, i - 1 \in P PROVE i \in P
  <2> DEFINE old == kept[i - 1]
             new == kept[i]
  <2>1. PICK g : Is(i - 1, g)
    BY <1>6
  <2>2. old \in Seq(S)
    BY <1>6
  <2>3. CASE i \in I
    <3>1. /\ new \in Seq(S) /\ Len(new) = Len(old) + 1 /\ new[Len(old) + 1] = seq[i]
          /\ \A j \in 1..Len(old) : new[j] = old[j]
      <4>1. new = Append(old, seq[i]) /\ seq[i] \in S
        BY <1>0, <1>4, <2>3
      <4> HIDE DEF new, old
      <4>2. QED
        BY <2>2, <4>1
    <3> DEFINE h == [j \in 1..Len(old) + 1 |-> IF j = Len(old) + 1 THEN i ELSE g[j]]
    <3>2. Len(old) \in Nat
      BY <2>2
    <3> HIDE DEF new, old
    <3>3. \A j \in 1..Len(old) : g[j] \in I \cap (1..i - 1)
      BY <2>1 DEF old
    <3>4. h \in [1..Len(new) -> I \cap (1..i)]
      BY <2>3, <3>1, <3>2, <3>3
    <3>5. \A j \in 1..Len(new) : new[j] = seq[h[j]]
      BY <2>1, <3>1, <3>2 DEF old
    <3>6. \A j, k \in 1..Len(new) : j < k => h[j] < h[k]
      BY <2>1, <3>1, <3>2, <3>3, SMTT(60) DEF old
    <3>7. ASSUME NEW n \in I \cap (1..i) PROVE \E j \in 1..Len(new) : h[j] = n
      <4>1. CASE n = i
        BY <3>1, <3>2, <4>1
      <4>2. CASE n # i
        <5>1. n \in I \cap (1..i - 1)
          BY <4>2
        <5>2. PICK j \in 1..Len(old) : g[j] = n
          BY <2>1, <5>1 DEF old
        <5>3. QED
          BY <3>1, <3>2, <5>2
      <4>3. QED
        BY <4>1, <4>2
    <3> HIDE DEF h
    <3>8. Is(i, h)
      BY <3>4, <3>5, <3>6, <3>7 DEF new
    <3>9. \E x : Is(i, x)
      BY <3>8
    <3> HIDE DEF Is
    <3>10. QED
      BY <3>1, <3>9 DEF new
  <2>4. CASE i \notin I
    <3>1. new = old
      BY <1>4, <2>4
    <3>2. I \cap (1..i) = I \cap (1..i - 1)
      BY <2>4
    <3>3. Is(i, g)
      BY <2>1, <3>1, <3>2
    <3>4. \E x : Is(i, x)
      BY <3>3
    <3> HIDE DEF Is
    <3>5. QED
      BY <2>2, <3>1, <3>4
  <2>5. QED
    BY <2>3, <2>4
<1>7. N \in P
  <2> HIDE DEF P
  <2>1. QED
    BY <1>0, <1>5, <1>6, UpTo
<1>8. PICK g : Is(N, g)
  BY <1>7
<1>9. kept[N] \in Seq(S) /\ I \cap (1..N) = I
  BY <1>0, <1>7
<1> DEFINE new == kept[N]
<1>10. KeptAt(seq, I) = new
  BY <1>1
<1>11. new \in Seq(S) /\ Places(g, new, seq, I)
  BY <1>8, <1>9 DEF Places
<1> HIDE DEF new
<1>12. QED
  BY <1>10, <1>11

\* What is kept of a list is part of it.
LEMMA KeptPart ==
  ASSUME NEW S, NEW seq \in Seq(S), NEW I \in SUBSET (DOMAIN seq)
  PROVE  /\ KeptAt(seq, I) \in Seq(S) /\ ToSet(KeptAt(seq, I)) = {seq[i] : i \in I}
         /\ I = {} => KeptAt(seq, I) = <<>>
         /\ IsInjective(seq) => IsInjective(KeptAt(seq, I))
<1> DEFINE new == KeptAt(seq, I)
<1>0. new \in Seq(S) /\ \E g : Places(g, new, seq, I)
  BY KeptIs
<1> HIDE DEF new
<1>1. PICK g \in [1..Len(new) -> I] :
        /\ \A j \in 1..Len(new) : new[j] = seq[g[j]]
        /\ \A j, k \in 1..Len(new) : j < k => g[j] < g[k]
        /\ \A i \in I : \E j \in 1..Len(new) : g[j] = i
  BY <1>0 DEF Places
<1>2. new \in Seq(S)
  BY <1>0
<1>3. DOMAIN new = 1..Len(new) /\ Len(new) \in Nat
  BY <1>2
<1>4. ToSet(new) = {seq[i] : i \in I}
  <2>1. \A j \in DOMAIN new : g[j] \in I /\ new[j] = seq[g[j]]
    BY <1>1, <1>3
  <2>2. \A i \in I : \E j \in DOMAIN new : new[j] = seq[i]
    BY <1>1, <1>3
  <2>3. QED
    BY <2>1, <2>2 DEF ToSet
<1>5. ASSUME I = {} PROVE new = <<>>
  <2>1. 1..Len(new) = {}
    BY <1>1, <1>5
  <2>2. QED
    BY <1>2, <1>3, <2>1
<1>6. ASSUME IsInjective(seq) PROVE IsInjective(new)
  <2>1. ASSUME NEW j \in 1..Len(new), NEW k \in 1..Len(new), new[j] = new[k] PROVE j = k
    <3>1. g[j] = g[k] /\ g[j] \in DOMAIN seq
      BY <1>1, <1>6, <2>1 DEF IsInjective
    <3>2. DOMAIN seq \subseteq Nat
      OBVIOUS
    <3>3. ~(j < k) /\ ~(k < j)
      BY <1>1, <3>1, <3>2
    <3>4. QED
      BY <3>3
  <2>2. QED
    BY <1>3, <2>1 DEF IsInjective
<1>7. QED
  BY <1>2, <1>4, <1>5, <1>6 DEF new

LEMMA Joined ==
  ASSUME NEW S, NEW s \in Seq(S), NEW t \in Seq(S)
  PROVE  /\ s \o t \in Seq(S) /\ ToSet(s \o t) = ToSet(s) \cup ToSet(t)
         /\ IsInjective(s) /\ IsInjective(t) /\ ToSet(s) \cap ToSet(t) = {} => IsInjective(s \o t)
<1> DEFINE new == s \o t
<1>1. /\ new \in Seq(S) /\ DOMAIN new = 1..Len(s) + Len(t) /\ Len(s) \in Nat /\ Len(t) \in Nat
      /\ DOMAIN s = 1..Len(s) /\ DOMAIN t = 1..Len(t)
      /\ \A i \in DOMAIN new : new[i] = IF i <= Len(s) THEN s[i] ELSE t[i - Len(s)]
  OBVIOUS
<1> HIDE DEF new
<1>2. \A i \in DOMAIN new : i \in DOMAIN s \/ (i > Len(s) /\ i - Len(s) \in DOMAIN t)
  BY <1>1
<1>3. ToSet(new) = ToSet(s) \cup ToSet(t)
  <2>1. ASSUME NEW x \in ToSet(new) PROVE x \in ToSet(s) \cup ToSet(t)
    BY <1>1, <1>2 DEF ToSet
  <2>2. ASSUME NEW x \in ToSet(s) PROVE x \in ToSet(new)
    BY <1>1 DEF ToSet
  <2>3. ASSUME NEW x \in ToSet(t) PROVE x \in ToSet(new)
    <3>1. PICK i \in DOMAIN t : t[i] = x
      BY DEF ToSet
    <3>2. i + Len(s) \in DOMAIN new /\ new[i + Len(s)] = x
      BY <1>1, <3>1
    <3>3. QED
      BY <3>2 DEF ToSet
  <2>4. QED
    BY <2>1, <2>2, <2>3
<1>4. ASSUME IsInjective(s), IsInjective(t), ToSet(s) \cap ToSet(t) = {} PROVE IsInjective(new)
  <2> SUFFICES ASSUME NEW i \in DOMAIN new, NEW j \in DOMAIN new, new[i] = new[j] PROVE i = j
    BY DEF IsInjective
  <2>1. \A k \in DOMAIN s, l \in DOMAIN t : s[k] # t[l]
    BY <1>4 DEF ToSet
  <2>2. CASE i \in DOMAIN s /\ j \in DOMAIN s
    BY <1>1, <1>4, <2>2 DEF IsInjective
  <2>3. CASE i \in DOMAIN s /\ j \notin DOMAIN s
    BY <1>1, <1>2, <2>1, <2>3
  <2>4. CASE i \notin DOMAIN s /\ j \in DOMAIN s
    BY <1>1, <1>2, <2>1, <2>4
  <2>5. CASE i \notin DOMAIN s /\ j \notin DOMAIN s
    <3>1. /\ i > Len(s) /\ i - Len(s) \in DOMAIN t /\ new[i] = t[i - Len(s)]
          /\ j > Len(s) /\ j - Len(s) \in DOMAIN t /\ new[j] = t[j - Len(s)]
      BY <1>1, <1>2, <2>5
    <3>2. i - Len(s) = j - Len(s)
      BY <1>4, <3>1 DEF IsInjective
    <3>3. QED
      BY <1>1, <3>2
  <2>6. QED
    BY <2>2, <2>3, <2>4, <2>5
<1>5. QED
  BY <1>1, <1>3, <1>4 DEF new

LEMMA FlattenIs ==
  ASSUME NEW S, NEW seqs \in Seq(Seq(S))
  PROVE  /\ FlattenSeq(seqs) \in Seq(S)
         /\ ToSet(FlattenSeq(seqs)) = UNION {ToSet(seqs[i]) : i \in DOMAIN seqs}
         /\ (\A i \in DOMAIN seqs : IsInjective(seqs[i]))
            /\ (\A i, j \in DOMAIN seqs : i # j => ToSet(seqs[i]) \cap ToSet(seqs[j]) = {})
              => IsInjective(FlattenSeq(seqs))
<1>1. CASE Len(seqs) = 0
  <2>1. FlattenSeq(seqs) = seqs /\ seqs = <<>>
    BY <1>1 DEF FlattenSeq
  <2>2. DOMAIN seqs = {} /\ seqs \in Seq(S)
    BY <2>1
  <2>3. QED
    BY <2>1, <2>2 DEF ToSet, IsInjective
<1>2. CASE Len(seqs) # 0
  <2> DEFINE N == Len(seqs) - 1
             Def(f) == [i \in 1..Len(seqs) |-> IF i = 1 THEN seqs[i] ELSE f[i - 1] \o seqs[i]]
             flatten == CHOOSE f : f = Def(f)
             step == [x \in (1..N) \X Seq(S) |-> x[2] \o seqs[x[1] + 1]]
  <2>0. N \in Nat /\ DOMAIN seqs = 1..Len(seqs) /\ Len(seqs) = N + 1 /\ \A i \in 1..N + 1 : seqs[i] \in Seq(S)
    BY <1>2
  <2>1. FlattenSeq(seqs) = flatten[N + 1]
    BY <1>2, <2>0 DEF FlattenSeq
  <2> HIDE DEF N
  <2>2. \E f : f = Def(f)
    <3> DEFINE T == Seq(S)
               start == seqs[1]
    <3>1. start \in T /\ StaysIn(T, N, step)
      <4>1. \A i \in 1..N : i + 1 \in 1..N + 1
        BY <2>0
      <4>2. \A i \in 1..N, x \in T : step[<<i, x>>] = x \o seqs[i + 1] /\ seqs[i + 1] \in Seq(S)
        BY <2>0, <4>1
      <4>3. 1 \in 1..N + 1
        BY <2>0
      <4> HIDE DEF step
      <4>4. \A x, y \in Seq(S) : x \o y \in Seq(S)
        OBVIOUS
      <4>5. StaysIn(T, N, step)
        BY <4>2, <4>4 DEF StaysIn
      <4>6. QED
        BY <2>0, <4>3, <4>5
    <3>2. \A i \in 1..N, x \in T : step[<<i, x>>] = x \o seqs[i + 1]
      OBVIOUS
    <3> HIDE DEF step, T, start
    <3>3. PICK g \in [0..N -> T] : g[0] = start /\ \A i \in 1..N : g[i] = step[<<i, g[i - 1]>>]
      <4>1. \E h \in [0..N -> T] : Iterates(h, N, start, step)
        BY <2>0, <3>1, Iterated
      <4>2. QED
        BY <4>1 DEF Iterates
    <3> DEFINE f == [i \in 1..Len(seqs) |-> g[i - 1]]
    <3>4. \A i \in 1..Len(seqs) : f[i] = IF i = 1 THEN seqs[i] ELSE f[i - 1] \o seqs[i]
      <4> TAKE i \in 1..Len(seqs)
      <4>1. CASE i = 1
        BY <2>0, <3>3, <4>1 DEF start
      <4>2. CASE i # 1
        <5>1. i - 1 \in 1..N /\ i - 1 \in 0..N /\ i - 2 \in 0..N /\ i - 1 \in 1..Len(seqs) /\ (i - 1) - 1 = i - 2 /\ i - 1 + 1 = i
          BY <2>0, <4>2
        <5>2. f[i] = g[i - 1] /\ f[i - 1] = g[i - 2] /\ g[i - 2] \in T
          BY <5>1
        <5>3. g[i - 1] = step[<<i - 1, g[i - 2]>>]
          BY <3>3, <5>1
        <5> HIDE DEF f
        <5>4. g[i - 1] = g[i - 2] \o seqs[i]
          BY <3>2, <5>1, <5>2, <5>3
        <5>5. QED
          BY <4>2, <5>2, <5>4
      <4>3. QED
        BY <4>1, <4>2
    <3>5. f = [i \in 1..Len(seqs) |-> f[i]]
      OBVIOUS
    <3> HIDE DEF f
    <3>6. f = Def(f)
      BY <3>4, <3>5, ZenonT(60)
    <3>7. QED
      BY <3>6
  <2>3. flatten = Def(flatten)
    BY <2>2, ZenonT(60)
  <2> HIDE DEF step
  <2>4. flatten[1] = seqs[1] /\ \A i \in 1..N : flatten[i + 1] = flatten[i] \o seqs[i + 1]
    <3> HIDE DEF flatten
    <3> DEFINE e == Def(flatten)
    <3>1. \A i \in 1..Len(seqs) : e[i] = IF i = 1 THEN seqs[i] ELSE flatten[i - 1] \o seqs[i]
      BY Zenon
    <3>2. flatten = e
      BY <2>3
    <3> HIDE DEF e
    <3>3. \A i \in 1..Len(seqs) : flatten[i] = IF i = 1 THEN seqs[i] ELSE flatten[i - 1] \o seqs[i]
      BY <3>1, <3>2
    <3>4. 1 \in 1..Len(seqs) /\ \A i \in 1..N : i + 1 \in 1..Len(seqs) /\ i + 1 # 1 /\ (i + 1) - 1 = i
      BY <2>0
    <3>5. QED
      BY <3>3, <3>4
  <2> HIDE DEF flatten
  <2> DEFINE Apart == /\ \A i \in DOMAIN seqs : IsInjective(seqs[i])
                      /\ \A i, j \in DOMAIN seqs : i # j => ToSet(seqs[i]) \cap ToSet(seqs[j]) = {}
             Is(n, s) == /\ s \in Seq(S) /\ ToSet(s) = UNION {ToSet(seqs[j]) : j \in 1..n}
                         /\ Apart => IsInjective(s)
             P == {n \in 0..N : Is(n + 1, flatten[n + 1])}
  <2>5. 0 \in P
    <3>1. 1 \in 1..N + 1 /\ 1..1 = {1} /\ 0 \in 0..N
      BY <2>0
    <3>2. Is(1, seqs[1])
      BY <2>0, <3>1
    <3> HIDE DEF Is
    <3>3. QED
      BY <2>4, <3>1, <3>2
  <2>6. ASSUME NEW n \in 1..N, n - 1 \in P PROVE n \in P
    <3> DEFINE s == flatten[n]
               t == seqs[n + 1]
    <3>1. Is(n, s)
      <4>1. (n - 1) + 1 = n
        BY <2>0
      <4> HIDE DEF Is
      <4>2. QED
        BY <2>6, <4>1
    <3>2. n + 1 \in 1..N + 1 /\ t \in Seq(S)
      BY <2>0
    <3>3. flatten[n + 1] = s \o t
      BY <2>4
    <3>4. 1..n + 1 = (1..n) \cup {n + 1}
      BY <2>0
    <3>5. Apart => IsInjective(t) /\ ToSet(s) \cap ToSet(t) = {}
      <4> SUFFICES ASSUME Apart PROVE IsInjective(t) /\ ToSet(s) \cap ToSet(t) = {}
        OBVIOUS
      <4>1. \A j \in 1..n : j \in DOMAIN seqs /\ j # n + 1
        BY <2>0
      <4>2. n + 1 \in DOMAIN seqs
        BY <2>0, <3>2
      <4>3. \A j \in 1..n : ToSet(seqs[j]) \cap ToSet(t) = {}
        BY <4>1, <4>2
      <4> HIDE DEF s, t
      <4>4. QED
        BY <3>1, <4>2, <4>3 DEF t
    <3> HIDE DEF s, Apart
    <3>6. ToSet(t) = ToSet(seqs[n + 1])
      OBVIOUS
    <3> HIDE DEF t
    <3> DEFINE u == s \o t
    <3>7. /\ u \in Seq(S) /\ ToSet(u) = ToSet(s) \cup ToSet(t)
          /\ IsInjective(s) /\ IsInjective(t) /\ ToSet(s) \cap ToSet(t) = {} => IsInjective(u)
      BY <3>1, <3>2, Joined
    <3> HIDE DEF u
    <3>8. Is(n + 1, u)
      <4>1. UNION {ToSet(seqs[j]) : j \in 1..n + 1} = (UNION {ToSet(seqs[j]) : j \in 1..n}) \cup ToSet(seqs[n + 1])
        BY <3>4
      <4>2. QED
        BY <3>1, <3>5, <3>6, <3>7, <4>1
    <3> HIDE DEF Is
    <3>9. n \in 0..N
      BY <2>0
    <3>10. QED
      BY <3>3, <3>8, <3>9 DEF u
  <2>7. N \in P
    <3> HIDE DEF P
    <3>1. N \in Nat /\ N \in 0..N
      BY <2>0
    <3>2. \A n \in 1..N : n - 1 \in P => n \in P
      BY <2>6
    <3>3. QED
      BY <2>5, <3>1, <3>2, UpTo
  <2>8. Is(N + 1, flatten[N + 1])
    <3> HIDE DEF Is
    <3>1. QED
      BY <2>7
  <2>9. DOMAIN seqs = 1..N + 1
    BY <2>0
  <2>10. QED
    BY <2>1, <2>8, <2>9
<1>3. QED
  BY <1>1, <1>2

-----------------------------------------------------------------------------
(* Lists whose elements have unique names *)

LEMMA AtIs ==
  ASSUME NEW seq, Unique(seq), NEW n \in Names(seq)
  PROVE  /\ Index(seq, n) \in DOMAIN seq /\ seq[Index(seq, n)].name = n
         /\ At(seq, n) = seq[Index(seq, n)]
         /\ \A i \in DOMAIN seq : seq[i].name = n => i = Index(seq, n)
<1>1. \E i \in DOMAIN seq : seq[i].name = n
  BY DEF Names
<1>2. Index(seq, n) \in DOMAIN seq /\ seq[Index(seq, n)].name = n
  BY <1>1 DEF Index
<1>3. QED
  BY <1>2 DEF At, Index, Unique

\* What is found under a name is known from its position.
LEMMA FoundAt ==
  ASSUME NEW seq, Unique(seq), NEW i \in DOMAIN seq
  PROVE  seq[i].name \in Names(seq) /\ At(seq, seq[i].name) = seq[i]
<1>1. seq[i].name \in Names(seq)
  BY DEF Names
<1>2. i = Index(seq, seq[i].name)
  BY <1>1, AtIs
<1>3. QED
  BY <1>1, <1>2, AtIs

LEMMA Replaced ==
  ASSUME NEW seq, Unique(seq), NEW i \in DOMAIN seq, NEW x, x.name = seq[i].name,
         NEW new, DOMAIN new = DOMAIN seq, new[i] = x, \A j \in DOMAIN seq \ {i} : new[j] = seq[j]
  PROVE  /\ Unique(new) /\ Names(new) = Names(seq)
         /\ \A n \in Names(seq) : At(new, n) = IF n = x.name THEN x ELSE At(seq, n)
<1>2. \A j \in DOMAIN seq : new[j].name = seq[j].name
  OBVIOUS
<1>3. Unique(new) /\ Names(new) = Names(seq)
  BY <1>2 DEF Unique, Names
<1>4. ASSUME NEW n \in Names(seq) PROVE At(new, n) = IF n = x.name THEN x ELSE At(seq, n)
  <2>1. PICK j \in DOMAIN seq : seq[j].name = n
    BY DEF Names
  <2>2. At(seq, n) = seq[j] /\ At(new, n) = new[j]
    BY <1>2, <1>3, <2>1, FoundAt
  <2>3. n = x.name <=> j = i
    BY <2>1 DEF Unique
  <2>4. QED
    BY <2>2, <2>3
<1>5. QED
  BY <1>3, <1>4

LEMMA Appended ==
  ASSUME NEW T, NEW seq \in Seq(T), Unique(seq), NEW x \in T, x.name \notin Names(seq)
  PROVE  LET new == Append(seq, x)
         IN /\ new \in Seq(T) /\ Unique(new) /\ Names(new) = Names(seq) \cup {x.name}
            /\ \A n \in Names(new) : At(new, n) = IF n = x.name THEN x ELSE At(seq, n)
<1> DEFINE new == Append(seq, x)
<1>1. /\ new \in Seq(T) /\ DOMAIN new = 1..Len(seq) + 1 /\ DOMAIN seq = 1..Len(seq) /\ Len(seq) \in Nat
      /\ new[Len(seq) + 1] = x /\ \A j \in 1..Len(seq) : new[j] = seq[j]
  OBVIOUS
<1> HIDE DEF new
<1>2. \A j \in DOMAIN seq : seq[j].name # x.name
  BY DEF Names
<1>3. Unique(new)
  BY <1>1, <1>2 DEF Unique
<1>4. Names(new) = Names(seq) \cup {x.name}
  BY <1>1 DEF Names
<1>5. ASSUME NEW n \in Names(new) PROVE At(new, n) = IF n = x.name THEN x ELSE At(seq, n)
  <2>1. PICK j \in DOMAIN new : new[j].name = n
    BY DEF Names
  <2>2. At(new, n) = new[j]
    BY <1>3, <2>1, FoundAt
  <2>3. CASE j \in DOMAIN seq
    BY <1>1, <1>2, <2>1, <2>2, <2>3, FoundAt
  <2>4. CASE j = Len(seq) + 1
    BY <1>1, <2>1, <2>2, <2>4
  <2>5. QED
    BY <1>1, <2>3, <2>4
<1>6. QED
  BY <1>1, <1>3, <1>4, <1>5 DEF new

\* setParameter, SetSecret, SetPluginSpec.
LEMMA SetInIs ==
  ASSUME NEW T, NEW seq \in Seq(T), Unique(seq), NEW x \in T
  PROVE  /\ SetIn(seq, x) \in Seq(T) /\ Unique(SetIn(seq, x))
         /\ Names(SetIn(seq, x)) = Names(seq) \cup {x.name}
         /\ \A n \in Names(SetIn(seq, x)) : At(SetIn(seq, x), n) = IF n = x.name THEN x ELSE At(seq, n)
<1>1. CASE x.name \in Names(seq)
  <2> DEFINE i == Index(seq, x.name)
             new == [seq EXCEPT ![i] = x]
  <2>1. SetIn(seq, x) = new
    BY <1>1 DEF SetIn
  <2>2. i \in DOMAIN seq /\ seq[i].name = x.name
    BY <1>1, AtIs
  <2> HIDE DEF i
  <2>5. new \in Seq(T) /\ DOMAIN new = DOMAIN seq /\ new[i] = x /\ \A j \in DOMAIN seq \ {i} : new[j] = seq[j]
    BY <2>2
  <2> HIDE DEF new
  <2>3. /\ new \in Seq(T) /\ Unique(new) /\ Names(new) = Names(seq)
        /\ \A n \in Names(seq) : At(new, n) = IF n = x.name THEN x ELSE At(seq, n)
    BY <2>2, <2>5, Replaced
  <2>4. QED
    BY <1>1, <2>1, <2>3
<1>2. CASE x.name \notin Names(seq)
  <2>1. SetIn(seq, x) = Append(seq, x)
    BY <1>2 DEF SetIn
  <2>2. QED
    BY <1>2, <2>1, Appended
<1>3. QED
  BY <1>1, <1>2

LEMMA SecondPart ==
  ASSUME NEW S, NEW s \in Seq(S), NEW t \in Seq(S), NEW j \in 1..Len(s) + Len(t), j > Len(s)
  PROVE  (s \o t)[j] = t[j - Len(s)]
OBVIOUS

\* DeleteApplication: the others stay what they are.
LEMMA RemovedAt ==
  ASSUME NEW T, NEW seq \in Seq(T), NEW i \in DOMAIN seq
  PROVE  LET new == RemoveAt(seq, i)
         IN /\ new \in Seq(T) /\ DOMAIN new = 1..Len(seq) - 1
            /\ \A j \in DOMAIN new : new[j] = seq[IF j < i THEN j ELSE j + 1]
<1> DEFINE a == SubSeq(seq, 1, i - 1)
           b == SubSeq(seq, i + 1, Len(seq))
<1>1. i \in 1..Len(seq) /\ Len(seq) \in Nat
  OBVIOUS
<1>2. a \in Seq(T) /\ Len(a) = i - 1 /\ \A j \in 1..i - 1 : a[j] = seq[j]
  BY <1>1
<1>3. b \in Seq(T) /\ Len(b) = Len(seq) - i /\ \A j \in 1..Len(seq) - i : b[j] = seq[j + i]
  BY <1>1
<1>4. RemoveAt(seq, i) = a \o b
  BY DEF RemoveAt
<1> HIDE DEF a, b
<1>5. a \o b \in Seq(T) /\ DOMAIN (a \o b) = 1..Len(seq) - 1
  BY <1>1, <1>2, <1>3, SMTT(60)
<1>6. ASSUME NEW j \in 1..Len(seq) - 1 PROVE (a \o b)[j] = seq[IF j < i THEN j ELSE j + 1]
  <2>1. CASE j < i
    BY <1>1, <1>2, <1>3, <2>1
  <2>2. CASE ~(j < i)
    <3>0. j \in 1..Len(a) + Len(b) /\ j > Len(a) /\ Len(a) \in Nat /\ Len(b) \in Nat
      BY <1>1, <1>2, <1>3, <2>2, SMTT(60)
    <3>1. (a \o b)[j] = b[j - Len(a)]
      BY <1>2, <1>3, <3>0, SecondPart, ZenonT(60)
    <3>2. j - Len(a) \in 1..Len(seq) - i /\ (j - Len(a)) + i = j + 1
      BY <1>1, <1>2, <2>2
    <3>3. QED
      BY <1>1, <1>3, <2>2, <3>1, <3>2
  <2>3. QED
    BY <2>1, <2>2
<1>7. QED
  BY <1>4, <1>5, <1>6

LEMMA Deleted ==
  ASSUME NEW T, NEW seq \in Seq(T), Unique(seq), NEW n \in Names(seq)
  PROVE  LET new == RemoveAt(seq, Index(seq, n))
         IN /\ new \in Seq(T) /\ Unique(new) /\ Names(new) = Names(seq) \ {n}
            /\ \A m \in Names(new) : At(new, m) = At(seq, m)
            /\ \A j \in DOMAIN new : \E k \in DOMAIN seq : new[j] = seq[k]
<1> DEFINE i == Index(seq, n)
           new == RemoveAt(seq, i)
           From(j) == IF j < i THEN j ELSE j + 1
<1>1. i \in DOMAIN seq /\ seq[i].name = n
  BY AtIs
<1> HIDE DEF i
<1>2. /\ new \in Seq(T) /\ DOMAIN new = 1..Len(seq) - 1
      /\ \A j \in DOMAIN new : new[j] = seq[From(j)]
  BY <1>1, RemovedAt
<1> HIDE DEF new
<1>3. /\ \A j \in DOMAIN new : From(j) \in DOMAIN seq \ {i}
      /\ \A j, k \in DOMAIN new : From(j) = From(k) => j = k
      /\ \A k \in DOMAIN seq \ {i} : \E j \in DOMAIN new : From(j) = k
  <2>0. i \in 1..Len(seq) /\ Len(seq) \in Nat /\ DOMAIN seq = 1..Len(seq)
    BY <1>1
  <2>1. ASSUME NEW k \in DOMAIN seq \ {i} PROVE \E j \in DOMAIN new : From(j) = k
    <3>1. CASE k < i
      BY <1>2, <2>0, <3>1
    <3>2. CASE k > i
      <4>1. k - 1 \in DOMAIN new /\ From(k - 1) = k
        BY <1>2, <2>0, <3>2
      <4>2. QED
        BY <4>1
    <3>3. QED
      BY <2>0, <3>1, <3>2
  <2>2. QED
    BY <1>2, <2>0, <2>1
<1> HIDE DEF From
<1>4. Unique(new)
  BY <1>2, <1>3 DEF Unique
<1>5. Names(new) = Names(seq) \ {n}
  <2>1. ASSUME NEW j \in DOMAIN new PROVE new[j].name \in Names(seq) \ {n}
    BY <1>1, <1>2, <1>3 DEF Unique, Names
  <2>2. ASSUME NEW m \in Names(seq) \ {n} PROVE m \in Names(new)
    <3>1. PICK k \in DOMAIN seq : seq[k].name = m
      BY DEF Names
    <3>2. PICK j \in DOMAIN new : From(j) = k
      BY <1>1, <1>3, <3>1
    <3>3. QED
      BY <1>2, <3>1, <3>2 DEF Names
  <2>3. QED
    BY <2>1, <2>2 DEF Names
<1>6. ASSUME NEW m \in Names(new) PROVE At(new, m) = At(seq, m)
  <2>1. PICK j \in DOMAIN new : new[j].name = m
    BY DEF Names
  <2>2. From(j) \in DOMAIN seq /\ seq[From(j)] = new[j]
    BY <1>2, <1>3
  <2>3. QED
    BY <1>4, <2>1, <2>2, FoundAt
<1>7. \A j \in DOMAIN new : \E k \in DOMAIN seq : new[j] = seq[k]
  BY <1>2, <1>3
<1>8. QED
  BY <1>2, <1>4, <1>5, <1>6, <1>7 DEF new, i

-----------------------------------------------------------------------------
(* What the getters read *)

AppsOK(apps) ==
  /\ apps \in Seq(Applications) /\ Unique(apps)
  /\ \A i \in DOMAIN apps : Unique(apps[i].params) /\ (OverlaysOnce => IsInjective(apps[i].overlays))
PluginsOK(plugins)  == plugins \in Seq(Plugins) /\ Unique(plugins)
SecretsOnce(secrets) == secrets \in Seq(Secrets) /\ Unique(secrets)

\* The tables, as the lists mean them.
ParamTable(a)    == [p \in Names(a.params) |-> At(a.params, p).value]
Params(apps)     == [n \in Names(apps) |-> ParamTable(At(apps, n))]
Overlays(apps)   == [n \in Names(apps) |-> ToSet(At(apps, n).overlays)]
Specs(plugins)   == [k \in Names(plugins) |-> At(plugins, k).spec]
SourcesOf(secrets) == [n \in Names(secrets) |-> At(secrets, n).source]

MeantFields == {"params", "overlays", "plugins", "secrets"}
ReadInv ==
  /\ AppsOK(kfFile.apps) /\ PluginsOK(kfFile.plugins) /\ SecretsOnce(kfFile.secrets)
  /\ MeantFields \subseteq DOMAIN meant
  /\ conf # <<>> =>
       /\ {"apps", "plugins", "secrets"} \subseteq DOMAIN conf
       /\ AppsOK(conf.apps) /\ PluginsOK(conf.plugins) /\ SecretsOnce(conf.secrets)
       /\ meant.params = Params(conf.apps) /\ (OverlaysOnce => meant.overlays = Overlays(conf.apps))
       /\ meant.plugins = Specs(conf.plugins) /\ meant.secrets = SourcesOf(conf.secrets)

LEMMA MeaningIs ==
  ASSUME NEW c
  PROVE  /\ Meaning(c).params = Params(c.apps) /\ Meaning(c).overlays = Overlays(c.apps)
         /\ Meaning(c).plugins = Specs(c.plugins) /\ Meaning(c).secrets = SourcesOf(c.secrets)
BY DEF Meaning, Table, Params, ParamTable, Overlays, Specs, SourcesOf, Value, Spec, Source

LEMMA ReadInvRead == OverlaysOnce /\ ReadInv => SettingsRead
<1> SUFFICES ASSUME OverlaysOnce, ReadInv, conf # <<>> PROVE SettingsRead
  BY DEF SettingsRead, Running, NoCommand
<1>1. \A f \in {"params", "overlays", "plugins", "secrets"} : Meaning(conf)[f] = meant[f]
  BY MeaningIs DEF ReadInv
<1>2. QED
  BY <1>1 DEF ReadInv, SettingsRead, AppsOK, PluginsOK, SecretsOnce

\* setParameter on the application of that name.
LEMMA ParameterSet ==
  ASSUME NEW apps, AppsOK(apps), NEW a \in Names(apps), NEW p \in ParamNames, NEW v \in SettingValues
  PROVE  LET i == Index(apps, a)
             new == [apps EXCEPT ![i].params = SetIn(@, [name |-> p, value |-> v])]
         IN /\ AppsOK(new) /\ Overlays(new) = Overlays(apps)
            /\ Params(new) = [Params(apps) EXCEPT ![a] = With(@, p, v)]
<1> DEFINE Pairs == [name : ParamNames, value : SettingValues]
           i == Index(apps, a)
           par == [name |-> p, value |-> v]
           params == SetIn(apps[i].params, par)
           x == [apps[i] EXCEPT !.params = params]
           new == [apps EXCEPT ![i] = x]
<1>1. apps \in Seq(Applications) /\ Unique(apps)
  BY DEF AppsOK
<1>2. i \in DOMAIN apps /\ apps[i].name = a /\ At(apps, a) = apps[i] /\ apps[i] \in Applications
  BY <1>1, AtIs
<1> HIDE DEF i
<1>3. par \in Pairs /\ par.name = p /\ par.value = v
  OBVIOUS
<1> HIDE DEF par
<1>4. /\ params \in Seq(Pairs) /\ Unique(params)
      /\ Names(params) = Names(apps[i].params) \cup {p}
      /\ \A q \in Names(params) : At(params, q) = IF q = p THEN par ELSE At(apps[i].params, q)
  <2>1. apps[i].params \in Seq(Pairs) /\ Unique(apps[i].params)
    BY <1>2 DEF AppsOK, Applications
  <2> HIDE DEF Pairs
  <2>2. QED
    BY <1>3, <2>1, SetInIs
<1> HIDE DEF params
<1>5. x \in Applications /\ x.name = a /\ x.params = params /\ x.overlays = apps[i].overlays
  BY <1>2, <1>4 DEF Applications
<1> HIDE DEF x
<1>6. /\ new \in Seq(Applications) /\ Unique(new) /\ Names(new) = Names(apps)
      /\ \A n \in Names(apps) : At(new, n) = IF n = a THEN x ELSE At(apps, n)
  <2>1. /\ new \in Seq(Applications) /\ DOMAIN new = DOMAIN apps /\ new[i] = x
        /\ \A j \in DOMAIN apps \ {i} : new[j] = apps[j]
    BY <1>1, <1>2, <1>5
  <2> HIDE DEF new
  <2>2. x.name = apps[i].name
    BY <1>2, <1>5
  <2>3. QED
    BY <1>1, <1>2, <1>5, <2>1, <2>2, Replaced
<1>7. \A j \in DOMAIN new : j \in DOMAIN apps /\ new[j] = IF j = i THEN x ELSE apps[j]
  BY <1>1, <1>2
<1> HIDE DEF new
<1>8. AppsOK(new)
  BY <1>2, <1>4, <1>5, <1>6, <1>7 DEF AppsOK
<1>9. Overlays(new) = Overlays(apps)
  BY <1>2, <1>5, <1>6 DEF Overlays
<1>10. ParamTable(x) = With(ParamTable(apps[i]), p, v)
  BY <1>3, <1>4, <1>5 DEF ParamTable, With
<1>11. Params(new) = [Params(apps) EXCEPT ![a] = With(@, p, v)]
  <2> DEFINE T == With(ParamTable(apps[i]), p, v)
  <2>1. Params(apps)[a] = ParamTable(apps[i])
    BY <1>2 DEF Params
  <2>2. Params(new) = [n \in Names(apps) |-> IF n = a THEN T ELSE ParamTable(At(apps, n))]
    BY <1>6, <1>10 DEF Params
  <2> HIDE DEF T
  <2>3. Params(new) = [Params(apps) EXCEPT ![a] = T]
    BY <2>2 DEF Params
  <2>4. QED
    BY <2>1, <2>3 DEF T
<1>12. new = [apps EXCEPT ![i].params = SetIn(@, par)]
  BY DEF new, x, params
<1>13. QED
  BY <1>8, <1>9, <1>11, <1>12 DEF i, par

\* RemoveApplicationOverlay: nothing is left of an overlay that is listed once.
LEMMA OverlayRemoved ==
  ASSUME NEW overlays \in Seq(OverlayNames), NEW o
  PROVE  /\ RemoveOverlay(overlays, o) \in Seq(OverlayNames)
         /\ IsInjective(overlays) =>
              /\ IsInjective(RemoveOverlay(overlays, o))
              /\ ToSet(RemoveOverlay(overlays, o)) = ToSet(overlays) \ {o}
<1>1. CASE o \notin ToSet(overlays)
  BY <1>1 DEF RemoveOverlay
<1>2. CASE o \in ToSet(overlays)
  <2> DEFINE Is(i) == overlays[i] = o /\ \A j \in i + 1..Len(overlays) : overlays[j] # o
             i == CHOOSE k \in DOMAIN overlays : Is(k)
             new == RemoveAt(overlays, i)
             From(j) == IF j < i THEN j ELSE j + 1
  <2>1. \E k \in DOMAIN overlays : Is(k)
    <3> DEFINE T == {k \in 1..Len(overlays) : overlays[k] = o}
    <3>1. T \in SUBSET (1..Len(overlays)) /\ T # {}
      BY <1>2 DEF ToSet
    <3> HIDE DEF T
    <3>2. PICK k \in T : \A j \in T : j <= k
      BY <3>1, Largest, Len(overlays) \in Nat
    <3> USE DEF T
    <3>3. ASSUME NEW j \in k + 1..Len(overlays) PROVE overlays[j] # o
      BY <3>2
    <3>4. QED
      BY <3>2, <3>3
  <2>2. i \in DOMAIN overlays /\ overlays[i] = o
    BY <2>1
  <2>3. RemoveOverlay(overlays, o) = new
    BY <1>2 DEF RemoveOverlay
  <2> HIDE DEF i
  <2>4. /\ new \in Seq(OverlayNames) /\ DOMAIN new = 1..Len(overlays) - 1
        /\ \A j \in DOMAIN new : new[j] = overlays[From(j)]
    BY <2>2, RemovedAt
  <2> HIDE DEF new
  <2>5. /\ \A j \in DOMAIN new : From(j) \in DOMAIN overlays \ {i}
        /\ \A j, k \in DOMAIN new : From(j) = From(k) => j = k
        /\ \A k \in DOMAIN overlays \ {i} : \E j \in DOMAIN new : From(j) = k
    <3>0. i \in 1..Len(overlays) /\ Len(overlays) \in Nat /\ DOMAIN overlays = 1..Len(overlays)
      BY <2>2
    <3>1. ASSUME NEW k \in DOMAIN overlays \ {i} PROVE \E j \in DOMAIN new : From(j) = k
      <4>1. CASE k < i
        BY <2>4, <3>0, <4>1
      <4>2. CASE k > i
        <5>1. k - 1 \in DOMAIN new /\ From(k - 1) = k
          BY <2>4, <3>0, <4>2
        <5>2. QED
          BY <5>1
      <4>3. QED
        BY <3>0, <4>1, <4>2
    <3>2. QED
      BY <2>4, <3>0, <3>1
  <2> HIDE DEF From
  <2>6. IsInjective(overlays) => IsInjective(new)
    BY <2>4, <2>5 DEF IsInjective
  <2>7. ASSUME IsInjective(overlays) PROVE ToSet(new) = ToSet(overlays) \ {o}
    <3>1. ASSUME NEW y \in ToSet(new) PROVE y \in ToSet(overlays) \ {o}
      BY <2>2, <2>4, <2>5, <2>7 DEF ToSet, IsInjective
    <3>2. ASSUME NEW y \in ToSet(overlays) \ {o} PROVE y \in ToSet(new)
      <4>1. PICK k \in DOMAIN overlays : overlays[k] = y
        BY DEF ToSet
      <4>2. PICK j \in DOMAIN new : From(j) = k
        BY <2>2, <2>5, <4>1
      <4>3. QED
        BY <2>4, <4>1, <4>2 DEF ToSet
    <3>3. QED
      BY <3>1, <3>2
  <2>8. QED
    BY <2>3, <2>4, <2>6, <2>7
<1>3. QED
  BY <1>1, <1>2

LEMMA OverlaySet ==
  ASSUME NEW apps, AppsOK(apps), NEW a \in Names(apps), NEW o \in OverlayNames, NEW add \in BOOLEAN
  PROVE  LET i == Index(apps, a)
             new == [apps EXCEPT ![i].overlays = IF add THEN AddOverlay(@, o) ELSE RemoveOverlay(@, o)]
         IN /\ AppsOK(new) /\ Params(new) = Params(apps)
            /\ OverlaysOnce =>
                 Overlays(new) = [Overlays(apps) EXCEPT ![a] = IF add THEN @ \cup {o} ELSE @ \ {o}]
<1> DEFINE i == Index(apps, a)
           overlays == IF add THEN AddOverlay(apps[i].overlays, o) ELSE RemoveOverlay(apps[i].overlays, o)
           x == [apps[i] EXCEPT !.overlays = overlays]
           new == [apps EXCEPT ![i] = x]
           Set(s) == IF add THEN s \cup {o} ELSE s \ {o}
<1>1. apps \in Seq(Applications) /\ Unique(apps)
  BY DEF AppsOK
<1>2. i \in DOMAIN apps /\ apps[i].name = a /\ At(apps, a) = apps[i] /\ apps[i] \in Applications
  BY <1>1, AtIs
<1> HIDE DEF i
<1>4. /\ overlays \in Seq(OverlayNames)
      /\ OverlaysOnce => IsInjective(overlays) /\ ToSet(overlays) = Set(ToSet(apps[i].overlays))
  <2>1. /\ apps[i].overlays \in Seq(OverlayNames)
        /\ OverlaysOnce => IsInjective(apps[i].overlays)
    BY <1>2 DEF AppsOK, Applications
  <2>2. CASE add
    <3>1. overlays = Added(apps[i].overlays, o)
      BY <2>2 DEF AddOverlay, Added
    <3> HIDE DEF overlays
    <3>2. ASSUME OverlaysOnce PROVE IsInjective(overlays) /\ ToSet(overlays) = Set(ToSet(apps[i].overlays))
      BY <2>1, <2>2, <3>1, <3>2, AddOnce
    <3>3. overlays \in Seq(OverlayNames)
      BY <2>1, <3>1 DEF Added
    <3>4. QED
      BY <3>2, <3>3
  <2>3. CASE ~add
    <3>1. overlays = RemoveOverlay(apps[i].overlays, o)
      BY <2>3
    <3> HIDE DEF overlays
    <3>2. QED
      BY <2>1, <2>3, <3>1, OverlayRemoved
  <2>4. QED
    BY <2>2, <2>3
<1> HIDE DEF overlays
<1>5. x \in Applications /\ x.name = a /\ x.overlays = overlays /\ x.params = apps[i].params
  BY <1>2, <1>4 DEF Applications
<1> HIDE DEF x
<1>6. /\ new \in Seq(Applications) /\ Unique(new) /\ Names(new) = Names(apps)
      /\ \A n \in Names(apps) : At(new, n) = IF n = a THEN x ELSE At(apps, n)
  <2>1. /\ new \in Seq(Applications) /\ DOMAIN new = DOMAIN apps /\ new[i] = x
        /\ \A j \in DOMAIN apps \ {i} : new[j] = apps[j]
    BY <1>1, <1>2, <1>5
  <2> HIDE DEF new
  <2>2. x.name = apps[i].name
    BY <1>2, <1>5
  <2>3. QED
    BY <1>1, <1>2, <1>5, <2>1, <2>2, Replaced
<1>7. \A j \in DOMAIN new : j \in DOMAIN apps /\ new[j] = IF j = i THEN x ELSE apps[j]
  BY <1>1, <1>2
<1> HIDE DEF new
<1>8. AppsOK(new)
  BY <1>2, <1>4, <1>5, <1>6, <1>7 DEF AppsOK
<1>9. Params(new) = Params(apps)
  BY <1>2, <1>5, <1>6 DEF Params, ParamTable
<1>11. ASSUME OverlaysOnce PROVE Overlays(new) = [Overlays(apps) EXCEPT ![a] = Set(@)]
  <2> DEFINE T == Set(ToSet(apps[i].overlays))
  <2>1. Overlays(apps)[a] = ToSet(apps[i].overlays)
    BY <1>2 DEF Overlays
  <2>2. ToSet(x.overlays) = T
    BY <1>4, <1>5, <1>11
  <2>3. Overlays(new) = [n \in Names(apps) |-> IF n = a THEN ToSet(x.overlays) ELSE ToSet(At(apps, n).overlays)]
    BY <1>6 DEF Overlays
  <2> HIDE DEF T
  <2>4. Overlays(new) = [Overlays(apps) EXCEPT ![a] = T]
    BY <2>2, <2>3 DEF Overlays
  <2>5. QED
    BY <2>1, <2>4 DEF T
<1>12. new = [apps EXCEPT ![i].overlays = IF add THEN AddOverlay(@, o) ELSE RemoveOverlay(@, o)]
  BY DEF new, x, overlays
<1>13. QED
  BY <1>8, <1>9, <1>11, <1>12 DEF i

LEMMA ApplicationDeleted ==
  ASSUME NEW apps, AppsOK(apps), NEW a \in Names(apps)
  PROVE  LET new == RemoveAt(apps, Index(apps, a))
         IN /\ AppsOK(new) /\ Params(new) = Without(Params(apps), a)
            /\ Overlays(new) = Without(Overlays(apps), a)
<1> DEFINE new == RemoveAt(apps, Index(apps, a))
<1>1. apps \in Seq(Applications) /\ Unique(apps)
  BY DEF AppsOK
<1>2. /\ new \in Seq(Applications) /\ Unique(new) /\ Names(new) = Names(apps) \ {a}
      /\ \A m \in Names(new) : At(new, m) = At(apps, m)
      /\ \A j \in DOMAIN new : \E k \in DOMAIN apps : new[j] = apps[k]
  BY <1>1, Deleted
<1> HIDE DEF new
<1>3. AppsOK(new)
  BY <1>2 DEF AppsOK
<1>4. Params(new) = Without(Params(apps), a) /\ Overlays(new) = Without(Overlays(apps), a)
  BY <1>2 DEF Params, Overlays, Without
<1>5. QED
  BY <1>3, <1>4 DEF new

\* What a command writes keeps the names and, of the secrets, the types.
LEMMA MaskedOnce ==
  ASSUME NEW secrets, SecretsOnce(secrets) PROVE SecretsOnce(MaskedAll(secrets))
<1> DEFINE m == MaskedAll(secrets)
<1>1. m \in Seq(Secrets) /\ DOMAIN m = DOMAIN secrets
  BY MaskedSeq DEF SecretsOnce
<1>2. \A i \in DOMAIN secrets : m[i].name = secrets[i].name
  <2>1. ASSUME NEW i \in DOMAIN secrets PROVE m[i].name = secrets[i].name
    <3>1. m[i] = Masked(secrets[i]) /\ secrets[i] \in Secrets
      BY DEF MaskedAll, SecretsOnce
    <3>2. Masked(secrets[i]).name = secrets[i].name
      BY <3>1 DEF Masked, Secrets
    <3>3. QED
      BY <3>1, <3>2
  <2>2. QED
    BY <2>1
<1> HIDE DEF m
<1>3. Unique(m)
  BY <1>1, <1>2 DEF SecretsOnce, Unique
<1>4. QED
  BY <1>1, <1>3 DEF m, SecretsOnce

\* SetPluginSpec and SetSecret.
LEMMA PluginSet ==
  ASSUME NEW plugins, PluginsOK(plugins), NEW k \in Platforms, NEW v \in SettingValues
  PROVE  LET new == SetIn(plugins, [name |-> k, spec |-> v])
         IN PluginsOK(new) /\ Specs(new) = With(Specs(plugins), k, v)
<1> DEFINE x == [name |-> k, spec |-> v]
           new == SetIn(plugins, x)
<1>1. x \in Plugins /\ x.name = k /\ x.spec = v
  BY DEF Plugins
<1> HIDE DEF x
<1>2. /\ new \in Seq(Plugins) /\ Unique(new) /\ Names(new) = Names(plugins) \cup {k}
      /\ \A n \in Names(new) : At(new, n) = IF n = k THEN x ELSE At(plugins, n)
  BY <1>1, SetInIs DEF PluginsOK
<1> HIDE DEF new
<1>3. Specs(new) = With(Specs(plugins), k, v)
  BY <1>1, <1>2 DEF Specs, With
<1>4. QED
  BY <1>2, <1>3 DEF PluginsOK, new, x

LEMMA SecretSet ==
  ASSUME NEW secrets, SecretsOnce(secrets), NEW n \in SecretNames, NEW src \in SetSources
  PROVE  LET new == SetIn(secrets, [name |-> n, source |-> src])
         IN SecretsOnce(new) /\ SourcesOf(new) = With(SourcesOf(secrets), n, src)
<1> DEFINE x == [name |-> n, source |-> src]
           new == SetIn(secrets, x)
<1>1. x \in Secrets /\ x.name = n /\ x.source = src
  <2>1. src \in Sources
    BY DEF Sources
  <2>2. QED
    BY <2>1 DEF Secrets
<1> HIDE DEF x
<1>2. /\ new \in Seq(Secrets) /\ Unique(new) /\ Names(new) = Names(secrets) \cup {n}
      /\ \A m \in Names(new) : At(new, m) = IF m = n THEN x ELSE At(secrets, m)
  BY <1>1, SetInIs DEF SecretsOnce
<1> HIDE DEF new
<1>3. SourcesOf(new) = With(SourcesOf(secrets), n, src)
  BY <1>1, <1>2 DEF SourcesOf, With
<1>4. QED
  BY <1>2, <1>3 DEF SecretsOnce, new, x

LEMMA LegacySetRead ==
  ASSUME ReadInv, conf # <<>>, UNCHANGED kfFile,
         NEW a \in StackApps, NEW p \in ParamNames, NEW v \in SettingValues, LegacySetParameter(a, p, v)
  PROVE  ReadInv'
<1>1. CASE a \in Names(conf.apps)
  <2> DEFINE i == Index(conf.apps, a)
             apps == [conf.apps EXCEPT ![i].params = SetIn(@, [name |-> p, value |-> v])]
             params == [meant.params EXCEPT ![a] = With(@, p, v)]
  <2>1. /\ conf' = [conf EXCEPT !.apps = apps] /\ meant' = [meant EXCEPT !.params = params]
    BY <1>1 DEF LegacySetParameter
  <2>2. /\ AppsOK(conf.apps) /\ meant.params = Params(conf.apps)
        /\ OverlaysOnce => meant.overlays = Overlays(conf.apps)
    BY DEF ReadInv
  <2>3. AppsOK(apps) /\ Overlays(apps) = Overlays(conf.apps) /\ Params(apps) = params
    BY <1>1, <2>2, ParameterSet
  <2> HIDE DEF apps, params
  <2>4. /\ conf'.apps = apps /\ conf'.plugins = conf.plugins /\ conf'.secrets = conf.secrets
        /\ DOMAIN conf' = DOMAIN conf
    BY <2>1 DEF ReadInv
  <2>5. /\ meant'.params = params /\ meant'.overlays = meant.overlays /\ meant'.plugins = meant.plugins
        /\ meant'.secrets = meant.secrets /\ DOMAIN meant' = DOMAIN meant
    BY <2>1 DEF ReadInv, MeantFields
  <2>6. QED
    BY <2>2, <2>3, <2>4, <2>5 DEF ReadInv
<1>2. CASE a \notin Names(conf.apps)
  BY <1>2 DEF LegacySetParameter, ReadInv
<1>3. QED
  BY <1>1, <1>2

LEMMA DeleteRead ==
  ASSUME ReadInv, NEW a \in StackApps, DeleteApplication(a) PROVE ReadInv'
<1>0. conf # <<>> /\ UNCHANGED kfFile
  BY DEF DeleteApplication, Running, NoCommand
<1>1. CASE a \in Names(conf.apps)
  <2> DEFINE apps == RemoveAt(conf.apps, Index(conf.apps, a))
             params == Without(meant.params, a)
             overlays == Without(meant.overlays, a)
  <2>1. /\ conf' = [conf EXCEPT !.apps = apps]
        /\ meant' = [meant EXCEPT !.params = params, !.overlays = overlays]
    BY <1>1 DEF DeleteApplication
  <2>2. /\ AppsOK(conf.apps) /\ meant.params = Params(conf.apps)
        /\ OverlaysOnce => meant.overlays = Overlays(conf.apps)
    BY <1>0 DEF ReadInv
  <2>3. AppsOK(apps) /\ (OverlaysOnce => Overlays(apps) = overlays) /\ Params(apps) = params
    BY <1>1, <2>2, ApplicationDeleted
  <2> HIDE DEF apps, params, overlays
  <2>4. /\ conf'.apps = apps /\ conf'.plugins = conf.plugins /\ conf'.secrets = conf.secrets
        /\ DOMAIN conf' = DOMAIN conf
    BY <1>0, <2>1 DEF ReadInv
  <2>5. /\ meant'.params = params /\ meant'.overlays = overlays /\ meant'.plugins = meant.plugins
        /\ meant'.secrets = meant.secrets /\ DOMAIN meant' = DOMAIN meant
    BY <2>1 DEF ReadInv, MeantFields
  <2>6. QED
    BY <1>0, <2>2, <2>3, <2>4, <2>5 DEF ReadInv
<1>2. CASE a \notin Names(conf.apps)
  BY <1>0, <1>2 DEF DeleteApplication, ReadInv
<1>3. QED
  BY <1>1, <1>2

LEMMA OverlayRead ==
  ASSUME ReadInv, NEW a \in StackApps, NEW o \in OverlayNames, NEW add \in BOOLEAN, SetOverlay(a, o, add)
  PROVE  ReadInv'
<1>0. conf # <<>> /\ UNCHANGED kfFile
  BY DEF SetOverlay, Running, NoCommand
<1>1. CASE a \in Names(conf.apps)
  <2> DEFINE i == Index(conf.apps, a)
             apps == [conf.apps EXCEPT ![i].overlays = IF add THEN AddOverlay(@, o) ELSE RemoveOverlay(@, o)]
             overlays == [meant.overlays EXCEPT ![a] = IF add THEN @ \cup {o} ELSE @ \ {o}]
  <2>1. conf' = [conf EXCEPT !.apps = apps] /\ meant' = [meant EXCEPT !.overlays = overlays]
    BY <1>1 DEF SetOverlay
  <2>2. /\ AppsOK(conf.apps) /\ meant.params = Params(conf.apps)
        /\ OverlaysOnce => meant.overlays = Overlays(conf.apps)
    BY <1>0 DEF ReadInv
  <2>3. AppsOK(apps) /\ (OverlaysOnce => Overlays(apps) = overlays) /\ Params(apps) = meant.params
    <3>1. /\ AppsOK(apps) /\ Params(apps) = Params(conf.apps)
          /\ OverlaysOnce => Overlays(apps) = [Overlays(conf.apps) EXCEPT ![a] = IF add THEN @ \cup {o} ELSE @ \ {o}]
      BY <1>1, <2>2, OverlaySet
    <3>2. OverlaysOnce => Overlays(apps) = overlays
      <4> HIDE DEF apps
      <4>1. QED
        BY <2>2, <3>1
    <3>3. QED
      BY <2>2, <3>1, <3>2
  <2> HIDE DEF apps, overlays
  <2>4. /\ conf'.apps = apps /\ conf'.plugins = conf.plugins /\ conf'.secrets = conf.secrets
        /\ DOMAIN conf' = DOMAIN conf
    BY <1>0, <2>1 DEF ReadInv
  <2>5. /\ meant'.params = meant.params /\ meant'.overlays = overlays /\ meant'.plugins = meant.plugins
        /\ meant'.secrets = meant.secrets /\ DOMAIN meant' = DOMAIN meant
    BY <2>1 DEF ReadInv, MeantFields
  <2>6. QED
    BY <1>0, <2>2, <2>3, <2>4, <2>5 DEF ReadInv
<1>2. CASE a \notin Names(conf.apps)
  BY <1>0, <1>2 DEF SetOverlay, ReadInv
<1>3. QED
  BY <1>1, <1>2

LEMMA PluginRead ==
  ASSUME ReadInv, NEW k \in Platforms, NEW v \in SettingValues, SetPluginSpec(k, v) PROVE ReadInv'
<1> DEFINE plugins == SetIn(conf.plugins, [name |-> k, spec |-> v])
           specs == With(meant.plugins, k, v)
<1>1. /\ conf # <<>> /\ UNCHANGED kfFile
      /\ conf' = [conf EXCEPT !.plugins = plugins] /\ meant' = [meant EXCEPT !.plugins = specs]
  BY DEF SetPluginSpec, Running, NoCommand
<1>2. PluginsOK(plugins) /\ Specs(plugins) = specs
  <2>1. PluginsOK(conf.plugins) /\ meant.plugins = Specs(conf.plugins)
    BY <1>1 DEF ReadInv
  <2>2. QED
    BY <2>1, PluginSet
<1> HIDE DEF plugins, specs
<1>3. /\ conf'.apps = conf.apps /\ conf'.plugins = plugins /\ conf'.secrets = conf.secrets
      /\ DOMAIN conf' = DOMAIN conf
  BY <1>1 DEF ReadInv
<1>4. /\ meant'.params = meant.params /\ meant'.overlays = meant.overlays /\ meant'.plugins = specs
      /\ meant'.secrets = meant.secrets /\ DOMAIN meant' = DOMAIN meant
  BY <1>1 DEF ReadInv, MeantFields
<1>5. QED
  BY <1>1, <1>2, <1>3, <1>4 DEF ReadInv

LEMMA SecretRead ==
  ASSUME ReadInv, NEW n \in SecretNames, NEW src \in SetSources, SetSecret(n, src) PROVE ReadInv'
<1> DEFINE secrets == SetIn(conf.secrets, [name |-> n, source |-> src])
           sources == With(meant.secrets, n, src)
<1>1. /\ conf # <<>> /\ UNCHANGED kfFile
      /\ conf' = [conf EXCEPT !.secrets = secrets] /\ meant' = [meant EXCEPT !.secrets = sources]
  BY DEF SetSecret, PutSecret, Running, NoCommand
<1>2. SecretsOnce(secrets) /\ SourcesOf(secrets) = sources
  <2>1. SecretsOnce(conf.secrets) /\ meant.secrets = SourcesOf(conf.secrets)
    BY <1>1 DEF ReadInv
  <2>2. QED
    BY <2>1, SecretSet
<1> HIDE DEF secrets, sources
<1>3. /\ conf'.apps = conf.apps /\ conf'.plugins = conf.plugins /\ conf'.secrets = secrets
      /\ DOMAIN conf' = DOMAIN conf
  BY <1>1 DEF ReadInv
<1>4. /\ meant'.params = meant.params /\ meant'.overlays = meant.overlays /\ meant'.plugins = meant.plugins
      /\ meant'.secrets = sources /\ DOMAIN meant' = DOMAIN meant
  BY <1>1 DEF ReadInv, MeantFields
<1>5. QED
  BY <1>1, <1>2, <1>3, <1>4 DEF ReadInv

LEMMA LoadRead == ReadInv /\ LoadSettings => ReadInv'
<1> SUFFICES ASSUME ReadInv, LoadSettings PROVE ReadInv'
  OBVIOUS
<1> DEFINE c == LoadKfConfig(kfFile)
           m == Meaning(c)
<1>1. c.apps = kfFile.apps /\ c.plugins = kfFile.plugins /\ c.secrets = kfFile.secrets
      /\ {"apps", "plugins", "secrets"} \subseteq DOMAIN c
  BY DEF LoadKfConfig
<1>2. /\ m.params = Params(c.apps) /\ m.overlays = Overlays(c.apps)
      /\ m.plugins = Specs(c.plugins) /\ m.secrets = SourcesOf(c.secrets)
  BY MeaningIs
<1>3. /\ conf' = c /\ UNCHANGED kfFile
      /\ meant' = [meant EXCEPT !.params = m.params, !.overlays = m.overlays,
                                !.plugins = m.plugins, !.secrets = m.secrets]
  BY DEF LoadSettings
<1> HIDE DEF m, c
<1>4. /\ meant'.params = m.params /\ meant'.overlays = m.overlays /\ meant'.plugins = m.plugins
      /\ meant'.secrets = m.secrets /\ DOMAIN meant' = DOMAIN meant
  BY <1>3 DEF ReadInv, MeantFields
<1>5. QED
  BY <1>1, <1>2, <1>3, <1>4 DEF ReadInv

LEMMA ReadStepInv == ReadInv /\ SettingStep => ReadInv'
<1> SUFFICES ASSUME ReadInv, SettingStep PROVE ReadInv'
  OBVIOUS
<1>1. CASE LoadSettings
  BY <1>1, LoadRead
<1>2. CASE WriteSettings
  <2>1. kfFile' = LoadKfDef(conf) /\ conf # <<>> /\ UNCHANGED <<conf, meant>>
    BY <1>2 DEF WriteSettings, Running, NoCommand
  <2> DEFINE secrets == MaskedAll(conf.secrets)
  <2>2. kfFile' = [apps |-> conf.apps, plugins |-> conf.plugins, secrets |-> secrets]
    BY <2>1, LoadKfDefIs
  <2>3. SecretsOnce(secrets)
    BY <2>1, MaskedOnce DEF ReadInv
  <2> HIDE DEF secrets
  <2>4. kfFile'.apps = conf.apps /\ kfFile'.plugins = conf.plugins /\ kfFile'.secrets = secrets
    BY <2>2
  <2>5. QED
    BY <2>1, <2>3, <2>4 DEF ReadInv
<1>3. CASE EndSettings \/ StopSettings
  BY <1>3 DEF EndSettings, StopSettings, NoCommand, ReadInv
<1>4. CASE WriteConfigMap
  <2> DEFINE stack == With(meant.stack, <<setting[1], setting[2]>>, setting[3])
  <2>1. UNCHANGED <<kfFile, conf>> /\ meant' = [meant EXCEPT !.stack = stack]
    BY <1>4 DEF WriteConfigMap
  <2> HIDE DEF stack
  <2>2. /\ meant'.params = meant.params /\ meant'.overlays = meant.overlays /\ meant'.plugins = meant.plugins
        /\ meant'.secrets = meant.secrets /\ DOMAIN meant' = DOMAIN meant
    BY <2>1 DEF ReadInv, MeantFields
  <2>3. QED
    BY <2>1, <2>2 DEF ReadInv
<1>5. ASSUME NEW a \in StackApps, GenerateStack(a) PROVE ReadInv'
  BY <1>5 DEF GenerateStack, ReadInv
<1>6. ASSUME NEW a \in StackApps, NEW p \in ParamNames, NEW v \in SettingValues, SetApplicationParameter(a, p, v)
      PROVE  ReadInv'
  <2>1. conf # <<>> /\ UNCHANGED kfFile
    BY <1>6 DEF SetApplicationParameter, Running, NoCommand
  <2>2. LegacySetParameter(a, p, v) \/ UNCHANGED <<conf, meant>>
    BY <1>6 DEF SetApplicationParameter
  <2>3. CASE LegacySetParameter(a, p, v)
    BY <2>1, <2>3, LegacySetRead
  <2>4. CASE UNCHANGED <<conf, meant>>
    BY <2>1, <2>4 DEF ReadInv
  <2>5. QED
    BY <2>2, <2>3, <2>4
<1>7. QED
  BY <1>1, <1>2, <1>3, <1>4, <1>5, <1>6, DeleteRead, OverlayRead, PluginRead, SecretRead DEF SettingStep, StackApps

LEMMA ReadAlways == ConfigurationSpec => []ReadInv
<1>1. ConfigurationInit => ReadInv
  <2> SUFFICES ASSUME ConfigurationInit PROVE ReadInv
    OBVIOUS
  <2>1. /\ kfFile \in KfDefFiles /\ conf = <<>>
        /\ meant = [params |-> <<>>, overlays |-> <<>>, plugins |-> <<>>, secrets |-> <<>>, stack |-> <<>>]
    BY DEF ConfigurationInit, SettingInit, NoCommand
  <2>2. MeantFields \subseteq DOMAIN meant
    BY <2>1 DEF MeantFields
  <2>3. AppsOK(kfFile.apps)
    <3>1. kfFile.apps \in Seq(Applications) /\ Unique(kfFile.apps) /\ \A a \in ToSet(kfFile.apps) : Unique(a.params)
      BY <2>1, SettingAssumption
    <3>2. QED
      BY <2>1, <3>1 DEF AppsOK, OverlaysOnce, ToSet
  <2>4. PluginsOK(kfFile.plugins) /\ SecretsOnce(kfFile.secrets)
    BY <2>1, SettingAssumption DEF PluginsOK, SecretsOnce
  <2>5. QED
    BY <2>1, <2>2, <2>3, <2>4 DEF ReadInv
<1>2. ReadInv /\ [ConfigurationNext]_configurationVars => ReadInv'
  <2> SUFFICES ASSUME ReadInv, [ConfigurationNext]_configurationVars PROVE ReadInv'
    OBVIOUS
  <2>1. CASE SettingStep
    BY <2>1, ReadStepInv
  <2>2. CASE UNCHANGED settingVars
    BY <2>2 DEF settingVars, ReadInv
  <2>3. QED
    BY <2>1, <2>2 DEF ConfigurationNext, configurationVars
<1>3. QED
  BY <1>1, <1>2, PTL DEF ConfigurationSpec

\* Through any sequence of settings, what a getter reads is what was set last for
\* that name, and settings of other names have not changed it, if no file of the
\* user lists an overlay twice (the setters and getters of KfConfig, types.go).
THEOREM SettingsAreRead == OverlaysOnce /\ ConfigurationSpec => []SettingsRead
<1> SUFFICES ASSUME OverlaysOnce PROVE ConfigurationSpec => []SettingsRead
  OBVIOUS
<1>1. ReadInv => SettingsRead
  BY ReadInvRead
<1>2. QED
  BY <1>1, ReadAlways, PTL

-----------------------------------------------------------------------------
(* The images: what names stand for *)

\* A name is used for an original, by some entry of the manifests that has it.
CalledFor(x, o) == \E r \in Entries : Original(r) = o /\ x \in ImagesOf(r)

LEMMA CalledForIs ==
  ASSUME NEW x, NEW o, CalledFor(x, o)
  PROVE  x.tag = o.tag /\ x.digest = o.digest /\ o \in Originals
<1>1. PICK r \in Entries : Original(r) = o /\ x \in ImagesOf(r)
  BY DEF CalledFor
<1>2. x.tag = r.tag /\ x.digest = r.digest
  <2>1. Original(r) = Image(CurName(r), r)
    BY DEF Original, Image, CurName
  <2>2. \E n : x = Image(n, r)
    BY <1>1, <2>1 DEF ImagesOf, TargetsOf, CopyOf
  <2>3. QED
    BY <2>2 DEF Image
<1>3. QED
  BY <1>1, <1>2 DEF Original, Originals

LEMMA OneOriginal ==
  ASSUME Unambiguous, NEW x, NEW o, NEW u, CalledFor(x, o), CalledFor(x, u) PROVE o = u
BY DEF Unambiguous, CalledFor

LEMMA EntryCalled ==
  ASSUME NEW r \in Entries
  PROVE  /\ CalledFor(Original(r), Original(r))
         /\ \A t \in TargetsOf(r) : CalledFor(t, Original(r))
         /\ \A p \in Patterns : /\ CopyOf(p, r) \in TargetsOf(r)
                                /\ CalledFor(Image(DropVersion(CopyOf(p, r)), r), Original(r))
<1>1. \A x \in ImagesOf(r) : CalledFor(x, Original(r))
  BY DEF CalledFor
<1>2. QED
  BY <1>1 DEF ImagesOf, TargetsOf

\* An entry of a kustomization comes from one of the manifests, and is called by a
\* name of the original it stands for.
IsEntry(e) ==
  /\ "to" \in DOMAIN e
  /\ \E r \in Entries : /\ e.name = r.name /\ e.tag = r.tag /\ e.digest = r.digest
                        /\ e.orig = Original(r)
  /\ CalledFor(Image(CurName(e), e), e.orig)

TreeOK == DOMAIN tree = ImageDirs /\ \A d \in ImageDirs : \A i \in DOMAIN tree[d] : IsEntry(tree[d][i])
RegistryOK == \A x \in DOMAIN registry : CalledFor(x, registry[x])
\* The pipeline makes copies of what stands for the same original.
FileOK ==
  \A n \in DOMAIN file : \E r \in Entries, p \in Patterns :
    n = CopyOf(p, r) /\ CalledFor(file[n], Original(r))
PrintedOK == \A t \in printed : \E o \in Originals : CalledFor(t[1], o) /\ CalledFor(t[2], o)
\* While a command runs, the pipeline is the one it has read.
ToolOK ==
  /\ gone \subseteq ImageDirs /\ todo \subseteq ImageDirs
  /\ tool \in {"none", "overwrite", "names"}
  /\ (tool = "none") = (todo = {})
  /\ tool = "overwrite" =>
       /\ todo \subseteq Walked
       /\ \A o \in DOMAIN mapping : mapping[o] \in DOMAIN file /\ file[mapping[o]] = o
NamesInv == TreeOK /\ RegistryOK /\ FileOK /\ PrintedOK /\ ToolOK

LEMMA NamesContent == Unambiguous /\ NamesInv => ContentAgrees
<1> SUFFICES ASSUME Unambiguous, NamesInv, NEW d \in ImageDirs, NEW e \in ToSet(tree[d]),
                    Image(CurName(e), e) \in DOMAIN registry
             PROVE  registry[Image(CurName(e), e)] = e.orig
  BY DEF ContentAgrees
<1>1. CalledFor(Image(CurName(e), e), e.orig)
  BY DEF NamesInv, TreeOK, IsEntry, ToSet
<1>2. CalledFor(Image(CurName(e), e), registry[Image(CurName(e), e)])
  BY DEF NamesInv, RegistryOK
<1>3. QED
  BY <1>1, <1>2, OneOriginal

\* The kustomizations of an edition.
LEMMA GhostedIs ==
  ASSUME NEW s \in Editions, NEW d \in ImageDirs, NEW i \in DOMAIN Ghosted(s[d])
  PROVE  /\ IsEntry(Ghosted(s[d])[i])
         /\ Image(CurName(Ghosted(s[d])[i]), Ghosted(s[d])[i]) \in Originals
         /\ \E r \in Entries : Original(r) = Image(CurName(Ghosted(s[d])[i]), Ghosted(s[d])[i])
<1> DEFINE r == s[d][i]
           e == Ghosted(s[d])[i]
<1>1. i \in DOMAIN s[d]
  BY DEF Ghosted
<1>2. r \in Entries
  BY <1>1 DEF Entries, ToSet
<1>3. e = [name |-> r.name, to |-> r.to, tag |-> r.tag, digest |-> r.digest, orig |-> Original(r)]
  BY <1>1 DEF Ghosted
<1> HIDE DEF r, e
<1>4. Image(CurName(e), e) = Original(r)
  BY <1>3 DEF Image, CurName, Original
<1>5. IsEntry(e)
  BY <1>2, <1>3, <1>4, EntryCalled DEF IsEntry
<1>6. QED
  BY <1>2, <1>4, <1>5 DEF Originals, e

LEMMA VisitedDirs == Visited(Walked) \subseteq ImageDirs
BY ImageAssumption DEF Visited

\* What a task is made of.
LEMMA TaskIs ==
  ASSUME TreeOK, NEW t \in Tasks
  PROVE  \E p \in Patterns, d \in Visited(Walked) \ gone : \E i \in DOMAIN tree[d] :
           /\ Matches(p, tree[d][i])
           /\ t = <<Image(Under(p.dest, tree[d][i].name), tree[d][i]), Image(CurName(tree[d][i]), tree[d][i])>>
<1>1. PICK p \in Patterns : \E e \in {g \in UNION {ToSet(tree[d]) : d \in Visited(Walked) \ gone} : Matches(p, g)} :
                              t = <<Image(Under(p.dest, e.name), e), Image(CurName(e), e)>>
  BY DEF Tasks
<1>2. PICK e \in UNION {ToSet(tree[d]) : d \in Visited(Walked) \ gone} :
             Matches(p, e) /\ t = <<Image(Under(p.dest, e.name), e), Image(CurName(e), e)>>
  BY <1>1
<1>3. PICK d \in Visited(Walked) \ gone : e \in ToSet(tree[d])
  BY <1>2
<1>4. PICK i \in DOMAIN tree[d] : e = tree[d][i]
  BY <1>3 DEF ToSet
<1>5. QED
  BY <1>2, <1>4

LEMMA MirrorBuildNames == NamesInv /\ MirrorBuild => NamesInv'
<1> SUFFICES ASSUME NamesInv, MirrorBuild PROVE NamesInv'
  OBVIOUS
<1>1. UNCHANGED <<tree, gone, registry, mapping, printed, tool, todo>> /\ tool = "none"
  BY DEF MirrorBuild
<1>2. \A n \in DOMAIN file' : <<n, file'[n]>> \in Tasks
  BY DEF MirrorBuild
<1>3. FileOK'
  <2>1. ASSUME NEW n \in DOMAIN file'
        PROVE  \E r \in Entries, p \in Patterns : n = CopyOf(p, r) /\ CalledFor(file'[n], Original(r))
    <3> DEFINE t == <<n, file'[n]>>
    <3>0. t \in Tasks /\ t[1] = n /\ t[2] = file'[n]
      BY <1>2
    <3> HIDE DEF t
    <3>1. PICK p \in Patterns, d \in Visited(Walked) \ gone : \E i \in DOMAIN tree[d] :
             t = <<Image(Under(p.dest, tree[d][i].name), tree[d][i]), Image(CurName(tree[d][i]), tree[d][i])>>
      BY <3>0, TaskIs DEF NamesInv
    <3>2. PICK i \in DOMAIN tree[d] :
             n = Image(Under(p.dest, tree[d][i].name), tree[d][i]) /\ file'[n] = Image(CurName(tree[d][i]), tree[d][i])
      BY <3>0, <3>1
    <3>3. IsEntry(tree[d][i])
      BY VisitedDirs DEF NamesInv, TreeOK
    <3>4. PICK r \in Entries : /\ tree[d][i].name = r.name /\ tree[d][i].tag = r.tag
                               /\ tree[d][i].digest = r.digest /\ tree[d][i].orig = Original(r)
      BY <3>3 DEF IsEntry
    <3>5. n = CopyOf(p, r)
      BY <3>2, <3>4 DEF CopyOf, Image
    <3>6. QED
      BY <3>2, <3>3, <3>4, <3>5 DEF IsEntry
  <2>2. QED
    BY <2>1 DEF FileOK
<1>4. QED
  BY <1>1, <1>3 DEF NamesInv, TreeOK, RegistryOK, PrintedOK, ToolOK

\* A copy has the content of what it was copied from.
LEMMA CopyNames ==
  ASSUME NamesInv, Unambiguous, NEW new, NEW old \in DOMAIN registry, NEW o,
         CalledFor(new, o), CalledFor(old, o),
         registry' = [r \in DOMAIN registry \cup {new} |-> IF r = new THEN registry[old] ELSE registry[r]]
  PROVE  RegistryOK'
<1>1. CalledFor(old, registry[old])
  BY DEF NamesInv, RegistryOK
<1>2. registry[old] = o
  BY <1>1, OneOriginal
<1>3. QED
  BY <1>2 DEF NamesInv, RegistryOK

LEMMA RunTaskNames ==
  ASSUME NamesInv, Unambiguous, NEW n \in DOMAIN file, RunTask(n) PROVE NamesInv'
<1>1. UNCHANGED <<tree, gone, file, mapping, printed, tool, todo>> /\ file[n] \in DOMAIN registry
  BY DEF RunTask
<1>2. PICK r \in Entries, p \in Patterns : n = CopyOf(p, r) /\ CalledFor(file[n], Original(r))
  BY DEF NamesInv, FileOK
<1>3. CalledFor(n, Original(r))
  BY <1>2, EntryCalled
<1>4. registry' = [r_1 \in DOMAIN registry \cup {n} |-> IF r_1 = n THEN registry[file[n]] ELSE registry[r_1]]
  BY DEF RunTask
<1>5. RegistryOK'
  BY <1>1, <1>2, <1>3, <1>4, CopyNames
<1>6. QED
  BY <1>1, <1>5 DEF NamesInv, TreeOK, FileOK, PrintedOK, ToolOK

LEMMA CopyPrintedNames ==
  ASSUME NamesInv, Unambiguous, NEW t \in printed, CopyPrinted(t) PROVE NamesInv'
<1>1. UNCHANGED <<tree, gone, file, mapping, printed, tool, todo>> /\ t[2] \in DOMAIN registry
  BY DEF CopyPrinted
<1>2. PICK o \in Originals : CalledFor(t[1], o) /\ CalledFor(t[2], o)
  BY DEF NamesInv, PrintedOK
<1>3. registry' = [r \in DOMAIN registry \cup {t[1]} |-> IF r = t[1] THEN registry[t[2]] ELSE registry[r]]
  BY DEF CopyPrinted
<1>4. RegistryOK'
  BY <1>1, <1>2, <1>3, CopyNames
<1>5. QED
  BY <1>1, <1>4 DEF NamesInv, TreeOK, FileOK, PrintedOK, ToolOK

\* An entry under another name of its original.
LEMMA RenamedEntry ==
  ASSUME NEW e, IsEntry(e), NEW n, CalledFor(Image(n, e), e.orig)
  PROVE  LET f == [e EXCEPT !.to = <<n>>]
         IN IsEntry(f) /\ CurName(f) = n /\ f.name = e.name /\ f.tag = e.tag /\ f.digest = e.digest /\ f.orig = e.orig
<1> DEFINE f == [e EXCEPT !.to = <<n>>]
<1>1. /\ DOMAIN f = DOMAIN e /\ f.to = <<n>> /\ f.name = e.name /\ f.tag = e.tag /\ f.digest = e.digest
      /\ f.orig = e.orig
  BY DEF IsEntry
<1> HIDE DEF f
<1>2. CurName(f) = n
  BY <1>1 DEF CurName
<1>3. Image(CurName(f), f) = Image(n, e)
  BY <1>1, <1>2 DEF Image
<1>4. IsEntry(f)
  BY <1>1, <1>3 DEF IsEntry
<1>5. QED
  BY <1>1, <1>2, <1>4 DEF f

LEMMA RewriteNames ==
  ASSUME NamesInv, Unambiguous, tool = "overwrite", NEW e, IsEntry(e)
  PROVE  /\ IsEntry(Rewrite(e))
         /\ Rewrite(e).name = e.name /\ Rewrite(e).tag = e.tag /\ Rewrite(e).digest = e.digest
         /\ Rewrite(e).orig = e.orig
         /\ \/ Rewrite(e) = e
            \/ /\ Exact(e) /\ Image(CurName(e), e) \in DOMAIN mapping
               /\ CurName(Rewrite(e)) = DropVersion(mapping[Image(CurName(e), e)])
<1> DEFINE old == Image(CurName(e), e)
<1>1. CASE Exact(e) /\ old \in DOMAIN mapping
  <2>1. mapping[old] \in DOMAIN file /\ file[mapping[old]] = old
    BY <1>1 DEF NamesInv, ToolOK
  <2>2. PICK r \in Entries, p \in Patterns : mapping[old] = CopyOf(p, r) /\ CalledFor(old, Original(r))
    BY <2>1 DEF NamesInv, FileOK
  <2>3. CalledFor(old, e.orig)
    BY DEF IsEntry
  <2>4. Original(r) = e.orig
    BY <2>2, <2>3, OneOriginal
  <2>5. e.tag = r.tag /\ e.digest = r.digest
    BY <2>4 DEF IsEntry, Original
  <2> DEFINE n == DropVersion(mapping[old])
  <2>6. CalledFor(Image(n, r), Original(r))
    BY <2>2, EntryCalled
  <2>7. Rewrite(e) = [e EXCEPT !.to = <<n>>]
    BY <1>1 DEF Rewrite
  <2> HIDE DEF n
  <2>8. CalledFor(Image(n, e), e.orig)
    BY <2>4, <2>5, <2>6 DEF Image
  <2>9. QED
    BY <1>1, <2>7, <2>8, RenamedEntry DEF n
<1>2. CASE ~(Exact(e) /\ old \in DOMAIN mapping)
  BY <1>2 DEF Rewrite
<1>3. QED
  BY <1>1, <1>2

LEMMA OverwriteNames ==
  ASSUME NamesInv, Unambiguous, NEW d \in ImageDirs, Overwrite(d) PROVE NamesInv'
<1>1. UNCHANGED <<gone, file, registry, mapping, printed>> /\ tool = "overwrite"
  BY DEF Overwrite
<1> DEFINE entries == [i \in DOMAIN tree[d] |-> Rewrite(tree[d][i])]
<1>2. tree' = [tree EXCEPT ![d] = entries] /\ DOMAIN tree = ImageDirs
  BY DEF Overwrite, NamesInv, TreeOK
<1>3. \A i \in DOMAIN entries : IsEntry(entries[i])
  BY <1>1, RewriteNames DEF NamesInv, TreeOK
<1> HIDE DEF entries
<1>4. TreeOK'
  BY <1>2, <1>3 DEF NamesInv, TreeOK
<1>5. ToolOK'
  BY <1>1 DEF Overwrite, NamesInv, ToolOK
<1>6. QED
  BY <1>1, <1>4, <1>5 DEF NamesInv, RegistryOK, FileOK, PrintedOK

\* What set-image-name makes of an entry.
LEMMA NamedNames ==
  ASSUME NEW e, IsEntry(e)
  PROVE  /\ IsEntry(Named(e)) /\ Named(e).name = e.name /\ Named(e).tag = e.tag
         /\ Named(e).digest = e.digest /\ Named(e).orig = e.orig
         /\ IF HasPrefix(e.name, Prefix.filter) THEN CurName(Named(e)) = SetImageName(e.name) ELSE Named(e) = e
<1>1. PICK r \in Entries : e.name = r.name /\ e.tag = r.tag /\ e.digest = r.digest /\ e.orig = Original(r)
  BY DEF IsEntry
<1>2. CASE HasPrefix(e.name, Prefix.filter)
  <2> DEFINE n == SetImageName(e.name)
  <2>1. Image(n, e) \in TargetsOf(r)
    BY <1>1 DEF TargetsOf, Image
  <2>2. Named(e) = [e EXCEPT !.to = <<n>>]
    BY <1>2 DEF Named
  <2> HIDE DEF n
  <2>3. CalledFor(Image(n, e), e.orig)
    BY <1>1, <2>1, EntryCalled
  <2>4. QED
    BY <1>2, <2>2, <2>3, RenamedEntry DEF n
<1>3. CASE ~HasPrefix(e.name, Prefix.filter)
  BY <1>3 DEF Named
<1>4. QED
  BY <1>2, <1>3

LEMMA RemoveNames ==
  ASSUME NamesInv, NEW d \in ImageDirs, RemoveKustomization(d) PROVE NamesInv'
<1>1. UNCHANGED <<tree, file, registry, mapping, tool, todo>> /\ gone' = gone \cup {d} /\ tool = "names"
  BY DEF RemoveKustomization
<1>2. printed' = printed \cup {<<Image(CurName(Named(e)), e), Image(CurName(e), e)>> :
                                 e \in {g \in ToSet(tree[d]) : HasPrefix(g.name, Prefix.filter)}}
  BY DEF RemoveKustomization
<1>3. ASSUME NEW e \in ToSet(tree[d])
      PROVE  /\ e.orig \in Originals /\ CalledFor(Image(CurName(e), e), e.orig)
             /\ CalledFor(Image(CurName(Named(e)), e), e.orig)
  <2>1. IsEntry(e)
    BY DEF NamesInv, TreeOK, ToSet
  <2>2. CalledFor(Image(CurName(e), e), e.orig)
    BY <2>1 DEF IsEntry
  <2>3. Image(CurName(Named(e)), e) = Image(CurName(Named(e)), Named(e))
    BY <2>1, NamedNames DEF Image
  <2>4. CalledFor(Image(CurName(Named(e)), e), e.orig)
    BY <2>1, <2>3, NamedNames DEF IsEntry
  <2>5. QED
    BY <2>2, <2>4, CalledForIs
<1>4. ASSUME NEW t \in printed' PROVE \E o \in Originals : CalledFor(t[1], o) /\ CalledFor(t[2], o)
  <2>1. CASE t \in printed
    BY <2>1 DEF NamesInv, PrintedOK
  <2>2. CASE t \notin printed
    <3>1. PICK e \in ToSet(tree[d]) : t = <<Image(CurName(Named(e)), e), Image(CurName(e), e)>>
      BY <1>2, <2>2
    <3>2. t[1] = Image(CurName(Named(e)), e) /\ t[2] = Image(CurName(e), e)
      BY <3>1
    <3>3. QED
      BY <1>3, <3>2
  <2>3. QED
    BY <2>1, <2>2
<1>5. PrintedOK'
  BY <1>4 DEF PrintedOK
<1>6. QED
  BY <1>1, <1>5 DEF NamesInv, TreeOK, RegistryOK, FileOK, ToolOK

LEMMA WriteNames ==
  ASSUME NamesInv, NEW d \in ImageDirs, WriteKustomization(d) PROVE NamesInv'
<1>1. UNCHANGED <<file, registry, mapping, printed>> /\ tool = "names" /\ gone' = gone \ {d}
  BY DEF WriteKustomization
<1> DEFINE entries == [i \in DOMAIN tree[d] |-> Named(tree[d][i])]
<1>2. tree' = [tree EXCEPT ![d] = entries] /\ DOMAIN tree = ImageDirs
  BY DEF WriteKustomization, NamesInv, TreeOK
<1>3. \A i \in DOMAIN entries : IsEntry(entries[i])
  BY NamedNames DEF NamesInv, TreeOK
<1> HIDE DEF entries
<1>4. TreeOK'
  BY <1>2, <1>3 DEF NamesInv, TreeOK
<1>5. ToolOK'
  BY <1>1 DEF WriteKustomization, NamesInv, ToolOK
<1>6. QED
  BY <1>1, <1>4, <1>5 DEF NamesInv, RegistryOK, FileOK, PrintedOK

LEMMA ReadPipelineNames == NamesInv /\ ReadPipeline => NamesInv'
<1> SUFFICES ASSUME NamesInv, ReadPipeline PROVE NamesInv'
  OBVIOUS
<1> DEFINE olds == {file[n] : n \in DOMAIN file}
<1>1. /\ UNCHANGED <<tree, gone, file, registry, printed>>
      /\ tool' = "overwrite" /\ todo' = Walked \ gone /\ Walked \ gone # {}
      /\ mapping' \in {m \in [olds -> DOMAIN file] : \A o \in olds : file[m[o]] = o}
  BY DEF ReadPipeline
<1>2. \A o \in DOMAIN mapping' : mapping'[o] \in DOMAIN file /\ file[mapping'[o]] = o
  BY <1>1
<1>3. ToolOK'
  BY <1>1, <1>2, ImageAssumption DEF NamesInv, ToolOK
<1>4. QED
  BY <1>1, <1>3 DEF NamesInv, TreeOK, RegistryOK, FileOK, PrintedOK

LEMMA RegenerateNames == NamesInv /\ Regenerate => NamesInv'
<1> SUFFICES ASSUME NamesInv, Regenerate PROVE NamesInv'
  OBVIOUS
<1>1. PICK s \in Editions : tree' = [d \in ImageDirs |-> Ghosted(s[d])]
  BY DEF Regenerate
<1>2. UNCHANGED <<file, registry, mapping, printed, tool, todo>> /\ gone' = {}
  BY DEF Regenerate
<1>3. TreeOK'
  BY <1>1, GhostedIs DEF TreeOK
<1>4. QED
  BY <1>2, <1>3 DEF NamesInv, RegistryOK, FileOK, PrintedOK, ToolOK

LEMMA ImagesStart ==
  ASSUME ImageInit
  PROVE  /\ tree = [d \in ImageDirs |-> Ghosted(Shipped[d])] /\ Shipped \in Editions
         /\ gone = {} /\ DOMAIN file = {} /\ printed = {} /\ tool = "none" /\ todo = {} /\ copied = {}
         /\ registry = [r \in Originals |-> r]
BY DEF ImageInit, Editions

LEMMA ImageInitNames == ImageInit => NamesInv
<1> SUFFICES ASSUME ImageInit PROVE NamesInv
  OBVIOUS
<1>1. TreeOK
  BY ImagesStart, GhostedIs DEF TreeOK
<1>2. RegistryOK
  <2>1. \A x \in Originals : CalledFor(x, x)
    BY EntryCalled DEF Originals
  <2>2. QED
    BY <2>1, ImagesStart DEF RegistryOK
<1>3. FileOK /\ PrintedOK /\ ToolOK
  BY ImagesStart DEF FileOK, PrintedOK, ToolOK
<1>4. QED
  BY <1>1, <1>2, <1>3 DEF NamesInv

LEMMA NamesStep ==
  ASSUME NamesInv, Unambiguous, ImageStep PROVE NamesInv'
<1>1. CASE StartSetName
  BY <1>1 DEF StartSetName, NamesInv, TreeOK, RegistryOK, FileOK, PrintedOK, ToolOK
<1>2. CASE StopTool
  BY <1>2 DEF StopTool, NamesInv, TreeOK, RegistryOK, FileOK, PrintedOK, ToolOK
<1>3. QED
  BY <1>1, <1>2, MirrorBuildNames, ReadPipelineNames, RegenerateNames, OverwriteNames, RemoveNames,
     WriteNames, RunTaskNames, CopyPrintedNames DEF ImageStep

-----------------------------------------------------------------------------
(* The images: where they are *)

\* The entry of the manifests that an entry comes from.
ComesFrom(e, r) ==
  /\ r \in Entries /\ e.name = r.name /\ e.tag = r.tag /\ e.digest = r.digest /\ e.orig = Original(r)
\* A pattern that takes what it has renamed, and whose names are not cut.
Lasts(p) ==
  /\ ~p.dest.port /\ HasPrefix(p.dest, p.include)
  /\ p.exclude = "" \/ ~HasPrefix(p.dest, p.exclude)
Takes(p, r) == \E n \in RenamesOf(r) : HasPrefix(n, p.include)

\* With a tag, an entry has one of the names that the commands give, and the
\* pipeline is made by patterns that last.
TaggedInv ==
  \A d \in ImageDirs : \A i \in DOMAIN tree[d] :
    tree[d][i].tag # "" => \E r : ComesFrom(tree[d][i], r) /\ CurName(tree[d][i]) \in RenamesOf(r)
LastingInv ==
  \A n \in DOMAIN file : n.tag # "" =>
    \E r \in Entries, p \in Patterns : n = CopyOf(p, r) /\ CalledFor(file[n], Original(r)) /\ Takes(p, r)
\* An entry that waits for the pipeline is one that a pipeline built anew makes, too.
Waits(d, e) ==
  /\ d \in Walked /\ Exact(e) /\ Image(CurName(e), e) \in DOMAIN file
  /\ \E p \in Patterns : Lasts(p) /\ CurName(e) = Under(p.dest, e.name)
PresentInv ==
  \A d \in (ImageDirs \ gone) \cup todo : \A i \in DOMAIN tree[d] :
    tree[d][i].tag # "" =>
      \/ Image(CurName(tree[d][i]), tree[d][i]) \in DOMAIN registry \cup News(printed)
      \/ Waits(d, tree[d][i])
\* What a kustomization that is removed will be written with has been printed.
ToWriteInv ==
  tool = "names" => \A d \in todo \cap gone : \A i \in DOMAIN tree[d] :
    HasPrefix(tree[d][i].name, Prefix.filter) =>
      Image(SetImageName(tree[d][i].name), tree[d][i]) \in News(printed)
PlacesInv == TaggedInv /\ LastingInv /\ PresentInv /\ ToWriteInv /\ Originals \subseteq DOMAIN registry

LEMMA PlacesAccounted ==
  ASSUME NamesInv, PlacesInv PROVE ImagesAccountedFor
BY DEF PlacesInv, PresentInv, Waits, ImagesAccountedFor, ToSet

LEMMA TakesLasts ==
  ASSUME Rebuildable, NEW p \in Patterns, NEW r \in Entries, r.tag # "", Takes(p, r) PROVE Lasts(p)
BY DEF Rebuildable, Takes, Lasts

LEMMA GhostedFrom ==
  ASSUME NEW s \in Editions, NEW d \in ImageDirs, NEW i \in DOMAIN Ghosted(s[d])
  PROVE  /\ \E r : ComesFrom(Ghosted(s[d])[i], r) /\ CurName(Ghosted(s[d])[i]) \in RenamesOf(r)
         /\ Image(CurName(Ghosted(s[d])[i]), Ghosted(s[d])[i]) \in Originals
<1> DEFINE r == s[d][i]
           e == Ghosted(s[d])[i]
<1>1. i \in DOMAIN s[d]
  BY DEF Ghosted
<1>2. r \in Entries
  BY <1>1 DEF Entries, ToSet
<1>3. e = [name |-> r.name, to |-> r.to, tag |-> r.tag, digest |-> r.digest, orig |-> Original(r)]
  BY <1>1 DEF Ghosted
<1> HIDE DEF r, e
<1>4. ComesFrom(e, r) /\ CurName(e) = CurName(r)
  BY <1>2, <1>3 DEF ComesFrom, CurName
<1>5. CurName(e) \in RenamesOf(r)
  BY <1>4 DEF RenamesOf
<1>6. QED
  BY <1>4, <1>5, GhostedIs DEF e

LEMMA ImageInitPlaces == ImageInit => PlacesInv
<1> SUFFICES ASSUME ImageInit PROVE PlacesInv
  OBVIOUS
<1>1. TaggedInv
  BY ImagesStart, GhostedFrom, ZenonT(60) DEF TaggedInv
<1>2. PresentInv
  BY ImagesStart, GhostedFrom DEF PresentInv
<1>3. LastingInv /\ ToWriteInv /\ Originals \subseteq DOMAIN registry
  BY ImagesStart DEF LastingInv, ToWriteInv
<1>4. QED
  BY <1>1, <1>2, <1>3 DEF PlacesInv

LEMMA RegeneratePlaces ==
  ASSUME NamesInv, PlacesInv, Regenerate PROVE PlacesInv'
<1>1. PICK s \in Editions : tree' = [d \in ImageDirs |-> Ghosted(s[d])]
  BY DEF Regenerate
<1>2. UNCHANGED <<file, registry, printed, tool, todo>> /\ gone' = {} /\ tool = "none"
  BY DEF Regenerate
<1>3. TaggedInv'
  BY <1>1, GhostedFrom DEF TaggedInv
<1>4. PresentInv'
  <2>1. (ImageDirs \ gone') \cup todo' = ImageDirs
    BY <1>2 DEF NamesInv, ToolOK
  <2>2. Originals \subseteq DOMAIN registry'
    BY <1>2 DEF PlacesInv
  <2>3. QED
    BY <1>1, <2>1, <2>2, GhostedFrom DEF PresentInv
<1>5. QED
  BY <1>2, <1>3, <1>4 DEF PlacesInv, LastingInv, ToWriteInv

LEMMA MirrorBuildPlaces ==
  ASSUME NamesInv, PlacesInv, MirrorBuild PROVE PlacesInv'
<1>1. UNCHANGED <<tree, gone, registry, printed, tool, todo>> /\ tool = "none" /\ todo = {}
  BY DEF MirrorBuild, NamesInv, ToolOK
<1>2. DOMAIN file' = News(Tasks) /\ \A n \in DOMAIN file' : <<n, file'[n]>> \in Tasks
  BY DEF MirrorBuild
<1>3. LastingInv'
  <2>1. ASSUME NEW n \in DOMAIN file', n.tag # ""
        PROVE  \E r \in Entries, p \in Patterns :
                 n = CopyOf(p, r) /\ CalledFor(file'[n], Original(r)) /\ Takes(p, r)
    <3> DEFINE t == <<n, file'[n]>>
    <3>0. t \in Tasks /\ t[1] = n /\ t[2] = file'[n]
      BY <1>2
    <3> HIDE DEF t
    <3>1. PICK p \in Patterns, d \in Visited(Walked) \ gone : \E i \in DOMAIN tree[d] :
             /\ Matches(p, tree[d][i])
             /\ t = <<Image(Under(p.dest, tree[d][i].name), tree[d][i]), Image(CurName(tree[d][i]), tree[d][i])>>
      BY <3>0, TaskIs DEF NamesInv
    <3>2. PICK i \in DOMAIN tree[d] :
             /\ Matches(p, tree[d][i])
             /\ n = Image(Under(p.dest, tree[d][i].name), tree[d][i])
             /\ file'[n] = Image(CurName(tree[d][i]), tree[d][i])
      BY <3>0, <3>1
    <3> DEFINE e == tree[d][i]
    <3>3. d \in ImageDirs /\ IsEntry(e)
      BY VisitedDirs DEF NamesInv, TreeOK
    <3>4. e.tag # ""
      BY <2>1, <3>2 DEF Image
    <3>5. PICK r : ComesFrom(e, r) /\ CurName(e) \in RenamesOf(r)
      BY <3>3, <3>4 DEF PlacesInv, TaggedInv
    <3> HIDE DEF e
    <3>6. Takes(p, r)
      BY <3>2, <3>5 DEF Takes, Matches, e
    <3>7. n = CopyOf(p, r)
      BY <3>2, <3>5 DEF CopyOf, Image, ComesFrom, e
    <3>8. CalledFor(file'[n], Original(r))
      BY <3>2, <3>3, <3>5 DEF IsEntry, ComesFrom, e
    <3>9. QED
      BY <3>5, <3>6, <3>7, <3>8 DEF ComesFrom
  <2>2. QED
    BY <2>1 DEF LastingInv
<1>4. ASSUME NEW d \in ImageDirs \ gone, NEW i \in DOMAIN tree[d], Waits(d, tree[d][i])
      PROVE  Image(CurName(tree[d][i]), tree[d][i]) \in DOMAIN file'
  <2> DEFINE e == tree[d][i]
  <2>1. PICK p \in Patterns : Lasts(p) /\ CurName(e) = Under(p.dest, e.name)
    BY <1>4 DEF Waits
  <2>2. d \in Visited(Walked) \ gone /\ e \in ToSet(tree[d]) /\ Exact(e)
    BY <1>4 DEF Waits, Visited, ToSet
  <2> HIDE DEF e
  <2>3. CurName(e).host = p.dest.host
    <3>1. Under(p.dest, e.name).host = p.dest.host
      BY DEF Under
    <3>2. QED
      BY <2>1, <3>1
  <2>4. Matches(p, e)
    BY <2>1, <2>2, <2>3 DEF Matches, Lasts, HasPrefix
  <2> DEFINE t == <<Image(Under(p.dest, e.name), e), Image(CurName(e), e)>>
  <2>5. t \in Tasks
    BY <2>2, <2>4 DEF Tasks
  <2>6. t[1] = Image(CurName(e), e)
    BY <2>1
  <2> HIDE DEF t
  <2>7. QED
    BY <1>2, <2>5, <2>6 DEF News, e
<1>5. PresentInv'
  BY <1>1, <1>4, ZenonT(60) DEF PlacesInv, PresentInv, Waits
<1>6. QED
  BY <1>1, <1>3, <1>5 DEF PlacesInv, TaggedInv, ToWriteInv

\* The registry and what is printed only grow.
LEMMA MorePlaces ==
  ASSUME PlacesInv, UNCHANGED <<tree, file>>,
         DOMAIN registry \subseteq DOMAIN registry', printed \subseteq printed',
         (ImageDirs \ gone') \cup todo' \subseteq (ImageDirs \ gone) \cup todo, ToWriteInv'
  PROVE  PlacesInv'
<1>1. News(printed) \subseteq News(printed')
  BY DEF News
<1>2. PresentInv'
  BY <1>1, ZenonT(60) DEF PlacesInv, PresentInv, Waits
<1>3. QED
  BY <1>2 DEF PlacesInv, TaggedInv, LastingInv

LEMMA RemovePlaces ==
  ASSUME NamesInv, PlacesInv, NEW d \in ImageDirs, RemoveKustomization(d) PROVE PlacesInv'
<1>1. /\ UNCHANGED <<tree, file, registry, tool, todo>> /\ gone' = gone \cup {d} /\ tool = "names"
      /\ d \in todo /\ todo \cap gone = {}
  BY DEF RemoveKustomization
<1> DEFINE more == {<<Image(CurName(Named(e)), e), Image(CurName(e), e)>> :
                      e \in {g \in ToSet(tree[d]) : HasPrefix(g.name, Prefix.filter)}}
<1>2. printed' = printed \cup more
  BY DEF RemoveKustomization
<1>3. ASSUME NEW e \in ToSet(tree[d]), HasPrefix(e.name, Prefix.filter)
      PROVE  Image(SetImageName(e.name), e) \in News(more)
  <2>1. IsEntry(e)
    BY DEF NamesInv, TreeOK, ToSet
  <2> DEFINE t == <<Image(CurName(Named(e)), e), Image(CurName(e), e)>>
  <2>2. t \in more /\ t[1] = Image(SetImageName(e.name), e)
    BY <1>3, <2>1, NamedNames
  <2> HIDE DEF t, more
  <2>3. QED
    BY <2>2 DEF News
<1> HIDE DEF more
<1>4. ToWriteInv'
  <2>1. News(more) \subseteq News(printed')
    BY <1>2 DEF News
  <2>2. todo' \cap gone' = {d}
    BY <1>1
  <2>3. QED
    BY <1>1, <1>3, <2>1, <2>2 DEF ToWriteInv, ToSet
<1>5. QED
  BY <1>1, <1>2, <1>4, MorePlaces

LEMMA WritePlaces ==
  ASSUME NamesInv, PlacesInv, NEW d \in ImageDirs, WriteKustomization(d) PROVE PlacesInv'
<1>1. /\ UNCHANGED <<file, registry, printed>> /\ gone' = gone \ {d} /\ todo' = todo \ {d}
      /\ tool = "names" /\ d \in todo \cap gone
      /\ tool' \in {"none", tool}
  BY DEF WriteKustomization
<1> DEFINE entries == [i \in DOMAIN tree[d] |-> Named(tree[d][i])]
<1>2. tree' = [tree EXCEPT ![d] = entries] /\ DOMAIN tree = ImageDirs
  BY DEF WriteKustomization, NamesInv, TreeOK
<1>3. ASSUME NEW i \in DOMAIN entries, entries[i].tag # ""
      PROVE  /\ \E r : ComesFrom(entries[i], r) /\ CurName(entries[i]) \in RenamesOf(r)
             /\ \/ Image(CurName(entries[i]), entries[i]) \in DOMAIN registry \cup News(printed)
                \/ Waits(d, entries[i])
  <2> DEFINE e == tree[d][i]
  <2>1. i \in DOMAIN tree[d] /\ entries[i] = Named(e) /\ IsEntry(e)
    BY DEF NamesInv, TreeOK
  <2> HIDE DEF entries
  <2>2. /\ Named(e).name = e.name /\ Named(e).tag = e.tag /\ Named(e).digest = e.digest
        /\ Named(e).orig = e.orig
        /\ IF HasPrefix(e.name, Prefix.filter) THEN CurName(Named(e)) = SetImageName(e.name) ELSE Named(e) = e
    BY <2>1, NamedNames
  <2>3. e.tag # ""
    BY <1>3, <2>1, <2>2
  <2>4. PICK r : ComesFrom(e, r) /\ CurName(e) \in RenamesOf(r)
    BY <2>1, <2>3 DEF PlacesInv, TaggedInv
  <2>5. CASE HasPrefix(e.name, Prefix.filter)
    <3>1. ComesFrom(Named(e), r)
      BY <2>2, <2>4 DEF ComesFrom
    <3>2. CurName(Named(e)) \in RenamesOf(r)
      BY <2>2, <2>4, <2>5 DEF RenamesOf, ComesFrom
    <3>3. Image(SetImageName(e.name), e) \in News(printed)
      BY <1>1, <2>1, <2>5 DEF PlacesInv, ToWriteInv
    <3>4. Image(CurName(Named(e)), Named(e)) = Image(SetImageName(e.name), e)
      BY <2>2, <2>5 DEF Image
    <3>5. QED
      BY <2>1, <3>1, <3>2, <3>3, <3>4
  <2>6. CASE ~HasPrefix(e.name, Prefix.filter)
    BY <1>1, <2>1, <2>2, <2>3, <2>4, <2>6 DEF PlacesInv, PresentInv
  <2>7. QED
    BY <2>5, <2>6
<1> HIDE DEF entries
<1>4. TaggedInv'
  BY <1>2, <1>3 DEF PlacesInv, TaggedInv
<1>5. PresentInv'
  <2>1. ASSUME NEW x \in (ImageDirs \ gone') \cup todo', NEW i \in DOMAIN tree'[x], tree'[x][i].tag # ""
        PROVE  \/ Image(CurName(tree'[x][i]), tree'[x][i]) \in DOMAIN registry \cup News(printed)
               \/ Waits(x, tree'[x][i])
    <3>1. x \in (ImageDirs \ gone) \cup todo /\ x \in ImageDirs
      BY <1>1 DEF NamesInv, ToolOK
    <3>2. CASE x = d
      BY <1>2, <1>3, <2>1, <3>2
    <3>3. CASE x # d
      <4>1. tree'[x] = tree[x]
        BY <1>2, <3>1, <3>3
      <4>2. QED
        BY <2>1, <3>1, <4>1 DEF PlacesInv, PresentInv
    <3>4. QED
      BY <3>2, <3>3
  <2>2. QED
    BY <1>1, <2>1, ZenonT(60) DEF PresentInv, Waits
<1>6. ToWriteInv'
  BY <1>1, <1>2 DEF PlacesInv, ToWriteInv
<1>7. QED
  BY <1>1, <1>4, <1>5, <1>6 DEF PlacesInv, LastingInv

\* With a tag, the rewritten entry names what its task makes.
LEMMA RewriteTagged ==
  ASSUME NamesInv, PlacesInv, Unambiguous, Rebuildable, tool = "overwrite",
         NEW e, IsEntry(e), e.tag # "", Exact(e), NEW r, ComesFrom(e, r),
         Image(CurName(e), e) \in DOMAIN mapping,
         CurName(Rewrite(e)) = DropVersion(mapping[Image(CurName(e), e)])
  PROVE  \E p \in Patterns : /\ Lasts(p) /\ CurName(Rewrite(e)) = Under(p.dest, e.name)
                             /\ Image(Under(p.dest, e.name), e) \in DOMAIN file
<1> DEFINE old == Image(CurName(e), e)
           new == mapping[old]
<1>1. new \in DOMAIN file /\ file[new] = old /\ CalledFor(old, e.orig)
  BY DEF NamesInv, ToolOK, IsEntry
<1>2. ASSUME NEW s \in Entries, CalledFor(old, Original(s))
      PROVE  Original(s) = e.orig /\ s.tag = e.tag /\ s.digest = e.digest /\ s.name = e.name
  <2>1. Original(s) = Original(r)
    BY <1>1, <1>2, OneOriginal DEF ComesFrom
  <2>2. s.tag = r.tag /\ s.digest = r.digest
    BY <2>1 DEF Original
  <2>3. QED
    BY <2>1, <2>2 DEF ComesFrom, Rebuildable
<1> HIDE DEF old, new
<1>3. new.tag # ""
  <2>1. PICK s \in Entries, p \in Patterns : new = CopyOf(p, s) /\ CalledFor(file[new], Original(s))
    BY <1>1 DEF NamesInv, FileOK
  <2>2. QED
    BY <1>1, <1>2, <2>1 DEF CopyOf, Image
<1>4. PICK s \in Entries, p \in Patterns :
         new = CopyOf(p, s) /\ CalledFor(file[new], Original(s)) /\ Takes(p, s)
  BY <1>1, <1>3 DEF PlacesInv, LastingInv
<1>5. s.tag = e.tag /\ s.digest = e.digest /\ s.name = e.name
  BY <1>1, <1>2, <1>4
<1>6. Lasts(p)
  BY <1>4, <1>5, TakesLasts
<1>7. new = Image(Under(p.dest, e.name), e)
  BY <1>4, <1>5 DEF CopyOf, Image
<1>8. DropVersion(new) = Under(p.dest, e.name)
  <2>1. new.name = Under(p.dest, e.name) /\ new.tag = e.tag
    BY <1>7 DEF Image
  <2>2. Under(p.dest, e.name).port = p.dest.port
    BY DEF Under
  <2>3. ~p.dest.port
    BY <1>6 DEF Lasts
  <2>4. QED
    BY <2>1, <2>2, <2>3 DEF DropVersion
<1>9. QED
  BY <1>1, <1>6, <1>7, <1>8 DEF new, old

LEMMA OverwritePlaces ==
  ASSUME NamesInv, PlacesInv, Unambiguous, Rebuildable, NEW d \in ImageDirs, Overwrite(d) PROVE PlacesInv'
<1>1. /\ UNCHANGED <<gone, file, registry, mapping, printed>> /\ todo' = todo \ {d} /\ d \in todo
      /\ tool = "overwrite" /\ tool' # "names" /\ d \in Walked
  BY DEF Overwrite, NamesInv, ToolOK
<1> DEFINE entries == [i \in DOMAIN tree[d] |-> Rewrite(tree[d][i])]
<1>2. tree' = [tree EXCEPT ![d] = entries] /\ DOMAIN tree = ImageDirs
  BY DEF Overwrite, NamesInv, TreeOK
<1>3. ASSUME NEW i \in DOMAIN entries, entries[i].tag # ""
      PROVE  /\ \E r : ComesFrom(entries[i], r) /\ CurName(entries[i]) \in RenamesOf(r)
             /\ \/ Image(CurName(entries[i]), entries[i]) \in DOMAIN registry \cup News(printed)
                \/ Waits(d, entries[i])
  <2> DEFINE e == tree[d][i]
             f == Rewrite(e)
  <2>1. i \in DOMAIN tree[d] /\ entries[i] = f /\ IsEntry(e)
    BY DEF NamesInv, TreeOK
  <2> HIDE DEF entries
  <2>2. /\ f.name = e.name /\ f.tag = e.tag /\ f.digest = e.digest /\ f.orig = e.orig
        /\ \/ f = e
           \/ /\ Exact(e) /\ Image(CurName(e), e) \in DOMAIN mapping
              /\ CurName(f) = DropVersion(mapping[Image(CurName(e), e)])
    BY <1>1, <2>1, RewriteNames
  <2>3. e.tag # ""
    BY <1>3, <2>1, <2>2
  <2>4. PICK r : ComesFrom(e, r) /\ CurName(e) \in RenamesOf(r)
    BY <2>1, <2>3 DEF PlacesInv, TaggedInv
  <2>5. CASE f = e
    BY <1>1, <2>1, <2>3, <2>4, <2>5 DEF PlacesInv, PresentInv
  <2>6. CASE Exact(e) /\ Image(CurName(e), e) \in DOMAIN mapping
             /\ CurName(f) = DropVersion(mapping[Image(CurName(e), e)])
    <3>1. PICK p \in Patterns : /\ Lasts(p) /\ CurName(f) = Under(p.dest, e.name)
                                /\ Image(Under(p.dest, e.name), e) \in DOMAIN file
      BY <1>1, <2>1, <2>3, <2>4, <2>6, RewriteTagged
    <3> HIDE DEF f
    <3>2. ComesFrom(f, r)
      BY <2>2, <2>4 DEF ComesFrom
    <3>3. CurName(f) \in RenamesOf(r)
      BY <2>4, <3>1 DEF RenamesOf, ComesFrom
    <3>4. Exact(f)
      BY <2>2, <2>6 DEF Exact
    <3>5. Image(CurName(f), f) \in DOMAIN file
      BY <2>2, <3>1 DEF Image
    <3>6. Waits(d, f)
      BY <1>1, <2>2, <3>1, <3>4, <3>5 DEF Waits
    <3>7. QED
      BY <2>1, <3>2, <3>3, <3>6
  <2>7. QED
    BY <2>2, <2>5, <2>6
<1> HIDE DEF entries
<1>4. TaggedInv'
  BY <1>2, <1>3 DEF PlacesInv, TaggedInv
<1>5. PresentInv'
  <2>1. ASSUME NEW x \in (ImageDirs \ gone') \cup todo', NEW i \in DOMAIN tree'[x], tree'[x][i].tag # ""
        PROVE  \/ Image(CurName(tree'[x][i]), tree'[x][i]) \in DOMAIN registry \cup News(printed)
               \/ Waits(x, tree'[x][i])
    <3>1. x \in (ImageDirs \ gone) \cup todo /\ x \in ImageDirs
      BY <1>1 DEF NamesInv, ToolOK
    <3>2. CASE x = d
      BY <1>2, <1>3, <2>1, <3>2
    <3>3. CASE x # d
      <4>1. tree'[x] = tree[x]
        BY <1>2, <3>1, <3>3
      <4>2. QED
        BY <2>1, <3>1, <4>1 DEF PlacesInv, PresentInv
    <3>4. QED
      BY <3>2, <3>3
  <2>2. QED
    BY <1>1, <2>1 DEF PresentInv, Waits
<1>6. QED
  BY <1>1, <1>4, <1>5 DEF PlacesInv, LastingInv, ToWriteInv

LEMMA PlacesStep ==
  ASSUME NamesInv, PlacesInv, Unambiguous, Rebuildable, ImageStep PROVE PlacesInv'
<1>1. CASE StartSetName
  <2>1. UNCHANGED <<tree, gone, file, registry, printed>> /\ todo' = ImageDirs \ gone
    BY <1>1 DEF StartSetName
  <2>2. ToWriteInv'
    BY <2>1 DEF ToWriteInv
  <2>3. QED
    BY <2>1, <2>2, MorePlaces
<1>2. CASE StopTool
  <2>1. UNCHANGED <<tree, gone, file, registry, printed>> /\ todo' = {}
    BY <1>2 DEF StopTool
  <2>2. ToWriteInv'
    BY <2>1 DEF ToWriteInv
  <2>3. QED
    BY <2>1, <2>2, MorePlaces
<1>3. CASE ReadPipeline
  <2>1. UNCHANGED <<tree, gone, file, registry, printed>> /\ todo' = Walked \ gone /\ tool' = "overwrite"
    BY <1>3 DEF ReadPipeline
  <2>2. ToWriteInv'
    BY <2>1 DEF ToWriteInv
  <2>3. QED
    BY <2>1, <2>2, ImageAssumption, MorePlaces
<1>4. ASSUME NEW n \in DOMAIN file, RunTask(n) PROVE PlacesInv'
  <2>1. /\ UNCHANGED <<tree, gone, file, printed, tool, todo>>
        /\ DOMAIN registry \subseteq DOMAIN registry'
    BY <1>4 DEF RunTask
  <2>2. ToWriteInv'
    BY <2>1 DEF PlacesInv, ToWriteInv
  <2>3. QED
    BY <2>1, <2>2, MorePlaces
<1>5. ASSUME NEW t \in printed, CopyPrinted(t) PROVE PlacesInv'
  <2>1. /\ UNCHANGED <<tree, gone, file, printed, tool, todo>>
        /\ DOMAIN registry \subseteq DOMAIN registry'
    BY <1>5 DEF CopyPrinted
  <2>2. ToWriteInv'
    BY <2>1 DEF PlacesInv, ToWriteInv
  <2>3. QED
    BY <2>1, <2>2, MorePlaces
<1>6. QED
  BY <1>1, <1>2, <1>3, <1>4, <1>5, MirrorBuildPlaces, RegeneratePlaces, OverwritePlaces, RemovePlaces,
     WritePlaces DEF ImageStep

-----------------------------------------------------------------------------

LEMMA NamesAlways == Unambiguous /\ ConfigurationSpec => []NamesInv
<1> SUFFICES ASSUME Unambiguous PROVE ConfigurationSpec => []NamesInv
  OBVIOUS
<1>1. ConfigurationInit => NamesInv
  BY ImageInitNames DEF ConfigurationInit
<1>2. NamesInv /\ [ConfigurationNext]_configurationVars => NamesInv'
  <2> SUFFICES ASSUME NamesInv, [ConfigurationNext]_configurationVars PROVE NamesInv'
    OBVIOUS
  <2>1. CASE ImageStep
    BY <2>1, NamesStep
  <2>2. CASE UNCHANGED imageVars
    BY <2>2 DEF imageVars, NamesInv, TreeOK, RegistryOK, FileOK, PrintedOK, ToolOK
  <2>3. QED
    BY <2>1, <2>2 DEF ConfigurationNext, configurationVars
<1>3. QED
  BY <1>1, <1>2, PTL DEF ConfigurationSpec

\* Through builds, overwrites, renamings and interruptions of them, an entry never
\* names an image with another content than the one it stood for, if no two images
\* come to be named alike (UpdateKustomize, mirror_image.go; setImageName,
\* set-image-name.go).
THEOREM ContentsStayTheSame == Unambiguous /\ ConfigurationSpec => []ContentAgrees
<1> SUFFICES ASSUME Unambiguous PROVE ConfigurationSpec => []ContentAgrees
  OBVIOUS
<1>1. NamesInv => ContentAgrees
  BY NamesContent
<1>2. QED
  BY <1>1, NamesAlways, PTL

\* And one with a tag names an image that is there, or that the pipeline makes or
\* the user was told to copy, if, besides, the patterns take what they renamed
\* (GenerateMirroringPipeline, mirror_image.go).
THEOREM MirrorsAgree == Unambiguous /\ Rebuildable /\ ConfigurationSpec => []MirrorAgrees
<1> SUFFICES ASSUME Unambiguous, Rebuildable PROVE ConfigurationSpec => []MirrorAgrees
  OBVIOUS
<1>1. ConfigurationInit => PlacesInv
  BY ImageInitPlaces DEF ConfigurationInit
<1>2. NamesInv /\ PlacesInv /\ [ConfigurationNext]_configurationVars => PlacesInv'
  <2> SUFFICES ASSUME NamesInv, PlacesInv, [ConfigurationNext]_configurationVars PROVE PlacesInv'
    OBVIOUS
  <2>1. CASE ImageStep
    BY <2>1, PlacesStep
  <2>2. CASE UNCHANGED imageVars
    BY <2>2, ZenonT(60) DEF imageVars, PlacesInv, TaggedInv, LastingInv, PresentInv, Waits, ToWriteInv
  <2>3. QED
    BY <2>1, <2>2 DEF ConfigurationNext, configurationVars
<1>3. NamesInv /\ PlacesInv => MirrorAgrees
  BY NamesContent, PlacesAccounted DEF MirrorAgrees
<1>4. QED
  BY <1>1, <1>2, <1>3, NamesAlways, PTL DEF ConfigurationSpec

-----------------------------------------------------------------------------
(* Types *)

\* The overlays of a KfDef, each once.
SelectedOK ==
  \E n \in Nat :
    /\ selected \in [1..n -> (DOMAIN comp \ {"base"}) \cup {"missing"}]
    /\ \A i, j \in 1..n : selected[i] = selected[j] => i = j
MergeTypeInv ==
  MergeTypeOK /\ SelectedOK /\ "bases" \in DOMAIN parent /\ parent.bases \in Seq(DOMAIN comp)

LEMMA SelectedIs ==
  ASSUME SelectedOK
  PROVE  /\ Len(selected) \in Nat /\ DOMAIN selected = 1..Len(selected)
         /\ \A i \in 1..Len(selected) : selected[i] \in (DOMAIN comp \ {"base"}) \cup {"missing"}
         /\ \A i, j \in 1..Len(selected) : selected[i] = selected[j] => i = j
<1> DEFINE S == (DOMAIN comp \ {"base"}) \cup {"missing"}
<1>1. PICK n \in Nat : /\ selected \in [1..n -> S]
                       /\ \A i, j \in 1..n : selected[i] = selected[j] => i = j
  BY DEF SelectedOK
<1> HIDE DEF S
<1>2. selected \in Seq(S) /\ Len(selected) = n
  BY <1>1
<1>3. QED
  BY <1>1, <1>2 DEF S

LEMMA ComponentIs ==
  ASSUME comp \in Components
  PROVE  /\ "base" \in DOMAIN comp /\ IsFiniteSet(DOMAIN comp)
         /\ \A d \in DOMAIN comp :
              /\ comp[d].bases \in Seq(DOMAIN comp) /\ comp[d].resources \in Seq(STRING)
              /\ comp[d].json \in Seq([file : STRING, name : STRING, kind : STRING])
<1>1. DOMAIN comp \subseteq MergeDirs
  BY DEF MergeDirs
<1>2. ASSUME NEW d \in DOMAIN comp PROVE comp[d].bases \in Seq(DOMAIN comp)
  <2> DEFINE bases == comp[d].bases
  <2>1. bases \in Seq(MergeDirs) /\ ToSet(bases) \subseteq DOMAIN comp
    BY MergeAssumption DEF Kustomization
  <2> HIDE DEF bases
  <2>2. bases \in Seq(DOMAIN comp)
    BY <2>1 DEF ToSet
  <2>3. QED
    BY <2>2 DEF bases
<1>3. QED
  BY <1>1, <1>2, FS_Subset, MergeAssumption DEF Kustomization

LEMMA MergeInitType == MergeInit => MergeTypeInv
<1> SUFFICES ASSUME MergeInit PROVE MergeTypeInv
  OBVIOUS
<1> USE DEF MergeInit
<1> DEFINE overlays == (DOMAIN comp \ {"base"}) \cup {"missing"}
<1>1. Cardinality(overlays) \in Nat
  <2>1. IsFiniteSet(DOMAIN comp \ {"base"})
    BY ComponentIs, FS_Subset
  <2>2. IsFiniteSet(overlays)
    BY <2>1, FS_AddElement
  <2>3. QED
    BY <2>2, FS_CardinalityType
<1>2. SelectedOK
  <2>1. PICK n \in 0..Cardinality(overlays) - 1 :
          selected \in {s \in [1..n -> overlays] : \A i, j \in 1..n : s[i] = s[j] => i = j}
    OBVIOUS
  <2>2. n \in Nat
    BY <1>1
  <2>3. QED
    BY <2>1, <2>2 DEF SelectedOK
<1>3. parent.bases = <<>> /\ "bases" \in DOMAIN parent /\ ToSet(parent.bases) = {}
  <2>1. ToSet(<<>>) = {}
    BY DEF ToSet
  <2>2. parent.bases = <<>> /\ "bases" \in DOMAIN parent
    BY DEF EmptyParent
  <2>3. QED
    BY <2>1, <2>2
<1>4. mergeAt \in 0..Len(selected) + 1
  BY <1>2, SelectedIs
<1>5. QED
  BY <1>2, <1>3, <1>4 DEF MergeTypeInv, MergeTypeOK

LEMMA NewBasesAre ==
  ASSUME comp \in Components, NEW d \in DOMAIN comp
  PROVE  NewBases(d) \in Seq(DOMAIN comp) /\ ToSet(NewBases(d)) \subseteq ToSet(comp[d].bases)
<1> DEFINE bases == comp[d].bases
           I == DOMAIN bases \ OldBases(d)
<1>1. bases \in Seq(DOMAIN comp) /\ I \in SUBSET (DOMAIN bases)
  BY ComponentIs
<1>2. NewBases(d) = KeptAt(bases, I)
  BY DEF NewBases
<1> HIDE DEF bases, I
<1>3. KeptAt(bases, I) \in Seq(DOMAIN comp) /\ ToSet(KeptAt(bases, I)) = {bases[i] : i \in I}
  BY <1>1, KeptPart
<1>4. QED
  BY <1>1, <1>2, <1>3 DEF bases, ToSet

LEMMA MergeNextType == MergeTypeInv /\ MergeNext => MergeTypeInv'
<1> SUFFICES ASSUME MergeTypeInv, MergeNext PROVE MergeTypeInv'
  OBVIOUS
<1> USE DEF MergeTypeInv, MergeTypeOK
<1> DEFINE d == IF mergeAt = 0 THEN "base" ELSE selected[mergeAt]
<1>1. UNCHANGED <<comp, selected, given>> /\ merged = "working" /\ mergeAt <= Len(selected)
  BY DEF MergeNext
<1>2. SelectedOK'
  BY <1>1 DEF SelectedOK
<1>3. CASE d \in DOMAIN comp
  <2>1. MergeKustomization(d) /\ mergeAt' = mergeAt + 1 /\ merged' = merged
    BY <1>3 DEF MergeNext
  <2>2. mergeAt' \in 0..Len(selected) + 1
    BY <1>1, <2>1, SelectedIs
  <2>3. DOMAIN env' = DOMAIN env
    BY <2>1 DEF MergeKustomization
  <2> HIDE DEF d
  <2>4. /\ known' \subseteq DOMAIN comp /\ "bases" \in DOMAIN parent'
        /\ parent'.bases \in Seq(DOMAIN comp) /\ ToSet(parent'.bases) \subseteq known'
    <3>1. CASE comp[d].bases = <<>>
      <4>1. known' = known \cup {d} /\ (parent' = parent \/ parent' = [parent EXCEPT !.bases = Append(@, d)])
        BY <2>1, <3>1 DEF MergeKustomization
      <4> DEFINE old == parent.bases
                 new == Append(old, d)
      <4>2. new \in Seq(DOMAIN comp) /\ ToSet(new) \subseteq ToSet(old) \cup {d}
        <5>1. old \in Seq(DOMAIN comp)
          OBVIOUS
        <5> HIDE DEF old
        <5>2. QED
          BY <1>3, <5>1 DEF ToSet
      <4>3. parent' = [parent EXCEPT !.bases = new] \/ parent' = parent
        BY <4>1
      <4> HIDE DEF new
      <4>4. "bases" \in DOMAIN parent' /\ parent'.bases \in {parent.bases, new}
        BY <4>3
      <4>5. QED
        BY <1>3, <4>1, <4>2, <4>4
    <3>2. CASE comp[d].bases # <<>>
      <4>1. parent' = MergeEntries(d) /\ known' = KnownAfter(d)
        BY <2>1, <3>2 DEF MergeKustomization
      <4>2. "bases" \in DOMAIN parent' /\ parent'.bases = parent.bases \o NewBases(d)
        BY <4>1 DEF MergeEntries
      <4>3. ToSet(comp[d].bases) \subseteq DOMAIN comp
        <5> DEFINE bases == comp[d].bases
        <5>1. bases \in Seq(DOMAIN comp)
          BY <1>3, ComponentIs
        <5> HIDE DEF bases
        <5>2. ToSet(bases) \subseteq DOMAIN comp
          BY <5>1 DEF ToSet
        <5>3. QED
          BY <5>2 DEF bases
      <4>4. known' \subseteq DOMAIN comp /\ known \cup ToSet(comp[d].bases) \subseteq known'
        BY <1>3, <4>1, <4>3 DEF KnownAfter
      <4> DEFINE old == parent.bases
                 new == NewBases(d)
      <4>5. old \in Seq(DOMAIN comp) /\ new \in Seq(DOMAIN comp) /\ ToSet(new) \subseteq ToSet(comp[d].bases)
        BY <1>3, NewBasesAre
      <4>6. parent'.bases = old \o new
        BY <4>2
      <4>7. ToSet(old) \subseteq known
        OBVIOUS
      <4> HIDE DEF old, new
      <4>8. old \o new \in Seq(DOMAIN comp) /\ ToSet(old \o new) = ToSet(old) \cup ToSet(new)
        BY <4>5, Joined
      <4>9. QED
        BY <4>2, <4>4, <4>5, <4>6, <4>7, <4>8
    <3>3. QED
      BY <3>1, <3>2
  <2>5. QED
    BY <1>1, <1>2, <2>1, <2>2, <2>3, <2>4
<1>4. CASE d \notin DOMAIN comp
  <2>1. merged' = "failed" /\ UNCHANGED <<parent, known, env, mergeAt>>
    BY <1>4 DEF MergeNext
  <2>2. QED
    BY <1>1, <1>2, <2>1
<1>5. QED
  BY <1>3, <1>4

LEMMA WriteMergedType == MergeTypeInv /\ WriteMerged => MergeTypeInv'
<1> SUFFICES ASSUME MergeTypeInv, WriteMerged PROVE MergeTypeInv'
  OBVIOUS
<1> USE DEF MergeTypeInv, MergeTypeOK
<1>1. /\ UNCHANGED <<comp, selected, given, known, env, mergeAt>>
      /\ merged' \in {"written", "failed"}
      /\ \E json, ns : parent' = [parent EXCEPT !.json = json, !.namespace = ns]
  BY DEF WriteMerged
<1>2. parent'.bases = parent.bases /\ "bases" \in DOMAIN parent'
  BY <1>1
<1>3. SelectedOK'
  BY <1>1 DEF SelectedOK
<1>4. QED
  BY <1>1, <1>2, <1>3

\* The parameter at hand is in the patch that was written for it.
AtHandInv ==
  setting # <<>> =>
    /\ conf # <<>> /\ UsingStacks
    /\ setting[1] \in ToSet(stackDirs[StackOf[setting[1]]].patches)
MapsInv == \A d \in DOMAIN stackDirs : DOMAIN stackDirs[d].maps \subseteq ToSet(stackDirs[d].patches)

LEMMA MapsKept ==
  ASSUME StackInv, MapsInv, NEW d, NEW k, stackDirs' = With(stackDirs, d, k),
         k.maps = StackDir(d).maps, ToSet(StackDir(d).patches) \subseteq ToSet(k.patches)
  PROVE  MapsInv' /\ d \in DOMAIN stackDirs' /\ stackDirs'[d] = k
<1>1. /\ DOMAIN stackDirs' = DOMAIN stackDirs \cup {d} /\ stackDirs'[d] = k
      /\ \A e \in DOMAIN stackDirs \ {d} : stackDirs'[e] = stackDirs[e]
  BY DEF With
<1>2. DOMAIN k.maps \subseteq ToSet(k.patches)
  <2>1. CASE d \in DOMAIN stackDirs
    BY <2>1 DEF StackDir, MapsInv
  <2>2. CASE d \notin DOMAIN stackDirs
    <3>1. DOMAIN StackDir(d).maps = {}
      BY <2>2 DEF StackDir, NoStack
    <3>2. QED
      BY <3>1
  <2>3. QED
    BY <2>1, <2>2
<1>3. QED
  BY <1>1, <1>2 DEF MapsInv

LEMMA SettingStepType == StackInv /\ AtHandInv /\ MapsInv /\ SettingStep => AtHandInv' /\ MapsInv'
<1> SUFFICES ASSUME StackInv, AtHandInv, MapsInv, SettingStep PROVE AtHandInv' /\ MapsInv'
  OBVIOUS
<1>1. CASE setting = <<>> /\ setting' = <<>> /\ UNCHANGED stackDirs
  BY <1>1 DEF AtHandInv, MapsInv
<1>2. CASE StopSettings
  BY <1>2 DEF StopSettings, AtHandInv, MapsInv
<1>3. CASE WriteConfigMap
  <2> DEFINE a == setting[1]
             d == StackOf[a]
             maps == stackDirs[d].maps
             had == IF a \in DOMAIN maps THEN maps[a] ELSE <<>>
             table == With(had, setting[2], setting[3])
             new == With(maps, a, table)
  <2>1. setting # <<>> /\ setting' = <<>> /\ stackDirs' = [stackDirs EXCEPT ![d].maps = new]
    BY <1>3 DEF WriteConfigMap
  <2>2. d \in DOMAIN stackDirs /\ a \in ToSet(stackDirs[d].patches) /\ DOMAIN stackDirs[d] = {"bases", "patches", "maps"}
    BY <2>1 DEF StackInv, SettingOK, StacksOK, AtHandInv
  <2>3. DOMAIN new = DOMAIN maps \cup {a}
    BY DEF With
  <2>4. DOMAIN maps \subseteq ToSet(stackDirs[d].patches)
    BY <2>2 DEF MapsInv
  <2> HIDE DEF new, d, a, maps
  <2>5. /\ DOMAIN stackDirs' = DOMAIN stackDirs
        /\ stackDirs'[d].maps = new /\ stackDirs'[d].patches = stackDirs[d].patches
        /\ \A e \in DOMAIN stackDirs \ {d} : stackDirs'[e] = stackDirs[e]
    BY <2>1, <2>2
  <2>6. MapsInv'
    BY <2>2, <2>3, <2>4, <2>5 DEF MapsInv
  <2>7. QED
    BY <2>1, <2>6 DEF AtHandInv
<1>4. ASSUME NEW a \in StackApps, GenerateStack(a) PROVE AtHandInv' /\ MapsInv'
  <2> DEFINE k == AddStackBase(StackDir(a), a)
  <2>1. setting' = <<>> /\ stackDirs' = With(stackDirs, a, k)
    BY <1>4 DEF GenerateStack
  <2>2. k.maps = StackDir(a).maps /\ k.patches = StackDir(a).patches
    BY StackDirIs DEF AddStackBase
  <2> HIDE DEF k
  <2>3. MapsInv'
    BY <2>1, <2>2, MapsKept
  <2>4. QED
    BY <2>1, <2>3 DEF AtHandInv
<1>5. ASSUME NEW a \in StackApps, NEW p \in ParamNames, NEW v \in SettingValues, SetApplicationParameter(a, p, v),
             UsingStacks
      PROVE  AtHandInv' /\ MapsInv'
  <2> DEFINE d == StackOf[a]
             old == StackDir(d).patches
             patches == Added(old, a)
             k == [StackDir(d) EXCEPT !.patches = patches]
  <2>1. stackDirs' = With(stackDirs, d, k) /\ setting' = <<a, p, v>> /\ UNCHANGED conf /\ conf # <<>>
    BY <1>5 DEF SetApplicationParameter, AddPatch, Added, Running, NoCommand
  <2>2. ToSet(patches) = ToSet(StackDir(d).patches) \cup {a}
    <3>1. old \in Seq(StackApps) /\ IsInjective(old)
      BY StackDirIs
    <3> HIDE DEF old
    <3>2. ToSet(patches) = ToSet(old) \cup {a}
      BY <3>1, AddOnce
    <3>3. QED
      BY <3>2 DEF old
  <2> HIDE DEF patches
  <2>3. k.maps = StackDir(d).maps /\ k.patches = patches
    BY StackDirIs
  <2> HIDE DEF k, d
  <2>4. MapsInv' /\ stackDirs'[d] = k
    BY <2>1, <2>2, <2>3, MapsKept
  <2>5. setting' # <<>> /\ setting'[1] = a
    BY <2>1
  <2>6. UsingStacks'
    BY <1>5, <2>1 DEF UsingStacks
  <2>7. QED
    BY <2>1, <2>2, <2>3, <2>4, <2>5, <2>6 DEF AtHandInv, d
<1>6. ASSUME NEW a \in StackApps, NEW p \in ParamNames, NEW v \in SettingValues, SetApplicationParameter(a, p, v)
      PROVE  AtHandInv' /\ MapsInv'
  <2>1. UsingStacks \/ (setting = <<>> /\ setting' = <<>> /\ UNCHANGED stackDirs)
    BY <1>6 DEF SetApplicationParameter
  <2>2. QED
    BY <1>1, <1>5, <1>6, <2>1
<1>7. CASE LoadSettings
  BY <1>7 DEF LoadSettings, AtHandInv, MapsInv, Running, NoCommand
<1>8. CASE WriteSettings \/ EndSettings
  BY <1>1, <1>8 DEF WriteSettings, EndSettings
<1>9. ASSUME NEW a \in StackApps, DeleteApplication(a) PROVE AtHandInv' /\ MapsInv'
  BY <1>1, <1>9 DEF DeleteApplication
<1>10. ASSUME NEW a \in StackApps, NEW o \in OverlayNames, NEW add \in BOOLEAN, SetOverlay(a, o, add)
       PROVE  AtHandInv' /\ MapsInv'
  BY <1>1, <1>10 DEF SetOverlay
<1>11. ASSUME NEW k \in Platforms, NEW v \in SettingValues, SetPluginSpec(k, v) PROVE AtHandInv' /\ MapsInv'
  BY <1>1, <1>11 DEF SetPluginSpec
<1>12. ASSUME NEW n \in SecretNames, NEW src \in SetSources, SetSecret(n, src) PROVE AtHandInv' /\ MapsInv'
  BY <1>1, <1>12 DEF SetSecret
<1>13. QED
  BY <1>2, <1>3, <1>4, <1>6, <1>7, <1>8, <1>9, <1>10, <1>11, <1>12 DEF SettingStep, StackApps

\* Manifests are made of one configuration, and what was edited is there.
BuiltInv ==
  /\ edited \subseteq DOMAIN newDirs
  /\ \A h \in DOMAIN newDirs : newDirs[h].built = {} \/ \E cfg : newDirs[h].built = {cfg}

LEMMA BuiltStep == UpgradeInv /\ BuiltInv /\ UpgradeStep => BuiltInv'
<1> SUFFICES ASSUME UpgradeInv, BuiltInv, UpgradeStep PROVE BuiltInv'
  OBVIOUS
<1> USE DEF UpgradeInv, UpgradeTypeInv
<1>1. CASE UNCHANGED <<newDirs, edited>>
  BY <1>1 DEF BuiltInv
<1>2. CASE NewKfUpgrade
  <2>1. CASE UNCHANGED <<newDirs, edited>>
    BY <2>1 DEF BuiltInv
  <2>2. CASE CreateNewKfApp
    <3> DEFINE h == MergeKfCfg
               built == IF h \in DOMAIN newDirs THEN newDirs[h].built ELSE NotBuilt
               text == [h EXCEPT !.version = NewVersion]
               new == [file |-> text, built |-> built]
    <3>1. /\ newDirs' = [d \in DOMAIN newDirs \cup {h} |-> IF d = h THEN new ELSE newDirs[d]]
          /\ edited' \subseteq edited
      BY <2>2 DEF CreateNewKfApp
    <3>2. built = {} \/ \E cfg : built = {cfg}
      BY DEF BuiltInv, NotBuilt
    <3> HIDE DEF h, built, text
    <3>3. new.built = built
      OBVIOUS
    <3> HIDE DEF new
    <3>4. /\ DOMAIN newDirs' = DOMAIN newDirs \cup {h} /\ newDirs'[h] = new
          /\ \A d \in DOMAIN newDirs \ {h} : newDirs'[d] = newDirs[d]
      BY <3>1
    <3>5. QED
      BY <3>1, <3>2, <3>3, <3>4 DEF BuiltInv
  <2>3. QED
    BY <1>2, <2>1, <2>2 DEF NewKfUpgrade
<1>3. CASE UpgradeGenerate
  <2> DEFINE h == upgrade.target
             built == IF newDirs[h].built = NotBuilt THEN {newDirs[h].file} ELSE newDirs[h].built
  <2>1. h \in DOMAIN newDirs /\ newDirs[h] \in [file : Config, built : SUBSET Config]
    BY <1>3 DEF UpgradeGenerate, ReachedInv, NewDirsOK, UpgradePCs
  <2>2. newDirs' = [newDirs EXCEPT ![h].built = built] /\ edited' = edited
    BY <1>3 DEF UpgradeGenerate
  <2>3. built = {} \/ \E cfg : built = {cfg}
    BY <2>1 DEF BuiltInv
  <2> HIDE DEF h, built
  <2>4. /\ DOMAIN newDirs' = DOMAIN newDirs /\ newDirs'[h].built = built
        /\ \A d \in DOMAIN newDirs \ {h} : newDirs'[d] = newDirs[d]
    BY <2>1, <2>2
  <2>5. QED
    BY <2>2, <2>3, <2>4 DEF BuiltInv
<1>4. CASE EditUpgrade
  <2>1. DOMAIN newDirs' = DOMAIN newDirs /\ \A h \in DOMAIN newDirs : newDirs'[h].built = newDirs[h].built
    <3>1. CASE UNCHANGED newDirs
      BY <3>1
    <3>2. ASSUME NEW h \in DOMAIN newDirs, NEW p, NEW v, newDirs' = [newDirs EXCEPT ![h].file.params[p] = v]
          PROVE  DOMAIN newDirs' = DOMAIN newDirs /\ \A e \in DOMAIN newDirs : newDirs'[e].built = newDirs[e].built
      <4> DEFINE text == [newDirs[h].file EXCEPT !.params[p] = v]
      <4>1. newDirs' = [newDirs EXCEPT ![h].file = text]
        BY <3>2
      <4>2. newDirs[h] \in [file : Config, built : SUBSET Config]
        BY DEF NewDirsOK
      <4> HIDE DEF text
      <4>3. QED
        BY <4>1, <4>2
    <3>3. QED
      BY <1>4, <3>1, <3>2 DEF EditUpgrade
  <2>2. edited' = edited \cup DOMAIN newDirs
    BY <1>4 DEF EditUpgrade
  <2>3. QED
    BY <2>1, <2>2 DEF BuiltInv
<1>5. QED
  BY <1>1, <1>2, <1>3, <1>4 DEF UpgradeStep, BeginUpgrade, DeleteOld, DeleteIstio, ApplyNew, Upgraded, EndUpgrade, StopUpgrade

\* The images by themselves.
LEMMA ImageStepType == ImageTypeOK /\ ImageStep => ImageTypeOK'
<1> SUFFICES ASSUME ImageTypeOK, ImageStep PROVE ImageTypeOK'
  OBVIOUS
<1> USE DEF ImageTypeOK
<1>1. CASE MirrorBuild \/ ReadPipeline
  BY <1>1, ImageAssumption DEF MirrorBuild, ReadPipeline
<1>2. CASE StartSetName \/ StopTool \/ Regenerate
  BY <1>2 DEF StartSetName, StopTool, Regenerate
<1>3. ASSUME NEW d \in ImageDirs, Overwrite(d) \/ RemoveKustomization(d) \/ WriteKustomization(d)
      PROVE  ImageTypeOK'
  BY <1>3 DEF Overwrite, RemoveKustomization, WriteKustomization
<1>4. ASSUME NEW n \in DOMAIN file, RunTask(n) PROVE ImageTypeOK'
  BY <1>4 DEF RunTask
<1>5. ASSUME NEW p \in printed, CopyPrinted(p) PROVE ImageTypeOK'
  BY <1>5 DEF CopyPrinted
<1>6. QED
  BY <1>1, <1>2, <1>3, <1>4, <1>5 DEF ImageStep

TypeInv ==
  /\ subject \in Subjects
  /\ MergeTypeInv /\ AtHandInv /\ MapsInv /\ BuiltInv /\ ImageTypeOK

LEMMA TypeInvInit == ConfigurationInit => TypeInv
<1> SUFFICES ASSUME ConfigurationInit PROVE TypeInv
  OBVIOUS
<1>1. subject \in Subjects /\ MergeTypeInv
  BY MergeInitType DEF ConfigurationInit
<1>2. AtHandInv /\ MapsInv
  BY DEF ConfigurationInit, SettingInit, AtHandInv, MapsInv
<1>3. BuiltInv
  BY DEF ConfigurationInit, UpgradeInit, BuiltInv
<1>4. ImageTypeOK
  BY DEF ConfigurationInit, ImageInit, ImageTypeOK
<1>5. QED
  BY <1>1, <1>2, <1>3, <1>4 DEF TypeInv

LEMMA TypeInvStep ==
  ASSUME TypeInv, StackInv, UpgradeInv, [ConfigurationNext]_configurationVars PROVE TypeInv'
<1> USE DEF TypeInv
<1>1. subject' \in Subjects
  BY DEF ConfigurationNext, configurationVars
<1>2. MergeTypeInv'
  <2>1. CASE MergeStep
    BY <2>1, MergeNextType, WriteMergedType DEF MergeStep
  <2>2. CASE UNCHANGED mergeVars
    BY <2>2 DEF mergeVars, MergeTypeInv, MergeTypeOK, SelectedOK
  <2>3. QED
    BY <2>1, <2>2 DEF ConfigurationNext, configurationVars
<1>3. AtHandInv' /\ MapsInv'
  <2>1. CASE SettingStep
    BY <2>1, SettingStepType
  <2>2. CASE UNCHANGED settingVars
    BY <2>2 DEF settingVars, AtHandInv, MapsInv, UsingStacks
  <2>3. QED
    BY <2>1, <2>2 DEF ConfigurationNext, configurationVars
<1>4. BuiltInv'
  <2>1. CASE UpgradeStep
    BY <2>1, BuiltStep
  <2>2. CASE UNCHANGED upgradeVars
    BY <2>2 DEF upgradeVars, BuiltInv
  <2>3. QED
    BY <2>1, <2>2 DEF ConfigurationNext, configurationVars
<1>5. ImageTypeOK'
  <2>1. CASE ImageStep
    BY <2>1, ImageStepType
  <2>2. CASE UNCHANGED imageVars
    BY <2>2 DEF imageVars, ImageTypeOK
  <2>3. QED
    BY <2>1, <2>2 DEF ConfigurationNext, configurationVars
<1>6. QED
  BY <1>1, <1>2, <1>3, <1>4, <1>5

LEMMA TypesAlways == ConfigurationSpec => []TypeInv
<1>1. ConfigurationInit => TypeInv
  BY TypeInvInit
<1>2. TypeInv /\ StackInv /\ UpgradeInv /\ [ConfigurationNext]_configurationVars => TypeInv'
  BY TypeInvStep
<1>3. QED
  BY <1>1, <1>2, StackAlways, UpgradeAlways, PTL DEF ConfigurationSpec

\* The lists of a configuration have each name once, a parameter at hand belongs to
\* a stack whose patch is written, the bases of a kustomization under construction
\* are known, an upgrade has its directory, and manifests of one configuration, and
\* a command on the images the directories it has still to visit.
THEOREM ConfigurationTypesHold == ConfigurationSpec => []ConfigurationTypeOK
<1>1. TypeInv /\ StackInv /\ UpgradeInv /\ ReadInv => ConfigurationTypeOK
  <2> SUFFICES ASSUME TypeInv, StackInv, UpgradeInv, ReadInv PROVE ConfigurationTypeOK
    OBVIOUS
  <2>1. SettingTypeOK
    BY DEF TypeInv, AtHandInv, MapsInv, ReadInv, AppsOK, PluginsOK, SettingTypeOK, Running, NoCommand
  <2>2. UpgradeTypeOK
    <3>1. \A h \in DOMAIN newDirs : Cardinality(newDirs[h].built) <= 1
      <4>1. Cardinality({}) = 0 /\ \A cfg : Cardinality({cfg}) = 1
        BY FS_EmptySet, FS_Singleton
      <4>2. \A h \in DOMAIN newDirs : Cardinality(newDirs[h].built) \in {0, 1}
        BY <4>1 DEF TypeInv, BuiltInv
      <4>3. QED
        BY <4>2
    <3>2. upgrade.at # "idle" /\ upgrade.at # "find" => upgrade.target \in DOMAIN newDirs
      BY DEF UpgradeInv, UpgradeTypeInv, UpgradeOK, ReachedInv
    <3>3. QED
      BY <3>1, <3>2 DEF UpgradeTypeOK, TypeInv, BuiltInv, UpgradeInv, ReachedInv
  <2>3. QED
    BY <2>1, <2>2 DEF ConfigurationTypeOK, TypeInv, MergeTypeInv
<1>2. QED
  BY <1>1, TypesAlways, StackAlways, UpgradeAlways, ReadAlways, PTL

-----------------------------------------------------------------------------
(* The kustomization of an application: what is added to its lists *)

Files == (DOMAIN comp) \X STRING

LEMMA InDirIs ==
  ASSUME NEW D, NEW d \in D, NEW fs \in Seq(STRING)
  PROVE  /\ InDir(d, fs) \in Seq(D \X STRING) /\ \A x \in ToSet(InDir(d, fs)) : x[1] = d
         /\ IsInjective(fs) => IsInjective(InDir(d, fs))
<1> DEFINE new == InDir(d, fs)
<1>1. DOMAIN fs = 1..Len(fs) /\ Len(fs) \in Nat /\ \A i \in DOMAIN fs : fs[i] \in STRING
  OBVIOUS
<1>2. new = [i \in 1..Len(fs) |-> <<d, fs[i]>>]
  BY <1>1 DEF InDir
<1>3. \A i \in 1..Len(fs) : <<d, fs[i]>> \in D \X STRING
  BY <1>1
<1>4. new \in Seq(D \X STRING)
  <2> DEFINE T == D \X STRING
  <2>1. new \in [1..Len(fs) -> T]
    BY <1>2, <1>3
  <2> HIDE DEF T, new
  <2>2. new \in Seq(T)
    BY <1>1, <2>1
  <2>3. QED
    BY <2>2 DEF T
<1>5. \A i \in DOMAIN new : i \in DOMAIN fs /\ new[i] = <<d, fs[i]>>
  BY <1>1, <1>2
<1> HIDE DEF new
<1>6. QED
  BY <1>4, <1>5 DEF new, ToSet, IsInjective

\* All of a list is added that has nothing twice and nothing that is there.
LEMMA AddedAll ==
  ASSUME NEW S, NEW seq \in Seq(S), NEW new \in Seq(S), IsInjective(seq), IsInjective(new),
         ToSet(seq) \cap ToSet(new) = {}
  PROVE  /\ AddBy(Itself, seq, new) \in Seq(S) /\ IsInjective(AddBy(Itself, seq, new))
         /\ ToSet(AddBy(Itself, seq, new)) = ToSet(seq) \cup ToSet(new)
<1> DEFINE I == {i \in DOMAIN new : \A x \in ToSet(seq) \cup {new[j] : j \in 1..i - 1} : x # new[i]}
           kept == KeptAt(new, I)
<1>1. AddBy(Itself, seq, new) = seq \o kept
  BY DEF AddBy, Itself
<1>2. I = DOMAIN new
  <2>1. ASSUME NEW i \in DOMAIN new, NEW x \in ToSet(seq) \cup {new[j] : j \in 1..i - 1} PROVE x # new[i]
    <3>1. new[i] \in ToSet(new)
      BY DEF ToSet
    <3>2. \A j \in 1..i - 1 : j \in DOMAIN new /\ j # i
      OBVIOUS
    <3>3. QED
      BY <3>1, <3>2 DEF IsInjective
  <2>2. QED
    BY <2>1
<1> HIDE DEF I
<1>3. kept \in Seq(S) /\ ToSet(kept) = ToSet(new) /\ IsInjective(kept)
  <2>1. kept \in Seq(S) /\ ToSet(kept) = {new[i] : i \in I} /\ IsInjective(kept)
    BY <1>2, KeptPart
  <2>2. ToSet(new) = {new[i] : i \in DOMAIN new}
    BY DEF ToSet
  <2>3. QED
    BY <1>2, <2>1, <2>2
<1> HIDE DEF kept
<1>4. QED
  BY <1>1, <1>3, Joined

\* Of a list with keys, those are added whose key is not there.
Keyed == [path : Files, name : STRING, kind : STRING]
LEMMA AddedKeyed ==
  ASSUME NEW seq \in Seq(Keyed), NEW new \in Seq(Keyed),
         \A i \in DOMAIN seq, j \in DOMAIN new : seq[i].path # new[j].path,
         \A i, j \in DOMAIN new : new[i].path = new[j].path /\ new[i].name = new[j].name => new[i] = new[j]
  PROVE  \E kept \in Seq(Keyed) :
           AddBy(PathAndName, seq, new) = seq \o kept /\ ToSet(kept) = ToSet(new) /\ IsInjective(kept)
<1> DEFINE Key(x) == <<x.path, x.name>>
           I == {i \in DOMAIN new : \A x \in ToSet(seq) \cup {new[j] : j \in 1..i - 1} : Key(x) # Key(new[i])}
           kept == KeptAt(new, I)
<1>1. AddBy(PathAndName, seq, new) = seq \o kept
  BY DEF AddBy, PathAndName
<1>2. I \in SUBSET (DOMAIN new)
  OBVIOUS
<1>3. PICK g \in [1..Len(kept) -> I] :
        /\ \A j \in 1..Len(kept) : kept[j] = new[g[j]]
        /\ \A j, k \in 1..Len(kept) : j < k => g[j] < g[k]
        /\ \A i \in I : \E j \in 1..Len(kept) : g[j] = i
  <2> HIDE DEF I
  <2>1. \E g : Places(g, kept, new, I)
    BY <1>2, KeptIs
  <2> HIDE DEF kept
  <2>2. QED
    BY <2>1 DEF Places
<1>4. kept \in Seq(Keyed) /\ ToSet(kept) = {new[i] : i \in I}
  <2> HIDE DEF I
  <2>1. QED
    BY <1>2, KeptPart
<1>5. DOMAIN new = 1..Len(new) /\ Len(new) \in Nat
  OBVIOUS
<1>6. \A i \in I : i \in DOMAIN new /\ \A j \in 1..i - 1 : Key(new[j]) # Key(new[i])
  OBVIOUS
<1>7. ASSUME NEW i \in DOMAIN new PROVE \E k \in I : new[k] = new[i]
  <2> DEFINE T == {k \in 1..Len(new) : Key(new[k]) = Key(new[i])}
  <2>1. T \in SUBSET Nat /\ T # {}
    BY <1>5
  <2>2. PICK k \in T : \A l \in T : k <= l
    <3> HIDE DEF T
    <3>1. QED
      BY <2>1, Smallest
  <2>3. k \in DOMAIN new /\ new[k] = new[i]
    BY <1>5, <2>2
  <2>4. \A j \in 1..k - 1 : Key(new[j]) # Key(new[k])
    <3>1. ASSUME NEW j \in 1..k - 1, Key(new[j]) = Key(new[k]) PROVE FALSE
      <4>1. j \in T
        BY <1>5, <2>2, <3>1
      <4>2. k <= j /\ k \in Nat
        BY <2>1, <2>2, <4>1
      <4>3. QED
        BY <3>1, <4>2
    <3>2. QED
      BY <3>1
  <2>5. \A x \in ToSet(seq) : Key(x) # Key(new[k])
    BY <2>3 DEF ToSet
  <2>6. k \in I
    BY <2>3, <2>4, <2>5
  <2>7. QED
    BY <2>3, <2>6
<1> HIDE DEF I
<1>8. ToSet(kept) = ToSet(new)
  <2>1. ToSet(new) = {new[i] : i \in DOMAIN new}
    BY DEF ToSet
  <2> HIDE DEF kept
  <2>2. QED
    BY <1>2, <1>4, <1>7, <2>1
<1>9. IsInjective(kept)
  <2>1. DOMAIN kept = 1..Len(kept) /\ Len(kept) \in Nat
    BY <1>4
  <2>2. ASSUME NEW j \in 1..Len(kept), NEW k \in 1..Len(kept), j < k PROVE kept[j] # kept[k]
    <3>1. g[j] \in I /\ g[k] \in I /\ g[j] < g[k] /\ kept[j] = new[g[j]] /\ kept[k] = new[g[k]]
      BY <1>3, <2>2
    <3>2. g[j] \in 1..g[k] - 1
      BY <1>2, <1>5, <3>1
    <3>3. Key(new[g[j]]) # Key(new[g[k]])
      BY <1>6, <3>1, <3>2
    <3>4. QED
      BY <3>1, <3>3
  <2> HIDE DEF kept
  <2>3. QED
    BY <2>1, <2>2 DEF IsInjective
<1>10. QED
  BY <1>1, <1>4, <1>8, <1>9

-----------------------------------------------------------------------------
(* The kustomization of an application: what has been merged *)

\* The directories one after the other, those that are merged, and of some those
\* whose entries are listed.
Merging(k)  == IF k = 0 THEN "base" ELSE selected[k]
MergedDirs  == {Merging(k) : k \in 0..mergeAt - 1}
Listed(dirs) == {d \in dirs : comp[d].bases # <<>>}
NamespaceIs == IF "namespace" \in DOMAIN given /\ given["namespace"] # "" THEN given["namespace"] ELSE "own"

PatchOf(d, p) == [path |-> <<d, p.file>>, name |-> p.name, kind |-> p.kind]
PatchesOf(d)  == {PatchOf(d, p) : p \in ToSet(comp[d].json)}

\* The patches of one overlay are before those of the next.
OrderedInv ==
  \A i, j \in DOMAIN parent.json : \A a, b \in 1..mergeAt - 1 :
    parent.json[i].path[1] = selected[a] /\ parent.json[j].path[1] = selected[b] /\ a < b => i < j
JsonInv ==
  /\ parent.json \in Seq(Keyed) /\ IsInjective(parent.json)
  /\ ToSet(parent.json) = UNION {PatchesOf(d) : d \in Listed(MergedDirs)}
  /\ OrderedInv
AggregatedInv ==
  \A i \in DOMAIN selected : comp[selected[i]].bases # <<>> =>
    \A p \in ToSet(comp[selected[i]].json) : PatchInOrder(i, p)

BasesInv ==
  /\ parent.bases \in Seq(DOMAIN comp) /\ IsInjective(parent.bases)
  /\ ToSet(parent.bases) = MergedDirs \ Listed(MergedDirs)
ResourcesInv ==
  /\ parent.resources \in Seq(Files) /\ IsInjective(parent.resources)
  /\ ToSet(parent.resources) = UNION {ToSet(InDir(d, comp[d].resources)) : d \in Listed(MergedDirs)}
NamespaceInv ==
  \A d \in MergedDirs : "namespace" \in DOMAIN env[d] => env[d]["namespace"] = NamespaceIs

MergeInv ==
  /\ {"bases", "resources", "json", "namespace"} \subseteq DOMAIN parent
  /\ MergedDirs \subseteq DOMAIN comp /\ known = MergedDirs
  /\ BasesInv /\ ResourcesInv /\ NamespaceInv
  /\ merged = "working" => JsonInv
  /\ merged = "written" => mergeAt = Len(selected) + 1 /\ parent.namespace = NamespaceIs /\ AggregatedInv

LEMMA MergeInitInv == MergeInit => MergeInv
<1> SUFFICES ASSUME MergeInit PROVE MergeInv
  OBVIOUS
<1> USE DEF MergeInit
<1>1. MergedDirs = {} /\ Listed(MergedDirs) = {}
  BY DEF MergedDirs, Listed
<1>2. /\ parent.bases = <<>> /\ parent.resources = <<>> /\ parent.json = <<>>
      /\ {"bases", "resources", "json", "namespace"} \subseteq DOMAIN parent
  BY DEF EmptyParent
<1>3. DOMAIN <<>> = {} /\ ToSet(<<>>) = {} /\ IsInjective(<<>>)
  BY DEF ToSet, IsInjective
<1>4. BasesInv /\ ResourcesInv /\ NamespaceInv
  BY <1>1, <1>2, <1>3 DEF BasesInv, ResourcesInv, NamespaceInv
<1>5. JsonInv
  BY <1>1, <1>2, <1>3 DEF JsonInv, OrderedInv
<1>6. QED
  BY <1>1, <1>2, <1>4, <1>5 DEF MergeInv

\* The next directory is another one; what an overlay builds on is merged before.
LEMMA NextDir ==
  ASSUME MergeTypeInv, mergeAt <= Len(selected)
  PROVE  /\ Merging(mergeAt) \notin MergedDirs
         /\ mergeAt # 0 => Merging(mergeAt) = selected[mergeAt] /\ mergeAt \in 1..Len(selected)
         /\ {Merging(k) : k \in 0..mergeAt} = MergedDirs \cup {Merging(mergeAt)}
         /\ mergeAt # 0 => "base" \in MergedDirs
<1>1. mergeAt \in Nat /\ SelectedOK
  BY SelectedIs DEF MergeTypeInv, MergeTypeOK
<1>2. ASSUME NEW k \in 0..mergeAt - 1 PROVE Merging(k) # Merging(mergeAt)
  <2>1. Len(selected) \in Nat /\ mergeAt \in 1..Len(selected) /\ (k = 0 \/ k \in 1..Len(selected))
    BY <1>1, <1>2, SelectedIs
  <2>2. selected[mergeAt] # "base"
    BY <1>1, <2>1, SelectedIs
  <2>3. k # 0 => selected[k] # selected[mergeAt]
    BY <1>1, <1>2, <2>1, SelectedIs
  <2>4. QED
    BY <2>1, <2>2, <2>3 DEF Merging
<1>3. Merging(mergeAt) \notin MergedDirs
  BY <1>2 DEF MergedDirs
<1>4. mergeAt # 0 => Merging(mergeAt) = selected[mergeAt] /\ mergeAt \in 1..Len(selected)
  BY <1>1, SelectedIs DEF Merging
<1>5. 0..mergeAt = (0..mergeAt - 1) \cup {mergeAt}
  BY <1>1
<1>6. {Merging(k) : k \in 0..mergeAt} = MergedDirs \cup {Merging(mergeAt)}
  BY <1>5 DEF MergedDirs
<1>7. mergeAt # 0 => "base" \in MergedDirs
  <2>1. mergeAt # 0 => 0 \in 0..mergeAt - 1
    BY <1>1
  <2>2. QED
    BY <2>1 DEF MergedDirs, Merging
<1>8. QED
  BY <1>3, <1>4, <1>6, <1>7

LEMMA BuiltOnMerged ==
  ASSUME MergeTypeInv, Mergeable, BaseFirst, mergeAt <= Len(selected), Merging(mergeAt) \in DOMAIN comp,
         comp[Merging(mergeAt)].bases # <<>>
  PROVE  mergeAt # 0 /\ ToSet(comp[Merging(mergeAt)].bases) \subseteq MergedDirs
<1>1. mergeAt # 0
  BY DEF Mergeable, Merging, MergeTypeInv, MergeTypeOK
<1>2. /\ mergeAt \in 1..Len(selected) /\ Merging(mergeAt) = selected[mergeAt] /\ "base" \in MergedDirs
      /\ DOMAIN selected = 1..Len(selected) /\ Len(selected) \in Nat
  BY <1>1, NextDir, SelectedIs DEF MergeTypeInv
<1>3. ASSUME NEW b \in ToSet(comp[selected[mergeAt]].bases) PROVE b \in MergedDirs
  <2>1. CASE b = "base"
    BY <1>2, <2>1
  <2>2. ASSUME NEW j \in 1..mergeAt - 1, selected[j] = b PROVE b \in MergedDirs
    <3>1. j \in 0..mergeAt - 1 /\ Merging(j) = b
      BY <1>2, <2>2 DEF Merging
    <3>2. QED
      BY <3>1 DEF MergedDirs
  <2>3. QED
    BY <1>2, <1>3, <2>1, <2>2 DEF BaseFirst
<1>4. QED
  BY <1>1, <1>2, <1>3

-----------------------------------------------------------------------------
(* The kustomization of an application: its steps *)

LEMMA NamespaceNext ==
  ASSUME MergeTypeInv, NamespaceInv, NEW d \in DOMAIN comp, env' = [env EXCEPT ![d] = UpdateParamFile(d)],
         UNCHANGED given, MergedDirs' = MergedDirs \cup {d}
  PROVE  NamespaceInv'
<1> DEFINE values == UpdateParamFile(d)
<1>1. DOMAIN values = DOMAIN env[d] /\ ("namespace" \in DOMAIN values => values["namespace"] = NamespaceIs)
  BY DEF UpdateParamFile, NamespaceIs
<1> HIDE DEF values
<1>2. env'[d] = values /\ \A e \in DOMAIN comp \ {d} : env'[e] = env[e]
  BY DEF MergeTypeInv, MergeTypeOK, values
<1>3. NamespaceIs' = NamespaceIs
  BY DEF NamespaceIs
<1>4. ASSUME NEW e \in MergedDirs', "namespace" \in DOMAIN env'[e] PROVE env'[e]["namespace"] = NamespaceIs
  <2>1. CASE e = d
    BY <1>1, <1>2, <1>4, <2>1
  <2>2. CASE e # d
    <3>1. env'[e] = env[e] /\ e \in MergedDirs
      BY <2>2 DEF values
    <3>2. QED
      BY <1>4, <3>1 DEF NamespaceInv
  <2>3. QED
    BY <2>1, <2>2
<1>5. QED
  BY <1>3, <1>4 DEF NamespaceInv

\* A patch belongs to the overlay it is named after.
LEMMA PatchIsOf ==
  ASSUME MergeTypeInv, MergedDirs \subseteq DOMAIN comp, JsonInv, NEW i \in DOMAIN parent.json
  PROVE  parent.json[i] \in Keyed /\ parent.json[i].path[1] \in Listed(MergedDirs)
<1>1. parent.json[i] \in ToSet(parent.json) /\ parent.json[i] \in Keyed
  BY DEF JsonInv, ToSet
<1>2. PICK e \in Listed(MergedDirs) : parent.json[i] \in PatchesOf(e)
  BY <1>1 DEF JsonInv
<1>3. PICK p : parent.json[i] = PatchOf(e, p)
  BY <1>2 DEF PatchesOf
<1>4. QED
  BY <1>1, <1>2, <1>3 DEF PatchOf

\* A directory without bases becomes one.
LEMMA BecomesBase ==
  ASSUME MergeTypeInv, MergeInv, merged = "working", NEW d \in DOMAIN comp, d \notin MergedDirs,
         comp[d].bases = <<>>,
         MergeKustomization(d), UNCHANGED <<comp, selected, given, merged>>, mergeAt' = mergeAt + 1,
         mergeAt <= Len(selected), d = Merging(mergeAt), MergedDirs' = MergedDirs \cup {d}
  PROVE  MergeInv'
<1> DEFINE old == parent.bases
           new == Append(old, d)
<1>1. known' = known \cup {d} /\ parent' = [parent EXCEPT !.bases = new]
  BY DEF MergeKustomization, MergeInv
<1>2. old \in Seq(DOMAIN comp) /\ IsInjective(old) /\ ToSet(old) = MergedDirs \ Listed(MergedDirs)
  BY DEF MergeInv, BasesInv
<1> HIDE DEF old
<1>3. new = Added(old, d)
  BY <1>2 DEF Added
<1> HIDE DEF new
<1>4. new \in Seq(DOMAIN comp) /\ IsInjective(new) /\ ToSet(new) = ToSet(old) \cup {d}
  BY <1>2, <1>3, AddOnce
<1>5. /\ parent'.bases = new /\ parent'.resources = parent.resources /\ parent'.json = parent.json
      /\ DOMAIN parent' = DOMAIN parent
  BY <1>1 DEF MergeInv
<1>6. Listed(MergedDirs)' = Listed(MergedDirs) /\ d \notin Listed(MergedDirs)
  BY DEF Listed
<1>7. BasesInv'
  BY <1>2, <1>4, <1>5, <1>6 DEF BasesInv
<1>8. ResourcesInv'
  <2>1. \A e : InDir(e, comp[e].resources)' = InDir(e, comp[e].resources)
    BY DEF InDir
  <2>2. Files' = Files
    BY DEF Files
  <2>3. QED
    BY <1>5, <1>6, <2>1, <2>2 DEF MergeInv, ResourcesInv
<1>9. NamespaceInv'
  BY NamespaceNext DEF MergeInv, MergeKustomization
<1>10. JsonInv'
  <2>1. JsonInv /\ MergedDirs \subseteq DOMAIN comp
    BY DEF MergeInv
  <2>2. \A e : PatchesOf(e)' = PatchesOf(e)
    BY DEF PatchesOf, PatchOf
  <2>3. Keyed' = Keyed
    BY DEF Keyed, Files
  <2>4. OrderedInv'
    <3> SUFFICES ASSUME NEW i \in DOMAIN parent.json, NEW j \in DOMAIN parent.json,
                        NEW a \in 1..mergeAt, NEW b \in 1..mergeAt,
                        parent.json[i].path[1] = selected[a], parent.json[j].path[1] = selected[b], a < b
                 PROVE  i < j
      <4>1. mergeAt' - 1 = mergeAt
        BY DEF MergeTypeInv, MergeTypeOK
      <4>2. QED
        BY <1>5, <4>1 DEF OrderedInv
    <3>1. parent.json[i].path[1] # d /\ parent.json[j].path[1] # d
      BY <1>6, <2>1, PatchIsOf
    <3>2. mergeAt \in Nat
      BY SelectedIs DEF MergeTypeInv, MergeTypeOK
    <3>3. a # mergeAt /\ b # mergeAt
      BY <3>1, <3>2 DEF Merging
    <3>4. a \in 1..mergeAt - 1 /\ b \in 1..mergeAt - 1
      BY <3>2, <3>3
    <3>5. QED
      BY <2>1, <3>4 DEF JsonInv, OrderedInv
  <2>5. QED
    BY <1>5, <1>6, <2>1, <2>2, <2>3, <2>4 DEF JsonInv
<1>11. QED
  BY <1>1, <1>5, <1>7, <1>8, <1>9, <1>10 DEF MergeInv

\* The entries of a directory that has bases are listed.
LEMMA EntriesListed ==
  ASSUME MergeTypeInv, MergeInv, Mergeable, BaseFirst, merged = "working",
         NEW d \in DOMAIN comp, d \notin MergedDirs, comp[d].bases # <<>>,
         MergeKustomization(d), UNCHANGED <<comp, selected, given, merged>>, mergeAt' = mergeAt + 1,
         mergeAt <= Len(selected), d = Merging(mergeAt), MergedDirs' = MergedDirs \cup {d}
  PROVE  MergeInv'
<1> DEFINE Patch(p) == [path |-> <<d, p.file>>, name |-> p.name, kind |-> p.kind]
           files == InDir(d, comp[d].resources)
           patches == [i \in DOMAIN comp[d].json |-> Patch(comp[d].json[i])]
           bases == parent.bases \o NewBases(d)
           resources == AddBy(Itself, parent.resources, files)
           json == AddBy(PathAndName, parent.json, patches)
<1>0. /\ mergeAt # 0 /\ ToSet(comp[d].bases) \subseteq MergedDirs /\ mergeAt \in Nat /\ d = selected[mergeAt]
      /\ OldBases(d) = DOMAIN comp[d].bases
  <2>1. mergeAt # 0 /\ ToSet(comp[d].bases) \subseteq MergedDirs /\ mergeAt \in Nat /\ d = selected[mergeAt]
    BY BuiltOnMerged, NextDir, SelectedIs DEF MergeTypeInv, MergeTypeOK
  <2>2. \A i \in DOMAIN comp[d].bases : comp[d].bases[i] \in known
    BY <2>1 DEF MergeInv, ToSet
  <2>3. QED
    BY <2>1, <2>2 DEF OldBases, KnownBefore
<1>1. known = MergedDirs /\ MergedDirs \subseteq DOMAIN comp /\ comp \in Components
  BY DEF MergeInv, MergeTypeInv, MergeTypeOK
<1>2. known' = known \cup {d}
  <2>1. known' = KnownAfter(d)
    BY DEF MergeKustomization
  <2>2. DOMAIN comp[d].bases # {}
    <3> DEFINE list == comp[d].bases
    <3>1. list \in Seq(DOMAIN comp) /\ list # <<>>
      BY <1>1, ComponentIs
    <3> HIDE DEF list
    <3>2. 1 \in DOMAIN list
      BY <3>1
    <3>3. QED
      BY <3>2 DEF list
  <2>3. OldBases(d) # {}
    BY <1>0, <2>2
  <2>4. QED
    BY <1>0, <1>1, <2>1, <2>3 DEF KnownAfter
<1>3. NewBases(d) = <<>>
  <2> DEFINE list == comp[d].bases
             I == DOMAIN list \ OldBases(d)
  <2>1. list \in Seq(DOMAIN comp)
    BY <1>1, ComponentIs
  <2>2. NewBases(d) = KeptAt(list, I)
    BY DEF NewBases
  <2>3. I = {}
    BY <1>0
  <2>4. I \in SUBSET (DOMAIN list)
    OBVIOUS
  <2> HIDE DEF list, I
  <2>5. QED
    BY <2>1, <2>2, <2>3, <2>4, KeptPart
<1>4. /\ parent'.bases = bases /\ parent'.resources = resources /\ parent'.json = json
      /\ DOMAIN parent' = DOMAIN parent
  <2>1. parent' = MergeEntries(d)
    BY DEF MergeKustomization
  <2>2. parent'.bases = bases /\ DOMAIN parent' = DOMAIN parent
    BY <2>1 DEF MergeEntries, MergeInv
  <2>3. parent'.resources = resources
    BY <2>1 DEF MergeEntries, MergeInv
  <2>4. parent'.json = json
    BY <2>1 DEF MergeEntries, MergeInv
  <2>5. QED
    BY <2>2, <2>3, <2>4
<1>5. Listed(MergedDirs)' = Listed(MergedDirs) \cup {d} /\ d \notin Listed(MergedDirs)
  BY DEF Listed
<1>6. BasesInv'
  <2> DEFINE old == parent.bases
  <2>1. old \in Seq(DOMAIN comp) /\ IsInjective(old) /\ ToSet(old) = MergedDirs \ Listed(MergedDirs)
    BY DEF MergeInv, BasesInv
  <2>2. parent'.bases = old \o <<>>
    BY <1>3, <1>4
  <2> HIDE DEF old
  <2>3. old \o <<>> = old
    BY <2>1
  <2>4. MergedDirs \ Listed(MergedDirs) = MergedDirs' \ Listed(MergedDirs)'
    BY <1>5
  <2>5. QED
    BY <2>1, <2>2, <2>3, <2>4 DEF BasesInv
<1>7. ResourcesInv'
  <2> DEFINE old == parent.resources
             Of(e) == ToSet(InDir(e, comp[e].resources))
  <2>1. old \in Seq(Files) /\ IsInjective(old) /\ ToSet(old) = UNION {Of(e) : e \in Listed(MergedDirs)}
    BY DEF MergeInv, ResourcesInv
  <2>2. \A e \in DOMAIN comp : comp[e].resources \in Seq(STRING) /\ IsInjective(comp[e].resources)
    BY <1>1, ComponentIs DEF Mergeable
  <2>3. files \in Seq(Files) /\ IsInjective(files)
    <3> DEFINE D == DOMAIN comp
               fs == comp[d].resources
    <3>1. d \in D /\ fs \in Seq(STRING) /\ IsInjective(fs)
      BY <2>2
    <3>2. files = InDir(d, fs) /\ Files = D \X STRING
      BY DEF Files
    <3> HIDE DEF D, fs, files
    <3>3. InDir(d, fs) \in Seq(D \X STRING) /\ IsInjective(InDir(d, fs))
      BY <3>1, InDirIs
    <3>4. QED
      BY <3>2, <3>3
  <2>4. \A e \in DOMAIN comp : \A x \in Of(e) : x[1] = e
    BY <2>2, InDirIs
  <2>5. ToSet(files) = Of(d)
    OBVIOUS
  <2>6. Listed(MergedDirs) \subseteq DOMAIN comp
    BY <1>1 DEF Listed
  <2> HIDE DEF Of
  <2>7. ToSet(old) \cap ToSet(files) = {}
    BY <1>5, <2>1, <2>4, <2>5, <2>6
  <2>8. \A e : InDir(e, comp[e].resources)' = InDir(e, comp[e].resources)
    BY DEF InDir
  <2>9. resources = AddBy(Itself, old, files)
    OBVIOUS
  <2> HIDE DEF old, files, resources
  <2>10. /\ resources \in Seq(Files) /\ IsInjective(resources)
         /\ ToSet(resources) = ToSet(old) \cup ToSet(files)
    BY <2>1, <2>3, <2>7, <2>9, AddedAll
  <2>11. UNION {Of(e) : e \in Listed(MergedDirs)'} = (UNION {Of(e) : e \in Listed(MergedDirs)}) \cup Of(d)
    BY <1>5
  <2>12. Files' = Files
    BY DEF Files
  <2>13. ToSet(parent'.resources) = UNION {Of(e) : e \in Listed(MergedDirs)'}
    BY <1>4, <2>1, <2>5, <2>10, <2>11
  <2>14. QED
    BY <1>4, <2>8, <2>10, <2>12, <2>13, ZenonT(60) DEF ResourcesInv, Of
<1>8. NamespaceInv'
  BY NamespaceNext DEF MergeInv, MergeKustomization
<1>9. JsonInv'
  <2> DEFINE old == parent.json
             list == comp[d].json
             Patches == [file : STRING, name : STRING, kind : STRING]
  <2>1. JsonInv
    BY DEF MergeInv
  <2>2. list \in Seq(Patches)
    BY <1>1, ComponentIs
  <2>3. DOMAIN patches = DOMAIN list /\ \A i \in DOMAIN list : patches[i] = PatchOf(d, list[i])
    BY DEF PatchOf
  <2>4. \A i, j \in DOMAIN list : list[i].file = list[j].file /\ list[i].name = list[j].name => list[i].kind = list[j].kind
    BY <1>1 DEF Mergeable, ToSet
  <2>5. ToSet(patches) = PatchesOf(d)
    <3>1. PatchesOf(d) = {PatchOf(d, p) : p \in ToSet(list)}
      BY DEF PatchesOf
    <3> HIDE DEF list, patches
    <3>2. QED
      BY <2>3, <3>1 DEF ToSet
  <2>6. \A p \in Patches : PatchOf(d, p) \in Keyed
    <3> TAKE p \in Patches
    <3> DEFINE path == <<d, p.file>>
    <3>1. p.file \in STRING /\ p.name \in STRING /\ p.kind \in STRING
      OBVIOUS
    <3>2. path \in Files
      BY <3>1 DEF Files
    <3> HIDE DEF path
    <3>3. [path |-> path, name |-> p.name, kind |-> p.kind] \in Keyed
      BY <3>1, <3>2 DEF Keyed
    <3>4. QED
      BY <3>3 DEF PatchOf, path
  <2>7. patches = [i \in DOMAIN patches |-> patches[i]]
    OBVIOUS
  <2> HIDE DEF list, patches, old, Patch, Patches
  <2>8. patches \in Seq(Keyed)
    <3>1. DOMAIN list = 1..Len(list) /\ Len(list) \in Nat /\ \A i \in 1..Len(list) : list[i] \in Patches
      BY <2>2
    <3>2. patches \in [1..Len(list) -> Keyed]
      BY <2>3, <2>6, <2>7, <3>1
    <3>3. QED
      BY <3>1, <3>2
  <2>9. \A i, j \in DOMAIN patches : patches[i].path = patches[j].path /\ patches[i].name = patches[j].name => patches[i] = patches[j]
    BY <2>3, <2>4 DEF PatchOf
  <2>10. \A i \in DOMAIN old : old[i].path[1] # d
    BY <1>1, <1>5, <2>1, PatchIsOf DEF old
  <2>11. \A i \in DOMAIN old, j \in DOMAIN patches : old[i].path # patches[j].path
    BY <2>3, <2>10 DEF PatchOf
  <2>12. old \in Seq(Keyed) /\ IsInjective(old)
    BY <2>1 DEF JsonInv, old
  <2>13. PICK kept \in Seq(Keyed) :
           AddBy(PathAndName, old, patches) = old \o kept /\ ToSet(kept) = ToSet(patches) /\ IsInjective(kept)
    BY <2>8, <2>9, <2>11, <2>12, AddedKeyed
  <2>14. parent'.json = old \o kept
    BY <1>4, <2>13 DEF old
  <2>15. \A x \in ToSet(kept) : x.path[1] = d
    <3>1. \A x \in ToSet(patches) : x.path[1] = d
      BY <2>3 DEF ToSet, PatchOf
    <3>2. QED
      BY <2>13, <3>1
  <2>16. ToSet(old) \cap ToSet(kept) = {}
    BY <2>10, <2>15 DEF ToSet
  <2> DEFINE new == old \o kept
  <2>17. new \in Seq(Keyed) /\ IsInjective(new) /\ ToSet(new) = ToSet(old) \cup ToSet(kept)
    BY <2>12, <2>13, <2>16, Joined
  <2>18. ToSet(new) = UNION {PatchesOf(e) : e \in Listed(MergedDirs)'}
    <3>1. ToSet(old) = UNION {PatchesOf(e) : e \in Listed(MergedDirs)}
      BY <2>1 DEF JsonInv, old
    <3>2. QED
      BY <1>5, <2>5, <2>13, <2>17, <3>1, ZenonT(60)
  <2>19. /\ \A i \in DOMAIN new : i \in DOMAIN old \/ (i > Len(old) /\ new[i].path[1] = d)
         /\ \A i \in DOMAIN old : new[i] = old[i] /\ i <= Len(old) /\ i \in Nat
         /\ Len(old) \in Nat /\ DOMAIN new \subseteq Nat
    <3>1. /\ DOMAIN new = 1..Len(old) + Len(kept) /\ DOMAIN old = 1..Len(old) /\ DOMAIN kept = 1..Len(kept)
          /\ Len(old) \in Nat /\ Len(kept) \in Nat
          /\ \A i \in DOMAIN new : new[i] = IF i <= Len(old) THEN old[i] ELSE kept[i - Len(old)]
      BY <2>12, <2>13
    <3>2. ASSUME NEW i \in DOMAIN new, i \notin DOMAIN old PROVE i > Len(old) /\ new[i].path[1] = d
      <4>1. i > Len(old) /\ i - Len(old) \in DOMAIN kept /\ new[i] = kept[i - Len(old)]
        BY <3>1, <3>2
      <4>2. QED
        BY <2>15, <4>1 DEF ToSet
    <3>3. QED
      BY <3>1, <3>2
  <2> HIDE DEF new
  <2>20. OrderedInv'
    <3> SUFFICES ASSUME NEW i \in DOMAIN new, NEW j \in DOMAIN new, NEW a \in 1..mergeAt, NEW b \in 1..mergeAt,
                        new[i].path[1] = selected[a], new[j].path[1] = selected[b], a < b
                 PROVE  i < j
      <4>1. mergeAt' - 1 = mergeAt
        BY <1>0
      <4>2. parent'.json = new
        BY <2>14 DEF new
      <4>3. QED
        BY <4>1, <4>2 DEF OrderedInv
    <3>1. \A k \in 1..mergeAt : selected[k] = d => k = mergeAt
      <4>1. \A k \in 1..mergeAt - 1 : selected[k] \in MergedDirs
        <5>1. ASSUME NEW k \in 1..mergeAt - 1 PROVE selected[k] \in MergedDirs
          <6>1. k \in 0..mergeAt - 1 /\ Merging(k) = selected[k]
            BY <1>0 DEF Merging
          <6>2. QED
            BY <6>1 DEF MergedDirs
        <5>2. QED
          BY <5>1
      <4>2. QED
        BY <1>0, <4>1
    <3>2. a \in 1..mergeAt - 1 /\ a # mergeAt
      BY <1>0
    <3>3. i \in DOMAIN old
      BY <2>19, <3>1, <3>2
    <3>4. CASE j \notin DOMAIN old
      BY <2>19, <3>3, <3>4
    <3>5. CASE j \in DOMAIN old
      <4>1. new[j] = old[j] /\ new[i] = old[i]
        BY <2>19, <3>3, <3>5
      <4>2. b # mergeAt
        BY <1>0, <2>10, <3>5, <4>1
      <4>3. b \in 1..mergeAt - 1
        BY <1>0, <4>2
      <4>4. QED
        BY <2>1, <3>2, <3>3, <3>5, <4>1, <4>3 DEF JsonInv, OrderedInv, old
    <3>6. QED
      BY <3>4, <3>5
  <2>21. (\A e : PatchesOf(e)' = PatchesOf(e)) /\ Keyed' = Keyed
    BY DEF PatchesOf, PatchOf, Keyed, Files
  <2>22. parent'.json = new
    BY <2>14 DEF new
  <2>23. QED
    BY <2>17, <2>18, <2>20, <2>21, <2>22, ZenonT(60) DEF JsonInv
<1>10. QED
  BY <1>1, <1>2, <1>4, <1>6, <1>7, <1>8, <1>9 DEF MergeInv

LEMMA MergeNextInv ==
  ASSUME MergeTypeInv, MergeInv, Mergeable, BaseFirst, MergeNext
  PROVE  MergeInv'
<1> DEFINE d == Merging(mergeAt)
<1>1. /\ merged = "working" /\ mergeAt <= Len(selected) /\ UNCHANGED <<comp, selected, given>>
      /\ \/ d \in DOMAIN comp /\ MergeKustomization(d) /\ mergeAt' = mergeAt + 1 /\ UNCHANGED merged
         \/ merged' = "failed" /\ UNCHANGED <<parent, known, env, mergeAt>>
  BY DEF MergeNext, Merging
<1>2. \A k : Merging(k)' = Merging(k)
  BY <1>1 DEF Merging
<1>3. CASE d \in DOMAIN comp /\ MergeKustomization(d) /\ mergeAt' = mergeAt + 1 /\ UNCHANGED merged
  <2>1. mergeAt \in Nat
    BY SelectedIs DEF MergeTypeInv, MergeTypeOK
  <2>2. MergedDirs' = {Merging(k) : k \in 0..mergeAt}
    <3>1. mergeAt' - 1 = mergeAt
      BY <1>3, <2>1
    <3>2. MergedDirs' = {Merging(k) : k \in 0..mergeAt' - 1}
      BY <1>2 DEF MergedDirs
    <3>3. QED
      BY <3>1, <3>2
  <2>3. MergedDirs' = MergedDirs \cup {d} /\ d \notin MergedDirs
    BY <1>1, <2>2, NextDir
  <2> HIDE DEF d
  <2>4. d = Merging(mergeAt)
    BY DEF d
  <2>5. CASE comp[d].bases = <<>>
    BY <1>1, <1>3, <2>3, <2>4, <2>5, BecomesBase
  <2>6. CASE comp[d].bases # <<>>
    BY <1>1, <1>3, <2>3, <2>4, <2>6, EntriesListed
  <2>7. QED
    BY <2>5, <2>6
<1>4. CASE merged' = "failed" /\ UNCHANGED <<parent, known, env, mergeAt>>
  <2>1. MergedDirs' = MergedDirs
    BY <1>2, <1>4 DEF MergedDirs
  <2>2. BasesInv' /\ ResourcesInv'
    BY <1>1, <1>4, <2>1 DEF MergeInv, BasesInv, ResourcesInv, Listed, Files, InDir
  <2>3. NamespaceInv'
    BY <1>1, <1>4, <2>1, ZenonT(60) DEF MergeInv, NamespaceInv, NamespaceIs
  <2>4. QED
    BY <1>1, <1>4, <2>1, <2>2, <2>3 DEF MergeInv
<1>5. QED
  BY <1>1, <1>3, <1>4

\* The patches of one target are in its aggregate in the order they had.
LEMMA InAggregate ==
  ASSUME JsonInv, NEW order, NEW k \in DOMAIN order
  PROVE  \E n \in Nat : \E g \in [1..n -> DOMAIN parent.json] :
           /\ Aggregated(order)[k].target = order[k] /\ k \in DOMAIN Aggregated(order)
           /\ DOMAIN Aggregated(order)[k].parts = 1..n
           /\ \A m \in 1..n : Aggregated(order)[k].parts[m] = parent.json[g[m]].path
                              /\ <<parent.json[g[m]].name, parent.json[g[m]].kind>> = order[k]
           /\ \A l, m \in 1..n : l < m => g[l] < g[m]
           /\ \A i \in DOMAIN parent.json :
                <<parent.json[i].name, parent.json[i].kind>> = order[k] => \E m \in 1..n : g[m] = i
<1> DEFINE seq == parent.json
           I == {i \in DOMAIN seq : <<seq[i].name, seq[i].kind>> = order[k]}
           kept == KeptAt(seq, I)
<1>1. seq \in Seq(Keyed) /\ I \in SUBSET (DOMAIN seq)
  BY DEF JsonInv
<1>2. \A i \in I : i \in DOMAIN seq /\ <<seq[i].name, seq[i].kind>> = order[k]
  OBVIOUS
<1>3. \A i \in DOMAIN seq : <<seq[i].name, seq[i].kind>> = order[k] => i \in I
  OBVIOUS
<1>4. /\ k \in DOMAIN Aggregated(order) /\ Aggregated(order)[k].target = order[k]
      /\ Aggregated(order)[k].parts = [j \in DOMAIN kept |-> kept[j].path]
  BY DEF Aggregated
<1> HIDE DEF I, seq
<1>5. kept \in Seq(Keyed) /\ \E g : Places(g, kept, seq, I)
  BY <1>1, KeptIs
<1> HIDE DEF kept
<1>6. PICK g \in [1..Len(kept) -> I] :
        /\ \A j \in 1..Len(kept) : kept[j] = seq[g[j]]
        /\ \A j, m \in 1..Len(kept) : j < m => g[j] < g[m]
        /\ \A i \in I : \E j \in 1..Len(kept) : g[j] = i
  BY <1>5 DEF Places
<1>7. DOMAIN kept = 1..Len(kept) /\ Len(kept) \in Nat
  BY <1>5
<1>8. g \in [1..Len(kept) -> DOMAIN seq]
  BY <1>2, <1>6
<1>9. /\ DOMAIN Aggregated(order)[k].parts = 1..Len(kept)
      /\ \A m \in 1..Len(kept) : Aggregated(order)[k].parts[m] = seq[g[m]].path
                                 /\ <<seq[g[m]].name, seq[g[m]].kind>> = order[k]
  BY <1>2, <1>4, <1>6, <1>7
<1>10. \A i \in DOMAIN seq : <<seq[i].name, seq[i].kind>> = order[k] => \E m \in 1..Len(kept) : g[m] = i
  BY <1>3, <1>6
<1>11. QED
  BY <1>4, <1>6, <1>7, <1>8, <1>9, <1>10, ZenonT(60) DEF seq

LEMMA PatchPlaced ==
  ASSUME MergeTypeInv, MergeInv, Mergeable, merged = "working", mergeAt = Len(selected) + 1,
         NEW order, ToSet(order) = {<<p.name, p.kind>> : p \in ToSet(parent.json)},
         NEW i \in DOMAIN selected, comp[selected[i]].bases # <<>>, NEW p \in ToSet(comp[selected[i]].json),
         parent'.json = Aggregated(order), UNCHANGED selected
  PROVE  PatchInOrder(i, p)'
<1> DEFINE d == selected[i]
           x == PatchOf(d, p)
           seq == parent.json
<1>1. JsonInv /\ MergedDirs \subseteq DOMAIN comp
  BY DEF MergeInv
<1>2. Len(selected) \in Nat /\ DOMAIN selected = 1..Len(selected)
  BY SelectedIs DEF MergeTypeInv
<1>3. d \in Listed(MergedDirs)
  <2>1. i \in 0..mergeAt - 1 /\ Merging(i) = d
    BY <1>2 DEF Merging
  <2>2. QED
    BY <2>1 DEF MergedDirs, Listed
<1>4. x.path = <<d, p.file>> /\ x.name = p.name /\ x.kind = p.kind
  BY DEF PatchOf
<1>5. PICK pos \in DOMAIN seq : seq[pos] = x
  <2>1. x \in ToSet(seq)
    BY <1>1, <1>3 DEF JsonInv, PatchesOf
  <2>2. QED
    BY <2>1 DEF ToSet
<1>6. PICK k \in DOMAIN order : order[k] = <<p.name, p.kind>>
  <2>1. <<x.name, x.kind>> \in ToSet(order)
    BY <1>5 DEF ToSet
  <2>2. QED
    BY <1>4, <2>1 DEF ToSet
<1>7. PICK n \in Nat : \E g \in [1..n -> DOMAIN seq] :
        /\ Aggregated(order)[k].target = order[k] /\ k \in DOMAIN Aggregated(order)
        /\ DOMAIN Aggregated(order)[k].parts = 1..n
        /\ \A m \in 1..n : Aggregated(order)[k].parts[m] = seq[g[m]].path
                           /\ <<seq[g[m]].name, seq[g[m]].kind>> = order[k]
        /\ \A l, m \in 1..n : l < m => g[l] < g[m]
        /\ \A j \in DOMAIN seq : <<seq[j].name, seq[j].kind>> = order[k] => \E m \in 1..n : g[m] = j
  BY <1>1, InAggregate, ZenonT(60)
<1> DEFINE agg == Aggregated(order)
<1> HIDE DEF agg, seq, x, d
<1>8. PICK g \in [1..n -> DOMAIN seq] :
        /\ agg[k].target = order[k] /\ k \in DOMAIN agg
        /\ DOMAIN agg[k].parts = 1..n
        /\ \A m \in 1..n : agg[k].parts[m] = seq[g[m]].path
                           /\ <<seq[g[m]].name, seq[g[m]].kind>> = order[k]
        /\ \A l, m \in 1..n : l < m => g[l] < g[m]
        /\ \A j \in DOMAIN seq : <<seq[j].name, seq[j].kind>> = order[k] => \E m \in 1..n : g[m] = j
  BY <1>7 DEF agg
<1>9. PICK m \in 1..n : g[m] = pos
  BY <1>4, <1>5, <1>6, <1>8
<1>10. agg[k].parts[m] = <<d, p.file>>
  BY <1>4, <1>5, <1>8, <1>9
<1>11. seq \in Seq(Keyed) /\ IsInjective(seq) /\ DOMAIN seq \subseteq Nat
  <2>1. seq \in Seq(Keyed) /\ IsInjective(seq)
    BY <1>1 DEF JsonInv, seq
  <2>2. QED
    BY <2>1
<1>12. ASSUME NEW l \in 1..n, l # m PROVE agg[k].parts[l] # agg[k].parts[m]
  <2>1. g[l] # g[m] /\ g[l] \in DOMAIN seq
    <3>1. l < m \/ m < l
      BY <1>12
    <3>2. g[l] \in Nat /\ g[m] \in Nat
      BY <1>8, <1>11
    <3>3. QED
      BY <1>8, <3>1, <3>2
  <2>2. seq[g[l]] # x /\ seq[g[l]] \in Keyed /\ x \in Keyed
    BY <1>5, <1>8, <1>9, <1>11, <2>1 DEF IsInjective
  <2>3. seq[g[l]].name = x.name /\ seq[g[l]].kind = x.kind
    BY <1>4, <1>6, <1>8
  <2>4. seq[g[l]].path # x.path
    <3> DEFINE y == seq[g[l]]
    <3> HIDE DEF y
    <3>1. y \in Keyed /\ y # x /\ y.name = x.name /\ y.kind = x.kind
      BY <2>2, <2>3 DEF y
    <3>2. y.path # x.path
      BY <2>2, <3>1 DEF Keyed
    <3>3. QED
      BY <3>2 DEF y
  <2>5. QED
    BY <1>5, <1>8, <1>9, <2>4
<1>13. ASSUME NEW l \in 1..n, l > m PROVE \E j \in i..Len(selected) : agg[k].parts[l][1] = selected[j]
  <2>1. g[l] \in DOMAIN seq /\ agg[k].parts[l] = seq[g[l]].path /\ pos < g[l]
    BY <1>8, <1>9, <1>13
  <2>2. seq[g[l]].path[1] \in Listed(MergedDirs)
    BY <1>1, <2>1, PatchIsOf DEF seq
  <2>3. PICK b \in 0..mergeAt - 1 : seq[g[l]].path[1] = Merging(b)
    BY <2>2 DEF Listed, MergedDirs
  <2>4. b # 0
    BY <2>2, <2>3 DEF Merging, Listed, Mergeable, MergeTypeInv, MergeTypeOK
  <2>5. b \in 1..Len(selected) /\ seq[g[l]].path[1] = selected[b]
    BY <1>2, <2>3, <2>4 DEF Merging
  <2>6. seq[pos].path[1] = selected[i]
    BY <1>4, <1>5 DEF d
  <2>7. ~ (b < i)
    <3>1. SUFFICES ASSUME b < i PROVE FALSE
      OBVIOUS
    <3>2. b \in 1..mergeAt - 1 /\ i \in 1..mergeAt - 1
      BY <1>2, <2>5
    <3>3. g[l] < pos
      BY <1>1, <1>5, <2>1, <2>5, <2>6, <3>1, <3>2 DEF JsonInv, OrderedInv, seq
    <3>4. g[l] \in Nat /\ pos \in Nat
      BY <1>5, <1>11, <2>1
    <3>5. QED
      BY <2>1, <3>3, <3>4
  <2>8. b \in i..Len(selected)
    BY <1>2, <2>5, <2>7
  <2>9. QED
    BY <2>1, <2>5, <2>8
<1>14. \E k0 \in DOMAIN agg :
         /\ agg[k0].target = <<p.name, p.kind>>
         /\ \E m0 \in DOMAIN agg[k0].parts :
              /\ agg[k0].parts[m0] = <<selected[i], p.file>>
              /\ \A l \in DOMAIN agg[k0].parts \ {m0} :
                   /\ agg[k0].parts[l] # agg[k0].parts[m0]
                   /\ l > m0 => \E j \in i..Len(selected) : agg[k0].parts[l][1] = selected[j]
  <2>1. /\ agg[k].parts[m] = <<selected[i], p.file>> /\ m \in DOMAIN agg[k].parts
        /\ \A l \in DOMAIN agg[k].parts \ {m} :
             /\ agg[k].parts[l] # agg[k].parts[m]
             /\ l > m => \E j \in i..Len(selected) : agg[k].parts[l][1] = selected[j]
    BY <1>8, <1>10, <1>12, <1>13 DEF d
  <2>2. k \in DOMAIN agg /\ agg[k].target = <<p.name, p.kind>>
    BY <1>6, <1>8
  <2>3. QED
    BY <2>1, <2>2
<1>15. parent'.json = agg /\ selected' = selected
  BY DEF agg
<1>16. QED
  BY <1>14, <1>15, SMTT(60) DEF PatchInOrder

LEMMA WriteMergedInv ==
  ASSUME MergeTypeInv, MergeInv, Mergeable, WriteMerged
  PROVE  MergeInv'
<1> DEFINE targets == {<<p.name, p.kind>> : p \in ToSet(parent.json)}
<1>1. PICK order \in {s \in [1..Cardinality(targets) -> targets] : ToSet(s) = targets} :
        parent' = [parent EXCEPT !.json = Aggregated(order), !.namespace = NamespaceIs]
  BY DEF WriteMerged, NamespaceIs
<1>2. /\ merged = "working" /\ mergeAt = Len(selected) + 1 /\ merged' \in {"failed", "written"}
      /\ UNCHANGED <<comp, selected, given, known, env, mergeAt>>
  BY DEF WriteMerged
<1>3. /\ DOMAIN parent' = DOMAIN parent /\ parent'.json = Aggregated(order) /\ parent'.namespace = NamespaceIs
      /\ parent'.bases = parent.bases /\ parent'.resources = parent.resources
  <2> DEFINE agg == Aggregated(order)
  <2>1. parent' = [parent EXCEPT !.json = agg, !.namespace = NamespaceIs]
    BY <1>1
  <2> HIDE DEF agg
  <2>2. /\ DOMAIN parent' = DOMAIN parent /\ parent'.json = agg /\ parent'.namespace = NamespaceIs
        /\ parent'.bases = parent.bases /\ parent'.resources = parent.resources
    BY <2>1 DEF MergeInv
  <2>3. QED
    BY <2>2 DEF agg
<1>4. MergedDirs' = MergedDirs /\ NamespaceIs' = NamespaceIs
  BY <1>2 DEF MergedDirs, Merging, NamespaceIs
<1>5. BasesInv' /\ ResourcesInv' /\ NamespaceInv'
  <2>1. BasesInv'
    BY <1>2, <1>3, <1>4 DEF MergeInv, BasesInv, Listed
  <2>2. ResourcesInv'
    BY <1>2, <1>3, <1>4, SMTT(60) DEF MergeInv, ResourcesInv, Listed, Files, InDir
  <2>3. NamespaceInv'
    BY <1>2, <1>4 DEF MergeInv, NamespaceInv
  <2>4. QED
    BY <2>1, <2>2, <2>3
<1>6. AggregatedInv'
  <2>1. ASSUME NEW i \in DOMAIN selected, comp[selected[i]].bases # <<>>, NEW p \in ToSet(comp[selected[i]].json)
        PROVE  PatchInOrder(i, p)'
    <3>1. ToSet(order) = targets
      BY <1>1
    <3>2. QED
      BY <1>2, <1>3, <2>1, <3>1, PatchPlaced
  <2>2. QED
    BY <1>2, <2>1 DEF AggregatedInv
<1>7. QED
  BY <1>2, <1>3, <1>4, <1>5, <1>6 DEF MergeInv

-----------------------------------------------------------------------------
(* The kustomization of an application: what kustomize makes of it *)

MadeOf(made, d) ==
  FlattenSeq([i \in DOMAIN comp[d].bases |-> made[comp[d].bases[i]]]) \o InDir(d, comp[d].resources)

LEMMA OwnFiles ==
  ASSUME comp \in Components, NEW d \in DOMAIN comp
  PROVE  /\ InDir(d, comp[d].resources) \in Seq(Files)
         /\ \A x \in ToSet(InDir(d, comp[d].resources)) : x[1] = d
         /\ Mergeable => IsInjective(InDir(d, comp[d].resources))
<1> DEFINE D == DOMAIN comp
           fs == comp[d].resources
<1>1. d \in D /\ fs \in Seq(STRING) /\ (Mergeable => IsInjective(fs)) /\ Files = D \X STRING
  BY ComponentIs DEF Mergeable, Files
<1> HIDE DEF D, fs
<1>2. /\ InDir(d, fs) \in Seq(D \X STRING) /\ \A x \in ToSet(InDir(d, fs)) : x[1] = d
      /\ IsInjective(fs) => IsInjective(InDir(d, fs))
  BY <1>1, InDirIs
<1>3. QED
  BY <1>1, <1>2 DEF fs

LEMMA MadeIs ==
  ASSUME comp \in Components, NEW made \in [DOMAIN comp -> Seq(Files)], NEW d \in DOMAIN comp
  PROVE  MadeOf(made, d) \in Seq(Files)
<1> DEFINE own == InDir(d, comp[d].resources)
           list == comp[d].bases
           S == Files
           seqs == [i \in DOMAIN list |-> made[list[i]]]
           flat == FlattenSeq(seqs)
<1>1. own \in Seq(S) /\ list \in Seq(DOMAIN comp) /\ MadeOf(made, d) = flat \o own
  BY OwnFiles, ComponentIs DEF MadeOf
<1>2. made \in [DOMAIN comp -> Seq(S)]
  OBVIOUS
<1> HIDE DEF own, list, S
<1>3. DOMAIN list = 1..Len(list) /\ Len(list) \in Nat /\ \A i \in 1..Len(list) : list[i] \in DOMAIN comp
  BY <1>1
<1>4. seqs \in Seq(Seq(S))
  <2> DEFINE Q == Seq(S)
  <2>1. seqs \in [1..Len(list) -> Q]
    BY <1>2, <1>3
  <2> HIDE DEF seqs, Q
  <2>2. seqs \in Seq(Q)
    BY <1>3, <2>1
  <2>3. QED
    BY <2>2 DEF Q
<1> HIDE DEF seqs
<1>5. flat \in Seq(S)
  BY <1>4, FlattenIs
<1> HIDE DEF flat
<1>6. flat \o own \in Seq(S)
  BY <1>1, <1>5
<1>7. QED
  BY <1>1, <1>6 DEF S

LEMMA MadeOfNone ==
  ASSUME comp \in Components, NEW made, NEW d \in DOMAIN comp, comp[d].bases = <<>>
  PROVE  MadeOf(made, d) = InDir(d, comp[d].resources)
<1> DEFINE own == InDir(d, comp[d].resources)
           seqs == [i \in DOMAIN comp[d].bases |-> made[comp[d].bases[i]]]
           S == Files
<1>1. own \in Seq(S)
  BY OwnFiles
<1>2. seqs = <<>>
  <2>1. DOMAIN comp[d].bases = {}
    OBVIOUS
  <2>2. QED
    BY <2>1
<1>3. FlattenSeq(seqs) = <<>>
  BY <1>2 DEF FlattenSeq
<1>4. MadeOf(made, d) = FlattenSeq(seqs) \o own
  BY DEF MadeOf
<1> HIDE DEF own, S, seqs
<1>5. <<>> \o own = own
  BY <1>1, SMTT(60)
<1>6. QED
  BY <1>3, <1>4, <1>5 DEF own

\* A directory without bases is its own files.
LEMMA BuiltOf ==
  ASSUME comp \in Components, NEW b \in DOMAIN comp, comp[b].bases = <<>>
  PROVE  Built[Cardinality(MergeDirs)][b] = InDir(b, comp[b].resources)
<1> DEFINE N == Cardinality(MergeDirs)
           D == DOMAIN comp
           T == [D -> Seq(Files)]
           start == [d \in D |-> <<>>]
           Def(f) == [n \in 0..N |->
                       [d \in DOMAIN comp |->
                          IF n = 0 THEN <<>>
                          ELSE FlattenSeq([i \in DOMAIN comp[d].bases |-> f[n - 1][comp[d].bases[i]]])
                               \o InDir(d, comp[d].resources)]]
           built == CHOOSE f : f = Def(f)
           step == [x \in (1..N) \X T |-> [d \in D |-> MadeOf(x[2], d)]]
<1>1. N \in Nat \ {0}
  <2>1. IsFiniteSet(MergeDirs) /\ "base" \in MergeDirs
    BY MergeAssumption DEF MergeDirs
  <2> DEFINE M == MergeDirs
  <2> HIDE DEF M
  <2>2. IsFiniteSet(M) /\ M # {}
    BY <2>1 DEF M
  <2>3. Cardinality(M) \in Nat /\ Cardinality(M) # 0
    BY <2>2, FS_CardinalityType, FS_EmptySet
  <2>4. QED
    BY <2>3 DEF M
<1>2. Built = built
  BY DEF Built
<1> HIDE DEF N
<1>3. \A x \in T, d \in D : MadeOf(x, d) \in Seq(Files)
  BY MadeIs
<1>4. \A i \in 1..N, x \in T : step[<<i, x>>] = [d \in D |-> MadeOf(x, d)]
  OBVIOUS
<1>5. start \in T /\ StaysIn(T, N, step)
  <2>1. start \in T
    OBVIOUS
  <2>2. \A x \in T : [d \in D |-> MadeOf(x, d)] \in T
    BY <1>3
  <2> HIDE DEF step, T
  <2>3. StaysIn(T, N, step)
    BY <1>4, <2>2 DEF StaysIn
  <2>4. QED
    BY <2>1, <2>3
<1>6. ASSUME NEW f, NEW n \in 1..N PROVE Def(f)[n] = [d \in D |-> MadeOf(f[n - 1], d)]
  <2>1. n \in 0..N /\ n # 0
    BY <1>1
  <2>2. Def(f)[n] = [d \in D |-> IF n = 0 THEN <<>> ELSE MadeOf(f[n - 1], d)]
    BY <2>1, Zenon DEF MadeOf
  <2>3. QED
    BY <2>1, <2>2
<1>7. \A f : Def(f)[0] = start /\ Def(f) = [n \in 0..N |-> Def(f)[n]]
  BY <1>1
<1>8. \E f \in [0..N -> T] : f = Def(f)
  <2> HIDE DEF T, start, step
  <2>1. PICK f \in [0..N -> T] : f[0] = start /\ \A i \in 1..N : f[i] = step[<<i, f[i - 1]>>]
    <3>1. \E g \in [0..N -> T] : Iterates(g, N, start, step)
      BY <1>1, <1>5, Iterated
    <3>2. QED
      BY <3>1 DEF Iterates
  <2>2. \A n \in 1..N : f[n - 1] \in T
    <3>1. \A n \in 1..N : n - 1 \in 0..N
      BY <1>1
    <3>2. QED
      BY <2>1, <3>1
  <2> HIDE DEF Def
  <2>3. \A n \in 1..N : f[n] = Def(f)[n]
    BY <1>4, <1>6, <2>1, <2>2, ZenonT(60)
  <2>4. \A n \in 0..N : f[n] = Def(f)[n]
    <3>1. \A n \in 0..N : n = 0 \/ n \in 1..N
      BY <1>1
    <3>2. QED
      BY <1>7, <2>1, <2>3, <3>1
  <2>5. f = [n \in 0..N |-> f[n]] /\ Def(f) = [n \in 0..N |-> Def(f)[n]]
    BY <1>7, <2>1
  <2>6. f = Def(f)
    BY <2>4, <2>5
  <2>7. QED
    BY <2>1, <2>6
<1>9. built = Def(built)
  <2> HIDE DEF Def
  <2>1. QED
    BY <1>8
<1>10. built[N] = [d \in D |-> MadeOf(built[N - 1], d)]
  <2> DEFINE e == Def(built)
             last == [d \in D |-> MadeOf(built[N - 1], d)]
  <2>1. N \in 1..N
    BY <1>1
  <2> HIDE DEF built, Def
  <2>2. e[N] = last
    BY <1>6, <2>1
  <2>3. built = e
    BY <1>9
  <2> HIDE DEF e, last
  <2>4. built[N] = last
    BY <2>2, <2>3
  <2>5. QED
    BY <2>4 DEF last
<1>11. built[N][b] = MadeOf(built[N - 1], b)
  BY <1>10, ZenonT(60)
<1>12. QED
  BY <1>2, <1>11, MadeOfNone, ZenonT(60) DEF N

LEMMA ChosenAreMerged ==
  ASSUME MergeTypeInv, mergeAt = Len(selected) + 1
  PROVE  Chosen = MergedDirs
<1>1. Len(selected) \in Nat /\ DOMAIN selected = 1..Len(selected)
  BY SelectedIs DEF MergeTypeInv
<1>2. 0..mergeAt - 1 = {0} \cup DOMAIN selected /\ 0 \notin DOMAIN selected
  BY <1>1
<1>3. MergedDirs = {"base"} \cup {selected[k] : k \in DOMAIN selected}
  BY <1>2 DEF MergedDirs, Merging
<1>4. QED
  BY <1>3 DEF Chosen, ToSet

LEMMA ResultIs ==
  ASSUME MergeTypeInv, MergeInv, Mergeable
  PROVE  /\ \A i, j \in DOMAIN Result : Result[i] = Result[j] => i = j
         /\ ToSet(Result) = UNION {ToSet(InDir(d, comp[d].resources)) : d \in MergedDirs}
<1> DEFINE bases == parent.bases
           resources == parent.resources
           S == Files
           Own(d) == InDir(d, comp[d].resources)
           N == Cardinality(MergeDirs)
           seqs == [i \in DOMAIN bases |-> Built[N][bases[i]]]
           flat == FlattenSeq(seqs)
           Base == MergedDirs \ Listed(MergedDirs)
<1>1. comp \in Components /\ MergedDirs \subseteq DOMAIN comp
  BY DEF MergeTypeInv, MergeTypeOK, MergeInv
<1>2. bases \in Seq(DOMAIN comp) /\ IsInjective(bases) /\ ToSet(bases) = Base
  BY DEF MergeInv, BasesInv
<1>3. /\ resources \in Seq(S) /\ IsInjective(resources)
      /\ ToSet(resources) = UNION {ToSet(Own(d)) : d \in Listed(MergedDirs)}
  BY DEF MergeInv, ResourcesInv
<1>4. \A d \in DOMAIN comp : Own(d) \in Seq(S) /\ IsInjective(Own(d)) /\ \A x \in ToSet(Own(d)) : x[1] = d
  BY <1>1, OwnFiles
<1>5. \A d \in Base : d \in DOMAIN comp /\ Built[N][d] = Own(d)
  BY <1>1, BuiltOf DEF Listed
<1>6. Result = flat \o resources
  BY DEF Result
<1>7. Base \cap Listed(MergedDirs) = {} /\ MergedDirs = Base \cup Listed(MergedDirs) /\ Listed(MergedDirs) \subseteq DOMAIN comp
  BY <1>1 DEF Listed
<1> HIDE DEF bases, resources, S, Own, N, Base
<1>8. \A i \in DOMAIN bases : bases[i] \in Base /\ seqs[i] = Own(bases[i])
  BY <1>2, <1>5 DEF ToSet
<1>9. DOMAIN seqs = DOMAIN bases /\ DOMAIN bases = 1..Len(bases) /\ Len(bases) \in Nat
  BY <1>2
<1>10. seqs \in Seq(Seq(S))
  <2> DEFINE Q == Seq(S)
  <2>1. \A i \in 1..Len(bases) : seqs[i] \in Q
    BY <1>4, <1>5, <1>8, <1>9
  <2>2. seqs = [i \in 1..Len(bases) |-> seqs[i]]
    BY <1>9
  <2> HIDE DEF seqs, Q
  <2>3. seqs \in [1..Len(bases) -> Q]
    BY <2>1, <2>2
  <2>4. seqs \in Seq(Q)
    BY <1>9, <2>3
  <2>5. QED
    BY <2>4 DEF Q
<1> HIDE DEF seqs
<1>11. flat \in Seq(S) /\ ToSet(flat) = UNION {ToSet(seqs[i]) : i \in DOMAIN seqs}
  BY <1>10, FlattenIs
<1>12. IsInjective(flat)
  <2>1. \A i \in DOMAIN seqs : IsInjective(seqs[i])
    BY <1>4, <1>5, <1>8, <1>9
  <2>2. ASSUME NEW i \in DOMAIN seqs, NEW j \in DOMAIN seqs, i # j PROVE ToSet(seqs[i]) \cap ToSet(seqs[j]) = {}
    <3>1. bases[i] # bases[j]
      BY <1>2, <1>9, <2>2 DEF IsInjective
    <3>2. (\A x \in ToSet(seqs[i]) : x[1] = bases[i]) /\ (\A x \in ToSet(seqs[j]) : x[1] = bases[j])
      BY <1>4, <1>5, <1>8, <1>9
    <3>3. QED
      BY <3>1, <3>2
  <2>3. QED
    BY <1>10, <2>1, <2>2, FlattenIs
<1>13. ToSet(flat) = UNION {ToSet(Own(d)) : d \in Base}
  <2>1. \A d \in Base : \E i \in DOMAIN seqs : seqs[i] = Own(d)
    BY <1>2, <1>8, <1>9 DEF ToSet
  <2>2. \A i \in DOMAIN seqs : bases[i] \in Base /\ seqs[i] = Own(bases[i])
    BY <1>8, <1>9
  <2>3. QED
    BY <1>11, <2>1, <2>2
<1>14. ToSet(flat) \cap ToSet(resources) = {}
  <2>1. \A x \in ToSet(flat) : x[1] \in Base
    BY <1>4, <1>5, <1>13
  <2>2. \A x \in ToSet(resources) : x[1] \in Listed(MergedDirs)
    BY <1>3, <1>4, <1>7
  <2>3. QED
    BY <1>7, <2>1, <2>2
<1> HIDE DEF flat
<1>15. IsInjective(flat \o resources) /\ ToSet(flat \o resources) = ToSet(flat) \cup ToSet(resources)
  BY <1>3, <1>11, <1>12, <1>14, Joined
<1>16. IsInjective(Result)
  BY <1>6, <1>15
<1>17. ToSet(Result) = UNION {ToSet(Own(d)) : d \in MergedDirs}
  BY <1>3, <1>6, <1>7, <1>13, <1>15
<1>18. QED
  BY <1>16, <1>17 DEF IsInjective, Own

LEMMA MergeInvMeans == MergeTypeInv /\ (BaseFirst => MergeInv) /\ Mergeable => MergedOnce
<1> SUFFICES ASSUME MergeTypeInv, MergeInv, Mergeable, merged = "written" PROVE
      /\ \A i, j \in DOMAIN Result : Result[i] = Result[j] => i = j
      /\ ToSet(Result) = UNION {ToSet(InDir(d, comp[d].resources)) : d \in Chosen}
      /\ \A i \in DOMAIN selected : comp[selected[i]].bases # <<>> =>
           \A p \in ToSet(comp[selected[i]].json) : PatchInOrder(i, p)
      /\ \A d \in Chosen : "namespace" \in DOMAIN env[d] => env[d]["namespace"] = parent.namespace
  BY DEF MergedOnce
<1>1. mergeAt = Len(selected) + 1 /\ parent.namespace = NamespaceIs /\ AggregatedInv /\ NamespaceInv
  BY DEF MergeInv
<1>2. Chosen = MergedDirs
  BY <1>1, ChosenAreMerged
<1>3. QED
  BY <1>1, <1>2, ResultIs DEF AggregatedInv, NamespaceInv

LEMMA MergeStepInv ==
  ASSUME TypeInv, BaseFirst => MergeInv, Mergeable, [ConfigurationNext]_configurationVars
  PROVE  (BaseFirst => MergeInv)'
<1>1. MergeStep \/ UNCHANGED mergeVars
  BY DEF ConfigurationNext, configurationVars
<1>2. UNCHANGED <<comp, selected>>
  BY <1>1 DEF MergeStep, MergeNext, WriteMerged, mergeVars
<1>3. BaseFirst' = BaseFirst
  BY <1>2 DEF BaseFirst
<1>4. SUFFICES ASSUME BaseFirst, MergeInv PROVE MergeInv'
  BY <1>3
<1>5. MergeTypeInv
  BY DEF TypeInv
<1>6. CASE MergeStep
  BY <1>4, <1>5, <1>6, MergeNextInv, WriteMergedInv DEF MergeStep
<1>7. CASE UNCHANGED mergeVars
  <2> USE <1>7 DEF mergeVars
  <2>1. MergedDirs' = MergedDirs /\ NamespaceIs' = NamespaceIs
    BY DEF MergedDirs, Merging, NamespaceIs
  <2>2. BasesInv' /\ ResourcesInv' /\ NamespaceInv'
    <3>1. BasesInv' /\ NamespaceInv'
      BY <1>4, <2>1 DEF MergeInv, BasesInv, NamespaceInv, Listed
    <3>2. ResourcesInv'
      BY <1>4, <2>1 DEF MergeInv, ResourcesInv, Listed, Files, InDir
    <3>3. QED
      BY <3>1, <3>2
  <2>3. JsonInv => JsonInv'
    BY <2>1 DEF JsonInv, OrderedInv, Keyed, Files, Listed, PatchesOf, PatchOf
  <2>4. AggregatedInv => AggregatedInv'
    <3>1. ASSUME NEW i, NEW p PROVE PatchInOrder(i, p)' = PatchInOrder(i, p)
      BY DEF PatchInOrder
    <3>2. QED
      BY <3>1 DEF AggregatedInv
  <2>5. QED
    BY <1>4, <2>1, <2>2, <2>3, <2>4 DEF MergeInv
<1>8. QED
  BY <1>1, <1>6, <1>7

\* The kustomization written for an application whose overlays come after those they
\* build on has every resource of its base and of the overlays that are selected
\* once, each JSON patch once and behind those of the overlays before, and the
\* namespace the parameters name, if the manifests list nothing twice and their
\* bases build on nothing (MergeKustomizations, GenerateKustomizationFile,
\* kustomize.go).
THEOREM KustomizationsAreComplete == Mergeable /\ ConfigurationSpec => []MergedOnce
<1> SUFFICES ASSUME Mergeable PROVE ConfigurationSpec => []MergedOnce
  OBVIOUS
<1>1. ConfigurationInit => (BaseFirst => MergeInv)
  BY MergeInitInv DEF ConfigurationInit
<1>2. TypeInv /\ (BaseFirst => MergeInv) /\ [ConfigurationNext]_configurationVars => (BaseFirst => MergeInv)'
  BY MergeStepInv
<1>3. TypeInv /\ (BaseFirst => MergeInv) => MergedOnce
  BY MergeInvMeans DEF TypeInv
<1>4. QED
  BY <1>1, <1>2, <1>3, TypesAlways, PTL DEF ConfigurationSpec
=============================================================================
