--------------------------- MODULE KfConfiguration ---------------------------
(***************************************************************************)
(* What works on configurations and manifests in files, each by itself:    *)
(* the settings of a KfDef, the kustomizations merged for an application,  *)
(* an upgrade to another version, and the images of the manifests.  They   *)
(* are separate commands of kfctl, and share nothing but the files.        *)
(***************************************************************************)
EXTENDS KfMerge, KfSettings, KfUpgrade, KfImages

VARIABLE subject

configurationVars == <<subject, mergeVars, settingVars, upgradeVars, imageVars>>
Subjects == {"merge", "settings", "upgrade", "images"}

ConfigurationTypeOK ==
  /\ subject \in Subjects
  /\ MergeTypeOK /\ SettingTypeOK /\ UpgradeTypeOK /\ ImageTypeOK

ConfigurationInit ==
  /\ subject \in Subjects
  /\ MergeInit /\ SettingInit /\ UpgradeInit /\ ImageInit
  \* what is not the subject does not matter
  /\ subject # "merge" => selected = <<>> /\ given = <<>> /\ comp = CHOOSE c \in Components : TRUE
  /\ subject # "settings" => kfFile = CHOOSE f \in KfDefFiles : TRUE
  /\ subject # "upgrade" =>
       /\ sameName /\ oldCfg.params = [p \in OldParams |-> CHOOSE v \in ParamValues : TRUE]
       /\ baseCfg.version = NewVersion /\ baseCfg.ns = "kubeflow"

ConfigurationNext ==
  \/ subject = "merge" /\ MergeStep /\ UNCHANGED <<subject, settingVars, upgradeVars, imageVars>>
  \/ subject = "settings" /\ SettingStep /\ UNCHANGED <<subject, mergeVars, upgradeVars, imageVars>>
  \/ subject = "upgrade" /\ UpgradeStep /\ UNCHANGED <<subject, mergeVars, settingVars, imageVars>>
  \/ subject = "images" /\ ImageStep /\ UNCHANGED <<subject, mergeVars, settingVars, upgradeVars>>

ConfigurationSpec == ConfigurationInit /\ [][ConfigurationNext]_configurationVars
=============================================================================
