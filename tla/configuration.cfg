\* Settings, merged kustomizations, upgrades and images, each by itself.
CONSTANTS
  Components <- MCComponents
  KfParameters <- MCKfParameters
  KfDefFiles <- MCKfDefFiles
  ParamNames = {"p", "q"}
  SettingValues = {"v1", "v2"}
  OverlayNames = {"o1", "o2"}
  SecretNames = {"s"}
  StackOf <- MCStackOf
  SettingLimit <- MCSettingLimit
  OldParams = {"p", "o"}
  BaseParams = {"p", "b"}
  ParamValues = {"v1", "v2"}
  NewVersion = "new"
  UpgradeLimit <- MCUpgradeLimit
  Shipped <- MCShipped
  Links <- MCLinks
  Walked = {"k", "s"}
  Retagged = {"3"}
  Patterns <- MCPatterns
  Prefix <- MCPrefix
  ImageLimit <- MCImageLimit
SPECIFICATION ConfigurationSpec
INVARIANTS ConfigurationTypeOK MergedOnce SettingsRead WrittenIsRead StackComplete UpgradeTakesOver MirrorAgrees
CHECK_DEADLOCK FALSE
