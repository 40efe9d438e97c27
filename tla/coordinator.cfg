\* The directory, one user at a time, and each platform by itself, through
\* interrupted and failing commands, a crash and edits.
CONSTANTS
  w1 = w1
  w2 = w2
  Workers = {w1}
  SpecApps <- MCSpecApps
  DirLimit <- MCDirLimit
  s1 = s1
  Strangers = {s1}
  Roles = {"editor", "viewer"}
  IamTemplates <- MCIamTemplates
  Storage = TRUE
  DeleteStorage = TRUE
  GcpLimit <- MCGcpLimit
  AwsLimit <- MCAwsLimit
  ArrLimit <- MCArrLimit
SPECIFICATION CoordinatorSpec
INVARIANTS CoordinatorTypeOK CacheComplete GrantsInForce DeploymentsCurrent  NothingLeft AccountsTrusted AwsNothingLeft LoginAgrees
PROPERTIES AppliesOwnRevision  PlatformLast GrantsOfOthersKept
CHECK_DEADLOCK FALSE
