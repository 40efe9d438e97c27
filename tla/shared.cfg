\* Two Reconciles of one KfDef in the same directory.
CONSTANTS
  w1 = w1
  w2 = w2
  Workers = {w1, w2}
  SpecApps <- MCSpecApps
  DirLimit <- MCSharedLimit
SPECIFICATION DirSpec
PROPERTIES AppliesOwnRevision
CHECK_DEADLOCK FALSE
