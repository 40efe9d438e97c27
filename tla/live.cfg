CONSTANTS
  k1 = k1
  k2 = k2
  n1 = n1
  n2 = n2
  KfDefs = {k1}
  Namespaces = {n1, n2}
  NsOf <- OwnNamespace
  Generated = {n2}
  Main = Main
  Gens = {g1, g2}
  GenWorkers = 1
  FinalizerMaxRetries = 1
  NoKey = NoKey
  NoGen = NoGen
  MaxIncarnations = 1
  Limit <- LiveLimit
  Scenarios <- LiveScenarios
SPECIFICATION FairSpec
INVARIANTS
  NoLostWork
PROPERTIES
  DeletionCompletes
  
  
  
\* With its events spent the system comes to rest: nothing is left to do.
CHECK_DEADLOCK FALSE
