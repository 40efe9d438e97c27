CONSTANTS
  k1 = k1
  k2 = k2
  n1 = n1
  n2 = n2
  p = p
  c = c
  d = d
  e = e
  KfDefs = {k1, k2}
  Workers = {w1}
  w1 = w1
  Resources = {n1, n2, p, c, d, e}
  Namespaces = {n1, n2}
  Profiles = {p}
  Nobody = Nobody
  Nowhere = Nowhere
  Within <- InNamespace
  Home <- Homes
  Apps <- TwoKfDefs
  Place <- ByKind
  Limit <- OneFailure
SPECIFICATION Spec
INVARIANTS
  TypeOK
  CleanDeletion
PROPERTIES
  UserDataKept
