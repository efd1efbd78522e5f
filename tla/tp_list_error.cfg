SPECIFICATION Spec
CONSTANTS
  n1 = n1
  n2 = n2
  oa = oa
  ob = ob
  Slots = {p1}
  Namespaces = {n1, n2}
  Objects = {oa, ob}
  Templates = {t1}
  Bundles <- AllBundles
  NsLists <- AllNsLists
  Unknown = {ob}
  None = None
  MaxReplicas = 2
  MaxSteps = 2
  MaxFailures = 0
  ListErrors = TRUE
  TemplateErrors = FALSE
INVARIANT PhaseReachesReplicas
CHECK_DEADLOCK FALSE
