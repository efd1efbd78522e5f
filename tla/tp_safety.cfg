SPECIFICATION Spec
CONSTANTS
  n1 = n1
  n2 = n2
  oa = oa
  ob = ob
  Slots = {p1}
  Namespaces = {n1, n2}
  Objects = {oa, ob}
  Templates = {t1, t2}
  Bundles <- AllBundles
  NsLists <- AllNsLists
  Unknown = {ob}
  None = None
  MaxReplicas = 2
  MaxSteps = 2
  MaxFailures = 1
  ListErrors = FALSE
  TemplateErrors = TRUE
INVARIANTS TypeOK    
CHECK_DEADLOCK FALSE
