SPECIFICATION Spec
CONSTANTS
  r1 = r1
  r2 = r2
  d1 = d1
  d2 = d2
  Deployments = {d1, d2}
  ReplicaSets = {r1, r2}
  Pods = {p1, p2}
  Owner <- OwnerDef
  NoOwner = NoOwner
  None = None
  Relists = TRUE
INVARIANTS TypeOK ClearScheduled NoReplicaSetLeft LivePodsFound
SYMMETRY Symmetry
CHECK_DEADLOCK FALSE
