SPECIFICATION Spec
CONSTANTS
  r1 = r1
  r2 = r2
  d1 = d1
  d2 = d2
  Deployments = {d1, d2}
  ReplicaSets = {r1, r2}
  Pods = {p1, p2}
  Owner <- OwnerDef
  NoOwner = NoOwner
  None = None
  Relists = TRUE
INVARIANT EveryReplicaSetForgotten
CHECK_DEADLOCK FALSE
