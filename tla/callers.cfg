SPECIFICATION Spec
INVARIANTS TypesOK   DiskOutlivesSnapshot  
PROPERTIES  ProbesRight ImplementsNodeFailures EffectHappened
CHECK_DEADLOCK FALSE
