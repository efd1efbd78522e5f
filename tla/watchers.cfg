SPECIFICATION Spec
INVARIANTS TypesOK GatherComplete   FailuresExact 
PROPERTIES CallsReturn DeletedReplicaSetsForgotten
CHECK_DEADLOCK FALSE
