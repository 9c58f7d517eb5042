SPECIFICATION Spec
INVARIANT Connects
CHECK_DEADLOCK FALSE
