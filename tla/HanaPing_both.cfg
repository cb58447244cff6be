SPECIFICATION Spec
CONSTANT Tenths = 10
INVARIANT NeverPingedAndHanging
CHECK_DEADLOCK FALSE
