SPECIFICATION Spec
CONSTANT Tenths = 10
INVARIANT TypeOK
INVARIANT VerdictIsEarned
INVARIANT BoundedPing
PROPERTY PingReturns
PROPERTY PingKeepsContract
CHECK_DEADLOCK FALSE
