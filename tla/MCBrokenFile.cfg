SPECIFICATION Spec
INVARIANT BrokenFileRefused
CHECK_DEADLOCK FALSE
