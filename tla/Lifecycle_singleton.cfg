SPECIFICATION Spec
CONSTANT MaxStarts = 3
INVARIANT OneBroker
CHECK_DEADLOCK FALSE
