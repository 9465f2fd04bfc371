SPECIFICATION Spec
CONSTANT MaxStarts = 4
INVARIANTS TypeOK OneBrokerUnlessUnlinked ServingIsReachable
PROPERTY RefusedOnlyByABroker
CHECK_DEADLOCK FALSE
