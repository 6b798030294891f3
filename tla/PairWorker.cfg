\* Closed-candle and realtime execution over two days; the latter with a restart.
CONSTANT Setups <- WorkerSetups
SPECIFICATION Spec
INVARIANTS ActsOnce SameAsRerun
PROPERTIES CandlesInTurn
CHECK_DEADLOCK FALSE
