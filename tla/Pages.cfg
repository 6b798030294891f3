\* Real trades, a simulation, both, and paper sessions, on a chart whose tabs come and go;
\* charts streamed into, switched between timeframes and replayed.  All of them end.
CONSTANTS
    Areas = {"live", "replay"}
    Lengths = {1, 2, 4}
    Sampled = 20
SPECIFICATION Spec
INVARIANTS AsTraded Followed TimeframesKeepData
PROPERTIES ReplayForgets
CHECK_DEADLOCK FALSE
