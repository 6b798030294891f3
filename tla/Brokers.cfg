\* Spot and MetaTrader pairs, feeds, signed calls and the candle collection, each with its
\* faults.  A collection of the past ends, and so do calls.
SPECIFICATION Spec
CONSTANTS
    SpotSetups <- SpotScenarios
    MetaSetups <- MetaScenarios
    FeedSetups <- FeedScenarios
    CallSetups <- CallScenarios
    CollectorSetups <- CollectorScenarios
INVARIANTS VenueAgrees OnceInOrder OrdersAsDecided
PROPERTIES DueStopLands LedgerCatchesUp FeedLives Collected
CHECK_DEADLOCK FALSE
