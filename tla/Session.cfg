\* Two pairs flattened and one kept, over every stop, failing writes, a failed start and a
\* crash; and chat commands over two sessions of one program.
CONSTANT Setups <- SessionSetups
SPECIFICATION FairSpec
INVARIANTS Accounted ConfirmedOnce
PROPERTIES StopEnds
CHECK_DEADLOCK FALSE
