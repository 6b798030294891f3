\* Two trades at a time, ladders and plain; refused calls, a missed fill event, a manual
\* reduction; a stop or a crash, fills and a cancelled order while down, and a restart.
CONSTANT Setups <- FuturesSetups
SPECIFICATION FairSpec
INVARIANTS StopCovers NothingUntracked StopWhereBelieved
PROPERTIES CatchesUp
