---------------------------- MODULE MCPairWorker ----------------------------
(* Instances of the pair worker for TLC. *)
EXTENDS PairWorker

\* Closed-candle execution: catch-up ticks, both directions, exits, one failing item; an
\* indicator whose window has one row to spare.
Closed == [realtime |-> FALSE, flatten |-> TRUE, exits |-> TRUE,
           sides |-> {"long", "short"}, perDay |-> 2, most |-> 1, keep |-> 0,
           hook |-> FALSE, look |-> 2, ahead |-> 0, window |-> 3,
           lateRows |-> FALSE, last |-> 4, backlog |-> 2, restarts |-> 0, failures |-> 1]

\* Realtime execution: forming rows, late ones included, and a restart; a column filled a
\* row later, with no row to spare.
Realtime == [Closed EXCEPT !.realtime = TRUE, !.exits = FALSE, !.sides = {"long"},
                           !.ahead = 1, !.window = 2,
                           !.lateRows = TRUE, !.last = 3, !.restarts = 1, !.failures = 0]

\* A hook strategy, and an item that fails.
Hooked == [Realtime EXCEPT !.hook = TRUE, !.ahead = 0, !.window = 3, !.restarts = 0, !.failures = 1]

WorkerSetups == {Closed, Realtime, Hooked}
=============================================================================
