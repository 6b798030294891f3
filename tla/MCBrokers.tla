----------------------------- MODULE MCBrokers ------------------------------
(* The scenarios of Brokers. *)
EXTENDS Brokers, Integers, Sequences

None(faults) == [f \in faults |-> 0]

\* Spot.  Two trades and exits; three refusals in a row under each kind of stop; both
\* kinds together; an emergency sale that is rejected; a lost reply; a missed report; no
\* stream; a stop or crash between two items.
Spot == [riskFree |-> FALSE, trailing |-> FALSE, exits |-> FALSE, stream |-> TRUE, top |-> 1, entries |-> 1,
         faults |-> None({"refuse", "lose", "reject", "drop", "crash"}), anywhere |-> FALSE]
SpotScenarios ==
    {[Spot EXCEPT !.trailing = TRUE, !.exits = TRUE, !.entries = 2],
     [Spot EXCEPT !.trailing = TRUE, !.exits = TRUE, !.faults.refuse = 3],
     [Spot EXCEPT !.riskFree = TRUE, !.exits = TRUE, !.faults.refuse = 3],
     [Spot EXCEPT !.trailing = TRUE, !.riskFree = TRUE, !.faults.refuse = 1],
     [Spot EXCEPT !.riskFree = TRUE, !.faults.refuse = 1, !.faults.reject = 1],
     [Spot EXCEPT !.trailing = TRUE, !.exits = TRUE, !.faults.lose = 1],
     [Spot EXCEPT !.riskFree = TRUE, !.entries = 2, !.faults.drop = 1, !.faults.crash = 1],
     [Spot EXCEPT !.trailing = TRUE, !.stream = FALSE, !.entries = 2, !.faults.refuse = 1, !.faults.crash = 1]}

\* MetaTrader.  Two trades with a request sent again or late; the break-even after a
\* trailing stop, and trailing beside a ladder with a level that only advances, through
\* calls whose failure escapes, and restarts; restarts after exits and a removed stop.
Plain  == [size |-> 2, fractions |-> <<>>, free |-> TRUE, top |-> 1, entries |-> 1,
           faults |-> None({"refuse", "resend", "lose", "late", "manual", "strip", "crash"})]
Levels == [Plain EXCEPT !.fractions = <<0, 1, 1>>]
MetaScenarios ==
    {[Plain EXCEPT !.entries = 2, !.free = FALSE, !.top = 0, !.faults.resend = 1, !.faults.manual = 1],
     [Plain EXCEPT !.entries = 2, !.free = FALSE, !.top = 0, !.faults.late = 1, !.faults.lose = 1],
     [Plain EXCEPT !.faults.lose = 1, !.faults.late = 1, !.faults.crash = 1],
     [Levels EXCEPT !.faults.lose = 1, !.faults.refuse = 1, !.faults.crash = 1],
     [Levels EXCEPT !.top = -1, !.faults.resend = 1, !.faults.manual = 1, !.faults.lose = 1],
     [Levels EXCEPT !.top = -1, !.faults.crash = 1, !.faults.manual = 1, !.faults.strip = 1, !.faults.refuse = 2]}

\* Feeds.  A poller of a tail of three rows; a WebSocket of candles; an account's, with its key.
Feed(kind, closedOnly, tail, life, items, faults) ==
    [kind |-> kind, closedOnly |-> closedOnly, tail |-> tail, life |-> life, items |-> items, faults |-> faults]
Cuts(raise, drop, refuse, keep) ==
    [raise |-> raise, drop |-> drop, refuse |-> refuse, keepalive |-> keep, stop |-> 1]
FeedScenarios == {Feed("poll", c, 3, 0, 6, Cuts(2, 0, 0, 0)) : c \in BOOLEAN}
              \cup {Feed("candles", c, 1, 0, 4, Cuts(1, 2, 2, 0)) : c \in BOOLEAN}
              \cup {Feed("account", TRUE, 1, 2, 4, Cuts(1, 1, 1, 3))}

\* Calls.  An entry with its protective orders; a close beside which fills reduce the position.
Answers(limit, moved) ==
    [loss |-> 2, drop |-> 2, slow |-> 1, limit |-> limit, refuse |-> 1, unauthorised |-> 1, moved |-> moved]
CallScenarios == {[legs |-> {"entry"} \cup legs, position |-> 0, faults |-> Answers(2, 0)] :
                   legs \in {{"stop_loss"}, {"stop_loss", "take_profit"}}}
              \cup {[legs |-> {"read", "close"}, position |-> 3, faults |-> Answers(1, 1)]}

\* Collection.  Requests of two rows over the present, of three over a range of the past;
\* every venue whose candles are among six.
Growing(candles) == [listed |-> candles, from |-> 1, to |-> 9, batch |-> 2, start |-> 4, last |-> 6,
                     faults |-> [fetch |-> 1, crash |-> 1]]
Past(candles) == [Growing(candles) EXCEPT !.batch = 3, !.to = 5, !.start = 6]
CollectorScenarios == {Growing(candles) : candles \in SUBSET (1..6)} \cup {Past(candles) : candles \in SUBSET (1..6)}
=============================================================================
