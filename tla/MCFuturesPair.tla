--------------------------- MODULE MCFuturesPair ---------------------------
(* Instances of the futures pair for TLC. *)
EXTENDS FuturesPair

NoFaults == [f \in Fault |-> 0]

\* Plain trades without take-profit; ladders of two closing levels; and a ladder
\* whose first level only advances the stop.
Plain  == [size |-> 1, fractions |-> <<>>, tp |-> FALSE, free |-> TRUE, top |-> 1, entries |-> 1,
           faults |-> NoFaults, anywhere |-> FALSE]
TwoLevels   == [Plain EXCEPT !.size = 2, !.fractions = <<1, 1>>, !.top = -1]
AdvanceOnly == [TwoLevels EXCEPT !.fractions = <<0, 2>>]

RunningSetups ==
    {[TwoLevels EXCEPT !.entries = 2, !.fractions = <<1>>],
     [TwoLevels EXCEPT !.top = 1, !.faults.refuse = 1],
     [Plain EXCEPT !.entries = 2, !.top = -1, !.faults.manual = 1],
     [Plain EXCEPT !.top = 2, !.faults.manual = 1, !.faults.refuse = 1, !.faults.drop = 1],
     [Plain EXCEPT !.faults.refuse = 1, !.faults.reject = 1],
     [AdvanceOnly EXCEPT !.faults.refuse = 1, !.faults.drop = 1]}

RestartFaults == [NoFaults EXCEPT !.refuse = 1, !.cancel = 1, !.crash = 1]
RestartSetups ==
    {[TwoLevels EXCEPT !.faults = RestartFaults],
     [Plain EXCEPT !.tp = TRUE, !.faults = RestartFaults],
     [TwoLevels EXCEPT !.faults.refuse = 2, !.faults.drop = 1, !.faults.manual = 1]}

FuturesSetups == RunningSetups \cup RestartSetups

\* One ladder, and nothing goes wrong at the venue or on the way.
CalmSetups == {TwoLevels}
=============================================================================
