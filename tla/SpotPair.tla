------------------------------ MODULE SpotPair ------------------------------
(***************************************************************************)
(* One live Binance spot pair: _SpotVenue and the ExecutionEngine paths    *)
(* that reach it (trader/_execution.py), the spot handlers of _PairWorker  *)
(* (trader/_trader.py) and its restart (trader/_state.py).                 *)
(*                                                                         *)
(* Spot has no positions: a trade is one unit of the asset, held in a      *)
(* wallet, and a protective sell order (a stop, or an OCO list) that locks *)
(* it.  Nothing else can be sold or placed on a locked unit, so a stop is  *)
(* replaced by cancelling it first, and between the two calls the holding  *)
(* is naked.                                                               *)
(*                                                                         *)
(* As in FuturesPair a queue item is a list of tasks, `todo`, of at most   *)
(* one venue call each, and prices are rungs: the entry stop is rung -1,   *)
(* the entry price 0.                                                      *)
(***************************************************************************)
EXTENDS Integers, Sequences, FiniteSets, Functions

CONSTANT Setups \* the scenarios to explore

Fault == {"refuse", "lose", "reject", "drop", "crash"}
Setup == [riskFree : BOOLEAN,        \* break-even at rung 0
          trailing : BOOLEAN,        \* the stop follows the peak
          exits    : BOOLEAN,        \* exit signals close at market
          stream   : BOOLEAN,        \* the user-data stream could be opened
          top      : Nat,            \* bound: the highest rung of the peak
          entries  : Nat,            \* bound: entries attempted
          faults   : [Fault -> Nat],
          anywhere : BOOLEAN]        \* FALSE: the process only stops between two items

VARIABLES
    setup,    \* the scenario, fixed at the start
    hold,     \* units of the asset in the wallet
    orders,   \* every protective order ever accepted; its id is its index
    feed,     \* ids of FILLED orders whose executionReport waits in the queue
    unseen,   \* an order filled without a report since the open orders were read
    mode,     \* "up", "down", "starting"
    trades,   \* engine._trades: trade id -> LiveTrade
    journal,  \* the trades of the last journal flush
    open,     \* the open orders as a restart read them
    todo,     \* what the worker has left to do for the current item
    told,     \* the kinds of ERROR the user was given
              \* ("not sold": that it was sold, where the answer was a rejected order)
    entries,  \* entries attempted so far
    budget    \* faults still to come

venueVars == <<hold, orders, feed, unseen>>
vars == <<setup, hold, orders, feed, unseen, mode, trades, journal, open, todo, told, entries, budget>>

None == 0
Live == {i \in DOMAIN orders : orders[i].st = "live"}
Free == hold - Cardinality(Live)      \* what no working order locks
Tracked == DOMAIN trades
Trade(sl, id) == [sl |-> sl, id |-> id, riskFree |-> FALSE, due |-> -1]

Task(op, t, arg) == [op |-> op, t |-> t, arg |-> arg]
Stage(op) == Task(op, 0, None)
Ascending(S) == [k \in 1..Cardinality(S) |-> CHOOSE i \in S : Cardinality({j \in S : j <= i}) = k]
PerTrade(op, S) == [k \in 1..Cardinality(S) |-> Task(op, Ascending(S)[k], None)]
Doing(op) == todo /= <<>> /\ Head(todo).op = op
It == Head(todo).t
Arg == Head(todo).arg
Rest == Tail(todo)

-----------------------------------------------------------------------------
(* Venue calls *)

Place(rung) == orders' = Append(orders, [rung |-> rung, st |-> "live"]) /\ UNCHANGED <<hold, feed, unseen>>
Cancel(i) == orders' = [orders EXCEPT ![i].st = "cancelled"] /\ UNCHANGED <<hold, feed, unseen>>
Buy == hold' = hold + 1 /\ UNCHANGED <<orders, feed, unseen>>
Sell == hold' = hold - 1 /\ UNCHANGED <<orders, feed, unseen>>

Spend(what) == budget[what] > 0 /\ budget' = [budget EXCEPT ![what] = @ - 1]

\* A call is accepted, refused (always, if the venue could not execute it), or
\* executed with the reply lost, which the caller takes for a refusal.
Call(valid, effect, ok, failed) ==
    \/ valid /\ UNCHANGED budget /\ effect /\ ok
    \/ (IF valid THEN Spend("refuse") ELSE UNCHANGED budget) /\ UNCHANGED venueVars /\ failed
    \/ valid /\ Spend("lose") /\ effect /\ failed

Step(trs, tasks, errors) ==
    /\ trades' = trs /\ todo' = tasks /\ told' = told \cup errors
    /\ UNCHANGED <<setup, mode, journal>>
Local(trs, tasks) == Step(trs, tasks, {}) /\ UNCHANGED <<venueVars, budget>>
With(t, r) == [trades EXCEPT ![t] = r]
Also(t, r) == [u \in Tracked \cup {t} |-> IF u = t THEN r ELSE trades[u]]
Without(t) == Restrict(trades, Tracked \ {t})

-----------------------------------------------------------------------------
(* Entries: _SpotVenue.open, open_position *)

Enter ==
    /\ Doing("enter")
    /\ \/ Local(trades, Rest) /\ UNCHANGED entries
       \/ /\ entries < setup.entries
          /\ entries' = entries + 1
          /\ Call(TRUE, Buy, Step(trades, <<Task("protect", entries + 1, -1)>> \o Rest, {}),
                             Step(trades, Rest, {"entry failed"}))
    /\ UNCHANGED open

Protect ==
    /\ Doing("protect")
    /\ Call(Free > 0, Place(-1),
            Step(Also(It, Trade(-1, Len(orders) + 1)), Rest, {}),
            Step(trades, <<Task("emergency", It, None)>> \o Rest, {}))
    /\ UNCHANGED <<open, entries>>

\* The naked entry is sold; either way it is not tracked, and an order that is rejected
\* counts as sold.
EmergencySell ==
    /\ Doing("emergency")
    /\ \/ Call(Free > 0, Sell, Step(trades, Rest, {"sold"}), Step(trades, Rest, {"unprotected"}))
       \/ Spend("reject") /\ UNCHANGED venueVars /\ Step(trades, Rest, {"not sold"})
    /\ UNCHANGED <<open, entries>>

-----------------------------------------------------------------------------
(* Stops: update_stops and _SpotVenue.move_stop *)

\* Step A: the peak a closed candle leaves behind, as the rung it makes due.
TrackPeaks ==
    /\ Doing("peak")
    /\ \E peak \in [Tracked -> -1..setup.top] :
           /\ \A t \in Tracked : trades[t].due <= peak[t]
           /\ setup.trailing \/ \A t \in Tracked : peak[t] = -1
           /\ Local([t \in Tracked |-> [trades[t] EXCEPT !.due = peak[t]]], Rest)
    /\ UNCHANGED <<open, entries>>

UnlockTasks(S, rung) == [k \in 1..Cardinality(S) |-> Task("unlock", Ascending(S)[k], rung[Ascending(S)[k]])]

\* Step B: the candle's high may reach the risk-free trigger of any trade.
RiskFree ==
    /\ Doing("risk_free")
    /\ \E S \in SUBSET {t \in Tracked : setup.riskFree /\ ~trades[t].riskFree} :
           Local(trades, UnlockTasks(S, [t \in S |-> 0]) \o Rest)
    /\ UNCHANGED <<open, entries>>

\* Step C: the trailing stop of every trade whose peak is ahead of it.
Trail ==
    /\ Doing("trail")
    /\ LET late == {t \in Tracked : trades[t].sl < trades[t].due}
       IN  Local(trades, UnlockTasks(late, [t \in late |-> trades[t].due]) \o Rest)
    /\ UNCHANGED <<open, entries>>

AtEntry(r) == [r EXCEPT !.riskFree = TRUE]

\* move_stop, first call: "failure here leaves the old stop armed".  A break-even of a
\* stop that is at the entry price already asks nothing.
Unlock ==
    /\ Doing("unlock")
    /\ LET r == trades[It]
           place == <<Task("place", It, Arg)>> \o Rest
       IN  IF r.sl = Arg THEN Local(With(It, AtEntry(r)), Rest)
           ELSE IF r.id = None THEN Local(trades, place)
           ELSE Call(r.id \in Live, Cancel(r.id),
                     Step(With(It, [r EXCEPT !.id = None]), place, {}),
                     Step(trades, Rest, {"move failed"}))
    /\ UNCHANGED <<open, entries>>

\* The trade once its new stop stands; it was moved by step B when step C is still to come.
Moved == [sl |-> Arg, id |-> Len(orders) + 1,
          riskFree |-> trades[It].riskFree \/ (\E k \in DOMAIN Rest : Rest[k].op = "trail"),
          due |-> trades[It].due]

\* Variant: a refused replacement is reported, the old stop is not restored.
PlaceNewNoRestore ==
    /\ Doing("place")
    /\ Call(Free > 0, Place(Arg),
            Step(With(It, Moved), Rest, {}),
            Step(trades, Rest, {"move failed"}))
    /\ UNCHANGED <<open, entries>>

PlaceNew ==
    /\ Doing("place")
    /\ Call(Free > 0, Place(Arg),
            Step(With(It, Moved), Rest, {}),
            Step(trades, <<Task("restore", It, Arg)>> \o Rest, {}))
    /\ UNCHANGED <<open, entries>>

\* Variant: the engine keeps the new stop although the old one stands at the venue.
RestoreKeepsNew ==
    /\ Doing("restore")
    /\ LET r == trades[It]
       IN  Call(Free > 0, Place(r.sl),
                Step(With(It, [r EXCEPT !.id = Len(orders) + 1, !.sl = Arg]), Rest, {"move failed"}),
                Step(trades, <<Task("sell_out", It, Arg)>> \o Rest, {}))
    /\ UNCHANGED <<open, entries>>

\* The engine reverts its stop: the trade goes on where the old one stood.
Restore ==
    /\ Doing("restore")
    /\ LET r == trades[It]
       IN  Call(Free > 0, Place(r.sl),
                Step(With(It, [r EXCEPT !.id = Len(orders) + 1]), Rest, {"move failed"}),
                Step(trades, <<Task("sell_out", It, None)>> \o Rest, {}))
    /\ UNCHANGED <<open, entries>>

\* "A position is never left unprotected"; if it cannot be sold either, the user is told.
SellOut ==
    /\ Doing("sell_out")
    /\ Call(Free > 0, Sell, Step(Without(It), Rest, {"sold"}), Step(trades, Rest, {"unprotected"}))
    /\ UNCHANGED <<open, entries>>

-----------------------------------------------------------------------------
(* Closes: force_close with _SpotVenue.close, fills, the degraded poll *)

ForceClose ==
    /\ Doing("exit")
    /\ \/ Local(trades, Rest)
       \/ setup.exits /\ Local(trades, PerTrade("release", Tracked) \o Rest)
    /\ UNCHANGED <<open, entries>>

\* "Unlock the asset before selling"; a refusal is only a warning.
Release ==
    /\ Doing("release")
    /\ LET r == trades[It]
           sell == <<Task("sell", It, None)>> \o Rest
       IN  IF r.id = None THEN Local(trades, sell)
           ELSE Call(r.id \in Live, Cancel(r.id),
                     Step(With(It, [r EXCEPT !.id = None]), sell, {}), Step(trades, sell, {}))
    /\ UNCHANGED <<open, entries>>

\* A close that fails leaves the trade tracked.
CloseTrade ==
    /\ Doing("sell")
    /\ Call(Free > 0, Sell, Step(Without(It), Rest, {}), Step(trades, Rest, {"close failed"}))
    /\ UNCHANGED <<open, entries>>

\* _process_user_data: a protective order of a tracked trade is filled; no sibling is left.
ProcessFill ==
    /\ Doing("fill")
    /\ trades' = Restrict(trades, {t \in Tracked : trades[t].id /= Head(feed)})
    /\ feed' = Tail(feed)
    /\ todo' = Rest
    /\ UNCHANGED <<setup, hold, orders, unseen, mode, journal, open, told, entries, budget>>

\* _reconcile_spot: without a stream a trade whose order is not open any more is
\* recorded as closed; a read that fails is left to the next poll.
Poll ==
    /\ Doing("poll")
    /\ \/ setup.stream /\ UNCHANGED <<trades, unseen, budget>>
       \/ ~setup.stream /\ Spend("refuse") /\ UNCHANGED <<trades, unseen>>
       \/ /\ ~setup.stream
          /\ trades' = Restrict(trades, {t \in Tracked : trades[t].id \in Live})
          /\ unseen' = FALSE
          /\ UNCHANGED budget
    /\ todo' = Rest
    /\ UNCHANGED <<setup, hold, orders, feed, mode, journal, open, told, entries>>

-----------------------------------------------------------------------------
(* Queue items, the journal, the restart *)

Item(tasks) ==
    /\ mode = "up" /\ todo = <<>>
    /\ todo' = tasks
    /\ UNCHANGED <<setup, venueVars, mode, trades, journal, open, told, entries, budget>>

Candle == Item(<<Stage("peak"), Stage("risk_free"), Stage("trail"), Stage("exit"),
                 Stage("enter"), Stage("poll"), Stage("flush")>>)
UserData == feed /= <<>> /\ Item(<<Stage("fill"), Stage("flush")>>)
PollItem == Tracked /= {} /\ Item(<<Stage("poll"), Stage("flush")>>)

Flush ==
    /\ Doing("flush")
    /\ journal' = trades
    /\ mode' = "up"
    /\ todo' = <<>>
    /\ open' = {}
    /\ UNCHANGED <<setup, venueVars, trades, told, entries, budget>>

Crash ==
    /\ mode /= "down"
    /\ setup.anywhere \/ todo = <<>>
    /\ Spend("crash")
    /\ mode' = "down"
    /\ trades' = << >> /\ todo' = <<>> /\ feed' = <<>> /\ open' = {}
    /\ unseen' = (unseen \/ feed /= <<>>)
    /\ UNCHANGED <<setup, hold, orders, journal, told, entries>>

Restart ==
    /\ mode = "down"
    /\ mode' = "starting"
    /\ todo' = <<Stage("read"), Stage("adopt"), Stage("flush")>>
    /\ UNCHANGED <<setup, venueVars, trades, journal, open, told, entries, budget>>

ReadOrders ==
    /\ Doing("read")
    /\ open' = Live
    /\ unseen' = FALSE
    /\ todo' = Rest
    /\ UNCHANGED <<setup, hold, orders, feed, mode, trades, journal, told, entries, budget>>

\* _reconcile_spot of _state.py: presence is a protective order still working.
Adopt ==
    /\ Doing("adopt")
    /\ Local(Restrict(journal, {t \in DOMAIN journal : journal[t].id \in open}), Rest)
    /\ UNCHANGED <<open, entries>>

-----------------------------------------------------------------------------
\* A protective order fills; the report is missed while the trader is down or the
\* stream reconnects, and there is none without a stream.
VenueFill ==
    /\ \E i \in Live, seen \in BOOLEAN :
           /\ orders' = [orders EXCEPT ![i].st = "filled"]
           /\ IF setup.stream /\ mode = "up"
              THEN IF seen THEN UNCHANGED budget ELSE Spend("drop")
              ELSE ~seen /\ UNCHANGED budget
           /\ feed' = IF seen THEN Append(feed, i) ELSE feed
           /\ unseen' = (unseen \/ ~seen)
    /\ hold' = hold - 1
    /\ UNCHANGED <<setup, mode, trades, journal, open, todo, told, entries>>

Init ==
    /\ setup \in Setups /\ budget = setup.faults
    /\ hold = 0 /\ orders = <<>> /\ feed = <<>> /\ unseen = FALSE
    /\ mode = "up" /\ trades = << >> /\ journal = << >> /\ open = {} /\ todo = <<>>
    /\ told = {} /\ entries = 0

Work ==
    \/ Enter \/ Protect \/ EmergencySell
    \/ TrackPeaks \/ RiskFree \/ Trail \/ Unlock \/ PlaceNew \/ Restore \/ SellOut
    \/ ForceClose \/ Release \/ CloseTrade \/ ProcessFill \/ Poll
    \/ Flush \/ ReadOrders \/ Adopt

Next == Work \/ Candle \/ UserData \/ PollItem \/ Crash \/ Restart \/ VenueFill

Spec == Init /\ [][Next]_vars
\* The consumer thread runs, and takes candles and reports in their turn.
FairSpec == Spec /\ WF_vars(Work) /\ SF_vars(Candle) /\ SF_vars(UserData)

-----------------------------------------------------------------------------
(* Properties *)

Idle == mode = "up" /\ todo = <<>>
Lost == budget["lose"] < setup.faults["lose"]

\* A trade whose close failed after it had cancelled the stop has no order: a restart, and a
\* poll without a stream, take it for closed.
Forgets == setup.exits /\ (~setup.stream \/ setup.faults["crash"] > 0)

\* What the user is told of a holding without an order, and of one without a trade (with a
\* lost reply: any error); of an emergency sale that was rejected, that it is sold.
SaidNaked == told \cap {"unprotected", "not sold", "close failed"} /= {} \/ (Lost /\ told /= {})
SaidGone == told \cap {"unprotected", "not sold"} /= {} \/ (Lost /\ told /= {}) \/ (Forgets /\ "close failed" \in told)

\* Whenever the worker is between two items, a holding without a working order is one
\* the user was told of, and so is a holding that no trade stands for.
NeverNakedUnsaid ==
    Idle => /\ Free > 0 => SaidNaked
            /\ hold > Cardinality(Tracked) => SaidGone

\* No trailing stop stays due for ever: it is tried until it stands at the venue, unless the
\* reply of a call was lost (a cancel that was carried out is tried for ever) or a close
\* failed after it had cancelled the stop.
Stands(t) == trades[t].id /= None /\ orders[trades[t].id].rung >= trades[t].due
StopsStand ==
    mode = "up" /\ ~Lost /\ "close failed" \notin told
        => \A t \in Tracked : trades[t].due > -1 => Stands(t)
DueStopLands == []<>StopsStand

\* Again and again what is tracked is what is held, but for a fill nobody reported:
\* while the stream is up nothing but a restart looks for it.
Settled == mode /= "up" \/ unseen \/ Lost \/ hold = Cardinality(Tracked)
           \/ told \cap {"unprotected", "not sold"} /= {}
LedgerSettles == []<>Settled
=============================================================================
