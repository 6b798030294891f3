----------------------------- MODULE FuturesPair -----------------------------
(***************************************************************************)
(* One live futures pair: the ExecutionEngine with its _FuturesVenue       *)
(* (trader/_execution.py), the _PairWorker handlers that drive it          *)
(* (trader/_trader.py), the journal and the restart reconciliation         *)
(* (trader/_state.py), against the account as they use it: one net         *)
(* position in one direction, and reduce-only orders that fill by          *)
(* themselves, at any time, except that a ladder level is not reached      *)
(* before the lower levels of its trade.  A fill never takes the position  *)
(* below zero; an order that triggers on a flat position expires without a *)
(* fill event.                                                             *)
(*                                                                         *)
(* A queue item is handled as a list of tasks, `todo`: each task makes at  *)
(* most one venue call, which is accepted, refused, or executed with its   *)
(* reply lost; fills, manual reductions and crashes come between any two.  *)
(* The last task of an item writes the journal.                            *)
(*                                                                         *)
(* Prices are rungs: the entry stop is rung -1, the entry price 0 and the  *)
(* k-th level k.  All trades are long; a trade is named by the order of    *)
(* its entry (its client_order_id), which is also the FIFO order.          *)
(***************************************************************************)
EXTENDS Integers, Sequences, FiniteSets, FiniteSetsExt, Functions, SequencesExt

CONSTANT Setups \* the scenarios to explore: settings of the trader, and bounds

Fault == {"refuse", "lose", "reject", "drop", "manual", "cancel", "crash"}
Setup == [size      : Nat \ {0},     \* of every entry
          fractions : Seq(Nat),      \* multi_rr: the size each level closes; <<>>: another tp_mode
          tp        : BOOLEAN,       \* plain modes: entries carry a take-profit order
          free      : BOOLEAN,       \* risk_free_enabled
          top       : Int,           \* bound: stops are trailed up to this rung; -1: not at all
          entries   : Nat,           \* bound: entries attempted
          faults    : [Fault -> Nat],
          anywhere  : BOOLEAN]       \* FALSE: the process only stops between two items

ASSUME SetupsAssumption ==
    \A s \in Setups : s \in Setup /\ s.fractions \in Seq(0..s.size) /\ (s.tp => s.fractions = <<>>)

VARIABLES
    net,       \* size of the venue's net position
    orders,    \* every reduce-only order ever accepted; an order id is its index
    feed,      \* FILLED events of the user-data stream not yet taken by the worker
    setup,     \* the scenario, fixed at the start
    mode,      \* "up", "down" (stopped or crashed), "starting" (reconciling)
    trades,    \* engine._trades: trade id -> LiveTrade
    journal,   \* the trades of the last journal flush
    todo,      \* what the worker has left to do for the current item
    snap,      \* the venue reads of a restart: open order ids, fills, net
    incidents, \* what has happened that protection does not survive, see Incident
    entries,   \* entries attempted so far
    budget     \* faults still to come

\* "told": an ERROR told the user that the position may be UNPROTECTED; "rejected": the
\* answer to an emergency close was that the order is rejected; "overtaken": the poll has
\* booked fills whose events the worker has yet to take.
Incident == {"told", "rejected", "overtaken"}

venueVars == <<net, orders, feed>>
vars == <<net, orders, feed, setup, mode, trades, journal, todo, snap, incidents, entries, budget>>

-----------------------------------------------------------------------------
(* The venue *)

Least(a, b) == IF a <= b THEN a ELSE b

\* kind: "sl" stop, "tp" take-profit, "ladder" limit; rung: the stop's rung or the level.
Order(trade, kind, rung, qty) ==
    [trade |-> trade, kind |-> kind, rung |-> rung, qty |-> qty, done |-> 0, st |-> "live"]

Live == {i \in DOMAIN orders : orders[i].st = "live"}
LiveStops == {i \in Live : orders[i].kind = "sl"}
StopQty == MapThenSumSet(LAMBDA i : orders[i].qty, LiveStops)

NextOrderId == Len(orders) + 1

VenueInit == net = 0 /\ orders = <<>> /\ feed = <<>>

PlaceOrder(o) == orders' = Append(orders, o) /\ UNCHANGED <<net, feed>>

CancelOrder(i) == orders' = [orders EXCEPT ![i].st = "cancelled"] /\ UNCHANGED <<net, feed>>

MarketBuy(q) == net' = net + q /\ UNCHANGED <<orders, feed>>

MarketReduce(q) == net' = net - Least(q, net) /\ UNCHANGED <<orders, feed>>

\* Order i reaches its price; the event goes out to the stream if it is seen.
FillOrder(i, seen) ==
    LET q == Least(orders[i].qty, net)
    IN  /\ i \in Live
        /\ orders[i].kind = "ladder" =>
               \A j \in Live : orders[j].kind = "ladder" /\ orders[j].trade = orders[i].trade
                                   => orders[i].rung <= orders[j].rung
        /\ orders' = [orders EXCEPT ![i].st = IF q = 0 THEN "expired" ELSE "filled",
                                    ![i].done = q]
        /\ net' = net - q
        /\ feed' = IF seen /\ q > 0 THEN Append(feed, [id |-> i, qty |-> q]) ELSE feed

-----------------------------------------------------------------------------
(* The engine's books *)

Size == setup.size
Fractions == setup.fractions
Levels == DOMAIN Fractions
Ladder == Fractions /= <<>>
Most == IF Ladder THEN Len(Fractions) ELSE setup.top   \* the highest rung

None == 0              \* no order id
NoSnap == [open |-> {}, done |-> <<>>, net |-> 0]

Task(op, t, arg) == [op |-> op, t |-> t, arg |-> arg]
Stage(op) == Task(op, 0, <<>>)
Ascending(S) == [k \in 1..Cardinality(S) |-> CHOOSE i \in S : Cardinality({j \in S : j <= i}) = k]
PerTrade(op, S) == [k \in 1..Cardinality(S) |-> Task(op, Ascending(S)[k], <<>>)]

Tracked == DOMAIN trades
TrackedSize == MapThenSumSet(LAMBDA t : trades[t].size, Tracked)
Without(t) == Restrict(trades, Tracked \ {t})
With(t, r) == [trades EXCEPT ![t] = r]
Also(t, r) == [u \in Tracked \cup {t} |-> IF u = t THEN r ELSE trades[u]]

Placed(id) == IF id = None THEN <<>> ELSE <<id>>
Protective(r) == Placed(r.slId) \o Placed(r.tpId) \o Ascending(r.ladder)

-----------------------------------------------------------------------------
(* One task: its call to the venue and what follows *)

Spend(what) == budget[what] > 0 /\ budget' = [budget EXCEPT ![what] = @ - 1]

\* A call is accepted, refused (always, if the venue could not execute it), or
\* executed with the reply lost, which the caller cannot tell from a refusal.
Call(valid, effect, ok, failed) ==
    \/ valid /\ UNCHANGED budget /\ effect /\ ok
    \/ (IF valid THEN Spend("refuse") ELSE UNCHANGED budget) /\ UNCHANGED venueVars /\ failed
    \/ valid /\ Spend("lose") /\ effect /\ failed

Doing(op) == todo /= <<>> /\ Head(todo).op = op
It == Head(todo).t
Arg == Head(todo).arg
Rest == Tail(todo)

Step(trs, tasks) == trades' = trs /\ todo' = tasks /\ UNCHANGED <<setup, mode, journal>>
Local(trs, tasks) == Step(trs, tasks) /\ UNCHANGED <<venueVars, budget>>

-----------------------------------------------------------------------------
(* Entries: _FuturesVenue.open, open_position, _place_ladder *)

Enter ==
    /\ Doing("enter")
    /\ \/ Local(trades, Rest) /\ UNCHANGED entries
       \/ /\ entries < setup.entries
          /\ entries' = entries + 1
          /\ Call(TRUE, MarketBuy(Size),
                  Step(trades, <<Task("attach_sl", entries + 1, <<>>)>> \o Rest),
                  Step(trades, Rest))
    /\ UNCHANGED <<snap, incidents>>

\* Variant: a stop that could not be attached is only reported.
AttachStopOrReport ==
    /\ Doing("attach_sl")
    /\ Call(net > 0, PlaceOrder(Order(It, "sl", -1, Size)),
            Step(trades, <<Task("attach_tp", It, <<NextOrderId>>)>> \o Rest),
            Step(trades, Rest))
    /\ UNCHANGED <<snap, incidents, entries>>

AttachStop ==
    /\ Doing("attach_sl")
    /\ Call(net > 0, PlaceOrder(Order(It, "sl", -1, Size)),
            Step(trades, <<Task("attach_tp", It, <<NextOrderId>>)>> \o Rest),
            Step(trades, <<Task("emergency", It, <<>>)>> \o Rest))
    /\ UNCHANGED <<snap, incidents, entries>>

\* "an unprotected position must not stand"; an order that the venue takes and rejects
\* counts as the close.
EmergencyClose ==
    /\ Doing("emergency")
    /\ \/ Call(net > 0, MarketReduce(Size),
               Step(trades, Rest) /\ UNCHANGED incidents,
               Step(trades, Rest) /\ incidents' = incidents \cup {"told"})
       \/ /\ Spend("reject") /\ UNCHANGED venueVars
          /\ Step(trades, Rest) /\ incidents' = incidents \cup {"rejected"}
    /\ UNCHANGED <<snap, entries>>

Opened(slId, tpId) ==
    [size |-> Size, hits |-> 0, sl |-> -1, slId |-> slId, tpId |-> tpId,
     ladder |-> {}, free |-> FALSE, pending |-> FALSE]

LadderPlan == {k \in Levels : Fractions[k] > 0}
PlaceTasks(t, S) == [k \in 1..Cardinality(S) |-> Task("place", t, <<Ascending(S)[k]>>)]

\* The trade is tracked whether or not its take-profit could be attached.
AttachTakeProfit ==
    /\ Doing("attach_tp")
    /\ LET tracked(tpId) == Step(Also(It, Opened(Head(Arg), tpId)),
                                 PlaceTasks(It, LadderPlan) \o Rest)
       IN  IF setup.tp
           THEN Call(net > 0, PlaceOrder(Order(It, "tp", 0, Size)),
                     tracked(NextOrderId), tracked(None))
           ELSE tracked(None) /\ UNCHANGED <<venueVars, budget>>
    /\ UNCHANGED <<snap, incidents, entries>>

\* place_ladder_level: a level that cannot be placed is left to feed detection.
PlaceLevel ==
    /\ Doing("place")
    /\ LET r == trades[It]
           k == Head(Arg)
       IN  Call(net > 0, PlaceOrder(Order(It, "ladder", k, Least(Fractions[k], r.size))),
                Step(With(It, [r EXCEPT !.ladder = @ \cup {NextOrderId}]), Rest),
                Step(trades, Rest))
    /\ UNCHANGED <<snap, incidents, entries>>

-----------------------------------------------------------------------------
(* Stops: _FuturesVenue.move_stop and its callers *)

\* The new stop first, then the old one is cancelled; ok and failed are what the
\* caller leaves in the trade, more and less what it goes on with.
MoveStop(t, rung, ok, failed, more, less) ==
    LET old == IF trades[t].slId = None THEN <<>>
               ELSE <<Task("cancel", t, <<trades[t].slId>>)>>
    IN  Call(net > 0, PlaceOrder(Order(t, "sl", rung, trades[t].size)),
             Step(With(t, [ok EXCEPT !.slId = NextOrderId]), old \o more),
             Step(With(t, failed), less))

\* A refused cancel is only a warning.
CancelOne ==
    /\ Doing("cancel")
    /\ Call(Head(Arg) \in Live, CancelOrder(Head(Arg)), Step(trades, Rest), Step(trades, Rest))
    /\ UNCHANGED <<snap, incidents, entries>>

\* Variant: pending stops are forgotten.
RetryNothing ==
    /\ Doing("retry")
    /\ Local(trades, Rest)
    /\ UNCHANGED <<snap, incidents, entries>>

\* update_stops: every pending stop is pushed again before anything else.
RetryPending ==
    /\ Doing("retry")
    /\ Local(trades, PerTrade("sync", {t \in Tracked : trades[t].pending}) \o Rest)
    /\ UNCHANGED <<snap, incidents, entries>>

SyncStop ==
    /\ Doing("sync")
    /\ LET r == trades[It]
       IN  MoveStop(It, r.sl, [r EXCEPT !.pending = FALSE], r, Rest, Rest)
    /\ UNCHANGED <<snap, incidents, entries>>

\* B, not for ladders: any of the trades may have earned its break-even stop.
BreakEvens ==
    /\ Doing("free")
    /\ \E S \in SUBSET {t \in Tracked : setup.free /\ ~Ladder /\ ~trades[t].free} :
           Local(trades, PerTrade("free_sl", S) \o Rest)
    /\ UNCHANGED <<snap, incidents, entries>>

\* The stop goes to the entry price, from where it was trailed to as well; a refused move
\* is reverted.
BreakEven ==
    /\ Doing("free_sl")
    /\ LET r == trades[It]
           ok == [r EXCEPT !.sl = 0, !.free = TRUE]
       IN  IF r.sl = 0 THEN Local(With(It, ok), Rest)
           ELSE MoveStop(It, 0, ok, r, Rest, Rest)
    /\ UNCHANGED <<snap, incidents, entries>>

\* C: any of the trades, ladders too, may be due a higher trailing stop.
RaiseStops ==
    /\ Doing("raise")
    /\ \E S \in SUBSET {t \in Tracked : trades[t].sl < setup.top} :
           Local(trades, PerTrade("raise_sl", S) \o Rest)
    /\ UNCHANGED <<snap, incidents, entries>>

RaiseStop ==
    /\ Doing("raise_sl")
    /\ LET r == trades[It]
       IN  MoveStop(It, r.sl + 1, [r EXCEPT !.sl = @ + 1], r, Rest, Rest)
    /\ UNCHANGED <<snap, incidents, entries>>

-----------------------------------------------------------------------------
(* The ladder: check_tp_levels, _settle_ladder_fill *)

CancelTasks(r) == [k \in 1..Len(Protective(r)) |-> Task("cancel", 0, <<Protective(r)[k]>>)]

\* Variant of Settle: the stop stays behind the cursor.
SettleNoMove(t, r, k, q, rest) ==
    IF q >= r.size
    THEN Step(Without(t), CancelTasks(r) \o rest)
    ELSE Step(With(t, [r EXCEPT !.size = @ - q, !.hits = k, !.sl = k - 1]), rest)

\* Level k of trade t realized quantity q: r is the trade without the level's order.
Settle(t, r, k, q, rest) ==
    LET at == [r EXCEPT !.hits = IF @ < k THEN k ELSE @,
                        !.sl = IF r.hits < k THEN k - 1 ELSE @]
    IN  IF q >= r.size
        THEN Step(Without(t), CancelTasks(r) \o rest)
        ELSE Step(With(t, [at EXCEPT !.size = @ - q]),
                  (IF at.sl /= r.sl THEN <<Task("settled", t, <<>>)>> ELSE <<>>) \o rest)

\* The realized close cannot be reverted: a refused move stays pending.
SettledStop ==
    /\ Doing("settled")
    /\ LET r == trades[It]
       IN  MoveStop(It, r.sl, r, [r EXCEPT !.pending = TRUE], Rest, Rest)
    /\ UNCHANGED <<snap, incidents, entries>>

CheckLevels ==
    /\ Doing("levels")
    /\ Local(trades, (IF Ladder THEN PerTrade("level", Tracked) ELSE <<>>) \o Rest)
    /\ UNCHANGED <<snap, incidents, entries>>

\* The price has not reached the next level, a working order owns it, or none is left.
LevelDone ==
    /\ Doing("level")
    /\ Local(trades, Rest)
    /\ UNCHANGED <<snap, incidents, entries>>

\* The next level is touched: close its size at market, or only advance; the loop
\* goes on with the level after it until a call is refused.
LevelTouched ==
    /\ Doing("level")
    /\ It \in Tracked
    /\ LET r == trades[It]
           k == r.hits + 1
           q == Least(Fractions[k], r.size)
       IN  /\ k \in Levels
           /\ \A i \in r.ladder : orders[i].rung /= k
           /\ IF q = 0
              THEN MoveStop(It, r.hits, [r EXCEPT !.hits = k, !.sl = r.hits], r, todo, Rest)
              ELSE Call(net > 0, MarketReduce(q), Settle(It, r, k, q, todo), Step(trades, Rest))
    /\ UNCHANGED <<snap, incidents, entries>>

-----------------------------------------------------------------------------
(* Closes: force_close, venue fills, the position poll *)

ForceClose ==
    /\ Doing("exit")
    /\ Local(trades, Rest) \/ Local(trades, PerTrade("close", Tracked) \o Rest)
    /\ UNCHANGED <<snap, incidents, entries>>

\* Of the trades tracked: a trade whose close fails stays.
CloseTrade ==
    /\ Doing("close") /\ It \in Tracked
    /\ Call(net > 0, MarketReduce(trades[It].size),
            Step(Without(It), CancelTasks(trades[It]) \o Rest),
            Step(trades, Rest))
    /\ UNCHANGED <<snap, incidents, entries>>

\* _cancel_leftover_protection: in order, and a refusal ends the list.
Leftover(ids) == Task("leftover", 0, ids)

CancelLeftover ==
    /\ Doing("leftover")
    /\ IF Arg = <<>> THEN Local(trades, Rest)
       ELSE Call(Head(Arg) \in Live, CancelOrder(Head(Arg)),
                 Step(trades, <<Leftover(Tail(Arg))>> \o Rest),
                 Step(trades, Rest))
    /\ UNCHANGED <<snap, incidents, entries>>

OthersThan(id, r) == SelectSeq(Protective(r), LAMBDA i : i /= id)

\* record_external_close of the order id of trade t, then the leftovers.
RecordFill(t, id, q) ==
    LET r == trades[t]
    IN  IF q < r.size
        THEN Step(With(t, [r EXCEPT !.size = @ - q]), Rest)
        ELSE Step(Without(t), <<Leftover(OthersThan(id, r))>> \o Rest)

\* A FILLED event: a ladder level, a protective order, or an order nobody tracks.
ProcessFill ==
    /\ Doing("fill")
    /\ feed' = Tail(feed)
    /\ LET id == Head(feed).id
           q  == Head(feed).qty
           owners == {t \in Tracked : id \in ToSet(Protective(trades[t]))}
       IN  IF owners = {}
           THEN Step(trades, Rest)
           ELSE LET t == Min(owners)
                    r == trades[t]
                IN  IF id \in r.ladder
                    THEN Settle(t, [r EXCEPT !.ladder = @ \ {id}], orders[id].rung, q, Rest)
                    ELSE RecordFill(t, id, q)
    /\ UNCHANGED <<net, orders, snap, incidents, entries, budget>>

\* Variant: every trade is charged the whole shortage.
ManualTakeEach(t, short) == Least(trades[t].size, IF short > 0 THEN short ELSE 0)

\* What the poll books on trade t, oldest first, when the venue holds `short` less.
ManualTake(t, short) ==
    LET before == MapThenSumSet(LAMBDA u : trades[u].size, {u \in Tracked : u < t})
    IN  Least(trades[t].size, IF short > before THEN short - before ELSE 0)

\* The fills of its orders that trade t has yet to be told of.
InFlight(t) ==
    MapThenSumSet(LAMBDA k : feed[k].qty, {k \in DOMAIN feed : feed[k].id \in ToSet(Protective(trades[t]))})

\* The poll books a fill whose event is still queued, and not as the end of that very
\* trade: the event books it once more, or another trade was charged.
Overtakes(short) ==
    short > 0 /\ \E t \in Tracked : InFlight(t) > 0 /\ ~(InFlight(t) = trades[t].size
                                                           /\ ManualTake(t, short) = trades[t].size)

\* _reconcile_futures, whatever is queued; a venue that holds more than is tracked is left
\* alone.
Reconcile ==
    /\ Doing("reconcile")
    /\ LET short == TrackedSize - net
           gone  == {t \in Tracked : ManualTake(t, short) = trades[t].size}
       IN  \/ /\ trades' = [t \in Tracked \ gone |->
                               [trades[t] EXCEPT !.size = @ - ManualTake(t, short)]]
              /\ todo' = [k \in 1..Cardinality(gone) |-> Leftover(Protective(trades[Ascending(gone)[k]]))] \o Rest
              /\ incidents' = incidents \cup (IF Overtakes(short) THEN {"overtaken"} ELSE {})
              /\ UNCHANGED budget
           \/ /\ Spend("refuse")
              /\ trades' = trades /\ todo' = Rest /\ UNCHANGED incidents
    /\ UNCHANGED <<venueVars, setup, mode, journal, snap, entries>>

-----------------------------------------------------------------------------
(* Queue items and the journal *)

Item(tasks) ==
    /\ mode = "up" /\ todo = <<>>
    /\ todo' = tasks
    /\ UNCHANGED <<venueVars, setup, mode, trades, journal, snap, incidents, entries, budget>>

\* _process_scheduler_tick
Candle == Item(<<Stage("retry"), Stage("free"), Stage("raise"), Stage("levels"),
                 Stage("exit"), Stage("enter"), Stage("reconcile"), Stage("flush")>>)

\* _process_forming
Forming == Item(<<Stage("levels"), Stage("exit"), Stage("enter"), Stage("flush")>>)

UserData == feed /= <<>> /\ Item(<<Stage("fill"), Stage("flush")>>)

PollItem == Item(<<Stage("reconcile"), Stage("flush")>>)

Flush ==
    /\ Doing("flush")
    /\ journal' = trades
    /\ mode' = "up"
    /\ todo' = <<>>
    /\ snap' = NoSnap
    /\ UNCHANGED <<venueVars, setup, trades, incidents, entries, budget>>

-----------------------------------------------------------------------------
(* Restart: reconcile_startup, _reconcile_futures of _state.py *)

Restart ==
    /\ mode = "down"
    /\ mode' = "starting"
    /\ todo' = <<Stage("read_net"), Stage("read_orders"), Stage("read_fills")>>
    /\ UNCHANGED <<venueVars, setup, trades, journal, snap, incidents, entries, budget>>

ReadNet ==
    /\ Doing("read_net")
    /\ Local(trades, Rest)
    /\ snap' = [snap EXCEPT !.net = net]
    /\ UNCHANGED <<incidents, entries>>

ReadOrders ==
    /\ Doing("read_orders")
    /\ Local(trades, Rest)
    /\ snap' = [snap EXCEPT !.open = Live]
    /\ UNCHANGED <<incidents, entries>>

\* An unreadable history degrades to no known fills.
ReadFills ==
    /\ Doing("read_fills")
    /\ \/ snap' = [snap EXCEPT !.done = [i \in DOMAIN orders |-> orders[i].done]] /\ UNCHANGED budget
       \/ snap' = snap /\ Spend("refuse")
    /\ Step(trades, PerTrade("adopt", DOMAIN journal) \o <<Stage("flush")>>)
    /\ UNCHANGED <<venueVars, incidents, entries>>

InFills(i) == i \in DOMAIN snap.done /\ snap.done[i] > 0
Gone(i) == i /= None /\ i \notin snap.open

ByLevel(r) == SetToSortSeq(r.ladder, LAMBDA i, j : orders[i].rung < orders[j].rung)

Adopt ==
    /\ Doing("adopt")
    /\ LET r == journal[It]
       IN  Local(Also(It, r),
                 <<Task("old_ladder", It, ByLevel(r)), Task("old_sl", It, <<>>),
                   Task("old_tp", It, <<>>), Task("cover", It, <<>>),
                   Task("repair", It, <<>>), Task("rearm", It, <<>>),
                   Task("replace", It, <<>>)>> \o Rest)
    /\ UNCHANGED <<snap, incidents, entries>>

\* What is left to do for a journaled trade that turned out to be closed.
SkipClosed ==
    /\ \E op \in {"old_ladder", "old_sl", "old_tp", "cover", "repair", "rearm", "replace"} :
           Doing(op)
    /\ It \notin Tracked
    /\ Local(trades, Rest)
    /\ UNCHANGED <<snap, incidents, entries>>

Adopting(op) == Doing(op) /\ It \in Tracked

\* Ladder orders that filled while offline settle like live fills.
SettleOfflineLadder ==
    /\ Adopting("old_ladder")
    /\ LET r == trades[It]
           i == Head(Arg)
           more == <<Task("old_ladder", It, Tail(Arg))>> \o Rest
       IN  IF Arg = <<>> THEN Step(trades, Rest)
           ELSE IF Gone(i) /\ InFills(i)
           THEN Settle(It, [r EXCEPT !.ladder = @ \ {i}], orders[i].rung, snap.done[i], more)
           ELSE Step(trades, more)
    /\ UNCHANGED <<venueVars, snap, incidents, entries, budget>>

SettleOfflineFill ==
    /\ Adopting("old_sl") \/ Adopting("old_tp")
    /\ LET id == IF Doing("old_sl") THEN trades[It].slId ELSE trades[It].tpId
       IN  IF Gone(id) /\ InFills(id)
           THEN RecordFill(It, id, snap.done[id])
           ELSE Step(trades, Rest)
    /\ UNCHANGED <<venueVars, snap, incidents, entries, budget>>

\* The venue's net exposure covers the journaled trades oldest first; what it does
\* not cover was closed by hand.
CoverByNet ==
    /\ Adopting("cover")
    /\ LET r == trades[It]
           take == Least(r.size, snap.net)
       IN  /\ snap' = [snap EXCEPT !.net = @ - take]
           /\ IF take = 0
              THEN Step(Without(It), <<Leftover(Protective(r))>> \o Rest)
              ELSE Step(With(It, [r EXCEPT !.size = take]), Rest)
    /\ UNCHANGED <<venueVars, incidents, entries, budget>>

\* "stale id - nothing to cancel venue-side"
RepairStop ==
    /\ Adopting("repair")
    /\ LET r == trades[It]
       IN  IF Gone(r.slId)
           THEN Step(With(It, [r EXCEPT !.slId = None]), <<Task("resync", It, <<>>)>> \o Rest)
           ELSE Step(trades, Rest)
    /\ UNCHANGED <<venueVars, snap, incidents, entries, budget>>

ResyncStop ==
    /\ Doing("resync")
    /\ LET r == trades[It]
       IN  MoveStop(It, r.sl, [r EXCEPT !.pending = FALSE], [r EXCEPT !.pending = TRUE], Rest, Rest)
    /\ UNCHANGED <<snap, incidents, entries>>

RearmTakeProfit ==
    /\ Adopting("rearm")
    /\ LET r == trades[It]
       IN  IF Gone(r.tpId)
           THEN Call(net > 0, PlaceOrder(Order(It, "tp", 0, r.size)),
                     Step(With(It, [r EXCEPT !.tpId = NextOrderId]), Rest),
                     Step(With(It, [r EXCEPT !.tpId = None]), Rest))
           ELSE Local(trades, Rest)
    /\ UNCHANGED <<snap, incidents, entries>>

\* Vanished unfilled levels at or above the cursor are placed again.
ReplaceLadder ==
    /\ Adopting("replace")
    /\ LET r == trades[It]
           missing == {i \in r.ladder : Gone(i) /\ ~InFills(i)}
           again == {orders[i].rung : i \in missing} \ 1..r.hits
       IN  Local(With(It, [r EXCEPT !.ladder = @ \ missing]),
                 PlaceTasks(It, again) \o Rest)
    /\ UNCHANGED <<snap, incidents, entries>>

-----------------------------------------------------------------------------
(* The world *)

VenueFill ==
    /\ \E i \in Live :
           \/ FillOrder(i, mode = "up") /\ UNCHANGED budget
           \/ mode = "up" /\ Spend("drop") /\ FillOrder(i, FALSE)
    /\ UNCHANGED <<setup, mode, trades, journal, todo, snap, incidents, entries>>

\* The user reduces the position by hand.
ManualReduce ==
    /\ net > 0
    /\ Spend("manual")
    /\ MarketReduce(1)
    /\ UNCHANGED <<setup, mode, trades, journal, todo, snap, incidents, entries>>

\* The user cancels an order while the trader is down.
UserCancel ==
    /\ mode = "down"
    /\ Spend("cancel")
    /\ \E i \in Live : CancelOrder(i)
    /\ UNCHANGED <<setup, mode, trades, journal, todo, snap, incidents, entries>>

\* The process ends: a stop between two items, or a crash anywhere.
Crash ==
    /\ mode /= "down"
    /\ setup.anywhere \/ todo = <<>>
    /\ Spend("crash")
    /\ mode' = "down"
    /\ trades' = << >> /\ todo' = <<>> /\ feed' = <<>> /\ snap' = NoSnap
    /\ UNCHANGED <<net, orders, setup, journal, incidents, entries>>

-----------------------------------------------------------------------------
Init ==
    /\ VenueInit
    /\ mode = "up"
    /\ trades = << >> /\ journal = << >> /\ todo = <<>> /\ snap = NoSnap
    /\ incidents = {} /\ entries = 0
    /\ setup \in Setups /\ budget = setup.faults

Work ==
    \/ Enter \/ AttachStop \/ EmergencyClose \/ AttachTakeProfit \/ PlaceLevel
    \/ CancelOne \/ RetryPending \/ SyncStop
    \/ BreakEvens \/ BreakEven \/ RaiseStops \/ RaiseStop
    \/ CheckLevels \/ LevelDone \/ LevelTouched \/ SettledStop
    \/ ForceClose \/ CloseTrade \/ CancelLeftover \/ ProcessFill \/ Reconcile
    \/ Flush
    \/ ReadNet \/ ReadOrders \/ ReadFills \/ Adopt \/ SkipClosed
    \/ SettleOfflineLadder \/ SettleOfflineFill \/ CoverByNet \/ RepairStop
    \/ ResyncStop \/ RearmTakeProfit \/ ReplaceLadder

World == VenueFill \/ ManualReduce \/ UserCancel \/ Crash \/ Restart

Next == Work \/ Candle \/ Forming \/ UserData \/ PollItem \/ World

\* The consumer thread runs; candles and fill events are never dropped from its
\* queue, so each is taken in its turn however many other items compete.
Fairness == WF_vars(Work) /\ SF_vars(Candle) /\ SF_vars(UserData)

Spec == Init /\ [][Next]_vars
FairSpec == Spec /\ Fairness

-----------------------------------------------------------------------------
(* Properties *)

Idle == mode = "up" /\ todo = <<>>
Settled == Idle /\ feed = <<>>

RunningCovers ==
    mode = "up" =>
        net <= StopQty
             + Size * Cardinality({k \in DOMAIN todo : todo[k].op \in {"attach_sl", "emergency"}})
             + MapThenSumSet(LAMBDA t : trades[t].size,
                             {t \in Tracked : trades[t].pending /\ trades[t].slId = None})

StoppedCovers == mode = "down" /\ budget["cancel"] = setup.faults["cancel"] => net <= StopQty

\* "An unprotected position must not stand", and "a stopped (or crashed) trader never
\* leaves a position unprotected": in every state the venue's position is covered by the
\* stops working there, but for an entry whose stop is being attached, a stop that could
\* not be re-armed, a stop the user cancelled, or after one of the incidents.
StopCovers == incidents = {} => RunningCovers /\ StoppedCovers

\* The same without the excuse for a poll that overtakes a fill.
CoversWhenOvertaken == incidents \subseteq {"overtaken"} => RunningCovers /\ StoppedCovers

\* With no fill on its way and no incident, the venue holds no more than the engine tracks.
PositionTracked == Settled /\ incidents = {} => net <= TrackedSize

\* The stop working at the venue stands where the engine believes it stands.
StopWhereBelieved ==
    Idle => \A t \in Tracked :
        LET i == trades[t].slId
        IN  ~trades[t].pending => i /= None /\ (i \in Live => orders[i].rung = trades[t].sl)

\* With no fill on its way and no call refused so far, every working order belongs to a
\* tracked trade: none is left behind to reduce somebody else's position (ladders and
\* take-profits are left out: the cancelling ends at the first order already gone).
NoOrphanOrders ==
    Settled /\ ~Ladder /\ ~setup.tp /\ budget["refuse"] = setup.faults["refuse"] =>
        \A i \in Live : \E t \in Tracked : i \in ToSet(Protective(trades[t]))

\* Between two items the venue has nothing of the pair that the engine has lost sight of.
NothingUntracked == PositionTracked /\ NoOrphanOrders

\* "The venue modify is retried every closed candle" until it lands.
PendingLands ==
    \A t \in 1..Max({s.entries : s \in Setups}) :
        (mode = "up" /\ t \in Tracked /\ trades[t].pending)
            ~> (t \notin Tracked \/ ~trades[t].pending \/ mode = "down")

\* Missed fill events and manual closes are found by the poll: again and again what
\* is tracked is what the venue holds, but for the incidents.
LedgerCatchesUp == []<>(mode = "down" \/ incidents /= {} \/ TrackedSize = net)

\* What was refused, missed or done by hand is made good: by the next candle, or by the poll.
CatchesUp == PendingLands /\ LedgerCatchesUp
=============================================================================
