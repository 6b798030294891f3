----------------------------- MODULE LivePages -----------------------------
(***************************************************************************)
(* The live display of a pair: the _DisplayBridge of a trading session     *)
(* (trader/_display.py), showing the real trades, a simulation of the      *)
(* strategy or both; and a paper session (run_live), where the feed drives *)
(* the simulation.                                                         *)
(*                                                                         *)
(* The trading threads only put items into the display queue.  The display *)
(* thread takes one when the pair has no trading work, and makes the calls *)
(* on the chart and the report pages that it stands for; close() ends the  *)
(* thread and handles what is left.  An item that fails, a failed balance  *)
(* read and a display thread that outlives close()'s five seconds are left *)
(* out.  Candle numbers are times; the seed ends with candle 1.            *)
(***************************************************************************)
EXTENDS LiveSim, FiniteSetsExt

VARIABLES
    now,     \* the newest closed candle
    book,    \* the real trades: status, stop, slices closed, time of the last one
    ledger,  \* history: every real slice, in order
    moves,   \* bound: what the trades may still do
    queue,   \* the display queue
    parked,  \* _pending
    thread,  \* where the thread that draws stands
    held,    \* the item it has taken
    todo,    \* the calls left of that item
    busy,    \* the pair has trading work
    phase,   \* of close()
    view,    \* the real-trades view
    page,    \* the last report pushed to the pair's page
    combined \* and to the page of all pairs

tradeVars == <<now, book, ledger, moves>>
queueVars == <<queue, parked, held>>
reportVars == <<page, combined>>
allVars == <<setup, chartVars, simVars, tradeVars, queueVars, thread, todo, busy, phase, view, reportVars>>

Trades == DOMAIN book
Real == "real"
ShowsReal == setup.kind \in {"real", "both"}
ShowsSim == setup.kind /= "real"
Paper == setup.kind = "paper"
OpenTrades == {t \in Trades : book[t].is \in {"open", "moving", "closing"}}
Between == \A t \in Trades : book[t].is \notin {"moving", "closing"}
NoSlice == [id |-> 0, end |-> 0]
Item(kind, t, slice) == [kind |-> kind, t |-> t, slice |-> slice]

-----------------------------------------------------------------------------
(* The trading threads: enqueue only.  In "sim" mode, which is not told of  *)
(* trades, there are none.                                                 *)

Enqueue(item) == queue' = Append(queue, item)

Trading ==
    /\ ~Paper
    /\ phase = "running"
    /\ UNCHANGED <<setup, chartVars, simVars, parked, held, thread, todo, phase, view, reportVars>>

\* _process_scheduler_tick, at its end
Candle ==
    /\ Trading
    /\ now < setup.candles /\ Between
    /\ now' = now + 1
    /\ Enqueue(Item("candle", now + 1, NoSlice))
    /\ UNCHANGED <<book, ledger, moves, busy>>

\* A forming row, from a feed that may be behind the scheduler, or (ahead) in front of it
Forming(t) ==
    /\ Trading
    /\ moves > 0
    /\ setup.ahead \/ t <= now + 1
    /\ moves' = moves - 1
    /\ Enqueue(Item("forming", t, NoSlice))
    /\ UNCHANGED <<now, book, ledger, busy>>

\* The trade is tracked, then told.
RealOpen(t) ==
    /\ Trading
    /\ book[t].is = "none" /\ Between
    /\ \A u \in 1..t - 1 : book[u].is /= "none"
    /\ book' = [book EXCEPT ![t].is = "open"]
    /\ Enqueue(Item("open", t, NoSlice))
    /\ UNCHANGED <<now, ledger, moves, busy>>

\* update_stops, and the advance of a ladder: the stop is raised before the venue is asked, and
\* what else looks at the trade sees it.
RealRaise(t) ==
    /\ Trading
    /\ book[t].is = "open" /\ Between
    /\ moves > 0
    /\ moves' = moves - 1
    /\ book' = [book EXCEPT ![t] = [@ EXCEPT !.is = "moving", !.stop = @ + 1, !.refused = FALSE]]
    /\ UNCHANGED <<now, ledger, busy, queue>>

RealMove(t) ==
    /\ Trading
    /\ book[t].is = "moving"
    /\ book' = [book EXCEPT ![t].is = "open"]
    /\ Enqueue(Item("sl_move", t, NoSlice))
    /\ UNCHANGED <<now, ledger, moves, busy>>

\* A refused move is taken back, and nobody is told.
RealRefused(t) ==
    /\ Trading
    /\ book[t].is = "moving"
    /\ book' = [book EXCEPT ![t] = [@ EXCEPT !.is = "open", !.stop = @ - 1, !.refused = TRUE]]
    /\ UNCHANGED <<now, ledger, moves, busy, queue>>

Slice(t) == [id |-> t, end |-> now + 1]

\* A ladder level: the slice is told with the stop already moved.
RealLevel(t) ==
    /\ Trading
    /\ book[t].is = "moving"
    /\ book' = [book EXCEPT ![t] = [@ EXCEPT !.is = "open", !.slices = @ + 1, !.end = now + 1]]
    /\ ledger' = Append(ledger, Slice(t))
    /\ Enqueue(Item("tp_level", t, Slice(t)))
    /\ UNCHANGED <<now, moves, busy>>

\* _close_and_emit, also of a ladder whose last level has raised the stop; the caller takes the
\* trade off the list afterwards.
RealClose(t) ==
    /\ Trading
    /\ book[t].is \in {"open", "moving"} /\ \A u \in Trades \ {t} : book[u].is /= "moving"
    /\ book' = [book EXCEPT ![t] = [@ EXCEPT !.is = "closing", !.slices = @ + 1, !.end = now + 1]]
    /\ ledger' = Append(ledger, Slice(t))
    /\ Enqueue(Item("close", t, Slice(t)))
    /\ UNCHANGED <<now, moves, busy>>

RealClosed(t) ==
    /\ Trading
    /\ book[t].is = "closing"
    /\ book' = [book EXCEPT ![t].is = "closed"]
    /\ UNCHANGED <<now, ledger, moves, busy, queue>>

\* Work of the trading threads arrives and is done.
Work ==
    /\ Trading
    /\ setup.busy
    /\ busy' = ~busy
    /\ UNCHANGED <<tradeVars, queue>>

TradingStep ==
    \/ Candle \/ Work
    \/ \E t \in now..now + 2 : Forming(t)
    \/ \E t \in Trades : RealOpen(t) \/ RealRaise(t) \/ RealMove(t) \/ RealRefused(t)
                         \/ RealLevel(t) \/ RealClose(t) \/ RealClosed(t)

-----------------------------------------------------------------------------
(* The calls of one item *)

PageCall == Call("page", <<"", "", 0>>, Nothing)
CombinedCall == Call("combined", <<"", "", 0>>, Nothing)
Unless(c, calls) == IF c THEN <<>> ELSE calls

\* _find_live_trade
Update(t) ==
    Unless(t \notin OpenTrades \/ t \notin view.drawn, Calls("update", LiveId(Real, t), Live(book[t].stop)))

\* _process_candle: the simulation first.  The equity row is the one of this candle.
CandleCalls(ts, simCalls, backlog) ==
    simCalls
        \o Unless(setup.kind /= "real", <<Call("bar", BarId(Bar(ts, TRUE)), Nothing)>>)
        \o Unless(~ShowsReal \/ backlog, <<PageCall>>)
        \o Unless(backlog, <<CombinedCall>>)

CandleView(ts) ==
    IF ~ShowsReal THEN view
    ELSE [view EXCEPT !.last = IF ts > @ THEN ts ELSE @, !.rows = Rows(@, ts), !.closed = InWindow(@, ts)]

\* process_closed_candle: any outcome of the candle for each open position.  A candle opens at most
\* one (bound: setup.opens in all).
StepSim(ts, backlog) ==
    \E out \in OutcomesOf(sim.open), opens \in {n \in 0..1 : sim.next + n <= setup.opens + 1} :
        /\ sim' = Stepped(ts, out, opens)
        /\ bridge' = IF Paper THEN Bridged(ts, out, opens) ELSE bridge
        /\ todo' = CandleCalls(ts, SimCalls(ts, out, opens) \o Unless(setup.kind = "both" \/ backlog, <<PageCall>>), backlog)

\* A candle that the simulation already has is skipped.
DrawCandle(ts, backlog) ==
    /\ view' = CandleView(ts)
    /\ IF ShowsSim /\ ts > sim.last THEN StepSim(ts, backlog)
       ELSE todo' = CandleCalls(ts, <<>>, backlog) /\ UNCHANGED simVars

\* variant: rows of the candle that has just closed are drawn
DrawFormingAlways(t) ==
    /\ todo' = <<Call("bar", BarId(Bar(t, FALSE)), Nothing)>>
    /\ UNCHANGED <<simVars, view>>

\* Ignored once the bar is final.
DrawForming(t) ==
    /\ todo' = Unless(t <= (IF ShowsSim THEN sim.last ELSE view.last), <<Call("bar", BarId(Bar(t, FALSE)), Nothing)>>)
    /\ UNCHANGED <<simVars, view>>

Noted(item) == IF item.slice = NoSlice THEN view
    ELSE [view EXCEPT !.closed = Append(@, item.slice), !.slices = Append(@, item.slice)]

\* _process_trade_event
DrawTrade(item, backlog) ==
    LET t == item.t
        reports == Unless(backlog, <<PageCall, CombinedCall>>)
    IN  /\ CASE item.kind = "open" ->
                  IF t \in OpenTrades
                  THEN /\ todo' = Calls("add", LiveId(Real, t), Live(book[t].stop))
                       /\ view' = [view EXCEPT !.drawn = @ \cup {t}]
                  ELSE todo' = <<>> /\ UNCHANGED view
             [] item.kind = "sl_move" -> todo' = Update(t) /\ UNCHANGED view
             [] item.kind = "tp_level" -> todo' = Update(t) \o reports /\ view' = Noted(item)
             [] item.kind = "close" ->
                  /\ todo' = Unless(t \notin view.drawn, Calls("remove", LiveId(Real, t), Nothing))
                                \o Calls("add", BoxId(Real, t), Box(SlicesOf(Noted(item).slices, t), item.slice.end))
                                \o reports
                  /\ view' = [Noted(item) EXCEPT !.drawn = @ \ {t}, !.slices = SelectSeq(@, LAMBDA x : x.id /= t)]
        /\ UNCHANGED simVars

Process(item, backlog) ==
    CASE item.kind = "candle" -> DrawCandle(item.t, backlog)
      [] item.kind = "forming" -> DrawForming(item.t)
      [] OTHER -> DrawTrade(item, backlog)

-----------------------------------------------------------------------------
(* The display thread *)

\* A thread is between two items when it has made all the calls of the last one.
Idle == todo = <<>>

\* Consecutive forming rows collapse to the latest; the first other item is parked.
Collapsed(items) ==
    LET others == {i \in DOMAIN items : items[i].kind /= "forming"}
    IN  IF others = {} THEN Len(items) ELSE Min(others) - 1

\* _next_item
Take ==
    /\ thread = "take" /\ Idle
    /\ parked \o queue /= <<>>
    /\ LET first == Head(parked \o queue)
           rest == IF parked = <<>> THEN Tail(queue) ELSE queue
           n == IF first.kind = "forming" THEN Collapsed(rest) ELSE 0
       IN  /\ held' = IF n = 0 THEN first ELSE rest[n]
           /\ IF first.kind = "forming" /\ n < Len(rest)
              THEN /\ parked' = Append(IF parked = <<>> THEN <<>> ELSE Tail(parked), rest[n + 1])
                   /\ queue' = SubSeq(rest, n + 2, Len(rest))
              ELSE /\ parked' = IF parked = <<>> THEN <<>> ELSE Tail(parked)
                   /\ queue' = SubSeq(rest, n + 1, Len(rest))
    /\ thread' = "hold"
    /\ UNCHANGED <<setup, chartVars, simVars, tradeVars, todo, busy, phase, view, reportVars>>

\* _wait_trading_idle, then the item
Draw ==
    /\ thread = "hold"
    /\ phase = "running"
    /\ ~busy
    /\ Process(held, parked /= <<>> \/ queue /= <<>>)
    /\ thread' = "take"
    /\ UNCHANGED <<setup, chartVars, tradeVars, queueVars, busy, phase, reportVars>>

\* Told to stop: an item it holds goes back.
EndThread ==
    /\ phase = "stopping"
    /\ thread \in {"take", "hold"} /\ Idle
    /\ parked' = IF thread = "hold" THEN <<held>> \o parked ELSE parked
    /\ thread' = "ended"
    /\ UNCHANGED <<setup, chartVars, simVars, tradeVars, queue, held, todo, busy, phase, view, reportVars>>

RealReport == [closed |-> view.closed, open |-> OpenTrades, rows |-> view.rows]
NoReport == [closed |-> <<>>, open |-> {}, rows |-> <<>>]
PageReport == [sim |-> IF ShowsSim THEN SimReport(sim) ELSE NoReport, real |-> IF ShowsReal THEN RealReport ELSE NoReport]

\* The next call of the item being drawn, on the chart or a report page
DoCall ==
    /\ ~Idle
    /\ LET c == Head(todo)
       IN  CASE c.op = "page" -> page' = PageReport /\ UNCHANGED <<chartVars, combined>>
             [] c.op = "combined" ->
                  /\ combined' = IF ShowsReal THEN RealReport ELSE SimReport(sim)
                  /\ UNCHANGED <<chartVars, page>>
             [] OTHER ->
                  /\ CASE c.op = "bar" -> Stream(BarOf(c.id))
                       [] c.op = "add" -> AddDrawing(c.id, c.d)
                       [] c.op = "update" -> UpdateDrawing(c.id, c.d)
                       [] c.op = "remove" -> RemoveDrawing(c.id)
                       [] c.op = "refresh" -> RefreshInitCache
                  /\ UNCHANGED reportVars
    /\ todo' = Tail(todo)
    /\ UNCHANGED <<setup, simVars, tradeVars, queueVars, thread, busy, phase, view>>

-----------------------------------------------------------------------------
(* close(), on the thread that ends the session, once the trading has ended *)

Close ==
    /\ ~Paper
    /\ phase = "running"
    /\ Between
    /\ phase' = "stopping"
    /\ UNCHANGED <<setup, chartVars, simVars, tradeVars, queueVars, thread, todo, busy, view, reportVars>>

\* What the thread has left is handled inline, without pushes.
Drain ==
    /\ phase = "stopping"
    /\ thread = "ended" /\ Idle
    /\ parked \o queue /= <<>>
    /\ Process(Head(parked \o queue), TRUE)
    /\ parked' = <<>>
    /\ queue' = Tail(parked \o queue)
    /\ UNCHANGED <<setup, chartVars, tradeVars, held, thread, busy, phase, reportVars>>

Final ==
    /\ phase = "stopping"
    /\ thread = "ended" /\ Idle
    /\ parked \o queue = <<>>
    /\ todo' = Unless(~ShowsReal, <<PageCall>>) \o <<CombinedCall>>
    /\ phase' = "closed"
    /\ UNCHANGED <<setup, chartVars, simVars, tradeVars, queueVars, thread, busy, view, reportVars>>

-----------------------------------------------------------------------------
(* A paper session: the feed's thread steps the simulation and draws it *)

Feed ==
    /\ Paper /\ Idle
    /\ UNCHANGED <<setup, chartVars, book, ledger, queueVars, thread, busy, phase, reportVars>>

\* A closed candle, new or delivered again
FeedClosed(t) ==
    /\ Feed
    /\ t \in {now, now + 1} /\ t <= setup.candles
    /\ t = now => moves > 0
    /\ now' = t
    /\ moves' = IF t = now THEN moves - 1 ELSE moves
    /\ IF t > sim.last THEN DrawCandle(t, FALSE) ELSE UNCHANGED <<todo, simVars, view>>

FeedForming(t) ==
    /\ Feed
    /\ t \in {now, now + 1}
    /\ moves > 0
    /\ moves' = moves - 1
    /\ DrawForming(t)
    /\ UNCHANGED now

FeedStep == \E t \in {now, now + 1} : FeedClosed(t) \/ FeedForming(t)

-----------------------------------------------------------------------------
NoItem == Item("forming", 0, NoSlice)
Fresh(is) == [is |-> is, stop |-> 0, slices |-> 0, end |-> 0, refused |-> FALSE]

Init ==
    /\ setup \in Setups
    /\ now = 1
    /\ book = [t \in 1..setup.trades |-> Fresh(IF ShowsReal /\ t <= setup.carried THEN "open" ELSE "none")]
    /\ ledger = <<>>
    /\ moves = setup.moves
    /\ queue = <<>> /\ parked = <<>> /\ held = NoItem
    /\ thread = "take" /\ todo = <<>> /\ busy = FALSE /\ phase = "running"
    /\ sim = Seeded(IF ShowsSim THEN setup.carried ELSE 0)
    /\ bridge = Primed(sim.open)
    /\ view = [closed |-> <<>>, slices |-> <<>>, drawn |-> OpenTrades, rows |-> <<1>>, last |-> 1]
    /\ ChartInit(<<Bar(1, TRUE)>>,
           [id \in {LiveId(Real, t) : t \in OpenTrades} \cup {LiveId(Own, t) : t \in Ids(sim.open)} |-> Live(0)])
    /\ page = PageReport
    /\ combined = IF ShowsReal THEN RealReport ELSE SimReport(sim)

DisplayStep == Take \/ Draw \/ EndThread \/ DoCall
CloseStep == Close \/ Drain \/ Final
PageStep == ServerStep /\ UNCHANGED <<setup, simVars, tradeVars, queueVars, thread, todo, busy, phase, view, reportVars>>

Next == TradingStep \/ DisplayStep \/ CloseStep \/ FeedStep \/ PageStep
Spec == Init /\ [][Next]_allVars

-----------------------------------------------------------------------------
(* Properties *)

\* Nothing is on its way: every item drawn, every message broadcast.
AtRest ==
    /\ queue = <<>> /\ parked = <<>> /\ todo = <<>> /\ loop = <<>> /\ thread /= "hold"
    /\ Between

Candles == [t \in 1..now |-> t]
Finals == [t \in 1..now |-> Bar(t, TRUE)]

\* The newest closed candles that the window has room for, and at most the one forming.
CandlesShown(bs) == bs \in {Trim(Finals), Trim(Append(Finals, Bar(now + 1, FALSE)))}

LastEnd(s, t) == Last(SelectSeq(s, LAMBDA x : x.id = t)).end
BoxesOf(owner, s, ts) == {<<BoxId(owner, t), Box(SlicesOf(s, t), LastEnd(s, t))>> : t \in ts}

\* A stop drawn while the venue was asked for it stays drawn when the venue refuses.
RealStop(tab, t) ==
    LET id == LiveId(Real, t)
        asked == book[t].stop + 1
    IN  IF book[t].refused /\ id \in DOMAIN tab.drawings /\ tab.drawings[id] = Live(asked) THEN asked ELSE book[t].stop

RealPictures(tab) == {<<LiveId(Real, t), Live(RealStop(tab, t))>> : t \in OpenTrades}
    \cup BoxesOf(Real, ledger, {t \in Trades : book[t].is = "closed"})

\* Where a stop still stands at the break-even it jumped to, the drawing has the one before:
\* the jump is not in sl_history.
Drawn(p) == IF p.free /\ p.stop = Entry THEN p.noted ELSE p.stop

SimPictures == {<<LiveId(Own, p.id), Live(Drawn(p))>> : p \in ToSet(sim.open)}
    \cup BoxesOf(Own, sim.made, {x.id : x \in ToSet(sim.made)} \ Ids(sim.open))

Pictures(tab) == (IF ShowsReal THEN RealPictures(tab) ELSE {}) \cup (IF ShowsSim THEN SimPictures ELSE {})

\* A live drawing for each open trade and a box for each closed one still in the window;
\* a late tab may have a box that has left it.  Not of the one drawing whose change fell
\* between the tab's init and its joining.
TradesShown(tab) ==
    LET shown == {<<id, tab.drawings[id]>> : id \in DOMAIN tab.drawings \ tab.missed}
        pictures == {x \in Pictures(tab) : x[1] \notin tab.missed}
        inWindow == {x \in pictures : ~Expired(x[2], tab.bars[1][1])}
    IN  inWindow \subseteq shown /\ shown \subseteq (IF tab.late THEN pictures ELSE inWindow)

BookReport(s, open) ==
    [closed |-> InWindow(s, now), open |-> open, rows |-> SelectSeq(Candles, LAMBDA t : t >= WindowStart(now))]
SimBook == BookReport(sim.made, Ids(sim.open))
RealBook == BookReport(ledger, OpenTrades)

\* Once the session is over (a paper page: after each candle), the pages report what was traded.
ReportsShown ==
    /\ combined = IF ShowsReal THEN RealBook ELSE SimBook
    /\ page.sim = SimBook \/ setup.kind \in {"real", "sim"}
    /\ page.real = RealBook \/ ~ShowsReal

\* At rest every open tab, however it joined, shows the candles, and the trades with the stops
\* and slices, that were traded (a simulated stop that jumped to break-even: as it was before,
\* until it moves again; a real one that the venue refused to move may stand where it was to
\* go), and in the end the reports agree with them:
\* _DisplayBridge, LiveSimulation, Chart, server and page together.
AsTraded ==
    AtRest =>
        /\ \A p \in Tabs : tabs[p].open => CandlesShown(tabs[p].bars) /\ TradesShown(tabs[p])
        /\ Paper \/ phase = "closed" => ReportsShown

\* The typed events of a paper session, replayed, give each position as the simulation has it:
\* its stop, its slices, whether it is closed, and the cause of each move: _EventBridge.
Followed ==
    Paper => \A t \in DOMAIN bridge.told :
        LET told == bridge.told[t]
        IN  /\ ~told.misnamed
            /\ told.slices = SlicesOf(sim.made, t)
            /\ told.closes > 0 <=> t \notin Ids(sim.open)
            /\ t \in Ids(sim.open) => told.stop = Find(sim.open, t).stop

\* Chart.update_live_position: "trailing SL move, risk-free jump to break-even, or a new next-TP
\* target" are streamed, so every drawn stop is the position's.
StopsDrawn ==
    AtRest =>
        /\ \A p \in ToSet(sim.open) :
               LiveId(Own, p.id) \in DOMAIN drawings => drawings[LiveId(Own, p.id)].v = p.stop
        /\ \A t \in OpenTrades :
               LiveId(Real, t) \in DOMAIN drawings => drawings[LiveId(Real, t)].v = book[t].stop

\* What a new tab is given is what an open page shows: the comment in Chart.stream.
InitReplay == AtRest => \A p \in Tabs : tabs[p].open => tabs[p].bars = bars
=============================================================================
