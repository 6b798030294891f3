# TLA+ models of AlgoTradeKit

This directory is a verification project for AlgoTradeKit, a Python toolkit that
collects candles, simulates strategies, trades them live on Binance (spot and USD-M
futures) and MetaTrader 5, tells people about it and draws the result.

Most of the code that can lose money is driven by timing, ordering and partial failure:
bars that print late, fills that arrive while an order is being replaced, processes that
stop between two venue calls. The rest loses trust instead of money: a streamed indicator
that is not the backtest's, a message that says what did not happen, a replay that shows
the future. The modules model both.

Contents: [components](#1-the-system-and-its-components), [how it was built](#2-plan),
[modules](#3-the-modules), [runs](#4-the-runs), [bounds](#5-bounds),
[fairness](#6-fairness), [proofs](#7-proofs),
[where code and text disagree](#8-where-the-code-and-its-text-disagree),
[not modelled](#9-not-modelled). Paths without a directory prefix are below
`src/AlgoTradeKit/`.

To check a run: `tlc -workers 2 -config FuturesPair.cfg MCFuturesPair.tla`. To check
the proofs of a module: `tlapm NotifierProofs.tla`.

## 1. The system and its components

### 1.1 How the parts interact

```
 files, venues --> Collector --> CSV --> normalizer, Converter --> Simulate / run_multi --> report
                                                                     ^ indicators, strategies
 venue candles ---> CandleCloseScheduler --tick--+
 venue stream  ---> forming rows / ticks --------+--> queue --> _PairWorker --> ExecutionEngine --> broker --> venue
 venue stream  ---> user-data fills -------------+               |    |              ^        (REST, bridge)
 poll timer    ---> reconcile -------------------+               |    +-- journal <--+-- restart
                                                                 +--> EventStream --> notifiers --> chats, mail
                                                                              |
                                                                              +--> display --> chart server --> tabs
 Trader: one worker (and in the multi-pair form one consumer thread) per pair,
         stop / signals / kill-switch file / a chat command -> shutdown, keep or close_all
 run() / run_multi() / LiveSimulation: candle --> SimulationStepper --> trades, wallet, equity
```

A live pair has several producer threads (the scheduler, a candle or tick stream, the
user-data stream, the reconcile timer) and one consumer. Only the consumer touches the
`ExecutionEngine`, which therefore has no lock. Everything else talks to it through the
queue, except the `Trader` at shutdown and the commands and display that read it.

### 1.2 Components

State, operations and what makes each one correct. `PROJECT.json` says for each component
what its modules leave out.

| Component | State | Operations | Hard behaviour | Correct when | Modules |
|---|---|---|---|---|---|
| Candle scheduler `trader/_scheduler.py` | mark, deferral, stop event | `wait_next_close`, tail and gap fetch | late and missing bars, failing fetches, late callers | every closed bar once, in order, never early; a late bar is recovered; no spinning | `CandleScheduler` over `CandleStream` |
| Execution engine, futures `trader/_execution.py` | trades with stop, take-profit and ladder order ids; pending flags | open, move stop, ladder levels, fills, force close, poll | each operation is several venue calls, any may fail or lose its reply; fills come in between | the position is covered by working stops; the books match the venue; no orphan order | `FuturesPair` |
| Startup reconciliation `trader/_state.py` | the journal's record, one snapshot of venue reads | settle offline fills, cover by net, repair, rearm, replace | stale snapshot, anything may have happened meanwhile | adopted trades match the venue and are protected | `FuturesPair`, `SpotPair`, `MetaPair` |
| Spot venue | OCO list or stop per trade | open, move stop, close, poll | the protection locks the asset: cancel first, restore, emergency sell | never unprotected without saying so | `SpotPair` |
| MetaTrader venue and bridge `broker/metatrader/` | SL/TP on the position; a socket | open, modify, partial close, call, retry | a lost reply makes the bridge send twice, or execute late | volumes meet again; a stop stands where believed unless its move failed without an answer | `MetaPair` |
| Broker streams `broker/_stream.py`, `_ws.py` | socket or poll thread, listen key | connect, reconnect, poll, emit, stop | breaks, callbacks that raise, a key that dies | every closed candle it can hear of once, in order; the thread lives | `Feeds` |
| Binance client `broker/exchange/` | HTTP session, clock | one signed request per leg | a timestamp made once for four attempts, reads before orders | sent again only when unheard; never sent late; a close never flips | `SignedCalls` |
| Pair worker `trader/_trader.py` | queue, last committed candle, dedup sets, daily-loss guard | tick, forming row, fill, report, stop, start | coalescing, catch-up, late rows, restarts, midnight | each candle committed once, each signal acted on once, on the newest candle only; the day's block holds | `PairWorker` |
| Strategies `strategy/` | the live frame | seed, advance, forming rows | columns extended row by row, failures, throwaway copies | the strategy sees what a full run would give | `PairWorker` |
| Trader orchestration `trader/_trader.py`, journal `_state.py` | stop reason, threads, file | run, stop, kill switch, signals, load, write | several writers, joins, a crash while writing | what a session leaves is accounted for; a stop ends it | `TraderSession` |
| Chat commands `notify/_commands.py` | offset, generation, pending /stop | poll, answer, stop | two listeners on one bot, lost polls | an old or foreign command does nothing; /stop needs its own confirmation | `Commands` on `TraderSession` |
| Notifier core `notify/_core.py` | queue, per-destination order, pace, outage, generations | send, edit, wait, close | retries, outages, give-up, full queue, close during a request | order per destination; what callers are told is true; nothing waits for ever | `Notifier` |
| Message backends `notify/_telegram.py` ... | the check's result, roots, digests | check, send, edit, delete | lost answers, rights, foreign pages | sent is what arrived | `Backends` |
| Trade-event messages `trader/_notify.py` | roots per chat, day counts | event to message | midnight, replaced messages, forgotten roots | a chat ends with what happened, on the right trade | `Messages` |
| Price alerts `notify/_alerts.py` | armed alerts, shared streams | watch, candle, cancel | subscribe races, firing inside watch | one message per crossing; an alert is on a live stream | `Alerts` on `Messages` |
| Display bridge `trader/_display.py` | queue and thread | enqueue, process, close | must never delay trading, rows collapse | at rest it shows what was traded | `LivePages` on `LiveSim`, `LiveChart` |
| Paper trading `trader/_run_live.py`, `simulate/_live.py` | window, stepper, marks | closed and forming candle | repeated and reordered candles, one event per cause | its events tell its positions | `LiveSim`, `LivePages` |
| Charts and pages `visual/` | bars, lines, cached init, tabs, replay | stream, timeframe, replay, page | messages cross, windows trim, frames disagree | a longer timeframe shows the source's rows; a replay never shows the future | `TimeframeChart`, `ReplayTab`, `ReplayPage` over `Frames` |
| Simulation `simulate/_engine.py`, `_runner.py`, `_position_math.py` | open positions, wallet | one candle of one pair, end of data | order of stop, break-even, trailing, ladder and entry; shared wallet | money and sizes conserved; fills inside the candle; a stop keeps what was secured | `Stepper` over `PositionMath` |
| Sizes and lots `simulate/_lot.py` | - | size, margin, commission, lots | leverage, commissions, two tables of symbols | a stop never costs more than was locked | `Sizing` |
| Simulation reports `simulate/_report.py` | - | drawdowns, streaks, sessions | ties, unfinished drawdowns | what the definitions say | `Report` |
| Indicators `indicator/` | column, streaming state | compute, update | missing values, lazily built state | streamed is computed | `Indicators` |
| Data conversion `data/converter.py`, `normalizer.py` | - | normalise, detect, resample | holes, duplicates, months, bounds | candles are whole, on every route | `Conversion` over `Frames` |
| Data collection `data/collector.py` | CSV file | gaps, fetch, merge, save | short batches, a crash while writing | every candle the venue has comes in | `Collector` |
| Configuration, events, report page, examples | - | validation, rendering | - | - | options are constants and setups |

### 1.3 What is hard to test

`PROJECT.json` lists the hazards with the line where each bites and the properties that
would notice. The groups, in the order they matter here:

* a protective order and the position it protects change in separate venue calls, and
  fills, hand-made changes, refusals, lost replies and crashes come between them;
* two sources report the same fact (the user-data stream and the position poll, the
  forming rows and the closed candle), in either order, or only one of them does;
* a request is sent again although the first one may have been executed: an order, an
  edit, a poll of the bot;
* a boundary of the candle grid or of the day passes while the previous one is handled;
* something survives a restart (the journal, the CSV file, an update at Telegram) and
  something does not (the day's losses, a pending /stop);
* the same values are computed twice, at once and step by step (indicators, the live
  frame, a chart's timeframes), and must agree through missing values and trimming;
* views of one thing (tabs, frames of a page, report pages, chats) learn of it in messages
  that cross each other.

## 2. Plan

The order in which the project grew; all of it is in place.

1. `CandleStream`, `CandleScheduler`: the clock everything hangs on. Abstract
   specification, refinement, proofs.
2. `FuturesPair`: engine, worker handlers, journal and restart of one futures pair, with
   the account they act on.
3. `PositionMath`, `Stepper`: the simulation's rules as operators, and their sequence.
4. `PairWorker`: queue, dedup, guard, restart; then the strategy's live frame in it.
5. `Notifier`: queue, pace, outage, retries, calls that wait, close with generations.
6. `SpotPair`, `MetaPair`: the other two venues, on the pattern of `FuturesPair`.
7. `TraderSession`, `Commands`: threads, stops, the shared journal file, /stop.
8. `Messages`, `Alerts`, `Backends`: what is told, and what of it arrives.
9. `LiveChart`, `LiveSim`, `LivePages`: what is shown of a live session.
10. `Indicators`, `Frames`, `Conversion`, `Collector`, `Sizing`, `Report`: the stations of
    a backtest.
11. `Feeds`, `SignedCalls`: the connections below the venues.
12. `TimeframeChart`, `ReplayTab`, `ReplayPage`: charts and their replay.

13. Proofs, in the order of what depends on what: `CandleSchedulerProofs` (with the
    refinement), `PairWorkerProofs`, `SessionProofs` (with /stop), `NotifierProofs`,
    `FuturesPairProofs`, `SpotPairProofs`, `MetaPairProofs`, and `BrokersProofs` (feeds,
    signed calls, and what the pairs' proofs say of the whole).

What would come next: the books of `FuturesPair` after a fill, which need a sum over sets of
orders; the messages' contents (`Messages`, `Alerts`, `Backends`); the parts of section 9
that have state.

Components that share no state are checked together in one run (section 3.8), so that
there is one run for one area of the system and not one for each module.

## 3. The modules

Names follow the code. A `Setups` constant is a set of records: each record fixes one
scenario (the settings of the program, and the bounds), `setup` picks one at the start and
never changes. One run so covers several configurations. Definitions whose comment says
"Variant" are plausible mistakes; they are used only to see that a property notices them.

A thread's work that takes several calls is a list of tasks (`todo`, or one list per
thread). A task makes at most one call that another party can see, and between two tasks
anything may happen that the code does not exclude. So every interleaving with the calls
of one handler is explored, while the handler's own order is the code's.

### 3.1 The clock: CandleStream, CandleScheduler

`CandleStream` is what the worker may rely on: bars are handed over once, in order, only
when final, and a bar the mark has passed without handing it over never printed by then.

`CandleScheduler` is `CandleCloseScheduler.wait_next_close`, called in a loop, against a
candle endpoint. `pc` is the place in the function: `waiting` (`_sleep_until`),
`collecting` and `judging` (the loop of `_collect_closed`), `start` (the baseline).
`processed` is `_processed_open_ms`, `deferUntil` is `_defer_until_ms`.

| Code | Action |
|---|---|
| `_init_baseline` | `InitBaseline`, `FetchFailsAtStart` |
| `next_boundary_ms`, `_sleep_until` | `Boundary`, `Fire` |
| `_collect_closed`: one fetch, settled or not | `Fetch`, `FetchFails` |
| its deadline | `Judge` |
| the end of `wait_next_close` (mark, deferral, tick) | `ReturnTick` |
| stop event seen in any loop | `SetStop`, `ReturnNone` |
| venue | `PrintBar`, `Tick` |

Time is venue time in ticks; the clock offset shifts both sides of every comparison and is
left out. `Prompt` states the assumption under which the scheduler keeps the promise of
`CandleStream`: a fetch round ends in the grid interval it was fired in.

### 3.2 The venues: FuturesPair, SpotPair, MetaPair

`FuturesPair` is the engine with its futures venue object, the worker's handlers that drive
it, the journal, and the restart, against the account as the code uses it: one net position,
reduce-only orders that fill on their own, a stream of fill events.

| Code | Tasks and actions of `FuturesPair` |
|---|---|
| `open_position`, `_FuturesVenue.open` | `Enter`, `AttachStop`, `EmergencyClose`, `AttachTakeProfit`, `PlaceLevel` |
| `move_stop` and its callers | `MoveStop` in `SyncStop`, `BreakEven`, `RaiseStop`, `SettledStop`, `ResyncStop`; `CancelOne` |
| `update_stops` | `RetryPending`; break-even: `BreakEvens`, `BreakEven`; trailing, of ladders as well: `RaiseStops`, `RaiseStop` |
| `check_tp_levels`, `_settle_ladder_fill` | `CheckLevels`, `LevelTouched`, `LevelDone`, `Settle` |
| `force_close` | `ForceClose`, `CloseTrade` |
| user-data fill | `ProcessFill`, `RecordFill`, `CancelLeftover` |
| position poll (`_reconcile_futures` of the worker) | `Reconcile`, `ManualTake`, whatever fill events are still queued |
| `_flush_state` | `Flush` |
| `reconcile_startup` | `Restart`, `ReadNet`, `ReadOrders`, `ReadFills`, `Adopt`, then per trade `SettleOfflineLadder`, `SettleOfflineFill`, `CoverByNet`, `RepairStop`, `RearmTakeProfit`, `ReplaceLadder` |
| one closed candle, one forming row | `Candle`, `Forming`: the task lists, in the code's order |

`SpotPair` has no position but a wallet and orders that lock what they sell: `Unlock`,
`PlaceNew`, `Restore` and `SellOut` are the four calls of one stop move, with the holding
naked between the first two; `ProcessFill` needs the user-data stream, `Poll` runs only
without one. `told` is what the user was told of. `MetaPair` has tickets that carry their
own stop, a bridge that sends a request again when its reply is lost (`Try`, `resend`), and
a terminal that may execute a request after its caller gave up (`LateRequest`); ladder
levels are closed from the feed (`CheckLevels`, `MarketClose`) and the ticket poll is
`Reconcile`. A call of the bridge ends in one of four ways (`Call`): answered, refused, failed
with an error the engine handles, or failed with one that escapes its handlers and ends the
item where it stands (`Aborted`); at a restart that ends the process (`Quit`).

Three histories are kept besides the code's state. `incidents` of `FuturesPair`: a failed
emergency close was reported ("told"), one was rejected and taken for done ("rejected"), the
poll booked a fill whose event was still queued ("overtaken"). `unsure` of a MetaTrader trade:
no answer says where its stop stands. `forgotten`: tickets that a start which failed left out
of the journal.

Prices are rungs: entry stop -1, entry 0, level k. Sizes are counted in the smallest lot.
All trades are long: the code mirrors the sides.

### 3.3 The connections: Feeds, SignedCalls

`Feeds` is one subscription: a candle or account socket (`Connect`, `Receive`, `Emit`,
`Drop`, `Keepalive`) or the terminal's poller (`Poll`, with `Baseline` and `News`).
`SignedCalls` is one call of the Binance connector, as its legs: `Sign` at the first
attempt only, then every answer the venue or the network can give; `Accepted` leads to the
next leg, so that an entry with two protective orders and a close that first reads the
position are one behaviour. `age` and `stamp` count seconds.

### 3.4 The worker: PairWorker

The queue with its coalescing (`_next_item`: `RunLength`, `Item`, `Left`), the processing
of a scheduler tick one candle at a time (`CommitOlder`, `CommitNewest`), the forming row,
the report (fills and reconciles), failures inside an item, stop and start. `Act` is one
evaluated row: management, guard, exit, entries, dedup. The engine is reduced to the number
of open positions and the losses booked per day: `FuturesPair` has the rest. Candles are
indices: `now` is the forming one. `frame` is what the strategy sees, each
cell being the rows it was computed from; `UpdateIndicators` is the hook or the tail
recompute of a candle, and forming rows work on a copy.

### 3.5 The session: TraderSession, Commands

`TraderSession` is `Trader.run`: `Seed`, `StartWorker`, `AllStarted`, the consumers' loops
(`Item`, `LoopEnds`), every source of a stop (`RequestStop`, `KillSwitch`, `Signal`,
`Interrupt`, `ForceQuit`), `Joined`, `ShutDown`, `Return`, and the journal file that each
pair writes in two steps (`Build`, then `Write` under the lock). `Commands` adds the
listener of a bot per generation (`Ask`, `Answer`, `NoAnswer`, `Rejected`, `Read`), the
updates Telegram keeps, and the two-step /stop (`AskStop`, `ConfirmStop`).

### 3.6 What is told: Notifier, Backends, Messages, Alerts

`Notifier`: callers, the trading thread, close() and any number of sender threads share the
queue under one lock; each action is one critical section, or what a sender does between
two. A sender's `pc` is its place in `_run`: `look` (`_next_locked`), `work` (`_run_work`),
`request` and `answered` (`_attempt` before and after the service has seen it).

| Code | Action |
|---|---|
| `_enqueue`, `_post` | `SendText`, `PostEvent`, with `Trim` and `EnsureThread` |
| `_next_locked`, `_choose_locked` | `TakeDelivery` (`Due`), `TakeWork`, `Leave` |
| `_run_work`, `_queue_event`, `_keep_root` | `RunWork` (`Queued`), `Record`, `WorkDone` |
| `_attempt` | `Request`: reached or not, answered or not |
| `_settle_locked`, `_give_up_locked` | `SettleSent`, `SettleWait`, `SettleRefused`, `SettleServer`, `SettleUnreachable`, `SettleClosed` |
| `_begin_close`, `_end_close` | `BeginClose`, `EndClose` |

A delivery is one message to one destination, and its index in `msgs` is its sequence
number. Only requests take time: between looking and taking, and during the adapter's
work, no tick passes (`Busy`), which is the timing the code relies on for a paced chat.

`Backends` is one destination of one service: the check of its setup (`Check`, with the
rights Telegram reports), what each service's answer is taken for (`Outcome`, per service),
edits and roots, pictures with their captions, and the digests of e-mail. `Messages` takes
the notifier at its word (section 3.6's `InOrder` and `ToldTheTruth`) and is the adapters of
several pairs on one notifier: `Receive` on the trading thread stamps the day, `Handle` on
the sender's thread makes the messages, `Deliver` records roots; `Midnight`, `Job` and
`Summarize` are the daily summary. `Alerts` is `watch()` step by step (`Watch`, `Join` or
`Open`, `Keep`, `Return`) beside the stream threads that already deliver prices (`Hear`).

### 3.7 What is shown: LiveChart, LiveSim, LivePages; TimeframeChart, ReplayTab, ReplayPage

`LiveChart` is a chart, its server's loop, the cached init that a new tab is given, and the
tabs. `LiveSim` is one closed candle of a `LiveSimulation` with the events it emits and the
calls it makes, and the `_EventBridge` that turns the events into the trader's. `LivePages`
composes them: trading threads that only enqueue (a real stop is raised before the venue is
asked, `RealRaise`, and told or taken back afterwards, `RealMove`, `RealRefused`), the display
thread (`Take` with `Collapsed`, `Draw`), the pages, `Close` with `Drain`, and the feed of a paper session.

`Frames` detects a timeframe and resamples. `TimeframeChart` is the chart's data at several
timeframes: `Loaded`, `Rebuilt` (`set_timeframe`), `Streamed` (with `Folded`, the row that
is folded into the candle on show), the window and its lines. `ReplayTab` is the JavaScript
of a chart's replay and `ReplayPage` the message lines between program, frames and shell,
with every order in which they can cross.

### 3.8 A backtest: Conversion, Indicators, Stepper, Sizing, Report; Collector

`PositionMath` holds the rules of `simulate/_position_math.py` and `_position.py` as
operators on a position record: `CheckClose` with its order gap, stop, ladder, target;
`CheckRiskFree`; `UpdatePeak`; `ApplyPartialClose`. Prices, sizes, margins and fees are
integers, so that conservation can be stated as equality. `Stepper` is `run_multi`: at each
timestamp each pair in turn takes its candle (`Candle`, `NoCandle`), then the equity is
recorded (`Snapshot`); after the data each stepper closes what is open (`Finalize`).
`Sizing` is `compute_position_params` in exact fractions (`Rationals`), with the two symbol
tables of `_lot.py`, which it keeps apart, as the code does. `Report` has both drawdown
scans, the streaks and the sessions; `Indicators` every class twice, whole and streamed, on
fractions with NaN; `Conversion` the normalizer and the converter; `Collector` gap search,
batches, merge and save.

### 3.9 Brokers and the MC modules

`MCFuturesPair`, `MCPairWorker`, `MCNotifier` and `MCSession` extend their module and give
its scenarios; the scheduler's numbers are in its `.cfg` files. `Brokers` (with its
scenarios in `MCBrokers`), `MCBacktest`, `MCMessages` and `MCPages` each check several
modules that share no state: the modules are instances, `part` names the
one a behaviour is about, and the others' variables stay 0. Because `part` never changes,
this is the union of the parts' behaviours; a property of a module is stated for its part,
and the fairness of a disjunction of actions of different parts is the fairness of each.
`Brokers` takes its two pairs as instances of the modules of their proofs, so that their
theorems can be cited for the whole, and has one constant of scenarios for each part.

## 4. The runs

| Run | Question | Properties |
|---|---|---|
| `SchedulerStream` | is the scheduler the stream it promises? | `StreamSpec` (refinement) |
| `SchedulerLate` | and when callers and answers are boundaries late? | `OnlyFinalBars`, `OnlyNewerBars`, `GiveUpDefers`, `BarRecovered` |
| `FuturesPair` | trades on one net position, ladders, trailing and break-even stops, polls at any moment, refusals, missed events, a stop or crash and a restart | `StopCovers`, `NothingUntracked`, `StopWhereBelieved`, `CatchesUp` |
| `Brokers` | spot and MetaTrader pairs, feeds, signed calls, the collection, each with its faults | `VenueAgrees`, `DueStopLands`, `LedgerCatchesUp`, `OnceInOrder`, `FeedLives`, `OrdersAsDecided`, `Collected` |
| `PairWorker` | candles, signals, the day's block and the strategy's frame over catch-up, late rows, restart, failure | `ActsOnce`, `SameAsRerun`, `CandlesInTurn` |
| `Session` | pairs and their threads, stops from everywhere, the shared file, /stop | `Accounted`, `ConfirmedOnce`, `StopEnds` |
| `Notifier` | failing chats, a full queue, a trade's messages, close and restart | `InOrder`, `ToldTheTruth`, `RepliesFindTheirRoot`, `NoneHeldUp` |
| `Messages` | what chats are told, alerts, and what of it the services deliver | `Reported`, `AlertsFire`, `SentIsWhatArrived` |
| `Pages` | live pages at rest, paper sessions, charts and replays | `AsTraded`, `Followed`, `TimeframesKeepData`, `ReplayForgets` |
| `Backtest` | data, indicators, sizes, simulation and report | `ConversionIsExact`, `StreamIsBatch`, `StopsLeaveNoDebt`, `WalletConserved`, `FillsInsideCandle`, `StopKeepsWhatIsSecured`, `ReportIsRight` |
| `FinalBalance` | is the final balance the wallet's? | `FinalBalanceIsWallet` violated |
| `FuturesOvertaken` | and when the poll overtakes a queued fill? | `CoversWhenOvertaken` violated |

What the passing runs show:

* **Scheduler.** No bar is evaluated before it is final, twice, or out of order, even when
  rounds overrun later boundaries. While each round ends in its own interval nothing that
  printed in time is lost. After an outage a bar that was late is recovered by gap-fill.
* **Futures.** In every state of a running trader the venue's net position is covered by
  working stops, up to the entry whose stop is being attached and a stop marked pending.
  Nothing is held that the engine does not track and (without a ladder) no order is left
  behind (`NothingUntracked`). Both hold until one of three incidents: an UNPROTECTED error
  was raised, an emergency close was rejected, or the poll booked a queued fill as something
  else. The poll runs at any moment in all scenarios; what it does in the third case is what
  `FuturesOvertaken` shows. The stop stands where the engine believes, incident or not. After
  a restart all of this holds again; a pending stop lands, and without an incident the books
  match the venue again and again (`CatchesUp`).
* **Other venues.** Between two items a spot holding is protected, or the user was told (in
  one case that it was sold, section 8); a MetaTrader stop stands at least where the engine
  believes it, unless a move of it failed without an answer; a trailing stop that is due is placed
  in the end; sizes meet again after manual closes, missed fills and doubled requests.
* **Connections.** A feed gives every closed candle it could hear of once and in order and
  its thread is up again and again; an order is executed again only for an answer that was
  lost, never long after it was decided, and a close never opens the other side; a
  collection ends with every candle of the venue but those behind a hole of a whole batch.
* **Worker.** Each (candle, direction) is tried once, never for an older candle of a
  catch-up tick; every handed-over candle is committed in order however many forming rows
  arrive; with closed candles the day's block holds for the rest of the day; the strategy is
  asked on what a full run would have given it, while its window leaves a row to spare.
* **Session.** What a session leaves behind is flat, or journaled, or was reported as not
  closed; a stop from any source at any time ends it; /stop is confirmed by who asked for
  it, in the session it was asked in.
* **Told.** What reaches a chat never goes back in order; a message said to be sent,
  refused, dropped or withdrawn arrived exactly as far as it was said to; a call that waits
  returns in the longest outage; a failing chat holds back no other; a chat ends with the
  trade's stop as it is, its slices counted on the day they were received, on the right
  root; an alert fires at crossings and only there.
* **Shown.** Once all is drawn and sent, tabs and report pages show the trades that were
  made, with the stops that were traded but for the break-even jumps and refused moves of
  section 8; the events of a paper session tell its positions; a chart at a longer timeframe is
  what a new chart would be; a replay that moves on shows what was known at its cursor.
* **Backtest.** Slices of a trade add up to it and the wallet is what the trades say; a
  stop's fill is a price its candle traded at, unless the stop was behind its trail at the
  open; whichever rules write a stop in a candle, none gives back what the entry, the
  break-even or a level has secured, and it loosens only from a trail to the stop of a level
  just taken; a stop leaves no debt; streamed indicators
  are the computed ones; candles are whole on every route; both drawdown scans, the streaks
  and the sessions are what their definitions say.

## 5. Bounds

Every bound is a constant or a field of `Setups`, and is named in the guard it limits.

| Bound | Value | Why it is enough |
|---|---|---|
| `Tf`, `MaxTime` | 2 ticks, 13-14 ticks | six bars: baseline, a gap longer than the tail (`TailCount` 3), a give-up and two recoveries |
| `FetchTimeout`, `Stall`, `OutageEnd` | 1-2, 0-1 ticks; 4 or all the time | a round may end in its interval, at its end, or boundaries later; failures before the baseline, in a round, in a gap fetch |
| `TailCount` in `SchedulerLate` | 7 | above the bars that fit, so the late caller's gap goes through the tail; the overtaken tail is described in section 8 |
| `entries` | 1-2 | sharing the net position, the wallet or the ticket list needs two trades; a third adds no new relation between a fill and its owner |
| `size`, `fractions` | 1-2, `<<1,1>>`, `<<0,2>>`, `<<0,1,1>>` | a partial level, a full close by the last level, an advance-only level |
| `top`, `free` | -1 (no trailing) to 2; both | a raise per trade: placed, refused, filled in between; a second one after a refusal; a raise of a ladder's stop before, between and after its levels; a break-even that meets a trailed stop |
| `faults` of the venues | up to three per setup | each kind alone in each place, and the pairs that matter: missed event with refused call, crash with refused call and user's cancel, three refusals in a row (new stop, old stop, emergency sale), a refused stop with a rejected emergency close |
| `anywhere` | FALSE | the process ends between two items; a crash inside an item is in section 8 |
| `items`, `tail` of `Feeds` | 4-6, 3 (code: 10) | more closed candles between two polls than a tail holds; two raising callbacks in a row; a key that dies after two keepalives |
| answers of `SignedCalls` | 1-2 of each kind | four attempts (`MaxAttempts`, as in the code) mix breaks, timeouts, limits and a refusal; a limit's minute exceeds the window of five seconds |
| `Collector` | 6 listed candles, batches of 2 and 3 (code: 1000), every subset listed | a hole inside a batch, at its end, longer than it, before the listing |
| `last`, `perDay`, `backlog` of `PairWorker` | 3-4, 2, 2 | two day boundaries; a catch-up of two candles; a run of forming rows ended by another item |
| `look`, `ahead`, `window` of the strategy's frame | 2; 0-1; 2-3 | a tail with one row to spare and with none; a column filled one row later |
| sessions, pairs, `clock`, `messages` of `Session` | 2, 2, 2, 1-3 | one listener beside the next one's; two consumers and main; a /stop before and after its minute |
| `steps`, `pace`, `capacity`, `texts`, `events` of `Notifier` | `<<1,2>>`, 1, 1-2, 1-3, 2-3 | a second step longer than the pace, a third failure; a full queue with and without a message on its way; an opening, a reply, an edit that is replaced |
| `moves`, `trades`, `midnights`, `cap`, `prices` of `Messages`, `Alerts` | 3, 2, 1, 1, 6 | a stop that moves again while its edit waits; the oldest root forgotten; a price that crosses, returns by the band and crosses again |
| `Places`, answers of `Backends` | all; one of each | every right Telegram reports; every answer in every place |
| `candles`, `moves`, `tabs`, `visits` of `LivePages` | 1-5, 1, 0-2, 1-2 | a window of two or three candles that trims an open trade; a tab that comes back |
| rows, `acts` of `ReplayPage` | 6 rows at source 1, displays 2 and 4; 2-4 requests | a first and a last candle that are partial; a switch during a replay; two frames of different source timeframes |
| candles, prices of `Stepper` | 3 over prices 1-5, 2-3 with two pairs, or 4-9 with a trail narrower than the first stop | enter, move, close; two levels and a gap over both fit into the grid; a trail beside a ladder and beside a break-even, each ahead of the other |
| exports of `Conversion` | eight instants, every pattern of holes | three timeframes, two routes, bounds inside a candle, milliseconds |
| `MaxBars`, `n` of `Indicators` | 6, 2 (Hull 4) | two bars or more behind the warm-up, with a missing bar in every place |
| entries, stops of `Sizing`; curve of `Report` | 3, two distances; 6 | compounding after a loss; a drawdown within a drawdown, ties, an unfinished one |

## 6. Fairness

Where a run checks liveness its specification is the fair one.

* `CandleScheduler`: `WF(Tick)` - time passes; `WF` on the scheduler thread's own steps -
  it sleeps and fetches, nothing blocks it. A failing fetch is not fair and stops at
  `OutageEnd`: without an end to the outage no bar is promised.
* `FuturesPair`, `SpotPair`, `MetaPair`: `WF(Work)` - the consumer works off its item.
  `SF(Candle)` and `SF(UserData)` - closed candles and fill events are queued, never
  dropped, and taken in turn, while rows and polls may take the consumer any number of
  times. Nothing is assumed of the venue's fills, the user or the poll.
* `Feeds`: `WF(Work)` - the daemon thread keeps turning its loop. `Collector`:
  `WF(Collect)` - a collection goes on, and is run again. `Brokers` states the fairness
  of its parts as that of disjunctions (section 3.9).
* `Commands`: `WF` of each thread's work, of each pair's loop end, of main and of the end of
  a session: threads run and venue calls return. Nothing of the chat.
* `Notifier`: `WF(Send)` - sender threads run; `WF(Tick)` - time passes. No service ever
  has to come back: `CallsReturn` holds in an outage without end, and `OthersFlow` speaks
  of chats that answer.
* Everything else has safety properties only and no fairness.

Deadlock is checked where the system cannot stop: `FuturesPair`, whose candles and restarts
never end. Elsewhere behaviours end (a stop event, the end of the data, nothing left to
send), and the configurations say so.

## 7. Proofs

Eight modules hold proofs, each about one component's specification. They hold for every
value of the constants that the module's named ASSUMEs allow, and TLC evaluates those in
the runs: for `CandleScheduler` a positive candle length, tail and timeout and room for a
candle (`Tf <= MaxTime`); for the others that every scenario is a `Setup`: any number of
pairs, chats, candles, messages, faults, restarts. What `Brokers` composes are instances, so
`ScenariosAssumption` says of all of them at once that their scenarios are `Setup`s, and the
theorems of a pair's own module have the condition as a hypothesis.

| Module | Theorem | Statement |
|---|---|---|
| `CandleSchedulerProofs` | `NeverEarly` | `Spec => []OnlyFinalBars` |
| | `NeverRepeated` | `Spec => []OnlyNewerBars` |
| | `NeverSpins` | `Spec => GiveUpDefers` |
| | `StreamImplemented` | `Prompt` implies `Spec => StreamSpec` (refinement) |
| `PairWorkerProofs` | `EnteredOncePerCandle` | `Spec => []ActsOnce` |
| | `TakenInTurn` | `Spec => CandlesInTurn` (three action properties) |
| `SessionProofs` | `LeavesAccounted` | `Spec => []Accounted` |
| | `StoppedAsConfirmed` | `Spec => []ConfirmedOnce` |
| `NotifierProofs` | `InTurn` | `Spec => []InOrder` |
| | `ToldAsItHappened` | `Spec => []ToldTheTruth` |
| | `RootsFound` | `Paced` implies `Spec => []RepliesFindTheirRoot` |
| `FuturesPairProofs` | `StopsWhereBelieved` | `Spec => []StopWhereBelieved` |
| `SpotPairProofs` | `SpotInvariant` | `BetweenItems` implies `Spec => [](IInv /\ NeverNakedUnsaid)` |
| `MetaPairProofs` | `MetaInvariant` | `Setups \subseteq Setup` implies `Spec => [](IInv /\ VenueAgrees)` |
| `BrokersProofs` | `TraderAndVenueAgree` | `SpotPairs!BetweenItems` implies `Spec => []VenueAgrees` |
| | `FeedsInOrder` | `Spec => []OnceInOrder` |
| | `CallsAsDecided` | `Spec => []OrdersAsDecided` |

`BetweenItems` says that the scenarios are `Setup`s in which the process stops only between
two items of the worker, as all scenarios of the run do. It is needed: a crash between the
cancel of a spot protection and the order that replaces it leaves the asset unprotected, and
nobody is told (section 8, Spot). A MetaTrader process may stop anywhere.

The invariant of each is its `IInv` (`SInv` for the session, `FeedInv` and `CallInv` in
`BrokersProofs`); its first conjuncts are the
types (`TypeCorrect` states them for the scheduler), as far as the argument needs them. None
of the properties is inductive. What was added, and why it is needed:

**Scheduler.** That a tick is newer than all earlier ones rests on the mark: nothing
delivered lies beyond `processed`, what the current round has collected lies between the
mark and the expected bar, both are grid points, and the expected bar is final at the time
its boundary fired because of the floor in `NewestFinal`. Grid facts (`GridPoints`,
`NextGrid`) are proved once from arithmetic on multiples of `Tf`. For the refinement every
step must hand over exactly the printed bars behind the mark, or nothing. This is a count of
grid points: at `Fire` the bars behind the mark number `missed`, a round that ends in its own
interval (`Prompt`) sees no further grid point, so the tail reaches back to the mark when
`missed` fits into it, and the ranged fetch starts there when it does not. Without `Prompt`
the statement is false (section 8, Scheduler).

**Pair worker.** `ActsOnce` rests on the dedup set, which is lost with the process: so
`RememberInv` says of every attempt for a candle still to come that the set holds it while
the worker is up, and the journal while it is down, where the two may differ only inside an
item. `CandlesInTurn` rests on `QueueInv` (the queued ticks are ascending, disjoint ranges
behind those in work, whatever forming rows are between), `CoverInv` (while no item failed
no handed-over candle is missing), and `GuardInv` (the guard's day is the day of a committed
candle, and the last day that hit its limit still blocks), which holds for closed candles
without a restart: both are preconditions of `BlockedForTheDay` because the code breaks it
otherwise.

**Chat commands.** An update must not be handled twice although a listener that was stopped
may still read a batch beside its successor. `HandledInv` orders what was handled by this
program before its offset, and everything else before the last start (`crashed`);
`CurrentInv` says what the listener that is alive has in hand was not handled by this
program; `PendingInv` that a pending question is the newest /stop of a session that can still
be stopped.

**Session.** `TaskInv` says for every task of every thread how what is open, what is tracked
and what the journal holds differ in the middle of it; `PlaceInv` which thread may be at work
on which pair in which phase, so that no two are (`AtRest` otherwise); `FileInv` that up to a
failed write the file follows the journal; `CloseInv` and `SaidInv` what main has done for
the pairs it has been through. A second Ctrl+C and an aborted start leave these
(`Orderly`), and `Accounted` says nothing of them.

**Notifier.** Order: the sender in charge has the first waiting message of its chat in hand
(`FrontInv`), a superseded sender one that close() gave up, and nothing that waits is behind
what has arrived (`PassedInv`). Truth: the copies of a message in the chat are its finished
parts, and one more between an answer and its booking (`CountInv`); a sender of an old
generation has nothing to book, which is what makes the count right over a close. Roots: a
trade is opened once, and its opening is posted, in a sender's hand or made into messages,
never two of these (`OpeningInv`); an opening that went out is a chat's root, or is still to
be recorded while the chat is paced (`RootInv`), and a request that goes out meanwhile has
the root already (`RequestInv`). The last argument needs that a chat takes at most one
request in a step of time: `Paced`, every `pace` at least 1. It holds of every service that
can reply (`notify/`: Telegram, Discord and mail send one request a second; a webhook sends
ten and has no replies). With `pace = 0` `RepliesFindTheirRoot` is violated: the sender a
close left behind may take the callback of the next session's opening, and the next message
goes out before it records it.

**Feeds.** `OnceInOrder` speaks of what the callback was given; what decides it is still in
hand or on its way. `OrderInv` orders the three, `SocketInv` says that a closed candle since
the subscription is in one of them or closed while the socket was silent. The poller has no
memory but its two marks: `EmittedInv` and `PassedInv` say what each mark stands for, and
`HandInv` that the rows of one answer are consecutive and begin where the marks end, or
beyond a hole that had left the tail.

**Signed calls.** A leg still to come, or to be tried again, was executed at most as often as
an answer of it was lost, the leg in progress does not come again, and the query keeps the
timestamp of its first attempt (`stamp = 0`), which is what bounds the age of a fill.

**Futures pair.** A trade's stop and the venue's differ in the middle of an item, and a crash
keeps only the journal. `BelievedOrInHand` says that a trade which waits for no retry has an
accepted order at the rung it believes in, or its stop is the very next thing the worker
does: only `Settle` (the cursor has moved) and `RepairStop` (the stop is gone) leave it so,
and `SettledStop` and `ResyncStop` end it either way, with an order or with a pending retry.
`TasksOK` carries what is known between the calls of one item: an entry is tracked with the
stop just accepted, and only journaled trades are adopted; `AllBelieved(journal, orders)`
lets a restart take up from any earlier flush, because an accepted order keeps its rung
(`Extends`). `RanksName` shows that the tasks made for a set of trades name these trades.

**Spot pair.** Three counts carry the argument, each up to what the user was told. `Locked`:
what is held and not locked by a working order is at most the one unit in the hand of the
call that comes next. `Accounted`: what is held beyond the trades whose order has not filled
is at most the entry on its way. `Covered`: the order of every trade works, or has filled, or
is about to be replaced, which is what lets a restart and a poll without a stream tell a
closed trade by its order. They hold because the four calls of a stop move follow each other
without an item between them (`TasksOK`: after the first task only stages and the start of
another trade's work), so there is never more than one unit in hand; and because no two
trades share an order (`BookOK`), so that a fill takes away one order, one unit and one
trade. `Books` are the trades, or the journal of a process that is down: a stop between two
items makes these the same. A close whose sale failed leaves a trade without an order;
`Forgets` says when the program then takes it for closed, and `SaidGone` accepts the message
the user got. An emergency sale that was answered with a rejected order counts as made
(`"not sold"`), in the program and in what it says.

**MetaTrader pair.** `StopNeverLooser` needs to know where a stop is between the engine's
move and the terminal's: `UpStops` says that a tracked stop agrees, or its move is the very
next thing to come (`Owed`), and that the stops of the journal, which a restart believes,
agree. To agree (`Agrees`) is to stand no higher than the terminal's, or to be pending, or
`unsure`: a move whose failure escaped is not taken back by the engine, so the stop it
believes is one that no answer confirms, until the next move is answered. A lower move that
was executed without an answer makes a trade unsure as well, and a lower one that was made
since the last flush the journal's copy (`Doubted`), because a break-even may lower a trailed
stop. A user who took the stop away while the program was down leaves it `Bare`, until the
restart has set it again (`Repaired`), which is why a start whose repair escapes ends the
process. A restart reads the positions once and decides on that reading: `Snapped`
(with `GoesOn`) and `StartStops` say what may have changed under it - volumes fall, the stops
of trades not yet adopted stand - and that a trade which is repaired is repaired before the
next is adopted. Strangers are counted: `Counted` bounds the open positions that
nobody holds, together with the requests that a terminal may still execute (`late`), by
`Left`, what the faults so far account for. `Held` is what the trades, the ticket in hand and
the journal of a process that is down stand for, and what a failed start has left out of the
journal (`forgotten`); a lost reply costs two (the request and its repetition), a repeated or
late one and a crash cost one each. `ClosedOK` carries a loop of closes, whose trades are
dropped together at its end: each one done has no volume left.

Every conjunct was checked by TLC before it was proved. Lemmas about the operators come first
in each module (sequences that grow or are marked, `Ended`, `Trim`, `Queued`; the grid;
`Cardinality` of what is left); then what a kind of step keeps (`QuietStep`, `LookOpening`,
...), one lemma per action, and the theorems.

Only model-checked: liveness and leads-to properties (the proof system does not do
fairness); `SameAsRerun`, whose rows are built by a recursive definition; the indicators
(RECURSIVE operators, which the proof system cannot reach); the sums of the simulation
and of reports (folds over lists of any length: induction over data). `StopCovers` and
`NothingUntracked` add up the sizes of trades and orders, which is such a fold, and they are
properties of the run's scenarios, up to the incidents they name: `FuturesOvertaken` and
section 8 show these. The messages'
contents, the pages and the collection have no proofs; TLC checks them on their scenarios.

## 8. Where the code and its text disagree

Shown by a run, which TLC ends with the counterexample:

* `FinalBalance`: "Wallet balance after all trades are closed" (`simulate/_report.py`) is the
  last equity, in which a pair without a candle at the last timestamp stands at its entry
  price.
* `FuturesOvertaken`: "an unprotected position must not stand" (`trader/_execution.py`). The
  position poll compares the venue's net with the tracked sum while a fill event of our own
  ladder order waits in the queue. It books that fill as a manual close, the event books it
  again, and the trade, counted as closed, loses its stop while part of the position is open.
  One ladder and one poll suffice, with no fault. `StopCovers`, `NothingUntracked` and
  `CatchesUp` allow the same polls and excuse what follows such a one (`incidents`).

Outside the runs. TLC ends with the counterexample when a run's configuration is changed as
given, with the property named first as its only one:

* `LotCostsRisk` of `Backtest.cfg`, `Areas = {"size"}`: "hitting the stop-loss costs exactly
  `risk_amount`" (`simulate/_lot.py`) fails for pairs whose base is the dollar and whose quote
  is not the yen: the pip's value is divided by the rate twice. For usdcad the lot is about a
  third too large.
* `StopsFillInCandle` of `Backtest.cfg`, `Areas = {"sim"}`: a stop that is behind its trail at
  the open (the entry's stop is wider than the trail, or a level has put it back) is compared
  with the open where it is, then moved, and filled "within candle body" at a price that the
  candle may never have traded at. `FillsInsideCandle` leaves out these fills only.
* `StopsDrawn` of `Pages.cfg`, `Areas = {"live"}`: "trailing SL move, risk-free jump to
  break-even" (`Chart.update_live_position`) are said to be drawn. A simulated break-even jump
  writes no `sl_history` entry, and the drawing keeps the stop from before until another rule
  moves it; and a real stop that is drawn while the venue is asked stays drawn when the venue
  refuses and the engine takes the move back without an event. `AsTraded` expects these two
  as they are.
* `FailedStartForgetsNothing` of `Session.cfg`, `Setups <- StartSetups`: a start that fails
  before a pair has adopted its trades flushes the empty record over the journal's.
* `InitReplay` of `Pages.cfg`, `Areas = {"ahead"}`: a forming row of the next candle that is
  ahead of the scheduler makes the chart drop the last closed row, so that a new tab is not
  given what an open one shows.
* `DroppedIsNotSent` of `Messages.cfg`, `Areas = {"full"}`: of a digest on its way only the
  leader is protected from a full queue; the others are told "dropped ... not sent" and
  arrive.

Seen while modelling, and excluded where a property says so:

* **Scheduler.** A catch-up of `TailCount - 1` missed bars goes through the tail; if the next
  bar prints before the fetch, the oldest missing one has left the tail and is stepped over
  (set `TailCount` of `SchedulerLate` to 3). `Prompt` excludes it from `SchedulerStream`.
* **Futures.** A missed fill of the younger of two trades is charged to the older one by the
  poll, which cancels the only working stop; the cancel loop of
  `_cancel_leftover_protection` ends at the first order already gone (why `NoOrphanOrders`
  leaves ladders out); the startup repair looks up the stop in a snapshot taken before an
  offline ladder fill moved it, and places a second one; a crash between an entry and its
  stop leaves the position naked; an entry whose reply is lost is held and not tracked. The
  emergency close of a naked entry does not look at the answer's status: one that was rejected
  is reported as "emergency-closed" and the position stands (incident "rejected"). A
  break-even, and a ladder level, put a stop that was trailed further back to the entry or
  the level, at the venue as well.
* **Spot.** `pending_sl_sync` is never set: after "UNPROTECTED; protection will be retried
  next candle" (`trader/_execution.py:505`) a break-even move is tried again only when the
  high reaches its trigger again (`DueStopLands` is about trailing stops). A lost answer to
  a cancel, or a crash between cancel and place, leaves the holding naked, and the restart
  records it closed. With a user-data stream nothing polls, so a fill nobody reported stays
  unknown (`unseen`); without one the poll drops a trade whose protection failed although
  the asset is held. A market sale that is refused after the protection was cancelled
  leaves the trade tracked and naked; a restart, or a poll without a stream, then takes it
  for closed, because its order is gone (`Forgets`), and the message of the failed close is
  the last the user hears of it. The sale of a naked entry, too, does not look at the status
  of its answer: a rejected one is told as sold.
* **MetaTrader.** A request sent again may be executed twice; the terminal may execute one
  after its caller gave up. A second attempt that fails with an `OSError` other than a timeout
  (`_bridge_client.py`, `call`) is no `BrokerError`: it escapes the engine's handlers, and the
  item ends where it stands. A stop that was being moved stays where the engine wanted it,
  ahead of the terminal's, and is not tried again (`unsure`); trades closed earlier in the same
  loop stay tracked until the poll finds them gone; an entry that was executed is not tracked;
  and a start ends, with a journal that lacks what it had not adopted yet (`forgotten`). A
  manual partial close, or a doubled request, makes the poll book the last deal twice. The
  bridge rejects a stop moved to where it is ("no changes").
* **Feeds and calls.** A candle that falls off the tail of ten rows, or closes while the
  socket is down, never comes from the feed (the scheduler's gap fetch makes up for it).
  A listen key that died is never created again: its feed reconnects in vain, and errors of
  the keepalive are swallowed. A rate-limited order waits a minute and is sent with its old
  timestamp, beyond `recvWindow`, so that it fails. A dropped connection may execute an
  order several times (no `newClientOrderId` by default); an error of 5xx is an
  `OrderError` although the venue may have executed the order; an authentication error of
  an attached order loses the result of the entry ("Best-effort protective orders").
* **Worker.** The day's losses and the trip live in memory, so a restart on the day lets
  entries through. Forming rows of the new day and the last close of the old one roll the
  guard forward, back and forward, so that a limit trips again. A strategy that raises
  leaves the row uncommitted and drops the tick's other candles, although the event says
  `will_retry`; each such candle costs the tail recompute a spare row.
* **Session.** A second Ctrl+C breaks out of the joins, and `close_all` then runs beside a
  consumer (why `Accounted` speaks of `how = "joined"`). The first-reason check of
  `_request_stop` is not atomic. Pausing the listener clears a pending /stop.
* **Notifier.** `_working` is one flag for all sender threads: the sender of a session whose
  close ran out of time resets it on its way out while the next session's has events in
  hand, and a close at that moment finds everything done. A message close() gave up may
  still arrive, beside the next session's.
* **Backends.** Discord takes any 2xx page as sent; an SMTP connection that breaks after DATA
  sends the mail again; in a private chat the check cannot see that the person has blocked
  the bot.
* **Messages and alerts.** A close received just before midnight and posted after the
  summary's job is in no summary; an adopted trade of unknown size is whole at each close.
  Of two `watch()` that share a stream whose opening fails, the second stays armed on a dead
  stream (`up = "failed"`).
* **Display and paper.** A burst that ends with a forming row, an OPEN or an SL_MOVE pushes no
  report although "only the newest candle of a burst pushes"; in "sim" mode close() never
  pushes the simulation's own page; a break-even jump sets the stop to the entry even when
  the trailing stop is beyond it; a partial reduction from outside removes the drawing of a
  position that is still open (and is no action of `LivePages`). A drawing's change is sent
  before the init that new tabs are given is renewed (`Chart.update_live_position`: `send`,
  then `_refresh_init_cache`), so a tab that joins between the two never learns of that one
  change: `missed` of `LiveChart` keeps which drawing it was, and `AsTraded` leaves that one
  drawing of that tab out.
* **Charts.** A chart at its source timeframe does not keep streamed rows in its source data,
  so a switch drops them; candles revised after the last full render stay stale until the
  next; the fold counts buckets from the epoch, pandas "3D" from the first row's day; the
  start of a replay is the clicked candle's open and a step of a page is not always the
  finest (`NoFuture`, `StepIsFinest` of `ReplayPage` state what the text says); a cursor
  that was clamped at a switch stays so until it moves (`refit`); a new window, a new
  indicator or its stream during a replay shows the future.
* **Data.** `converter.py` says "Pass source_timeframe=... explicitly to override", but
  `resample_ohlcv` detects again and raises. A collected forming candle ("part") is never
  refreshed, a torn row stays torn, and behind a hole of a whole batch nothing is asked for.
* **Indicators.** The ATR's text says its first value is the simple average of the first
  `period` true ranges; the code seeds with the first one. VWAP's "session" anchor never
  resets. MACD on a live tail is an approximation.
* **Simulation.** A ladder level puts the stop to its own price, from a trail that was further
  ahead as well; the trail takes it forward again in the next candle, but only after the gap
  check. `check_risk_free` "has no effect when the position's SL has already been moved", says
  its text; the code moves a trailed stop back to the entry, before the gap check, so that a
  gap through the trailed stop is no gap close (a trail that is still ahead is restored in the
  same candle). A break-even stop set from a candle's extreme is tested against the same
  candle's open. A gap over two levels fills the second at its own price although the candle
  never traded there (`tests/test_simulate.py:905` pins that), so `FillsInsideCandle` states
  the range for stops only and "not better than offered" for the rest. A forced close uses the
  exit signal's own price unchecked, so the property leaves it out.
* **Sizes and reports.** The yen crosses use the cross's price instead of USDJPY's; some
  symbols have a lot but no pip (`OnlySized`); a fixed lot on an exchange has no margin check;
  MetaTrader's profit uses the risk before the lot was rounded. Each partial close counts
  as a trade in `total_trades`, and "off_hours" never occurs.

## 9. Not modelled

* Wire formats, signing, HTML, JavaScript that draws, pictures, message texts, Markdown:
  conversions no property here is about. The report page is only that.
* Numbers whose definition is a formula over a whole list: Sharpe, Sortino and Calmar ratios,
  excursions, weekday and month keys.
* Prices at a live venue: an order may fill at any time, in the order its kind allows. This
  over-approximates every price path, so what holds here holds for each of them.
* User strategies: any signals a strategy may give are explored. The MACD strategy, warm-up
  and other timeframes of the live frame are left out.
* The records of closed trades (deal history) and a missing take-profit on MetaTrader; ticker
  streams; the lengths of back-off waits; callbacks longer than `stop()`'s join.
* Alerts on a move over a window and the watchdog that prints; the exit flush of the
  notifier; a corrupt journal file, which refuses the start.
* Drawings that a user edits in a tab, synchronised scrolling, the timer of the play button,
  lost connections of a tab; failing display items and a display that outlives its close.
* Calendar months in the collector, several collectors on one file.
* Python-level crashes between two statements without an effect outside.
