----------------------------- MODULE PairWorker -----------------------------
(***************************************************************************)
(* The _PairWorker of one pair (trader/_trader.py): its producers, the     *)
(* queue, the single consumer that commits closed candles and evaluates    *)
(* forming ones, the (candle, direction) dedup, the daily-loss guard, and  *)
(* what of it survives a restart.                                          *)
(*                                                                         *)
(* A candle is its index on the grid: candle c is forming while now = c    *)
(* and closed once now > c.  What orders do at the venue is FuturesPair;   *)
(* here the engine is the number of open positions and the losses booked.  *)
(* What the strategy computes its signals on is its live frame             *)
(* (strategy/_incremental.py): one row per closed candle, and an indicator *)
(* column that is extended one candle at a time; which signals it gives is *)
(* free.                                                                   *)
(***************************************************************************)
EXTENDS Integers, Sequences, FiniteSets, FiniteSetsExt, SequencesExt

CONSTANT Setups   \* the scenarios to explore: settings of the pair, and bounds

Setup == [realtime : BOOLEAN,   \* execution "candle_update" or "tick"
          flatten  : BOOLEAN,   \* close_on_daily_loss
          exits    : BOOLEAN,   \* the strategy gives exit signals, and they force-close
          sides    : SUBSET {"long", "short"},  \* directions the strategy signals
          perDay   : Nat \ {0}, \* candles of a UTC day
          most     : Nat,       \* max_positions
          keep     : Nat,       \* _DEDUP_KEEP_CANDLES
          hook     : BOOLEAN,   \* the strategy overrides update_indicators
          look     : Nat \ {0}, \* rows its indicator reads, and how far ahead
          ahead    : Nat,
          window   : Nat \ {0}, \* recompute_window
          lateRows : BOOLEAN,   \* rows of a candle may arrive after it closed
          last     : Nat,       \* bound: last candle
          backlog  : Nat,       \* bound: queued items
          restarts : Nat,       \* budget: restarts
          failures : Nat]       \* budget: items whose processing raises

ASSUME SetupsAssumption == Setups \subseteq Setup

Limit == 1      \* max_daily_loss; the losses booked on a day count up to it
NoDay == -1
MinCandles == 3 \* closed candles a start seeds the strategy with

VARIABLES
    setup,      \* the scenario, fixed at the start
    now,        \* the forming candle
    handed,     \* the last closed candle the scheduler put into the queue
    queue,      \* _pending and queue: the items not yet taken, in order
    work,       \* candles of the current scheduler tick still to process
    committed,  \* _last_committed_ts
    acted,      \* _acted: (candle, direction) pairs
    exitActed,  \* _exit_acted: candles
    journal,    \* what the last flush kept of acted and exitActed
    positions,  \* number of open trades
    losses,     \* day -> net loss of the trades closed on it in this session
    day,        \* the guard's UTC day
    tripped,    \* the guard blocks entries
    budget,     \* restarts and failures still to come
    frame,      \* the strategy's primary frame
    given,      \* the frame on which it was last asked for signals
    up,         \* FALSE between shutdown and the next start
    attempts,   \* history: entries attempted, in order
    hit         \* history: days on which the limit was hit

guard == <<day, tripped>>
dedup == <<acted, exitActed>>
strategy == <<frame, given>>
history == <<attempts, hit>>
vars == <<setup, now, handed, queue, work, committed, acted, exitActed, journal, positions,
          losses, day, tripped, budget, frame, given, up, attempts, hit>>

Day(c) == c \div setup.perDay
Days == 0..(setup.last \div setup.perDay)
Candles(a, b) == [kind |-> "candles", from |-> a, to |-> b]
Forming(c) == [kind |-> "forming", from |-> c, to |-> c]
Report == [kind |-> "report", from |-> 0, to |-> 0]

-----------------------------------------------------------------------------
(* The strategy's frame.  A cell is the rows it was computed from, so two  *)
(* computations agree when they read the same rows.  The indicator of row  *)
(* i reads `look` rows, the last of them `ahead` rows after i: a window    *)
(* (0), or a column that is filled later on, as Ichimoku's chikou span is. *)

NoCell == <<>>

\* prepare_indicators on these rows.
Prepared(rows, i, look, ahead) ==
    LET last == i + ahead
    IN  IF last <= Len(rows) /\ last >= look THEN SubSeq(rows, last - look + 1, last) ELSE NoCell

\* What a run over the whole history gives.
Whole(rows, look, ahead) == [i \in DOMAIN rows |-> Prepared(rows, i, look, ahead)]

Seeded(rows, look, ahead) == [rows |-> rows, cells |-> Whole(rows, look, ahead), fed |-> rows]

\* _append_row: the new row's cell is empty.
AppendRow(fr, row) ==
    [fr EXCEPT !.rows = Append(@, row), !.cells = Append(@, NoCell)]

Tail0(fr, window) == IF Len(fr.rows) > window THEN Len(fr.rows) - window ELSE 0

\* Variant: every cell of the tail is written anew.
TailRecomputeAll(fr, window, look, ahead) ==
    LET skip == Tail0(fr, window)
        tail == SubSeq(fr.rows, skip + 1, Len(fr.rows))
    IN  [fr EXCEPT !.cells = [i \in DOMAIN @ |->
            IF i > skip THEN Prepared(tail, i - skip, look, ahead) ELSE @[i]]]

\* _tail_recompute: prepare_indicators on the last rows fills the cells that are empty.
TailRecompute(fr, window, look, ahead) ==
    LET skip == Tail0(fr, window)
        tail == SubSeq(fr.rows, skip + 1, Len(fr.rows))
    IN  [fr EXCEPT !.cells = [i \in DOMAIN @ |->
            IF i > skip /\ @[i] = NoCell THEN Prepared(tail, i - skip, look, ahead) ELSE @[i]]]

\* update_indicators: a streaming indicator on the rows it was given so far.
UpdateIndicators(fr, look) ==
    LET fed == Append(fr.fed, fr.rows[Len(fr.rows)])
    IN  [fr EXCEPT !.fed = fed, !.cells[Len(fr.rows)] = Prepared(fed, Len(fed), look, 0)]

-----------------------------------------------------------------------------
(* The daily-loss guard: evaluate, _roll_day, _trip *)

\* Losses after n positions closed now, each losing `each`.
Booked(l, n, each) ==
    [l EXCEPT ![Day(now)] = IF @ + n * each > Limit THEN Limit ELSE @ + n * each]

\* The guard after candle c, at booked losses l and an open loss of `unreal`.
Evaluate(c, l, unreal) ==
    LET before == tripped /\ day = Day(c)
        hits == l[Day(c)] + unreal >= Limit
    IN  [day |-> Day(c), tripped |-> before \/ hits, trips |-> hits /\ ~before]

-----------------------------------------------------------------------------
(* One evaluated row: stops and levels, guard, exits, entries *)

MayEnter(newest, blocked) == newest /\ ~blocked

Upto(n) == 0..(IF n > setup.most THEN setup.most ELSE n)

\* Row c is evaluated; `asked` is FALSE when the strategy cannot be asked about it.  The
\* strategy and the venue choose: the signals, the exit signal,
\* the loss of a position closed now, the open loss, the positions left by stops and
\* levels (managed), by a force_close (held), the entries that succeed, and how many
\* closed positions a reconcile finds at the end.  Dedup keys before the horizon go.
Act(c, asked, newest, reconciles, horizon) ==
    \E signals \in IF asked THEN SUBSET setup.sides ELSE {{}}, exit \in {FALSE, setup.exits /\ asked},
       each, unreal \in 0..1, managed \in 0..positions :
    LET booked == Booked(losses, positions - managed, each)
        mark == Evaluate(c, booked, IF managed > 0 THEN unreal ELSE 0)
        newExit == exit /\ c \notin exitActed
        closes == (mark.trips /\ setup.flatten) \/ newExit
        fresh == {d \in signals : <<c, d>> \notin acted}
        tried == IF MayEnter(newest, mark.tripped) THEN fresh ELSE {}
    IN  /\ day' = mark.day /\ tripped' = mark.tripped
        /\ hit' = IF mark.trips THEN hit \cup {mark.day} ELSE hit
        /\ exitActed' = {e \in exitActed \cup (IF newExit THEN {c} ELSE {}) : e >= horizon}
        /\ acted' = {k \in acted \cup {<<c, d>> : d \in fresh} : k[1] >= horizon}
        /\ attempts' = attempts \o SetToSeq({<<c, d>> : d \in tried})
        /\ \E held \in IF closes THEN 0..managed ELSE {managed} :
           \E open \in {n \in Upto(held + Cardinality(tried)) : n >= held} :
           \E gone \in IF reconciles THEN 0..open ELSE {0} :
              /\ positions' = open - gone
              /\ losses' = Booked(booked, managed - held + gone, each)

-----------------------------------------------------------------------------
(* The strategy's frame: seed, advance_live_candle, evaluate_forming_candle *)

SeedFrame == Seeded([k \in 1..MinCandles |-> now - 1 - MinCandles + k], setup.look, setup.ahead)

\* The indicators of the newest row.
Computed(f) == IF setup.hook THEN UpdateIndicators(f, setup.look)
               ELSE TailRecompute(f, setup.window, setup.look, setup.ahead)

Advanced(c) == Computed(AppendRow(frame, c))

\* What a forming row of candle c is evaluated on: its values are not the candle's (-c).
FormingFrame(c) == TailRecompute(AppendRow(frame, -c), setup.window, setup.look, setup.ahead)

\* evaluate_forming_candle: on a copy.
EvaluateForming(c) == given' = FormingFrame(c) /\ UNCHANGED frame

AdvanceLive(c) == frame' = Advanced(c) /\ given' = frame'

-----------------------------------------------------------------------------
(* The consumer *)

CoalesceKinds == {"forming"}

\* _next_item: a run of coalescable items collapses to its newest.
RunLength ==
    Max({n \in 1..Len(queue) : \A k \in 1..n : queue[k].kind = Head(queue).kind})
Taken == IF Head(queue).kind \in CoalesceKinds THEN RunLength ELSE 1
Item == queue[Taken]

\* Variant: the item that ended the run is not kept in _pending.
LeftDrops ==
    SubSeq(queue, IF Head(queue).kind \in CoalesceKinds THEN Taken + 2 ELSE Taken + 1, Len(queue))
Left == SubSeq(queue, Taken + 1, Len(queue))

Flushed == journal' = [acted |-> acted', exitActed |-> exitActed']

Ready == up /\ work = <<>> /\ queue /= <<>>

TakeCandles ==
    /\ Ready /\ Item.kind = "candles"
    /\ queue' = Left
    /\ work' = [k \in 1..(Item.to - Item.from + 1) |-> Item.from + k - 1]
    /\ UNCHANGED <<setup, now, handed, committed, dedup, journal, positions, losses, guard,
                   budget, strategy, up, history>>

\* One candle of _process_scheduler_tick, before the tick's newest.
CommitOlder ==
    /\ up /\ Len(work) > 1
    /\ AdvanceLive(Head(work))
    /\ Act(Head(work), TRUE, FALSE, FALSE, 0)
    /\ committed' = Head(work)
    /\ work' = Tail(work)
    /\ UNCHANGED <<setup, now, handed, queue, journal, budget, up>>

\* The newest candle; _prune_dedup, _reconcile_positions and the flush end the item.
CommitNewest ==
    /\ up /\ Len(work) = 1
    /\ committed' = Head(work)
    /\ work' = <<>>
    /\ AdvanceLive(Head(work))
    /\ Act(Head(work), TRUE, TRUE, TRUE, Head(work) - setup.keep)
    /\ Flushed
    /\ UNCHANGED <<setup, now, handed, queue, budget, up>>

\* The item raises: in the strategy's indicators or its signals, before the candle is
\* committed but with its row in the frame, or after it was acted on.  The rest of the item
\* is dropped, what was done is flushed.
ItemFails ==
    /\ up /\ work /= <<>>
    /\ budget.failures > 0
    /\ budget' = [budget EXCEPT !.failures = @ - 1]
    /\ work' = <<>>
    /\ \/ /\ frame' \in {AppendRow(frame, Head(work)), Advanced(Head(work))}
          /\ UNCHANGED <<given, committed, dedup, positions, losses, guard, history>>
       \/ /\ AdvanceLive(Head(work))
          /\ committed' = Head(work)
          /\ Act(Head(work), TRUE, Len(work) = 1, FALSE, 0)
    /\ Flushed
    /\ UNCHANGED <<setup, now, handed, queue, up>>

\* A candle whose commit failed has its row already: the strategy is not asked.
ProcessForming ==
    /\ Ready /\ Item.kind = "forming"
    /\ queue' = Left
    /\ LET new == Item.from > Last(frame.rows)
       IN  IF Item.from <= committed
           THEN UNCHANGED <<strategy, dedup, positions, losses, guard, history>>
           ELSE /\ IF new THEN EvaluateForming(Item.from) ELSE UNCHANGED strategy
                /\ Act(Item.from, new, TRUE, FALSE, 0)
    /\ Flushed
    /\ UNCHANGED <<setup, now, handed, work, committed, budget, up>>

\* A user-data fill or a reconcile: the venue may have closed positions.
ProcessReport ==
    /\ Ready /\ Item.kind = "report"
    /\ queue' = Left
    /\ \E gone \in 0..positions, each \in 0..1 :
           positions' = positions - gone /\ losses' = Booked(losses, gone, each)
    /\ UNCHANGED dedup /\ Flushed
    /\ UNCHANGED <<setup, now, handed, work, committed, guard, budget, strategy, up, history>>

-----------------------------------------------------------------------------
(* The producers and the world *)

Put(item) ==
    /\ up /\ Len(queue) < setup.backlog
    /\ queue' = Append(queue, item)
    /\ UNCHANGED <<setup, now, work, committed, dedup, journal, positions, losses, guard,
                   budget, strategy, up, history>>

\* _pump_scheduler: the closed candles in order, several after a gap.
PutCandles == \E c \in (handed + 1)..(now - 1) : Put(Candles(handed + 1, c)) /\ handed' = c

\* _on_forming, _on_tick: a row of the forming candle, or a late one of the last.
PutForming ==
    /\ setup.realtime
    /\ \E c \in {now, IF setup.lateRows THEN now - 1 ELSE now} : Put(Forming(c))
    /\ UNCHANGED handed

\* _on_user_data, _pump_reconcile; without a position they change nothing.
PutReport == positions > 0 /\ Put(Report) /\ UNCHANGED handed

Advance ==
    /\ now < setup.last
    /\ now' = now + 1
    /\ UNCHANGED <<setup, handed, queue, work, committed, dedup, journal, positions, losses,
                   guard, budget, strategy, up, history>>

\* The session ends between two items: what is queued and the session's memory are gone.
\* on_stop = "close_all" closes what the venue lets it close.
Stop ==
    /\ up /\ work = <<>>
    /\ budget.restarts > 0
    /\ budget' = [budget EXCEPT !.restarts = @ - 1]
    /\ up' = FALSE
    /\ positions' \in 0..positions
    /\ queue' = <<>>
    /\ acted' = {} /\ exitActed' = {} /\ day' = NoDay /\ tripped' = FALSE
    /\ losses' = [d \in Days |-> 0]
    /\ UNCHANGED <<setup, now, handed, work, committed, journal, strategy, history>>

\* Variant: the dedup sets start empty.
StartForgets ==
    /\ ~up
    /\ up' = TRUE
    /\ committed' = now - 1 /\ handed' = now - 1
    /\ frame' = SeedFrame /\ given' = frame'
    /\ \E gone \in 0..positions, each \in 0..1 :
           positions' = positions - gone /\ losses' = Booked(losses, gone, each)
    /\ UNCHANGED dedup /\ Flushed
    /\ UNCHANGED <<setup, now, queue, work, guard, budget, history>>

\* seed and start: the newest closed candle is history, the journal gives the dedup, and
\* reconcile_startup finds what closed meanwhile.
Start ==
    /\ ~up
    /\ up' = TRUE
    /\ committed' = now - 1 /\ handed' = now - 1
    /\ frame' = SeedFrame /\ given' = frame'
    /\ \E gone \in 0..positions, each \in 0..1 :
           positions' = positions - gone /\ losses' = Booked(losses, gone, each)
    /\ acted' = journal.acted /\ exitActed' = journal.exitActed /\ Flushed
    /\ UNCHANGED <<setup, now, queue, work, guard, budget, history>>

-----------------------------------------------------------------------------
Init ==
    /\ setup \in Setups
    /\ now = 1 /\ handed = 0 /\ committed = 0
    /\ queue = <<>> /\ work = <<>>
    /\ acted = {} /\ exitActed = {} /\ journal = [acted |-> {}, exitActed |-> {}]
    /\ positions = 0 /\ losses = [d \in Days |-> 0]
    /\ day = NoDay /\ tripped = FALSE
    /\ budget = [restarts |-> setup.restarts, failures |-> setup.failures]
    /\ frame = SeedFrame /\ given = frame
    /\ up = TRUE
    /\ attempts = <<>> /\ hit = {}

Consume == TakeCandles \/ CommitOlder \/ CommitNewest \/ ProcessForming \/ ProcessReport

Next ==
    \/ Consume \/ ItemFails
    \/ PutCandles \/ PutForming \/ PutReport
    \/ Advance \/ Stop \/ Start

Spec == Init /\ [][Next]_vars

-----------------------------------------------------------------------------
(* Properties *)

\* "Once per (pair, candle, direction)" (_act_on_signals): over the forming rows of a
\* candle, its close and restarts, no entry is attempted twice.
ActsOnce == \A i, j \in DOMAIN attempts : attempts[i] = attempts[j] => i = j

\* "Entries act only on the tick's newest candle" (_process_scheduler_tick): no entry is
\* attempted for a candle when a later one is committed or came with it.
EntersOnNewest ==
    \A k \in (Len(attempts) + 1)..Len(attempts') :
        /\ attempts'[k][1] >= committed'
        /\ \A j \in DOMAIN work : attempts'[k][1] >= work[j]

\* The scheduler is the only committer, and every candle it hands over is committed, in
\* order (run_loop, _next_item): unless an item raised, no candle is passed over.
CommitsEveryCandle ==
    up /\ up' /\ budget.failures = setup.failures => committed' \in {committed, committed + 1}

\* "No new entries until the next UTC day" (_DailyLossGuard), where only closed candles
\* are evaluated and nothing restarted (the guard lives in memory): a candle of a day on
\* which the limit was hit enters nothing.
BlockedForTheDay ==
    ~setup.realtime /\ budget.restarts = setup.restarts =>
        \A k \in (Len(attempts) + 1)..Len(attempts') : Day(attempts'[k][1]) \notin hit

\* What a step of the worker does with the candles it was handed: the three together.
CandlesInTurn == [][EntersOnNewest /\ CommitsEveryCandle /\ BlockedForTheDay]_vars

\* "Exact for windowed indicators whose lookback" fits the window (_incremental.py), and
\* forming rows never touch "committed strategy state": what the strategy was last asked
\* on is what a run over the same rows gives.  A candle that failed costs the window a
\* row, and a hook's own state for good.
SameAsRerun ==
    LET failed == setup.failures - budget.failures
    IN  setup.look + failed <= setup.window /\ (setup.hook => failed = 0)
        => given.cells = Whole(given.rows, setup.look, setup.ahead)
=============================================================================
