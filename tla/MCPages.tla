------------------------------ MODULE MCPages -------------------------------
(***************************************************************************)
(* The browser pages, one run: the live display of a pair with its paper   *)
(* session, and charts with their timeframes and replay.  They share no    *)
(* state: `part` says which of them a behaviour is about, and the          *)
(* variables of the other stay as they are.                                *)
(***************************************************************************)
EXTENDS TimeframeChart

CONSTANT Areas \* what to check; "ahead" is the live display with a forming feed in front

\* A real trade on a chart with a window of two candles.
RealOnly == [kind |-> "real", candles |-> 3, trades |-> 1, moves |-> 1, carried |-> 0, opens |-> 0,
             limit |-> 2, tabs |-> 1, visits |-> 1, busy |-> FALSE, ahead |-> FALSE,
             frees |-> FALSE, trails |-> FALSE, peak |-> 0, parts |-> <<>>, size |-> 2]

\* Two trades, the first one carried over the start, on two tabs.
Carried == [RealOnly EXCEPT !.trades = 2, !.carried = 1, !.candles = 1, !.limit = 0, !.moves = 0, !.tabs = 2]

\* A simulation with a ladder beside a real trade.
Both == [RealOnly EXCEPT !.kind = "both", !.opens = 1, !.moves = 0, !.parts = <<1, 1>>]

\* The simulation alone, with a risk-free jump and a trailing stop; the trading is busy.
SimOnly == [RealOnly EXCEPT !.kind = "sim", !.trades = 0, !.carried = 1, !.opens = 1, !.busy = TRUE,
                            !.frees = TRUE, !.trails = TRUE, !.peak = 2]

\* Paper: a position that trails and jumps, on a tab that comes back.
Paged == [SimOnly EXCEPT !.kind = "paper", !.busy = FALSE, !.candles = 4, !.opens = 2, !.tabs = 1, !.visits = 2, !.peak = 1, !.frees = FALSE]

\* Paper without a page: positions that trail and jump.
Trailing == [Paged EXCEPT !.candles = 5, !.tabs = 0, !.peak = 3, !.frees = TRUE]

\* Paper without a page: a ladder whose second level closes nothing.
Ladder == [Trailing EXCEPT !.frees = FALSE, !.trails = FALSE, !.parts = <<1, 0, 1>>, !.limit = 3]

PagesSetups == {RealOnly, Carried, Both, SimOnly, Paged, Trailing, Ladder}

\* Forming rows of the next candle arrive before the scheduler commits the last one.
AheadSetups == {[RealOnly EXCEPT !.trades = 0, !.moves = 2, !.ahead = TRUE]}

\* Replay: a chart of its own, opened with rows that begin and end inside a candle, streamed
\* into and switched between timeframes; a page of two charts of different source timeframes;
\* and one whose holes hide its timeframe.
From(first, last, length) == [i \in 1..((last - first) \div length + 1) |-> [t |-> first + (i - 1) * length, v |-> 1]]
Points(rows, lead) == [i \in DOMAIN rows |-> [t |-> rows[i].t + lead, of |-> rows[i].t]]
Line(need, data) == [need |-> need, data |-> data, full |-> NoPoints, approx |-> FALSE]

ChartAt(rows, length, display, limit, lead) ==
    Rebuilt(Loaded(rows, length, limit, <<Line(2, Points(rows, 0)), Line(Given, Points(rows, lead))>>), display)

Alones == {[charts |-> <<ChartAt(From(3, 8, 1), 1, tf, NoLimit, 0)>>, page |-> FALSE, feed |-> 1, acts |-> 4] : tf \in {Source, 2}}
          \cup {[charts |-> <<ChartAt(From(3, 8, 1), 1, 2, 3, 2)>>, page |-> FALSE, feed |-> 2, acts |-> 3]}
Together == {[charts |-> <<ChartAt(From(3, 6, 1), 1, 2, NoLimit, 0), ChartAt(From(2, 6, 2), 2, Source, NoLimit, 0)>>,
              page |-> TRUE, feed |-> 0, acts |-> 4]}
Holed == {[charts |-> <<Loaded(From(2, 8, 3), 1, NoLimit, <<>>)>>, page |-> FALSE, feed |-> 0, acts |-> 2]}
ReplaySetups == Alones \cup Together \cup Holed

VARIABLES
    part, setup, tabs,
    bars, drawings, cached, loop, sim, bridge, now, book, ledger, moves, queue, parked, thread, held, todo,
    busy, phase, view, page, combined,
    charts, up, down, toFrame, toShell, shell, feed, acts, refit

liveVars == <<bars, drawings, cached, loop, sim, bridge, now, book, ledger, moves, queue, parked, thread, held,
              todo, busy, phase, view, page, combined>>
replayVars == <<charts, up, down, toFrame, toShell, shell, feed, acts, refit>>
vars == <<part, setup, tabs, liveVars, replayVars>>

Live == INSTANCE LivePages WITH Setups <- PagesSetups \cup AheadSetups
Replay == INSTANCE ReplayPage WITH Setups <- ReplaySetups

ASSUME AreasAssumption == Areas \subseteq {"live", "ahead", "replay"}

NoLive == /\ bars = 0 /\ drawings = 0 /\ cached = 0 /\ loop = 0 /\ sim = 0 /\ bridge = 0 /\ now = 0 /\ book = 0
          /\ ledger = 0 /\ moves = 0 /\ queue = 0 /\ parked = 0 /\ thread = 0 /\ held = 0 /\ todo = 0 /\ busy = 0
          /\ phase = 0 /\ view = 0 /\ page = 0 /\ combined = 0
NoReplay == /\ charts = 0 /\ up = 0 /\ down = 0 /\ toFrame = 0 /\ toShell = 0 /\ shell = 0 /\ feed = 0
            /\ acts = 0 /\ refit = 0

Init == /\ part \in Areas
        /\ \/ part = "live" /\ setup \in PagesSetups /\ Live!Init /\ NoReplay
           \/ part = "ahead" /\ setup \in AheadSetups /\ Live!Init /\ NoReplay
           \/ part = "replay" /\ Replay!Init /\ NoLive

Next == \/ part # "replay" /\ Live!Next /\ UNCHANGED <<part, replayVars>>
        \/ part = "replay" /\ Replay!Next /\ UNCHANGED <<part, liveVars>>

Spec == Init /\ [][Next]_vars

-----------------------------------------------------------------------------
(* Properties: those of the modules, each where its part is *)

\* At rest every tab shows the candles and trades that were traded, and the reports agree.
AsTraded == part # "replay" => Live!AsTraded

\* The events of a paper session, replayed, give each position as the simulation has it.
Followed == part # "replay" => Live!Followed

\* update_live_position's text: a risk-free jump is drawn as well.
StopsDrawn == part # "replay" => Live!StopsDrawn

\* The comment in Chart.stream: what a new tab is given is what an open page shows.
InitReplay == part # "replay" => Live!InitReplay

\* Whatever was loaded, streamed, revised and shown since, a chart at a longer timeframe shows
\* its source rows; after a replay every tab shows the candles of its chart; and once no
\* message is under way every frame of the page is where the shell's replay is.
TimeframesKeepData ==
    part = "replay" => Replay!TimeframesKeepData /\ Replay!LeavingRestores /\ Replay!PageTogether

\* A replay that moves on shows what was known at its cursor and nothing later.
ReplayForgets == [][part = "replay" => Replay!MovesShowThePast]_vars
=============================================================================
