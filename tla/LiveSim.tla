------------------------------ MODULE LiveSim ------------------------------
(***************************************************************************)
(* LiveSimulation (simulate/_live.py): one closed candle as a step from a  *)
(* simulation to the next one, with the events it emits and the calls it   *)
(* makes on its chart; and the _EventBridge of run_live                    *)
(* (trader/_run_live.py), which turns the events into those of the trader. *)
(*                                                                         *)
(* A step runs under the simulation's lock.  What a candle does to a       *)
(* position (trailing, risk-free jump, ladder levels, stop) is any outcome *)
(* that Stepper can produce; stops are numbered in the direction of the    *)
(* trade.  Sizes and prices are left out, indicators too.                  *)
(***************************************************************************)
EXTENDS LiveChart, Folds

VARIABLES
    sim,    \* the LiveSimulation; made: history, every slice
    bridge  \* the _EventBridge's memory; told: history, each trade as its events tell it

simVars == <<sim, bridge>>

Own == "sim"
LiveId(owner, t) == <<owner, "live", t>>
BoxId(owner, t) == <<owner, "box", t>>
Live(stop) == [v |-> stop, end |-> Never]
Box(slices, end) == [v |-> slices, end |-> end]

-----------------------------------------------------------------------------
(* What a candle does to a position: SimulationStepper.step *)

Entry == 1   \* the stop at break-even; the initial stop is 0
Position(t, size) ==
    [id |-> t, stop |-> 0, noted |-> 0, moves |-> 0, trail |-> 0, level |-> 0, free |-> FALSE, left |-> size]
Find(open, t) == CHOOSE pos \in ToSet(open) : pos.id = t
Ids(open) == {pos.id : pos \in ToSet(open)}

\* A move kept in sl_history
Recorded(pos, stop) == [pos EXCEPT !.stop = stop, !.noted = stop, !.moves = @ + 1]

Laddered == setup.parts /= <<>>

\* check_risk_free: once, wherever the stop is; not kept in sl_history
Jumped(pos) ==
    IF setup.frees /\ ~Laddered /\ ~pos.free
    THEN {pos, [pos EXCEPT !.stop = Entry, !.free = TRUE]} ELSE {pos}

\* update_trailing_sl: the peak, and with it the trailing stop, never goes back.
Trailed(pos) ==
    IF ~setup.trails THEN {pos}
    ELSE {LET up == [pos EXCEPT !.trail = t] IN IF t > pos.stop THEN Recorded(up, t) ELSE up :
             t \in pos.trail..(IF pos.trail < setup.peak THEN pos.trail + 1 ELSE pos.trail)}

\* handle_tp_level_hit for the next k levels; the slices that they close.
Part(level) == setup.parts[level]
Levels(pos) == Len(setup.parts) - pos.level
Climb(out) ==
    LET pos == out.pos
        cut == IF Part(pos.level + 1) > pos.left THEN pos.left ELSE Part(pos.level + 1)
    IN  IF pos.left = 0 THEN out
        ELSE [pos |-> [Recorded(pos, Entry + pos.level) EXCEPT !.level = @ + 1, !.left = @ - cut],
              slices |-> out.slices + (IF cut > 0 THEN 1 ELSE 0)]
Climbed(pos, k) == FoldLeft(LAMBDA out, level : Climb(out), [pos |-> pos, slices |-> 0], [i \in 1..k |-> i])

Outcomes(pos) ==
    LET held == {Climbed(p, k) :
                    p \in UNION {Trailed(q) : q \in Jumped(pos)}, k \in 0..Levels(pos)}
        hit == {[pos |-> [o.pos EXCEPT !.left = 0], slices |-> o.slices + 1] : o \in {h \in held : h.pos.left > 0}}
    IN  held \cup hit

OutcomesOf(open) ==
    {f \in [DOMAIN open -> UNION {Outcomes(open[i]) : i \in DOMAIN open}] : \A i \in DOMAIN open : f[i] \in Outcomes(open[i])}

-----------------------------------------------------------------------------
(* _step_closed: out[i] is what the candle did to the i-th open position *)

Slices(out, ts) == FoldLeft(LAMBDA all, o : all \o [n \in 1..o.slices |-> [id |-> o.pos.id, end |-> ts]], <<>>, out)
Closing(out) == SelectSeq(out, LAMBDA o : o.pos.left = 0)
Kept(out) == [i \in DOMAIN SelectSeq(out, LAMBDA o : o.pos.left > 0) |-> SelectSeq(out, LAMBDA o : o.pos.left > 0)[i].pos]
Entered(opens) == [i \in 1..opens |-> Position(sim.next + i - 1, setup.size)]

SlicesOf(s, t) == Cardinality({i \in DOMAIN s : s[i].id = t})

\* _advance_window
WindowStart(ts) == IF setup.limit = 0 \/ ts <= setup.limit THEN 0 ELSE ts - setup.limit + 1
InWindow(s, ts) == SelectSeq(s, LAMBDA x : x.end >= WindowStart(ts))
Rows(rows, ts) == SelectSeq(Append(rows, ts), LAMBDA row : row >= WindowStart(ts))

Stepped(ts, out, opens) ==
    LET closed == Slices(out, ts)
        slices == sim.slices \o closed
        gone == {o.pos.id : o \in ToSet(Closing(out))}
        open == Kept(out) \o Entered(opens)
    IN  [sim EXCEPT !.last = ts, !.open = open, !.next = @ + opens,
                    !.slices = SelectSeq(slices, LAMBDA x : x.id \notin gone),
                    !.seen = [t \in Ids(open) |-> Find(open, t).moves],
                    !.closed = InWindow(@ \o closed, ts), !.rows = Rows(@, ts),
                    !.made = @ \o closed]

\* Its last_report
SimReport(s) == [closed |-> s.closed, open |-> Ids(s.open), rows |-> s.rows]

Moved(out) == SelectSeq(Kept(out), LAMBDA p : p.moves > sim.seen[p.id])

ClosedEvent(open, x) ==
    IF x.id \in Ids(open) THEN [type |-> "tp_level", id |-> x.id, stop |-> Find(open, x.id).stop]
    ELSE [type |-> "close", id |-> x.id, stop |-> 0]

Events(ts, out, opens) ==
    [i \in DOMAIN Slices(out, ts) |-> ClosedEvent(Kept(out), Slices(out, ts)[i])]
        \o [i \in 1..opens |-> [type |-> "open", id |-> sim.next + i - 1, stop |-> 0]]
        \o [i \in DOMAIN Moved(out) |-> [type |-> "sl_move", id |-> Moved(out)[i].id, stop |-> Moved(out)[i].noted]]

-----------------------------------------------------------------------------
(* The calls on the chart, each drawing followed by its refresh *)

Call(op, id, d) == [op |-> op, id |-> id, d |-> d]
Refresh == Call("refresh", <<"", "", 0>>, Nothing)
Calls(op, id, d) == <<Call(op, id, d), Refresh>>

\* _finalize_trade_drawing
Finalized(owner, t, slices, end) ==
    Calls("remove", LiveId(owner, t), Nothing)
        \o (IF slices = 0 THEN <<>> ELSE Calls("add", BoxId(owner, t), Box(slices, end)))

SimCalls(ts, out, opens) ==
    LET all == sim.slices \o Slices(out, ts)
        gone == Closing(out)
    IN  <<Call("bar", BarId(Bar(ts, TRUE)), Nothing)>>
            \o FoldLeft(LAMBDA c, o : c \o Finalized(Own, o.pos.id, SlicesOf(all, o.pos.id), ts), <<>>, gone)
            \o FoldLeft(LAMBDA c, p : c \o Calls("add", LiveId(Own, p.id), Live(p.stop)), <<>>, Entered(opens))
            \o FoldLeft(LAMBDA c, p : c \o Calls("update", LiveId(Own, p.id), Live(p.noted)), <<>>, Moved(out))

-----------------------------------------------------------------------------
(* _EventBridge: one event, then the report that ends the candle *)

Untold == [stop |-> 0, slices |-> 0, closes |-> 0, misnamed |-> FALSE]
Forget(f, t) == Restrict(f, DOMAIN f \ {t})
Is(f, t, v) == t \in DOMAIN f /\ f[t] = v

OnOpen(b, e) ==
    [b EXCEPT !.free = With(@, e.id, FALSE), !.level = With(@, e.id, 0),
              !.told = With(@, e.id, [Untold EXCEPT !.stop = e.stop])]

\* p: the position after the step
OnTpLevel(b, e, p, ts) ==
    [b EXCEPT !.level = With(@, e.id, p.level), !.marked = With(@, e.id, ts),
              !.told[e.id] = [@ EXCEPT !.stop = p.stop, !.slices = @ + 1]]

OnClose(b, e) ==
    [b EXCEPT !.free = Forget(@, e.id), !.level = Forget(@, e.id), !.marked = Forget(@, e.id),
              !.told[e.id] = [@ EXCEPT !.slices = @ + 1, !.closes = @ + 1]]

\* variant: a later move of a trade that had a partial close is taken for the ladder's
OnSlMoveMarked(b, e, p, ts) ==
    IF e.id \in DOMAIN b.marked THEN b ELSE [b EXCEPT !.told[e.id].stop = e.stop]

\* A ladder move with a partial close rode the TpLevelEvent.
OnSlMove(b, e, p, ts) ==
    LET known == [b EXCEPT !.level = With(@, e.id, p.level), !.marked = Forget(@, e.id)]
        cause == IF p.level /= b.level[e.id] THEN "ladder" ELSE "trailing"
        truly == IF p.level /= Find(sim.open, e.id).level THEN "ladder" ELSE "trailing"
    IN  IF Is(b.marked, e.id, ts) THEN known
        ELSE [known EXCEPT !.told[e.id] = [@ EXCEPT !.stop = e.stop, !.misnamed = @ \/ cause /= truly]]

OnEvent(b, e, open, ts) ==
    CASE e.type = "open" -> OnOpen(b, e)
      [] e.type = "close" -> OnClose(b, e)
      [] e.type = "tp_level" -> OnTpLevel(b, e, Find(open, e.id), ts)
      [] e.type = "sl_move" -> OnSlMove(b, e, Find(open, e.id), ts)

\* Risk-free jumps come with no event of the simulation.
OnReport(b, open) ==
    IF ~setup.frees \/ Laddered THEN b
    ELSE FoldLeft(LAMBDA c, p : IF p.free /\ ~Is(c.free, p.id, TRUE)
                                THEN [c EXCEPT !.free = With(@, p.id, TRUE), !.told[p.id].stop = p.stop]
                                ELSE c, b, open)

Bridged(ts, out, opens) ==
    LET open == Stepped(ts, out, opens).open
    IN  OnReport(FoldLeft(LAMBDA b, e : OnEvent(b, e, open, ts), bridge, Events(ts, out, opens)), open)

\* seed: it ends with candle 1 and leaves k positions open; prime remembers them.
Seeded(k) ==
    LET open == [i \in 1..k |-> Position(i, setup.size)]
    IN  [last |-> 1, open |-> open, next |-> k + 1, slices |-> <<>>, seen |-> [t \in 1..k |-> 0],
         closed |-> <<>>, rows |-> <<1>>, made |-> <<>>]

Primed(open) ==
    [free |-> [t \in Ids(open) |-> Find(open, t).free], level |-> [t \in Ids(open) |-> Find(open, t).level],
     marked |-> <<>>, told |-> [t \in Ids(open) |-> [Untold EXCEPT !.stop = Find(open, t).stop]]]
=============================================================================
