----------------------------- MODULE LiveChart -----------------------------
(***************************************************************************)
(* A live chart (visual/chart.py), its server (visual/server.py) and the   *)
(* browser tabs that show it (visual/static/index.html).                   *)
(*                                                                         *)
(* One thread at a time calls the chart.  A call changes the chart, hands  *)
(* its message to the server's loop, and refreshes the cached init that a  *)
(* new tab is given; the loop broadcasts and accepts tabs on a thread of   *)
(* its own.  A bar is <<time, final>>, a drawing [v, end]: v the stop of a *)
(* live position, the slices in a box.  Indicators, the other timeframes,  *)
(* and drawings that the user edits or deletes in a tab are left out.      *)
(***************************************************************************)
EXTENDS Integers, Sequences, SequencesExt, Functions, FiniteSets

CONSTANT Setups   \* what happens, chosen at the start
VARIABLES
    setup,
    bars,      \* _bars: also the bars of the cached init, the same list
    drawings,  \* _drawings
    cached,    \* the drawings of the cached init
    loop,      \* messages the server's loop has yet to broadcast
    tabs       \* the browser tabs

chartVars == <<bars, drawings, cached, loop, tabs>>

Tabs == 1..setup.tabs
Never == -1   \* the end of a drawing that is never trimmed: a live position
Nothing == [v |-> 0, end |-> Never]
Bar(t, final) == <<t, final>>

-----------------------------------------------------------------------------
(* The rolling window, the same on both sides *)

Put(bs, bar) ==
    IF bs /= <<>> /\ Last(bs)[1] = bar[1] THEN [bs EXCEPT ![Len(bs)] = bar] ELSE Append(bs, bar)

NewestOf(bs, n) == IF n = 0 \/ Len(bs) <= n THEN bs ELSE SubSeq(bs, Len(bs) - n + 1, Len(bs))
Trim(bs) == NewestOf(bs, setup.limit)

\* _drawing_expired
Expired(d, cutoff) == d.end /= Never /\ d.end < cutoff
Unexpired(ds, cutoff) == Restrict(ds, {id \in DOMAIN ds : ~Expired(ds[id], cutoff)})

-----------------------------------------------------------------------------
(* The chart: calls of its thread *)

Send(op, id, d) == loop' = Append(loop, [op |-> op, id |-> id, d |-> d])
BarId(bar) == <<"bar", IF bar[2] THEN "final" ELSE "forming", bar[1]>>
BarOf(id) == Bar(id[3], id[2] = "final")
With(ds, id, d) == [x \in DOMAIN ds \cup {id} |-> IF x = id THEN d ELSE ds[x]]

Stream(bar) ==
    /\ bars' = Trim(Put(bars, bar))
    /\ Send("stream", BarId(bar), Nothing)
    /\ IF Len(Put(bars, bar)) > Len(bars')
       THEN /\ drawings' = Unexpired(drawings, bars'[1][1])
            /\ cached' = drawings'
       ELSE UNCHANGED <<drawings, cached>>
    /\ UNCHANGED tabs

AddDrawing(id, d) ==
    /\ drawings' = With(drawings, id, d)
    /\ Send("add_drawing", id, d)
    /\ UNCHANGED <<bars, cached, tabs>>

\* An unknown id is a silent no-op.
UpdateDrawing(id, d) ==
    /\ IF id \in DOMAIN drawings
       THEN drawings' = With(drawings, id, d) /\ Send("update_drawing", id, d)
       ELSE UNCHANGED <<drawings, loop>>
    /\ UNCHANGED <<bars, cached, tabs>>

RemoveDrawing(id) ==
    /\ drawings' = Restrict(drawings, DOMAIN drawings \ {id})
    /\ Send("remove_drawing", id, Nothing)
    /\ UNCHANGED <<bars, cached, tabs>>

RefreshInitCache == cached' = drawings /\ UNCHANGED <<bars, drawings, loop, tabs>>

-----------------------------------------------------------------------------
(* The server's loop and the tabs *)

Closed(visits) == [open |-> FALSE, visits |-> visits, bars |-> <<>>, drawings |-> <<>>, missed |-> {}, late |-> FALSE]

\* mainSeries.update throws on a bar older than the last one: the message is dropped.
TabStream(tab, bar) ==
    IF tab.bars /= <<>> /\ bar[1] < Last(tab.bars)[1] THEN tab
    ELSE LET all == Put(tab.bars, bar)
             kept == Trim(all)
         IN  [tab EXCEPT !.bars = kept,
                         !.drawings = IF Len(all) > Len(kept) THEN Unexpired(@, kept[1][1]) ELSE @]

TabAfter(tab, m) ==
    CASE m.op = "stream" -> TabStream(tab, BarOf(m.id))
      [] m.op = "add_drawing" -> [tab EXCEPT !.drawings = With(@, m.id, m.d)]
      [] m.op = "update_drawing" -> [tab EXCEPT !.drawings = IF m.id \in DOMAIN @ THEN With(@, m.id, m.d) ELSE @]
      [] m.op = "remove_drawing" -> [tab EXCEPT !.drawings = Restrict(@, DOMAIN @ \ {m.id})]

Broadcast ==
    /\ loop /= <<>>
    /\ tabs' = [p \in Tabs |-> IF tabs[p].open THEN TabAfter(tabs[p], Head(loop)) ELSE tabs[p]]
    /\ loop' = Tail(loop)
    /\ UNCHANGED <<bars, drawings, cached>>

Differ(a, b) == {id \in DOMAIN a \cup DOMAIN b : id \in DOMAIN a \cap DOMAIN b => a[id] /= b[id]}

\* A tab opens or comes back.  missed: the drawing whose message was broadcast just before
\* and that the cached init, which is refreshed after the send, does not have yet: the tab
\* is never told of that change.  late: with messages on their way that are older than
\* what it is given.
Connect(p) ==
    /\ ~tabs[p].open
    /\ tabs[p].visits < setup.visits
    /\ tabs' = [tabs EXCEPT ![p] = [open |-> TRUE, visits |-> @.visits + 1, bars |-> bars, drawings |-> cached,
                                    missed |-> IF loop = <<>> THEN Differ(cached, drawings) ELSE {}, late |-> loop /= <<>>]]
    /\ UNCHANGED <<bars, drawings, cached, loop>>

Disconnect(p) ==
    /\ tabs[p].open
    /\ tabs' = [tabs EXCEPT ![p] = Closed(@.visits)]
    /\ UNCHANGED <<bars, drawings, cached, loop>>

ServerStep == Broadcast \/ \E p \in Tabs : Connect(p) \/ Disconnect(p)

\* set_data and show: the chart starts with bars and drawings, no tab yet.
ChartInit(bs, ds) ==
    /\ bars = Trim(bs)
    /\ drawings = ds
    /\ cached = ds
    /\ loop = <<>>
    /\ tabs = [p \in Tabs |-> Closed(0)]
=============================================================================
