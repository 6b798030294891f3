------------------------------ MODULE MetaPair ------------------------------
(***************************************************************************)
(* One live MetaTrader pair: _MetaTraderVenue and the ExecutionEngine      *)
(* paths that reach it (trader/_execution.py), the position poll           *)
(* (trader/_trader.py), the restart (trader/_state.py), and the bridge the *)
(* calls travel over (broker/metatrader/_bridge_client.py and              *)
(* bridge_server.py).                                                      *)
(*                                                                         *)
(* A position is a ticket with a volume and its own stop, so an entry is   *)
(* never naked; but the bridge sends a request again when the connection   *)
(* fails before its reply, and the terminal may have executed the first.   *)
(*                                                                         *)
(* As in FuturesPair a queue item is a list of tasks of one call each, and *)
(* prices are rungs: the entry stop is rung -1, the k-th level is k.       *)
(***************************************************************************)
EXTENDS Integers, Sequences, FiniteSets, Functions

CONSTANT Setups \* the scenarios to explore

Fault == {"refuse", "resend", "lose", "late", "manual", "strip", "crash"}
Setup == [size      : Nat \ {0},     \* of every entry
          fractions : Seq(Nat),      \* multi_rr: the size each level closes; <<>>: another tp_mode
          free      : BOOLEAN,       \* risk_free_enabled
          top       : Int,           \* bound: stops are trailed up to this rung; -1: not at all
          entries   : Nat,           \* bound: entries attempted
          faults    : [Fault -> Nat]]

VARIABLES
    setup,    \* the scenario, fixed at the start
    venue,    \* the terminal's positions, by ticket
    late,     \* requests the terminal will execute after their caller gave up
    mode,     \* "up", "down", "starting"
    trades,   \* engine._trades: trade id -> LiveTrade
    journal,  \* the trades of the last journal flush
    snap,     \* the positions as a restart read them
    todo,     \* what the worker has left to do for the current item
    entries,  \* entries attempted so far
    budget,   \* faults still to come
    forgotten \* tickets that a start which failed has left out of the journal

vars == <<setup, venue, late, mode, trades, journal, snap, todo, entries, budget, forgotten>>

Size == setup.size
Fractions == setup.fractions
NoStop == -2                             \* a position without a stop
Tracked == DOMAIN trades
Without(t) == Restrict(trades, Tracked \ {t})
With(t, r) == [trades EXCEPT ![t] = r]
Also(t, r) == [u \in Tracked \cup {t} |-> IF u = t THEN r ELSE trades[u]]
Lower(a, b) == IF a <= b THEN a ELSE b

Task(op, t, arg) == [t |-> t, op |-> op, arg |-> arg]
Stage(op) == Task(op, 0, 0)
Ascending(S) == [k \in 1..Cardinality(S) |-> CHOOSE i \in S : Cardinality({j \in S : j <= i}) = k]
PerTrade(op, S) == [k \in 1..Cardinality(S) |-> Task(op, Ascending(S)[k], 0)]
Doing(op) == todo /= <<>> /\ Head(todo).op = op
It == Head(todo).t
Arg == Head(todo).arg
Rest == Tail(todo)

-----------------------------------------------------------------------------
(* The terminal and the bridge *)

OpenRequest(t) == [kind |-> "open", id |-> t, n |-> Size]
CloseRequest(ticket, qty) == [kind |-> "close", id |-> ticket, n |-> qty]
ModifyRequest(ticket, rung) == [kind |-> "modify", id |-> ticket, n |-> rung]

Can(v, q) == q.kind /= "open" => v[q.id].qty >= (IF q.kind = "close" THEN q.n ELSE 1)

\* MT5Ops.place_order, close_position, modify_position
Do(v, q) ==
    IF q.kind = "open" THEN Append(v, [trade |-> q.id, qty |-> q.n, sl |-> -1])
    ELSE IF q.kind = "close" THEN [v EXCEPT ![q.id].qty = @ - q.n]
    ELSE [v EXCEPT ![q.id].sl = q.n]
Try(v, q) == IF Can(v, q) THEN Do(v, q) ELSE v

Spend(what) == budget[what] > 0 /\ budget' = [budget EXCEPT ![what] = @ - 1]

\* BridgeClient.call: a request is executed and answered; refused; executed, its reply
\* lost, and sent again ("one transparent reconnect + retry"); or given up on after the
\* second failure, executed never, once, twice, or only later.  Of what is given up on the
\* caller hears a BrokerError (lost), or, when the second attempt ends in an OSError that
\* is no timeout, something that no handler of the engine expects (escaped).
Call(q, ok, refused, lost, escaped) ==
    \/ Can(venue, q) /\ venue' = Do(venue, q) /\ UNCHANGED <<late, budget>> /\ ok
    \/ /\ IF Can(venue, q) THEN Spend("refuse") ELSE UNCHANGED budget
       /\ UNCHANGED <<venue, late>> /\ refused
    \/ /\ Can(venue, q) /\ Spend("resend") /\ UNCHANGED late
       /\ venue' = Try(Do(venue, q), q)
       /\ IF Can(Do(venue, q), q) THEN ok ELSE refused
    \/ /\ Spend("lose") /\ UNCHANGED late
       /\ venue' \in {venue, Try(venue, q), Try(Try(venue, q), q)}
       /\ lost \/ escaped
    \/ /\ Spend("late") /\ late' = Append(late, q) /\ UNCHANGED venue
       /\ lost \/ escaped

\* A call that only reads: its failure is one the caller handles, or escapes.
Unread(failed, escaped) ==
    /\ UNCHANGED <<venue, late>>
    /\ \/ Spend("refuse") /\ failed
       \/ Spend("lose") /\ (failed \/ escaped)

Goes(trs, tasks) == trades' = trs /\ todo' = tasks /\ UNCHANGED <<setup, mode, forgotten>>
Step(trs, tasks) == Goes(trs, tasks) /\ UNCHANGED journal
Local(trs, tasks) == Step(trs, tasks) /\ UNCHANGED <<venue, late, budget>>

\* run_loop: whatever escapes ends the item, and what was changed so far is journaled.
Aborted == <<Stage("flush")>>

-----------------------------------------------------------------------------
(* Entries: _MetaTraderVenue.open, open_position *)

Enter ==
    /\ Doing("enter")
    /\ \/ Local(trades, Rest) /\ UNCHANGED entries
       \/ /\ entries < setup.entries
          /\ entries' = entries + 1
          /\ Call(OpenRequest(entries + 1),
                  Step(trades, <<Task("ticket", entries + 1, Len(venue'))>> \o Rest),
                  Step(trades, Rest), Step(trades, Rest), Step(trades, Aborted))
    /\ UNCHANGED snap

\* unsure is history: the stop was left where no answer says it stands, by a move that
\* escaped, by a lower one whose answer was lost, or, in the journal, by a lower one after
\* the last flush.
Opened(ticket) == [size |-> Size, hits |-> 0, sl |-> -1, ticket |-> ticket,
                   free |-> FALSE, pending |-> FALSE, unsure |-> FALSE]

\* _find_ticket: the position whose comment is ours, or else the order of the entry.
FindTicket ==
    /\ Doing("ticket")
    /\ LET ours == {i \in DOMAIN venue : venue[i].trade = It /\ venue[i].qty > 0}
           found == IF ours = {} THEN Arg ELSE CHOOSE i \in ours : \A j \in ours : i <= j
       IN  \/ Local(Also(It, Opened(found)), Rest)
           \/ Unread(Step(Also(It, Opened(Arg)), Rest), Step(trades, Aborted))
    /\ UNCHANGED <<snap, entries>>

-----------------------------------------------------------------------------
(* Stops: move_stop is one modify_position *)

Doubted(book, t, rung) ==
    [u \in DOMAIN book |-> IF u = t /\ rung < book[u].sl THEN [book[u] EXCEPT !.unsure = TRUE] ELSE book[u]]

\* ok, failed and kept: the trade as the caller leaves it when the move is made, when it
\* fails, and when the failure escapes.
MoveStop(t, rung, ok, failed, kept, more, less) ==
    /\ Call(ModifyRequest(trades[t].ticket, rung),
            /\ Goes(With(t, [ok EXCEPT !.unsure = FALSE]), more)
            /\ journal' = Doubted(journal, t, rung),
            Step(With(t, failed), less),
            /\ Goes(With(t, [failed EXCEPT !.unsure = @ \/ rung < failed.sl]), less)
            /\ journal' = Doubted(journal, t, rung),
            /\ Goes(With(t, [kept EXCEPT !.unsure = TRUE]), Aborted)
            /\ journal' = Doubted(journal, t, rung))
    /\ UNCHANGED <<snap, entries>>

RetryPending ==
    /\ Doing("retry")
    /\ Local(trades, PerTrade("sync", {t \in Tracked : trades[t].pending}) \o Rest)
    /\ UNCHANGED <<snap, entries>>

SyncStop ==
    /\ Doing("sync")
    /\ LET r == trades[It]
       IN  MoveStop(It, r.sl, [r EXCEPT !.pending = FALSE], r, r, Rest, Rest)

\* B, not for ladders: any of the trades may have earned its break-even stop.
BreakEvens ==
    /\ Doing("free")
    /\ \E S \in SUBSET {t \in Tracked : setup.free /\ Fractions = <<>> /\ ~trades[t].free} :
           Local(trades, PerTrade("free_sl", S) \o Rest)
    /\ UNCHANGED <<snap, entries>>

AtEntry(r) == [r EXCEPT !.sl = 0, !.free = TRUE]

\* The stop goes to the entry price, from where it was trailed to as well.
BreakEven ==
    /\ Doing("free_sl")
    /\ LET r == trades[It]
       IN  IF r.sl = 0 THEN Local(With(It, AtEntry(r)), Rest) /\ UNCHANGED <<snap, entries>>
           ELSE MoveStop(It, 0, AtEntry(r), r, AtEntry(r), Rest, Rest)

\* C: any of the trades, ladders too, may be due a higher trailing stop.
RaiseStops ==
    /\ Doing("raise")
    /\ \E S \in SUBSET {t \in Tracked : trades[t].sl < setup.top} :
           Local(trades, PerTrade("raise_sl", S) \o Rest)
    /\ UNCHANGED <<snap, entries>>

\* Variant: a move that failed is not taken back.
RaiseStopAnyway ==
    /\ Doing("raise_sl")
    /\ LET r == trades[It]
           up == [r EXCEPT !.sl = r.sl + 1]
       IN  MoveStop(It, r.sl + 1, up, up, up, Rest, Rest)

RaiseStop ==
    /\ Doing("raise_sl")
    /\ LET r == trades[It]
           up == [r EXCEPT !.sl = r.sl + 1]
       IN  MoveStop(It, r.sl + 1, up, r, up, Rest, Rest)

-----------------------------------------------------------------------------
(* The ladder: levels are touched by the feed and closed at market *)

CheckLevels ==
    /\ Doing("levels")
    /\ Local(trades, (IF Fractions = <<>> THEN <<>> ELSE PerTrade("level", Tracked)) \o Rest)
    /\ UNCHANGED <<snap, entries>>

LevelDone ==
    /\ Doing("level")
    /\ Local(trades, Rest)
    /\ UNCHANGED <<snap, entries>>

NextLevel(t) == trades[t].hits + 1
CloseSize(t) == Lower(Fractions[NextLevel(t)], trades[t].size)

\* The next level is done with q of the trade closed: the stop is due at the level before.
Advanced(r, q) == [size |-> r.size - q, hits |-> r.hits + 1, sl |-> r.hits,
                   ticket |-> r.ticket, free |-> r.free, pending |-> r.pending, unsure |-> r.unsure]

\* _ladder_advance_only: a refused move takes the advance back.
AdvanceOnly ==
    /\ Doing("level")
    /\ It \in Tracked /\ NextLevel(It) \in DOMAIN Fractions /\ CloseSize(It) = 0
    /\ LET r == trades[It]
       IN  MoveStop(It, r.hits, Advanced(r, 0), r, Advanced(r, 0), todo, Rest)

\* _settle_ladder_fill of a level closed at market.
Settled(t, q, rest) ==
    LET r == trades[t]
    IN  IF q >= r.size THEN Step(Without(t), rest)
        ELSE Step(With(t, Advanced(r, q)),
                  (IF r.hits /= r.sl THEN <<Task("settled", t, 0)>> ELSE <<>>) \o rest)

\* _ladder_market_close: refused, the level is tried again.
MarketClose ==
    /\ Doing("level")
    /\ It \in Tracked /\ NextLevel(It) \in DOMAIN Fractions /\ CloseSize(It) > 0
    /\ Call(CloseRequest(trades[It].ticket, CloseSize(It)),
            Settled(It, CloseSize(It), todo),
            Step(trades, Rest), Step(trades, Rest), Step(trades, Aborted))
    /\ UNCHANGED <<snap, entries>>

\* _ladder_move_venue_sl
SettledStop ==
    /\ Doing("settled")
    /\ LET r == trades[It]
       IN  MoveStop(It, r.sl, r, [r EXCEPT !.pending = TRUE], r, Rest, Rest)

-----------------------------------------------------------------------------
(* Closes: force_close, the position poll *)

Closing(left, done) == Task("closing", 0, [left |-> left, done |-> done])

ForceClose ==
    /\ Doing("exit")
    /\ Local(trades, Rest) \/ Local(trades, <<Closing(Ascending(Tracked), {})>> \o Rest)
    /\ UNCHANGED <<snap, entries>>

\* The trades that were closed are dropped together when the loop is through: what escapes
\* leaves all of them tracked.
CloseTrade ==
    /\ Doing("closing") /\ Arg.left /= <<>>
    /\ LET t == Head(Arg.left)
           next(done) == <<Closing(Tail(Arg.left), done)>> \o Rest
       IN  Call(CloseRequest(trades[t].ticket, trades[t].size),
                Step(trades, next(Arg.done \cup {t})),
                Step(trades, next(Arg.done)), Step(trades, next(Arg.done)), Step(trades, Aborted))
    /\ UNCHANGED <<snap, entries>>

DropClosed ==
    /\ Doing("closing") /\ Arg.left = <<>>
    /\ Local(Restrict(trades, Tracked \ Arg.done), Rest)
    /\ UNCHANGED <<snap, entries>>

Gone(S, p) == {t \in S : p[trades[t].ticket].qty = 0}

\* Variant: only a ticket that is gone is noticed.
ReconcileGone ==
    /\ Doing("reconcile")
    /\ Local([t \in Tracked \ Gone(Tracked, venue) |-> trades[t]], Rest)
    /\ UNCHANGED <<snap, entries>>

\* The trades of S as the positions have them: a ticket that is gone closes its trade, a
\* smaller one shrinks it.
Compared(S) ==
    [t \in Tracked \ Gone(S, venue) |->
        IF t \in S THEN [trades[t] EXCEPT !.size = Lower(trades[t].size, venue[trades[t].ticket].qty)]
        ELSE trades[t]]

\* _reconcile_mt5; the price of a close is read from the history and the ticker, and when
\* that escapes the trades from there on are not compared.
Reconcile ==
    /\ Doing("reconcile")
    /\ \/ Local(Compared(Tracked), Rest)
       \/ Unread(Step(trades, Rest),
                 \E n \in 1..entries + 1 : Step(Compared({t \in Tracked : t < n}), Aborted))
    /\ UNCHANGED <<snap, entries>>

-----------------------------------------------------------------------------
(* Queue items, the journal, the restart *)

Item(tasks) ==
    /\ mode = "up" /\ todo = <<>>
    /\ todo' = tasks
    /\ UNCHANGED <<setup, venue, late, mode, trades, journal, snap, entries, budget, forgotten>>

Candle == Item(<<Stage("retry"), Stage("free"), Stage("raise"), Stage("levels"), Stage("exit"),
                 Stage("enter"), Stage("reconcile"), Stage("flush")>>)
Forming == Fractions /= <<>> /\ Item(<<Stage("levels"), Stage("flush")>>)
PollItem == Tracked /= {} /\ Item(<<Stage("reconcile"), Stage("flush")>>)

Flush ==
    /\ Doing("flush")
    /\ journal' = trades
    /\ mode' = "up"
    /\ todo' = <<>>
    /\ snap' = <<>>
    /\ UNCHANGED <<setup, venue, late, trades, entries, budget, forgotten>>

Crash ==
    /\ mode /= "down"
    /\ Spend("crash")
    /\ mode' = "down"
    /\ trades' = << >> /\ todo' = <<>> /\ snap' = <<>>
    /\ UNCHANGED <<setup, venue, late, journal, entries, forgotten>>

Restart ==
    /\ mode = "down"
    /\ mode' = "starting"
    /\ todo' = <<Stage("read")>>
    /\ UNCHANGED <<setup, venue, late, trades, journal, snap, entries, budget, forgotten>>

\* A start that fails ends the process; its shutdown journals what was adopted so far.
Quit(trs) ==
    /\ mode' = "down" /\ journal' = trs
    /\ trades' = << >> /\ todo' = <<>> /\ snap' = <<>>
    /\ forgotten' = forgotten \cup {journal[t].ticket : t \in DOMAIN journal \ DOMAIN trs}
    /\ UNCHANGED <<setup, entries>>

\* "a venue read failure there propagates and aborts the start"
ReadPositions ==
    /\ Doing("read")
    /\ \/ /\ snap' = venue
          /\ Local(trades, PerTrade("adopt", DOMAIN journal) \o <<Stage("flush")>>)
          /\ UNCHANGED entries
       \/ Unread(Quit(trades), Quit(trades))

\* _reconcile_mt5 of _state.py; for a closed or smaller position the history is read.
Adopt ==
    /\ Doing("adopt")
    /\ LET r == journal[It]
           p == snap[r.ticket]
       IN  \/ /\ IF p.qty = 0
                 THEN Local(trades, Rest)
                 ELSE Local(Also(It, [r EXCEPT !.size = Lower(r.size, p.qty)]),
                            <<Task("repair", It, p.sl)>> \o Rest)
              /\ UNCHANGED <<snap, entries>>
           \/ /\ p.qty < r.size /\ Spend("lose") /\ UNCHANGED <<venue, late>>
              /\ Quit(Also(It, r))

\* _repair_mt5_protection: only a missing stop is set again.
RepairStop ==
    /\ Doing("repair")
    /\ LET r == trades[It]
           unset == [r EXCEPT !.pending = TRUE]
       IN  IF Arg /= NoStop THEN Local(trades, Rest) /\ UNCHANGED <<snap, entries>>
           ELSE Call(ModifyRequest(r.ticket, r.sl),
                     Step(trades, Rest) /\ UNCHANGED <<snap, entries>>,
                     Step(With(It, unset), Rest) /\ UNCHANGED <<snap, entries>>,
                     Step(With(It, unset), Rest) /\ UNCHANGED <<snap, entries>>,
                     Quit(trades))

-----------------------------------------------------------------------------
(* The world *)

World(v) ==
    /\ venue' = v
    /\ UNCHANGED <<setup, late, mode, trades, journal, snap, todo, entries, forgotten>>

Open == {i \in DOMAIN venue : venue[i].qty > 0}

\* A stop or take-profit closes its position.
StopHit == \E i \in Open : World(Do(venue, CloseRequest(i, venue[i].qty))) /\ UNCHANGED budget

ManualReduce == Spend("manual") /\ \E i \in Open : World(Do(venue, CloseRequest(i, 1)))

\* The user removes a stop while the trader is down.
StripStop == mode = "down" /\ Spend("strip") /\ \E i \in Open : World(Do(venue, ModifyRequest(i, NoStop)))

\* The bridge server executes what its client has given up on.
LateRequest ==
    /\ late /= <<>>
    /\ venue' = Try(venue, Head(late))
    /\ late' = Tail(late)
    /\ UNCHANGED <<setup, mode, trades, journal, snap, todo, entries, budget, forgotten>>

Init ==
    /\ setup \in Setups /\ budget = setup.faults
    /\ venue = <<>> /\ late = <<>>
    /\ mode = "up" /\ trades = << >> /\ journal = << >> /\ snap = <<>> /\ todo = <<>>
    /\ entries = 0 /\ forgotten = {}

Work ==
    \/ Enter \/ FindTicket \/ RetryPending \/ SyncStop
    \/ BreakEvens \/ BreakEven \/ RaiseStops \/ RaiseStop
    \/ CheckLevels \/ LevelDone \/ AdvanceOnly \/ MarketClose \/ SettledStop
    \/ ForceClose \/ CloseTrade \/ DropClosed \/ Reconcile
    \/ Flush \/ ReadPositions \/ Adopt \/ RepairStop

Next ==
    \/ Work \/ Candle \/ Forming \/ PollItem \/ Crash \/ Restart
    \/ StopHit \/ ManualReduce \/ StripStop \/ LateRequest

Spec == Init /\ [][Next]_vars
\* The consumer thread runs, and candles are taken in their turn.
FairSpec == Spec /\ WF_vars(Work) /\ SF_vars(Candle)

-----------------------------------------------------------------------------
(* Properties *)

Idle == mode = "up" /\ todo = <<>>
Spent(what) == setup.faults[what] - budget[what]

StopNeverLooser ==
    Spent("late") = 0 =>
        \A t \in Tracked : trades[t].pending \/ trades[t].unsure \/ trades[t].ticket \notin Open
                           \/ venue[trades[t].ticket].sl >= trades[t].sl

Strangers == Open \ ({trades[t].ticket : t \in Tracked} \cup forgotten)

\* Between two items the stop of a tracked position stands at least where the engine
\* believes it, but for a stop that is pending, or of which no answer says where it stands,
\* or a request that came late; and a position that no trade stands for is one that a
\* request sent again, lost or late, a crash, or a start that failed has left behind: the
\* trader itself never forgets one.
VenueAgrees ==
    Idle =>
        /\ StopNeverLooser
        /\ Cardinality(Strangers) <= Spent("resend") + 2 * Spent("lose") + Spent("late") + Spent("crash")

\* Whatever was closed by the venue, by hand or twice over is found by the poll: again
\* and again every trade has the volume of its position.
VolumesAgree == mode /= "up" \/ \A t \in Tracked : venue[trades[t].ticket].qty = trades[t].size
VolumesCatchUp == []<>VolumesAgree
=============================================================================
