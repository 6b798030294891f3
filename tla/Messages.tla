------------------------------ MODULE Messages ------------------------------
(***************************************************************************)
(* From trade events to messages: the adapter of each pair's event stream  *)
(* (trader/_notify.py) on one notifier, whose queues are taken at their    *)
(* word (Notifier): work before messages, each chat in order, every        *)
(* message sent or refused and then recorded.                              *)
(*                                                                         *)
(* Each slice of a trade that is closed pays 1, the last one 1 or -2.      *)
(* A stop is the number of times it was moved.  TP levels stand for        *)
(* risk-free messages too, which change nothing else.  Texts, templates    *)
(* and pictures are left out.                                              *)
(***************************************************************************)
EXTENDS Integers, Sequences, FiniteSets, SequencesExt, FiniteSetsExt, Functions

CONSTANT Setups \* the scenarios to explore

Kind == {"start", "stop", "signal", "open", "sl_move", "tp_level", "close", "day", "alert"}
Setup == [pairs     : Nat,
          trades    : Nat,              \* bound: trades of a pair
          units     : 1..2,             \* a trade's size
          adopted   : BOOLEAN,          \* the first trade of a pair was opened before
          gets      : Seq(SUBSET Kind), \* the filters of each chat
          cap       : Nat \ {0},        \* _ROOTS_PER_CHAT
          moves     : Nat,              \* bound: moves of a stop
          midnights : Nat,              \* bound: days
          refusals  : Nat,              \* bound: messages refused
          watches   : Seq([above : Nat, below : Nat, rearm : Nat, repeat : BOOLEAN]),  \* (Alerts)
          prices    : Nat,              \* bound: prices streamed (Alerts)
          opens     : Nat]              \* bound: streams that fail to open (Alerts)

VARIABLES
    setup,    \* the scenario, fixed at the start
    day,      \* the notifier's local date
    session,  \* each pair: "off", "on", "stopped"
    trade,    \* each pair's trades as they are: units left and stop
    hand,     \* each trading thread: the event received and not yet posted
    due,      \* the pairs whose daily job is due
    inbox,    \* _inbox: events and summaries, in order
    seen,     \* _trades of each adapter
    days,     \* _days of each adapter, by date
    armed,    \* hub.started, and the adapters' daily jobs: from START to STOP
    stops,    \* hub.stops: what each pair left open
    roots,    \* hub.roots: each chat's, the newest last
    queues,   \* each chat: the messages that wait
    chats,    \* each chat: the messages in it
    refusals, \* messages still to be refused
    missed,   \* history: the chats and trades that a refusal concerned
    posted    \* history: everything posted

trading == <<session, trade, hand>>
adapter == <<seen, days, armed, stops>>
out == <<roots, queues, chats, refusals, missed>>
msgVars == <<setup, day, trading, due, inbox, adapter, out, posted>>

Pairs == 1..setup.pairs
Trades == 1..setup.trades
Chats == DOMAIN setup.gets
Dates == 0..setup.midnights
Unknown == <<>>
Untouched == [units |-> setup.units, stop |-> 0, life |-> "none"]

-----------------------------------------------------------------------------
(* The trading threads *)

Event(kind, p, n) ==
    [kind |-> kind, p |-> p, n |-> n, date |-> day, pnl |-> 0, left |-> 0, stop |-> 0]

\* _Adapter.__call__ reads the clock, and then posts.
Receive(p, e) == hand[p] = <<>> /\ hand' = [hand EXCEPT ![p] = <<e>>]
Is(p, n, life) == session[p] = "on" /\ trade[p][n].life = life
Now(p, n, t) == trade' = [trade EXCEPT ![p][n] = t]

StartSession ==
    /\ \A p \in Pairs : session[p] = "off"
    /\ session' = [p \in Pairs |-> "on"]
    /\ hand' = [p \in Pairs |-> <<Event("start", p, 0)>>]
    /\ UNCHANGED <<setup, day, trade, due, inbox, adapter, out, posted>>

TradeEvent(p, n) ==
    LET t == trade[p][n]
        after(units) == [t EXCEPT !.units = units, !.life = IF units = 0 THEN "closed" ELSE @]
        slice(kind, pnl) ==
            /\ Now(p, n, after(IF kind = "close" /\ pnl /= 0 THEN 0 ELSE t.units - 1))
            /\ Receive(p, [Event(kind, p, n) EXCEPT !.pnl = IF pnl = 0 THEN 1 ELSE pnl,
                                                    !.left = trade'[p][n].units])
    IN  \/ /\ Is(p, n, "none") /\ \A k \in 1..(n - 1) : trade[p][k].life /= "none"
           /\ Now(p, n, [t EXCEPT !.life = "signalled"]) /\ Receive(p, Event("signal", p, n))
        \/ /\ Is(p, n, "signalled")
           /\ Now(p, n, [t EXCEPT !.life = "open"]) /\ Receive(p, Event("open", p, n))
        \/ /\ Is(p, n, "open") /\ t.stop < setup.moves
           /\ Now(p, n, [t EXCEPT !.stop = @ + 1])
           /\ Receive(p, [Event("sl_move", p, n) EXCEPT !.stop = t.stop + 1])
        \/ Is(p, n, "open") /\ t.units = 2 /\ (slice("tp_level", 0) \/ slice("close", 0))
        \/ Is(p, n, "open") /\ (slice("close", 1) \/ slice("close", -2))

Trading(p) ==
    /\ \E n \in Trades : TradeEvent(p, n)
    /\ UNCHANGED <<setup, day, session, due, inbox, adapter, out, posted>>

StopSession ==
    /\ \A p \in Pairs : session[p] = "on" /\ hand[p] = <<>>
    /\ session' = [p \in Pairs |-> "stopped"]
    /\ hand' = [p \in Pairs |-> <<[Event("stop", p, 0) EXCEPT !.left =
                                       Cardinality({n \in Trades : trade[p][n].life = "open"})]>>]
    /\ UNCHANGED <<setup, day, trade, due, inbox, adapter, out, posted>>

PostOne(e) == inbox' = Append(inbox, e) /\ posted' = Append(posted, e)

Post(p) ==
    /\ hand[p] /= <<>>
    /\ PostOne(hand[p][1])
    /\ hand' = [hand EXCEPT ![p] = <<>>]
    /\ UNCHANGED <<setup, day, session, trade, due, adapter, out>>

\* The day ends; the pairs whose job is armed are due.
Midnight ==
    /\ day < setup.midnights /\ due = {}
    /\ \A i \in DOMAIN inbox : inbox[i].kind /= "day"
    /\ day' = day + 1
    /\ due' = armed
    /\ UNCHANGED <<setup, trading, inbox, adapter, out, posted>>

\* _at_midnight
Job(p) ==
    /\ p \in due
    /\ due' = due \ {p}
    /\ PostOne(Event("day", p, 0))
    /\ UNCHANGED <<setup, day, trading, adapter, out>>

-----------------------------------------------------------------------------
(* The queues *)

Message(kind, p, n, knows) ==
    [kind |-> kind, p |-> p, n |-> n, knows |-> knows, edits |-> FALSE, stop |-> 0, says |-> <<>>]
Taking(kind) == {c \in Chats : kind \in setup.gets[c]}

Waits(m, other) == other.kind = "sl_move" /\ other.p = m.p /\ other.n = m.n
\* _queue_event: a stop's newer message takes the place of one that waits.
Queued(m) ==
    queues' = [c \in Chats |->
        IF m.kind \notin setup.gets[c] THEN queues[c]
        ELSE Append(IF m.kind = "sl_move" THEN SelectSeq(queues[c], LAMBDA w : ~Waits(m, w))
                    ELSE queues[c], m)]

\* Variant: pairs of one notifier share the roots of a trade's number.
KeyOfNumber(kind, p, n) == <<kind, 0, n>>
Key(kind, p, n) == <<kind, p, n>>
RootAt(c, key) ==
    LET at == {i \in DOMAIN roots[c] : roots[c][i].key = key}
    IN  IF at = {} THEN 0 ELSE roots[c][Max(at)].at

\* _root: the OPEN, or the SIGNAL where no OPEN goes; knows: the trade's opening was seen.
Root(c, m) ==
    IF "open" \in setup.gets[c] THEN RootAt(c, Key("open", m.p, m.n))
    ELSE IF m.knows THEN RootAt(c, Key("signal", m.p, m.n)) ELSE 0

\* _keep_root, _forget_root
Kept(c, m, at) ==
    IF m.kind = "open" \/ (m.kind = "signal" /\ "open" \notin setup.gets[c])
    THEN LET key == Key(m.kind, m.p, m.n)
             all == Append(SelectSeq(roots[c], LAMBDA r : r.key /= key), [key |-> key, at |-> at])
         IN  SubSeq(all, IF Len(all) > setup.cap THEN 2 ELSE 1, Len(all))
    ELSE roots[c]
Forgotten(c, m) ==
    IF m.kind = "close" /\ m.says /= <<>>
    THEN SelectSeq(roots[c], LAMBDA r : r.key \notin {Key("open", m.p, m.n), Key("signal", m.p, m.n)})
    ELSE roots[c]

IsReply(m) == m.kind \in {"sl_move", "tp_level", "close"}

\* One message: it, or an edit of its root, goes out or is refused.
Deliver(c) ==
    /\ inbox = <<>> /\ queues[c] /= <<>>
    /\ LET m == Head(queues[c])
           to == IF IsReply(m) THEN Root(c, m) ELSE 0
           done == queues' = [queues EXCEPT ![c] = Tail(@)]
       IN  IF m.edits /\ to /= 0
           THEN \/ /\ chats' = [chats EXCEPT ![c][to].stop = m.stop]
                   /\ done /\ UNCHANGED <<roots, refusals, missed>>
                \/ /\ refusals > 0 /\ refusals' = refusals - 1
                   /\ queues' = [queues EXCEPT ![c] = <<[m EXCEPT !.edits = FALSE]>> \o Tail(@)]
                   /\ UNCHANGED <<roots, chats, missed>>
           ELSE /\ done
                /\ \/ /\ chats' = [chats EXCEPT ![c] = Append(@, [m |-> m, to |-> to, stop |-> m.stop])]
                      /\ roots' = [roots EXCEPT ![c] = IF IsReply(m) THEN Forgotten(c, m)
                                                       ELSE Kept(c, m, Len(chats[c]) + 1)]
                      /\ UNCHANGED <<refusals, missed>>
                   \/ /\ refusals > 0 /\ refusals' = refusals - 1
                      /\ missed' = missed \cup {<<c, m.p, m.n>>}
                      /\ roots' = [roots EXCEPT ![c] = Forgotten(c, m)]
                      /\ UNCHANGED chats
    /\ UNCHANGED <<setup, day, trading, due, inbox, adapter, posted>>

-----------------------------------------------------------------------------
(* _handle, on the notifier's thread *)

Fresh(e) == [net |-> 0, knows |-> e.kind = "open"]
Of(e) == IF seen[e.p][e.n] = Unknown THEN Fresh(e) ELSE seen[e.p][e.n][1]
See(e, t) == seen' = [seen EXCEPT ![e.p][e.n] = t]
Say(e) == Queued(Message(e.kind, e.p, e.n, Of(e).knows))

OnSignal(e) == e.kind = "signal" /\ Say(e) /\ UNCHANGED <<seen, days, armed, stops>>

OnOpen(e) == e.kind = "open" /\ Say(e) /\ See(e, <<Fresh(e)>>) /\ UNCHANGED <<days, armed, stops>>

OnSlMove(e) ==
    /\ e.kind = "sl_move"
    /\ Queued([Message(e.kind, e.p, e.n, Of(e).knows) EXCEPT !.edits = Of(e).knows, !.stop = e.stop])
    /\ See(e, <<Of(e)>>) /\ UNCHANGED <<days, armed, stops>>

DayOf(e) == e.date
Counted(e, trades, won) ==
    days' = [days EXCEPT ![e.p][DayOf(e)] =
                [trades |-> @.trades + trades, won |-> @.won + won, net |-> @.net + e.pnl]]

OnTpLevel(e) ==
    /\ e.kind = "tp_level" /\ Say(e)
    /\ See(e, <<[Of(e) EXCEPT !.net = @ + e.pnl]>>) /\ Counted(e, 0, 0)
    /\ UNCHANGED <<armed, stops>>

\* A close that leaves something open is one of a trade whose size was seen.
OnClose(e) ==
    LET net == Of(e).net + e.pnl
        partial == Of(e).knows /\ e.left > 0
    IN  /\ e.kind = "close"
        /\ Queued([Message(e.kind, e.p, e.n, Of(e).knows) EXCEPT
                       !.says = IF partial THEN <<>> ELSE <<net>>])
        /\ See(e, IF partial THEN <<[Of(e) EXCEPT !.net = net]>> ELSE Unknown)
        /\ IF partial THEN Counted(e, 0, 0) ELSE Counted(e, 1, IF net > 0 THEN 1 ELSE 0)
        /\ UNCHANGED <<armed, stops>>

NoTrades == [trades |-> 0, won |-> 0, net |-> 0]
OnStart(e) ==
    /\ e.kind = "start"
    /\ days' = [days EXCEPT ![e.p] = [d \in Dates |-> NoTrades]]
    /\ armed' = armed \cup {e.p}
    /\ IF armed /= {} THEN UNCHANGED queues ELSE Queued(Message("start", 0, 0, FALSE))
    /\ UNCHANGED <<seen, stops>>

OnStop(e) ==
    /\ e.kind = "stop"
    /\ stops' = e.p :> e.left @@ stops
    /\ IF DOMAIN stops' = Pairs
       THEN Queued([Message("stop", 0, 0, FALSE) EXCEPT
                        !.says = <<FoldFunction(+, 0, stops')>>])
       ELSE UNCHANGED queues
    /\ armed' = armed \ {e.p} /\ UNCHANGED <<seen, days>>

\* _summarize: the day before; older ones are forgotten.
Summarize(e) ==
    LET d == day - 1
    IN  /\ e.kind = "day"
        /\ Queued([Message("day", e.p, 0, FALSE) EXCEPT !.says = <<d, days[e.p][d]>>])
        /\ days' = [days EXCEPT ![e.p] = [x \in Dates |-> IF x <= d THEN NoTrades ELSE @[x]]]
        /\ UNCHANGED <<seen, armed, stops>>

\* _alerts._send: e.n is the alert, of no pair.
OnAlert(e) ==
    /\ e.kind = "alert" /\ Queued(Message("alert", 0, e.n, FALSE))
    /\ UNCHANGED <<seen, days, armed, stops>>

Handle ==
    /\ inbox /= <<>> /\ inbox' = Tail(inbox)
    /\ LET e == Head(inbox) \* a STOP cancels the job, unless it was taken up
       IN  OnSignal(e) \/ OnOpen(e) \/ OnSlMove(e) \/ OnTpLevel(e) \/ OnClose(e)
           \/ OnStart(e) \/ OnStop(e) \/ Summarize(e) \/ OnAlert(e)
    /\ \/ due' = due
       \/ Head(inbox).kind = "stop" /\ due' = due \ {Head(inbox).p}
    /\ UNCHANGED <<setup, day, trading, roots, chats, refusals, missed, posted>>

MsgInit ==
    /\ setup \in Setups
    /\ day = 0 /\ due = {} /\ inbox = <<>> /\ posted = <<>>
    /\ session = [p \in Pairs |-> "off"] /\ hand = [p \in Pairs |-> <<>>]
    /\ trade = [p \in Pairs |-> [n \in Trades |->
                   IF setup.adopted /\ n = 1 THEN [Untouched EXCEPT !.life = "open"] ELSE Untouched]]
    /\ seen = [p \in Pairs |-> [n \in Trades |-> Unknown]]
    /\ days = [p \in Pairs |-> [d \in Dates |-> NoTrades]]
    /\ armed = {} /\ stops = <<>>
    /\ roots = [c \in Chats |-> <<>>] /\ queues = [c \in Chats |-> <<>>]
    /\ chats = [c \in Chats |-> <<>>]
    /\ refusals = setup.refusals /\ missed = {}

MsgNext ==
    \/ StartSession \/ StopSession \/ Midnight \/ Handle
    \/ \E p \in Pairs : Trading(p) \/ Post(p) \/ Job(p)
    \/ \E c \in Chats : Deliver(c)


-----------------------------------------------------------------------------
(* Properties *)

Before(i, p, n) == {j \in 1..i : posted[j].p = p /\ posted[j].n = n}
Closing(kinds, js) == {j \in js : posted[j].kind \in kinds}
Known(p, n) == \E j \in DOMAIN posted : posted[j].p = p /\ posted[j].n = n /\ posted[j].kind = "open"
Paid(js) == FoldSet(LAMBDA j, sum : sum + posted[j].pnl, 0, js)
\* A trade of another session is whole at each close of it.
Ends(i) ==
    LET e == posted[i] IN e.kind = "close" /\ (Known(e.p, e.n) => e.left = 0)
Whole(i) ==
    LET e == posted[i]
        last == {0} \cup {j \in Before(i - 1, e.p, e.n) : Ends(j)}
    IN  Paid({j \in Before(i, e.p, e.n) : j > Max(last)})

\* "opened before the session: only what is seen from now on"; "the day counts from the
\* later of 00:00 and the start": a day's message counts what was posted before its
\* job was, each trade once, on the day of its last close and by what all its slices paid.
DayTold(m) ==
    LET d == m.says[1]
        at == Min({i \in DOMAIN posted : posted[i].kind = "day" /\ posted[i].p = m.p
                                         /\ posted[i].date = d + 1})
        of == {i \in 1..at : posted[i].p = m.p /\ posted[i].date = d}
        ends == {i \in of : Ends(i)}
    IN  m.says[2] = [trades |-> Cardinality(ends), won |-> Cardinality({i \in ends : Whole(i) > 0}),
                     net |-> Paid(of)]

CloseTold(m) ==
    Known(m.p, m.n) =>
        m.says = <<Paid({i \in DOMAIN posted : posted[i].p = m.p /\ posted[i].n = m.n})>>

StopTold(m) ==
    /\ \A p \in Pairs : session[p] = "stopped" /\ hand[p] = <<>>
    /\ m.says = <<Cardinality({<<p, n>> \in Pairs \X Trades : trade[p][n].life = "open"})>>

Reported ==
    \A c \in Chats : \A i \in DOMAIN chats[c] :
        LET m == chats[c][i].m
            after == {chats[c][k].m.kind : k \in (i + 1)..Len(chats[c])}
        IN  /\ m.kind = "day" => DayTold(m)
            /\ m.kind = "close" /\ m.says /= <<>> => CloseTold(m)
            /\ m.kind = "stop" => StopTold(m) /\ after \subseteq {"day", "alert"}
            /\ m.kind = "start" => "start" \notin after

\* "A message of a trade: a reply to its root; the close forgets the root": in each
\* chat a trade's messages hang on the message that opened that trade there, and on
\* nothing else, and once everything went out what the chat shows of an open trade's
\* stop is its stop.
Opens(c) == IF "open" \in setup.gets[c] THEN "open" ELSE "signal"
OwnRoots(c, m) ==
    {i \in DOMAIN chats[c] : LET r == chats[c][i].m
                              IN  r.kind = Opens(c) /\ r.p = m.p /\ r.n = m.n}
Evicted(c, i, r) ==
    Cardinality({k \in (r + 1)..(i - 1) : chats[c][k].m.kind = Opens(c)}) >= setup.cap

Threaded(c, i) ==
    LET said == chats[c][i]
        own == OwnRoots(c, said.m) \cap 1..(i - 1)
    IN  /\ said.to /= 0 => said.to \in own
        /\ said.to = 0 /\ said.m.knows => \A r \in own : Evicted(c, i, r)

Shown(c, p, n) ==
    {chats[c][i].stop : i \in {k \in DOMAIN chats[c] : chats[c][k].m.p = p /\ chats[c][k].m.n = n}}
ShowsStop(c, p, n) ==
    (/\ "sl_move" \in setup.gets[c] /\ trade[p][n].life = "open" /\ <<c, p, n>> \notin missed
     /\ inbox = <<>> /\ hand[p] = <<>> /\ queues[c] = <<>>)
    => trade[p][n].stop = 0 \/ trade[p][n].stop = Max(Shown(c, p, n))

TradeThreads ==
    \A c \in Chats :
        /\ \A i \in DOMAIN chats[c] : IsReply(chats[c][i].m) => Threaded(c, i)
        /\ \A p \in Pairs, n \in Trades : ShowsStop(c, p, n)
=============================================================================
