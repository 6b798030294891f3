----------------------------- MODULE MCMessages -----------------------------
(***************************************************************************)
(* What tells the user, one run: the messages of trades with the price     *)
(* alerts, and the services that carry messages away.  They share no       *)
(* state: `part` says which of them a behaviour is about, and the          *)
(* variables of the other stay as they are.                                *)
(***************************************************************************)
EXTENDS Integers, Sequences

CONSTANT Areas \* what to check; "full" is a service whose queue is full of digests

Kinds == {"start", "stop", "signal", "open", "sl_move", "tp_level", "close", "day", "alert"}
Quiet == [pairs |-> 1, trades |-> 1, units |-> 2, adopted |-> FALSE, gets |-> <<Kinds>>, cap |-> 5, moves |-> 0,
          midnights |-> 0, refusals |-> 0, watches |-> <<>>, prices |-> 0, opens |-> 0]
\* Two pairs whose trades have the same numbers, in a chat that takes no openings.
Namesakes == [Quiet EXCEPT !.pairs = 2, !.units = 1, !.gets = <<{"signal", "close", "tp_level", "stop"}>>]
\* A trade over midnight, in a chat of its own news and in one of the days.
Night == [Quiet EXCEPT !.midnights = 1, !.gets = <<{"open", "close", "day", "stop"}>>]
Adopted == [Night EXCEPT !.adopted = TRUE, !.gets = <<{"open", "close", "day"}>>]
\* A stop that moves faster than its messages go, some of them refused, roots forgotten.
Moving == [Quiet EXCEPT !.moves = 3, !.refusals = 2, !.gets = <<{"open", "sl_move", "close"}>>]
\* The same chat without openings hears of the stop too.
Signals == [Quiet EXCEPT !.moves = 2, !.gets = <<{"signal", "sl_move"}, {"signal", "open", "sl_move"}>>, !.refusals = 1]
Crowded == [Quiet EXCEPT !.trades = 2, !.cap = 1, !.gets = <<{"open", "tp_level"}>>]

Silent == [Quiet EXCEPT !.pairs = 0, !.trades = 0, !.gets = <<{"alert"}>>]
Level(above, below, rearm, repeat) == [above |-> above, below |-> below, rearm |-> rearm, repeat |-> repeat]
Once == [Silent EXCEPT !.watches = <<Level(2, 1, 0, FALSE), Level(3, 0, 0, FALSE)>>, !.prices = 3]
Again == [Silent EXCEPT !.watches = <<Level(3, 1, 1, TRUE)>>, !.prices = 6]
Failing == [Silent EXCEPT !.watches = <<Level(2, 0, 0, FALSE), Level(0, 2, 1, TRUE)>>, !.prices = 2, !.opens = 1]

MessageSetups == {Namesakes, Night, Adopted, Moving, Signals, Crowded, Once, Again, Failing}

Services == {"telegram", "discord", "webhook", "email"}
Shapes == {"text", "picture", "album"}
Places == [known : BOOLEAN, type : {"private", "group", "channel"},
           status : {"creator", "administrator", "member", "restricted", "left", "kicked"},
           may : BOOLEAN, inside : BOOLEAN, members : BOOLEAN]
Home == [known |-> TRUE, type |-> "private", status |-> "member", may |-> TRUE, inside |-> TRUE,
         members |-> TRUE]
Calm == [lost |-> 0, unreachable |-> 0, busy |-> 0, down |-> 0, broken |-> 0, foreign |-> 0]
Base == [service |-> "telegram", place |-> Home, check |-> TRUE, digest |-> 0, capacity |-> 2,
         texts |-> 1, shapes |-> {"text"}, trades |-> 0, edits |-> 0, deletes |-> 0, faults |-> Calm,
         closes |-> 0]

\* One text to every kind of destination, checked or not.
AnyPlace == {[Base EXCEPT !.place = p, !.check = c] : p \in Places, c \in BOOLEAN}

\* A text or a picture, and edits, through every service, with every kind of answer.
Unheard == [Calm EXCEPT !.lost = 1, !.unreachable = 1, !.broken = 1]
Loud == [Calm EXCEPT !.busy = 1, !.down = 1, !.lost = 1]
Sends == {[Base EXCEPT !.service = s, !.edits = 2, !.deletes = 1, !.capacity = 3, !.shapes = Shapes,
                       !.faults = f] : s \in Services, f \in {Unheard, Loud}}
         \cup {[Base EXCEPT !.edits = 1, !.faults = [Loud EXCEPT !.foreign = 1]]}

\* Digests beside a text, over failures and a close; with pictures.
Digests == {[Base EXCEPT !.service = "email", !.digest = 2, !.trades = 3, !.capacity = 5, !.closes = 1,
                         !.shapes = {"picture"}, !.faults = [Calm EXCEPT !.lost = 1, !.down = 1, !.broken = 1]]}

BackendSetups == AnyPlace \cup Sends \cup Digests
FullQueue == {[Base EXCEPT !.service = "email", !.digest = 1, !.trades = 2, !.texts = 2]}

VARIABLES
    part, setup,
    day, session, trade, hand, due, inbox, seen, days, armed, stops, roots, queues, chats, refusals, missed, posted,
    price, left, alert, streams, shared, fails, heard, firings,
    checked, queue, request, hold, flushing, since, root, budget, arrived

msgVars == <<day, session, trade, hand, due, inbox, seen, days, armed, stops, roots, queues, chats, refusals,
             missed, posted, price, left, alert, streams, shared, fails, heard, firings>>
serviceVars == <<checked, queue, request, hold, flushing, since, root, budget, arrived>>
vars == <<part, setup, msgVars, serviceVars>>

News == INSTANCE Alerts WITH Setups <- MessageSetups
Carriers == INSTANCE Backends WITH Setups <- BackendSetups \cup FullQueue

ASSUME AreasAssumption == Areas \subseteq {"news", "services", "full"}
ASSUME ScenariosAssumption == MessageSetups \subseteq News!Setup /\ BackendSetups \cup FullQueue \subseteq Carriers!Setup

NoNews == /\ day = 0 /\ session = 0 /\ trade = 0 /\ hand = 0 /\ due = 0 /\ inbox = 0 /\ seen = 0 /\ days = 0
          /\ armed = 0 /\ stops = 0 /\ roots = 0 /\ queues = 0 /\ chats = 0 /\ refusals = 0 /\ missed = 0
          /\ posted = 0 /\ price = 0 /\ left = 0 /\ alert = 0 /\ streams = 0 /\ shared = 0 /\ fails = 0
          /\ heard = 0 /\ firings = 0
NoService == /\ checked = 0 /\ queue = 0 /\ request = 0 /\ hold = 0 /\ flushing = 0 /\ since = 0 /\ root = 0
             /\ budget = 0 /\ arrived = 0

Init == /\ part \in Areas
        /\ \/ part = "news" /\ News!Init /\ NoService
           \/ part = "services" /\ setup \in BackendSetups /\ Carriers!Init /\ NoNews
           \/ part = "full" /\ setup \in FullQueue /\ Carriers!Init /\ NoNews

Next == \/ part = "news" /\ News!Next /\ UNCHANGED <<part, serviceVars>>
        \/ part # "news" /\ Carriers!Next /\ UNCHANGED <<part, msgVars>>

Spec == Init /\ [][Next]_vars

-----------------------------------------------------------------------------
(* Properties: those of the modules, each where its part is *)

\* What each chat is told of a trade, of a day and of the end is what happened; and in each
\* chat a trade's messages hang on the message that opened that trade there.
Reported == part = "news" => News!Reported /\ News!TradeThreads

\* An alert fires on every crossing of its level that it hears, and on nothing else.
AlertsFire == part = "news" => News!AlertsFire

\* What ended as sent arrived once, and once more only for a lost answer; what ended as
\* refused did not, and after a check that passed nothing is refused for want of rights; an
\* edit becomes a message of its own only when the first one is gone.
SentIsWhatArrived ==
    part # "news" => Carriers!SentIsWhatArrived /\ Carriers!CheckIsEnough /\ Carriers!EditsStayEdits

\* "dropped: the queue was full; not sent."
DroppedIsNotSent == part # "news" => Carriers!DroppedIsNotSent

\* Two digests are a digest's wait apart, but for those a close() sends.
DigestsApart == [][part # "news" => Carriers!DigestsWait]_vars
=============================================================================
