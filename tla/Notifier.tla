------------------------------ MODULE Notifier ------------------------------
(***************************************************************************)
(* The core of a notifier (notify/_core.py): callers queue messages, the   *)
(* trading thread posts work, one sender thread at a time delivers, over a *)
(* network and chat servers that fail, and close() starts a new generation *)
(* while the last request of the old one may still be out.                 *)
(*                                                                         *)
(* A delivery is one message to one destination; its index is its `seq`,   *)
(* so every queue is the waiting deliveries in index order.  Trade events  *)
(* are those of one trade (trader/_notify.py): the message that opens it,  *)
(* replies to that, and edits of it.  Timers count down in ticks.  Digest  *)
(* destinations, pictures, the printed lines and the forgetting of a       *)
(* closed trade's opening are left out.                                    *)
(***************************************************************************)
EXTENDS Integers, Sequences, FiniteSets, FiniteSetsExt, SequencesExt

CONSTANT Setups   \* the scenarios to explore: settings of the notifier, and bounds

Fault == {"refused", "wait", "lost"}
Setup == [dests    : Nat \ {0},
          steps    : Seq(Nat \ {0}),  \* _RETRY_STEPS
          pace     : Nat,             \* ticks between two requests to one chat
          capacity : Nat \ {0},       \* MAX_WAITING
          parts    : SUBSET (Nat \ {0}), \* requests a text needs
          waits    : SUBSET BOOLEAN,  \* wait=True or False
          texts    : Nat,             \* bound: send_text calls
          events   : Nat,             \* bound: trade events posted
          faults   : [Fault -> Nat],  \* budget: answers that are not "sent"
          outages  : Nat,             \* budget: losses of the network or of a server
          closes   : Nat,             \* budget: close() calls
          timeouts : Nat]             \* budget: those that run out of time

ASSUME SetupsAssumption == Setups \subseteq Setup

VARIABLES
    setup,      \* the scenario, fixed at the start
    msgs,       \* every delivery ever queued, in order
    inbox,      \* _inbox: the kinds of the trade events posted
    callbacks,  \* _callbacks: the openings that went out, not yet recorded
    roots,      \* hub.roots: destination -> the trade's opening message, None before
    generation, \* _generation
    thread,     \* the generation of the current sender, None when there is none
    senders,    \* generation -> what that sender thread is doing
    inFlight,   \* _in_flight
    working,    \* _working
    retry,      \* destination -> ticks to its retry_at
    failures,   \* destination -> server errors in a row
    pause,      \* destination -> ticks to its pace's next_at
    down,       \* _down_since is set
    probes,     \* _down_failures
    probe,      \* ticks to _probe_at
    closing,    \* a close() waits for the queue
    outside,    \* what does not answer: the network (None), servers of destinations
    budget,     \* what the bounds and budgets of the setup leave
    arrived     \* history: the requests that reached a chat, in order

None == 0
adapter == <<inbox, callbacks, roots>>
threads == <<generation, thread, senders, inFlight, working>>
timers == <<retry, failures, pause, down, probes, probe>>
vars == <<setup, msgs, adapter, threads, timers, closing, outside, budget, arrived>>

Dests == 1..setup.dests
GiveUp == FoldSeq(+, 0, setup.steps)          \* _GIVE_UP_SECONDS
RetryStep(n) == setup.steps[IF n < Len(setup.steps) THEN n ELSE Len(setup.steps)]

Waiting == {m \in DOMAIN msgs : msgs[m].st = "waiting"}
WaitingTo(d) == {m \in Waiting : msgs[m].dest = d}

Delivery(kind, d, parts, waited) ==
    [kind |-> kind, dest |-> d, parts |-> parts, next |-> 0, waited |-> waited, age |-> 0,
     gen |-> generation, st |-> "waiting", plain |-> FALSE, lost |-> FALSE]

Idle == [pc |-> "look", job |-> None, answer |-> "", to |-> None, records |-> <<>>, work |-> <<>>]
Sender(g, s) == senders' = [senders EXCEPT ![g] = s]

-----------------------------------------------------------------------------
(* The queue: _enqueue, _post, _queue_event *)

\* _ensure_thread_locked
EnsureThread ==
    IF thread /= None
    THEN UNCHANGED <<thread, senders>>
    ELSE /\ thread' = generation
         /\ senders' = Append(senders, Idle)

Ended(ms, S, how) == [m \in DOMAIN ms |-> IF m \in S THEN [ms[m] EXCEPT !.st = how] ELSE ms[m]]

Oldest(n, S) == {m \in S : Cardinality({k \in S : k < m}) < n}

\* Variant: the one on its way may go too.
TrimAny(ms) ==
    LET here == {m \in DOMAIN ms : ms[m].st = "waiting"}
    IN  Ended(ms, Oldest(Cardinality(here) - setup.capacity, here), "dropped")

\* _trim_locked: past the capacity the oldest go, but not the one on its way.
Trim(ms) ==
    LET here == {m \in DOMAIN ms : ms[m].st = "waiting"}
    IN  Ended(ms, Oldest(Cardinality(here) - setup.capacity, here \ {inFlight}), "dropped")

Spend(what) == budget[what] > 0 /\ budget' = [budget EXCEPT ![what] = @ - 1]

\* What its filters or `to=` give: destinations, in their order.
Routes == {to \in UNION {[1..n -> Dests] : n \in 1..setup.dests} :
               \A j, k \in DOMAIN to : j < k => to[j] < to[k]}

SendText ==
    /\ Spend("texts")
    /\ \E to \in Routes, parts \in setup.parts, wait \in setup.waits :
           msgs' = Trim(msgs \o [k \in DOMAIN to |-> Delivery("text", to[k], parts, wait)])
    /\ EnsureThread
    /\ UNCHANGED <<setup, adapter, generation, inFlight, working, timers, closing, outside, arrived>>

\* The trading thread posts the trade's opening, then replies and edits.
PostEvent ==
    /\ Spend("events")
    /\ \E kind \in IF budget.events = setup.events THEN {"open"} ELSE {"reply", "edit"} :
           inbox' = Append(inbox, kind)
    /\ EnsureThread
    /\ UNCHANGED <<setup, msgs, callbacks, roots, generation, inFlight, working, timers, closing,
                   outside, arrived>>

\* The adapter's work for one event: _queue_event for every destination, in one step; a
\* newer edit replaces the one that waits.
Queued(kind) ==
    LET stale == {m \in Waiting \ {inFlight} :
                     kind = "edit" /\ msgs[m].kind = "edit" /\ msgs[m].next = 0}
    IN  Trim(Ended(msgs, stale, "superseded")
                \o [d \in Dests |-> Delivery(kind, d, 1, FALSE)])

-----------------------------------------------------------------------------
(* The sender thread: _run, _next_locked *)

\* Variant of Due: a server error holds back its message, not its destination.
DueSkips ==
    {m \in Waiting : /\ down => m = Min(Waiting) /\ probe = 0
                     /\ retry[msgs[m].dest] = 0 \/ m /= Min(WaitingTo(msgs[m].dest))
                     /\ pause[msgs[m].dest] = 0}

\* _choose_locked: in an outage only the oldest message is tried; else the first of each
\* destination that is neither held by a server error nor paced.
Due ==
    LET first == IF down THEN {m \in Waiting : m = Min(Waiting) /\ probe = 0}
                 ELSE {m \in Waiting : m = Min(WaitingTo(msgs[m].dest))}
    IN  {m \in first : retry[msgs[m].dest] = 0 /\ pause[msgs[m].dest] = 0}

\* What is to be recorded or made into messages goes before any message.
WorkFirst(g) == callbacks # <<>> \/ (g = generation /\ inbox # <<>>)

\* Variant: a stopped sender drops what it takes.
TakeWorkOwn(g) ==
    /\ senders[g].pc = "look" /\ WorkFirst(g)
    /\ Sender(g, [Idle EXCEPT !.pc = "work",
                              !.records = IF g = generation THEN callbacks ELSE <<>>,
                              !.work = IF g = generation THEN inbox ELSE <<>>])
    /\ callbacks' = <<>>
    /\ inbox' = IF g = generation THEN <<>> ELSE inbox
    /\ working' = TRUE
    /\ UNCHANGED <<setup, msgs, roots, generation, thread, inFlight, timers, closing, outside,
                   budget, arrived>>

\* Callbacks are taken by whichever sender looks, work only by the current one.
TakeWork(g) ==
    /\ senders[g].pc = "look" /\ WorkFirst(g)
    /\ Sender(g, [Idle EXCEPT !.pc = "work", !.records = callbacks,
                              !.work = IF g = generation THEN inbox ELSE <<>>])
    /\ callbacks' = <<>>
    /\ inbox' = IF g = generation THEN <<>> ELSE inbox
    /\ working' = TRUE
    /\ UNCHANGED <<setup, msgs, roots, generation, thread, inFlight, timers, closing, outside,
                   budget, arrived>>

TakeDelivery(g) ==
    /\ senders[g].pc = "look" /\ g = generation /\ ~WorkFirst(g)
    /\ Due # {}
    /\ inFlight' = Min(Due)
    /\ Sender(g, [Idle EXCEPT !.pc = "request", !.job = Min(Due)])
    /\ working' = FALSE
    /\ UNCHANGED <<setup, msgs, adapter, generation, thread, timers, closing, outside, budget, arrived>>

\* A sender that close() stopped ends, once it has nothing in hand.
Leave(g) ==
    /\ senders[g].pc = "look" /\ g /= generation /\ callbacks = <<>>
    /\ Sender(g, [Idle EXCEPT !.pc = "gone"])
    /\ working' = FALSE
    /\ UNCHANGED <<setup, msgs, adapter, generation, thread, inFlight, timers, closing, outside,
                   budget, arrived>>

\* on_done: the opening that went out is recorded.
Record(g) ==
    /\ senders[g].pc = "work" /\ senders[g].records # <<>>
    /\ LET m == Head(senders[g].records)
       IN  roots' = [roots EXCEPT ![msgs[m].dest] = m]
    /\ Sender(g, [senders[g] EXCEPT !.records = Tail(@)])
    /\ UNCHANGED <<setup, msgs, inbox, callbacks, generation, thread, inFlight, working, timers,
                   closing, outside, budget, arrived>>

\* One event is made into messages, unless close() stopped this sender meanwhile.
RunWork(g) ==
    /\ senders[g].pc = "work" /\ senders[g].records = <<>> /\ senders[g].work # <<>>
    /\ IF g = generation
       THEN msgs' = Queued(Head(senders[g].work))
       ELSE UNCHANGED msgs
    /\ Sender(g, [senders[g] EXCEPT !.work = Tail(@)])
    /\ UNCHANGED <<setup, adapter, generation, thread, inFlight, working, timers, closing, outside,
                   budget, arrived>>

WorkDone(g) ==
    /\ senders[g].pc = "work" /\ senders[g].records = <<>> /\ senders[g].work = <<>>
    /\ Sender(g, [Idle EXCEPT !.pc = IF g = generation THEN "look" ELSE "gone"])
    /\ working' = FALSE
    /\ UNCHANGED <<setup, msgs, adapter, generation, thread, inFlight, timers, closing, outside,
                   budget, arrived>>

-----------------------------------------------------------------------------
(* One request: _attempt and what the service answers *)

Follows(m) == msgs[m].kind \in {"reply", "edit"}

\* The request, with the message it replies to or edits resolved just before it goes.
Request(g) ==
    /\ senders[g].pc = "request"
    /\ LET m == senders[g].job
           d == msgs[m].dest
           to == IF Follows(m) THEN roots[d] ELSE None
           copy == [msg |-> m, part |-> msgs[m].next + 1, to |-> to]
           answered(what) == Sender(g, [senders[g] EXCEPT !.pc = "answered", !.answer = what, !.to = to])
       IN  \/ /\ None \in outside
              /\ answered("unreachable") /\ UNCHANGED <<msgs, budget, arrived>>
           \/ /\ None \notin outside /\ d \in outside
              /\ answered("server") /\ UNCHANGED <<msgs, budget, arrived>>
           \/ /\ outside \cap {None, d} = {}
              /\ \/ /\ answered("sent")
                    /\ arrived' = Append(arrived, copy)
                    /\ UNCHANGED <<msgs, budget>>
                 \/ /\ Spend("lost") /\ answered("unreachable")
                    /\ arrived' = Append(arrived, copy)
                    /\ msgs' = [msgs EXCEPT ![m].lost = TRUE]
                 \/ Spend("refused") /\ answered("refused") /\ UNCHANGED <<msgs, arrived>>
                 \/ Spend("wait") /\ answered("wait") /\ UNCHANGED <<msgs, arrived>>
    /\ UNCHANGED <<setup, adapter, generation, thread, inFlight, working, timers, closing, outside>>

-----------------------------------------------------------------------------
(* What the answer changes: _settle_locked, _give_up_locked *)

\* The answered request was an edit of the message found, not a message of its own.
Edited(g) ==
    LET m == senders[g].job
    IN  msgs[m].kind = "edit" /\ ~msgs[m].plain /\ senders[g].to # None

Overdue(m) == msgs[m].waited /\ msgs[m].st = "waiting" /\ msgs[m].age >= GiveUp

\* Calls that waited long enough give up at a failed try: m's own at a server error,
\* every one in an outage; S are the messages the failure is about.
GivenUp(m, S) == Ended(msgs, {k \in S : Overdue(k)}, "withdrawn")

Answered(g, what) ==
    /\ senders[g].pc = "answered" /\ senders[g].answer = what
    /\ msgs[senders[g].job].st = "waiting"
    /\ inFlight' = IF inFlight = senders[g].job THEN None ELSE inFlight
    /\ Sender(g, Idle)
    /\ UNCHANGED <<setup, inbox, roots, generation, thread, working, closing, outside, budget, arrived>>

\* Any answer but "unreachable" ends an outage, and counts for the chat's pace.
Reached(d, hold) ==
    /\ down' = FALSE /\ probes' = 0 /\ UNCHANGED probe
    /\ pause' = [pause EXCEPT ![d] = IF hold > setup.pace THEN hold ELSE setup.pace]

\* close() gave the message up while it was on its way.
SettleClosed(g) ==
    /\ senders[g].pc = "answered" /\ msgs[senders[g].job].st # "waiting"
    /\ inFlight' = IF inFlight = senders[g].job THEN None ELSE inFlight
    /\ Sender(g, Idle)
    /\ UNCHANGED <<setup, msgs, adapter, generation, thread, working, timers, closing, outside,
                   budget, arrived>>

SettleSent(g) ==
    /\ Answered(g, "sent")
    /\ LET m == senders[g].job
           next == IF Edited(g) THEN msgs[m].parts ELSE msgs[m].next + 1
           whole == next = msgs[m].parts
       IN  /\ msgs' = [msgs EXCEPT ![m].next = next, ![m].st = IF whole THEN "sent" ELSE @]
           /\ callbacks' = IF whole /\ msgs[m].kind = "open" THEN Append(callbacks, m) ELSE callbacks
           /\ failures' = [failures EXCEPT ![msgs[m].dest] = 0]
           /\ Reached(msgs[m].dest, 0)
    /\ UNCHANGED retry

SettleWait(g) ==
    /\ Answered(g, "wait")
    /\ \E hold \in {RetryStep(1), GiveUp} : Reached(msgs[senders[g].job].dest, hold)
    /\ UNCHANGED <<msgs, callbacks, retry, failures>>

\* A refused edit goes as a new message; anything else that is refused is over.
SettleRefused(g) ==
    /\ Answered(g, "refused")
    /\ LET m == senders[g].job
       IN  /\ msgs' = IF Edited(g) THEN [msgs EXCEPT ![m].plain = TRUE]
                      ELSE Ended(msgs, {m}, "refused")
           /\ failures' = [failures EXCEPT ![msgs[m].dest] = 0]
           /\ Reached(msgs[m].dest, 0)
    /\ UNCHANGED <<callbacks, retry>>

MoreFailures(n) == IF n < Len(setup.steps) THEN n + 1 ELSE n

\* Variant: every destination is held.
SettleServerAll(g) ==
    /\ Answered(g, "server")
    /\ LET m == senders[g].job
           d == msgs[m].dest
       IN  /\ failures' = [failures EXCEPT ![d] = MoreFailures(@)]
           /\ retry' = [e \in Dests |-> RetryStep(failures'[d])]
           /\ msgs' = GivenUp(m, WaitingTo(d))
           /\ Reached(d, 0)
    /\ UNCHANGED callbacks

SettleServer(g) ==
    /\ Answered(g, "server")
    /\ LET m == senders[g].job
           d == msgs[m].dest
       IN  /\ failures' = [failures EXCEPT ![d] = MoreFailures(@)]
           /\ retry' = [retry EXCEPT ![d] = RetryStep(failures'[d])]
           /\ msgs' = GivenUp(m, WaitingTo(d))
           /\ Reached(d, 0)
    /\ UNCHANGED callbacks

SettleUnreachable(g) ==
    /\ Answered(g, "unreachable")
    /\ down' = TRUE
    /\ probes' = MoreFailures(IF down THEN probes ELSE 0)
    /\ probe' = RetryStep(probes')
    /\ msgs' = GivenUp(senders[g].job, Waiting)
    /\ UNCHANGED <<callbacks, retry, failures, pause>>

-----------------------------------------------------------------------------
(* close(): _begin_close, _end_close *)

BeginClose ==
    /\ ~closing /\ Spend("closes")
    /\ closing' = TRUE
    /\ UNCHANGED <<setup, msgs, adapter, threads, timers, outside, arrived>>

Drained == Waiting = {} /\ inbox = <<>> /\ ~working /\ callbacks = <<>>

\* Everything is out, or the time is: what is left is given up, and so is the sender.
EndClose ==
    /\ closing
    /\ closing' = FALSE
    /\ IF thread = None
       THEN UNCHANGED <<msgs, inbox, callbacks, generation, thread, budget>>
       ELSE /\ (Drained /\ UNCHANGED budget) \/ (~Drained /\ Spend("timeouts"))
            /\ msgs' = Ended(msgs, Waiting, "closed")
            /\ inbox' = <<>> /\ callbacks' = <<>>
            /\ generation' = generation + 1
            /\ thread' = None
    /\ UNCHANGED <<setup, roots, senders, inFlight, working, timers, outside, arrived>>

-----------------------------------------------------------------------------
(* The world *)

Less(n) == IF n > 0 THEN n - 1 ELSE 0
Aging(m) == m \in Waiting /\ msgs[m].waited /\ msgs[m].age < GiveUp

\* Only requests take time: no tick passes before a sender has taken what is due, or
\* while it records and makes messages.
Busy(g) == \/ senders[g].pc = "work"
           \/ senders[g].pc = "look" /\ (WorkFirst(g) \/ g # generation \/ Due # {})

Tick ==
    /\ \A g \in DOMAIN senders : ~Busy(g)
    /\ probe > 0 \/ (\E d \in Dests : retry[d] > 0 \/ pause[d] > 0) \/ \E m \in Waiting : Aging(m)
    /\ probe' = Less(probe)
    /\ retry' = [d \in Dests |-> Less(retry[d])]
    /\ pause' = [d \in Dests |-> Less(pause[d])]
    /\ msgs' = [m \in DOMAIN msgs |-> [msgs[m] EXCEPT !.age = IF Aging(m) THEN @ + 1 ELSE @]]
    /\ UNCHANGED <<setup, adapter, threads, failures, down, probes, closing, outside, budget, arrived>>

Fail == /\ Spend("outages")
        /\ \E x \in (Dests \cup {None}) \ outside : outside' = outside \cup {x}
        /\ UNCHANGED <<setup, msgs, adapter, threads, timers, closing, arrived>>

Recover == /\ \E x \in outside : outside' = outside \ {x}
           /\ UNCHANGED <<setup, msgs, adapter, threads, timers, closing, budget, arrived>>

-----------------------------------------------------------------------------
Init ==
    /\ setup \in Setups
    /\ msgs = <<>> /\ inbox = <<>> /\ callbacks = <<>> /\ roots = [d \in Dests |-> None]
    /\ generation = 1 /\ thread = None /\ senders = <<>> /\ inFlight = None /\ working = FALSE
    /\ retry = [d \in Dests |-> 0] /\ failures = [d \in Dests |-> 0]
    /\ pause = [d \in Dests |-> 0]
    /\ down = FALSE /\ probes = 0 /\ probe = 0
    /\ closing = FALSE /\ outside = {}
    /\ budget = [texts |-> setup.texts, events |-> setup.events, refused |-> setup.faults.refused,
                 wait |-> setup.faults.wait, lost |-> setup.faults.lost,
                 outages |-> setup.outages, closes |-> setup.closes, timeouts |-> setup.timeouts]
    /\ arrived = <<>>

Sending(g) ==
    \/ TakeWork(g) \/ TakeDelivery(g) \/ Leave(g)
    \/ Record(g) \/ RunWork(g) \/ WorkDone(g)
    \/ Request(g)
    \/ SettleClosed(g) \/ SettleSent(g) \/ SettleWait(g) \/ SettleRefused(g)
    \/ SettleServer(g) \/ SettleUnreachable(g)

Send == \E g \in DOMAIN senders : Sending(g)

Next == SendText \/ PostEvent \/ Send \/ BeginClose \/ EndClose \/ Tick \/ Fail \/ Recover

\* The sender threads run and time passes; nothing makes a service come back.
Spec == Init /\ [][Next]_vars
FairSpec == Spec /\ WF_vars(Send) /\ WF_vars(Tick)

-----------------------------------------------------------------------------
(* Properties *)

Messages == DOMAIN msgs
Ends == {"sent", "refused", "withdrawn", "dropped", "superseded", "closed"}

\* "Messages to one destination go out in the order they were queued", part by part and
\* edits in their turn: through outages, retries and refused edits what reaches a chat
\* never goes back, and repeats only a request whose answer was lost.  (A request that
\* close() gave up may still arrive, beside the next session's.)
InOrder ==
    \A i, j \in DOMAIN arrived :
        LET a == arrived[i]
            b == arrived[j]
        IN  i < j /\ msgs[a.msg].dest = msgs[b.msg].dest =>
                \/ a.msg < b.msg \/ msgs[b.msg].st = "closed"
                \/ a.msg = b.msg /\ (a.part < b.part \/ (a.part = b.part /\ msgs[a.msg].lost))

\* What a caller or the adapter is told is what happened: a message that ended has
\* arrived as far as it is said to, then and ever after ("so it never arrives behind the
\* caller's back"), unless an answer was lost or close() gave up its request.
ToldTheTruth ==
    \A m \in Messages : msgs[m].st \in Ends \ {"closed"} /\ ~msgs[m].lost =>
        Cardinality({i \in DOMAIN arrived : arrived[i].msg = m}) =
            IF msgs[m].kind = "edit" /\ msgs[m].st = "sent" THEN 1 ELSE msgs[m].next

\* "A message can reply to an earlier one, or edit it, ... once the earlier one's id is
\* known": what follows an opening that went out in the same session carries its id.
RepliesFindTheirRoot ==
    \A i \in DOMAIN arrived, o \in Messages :
        LET m == arrived[i].msg
        IN  /\ Follows(m) /\ msgs[o].kind = "open" /\ msgs[o].st = "sent"
            /\ o < m /\ msgs[o].dest = msgs[m].dest /\ msgs[o].gen = msgs[m].gen
            => arrived[i].to = o

Most == Max({s.dests * (s.texts + s.events) : s \in Setups})

\* A call that waits returns, however long the outage: its message goes out or is
\* withdrawn at a failed try.
CallsReturn ==
    \A m \in 1..Most : (m \in Messages /\ msgs[m].waited) ~> (m \in Messages => msgs[m].st \in Ends)

\* "A server error does the same for its own destination only": a message for a chat
\* whose server answers goes out, whatever the others do.
OthersFlow ==
    \A m \in 1..Most :
        (m \in Messages) ~>
            (m \in Messages => msgs[m].st \in Ends \/ outside \cap {None, msgs[m].dest} # {})

\* No message waits for what it need not wait for: its caller, another chat's server.
NoneHeldUp == CallsReturn /\ OthersFlow
=============================================================================
