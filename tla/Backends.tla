------------------------------ MODULE Backends ------------------------------
(***************************************************************************)
(* The services a notifier sends through (notify/_telegram.py,             *)
(* _discord.py, _webhook.py, _email.py) and the digests of e-mail          *)
(* (notify/_core.py): the check of the setup when it is created, what each *)
(* answer of the service is taken for, edits of a message that is out,     *)
(* pictures, and trade messages gathered into one e-mail.                  *)
(*                                                                         *)
(* One destination of one service.  What holds a request back after a      *)
(* failure (module Notifier) is one tick here.  A text is queued by any    *)
(* thread, a trade message by the sender itself between two requests.      *)
(***************************************************************************)
EXTENDS Integers, Sequences, FiniteSets, FiniteSetsExt, TLC

CONSTANT Setups   \* the scenarios to explore: the service, its destination, and bounds

Service == {"telegram", "discord", "webhook", "email"}
Shape == {"text", "picture", "album"}  \* an album: a caption too long for its picture
Status == {"creator", "administrator", "member", "restricted", "left", "kicked"}

\* A destination: does the service know it, of what type is it, what may the bot do there.
Place == [known : BOOLEAN, type : {"private", "group", "channel"}, status : Status,
          may : BOOLEAN, inside : BOOLEAN, members : BOOLEAN]
Setup == [service  : Service,
          place    : Place,
          check    : BOOLEAN,
          digest   : Nat,             \* ticks trade messages are gathered, 0: never
          capacity : Nat \ {0},       \* MAX_WAITING
          texts    : Nat,             \* bound: send_text and send_photo calls
          shapes   : SUBSET Shape,
          trades   : Nat,             \* bound: trade messages
          edits    : Nat,             \* bound: edits of the trade's first message
          deletes  : Nat,             \* bound: somebody deletes that message
          faults   : [{"lost", "unreachable", "busy", "down", "broken", "foreign"} -> Nat],
          closes   : Nat]             \* bound: close() calls

VARIABLES
    setup,     \* the scenario, fixed at the start
    checked,   \* what the check said: "not yet", "passed", "carried on" or "raised"
    queue,     \* every message ever queued, in order
    request,   \* the one on its way, and what it carries; Nothing between two
    hold,      \* the last answer holds requests back for a tick
    flushing,  \* _flushing: a close() waits
    since,     \* history: ticks since the last digest that went, capped
    root,      \* the trade's first message, at the service: is it there, whose text it shows
    budget,    \* what the bounds leave
    arrived    \* history: the new messages at the destination, in order

vars == <<setup, checked, queue, request, hold, flushing, since, root, budget, arrived>>

Nothing == [lead |-> 0, batch |-> {}, answer |-> "", edit |-> FALSE]
Spend(what) == budget[what] > 0 /\ budget' = [budget EXCEPT ![what] = @ - 1]

-----------------------------------------------------------------------------
(* The destination's side (external): who may write there *)

\* What Telegram's rights come to; the other services have a URL or an address that works.
Welcome(p) ==
    /\ p.known
    /\ setup.service = "telegram" =>
           CASE p.type = "private" -> p.may
             [] p.type = "channel" -> p.status = "creator" \/ (p.status = "administrator" /\ p.may)
             [] OTHER -> \/ p.status \in {"creator", "administrator"}
                         \/ p.status = "member" /\ p.members
                         \/ p.status = "restricted" /\ p.inside /\ p.may

-----------------------------------------------------------------------------
(* The check of the setup: _check, _check_chat, _carry_on *)

\* getMe, getChat, and getChatMember for a group or a channel.
TelegramAccepts(p) ==
    /\ p.type = "channel" => p.status = "creator" \/ (p.status = "administrator" /\ p.may)
    /\ p.type = "group" => /\ p.status \notin {"left", "kicked"}
                           /\ p.status = "restricted" => p.inside /\ p.may
                           /\ p.status = "member" => p.members

\* The token and the chat, the webhook, or the login are known to the service.
Accepts(p) == p.known /\ (setup.service = "telegram" => TelegramAccepts(p))

\* A service that does not answer is said once, and the messages wait.  A webhook is asked
\* nothing.
Check ==
    /\ checked = "not yet"
    /\ \/ /\ ~setup.check \/ setup.service = "webhook"
          /\ checked' = "carried on" /\ UNCHANGED budget
       \/ /\ setup.check /\ setup.service # "webhook"
          /\ checked' = IF Accepts(setup.place) THEN "passed" ELSE "raised"
          /\ UNCHANGED budget
       \/ /\ setup.check /\ setup.service # "webhook"
          /\ Spend("unreachable") /\ checked' = "carried on"
    /\ UNCHANGED <<setup, queue, request, hold, flushing, since, root, arrived>>

Created == checked \in {"passed", "carried on"}

-----------------------------------------------------------------------------
(* Queueing: _enqueue, _queue_event, _trim_locked *)

Waiting == {m \in DOMAIN queue : queue[m].st = "waiting"}

Message(kind, shape) == [kind |-> kind, shape |-> shape, st |-> "waiting", next |-> 0, age |-> 0,
                         plain |-> kind # "edit", lost |-> FALSE, why |-> ""]

\* Past the capacity the oldest go, but not the one on its way -- of a digest, its leader.
Trimmed(q) ==
    LET here == {m \in DOMAIN q : q[m].st = "waiting"}
        over == Cardinality(here) - setup.capacity
        gone == {m \in here \ {request.lead} :
                    Cardinality({k \in here \ {request.lead} : k < m}) < over}
    IN  [m \in DOMAIN q |-> IF m \in gone THEN [q[m] EXCEPT !.st = "dropped"] ELSE q[m]]

SendText ==
    /\ Created /\ Spend("texts")
    /\ \E shape \in setup.shapes : queue' = Trimmed(Append(queue, Message("text", shape)))
    /\ UNCHANGED <<setup, checked, request, hold, flushing, since, root, arrived>>

\* A trade's message, or the edit of its first one.
TradeEvent(kind, bound) ==
    /\ Created /\ request = Nothing /\ Spend(bound)
    /\ queue' = Trimmed(Append(queue, Message(kind, "text")))
    /\ UNCHANGED <<setup, checked, request, hold, flushing, since, root, arrived>>

-----------------------------------------------------------------------------
(* What goes next: _ready_locked, _choose_digest_locked *)

Gathers(m) == setup.digest > 0 /\ queue[m].kind # "text" /\ queue[m].next = 0
Held == {m \in Waiting : Gathers(m)}
InTurn == Waiting \ Held

\* The oldest has waited long enough, or the notifier closes.
DigestDue == Held # {} /\ (queue[Min(Held)].age >= setup.digest \/ flushing)

\* A message of its own goes in its turn, before what is gathered.
Ready == IF InTurn # {} THEN {Min(InTurn)} ELSE IF DigestDue THEN {Min(Held)} ELSE {}

\* Only an edit of a message that is known, by a service that can edit; else its text.
Edits(m) == queue[m].kind = "edit" /\ ~queue[m].plain /\ setup.service \in {"telegram", "discord"}

\* A caption too long for its picture goes as a reply to the picture.
Parts(m) == IF queue[m].shape = "album" /\ setup.service \in {"telegram", "discord"} THEN 2 ELSE 1

Requests(m, batch, edit) ==
    /\ Created /\ request = Nothing /\ ~hold
    /\ request' = [lead |-> m, batch |-> batch, answer |-> "", edit |-> edit]
    /\ UNCHANGED <<setup, checked, queue, hold, flushing, since, root, budget, arrived>>

\* A message, or the next part of it: _deliver, _deliver_media.
Deliver == \E m \in Ready : ~Gathers(m) /\ ~Edits(m) /\ Requests(m, {m}, FALSE)

\* _edit, _edit_caption
Edit == \E m \in Ready : Edits(m) /\ Requests(m, {m}, TRUE)

\* _attempt_digest: all that is held, as one e-mail.
DeliverDigest == \E m \in Ready : Gathers(m) /\ Requests(m, Held, FALSE)

\* A picture that cannot be made: its text goes alone, or -- a picture somebody asked for --
\* the message is refused.
PictureFails ==
    /\ Created /\ request = Nothing /\ ~hold /\ Spend("broken")
    /\ \E m \in Ready :
           /\ queue[m].shape # "text" /\ queue[m].next = 0
           /\ \/ queue' = [queue EXCEPT ![m].shape = "text"]
              \/ ~Gathers(m) /\ queue' = [queue EXCEPT ![m].st = "refused", ![m].why = "picture"]
    /\ UNCHANGED <<setup, checked, request, hold, flushing, since, root, arrived>>

-----------------------------------------------------------------------------
(* The service answers *)

Answered(a) == request' = [request EXCEPT !.answer = a]
Lost == queue' = [m \in DOMAIN queue |->
                     IF m \in request.batch THEN [queue[m] EXCEPT !.lost = TRUE] ELSE queue[m]]

\* It takes the request; the answer arrives or is lost, or something between gives its own.
Take ==
    /\ request # Nothing /\ request.answer = "" /\ Welcome(setup.place)
    /\ request.edit => root.there /\ root.shows # request.lead
    /\ IF request.edit
       THEN root' = [root EXCEPT !.shows = request.lead] /\ UNCHANGED arrived
       ELSE arrived' = Append(arrived, request.batch) /\ UNCHANGED root
    /\ \/ Answered("ok") /\ UNCHANGED <<queue, budget>>
       \/ Answered("nothing") /\ Lost /\ Spend("lost")
    /\ UNCHANGED <<setup, checked, hold, flushing, since>>

\* An edit that changes nothing: Telegram refuses it, Discord answers as to any other.
TakeAgain ==
    /\ request # Nothing /\ request.answer = "" /\ Welcome(setup.place)
    /\ request.edit /\ root.there /\ root.shows = request.lead
    /\ Answered(IF setup.service = "telegram" THEN "unchanged" ELSE "ok")
    /\ UNCHANGED <<setup, checked, queue, hold, flushing, since, root, budget, arrived>>

\* It cannot take it.
Refuse ==
    /\ request # Nothing /\ request.answer = ""
    /\ ~Welcome(setup.place) \/ (request.edit /\ ~root.there)
    /\ Answered("refused")
    /\ UNCHANGED <<setup, checked, queue, hold, flushing, since, root, budget, arrived>>

\* It does not take it now; a text it cannot read; a page of somebody else's.
Trouble ==
    /\ request # Nothing /\ request.answer = ""
    /\ \E what \in {"unreachable", "busy", "down", "broken", "foreign"} :
           Spend(what) /\ Answered(IF what = "unreachable" THEN "nothing" ELSE what)
    /\ UNCHANGED <<setup, checked, queue, hold, flushing, since, root, arrived>>

-----------------------------------------------------------------------------
(* What the answer is taken for: _parse_answer, _outcome, _by_code, _request, _send *)

\* The HTTP status of an answer, 0 when nothing came back.
Http(a) == CASE a \in {"ok", "foreign"} -> 200
             [] a = "nothing" -> 0
             [] a = "busy" -> 429
             [] a = "down" -> 500
             [] OTHER -> 400

ByStatus(status) == CASE status = 0 -> "unreachable"
                      [] status \in 200..299 -> "sent"
                      [] status = 429 -> "wait"
                      [] status >= 500 -> "server"
                      [] OTHER -> "refused"

\* The SMTP reply of an answer; what is not a mail server's reply is a connection that broke.
Smtp(a) == CASE a = "ok" -> 250
             [] a \in {"nothing", "foreign"} -> 0
             [] a \in {"busy", "down"} -> 450
             [] OTHER -> 550
BySmtp(code) == CASE code = 0 -> "unreachable"
                  [] code \in 200..299 -> "sent"
                  [] code \in 400..499 -> "server"
                  [] OTHER -> "refused"

\* The JSON says so itself; a 2xx page of somebody else's is a server's trouble; and an
\* edit that changes nothing is done.
TelegramOutcome(a) == IF a = "unchanged" /\ request.edit THEN "sent"
                      ELSE ByStatus(IF a = "foreign" THEN 502 ELSE Http(a))
DiscordOutcome(a) == ByStatus(Http(a))
\* One target that is silent is its own trouble, not the network's.
WebhookOutcome(a) == IF Http(a) = 0 THEN "server" ELSE ByStatus(Http(a))
EmailOutcome(a) == BySmtp(Smtp(a))

Outcome(a) == CASE setup.service = "telegram" -> TelegramOutcome(a)
                [] setup.service = "discord"  -> DiscordOutcome(a)
                [] setup.service = "webhook"  -> WebhookOutcome(a)
                [] setup.service = "email"    -> EmailOutcome(a)

-----------------------------------------------------------------------------
(* _settle_locked *)

Finished(S, how, why) ==
    queue' = [m \in DOMAIN queue |->
                 IF m \in S /\ queue[m].st = "waiting" THEN [queue[m] EXCEPT !.st = how, !.why = why]
                 ELSE queue[m]]

Settles(outcomes) ==
    /\ request # Nothing /\ request.answer # "" /\ Outcome(request.answer) \in outcomes
    /\ request' = Nothing
    /\ UNCHANGED <<setup, checked, flushing, root, budget, arrived>>

\* Variant: of a digest only its leader is done.
SettleSentLeader ==
    /\ Settles({"sent"})
    /\ LET m == request.lead
       IN  IF request.edit \/ Gathers(m) \/ queue[m].next + 1 = Parts(m)
           THEN Finished({m}, "sent", "")
           ELSE queue' = [queue EXCEPT ![m].next = @ + 1]
    /\ since' = IF Gathers(request.lead) THEN 0 ELSE since
    /\ UNCHANGED hold

\* A part went out; a digest, an edit and a last part are done.
SettleSent ==
    /\ Settles({"sent"})
    /\ LET m == request.lead
       IN  IF request.edit \/ Gathers(m) \/ queue[m].next + 1 = Parts(m)
           THEN Finished(request.batch, "sent", "")
           ELSE queue' = [queue EXCEPT ![m].next = @ + 1]
    /\ since' = IF Gathers(request.lead) THEN 0 ELSE since
    /\ UNCHANGED hold

\* An edit that is refused goes as a new message; anything else is over.
SettleRefused ==
    /\ Settles({"refused"})
    /\ IF request.edit THEN queue' = [queue EXCEPT ![request.lead].plain = TRUE]
       ELSE Finished(request.batch, "refused", request.answer)
    /\ UNCHANGED <<hold, since>>

\* Tried again later: a server's error, a wait, or nothing at all.
SettleLater ==
    /\ Settles({"wait", "server", "unreachable"})
    /\ hold' = TRUE
    /\ UNCHANGED <<queue, since>>

-----------------------------------------------------------------------------
(* Time, close(), and somebody in the chat *)

\* No time passes while the sender has something to do; a request may take a tick.
Tick ==
    /\ request # Nothing \/ hold \/ Ready = {}
    /\ hold \/ \E m \in Waiting : queue[m].age < setup.digest
    /\ hold' = FALSE
    /\ since' = IF since < setup.digest THEN since + 1 ELSE since
    /\ queue' = [m \in DOMAIN queue |->
                    IF m \in Waiting /\ queue[m].age < setup.digest THEN [queue[m] EXCEPT !.age = @ + 1]
                    ELSE queue[m]]
    /\ UNCHANGED <<setup, checked, request, flushing, root, budget, arrived>>

BeginClose ==
    /\ Created /\ ~flushing /\ Spend("closes")
    /\ flushing' = TRUE
    /\ UNCHANGED <<setup, checked, queue, request, hold, since, root, arrived>>

EndClose ==
    /\ flushing /\ Waiting = {} /\ request = Nothing
    /\ flushing' = FALSE
    /\ UNCHANGED <<setup, checked, queue, request, hold, since, root, budget, arrived>>

Delete ==
    /\ root.there /\ Spend("deletes")
    /\ root' = [root EXCEPT !.there = FALSE]
    /\ UNCHANGED <<setup, checked, queue, request, hold, flushing, since, arrived>>

-----------------------------------------------------------------------------
Init ==
    /\ setup \in Setups
    /\ checked = "not yet" /\ queue = <<>> /\ request = Nothing /\ hold = FALSE
    /\ flushing = FALSE /\ since = setup.digest
    /\ root = [there |-> TRUE, shows |-> 0]
    /\ budget = [texts |-> setup.texts, trades |-> setup.trades, edits |-> setup.edits,
                 deletes |-> setup.deletes, closes |-> setup.closes] @@ setup.faults
    /\ arrived = <<>>

Next == \/ Check \/ SendText \/ TradeEvent("trade", "trades") \/ TradeEvent("edit", "edits")
        \/ Deliver \/ Edit \/ DeliverDigest \/ PictureFails
        \/ Take \/ TakeAgain \/ Refuse \/ Trouble
        \/ SettleSent \/ SettleRefused \/ SettleLater
        \/ Tick \/ BeginClose \/ EndClose \/ Delete

Spec == Init /\ [][Next]_vars

-----------------------------------------------------------------------------
(* Properties *)

Copies(m) == Cardinality({i \in DOMAIN arrived : m \in arrived[i]})

\* "checked now": where the check passed, no message is refused for want of rights -- but in
\* a private chat, where only a message shows that the person has blocked the bot.
CheckIsEnough ==
    \A m \in DOMAIN queue :
        queue[m].st = "refused" /\ queue[m].why = "refused" /\ checked = "passed" =>
            setup.place.type = "private"

\* "a trailing stop edits the trade's first message": an edit becomes a message of its own
\* only when the first one is gone, not because its answer was lost and it was sent again.
EditsStayEdits ==
    \A m \in DOMAIN queue :
        queue[m].kind = "edit" /\ queue[m].plain /\ setup.service \in {"telegram", "discord"} =>
            ~root.there \/ budget.broken < setup.faults.broken \/ ~Welcome(setup.place)

\* "A busy strategy then sends at most 96 digests a day per recipient": whatever comes
\* while one is on its way or is tried again, two digests are a digest's wait apart, but
\* for those a close() sends.
DigestsWait ==
    request = Nothing /\ request' # Nothing /\ Gathers(request'.lead) => flushing \/ since = setup.digest
DigestsApart == [][DigestsWait]_vars

\* What ended as sent arrived once, part by part, and once more only for an answer that was
\* lost; what was refused or given up as "not sent" is in no e-mail and no chat.
SentIsWhatArrived ==
    \A m \in DOMAIN queue :
        /\ queue[m].st = "sent" /\ ~queue[m].lost /\ queue[m].plain => Copies(m) = Parts(m)
        /\ queue[m].st = "refused" /\ ~queue[m].lost => Copies(m) = queue[m].next

\* The same of what the queue's limit dropped: "dropped: the queue was full; not sent".
DroppedIsNotSent ==
    \A m \in DOMAIN queue : queue[m].st = "dropped" /\ ~queue[m].lost => Copies(m) = queue[m].next
=============================================================================
