---------------------------- MODULE NotifierProofs ----------------------------
(***************************************************************************)
(* The order, the truth and the threads of what a notifier delivers, for   *)
(* every number of chats, messages, failures, and closes on a timeout with *)
(* the requests they leave behind.                                         *)
(***************************************************************************)
EXTENDS Notifier, FiniteSetTheorems, SequenceTheorems, WellFoundedInduction, TLAPS

Kind == {"text", "open", "reply", "edit"}
Event == {"open", "reply", "edit"}
Message == [kind : Kind, dest : Dests, parts : Nat \ {0}, next : Nat, waited : BOOLEAN, age : Nat,
            gen : Nat, st : Ends \cup {"waiting"}, plain : BOOLEAN, lost : BOOLEAN]
Answers == {"", "sent", "refused", "wait", "server", "unreachable"}
State == [pc : {"look", "work", "request", "answered", "gone"}, job : Nat, answer : Answers,
          to : Nat, records : Seq(Nat), work : Seq(Event)]
Copy == [msg : Nat, part : Nat, to : Nat]

NotifierTypeOK ==
    /\ setup \in Setups
    /\ msgs \in Seq(Message) /\ inbox \in Seq(Event) /\ callbacks \in Seq(Nat)
    /\ roots \in [Dests -> Nat] /\ generation \in Nat \ {0} /\ thread \in {None, generation}
    /\ senders \in Seq(State) /\ inFlight \in Nat /\ arrived \in Seq(Copy)
    /\ Len(senders) = IF thread = None THEN generation - 1 ELSE generation

Asking(g) == senders[g].pc \in {"request", "answered"}
\* A request for m went out, and its answer is not yet settled.
Delivered(m) ==
    /\ thread /= None
    /\ senders[generation].pc = "answered" /\ senders[generation].answer = "sent"
    /\ senders[generation].job = m

\* What waits is of this session, and not all of it is out.
MessageInv ==
    \A m \in 1..Len(msgs) :
        /\ msgs[m].gen <= generation
        /\ msgs[m].st = "waiting" =>
               thread /= None /\ msgs[m].gen = generation /\ msgs[m].next < msgs[m].parts
        /\ msgs[m].st = "sent" => msgs[m].next = msgs[m].parts
        /\ msgs[m].kind /= "text" => msgs[m].parts = 1
        /\ \A n \in 1..m : msgs[n].gen <= msgs[m].gen

\* The current sender has the first message of a chat in hand, an old one what close gave up.
FrontInv ==
    \A g \in 1..Len(senders) : Asking(g) =>
        LET m == senders[g].job
        IN  /\ m \in 1..Len(msgs) /\ msgs[m].gen = g
            /\ g = generation =>
                   /\ thread /= None /\ inFlight = m /\ msgs[m].st = "waiting"
                   /\ \A k \in Waiting : msgs[k].dest = msgs[m].dest => m <= k
            /\ g /= generation \/ thread = None => msgs[m].st = "closed"

\* Nothing that waits is behind what has reached its chat.
PassedInv ==
    \A i \in 1..Len(arrived) :
        LET a == arrived[i]
        IN  /\ a.msg \in 1..Len(msgs)
            /\ \A m \in Waiting : msgs[m].dest = msgs[a.msg].dest => a.msg <= m
            /\ msgs[a.msg].st = "waiting" =>
                   /\ a.part <= msgs[a.msg].next + 1
                   /\ a.part = msgs[a.msg].next + 1 => msgs[a.msg].lost \/ Delivered(a.msg)

Copies(m) == {i \in 1..Len(arrived) : arrived[i].msg = m}

CountInv ==
    \A m \in 1..Len(msgs) : msgs[m].st /= "closed" /\ ~msgs[m].lost =>
        Cardinality(Copies(m)) = msgs[m].next + (IF Delivered(m) THEN 1 ELSE 0)

IInv == NotifierTypeOK /\ MessageInv /\ FrontInv /\ PassedInv /\ CountInv /\ InOrder

-----------------------------------------------------------------------------
(* The trade's opening *)

\* A chat takes one request in a step of the clock: Telegram, Discord and mail do; a webhook
\* takes more, and cannot reply.
Paced == \A s \in Setups : s.pace >= 1

IsOpening(m) == msgs[m].kind = "open"
NoOpening == \A m \in 1..Len(msgs) : ~IsOpening(m)
NoneIn(s) == \A i \in 1..Len(s) : s[i] /= "open"
NoneInHand == \A g \in 1..Len(senders) : NoneIn(senders[g].work)
OnceIn(s) == \A i, j \in 1..Len(s) : s[i] = "open" /\ s[j] = "open" => i = j

\* The trade is opened once: posted, in a sender's hand, or made into messages.
OpeningInv ==
    /\ "events" \in DOMAIN budget /\ budget.events \in Nat /\ budget.events <= setup.events
    /\ budget.events = setup.events => NoOpening /\ NoneIn(inbox) /\ NoneInHand
    /\ ~NoneIn(inbox) => NoOpening /\ NoneInHand /\ OnceIn(inbox)
    /\ \A g \in 1..Len(senders) : ~NoneIn(senders[g].work) =>
           /\ NoOpening /\ OnceIn(senders[g].work)
           /\ \A h \in 1..Len(senders) : h /= g => NoneIn(senders[h].work)
    /\ \A m, n \in 1..Len(msgs) :
           IsOpening(m) /\ IsOpening(n) /\ msgs[m].dest = msgs[n].dest => m = n

Known(o) == o \in 1..Len(msgs) /\ IsOpening(o)

\* Only what is at work holds records and work, and only the current sender leaves callbacks.
HandInv ==
    /\ \A g \in 1..Len(senders) : senders[g].pc /= "work" =>
           senders[g].records = <<>> /\ senders[g].work = <<>>
    /\ callbacks /= <<>> => thread /= None /\ senders[generation].pc = "look"
    /\ \A i \in 1..Len(callbacks) : Known(callbacks[i])
    /\ \A g \in 1..Len(senders) : \A i \in 1..Len(senders[g].records) :
           Known(senders[g].records[i])

Unrecorded(o) ==
    \/ \E i \in 1..Len(callbacks) : callbacks[i] = o
    \/ \E g \in 1..Len(senders) : \E i \in 1..Len(senders[g].records) : senders[g].records[i] = o

SentOpening(o) == IsOpening(o) /\ msgs[o].st = "sent"

\* Until the opening that went out is recorded its chat is paced.
RootInv ==
    /\ DOMAIN pause = Dests
    /\ \A o \in 1..Len(msgs) : SentOpening(o) /\ msgs[o].gen = generation =>
           roots[msgs[o].dest] = o \/ (Unrecorded(o) /\ pause[msgs[o].dest] /= 0)

RequestInv ==
    \A g \in 1..Len(senders) : senders[g].pc = "request" =>
        LET m == senders[g].job
        IN  \A o \in 1..Len(msgs) :
                SentOpening(o) /\ msgs[o].gen = g /\ msgs[o].dest = msgs[m].dest =>
                    roots[msgs[m].dest] = o

RInv == OpeningInv /\ HandInv /\ RootInv /\ RequestInv /\ RepliesFindTheirRoot

-----------------------------------------------------------------------------
(* Operators of the model *)

LEMMA SetupFacts ==
    ASSUME setup \in Setups
    PROVE  /\ setup.dests \in Nat /\ setup.dests >= 1 /\ setup.pace \in Nat
           /\ setup.events \in Nat /\ setup.parts \subseteq Nat \ {0}
           /\ setup.waits \subseteq BOOLEAN
BY SetupsAssumption DEF Setup

LEMMA LeastNumber ==
    ASSUME NEW T, T \subseteq Nat, T /= {}
    PROVE  Min(T) \in T /\ \A x \in T : Min(T) <= x
<1> DEFINE Smaller == {pair \in Nat \X Nat : pair[1] < pair[2]}
<1>1. IsWellFoundedOn(Smaller, Nat)
  BY NatLessThanWellFounded, Zenon DEF OpToRel
<1> HIDE DEF Smaller
<1>2. PICK x \in T : \A y \in T : ~(<<y, x>> \in Smaller)
  BY <1>1, WFMin
<1>3. \A y \in T : x <= y
  <2> SUFFICES ASSUME NEW y \in T PROVE x <= y
    OBVIOUS
  <2>1. ~(<<y, x>> \in Smaller)
    BY <1>2
  <2> QED BY <2>1 DEF Smaller
<1> QED BY <1>3 DEF Min

LEMMA MessageFacts ==
    ASSUME NEW ms \in Seq(Message)
    PROVE  /\ Len(ms) \in Nat /\ DOMAIN ms = 1..Len(ms)
           /\ \A m \in 1..Len(ms) :
                  /\ ms[m] \in Message /\ ms[m].kind \in Kind /\ ms[m].dest \in Dests
                  /\ ms[m].parts \in Nat \ {0} /\ ms[m].next \in Nat /\ ms[m].gen \in Nat
                  /\ ms[m].st \in Ends \cup {"waiting"} /\ ms[m].lost \in BOOLEAN
                  /\ ms[m].plain \in BOOLEAN /\ ms[m].age \in Nat
<1>1. Len(ms) \in Nat /\ DOMAIN ms = 1..Len(ms) /\ \A m \in 1..Len(ms) : ms[m] \in Message
  BY ElementOfSeq, LenProperties
<1> QED BY <1>1 DEF Message

LEMMA WaitingFacts ==
    ASSUME NotifierTypeOK
    PROVE  /\ \A m : m \in Waiting <=> m \in 1..Len(msgs) /\ msgs[m].st = "waiting"
           /\ \A m, d : m \in WaitingTo(d) <=> m \in Waiting /\ msgs[m].dest = d
           /\ Waiting \subseteq Nat
<1>1. DOMAIN msgs = 1..Len(msgs) /\ Len(msgs) \in Nat
  BY MessageFacts DEF NotifierTypeOK
<1> QED BY <1>1 DEF Waiting, WaitingTo

LEMMA SameMessages ==
    ASSUME setup' = setup
    PROVE  Dests' = Dests /\ Message' = Message
<1>1. Dests' = Dests
  BY DEF Dests
<1> QED BY <1>1 DEF Message

LEMMA WaitingNext ==
    ASSUME NotifierTypeOK', setup' = setup
    PROVE  \A m : m \in Waiting' <=> m \in 1..Len(msgs') /\ msgs'[m].st = "waiting"
<1>1. msgs' \in Seq(Message)
  BY SameMessages DEF NotifierTypeOK
<1>2. DOMAIN msgs' = 1..Len(msgs')
  BY <1>1, MessageFacts
<1> QED BY <1>2 DEF Waiting

LEMMA StateFacts ==
    ASSUME NotifierTypeOK, NEW g \in 1..Len(senders)
    PROVE  /\ senders[g] \in State /\ senders[g].job \in Nat /\ senders[g].to \in Nat
           /\ senders[g].pc \in {"look", "work", "request", "answered", "gone"}
           /\ senders[g].answer \in Answers
           /\ senders[g].records \in Seq(Nat) /\ senders[g].work \in Seq(Event)
           /\ g \in Nat /\ g <= generation /\ (g = generation => thread /= None)
<1>1. senders[g] \in State
  BY ElementOfSeq DEF NotifierTypeOK
<1>2. /\ generation \in Nat \ {0} /\ Len(senders) \in Nat
      /\ Len(senders) = IF thread = None THEN generation - 1 ELSE generation
  BY LenProperties DEF NotifierTypeOK
<1>3. g \in Nat /\ g <= generation /\ (g = generation => thread /= None)
  BY <1>2
<1> QED BY <1>1, <1>3 DEF State

LEMMA SenderFacts ==
    ASSUME NotifierTypeOK, NEW g \in 1..Len(senders), NEW s \in State, Sender(g, s)
    PROVE  /\ senders' \in Seq(State) /\ Len(senders') = Len(senders)
           /\ senders'[g] = s
           /\ \A h \in 1..Len(senders) : h /= g => senders'[h] = senders[h]
BY ExceptSeq DEF Sender, NotifierTypeOK

LEMMA IdleFacts ==
    /\ Idle \in State /\ Idle.pc = "look" /\ Idle.records = <<>> /\ Idle.work = <<>>
    /\ \A pc \in {"look", "gone"} :
           [Idle EXCEPT !.pc = pc] \in State /\ [Idle EXCEPT !.pc = pc].pc = pc
           /\ [Idle EXCEPT !.pc = pc].records = <<>> /\ [Idle EXCEPT !.pc = pc].work = <<>>
<1>1. <<>> \in Seq(Nat) /\ <<>> \in Seq(Event)
  BY EmptySeq
<1>2. None \in Nat
  BY DEF None
<1> QED BY <1>1, <1>2 DEF Idle, State, Answers

\* Messages that end keep everything else.
LEMMA EndedFacts ==
    ASSUME NEW ms \in Seq(Message), NEW S, NEW how \in Ends
    PROVE  /\ Ended(ms, S, how) \in Seq(Message) /\ Len(Ended(ms, S, how)) = Len(ms)
           /\ \A m \in 1..Len(ms) :
                  Ended(ms, S, how)[m] = IF m \in S THEN [ms[m] EXCEPT !.st = how] ELSE ms[m]
<1> DEFINE Row(m) == IF m \in S THEN [ms[m] EXCEPT !.st = how] ELSE ms[m]
<1>1. Len(ms) \in Nat /\ DOMAIN ms = 1..Len(ms) /\ \A m \in 1..Len(ms) : ms[m] \in Message
  BY MessageFacts
<1>2. \A m \in 1..Len(ms) : Row(m) \in Message
  BY <1>1 DEF Message
<1>3. Ended(ms, S, how) = [m \in 1..Len(ms) |-> Row(m)]
  BY <1>1 DEF Ended
<1> HIDE DEF Row
<1>4. [m \in 1..Len(ms) |-> Row(m)] \in Seq(Message)
  BY <1>1, <1>2
<1>5. Len([m \in 1..Len(ms) |-> Row(m)]) = Len(ms)
  BY <1>1
<1>6. \A m \in 1..Len(ms) : Ended(ms, S, how)[m] = Row(m)
  BY <1>3
<1> QED BY <1>3, <1>4, <1>5, <1>6 DEF Row

-----------------------------------------------------------------------------
(* How the messages change *)

\* What may become of the messages while nothing arrives and no answer is settled.
Evolves(ms, ns) ==
    /\ Len(ms) <= Len(ns)
    /\ \A m \in 1..Len(ms) :
           /\ ns[m].kind = ms[m].kind /\ ns[m].dest = ms[m].dest /\ ns[m].parts = ms[m].parts
           /\ ns[m].gen = ms[m].gen /\ ns[m].next = ms[m].next /\ (ms[m].lost => ns[m].lost)
           /\ ns[m].st = ms[m].st \/ ms[m].st = "waiting"
           /\ ns[m].st = "sent" => ms[m].st = "sent"
    /\ \A m \in 1..Len(ns) : m > Len(ms) =>
           /\ ns[m].gen = generation /\ ns[m].next = 0 /\ ns[m].lost = FALSE
           /\ ns[m].st \notin {"closed", "sent"}
           /\ ns[m].kind /= "text" => ns[m].parts = 1

LEMMA SameEvolves ==
    ASSUME NEW ms \in Seq(Message)
    PROVE  Evolves(ms, ms)
<1>1. Len(ms) \in Nat
  BY MessageFacts
<1> QED BY <1>1 DEF Evolves

LEMMA EndedEvolves ==
    ASSUME NEW ms \in Seq(Message), NEW S, \A m \in S : m \in 1..Len(ms) => ms[m].st = "waiting",
           NEW how \in Ends \ {"sent"}
    PROVE  Evolves(ms, Ended(ms, S, how))
<1>1. Len(ms) \in Nat /\ \A m \in 1..Len(ms) : ms[m] \in Message
  BY MessageFacts
<1>2. /\ Len(Ended(ms, S, how)) = Len(ms)
      /\ \A m \in 1..Len(ms) :
             Ended(ms, S, how)[m] = IF m \in S THEN [ms[m] EXCEPT !.st = how] ELSE ms[m]
  BY EndedFacts
<1>3. ASSUME NEW m \in 1..Len(ms)
      PROVE  LET n == Ended(ms, S, how)[m]
             IN  /\ n.kind = ms[m].kind /\ n.dest = ms[m].dest /\ n.parts = ms[m].parts
                 /\ n.gen = ms[m].gen /\ n.next = ms[m].next /\ n.lost = ms[m].lost
                 /\ n.st = ms[m].st \/ ms[m].st = "waiting"
                 /\ n.st = "sent" => ms[m].st = "sent"
  <2>1. CASE m \in S
    <3>1. Ended(ms, S, how)[m] = [ms[m] EXCEPT !.st = how] /\ ms[m].st = "waiting"
      BY <1>2, <2>1
    <3> QED BY <1>1, <3>1 DEF Message
  <2>2. CASE m \notin S
    BY <1>2, <2>2
  <2> QED BY <2>1, <2>2
<1> QED BY <1>1, <1>2, <1>3 DEF Evolves

-----------------------------------------------------------------------------
(* Steps in which nothing arrives and no answer is settled *)

LEMMA MessageKept ==
    ASSUME IInv, NotifierTypeOK', setup' = setup, generation' >= generation,
           Evolves(msgs, msgs'),
           \A m \in 1..Len(msgs') : msgs'[m].st = "waiting" =>
               thread' /= None /\ generation' = generation
    PROVE  MessageInv'
<1>1. /\ msgs \in Seq(Message) /\ msgs' \in Seq(Message)
      /\ generation \in Nat /\ generation' \in Nat
  BY SameMessages DEF IInv, NotifierTypeOK
<1>2. Len(msgs) \in Nat /\ Len(msgs') \in Nat
  BY <1>1, MessageFacts
<1>3. /\ \A m \in 1..Len(msgs) : msgs[m].gen \in Nat /\ msgs[m].gen <= generation
      /\ \A m \in 1..Len(msgs') : msgs'[m].gen \in Nat
  BY <1>1, MessageFacts DEF IInv, MessageInv
<1>4. \A m \in 1..Len(msgs) :
          /\ msgs'[m].kind = msgs[m].kind /\ msgs'[m].parts = msgs[m].parts
          /\ msgs'[m].gen = msgs[m].gen /\ msgs'[m].next = msgs[m].next
          /\ msgs'[m].st = msgs[m].st \/ msgs[m].st = "waiting"
          /\ msgs'[m].st = "sent" => msgs[m].st = "sent"
  BY DEF Evolves
<1>5. \A m \in 1..Len(msgs') : m \notin 1..Len(msgs) =>
          /\ m > Len(msgs) /\ msgs'[m].gen = generation /\ msgs'[m].next = 0
          /\ msgs'[m].st /= "sent"
          /\ msgs'[m].kind /= "text" => msgs'[m].parts = 1
  BY <1>2 DEF Evolves
<1>6. ASSUME NEW m \in 1..Len(msgs'), NEW n \in 1..m PROVE msgs'[n].gen <= msgs'[m].gen
  <2>1. n \in 1..Len(msgs')
    BY <1>2
  <2>2. CASE m \in 1..Len(msgs)
    <3>1. n \in 1..Len(msgs) /\ msgs[n].gen <= msgs[m].gen
      BY <1>2, <2>2 DEF IInv, MessageInv
    <3> QED BY <1>4, <2>2, <3>1
  <2>3. CASE m \notin 1..Len(msgs)
    <3>1. msgs'[m].gen = generation
      BY <1>5, <2>3
    <3>2. msgs'[n].gen <= generation
      <4>1. CASE n \in 1..Len(msgs)
        BY <1>3, <1>4, <4>1
      <4>2. CASE n \notin 1..Len(msgs)
        BY <1>1, <1>5, <2>1, <4>2
      <4> QED BY <4>1, <4>2
    <3> QED BY <3>1, <3>2
  <2> QED BY <2>2, <2>3
<1>7. MessageInv'
  <2> SUFFICES ASSUME NEW m \in 1..Len(msgs')
               PROVE  /\ msgs'[m].gen <= generation'
                      /\ msgs'[m].st = "waiting" =>
                             thread' /= None /\ msgs'[m].gen = generation'
                             /\ msgs'[m].next < msgs'[m].parts
                      /\ msgs'[m].st = "sent" => msgs'[m].next = msgs'[m].parts
                      /\ msgs'[m].kind /= "text" => msgs'[m].parts = 1
    BY <1>6 DEF MessageInv
  <2>1. msgs'[m].parts \in Nat \ {0} /\ msgs'[m].gen \in Nat
    BY <1>1, MessageFacts
  <2>2. CASE m \in 1..Len(msgs)
    <3>1. /\ msgs[m].gen <= generation
          /\ msgs[m].st = "waiting" => msgs[m].gen = generation /\ msgs[m].next < msgs[m].parts
          /\ msgs[m].st = "sent" => msgs[m].next = msgs[m].parts
          /\ msgs[m].kind /= "text" => msgs[m].parts = 1
      BY <2>2 DEF IInv, MessageInv
    <3>2. msgs'[m].gen <= generation'
      BY <1>1, <1>4, <2>1, <2>2, <3>1
    <3> QED BY <1>4, <2>2, <3>1, <3>2
  <2>3. CASE m \notin 1..Len(msgs)
    <3>1. msgs'[m].gen <= generation' /\ 0 < msgs'[m].parts
      BY <1>1, <1>5, <2>1, <2>3
    <3> QED BY <1>5, <2>3, <3>1
  <2> QED BY <2>2, <2>3
<1> QED BY <1>7

LEMMA BooksKept ==
    ASSUME IInv, NotifierTypeOK', setup' = setup, generation' >= generation, arrived' = arrived,
           Evolves(msgs, msgs'),
           \A m \in 1..Len(msgs') : msgs'[m].st = "waiting" =>
               thread' /= None /\ generation' = generation,
           \A m \in 1..Len(msgs') : msgs'[m].st /= "closed" => (Delivered(m)' <=> Delivered(m))
    PROVE  MessageInv' /\ PassedInv' /\ CountInv' /\ InOrder'
<1>1. /\ msgs \in Seq(Message) /\ msgs' \in Seq(Message) /\ arrived \in Seq(Copy)
      /\ generation \in Nat /\ generation' \in Nat
  BY SameMessages DEF IInv, NotifierTypeOK
<1>2. /\ Len(msgs) \in Nat /\ Len(msgs') \in Nat /\ Len(arrived) \in Nat
      /\ DOMAIN arrived = 1..Len(arrived)
      /\ \A i \in 1..Len(arrived) : arrived[i] \in Copy
  BY <1>1, MessageFacts, LenProperties, ElementOfSeq
<1>3. Len(msgs) <= Len(msgs')
  BY DEF Evolves
<1>4. \A m \in 1..Len(msgs) :
          /\ msgs'[m].kind = msgs[m].kind /\ msgs'[m].dest = msgs[m].dest
          /\ msgs'[m].parts = msgs[m].parts
          /\ msgs'[m].gen = msgs[m].gen /\ msgs'[m].next = msgs[m].next
          /\ msgs[m].lost => msgs'[m].lost
          /\ msgs'[m].st = msgs[m].st \/ msgs[m].st = "waiting"
          /\ msgs'[m].st = "sent" => msgs[m].st = "sent"
  BY DEF Evolves
<1>5. \A m \in 1..Len(msgs') : m \notin 1..Len(msgs) =>
          /\ m > Len(msgs) /\ msgs'[m].gen = generation /\ msgs'[m].next = 0
          /\ msgs'[m].lost = FALSE /\ msgs'[m].st \notin {"closed", "sent"}
          /\ msgs'[m].kind /= "text" => msgs'[m].parts = 1
  BY <1>2 DEF Evolves
<1>6. \A m \in 1..Len(msgs) : m \in 1..Len(msgs')
  BY <1>2, <1>3
<1>7. MessageInv'
  BY MessageKept
<1>8. PassedInv'
  <2> SUFFICES ASSUME NEW i \in 1..Len(arrived)
               PROVE  LET a == arrived[i]
                      IN  /\ a.msg \in 1..Len(msgs')
                          /\ \A m \in Waiting' : msgs'[m].dest = msgs'[a.msg].dest => a.msg <= m
                          /\ msgs'[a.msg].st = "waiting" =>
                                 /\ a.part <= msgs'[a.msg].next + 1
                                 /\ a.part = msgs'[a.msg].next + 1 =>
                                        msgs'[a.msg].lost \/ Delivered(a.msg)'
    BY DEF PassedInv
  <2>1. PICK n \in 1..Len(msgs) : n = arrived[i].msg
    BY DEF IInv, PassedInv
  <2>2. \A m \in Waiting : msgs[m].dest = msgs[n].dest => n <= m
    BY <2>1 DEF IInv, PassedInv
  <2>3. msgs[n].st = "waiting" =>
            /\ arrived[i].part <= msgs[n].next + 1
            /\ arrived[i].part = msgs[n].next + 1 => msgs[n].lost \/ Delivered(n)
    BY <2>1 DEF IInv, PassedInv
  <2>4. ASSUME NEW m \in Waiting', msgs'[m].dest = msgs'[n].dest
        PROVE  n <= m
    <3>1. m \in 1..Len(msgs') /\ msgs'[m].st = "waiting"
      BY <2>4, WaitingNext
    <3>2. CASE m \in 1..Len(msgs)
      <4>1. msgs[m].st = "waiting" /\ msgs[m].dest = msgs[n].dest
        BY <1>4, <2>4, <3>1, <3>2
      <4> QED BY <2>2, <3>2, <4>1, WaitingFacts DEF IInv
    <3>3. CASE m \notin 1..Len(msgs)
      BY <1>2, <1>5, <3>1, <3>3
    <3> QED BY <3>2, <3>3
  <2>5. msgs'[n].st = "waiting" => msgs[n].st = "waiting"
    BY <1>4
  <2>6. msgs'[n].st = "waiting" => (Delivered(n)' <=> Delivered(n))
    BY <1>6
  <2>7. n \in 1..Len(msgs') /\ msgs'[n].next = msgs[n].next
        /\ (msgs[n].lost => msgs'[n].lost)
    BY <1>4, <1>6
  <2>8. Delivered(arrived[i].msg)' <=> Delivered(n)'
    BY <2>1 DEF Delivered
  <2> QED BY <2>1, <2>3, <2>4, <2>5, <2>6, <2>7, <2>8
<1>9. CountInv'
  <2> SUFFICES ASSUME NEW m \in 1..Len(msgs'), msgs'[m].st /= "closed", ~msgs'[m].lost
               PROVE  Cardinality(Copies(m)) = msgs'[m].next + (IF Delivered(m)' THEN 1 ELSE 0)
    BY DEF CountInv, Copies
  <2>1. CASE m \in 1..Len(msgs)
    <3>1. msgs[m].st /= "closed" /\ ~msgs[m].lost
      BY <1>4, <2>1
    <3>2. Cardinality(Copies(m)) = msgs[m].next + (IF Delivered(m) THEN 1 ELSE 0)
      BY <2>1, <3>1 DEF IInv, CountInv
    <3>3. Delivered(m)' <=> Delivered(m)
      OBVIOUS
    <3> QED BY <1>4, <2>1, <3>2, <3>3
  <2>2. CASE m \notin 1..Len(msgs)
    <3>1. Copies(m) = {}
      BY <2>2 DEF Copies, IInv, PassedInv
    <3>2. ~Delivered(m)
      <4>1. generation \in 1..Len(senders) \/ thread = None
        BY LenProperties DEF IInv, NotifierTypeOK
      <4> QED BY <2>2, <4>1 DEF Delivered, IInv, FrontInv, Asking
    <3>3. Cardinality(Copies(m)) = 0
      BY <3>1, FS_EmptySet
    <3>4. msgs'[m].next = 0
      BY <1>5, <2>2
    <3> QED BY <3>2, <3>3, <3>4
  <2> QED BY <2>1, <2>2
<1>10. InOrder'
  <2> SUFFICES ASSUME NEW i \in 1..Len(arrived), NEW j \in 1..Len(arrived), i < j,
                      msgs'[arrived[i].msg].dest = msgs'[arrived[j].msg].dest
               PROVE  \/ arrived[i].msg < arrived[j].msg
                      \/ msgs'[arrived[j].msg].st = "closed"
                      \/ /\ arrived[i].msg = arrived[j].msg
                         /\ \/ arrived[i].part < arrived[j].part
                            \/ arrived[i].part = arrived[j].part /\ msgs'[arrived[i].msg].lost
    BY <1>2 DEF InOrder
  <2>1. arrived[i].msg \in 1..Len(msgs) /\ arrived[j].msg \in 1..Len(msgs)
    BY DEF IInv, PassedInv
  <2>2. \/ arrived[i].msg < arrived[j].msg
        \/ msgs[arrived[j].msg].st = "closed"
        \/ /\ arrived[i].msg = arrived[j].msg
           /\ \/ arrived[i].part < arrived[j].part
              \/ arrived[i].part = arrived[j].part /\ msgs[arrived[i].msg].lost
    BY <1>2, <1>4, <2>1 DEF IInv, InOrder
  <2>3. msgs[arrived[j].msg].st = "closed" => msgs'[arrived[j].msg].st = "closed"
    BY <1>4, <2>1
  <2>4. msgs[arrived[i].msg].lost => msgs'[arrived[i].msg].lost
    BY <1>4, <2>1
  <2> QED BY <2>2, <2>3, <2>4
<1> QED BY <1>7, <1>8, <1>9, <1>10

\* What the senders have in hand stays there, or is let go.
LEMMA FrontKept ==
    ASSUME IInv, NotifierTypeOK', setup' = setup, generation' = generation,
           thread /= None => thread' /= None, Evolves(msgs, msgs'),
           \A h \in 1..Len(senders') : Asking(h)' =>
               /\ h \in 1..Len(senders) /\ Asking(h) /\ senders'[h].job = senders[h].job
               /\ h = generation => inFlight' = senders[h].job
                                    /\ msgs'[senders[h].job].st = "waiting"
    PROVE  FrontInv'
<1>1. /\ msgs \in Seq(Message) /\ msgs' \in Seq(Message) /\ generation \in Nat
  BY SameMessages DEF IInv, NotifierTypeOK
<1>2. Len(msgs) \in Nat /\ Len(msgs') \in Nat
  BY <1>1, MessageFacts
<1> SUFFICES ASSUME NEW g \in 1..Len(senders'), Asking(g)'
             PROVE  LET m == senders'[g].job
                    IN  /\ m \in 1..Len(msgs') /\ msgs'[m].gen = g
                        /\ g = generation' =>
                               /\ thread' /= None /\ inFlight' = m /\ msgs'[m].st = "waiting"
                               /\ \A k \in Waiting' : msgs'[k].dest = msgs'[m].dest => m <= k
                        /\ g /= generation' \/ thread' = None => msgs'[m].st = "closed"
  BY DEF FrontInv
<1>3. g \in 1..Len(senders) /\ Asking(g) /\ senders'[g].job = senders[g].job
  OBVIOUS
<1>4. PICK m \in 1..Len(msgs) : m = senders[g].job
  BY <1>3 DEF IInv, FrontInv
<1>5. /\ msgs[m].gen = g
      /\ g = generation =>
             /\ thread /= None /\ inFlight = m /\ msgs[m].st = "waiting"
             /\ \A k \in Waiting : msgs[k].dest = msgs[m].dest => m <= k
      /\ g /= generation \/ thread = None => msgs[m].st = "closed"
  BY <1>3, <1>4 DEF IInv, FrontInv
<1>6. /\ m \in 1..Len(msgs') /\ msgs'[m].gen = msgs[m].gen /\ msgs'[m].dest = msgs[m].dest
      /\ msgs'[m].st = msgs[m].st \/ msgs[m].st = "waiting"
  BY <1>2 DEF Evolves
<1>7. ASSUME g = generation, NEW k \in Waiting', msgs'[k].dest = msgs'[m].dest
      PROVE  m <= k
  <2>1. k \in 1..Len(msgs') /\ msgs'[k].st = "waiting"
    BY <1>7, WaitingNext
  <2>2. CASE k \in 1..Len(msgs)
    <3>1. msgs[k].st = "waiting" /\ msgs[k].dest = msgs[m].dest
      BY <1>6, <1>7, <2>1, <2>2 DEF Evolves
    <3> QED BY <1>5, <1>7, <2>2, <3>1, WaitingFacts DEF IInv
  <2>3. CASE k \notin 1..Len(msgs)
    BY <1>2, <2>1, <2>3
  <2> QED BY <2>2, <2>3
<1>8. g = generation => thread /= None /\ thread' /= None
  BY <1>5
<1>9. g = generation => inFlight' = m /\ msgs'[m].st = "waiting"
  BY <1>3, <1>4
<1>10. g /= generation \/ thread' = None => msgs'[m].st = "closed"
  BY <1>5, <1>6
<1> QED BY <1>3, <1>4, <1>5, <1>6, <1>7, <1>8, <1>9, <1>10

\* A step of a sender between requests, or none of a sender's.
LEMMA QuietStep ==
    ASSUME IInv, NotifierTypeOK', setup' = setup, generation' = generation, thread' = thread,
           arrived' = arrived, Evolves(msgs, msgs'), Len(msgs') = Len(msgs),
           \A m \in 1..Len(msgs) : Delivered(m)' <=> Delivered(m),
           \A h \in 1..Len(senders') : Asking(h)' =>
               /\ h \in 1..Len(senders) /\ Asking(h) /\ senders'[h].job = senders[h].job
               /\ h = generation => inFlight' = senders[h].job
                                    /\ msgs'[senders[h].job].st = "waiting"
    PROVE  IInv'
<1>1. \A m \in 1..Len(msgs') : msgs'[m].st = "waiting" => thread' /= None
  BY DEF Evolves, IInv, MessageInv
<1>2. generation \in Nat
  BY DEF IInv, NotifierTypeOK
<1>3. generation' >= generation
  BY <1>2
<1>4. MessageInv' /\ PassedInv' /\ CountInv' /\ InOrder'
  BY <1>1, <1>3, BooksKept
<1>5. FrontInv'
  BY FrontKept
<1> QED BY <1>4, <1>5 DEF IInv

LEMMA TypeFrame ==
    ASSUME NotifierTypeOK, UNCHANGED <<setup, generation, thread>>,
           Len(senders') = Len(senders), senders' \in Seq(State), msgs' \in Seq(Message),
           inbox' \in Seq(Event), callbacks' \in Seq(Nat), roots' \in [Dests -> Nat],
           inFlight' \in Nat, arrived' \in Seq(Copy)
    PROVE  NotifierTypeOK'
<1>1. Message' = Message /\ Dests' = Dests
  BY SameMessages
<1> QED BY <1>1 DEF NotifierTypeOK

\* Whoever asks goes on asking, for the message in flight.
LEMMA SameInHand ==
    ASSUME IInv, NotifierTypeOK', setup' = setup, generation' = generation,
           thread /= None => thread' /= None, arrived' = arrived, inFlight' = inFlight,
           Evolves(msgs, msgs'),
           inFlight \in 1..Len(msgs) => msgs'[inFlight].st = msgs[inFlight].st,
           \A m \in 1..Len(msgs') : msgs'[m].st = "waiting" => thread' /= None,
           \A h \in 1..Len(senders) : Asking(h) => senders'[h] = senders[h],
           \A h \in 1..Len(senders') : Asking(h)' =>
               h \in 1..Len(senders) /\ senders'[h] = senders[h]
    PROVE  IInv'
<1>1. generation \in Nat /\ generation' >= generation
  BY DEF IInv, NotifierTypeOK
<1>2. thread /= None => generation \in 1..Len(senders)
  BY LenProperties DEF IInv, NotifierTypeOK
<1>3. thread' /= None => generation \in 1..Len(senders')
  BY LenProperties DEF NotifierTypeOK
<1>4. ASSUME NEW m PROVE Delivered(m)' <=> Delivered(m)
  <2>1. CASE Delivered(m)
    <3>1. thread /= None /\ generation \in 1..Len(senders) /\ Asking(generation)
      BY <1>2, <2>1 DEF Delivered, Asking
    <3>2. senders'[generation] = senders[generation]
      BY <3>1
    <3> QED BY <2>1, <3>1, <3>2 DEF Delivered
  <2>2. CASE Delivered(m)'
    <3>1. thread' /= None /\ generation \in 1..Len(senders') /\ senders'[generation].pc = "answered"
      BY <1>3, <2>2 DEF Delivered
    <3>2. Asking(generation)'
      BY <3>1 DEF Asking
    <3>3. generation \in 1..Len(senders) /\ senders'[generation] = senders[generation]
      BY <3>1, <3>2 DEF Asking
    <3>4. thread /= None
      BY <3>3, StateFacts DEF IInv
    <3> QED BY <2>2, <3>3, <3>4 DEF Delivered
  <2> QED BY <2>1, <2>2
<1>5. MessageInv' /\ PassedInv' /\ CountInv' /\ InOrder'
  BY <1>1, <1>4, BooksKept
<1>6. FrontInv'
  <2>1. ASSUME NEW h \in 1..Len(senders'), Asking(h)'
        PROVE  /\ h \in 1..Len(senders) /\ Asking(h) /\ senders'[h].job = senders[h].job
               /\ h = generation => inFlight' = senders[h].job
                                    /\ msgs'[senders[h].job].st = "waiting"
    <3>1. h \in 1..Len(senders) /\ senders'[h] = senders[h]
      BY <2>1
    <3>2. Asking(h)
      BY <2>1, <3>1 DEF Asking
    <3>3. h = generation =>
              /\ inFlight = senders[h].job /\ senders[h].job \in 1..Len(msgs)
              /\ msgs[senders[h].job].st = "waiting"
      BY <3>1, <3>2 DEF IInv, FrontInv
    <3> QED BY <3>1, <3>2, <3>3
  <2> QED BY <2>1, FrontKept
<1> QED BY <1>5, <1>6 DEF IInv

\* A sender that is between requests.
LEMMA BetweenRequests ==
    ASSUME IInv, NEW g \in 1..Len(senders), NEW s \in State, Sender(g, s), ~Asking(g),
           s.pc \notin {"request", "answered"},
           UNCHANGED <<setup, generation, thread, inFlight, arrived>>,
           msgs' \in Seq(Message), Evolves(msgs, msgs'),
           inFlight \in 1..Len(msgs) => msgs'[inFlight].st = msgs[inFlight].st,
           inbox' \in Seq(Event), callbacks' \in Seq(Nat), roots' \in [Dests -> Nat],
           g = generation \/ msgs' = msgs
    PROVE  IInv'
<1>1. /\ senders' \in Seq(State) /\ Len(senders') = Len(senders)
      /\ senders'[g] = s
      /\ \A h \in 1..Len(senders) : h /= g => senders'[h] = senders[h]
  BY SenderFacts DEF IInv
<1>2. NotifierTypeOK'
  BY <1>1, TypeFrame DEF IInv, NotifierTypeOK
<1>3. \A h \in 1..Len(senders) : Asking(h) => senders'[h] = senders[h]
  BY <1>1
<1>4. \A h \in 1..Len(senders') : Asking(h)' =>
          h \in 1..Len(senders) /\ senders'[h] = senders[h]
  BY <1>1 DEF Asking
<1>5. \A m \in 1..Len(msgs') : msgs'[m].st = "waiting" => thread' /= None
  <2>1. CASE g = generation
    <3>1. thread /= None
      BY <2>1, StateFacts DEF IInv
    <3> QED BY <3>1
  <2>2. CASE msgs' = msgs
    BY <2>2 DEF IInv, MessageInv
  <2> QED BY <2>1, <2>2
<1> QED BY <1>2, <1>3, <1>4, <1>5, SameInHand

-----------------------------------------------------------------------------
(* Queueing *)

LEMMA EnsureFacts ==
    ASSUME NotifierTypeOK, EnsureThread
    PROVE  /\ thread' = generation /\ thread' /= None /\ senders' \in Seq(State)
           /\ Len(senders') = generation /\ Len(senders) <= Len(senders')
           /\ \A h \in 1..Len(senders) : senders'[h] = senders[h]
           /\ \A h \in 1..Len(senders') : h \in 1..Len(senders) \/ senders'[h] = Idle
<1>1. /\ generation \in Nat \ {0} /\ senders \in Seq(State) /\ Len(senders) \in Nat
      /\ Len(senders) = IF thread = None THEN generation - 1 ELSE generation
      /\ thread \in {None, generation} /\ generation /= None
  BY LenProperties DEF NotifierTypeOK, None
<1>2. CASE thread /= None
  BY <1>1, <1>2 DEF EnsureThread
<1>3. CASE thread = None
  <2>1. thread' = generation /\ senders' = Append(senders, Idle)
    BY <1>3 DEF EnsureThread
  <2>2. /\ senders' \in Seq(State) /\ Len(senders') = Len(senders) + 1
        /\ \A h \in 1..Len(senders) : senders'[h] = senders[h]
        /\ senders'[Len(senders) + 1] = Idle
    BY <1>1, <2>1, IdleFacts, AppendProperties
  <2> QED BY <1>1, <1>3, <2>1, <2>2
<1> QED BY <1>2, <1>3

\* What is past the capacity is dropped; the one on its way never is.
LEMMA TrimFacts ==
    ASSUME NEW ms \in Seq(Message)
    PROVE  /\ Trim(ms) \in Seq(Message) /\ Len(Trim(ms)) = Len(ms)
           /\ \A m \in 1..Len(ms) :
                  \/ Trim(ms)[m] = ms[m]
                  \/ /\ m /= inFlight /\ ms[m].st = "waiting"
                     /\ Trim(ms)[m] = [ms[m] EXCEPT !.st = "dropped"]
<1> DEFINE here == {m \in DOMAIN ms : ms[m].st = "waiting"}
           S == Oldest(Cardinality(here) - setup.capacity, here \ {inFlight})
<1>1. Trim(ms) = Ended(ms, S, "dropped")
  BY DEF Trim
<1>2. \A m \in S : m /= inFlight /\ ms[m].st = "waiting"
  BY DEF Oldest
<1>3. "dropped" \in Ends
  BY DEF Ends
<1> HIDE DEF S
<1> QED BY <1>1, <1>2, <1>3, EndedFacts

LEMMA JoinedMessages ==
    ASSUME NEW bs \in Seq(Message), NEW new \in Seq(Message)
    PROVE  /\ bs \o new \in Seq(Message) /\ Len(bs \o new) = Len(bs) + Len(new)
           /\ \A m \in 1..(Len(bs) + Len(new)) :
                  (bs \o new)[m] = IF m <= Len(bs) THEN bs[m] ELSE new[m - Len(bs)]
BY ConcatProperties, Zenon

LEMMA QueueFacts ==
    ASSUME NotifierTypeOK, NEW bs \in Seq(Message), NEW new \in Seq(Message),
           Len(bs) = Len(msgs), Evolves(msgs, bs),
           \A k \in 1..Len(new) :
               /\ new[k].gen = generation /\ new[k].next = 0 /\ new[k].lost = FALSE
               /\ new[k].st = "waiting"
               /\ new[k].kind /= "text" => new[k].parts = 1,
           inFlight \in 1..Len(msgs) => bs[inFlight].st = msgs[inFlight].st
    PROVE  LET ns == Trim(bs \o new)
           IN  /\ ns \in Seq(Message) /\ Evolves(msgs, ns) /\ Len(ns) = Len(msgs) + Len(new)
               /\ inFlight \in 1..Len(msgs) => ns[inFlight].st = msgs[inFlight].st
               /\ \A m \in 1..Len(ns) : m > Len(msgs) =>
                      /\ m - Len(msgs) \in 1..Len(new)
                      /\ ns[m].kind = new[m - Len(msgs)].kind
                      /\ ns[m].dest = new[m - Len(msgs)].dest
<1> DEFINE cs == bs \o new
           ns == Trim(cs)
<1>1. /\ Len(msgs) \in Nat /\ Len(new) \in Nat /\ Len(bs) = Len(msgs)
      /\ \A m \in 1..Len(bs) : bs[m] \in Message
      /\ \A k \in 1..Len(new) : new[k] \in Message
  BY MessageFacts DEF NotifierTypeOK
<1>2. /\ cs \in Seq(Message) /\ Len(cs) = Len(msgs) + Len(new)
      /\ \A m \in 1..(Len(msgs) + Len(new)) :
             cs[m] = IF m <= Len(msgs) THEN bs[m] ELSE new[m - Len(msgs)]
  <2>1. /\ cs \in Seq(Message) /\ Len(cs) = Len(bs) + Len(new)
        /\ \A m \in 1..(Len(bs) + Len(new)) :
               cs[m] = IF m <= Len(bs) THEN bs[m] ELSE new[m - Len(bs)]
    BY JoinedMessages, Zenon
  <2> QED BY <1>1, <2>1, Zenon
<1> HIDE DEF cs
<1>3. /\ ns \in Seq(Message) /\ Len(ns) = Len(cs)
      /\ \A m \in 1..Len(cs) :
             \/ ns[m] = cs[m]
             \/ m /= inFlight /\ cs[m].st = "waiting" /\ ns[m] = [cs[m] EXCEPT !.st = "dropped"]
  BY <1>2, TrimFacts
<1> HIDE DEF ns
<1>4. ASSUME NEW m \in 1..Len(cs)
      PROVE  /\ ns[m].kind = cs[m].kind /\ ns[m].dest = cs[m].dest /\ ns[m].parts = cs[m].parts
             /\ ns[m].gen = cs[m].gen /\ ns[m].next = cs[m].next /\ ns[m].lost = cs[m].lost
             /\ ns[m].st = cs[m].st \/ (cs[m].st = "waiting" /\ ns[m].st = "dropped")
             /\ m = inFlight => ns[m].st = cs[m].st
  <2>1. cs[m] \in Message
    BY <1>2, MessageFacts
  <2>2. CASE ns[m] = cs[m]
    BY <2>2
  <2>3. CASE /\ m /= inFlight /\ cs[m].st = "waiting"
             /\ ns[m] = [cs[m] EXCEPT !.st = "dropped"]
    BY <2>1, <2>3 DEF Message
  <2> QED BY <1>3, <2>2, <2>3
<1>5. ASSUME NEW m \in 1..Len(msgs)
      PROVE  m \in 1..Len(cs) /\ cs[m] = bs[m]
  BY <1>1, <1>2
<1>6. ASSUME NEW m \in 1..Len(ns), m > Len(msgs)
      PROVE  m \in 1..Len(cs) /\ m - Len(msgs) \in 1..Len(new) /\ cs[m] = new[m - Len(msgs)]
  BY <1>1, <1>2, <1>3, <1>6
<1>7. Evolves(msgs, ns)
  <2>1. Len(msgs) <= Len(ns)
    BY <1>1, <1>2, <1>3
  <2>2. ASSUME NEW m \in 1..Len(msgs)
        PROVE  /\ ns[m].kind = msgs[m].kind /\ ns[m].dest = msgs[m].dest
               /\ ns[m].parts = msgs[m].parts
               /\ ns[m].gen = msgs[m].gen /\ ns[m].next = msgs[m].next
               /\ (msgs[m].lost => ns[m].lost)
               /\ ns[m].st = msgs[m].st \/ msgs[m].st = "waiting"
               /\ ns[m].st = "sent" => msgs[m].st = "sent"
    <3>1. /\ bs[m].kind = msgs[m].kind /\ bs[m].dest = msgs[m].dest
          /\ bs[m].parts = msgs[m].parts
          /\ bs[m].gen = msgs[m].gen /\ bs[m].next = msgs[m].next
          /\ (msgs[m].lost => bs[m].lost)
          /\ bs[m].st = msgs[m].st \/ msgs[m].st = "waiting"
          /\ bs[m].st = "sent" => msgs[m].st = "sent"
      BY DEF Evolves
    <3>2. m \in 1..Len(cs) /\ cs[m] = bs[m]
      BY <1>5
    <3> QED BY <1>4, <3>1, <3>2
  <2>3. ASSUME NEW m \in 1..Len(ns), m > Len(msgs)
        PROVE  /\ ns[m].gen = generation /\ ns[m].next = 0 /\ ns[m].lost = FALSE
               /\ ns[m].st \notin {"closed", "sent"}
               /\ ns[m].kind /= "text" => ns[m].parts = 1
    <3>1. m \in 1..Len(cs) /\ m - Len(msgs) \in 1..Len(new) /\ cs[m] = new[m - Len(msgs)]
      BY <1>6, <2>3
    <3>2. PICK k \in 1..Len(new) : cs[m] = new[k]
      BY <3>1
    <3>3. /\ cs[m].gen = generation /\ cs[m].next = 0 /\ cs[m].lost = FALSE
          /\ cs[m].st = "waiting"
          /\ cs[m].kind /= "text" => cs[m].parts = 1
      BY <3>2
    <3> QED BY <1>4, <3>1, <3>3
  <2> QED BY <2>1, <2>2, <2>3 DEF Evolves
<1>8. inFlight \in 1..Len(msgs) => ns[inFlight].st = msgs[inFlight].st
  BY <1>4, <1>5
<1>9. \A m \in 1..Len(ns) : m > Len(msgs) =>
          /\ m - Len(msgs) \in 1..Len(new)
          /\ ns[m].kind = new[m - Len(msgs)].kind
          /\ ns[m].dest = new[m - Len(msgs)].dest
  BY <1>4, <1>6
<1>10. Len(ns) = Len(msgs) + Len(new)
  BY <1>2, <1>3
<1> QED BY <1>3, <1>7, <1>8, <1>9, <1>10 DEF cs, ns

LEMMA SendTextFacts ==
    ASSUME IInv, SendText
    PROVE  /\ NotifierTypeOK' /\ Evolves(msgs, msgs')
           /\ inFlight \in 1..Len(msgs) => msgs'[inFlight].st = msgs[inFlight].st
           /\ \A m \in 1..Len(msgs') : m > Len(msgs) => msgs'[m].kind = "text"
<1>1. /\ EnsureThread
      /\ UNCHANGED <<setup, adapter, generation, inFlight, working, timers, closing, outside,
                     arrived>>
  BY DEF SendText
<1>2. PICK to \in Routes, parts \in setup.parts, wait \in setup.waits :
          msgs' = Trim(msgs \o [k \in DOMAIN to |-> Delivery("text", to[k], parts, wait)])
  BY DEF SendText
<1>3. PICK n \in 1..setup.dests : to \in [1..n -> Dests]
  BY DEF Routes
<1>4. /\ setup.dests \in Nat /\ parts \in Nat \ {0} /\ wait \in BOOLEAN /\ n \in Nat
      /\ "text" \in Kind
  BY SetupFacts DEF IInv, NotifierTypeOK, Kind
<1> DEFINE new == [k \in 1..n |-> Delivery("text", to[k], parts, wait)]
<1>5. \A k \in 1..n : to[k] \in Dests
  BY <1>3
<1>6. \A k \in 1..n :
          LET m == Delivery("text", to[k], parts, wait)
          IN  /\ m \in Message /\ m.gen = generation /\ m.next = 0 /\ m.lost = FALSE
              /\ m.st = "waiting" /\ m.kind = "text"
  <2> SUFFICES ASSUME NEW d \in Dests
               PROVE  LET m == Delivery("text", d, parts, wait)
                      IN  /\ m \in Message /\ m.gen = generation /\ m.next = 0 /\ m.lost = FALSE
                          /\ m.st = "waiting" /\ m.kind = "text"
    BY <1>5
  <2>1. parts \in Nat \ {0} /\ wait \in BOOLEAN /\ "text" \in Kind /\ generation \in Nat
    BY <1>4 DEF IInv, NotifierTypeOK
  <2> QED BY <2>1 DEF Delivery, Message
<1>7. /\ new \in Seq(Message) /\ Len(new) = n
      /\ \A k \in 1..n : new[k] = Delivery("text", to[k], parts, wait)
  <2>1. \A k \in 1..n : Delivery("text", to[k], parts, wait) \in Message
    BY <1>6
  <2> QED BY <1>4, <2>1
<1>8. msgs' = Trim(msgs \o new)
  BY <1>2, <1>3
<1> HIDE DEF new
<1>9. /\ msgs' \in Seq(Message) /\ Evolves(msgs, msgs')
      /\ inFlight \in 1..Len(msgs) => msgs'[inFlight].st = msgs[inFlight].st
      /\ \A m \in 1..Len(msgs') : m > Len(msgs) =>
             m - Len(msgs) \in 1..Len(new) /\ msgs'[m].kind = new[m - Len(msgs)].kind
  <2>1. msgs \in Seq(Message) /\ Evolves(msgs, msgs)
    BY SameEvolves DEF IInv, NotifierTypeOK
  <2>2. \A k \in 1..Len(new) :
            /\ new[k].gen = generation /\ new[k].next = 0 /\ new[k].lost = FALSE
            /\ new[k].st = "waiting"
            /\ new[k].kind /= "text" => new[k].parts = 1
    BY <1>6, <1>7
  <2> QED BY <1>7, <1>8, <2>1, <2>2, QueueFacts DEF IInv
<1>10. \A m \in 1..Len(msgs') : m > Len(msgs) => msgs'[m].kind = "text"
  BY <1>6, <1>7, <1>9
<1>11. NotifierTypeOK'
  <2>1. /\ thread' = generation /\ thread' /= None /\ senders' \in Seq(State)
        /\ Len(senders') = generation
    BY <1>1, EnsureFacts DEF IInv
  <2>2. Message' = Message /\ Dests' = Dests
    BY <1>1, SameMessages
  <2> QED BY <1>1, <1>9, <2>1, <2>2 DEF IInv, NotifierTypeOK, adapter
<1> QED BY <1>9, <1>10, <1>11

LEMMA SendTextStep == ASSUME IInv, SendText PROVE IInv'
<1>1. /\ EnsureThread
      /\ UNCHANGED <<setup, adapter, generation, inFlight, working, timers, closing, outside,
                     arrived>>
  BY DEF SendText
<1>2. /\ thread' /= None
      /\ \A h \in 1..Len(senders) : senders'[h] = senders[h]
      /\ \A h \in 1..Len(senders') : h \in 1..Len(senders) \/ senders'[h] = Idle
  BY <1>1, EnsureFacts DEF IInv
<1>3. \A h \in 1..Len(senders') : Asking(h)' =>
          h \in 1..Len(senders) /\ senders'[h] = senders[h]
  BY <1>2, IdleFacts DEF Asking
<1> QED BY <1>1, <1>2, <1>3, SendTextFacts, SameInHand

LEMMA PostEventFacts ==
    ASSUME IInv, PostEvent
    PROVE  NotifierTypeOK'
<1>1. /\ EnsureThread
      /\ UNCHANGED <<setup, msgs, callbacks, roots, generation, inFlight, working, timers, closing,
                     outside, arrived>>
  BY DEF PostEvent
<1>2. PICK kind \in Event : inbox' = Append(inbox, kind)
  BY DEF PostEvent, Event
<1>3. inbox' \in Seq(Event)
  BY <1>2, AppendProperties DEF IInv, NotifierTypeOK
<1>4. /\ thread' = generation /\ thread' /= None /\ senders' \in Seq(State)
      /\ Len(senders') = generation
  BY <1>1, EnsureFacts DEF IInv
<1>5. Message' = Message /\ Dests' = Dests
  BY <1>1, SameMessages
<1> QED BY <1>1, <1>3, <1>4, <1>5 DEF IInv, NotifierTypeOK

LEMMA PostEventStep == ASSUME IInv, PostEvent PROVE IInv'
<1>1. /\ EnsureThread
      /\ UNCHANGED <<setup, msgs, callbacks, roots, generation, inFlight, working, timers, closing,
                     outside, arrived>>
  BY DEF PostEvent
<1>2. /\ thread' /= None
      /\ \A h \in 1..Len(senders) : senders'[h] = senders[h]
      /\ \A h \in 1..Len(senders') : h \in 1..Len(senders) \/ senders'[h] = Idle
  BY <1>1, EnsureFacts DEF IInv
<1>3. \A h \in 1..Len(senders') : Asking(h)' =>
          h \in 1..Len(senders) /\ senders'[h] = senders[h]
  BY <1>2, IdleFacts DEF Asking
<1>4. Evolves(msgs, msgs')
  BY <1>1, SameEvolves DEF IInv, NotifierTypeOK
<1> QED BY <1>1, <1>2, <1>3, <1>4, PostEventFacts, SameInHand

-----------------------------------------------------------------------------
(* A sender between requests *)

LEMMA TakeWorkStep ==
    ASSUME IInv, NEW g \in 1..Len(senders), TakeWork(g)
    PROVE  IInv'
<1> DEFINE s == [Idle EXCEPT !.pc = "work", !.records = callbacks,
                             !.work = IF g = generation THEN inbox ELSE <<>>]
<1>1. /\ senders[g].pc = "look" /\ Sender(g, s) /\ callbacks' = <<>>
      /\ inbox' = IF g = generation THEN <<>> ELSE inbox
      /\ UNCHANGED <<setup, msgs, roots, generation, thread, inFlight, timers, closing, outside,
                     budget, arrived>>
  BY DEF TakeWork
<1>2. /\ inbox \in Seq(Event) /\ callbacks \in Seq(Nat) /\ <<>> \in Seq(Event) /\ <<>> \in Seq(Nat)
      /\ msgs \in Seq(Message) /\ roots \in [Dests -> Nat]
  BY EmptySeq DEF IInv, NotifierTypeOK
<1>3. s \in State /\ s.pc = "work"
  BY <1>2, IdleFacts DEF State
<1> HIDE DEF s
<1>4. ~Asking(g)
  BY <1>1 DEF Asking
<1>5. inbox' \in Seq(Event) /\ callbacks' \in Seq(Nat) /\ Evolves(msgs, msgs')
  BY <1>1, <1>2, SameEvolves
<1> QED BY <1>1, <1>2, <1>3, <1>4, <1>5, BetweenRequests

LEMMA LeaveStep ==
    ASSUME IInv, NEW g \in 1..Len(senders), Leave(g)
    PROVE  IInv'
<1> DEFINE s == [Idle EXCEPT !.pc = "gone"]
<1>1. /\ senders[g].pc = "look" /\ Sender(g, s)
      /\ UNCHANGED <<setup, msgs, adapter, generation, thread, inFlight, timers, closing, outside,
                     budget, arrived>>
  BY DEF Leave
<1>2. s \in State /\ s.pc = "gone"
  BY IdleFacts
<1> HIDE DEF s
<1>3. ~Asking(g) /\ Evolves(msgs, msgs')
  BY <1>1, SameEvolves DEF Asking, IInv, NotifierTypeOK
<1> QED BY <1>1, <1>2, <1>3, BetweenRequests DEF adapter, IInv, NotifierTypeOK

LEMMA RecordFacts ==
    ASSUME IInv, NEW g \in 1..Len(senders), Record(g)
    PROVE  /\ senders[g].pc = "work" /\ senders[g].records /= <<>>
           /\ Head(senders[g].records) \in Nat
           /\ roots' = [roots EXCEPT ![msgs[Head(senders[g].records)].dest]
                                         = Head(senders[g].records)]
           /\ Sender(g, [senders[g] EXCEPT !.records = Tail(@)])
           /\ [senders[g] EXCEPT !.records = Tail(@)] \in State
           /\ UNCHANGED <<setup, msgs, inbox, callbacks, generation, thread, inFlight, working,
                          timers, closing, outside, budget, arrived>>
<1>1. senders[g].records \in Seq(Nat) /\ senders[g] \in State
  BY StateFacts DEF IInv
<1>2. senders[g].records /= <<>>
  BY DEF Record
<1>3. Head(senders[g].records) \in Nat /\ Tail(senders[g].records) \in Seq(Nat)
  BY <1>1, <1>2, HeadTailProperties
<1>4. [senders[g] EXCEPT !.records = Tail(@)] \in State
  BY <1>1, <1>3 DEF State
<1> QED BY <1>2, <1>3, <1>4 DEF Record

LEMMA RecordStep ==
    ASSUME IInv, NEW g \in 1..Len(senders), Record(g)
    PROVE  IInv'
<1> DEFINE s == [senders[g] EXCEPT !.records = Tail(@)]
<1>1. /\ senders[g].pc = "work" /\ Sender(g, s) /\ s \in State
      /\ UNCHANGED <<setup, msgs, inbox, callbacks, generation, thread, inFlight, arrived>>
  BY RecordFacts
<1>2. s.pc = "work"
  BY <1>1, StateFacts DEF State, IInv
<1>3. roots' \in [Dests -> Nat]
  BY RecordFacts DEF IInv, NotifierTypeOK
<1> HIDE DEF s
<1>4. ~Asking(g) /\ Evolves(msgs, msgs')
  BY <1>1, SameEvolves DEF Asking, IInv, NotifierTypeOK
<1> QED BY <1>1, <1>2, <1>3, <1>4, BetweenRequests DEF IInv, NotifierTypeOK

LEMMA WorkDoneStep ==
    ASSUME IInv, NEW g \in 1..Len(senders), WorkDone(g)
    PROVE  IInv'
<1>1. PICK pc \in {"look", "gone"} : Sender(g, [Idle EXCEPT !.pc = pc])
  BY DEF WorkDone
<1> DEFINE s == [Idle EXCEPT !.pc = pc]
<1>2. /\ senders[g].pc = "work" /\ Sender(g, s)
      /\ UNCHANGED <<setup, msgs, adapter, generation, thread, inFlight, timers, closing, outside,
                     budget, arrived>>
  BY <1>1 DEF WorkDone
<1>3. s \in State /\ s.pc \in {"look", "gone"}
  BY IdleFacts
<1> HIDE DEF s
<1>4. ~Asking(g) /\ Evolves(msgs, msgs')
  BY <1>2, SameEvolves DEF Asking, IInv, NotifierTypeOK
<1> QED BY <1>2, <1>3, <1>4, BetweenRequests DEF adapter, IInv, NotifierTypeOK

\* An event becomes messages, one to each chat; an edit takes the place of one that waits.
LEMMA RunWorkFacts ==
    ASSUME IInv, NEW g \in 1..Len(senders), RunWork(g)
    PROVE  /\ senders[g].pc = "work" /\ senders[g].work /= <<>> /\ senders[g].records = <<>>
           /\ Head(senders[g].work) \in Event
           /\ Sender(g, [senders[g] EXCEPT !.work = Tail(@)])
           /\ [senders[g] EXCEPT !.work = Tail(@)] \in State
           /\ msgs' \in Seq(Message) /\ Evolves(msgs, msgs')
           /\ inFlight \in 1..Len(msgs) => msgs'[inFlight].st = msgs[inFlight].st
           /\ g /= generation => msgs' = msgs
           /\ \A m \in 1..Len(msgs') : m > Len(msgs) =>
                  /\ msgs'[m].kind = Head(senders[g].work)
                  /\ \A n \in 1..Len(msgs') : n > Len(msgs) /\ msgs'[m].dest = msgs'[n].dest => m = n
           /\ UNCHANGED <<setup, adapter, generation, thread, inFlight, working, timers, closing,
                          outside, budget, arrived>>
<1>1. /\ senders[g].pc = "work" /\ senders[g].work /= <<>> /\ senders[g].records = <<>>
      /\ Sender(g, [senders[g] EXCEPT !.work = Tail(@)])
      /\ UNCHANGED <<setup, adapter, generation, thread, inFlight, working, timers, closing, outside,
                     budget, arrived>>
  BY DEF RunWork
<1>2. senders[g].work \in Seq(Event) /\ senders[g] \in State
  BY StateFacts DEF IInv
<1>3. Head(senders[g].work) \in Event /\ Tail(senders[g].work) \in Seq(Event)
  BY <1>1, <1>2, HeadTailProperties
<1>4. [senders[g] EXCEPT !.work = Tail(@)] \in State
  BY <1>2, <1>3 DEF State
<1>5. msgs \in Seq(Message) /\ Len(msgs) \in Nat /\ Evolves(msgs, msgs)
  BY SameEvolves, MessageFacts DEF IInv, NotifierTypeOK
<1>6. CASE g /= generation
  <2>1. msgs' = msgs
    BY <1>6 DEF RunWork
  <2>2. \A m \in 1..Len(msgs') : ~(m > Len(msgs))
    BY <1>5, <2>1
  <2> QED BY <1>1, <1>3, <1>4, <1>5, <2>1, <2>2
<1>7. CASE g = generation
  <2> DEFINE stale == {m \in Waiting \ {inFlight} :
                          /\ Head(senders[g].work) = "edit" /\ msgs[m].kind = "edit"
                          /\ msgs[m].next = 0}
             bs == Ended(msgs, stale, "superseded")
  <2>1. PICK kind \in Event : kind = Head(senders[g].work)
    BY <1>3
  <2> DEFINE Made(d) == Delivery(kind, d, 1, FALSE)
             new == [d \in 1..setup.dests |-> Made(d)]
  <2>2. msgs' = Trim(bs \o new)
    BY <1>7, <2>1 DEF RunWork, Queued, Dests
  <2>3. "superseded" \in Ends \ {"sent"}
    BY DEF Ends
  <2>4. \A m \in stale : m /= inFlight /\ (m \in 1..Len(msgs) => msgs[m].st = "waiting")
    BY WaitingFacts DEF IInv
  <2> HIDE DEF stale
  <2>5. bs \in Seq(Message) /\ Len(bs) = Len(msgs) /\ Evolves(msgs, bs)
    BY <1>5, <2>3, <2>4, EndedFacts, EndedEvolves
  <2>6. inFlight \in 1..Len(msgs) => bs[inFlight].st = msgs[inFlight].st
    <3>1. inFlight \notin stale
      BY <2>4
    <3>2. \A m \in 1..Len(msgs) : m \notin stale => bs[m] = msgs[m]
      <4>1. DOMAIN msgs = 1..Len(msgs)
        BY <1>5, MessageFacts
      <4> QED BY <4>1 DEF Ended
    <3> QED BY <3>1, <3>2
  <2> HIDE DEF bs
  <2>7. kind \in Kind /\ kind /= "text" /\ setup.dests \in Nat
    BY SetupFacts DEF Kind, Event, IInv, NotifierTypeOK
  <2>8. ASSUME NEW d \in Dests
        PROVE  /\ Made(d) \in Message /\ Made(d).gen = generation /\ Made(d).next = 0
               /\ Made(d).lost = FALSE /\ Made(d).st = "waiting" /\ Made(d).kind = kind
               /\ Made(d).dest = d /\ Made(d).parts = 1
    <3>1. generation \in Nat
      BY DEF IInv, NotifierTypeOK
    <3> QED BY <2>7, <3>1 DEF Delivery, Message
  <2> HIDE DEF Made
  <2>9. new \in Seq(Message) /\ Len(new) = setup.dests /\ Dests = 1..setup.dests
        /\ \A d \in Dests : new[d] = Made(d)
    <3>1. Dests = 1..setup.dests
      BY DEF Dests
    <3>2. \A d \in 1..setup.dests : Made(d) \in Message
      BY <2>8, <3>1
    <3> QED BY <2>7, <3>1, <3>2
  <2> HIDE DEF new
  <2>10. \A k \in 1..Len(new) :
             /\ new[k].gen = generation /\ new[k].next = 0 /\ new[k].lost = FALSE
             /\ new[k].st = "waiting" /\ new[k].kind = kind /\ new[k].dest = k
             /\ new[k].kind /= "text" => new[k].parts = 1
    <3> SUFFICES ASSUME NEW k \in 1..Len(new)
                 PROVE  /\ new[k].gen = generation /\ new[k].next = 0 /\ new[k].lost = FALSE
                        /\ new[k].st = "waiting" /\ new[k].kind = kind /\ new[k].dest = k
                        /\ new[k].parts = 1
      OBVIOUS
    <3>1. k \in Dests /\ new[k] = Made(k)
      BY <2>9
    <3> QED BY <2>8, <3>1
  <2>11. /\ msgs' \in Seq(Message) /\ Evolves(msgs, msgs')
         /\ inFlight \in 1..Len(msgs) => msgs'[inFlight].st = msgs[inFlight].st
         /\ \A m \in 1..Len(msgs') : m > Len(msgs) =>
                /\ m - Len(msgs) \in 1..Len(new)
                /\ msgs'[m].kind = new[m - Len(msgs)].kind
                /\ msgs'[m].dest = new[m - Len(msgs)].dest
    BY <2>2, <2>5, <2>6, <2>9, <2>10, QueueFacts DEF IInv
  <2>12. \A m \in 1..Len(msgs') : m > Len(msgs) =>
             /\ msgs'[m].kind = kind
             /\ msgs'[m].dest = m - Len(msgs)
    BY <2>10, <2>11
  <2>13. Len(msgs') \in Nat
    BY <2>11, MessageFacts
  <2>14. \A m, n \in 1..Len(msgs') :
             m > Len(msgs) /\ n > Len(msgs) /\ msgs'[m].dest = msgs'[n].dest => m = n
    <3> SUFFICES ASSUME NEW m \in 1..Len(msgs'), NEW n \in 1..Len(msgs'),
                        m > Len(msgs), n > Len(msgs), msgs'[m].dest = msgs'[n].dest
                 PROVE  m = n
      OBVIOUS
    <3>1. m - Len(msgs) = n - Len(msgs)
      BY <2>12
    <3> QED BY <1>5, <2>13, <3>1
  <2> QED BY <1>1, <1>3, <1>4, <1>7, <2>1, <2>11, <2>12, <2>14
<1> QED BY <1>6, <1>7

LEMMA RunWorkStep ==
    ASSUME IInv, NEW g \in 1..Len(senders), RunWork(g)
    PROVE  IInv'
<1> DEFINE s == [senders[g] EXCEPT !.work = Tail(@)]
<1>1. /\ senders[g].pc = "work" /\ Sender(g, s) /\ s \in State
      /\ UNCHANGED <<setup, adapter, generation, thread, inFlight, arrived>>
      /\ msgs' \in Seq(Message) /\ Evolves(msgs, msgs')
      /\ inFlight \in 1..Len(msgs) => msgs'[inFlight].st = msgs[inFlight].st
      /\ g = generation \/ msgs' = msgs
  BY RunWorkFacts
<1>2. s.pc = "work"
  BY <1>1, StateFacts DEF State, IInv
<1> HIDE DEF s
<1>3. ~Asking(g)
  BY <1>1 DEF Asking
<1> QED BY <1>1, <1>2, <1>3, BetweenRequests DEF adapter, IInv, NotifierTypeOK

-----------------------------------------------------------------------------
(* The world *)

\* Steps that touch neither the messages nor the senders.
LEMMA OutsideStep ==
    ASSUME IInv, UNCHANGED <<setup, msgs, adapter, threads, arrived>>
    PROVE  IInv'
<1>1. UNCHANGED <<setup, msgs, inbox, callbacks, roots, generation, thread, senders, inFlight,
                  arrived>>
  BY DEF adapter, threads
<1>2. NotifierTypeOK'
  BY <1>1, TypeFrame DEF IInv, NotifierTypeOK
<1>3. Evolves(msgs, msgs') /\ \A m \in 1..Len(msgs) : Delivered(m)' <=> Delivered(m)
  BY <1>1, SameEvolves DEF IInv, NotifierTypeOK, Delivered
<1>4. ASSUME NEW h \in 1..Len(senders), Asking(h)
      PROVE  h = generation => inFlight = senders[h].job /\ msgs[senders[h].job].st = "waiting"
  BY <1>4 DEF IInv, FrontInv
<1> QED BY <1>1, <1>2, <1>3, <1>4, QuietStep DEF Asking

LEMMA TickFacts ==
    ASSUME IInv, Tick
    PROVE  /\ msgs' \in Seq(Message) /\ Len(msgs') = Len(msgs) /\ Evolves(msgs, msgs')
           /\ \A m \in 1..Len(msgs) : msgs'[m].st = msgs[m].st
           /\ UNCHANGED <<setup, adapter, threads, arrived, budget>>
<1> DEFINE Row(m) == [msgs[m] EXCEPT !.age = IF Aging(m) THEN @ + 1 ELSE @]
<1>1. /\ Len(msgs) \in Nat /\ DOMAIN msgs = 1..Len(msgs)
      /\ \A m \in 1..Len(msgs) : msgs[m] \in Message
  BY MessageFacts DEF IInv, NotifierTypeOK
<1>2. ASSUME NEW m \in 1..Len(msgs)
      PROVE  /\ Row(m) \in Message
             /\ Row(m).kind = msgs[m].kind /\ Row(m).dest = msgs[m].dest
             /\ Row(m).parts = msgs[m].parts
             /\ Row(m).gen = msgs[m].gen /\ Row(m).next = msgs[m].next
             /\ Row(m).lost = msgs[m].lost /\ Row(m).st = msgs[m].st
  BY <1>1 DEF Message
<1>3. msgs' = [m \in 1..Len(msgs) |-> Row(m)]
  BY <1>1 DEF Tick
<1> HIDE DEF Row
<1>4. msgs' \in Seq(Message) /\ Len(msgs') = Len(msgs)
  BY <1>1, <1>2, <1>3
<1>5. Evolves(msgs, msgs') /\ \A m \in 1..Len(msgs) : msgs'[m].st = msgs[m].st
  BY <1>1, <1>2, <1>3, <1>4 DEF Evolves
<1> QED BY <1>4, <1>5 DEF Tick

LEMMA TickStep == ASSUME IInv, Tick PROVE IInv'
<1>1. /\ msgs' \in Seq(Message) /\ Len(msgs') = Len(msgs) /\ Evolves(msgs, msgs')
      /\ \A m \in 1..Len(msgs) : msgs'[m].st = msgs[m].st
      /\ UNCHANGED <<setup, inbox, callbacks, roots, generation, thread, senders, inFlight, arrived>>
  BY TickFacts DEF adapter, threads
<1>2. NotifierTypeOK'
  BY <1>1, TypeFrame DEF IInv, NotifierTypeOK
<1>3. \A m \in 1..Len(msgs) : Delivered(m)' <=> Delivered(m)
  BY <1>1 DEF Delivered
<1>4. ASSUME NEW h \in 1..Len(senders), Asking(h)
      PROVE  h = generation => inFlight = senders[h].job /\ msgs'[senders[h].job].st = "waiting"
  BY <1>1, <1>4 DEF IInv, FrontInv
<1> QED BY <1>1, <1>2, <1>3, <1>4, QuietStep DEF Asking

-----------------------------------------------------------------------------
(* A message is taken *)

\* What is due is the first of its chat that waits.
LEMMA DueFacts ==
    ASSUME NotifierTypeOK, Due /= {}
    PROVE  /\ Min(Due) \in Due /\ Min(Due) \in 1..Len(msgs)
           /\ msgs[Min(Due)].st = "waiting" /\ pause[msgs[Min(Due)].dest] = 0
           /\ \A k \in Waiting : msgs[k].dest = msgs[Min(Due)].dest => Min(Due) <= k
<1>1. /\ \A m : m \in Waiting <=> m \in 1..Len(msgs) /\ msgs[m].st = "waiting"
      /\ \A m, d : m \in WaitingTo(d) <=> m \in Waiting /\ msgs[m].dest = d
      /\ Waiting \subseteq Nat
  BY WaitingFacts
<1>2. Due \subseteq Waiting
  BY DEF Due
<1>3. Due \subseteq Nat
  BY <1>1, <1>2
<1>4. PICK m \in Due : m = Min(Due)
  BY <1>3, LeastNumber
<1>5. m \in 1..Len(msgs) /\ msgs[m].st = "waiting" /\ m \in Waiting
  BY <1>1, <1>2, <1>4
<1>6. pause[msgs[m].dest] = 0
  BY <1>4 DEF Due
<1>7. \A k \in Waiting : msgs[k].dest = msgs[m].dest => m <= k
  <2>1. CASE down
    <3>1. m = Min(Waiting)
      BY <1>4, <2>1 DEF Due
    <3>2. \A k \in Waiting : Min(Waiting) <= k
      BY <1>1, <1>5, LeastNumber
    <3> QED BY <3>1, <3>2
  <2>2. CASE ~down
    <3>1. m = Min(WaitingTo(msgs[m].dest))
      BY <1>4, <2>2 DEF Due
    <3>2. WaitingTo(msgs[m].dest) \subseteq Nat /\ m \in WaitingTo(msgs[m].dest)
      BY <1>1, <1>5
    <3>3. \A k \in WaitingTo(msgs[m].dest) : Min(WaitingTo(msgs[m].dest)) <= k
      BY <3>2, LeastNumber
    <3>4. \A k \in WaitingTo(msgs[m].dest) : m <= k
      BY <3>1, <3>3
    <3> QED BY <1>1, <3>4
  <2> QED BY <2>1, <2>2
<1> QED BY <1>4, <1>5, <1>6, <1>7

LEMMA TakeDeliveryFacts ==
    ASSUME IInv, NEW g \in 1..Len(senders), TakeDelivery(g)
    PROVE  \E m \in 1..Len(msgs) :
               /\ g = generation /\ senders[g].pc = "look" /\ ~WorkFirst(g)
               /\ m \in Due /\ msgs[m].st = "waiting" /\ pause[msgs[m].dest] = 0
               /\ \A k \in Waiting : msgs[k].dest = msgs[m].dest => m <= k
               /\ inFlight' = m
               /\ Sender(g, [Idle EXCEPT !.pc = "request", !.job = m])
               /\ [Idle EXCEPT !.pc = "request", !.job = m] \in State
               /\ NotifierTypeOK'
               /\ UNCHANGED <<setup, msgs, inbox, callbacks, roots, generation, thread, timers,
                              closing, outside, budget, arrived>>
<1>1. PICK m \in 1..Len(msgs) :
          /\ m \in Due /\ msgs[m].st = "waiting" /\ pause[msgs[m].dest] = 0
          /\ \A k \in Waiting : msgs[k].dest = msgs[m].dest => m <= k
          /\ m = Min(Due)
  BY DueFacts DEF TakeDelivery, IInv
<1>2. /\ g = generation /\ senders[g].pc = "look" /\ ~WorkFirst(g)
      /\ inFlight' = m
      /\ Sender(g, [Idle EXCEPT !.pc = "request", !.job = m])
      /\ UNCHANGED <<setup, msgs, inbox, callbacks, roots, generation, thread, timers,
                     closing, outside, budget, arrived>>
  BY <1>1 DEF TakeDelivery, adapter
<1>3. m \in Nat
  OBVIOUS
<1>4. [Idle EXCEPT !.pc = "request", !.job = m] \in State
  BY <1>3, IdleFacts DEF State
<1>5. senders' \in Seq(State) /\ Len(senders') = Len(senders)
  BY <1>2, <1>4, SenderFacts DEF IInv
<1>6. NotifierTypeOK'
  BY <1>2, <1>3, <1>5, TypeFrame DEF IInv, NotifierTypeOK
<1> QED BY <1>1, <1>2, <1>4, <1>6

LEMMA TakeDeliveryStep ==
    ASSUME IInv, NEW g \in 1..Len(senders), TakeDelivery(g)
    PROVE  IInv'
<1>1. PICK m \in 1..Len(msgs) :
               /\ g = generation /\ senders[g].pc = "look"
               /\ msgs[m].st = "waiting"
               /\ \A k \in Waiting : msgs[k].dest = msgs[m].dest => m <= k
               /\ inFlight' = m
               /\ Sender(g, [Idle EXCEPT !.pc = "request", !.job = m])
               /\ [Idle EXCEPT !.pc = "request", !.job = m] \in State
               /\ NotifierTypeOK'
               /\ UNCHANGED <<setup, msgs, generation, thread, arrived>>
  BY TakeDeliveryFacts
<1> DEFINE s == [Idle EXCEPT !.pc = "request", !.job = m]
<1>2. s \in State /\ s.pc = "request" /\ s.job = m
  BY <1>1 DEF Idle
<1> HIDE DEF s
<1>3. /\ Len(senders') = Len(senders) /\ senders'[g] = s
      /\ \A h \in 1..Len(senders) : h /= g => senders'[h] = senders[h]
  BY <1>1, <1>2, SenderFacts DEF s, IInv
<1>4. thread /= None /\ generation \in Nat /\ g = generation
  BY <1>1, StateFacts DEF IInv, NotifierTypeOK
<1>5. \A n : ~Delivered(n)
  BY <1>1 DEF Delivered
<1>6. \A n : ~(Delivered(n)')
  BY <1>1, <1>2, <1>3 DEF Delivered
<1>7. Evolves(msgs, msgs')
  BY <1>1, SameEvolves DEF IInv, NotifierTypeOK
<1>8. generation' >= generation
  BY <1>1, <1>4
<1>9. MessageInv' /\ PassedInv' /\ CountInv' /\ InOrder'
  BY <1>1, <1>4, <1>5, <1>6, <1>7, <1>8, BooksKept
<1>10. FrontInv'
  <2> SUFFICES ASSUME NEW h \in 1..Len(senders'), Asking(h)'
               PROVE  LET n == senders'[h].job
                      IN  /\ n \in 1..Len(msgs') /\ msgs'[n].gen = h
                          /\ h = generation' =>
                                 /\ thread' /= None /\ inFlight' = n /\ msgs'[n].st = "waiting"
                                 /\ \A k \in Waiting' : msgs'[k].dest = msgs'[n].dest => n <= k
                          /\ h /= generation' \/ thread' = None => msgs'[n].st = "closed"
    BY DEF FrontInv
  <2>1. Waiting' = Waiting
    BY <1>1 DEF Waiting
  <2>2. CASE h = g
    <3>1. msgs[m].gen = generation
      BY <1>1 DEF IInv, MessageInv
    <3> QED BY <1>1, <1>2, <1>3, <1>4, <2>1, <2>2, <3>1
  <2>3. CASE h /= g
    <3>1. h \in 1..Len(senders) /\ senders'[h] = senders[h] /\ Asking(h)
      BY <1>3, <2>3 DEF Asking
    <3>2. /\ senders[h].job \in 1..Len(msgs) /\ msgs[senders[h].job].gen = h
          /\ msgs[senders[h].job].st = "closed"
      BY <1>4, <2>3, <3>1 DEF IInv, FrontInv
    <3> QED BY <1>1, <1>4, <2>3, <3>1, <3>2
  <2> QED BY <2>2, <2>3
<1> QED BY <1>1, <1>9, <1>10 DEF IInv

-----------------------------------------------------------------------------
(* A request goes out *)

\* The request leaves its copy in the chat, or does not; nothing else changes.
Goes(g, m, to, what) ==
    /\ senders[g].pc = "request" /\ m = senders[g].job
    /\ to = IF Follows(m) THEN roots[msgs[m].dest] ELSE None
    /\ Sender(g, [senders[g] EXCEPT !.pc = "answered", !.answer = what, !.to = to])
    /\ UNCHANGED <<setup, adapter, generation, thread, inFlight, working, timers, closing, outside>>
    /\ \/ what /= "sent" /\ UNCHANGED <<msgs, arrived>>
       \/ /\ arrived' = Append(arrived, [msg |-> m, part |-> msgs[m].next + 1, to |-> to])
          /\ \/ what = "sent" /\ msgs' = msgs
             \/ what = "unreachable" /\ msgs' = [msgs EXCEPT ![m].lost = TRUE]

LEMMA RequestFacts ==
    ASSUME IInv, NEW g \in 1..Len(senders), Request(g)
    PROVE  \E m \in 1..Len(msgs), to \in Nat, what \in Answers : Goes(g, m, to, what)
<1>1. senders[g].pc = "request" /\ Asking(g)
  BY DEF Request, Asking
<1>2. PICK m \in 1..Len(msgs) : m = senders[g].job
  BY <1>1 DEF IInv, FrontInv
<1>3. msgs[m].dest \in Dests /\ roots \in [Dests -> Nat] /\ None \in Nat
  BY MessageFacts DEF IInv, NotifierTypeOK, None
<1>4. PICK to \in Nat : to = IF Follows(m) THEN roots[msgs[m].dest] ELSE None
  BY <1>3
<1> DEFINE Answer(what) == Sender(g, [senders[g] EXCEPT !.pc = "answered", !.answer = what, !.to = to])
           copy == [msg |-> m, part |-> msgs[m].next + 1, to |-> to]
<1>5. UNCHANGED <<setup, adapter, generation, thread, inFlight, working, timers, closing, outside>>
  BY DEF Request
<1>6. \/ Answer("unreachable") /\ UNCHANGED <<msgs, arrived>>
      \/ Answer("server") /\ UNCHANGED <<msgs, arrived>>
      \/ Answer("sent") /\ msgs' = msgs /\ arrived' = Append(arrived, copy)
      \/ /\ Answer("unreachable") /\ arrived' = Append(arrived, copy)
         /\ msgs' = [msgs EXCEPT ![m].lost = TRUE]
      \/ Answer("refused") /\ UNCHANGED <<msgs, arrived>>
      \/ Answer("wait") /\ UNCHANGED <<msgs, arrived>>
  BY <1>2, <1>4 DEF Request
<1> HIDE DEF Answer
<1>7. \E what \in Answers :
          /\ Answer(what)
          /\ \/ what /= "sent" /\ UNCHANGED <<msgs, arrived>>
             \/ /\ arrived' = Append(arrived, copy)
                /\ \/ what = "sent" /\ msgs' = msgs
                   \/ what = "unreachable" /\ msgs' = [msgs EXCEPT ![m].lost = TRUE]
  BY <1>6 DEF Answers
<1> QED BY <1>1, <1>2, <1>4, <1>5, <1>7 DEF Answer, Goes

LEMMA RequestTypes ==
    ASSUME IInv, NEW g \in 1..Len(senders), NEW m \in 1..Len(msgs), NEW to \in Nat,
           NEW what \in Answers, Goes(g, m, to, what)
    PROVE  /\ NotifierTypeOK'
           /\ senders'[g].pc = "answered" /\ senders'[g].answer = what /\ senders'[g].to = to
           /\ senders'[g].job = m /\ senders'[g].records = senders[g].records
           /\ senders'[g].work = senders[g].work
           /\ Len(senders') = Len(senders)
           /\ \A h \in 1..Len(senders) : h /= g => senders'[h] = senders[h]
           /\ Len(msgs') = Len(msgs) /\ Evolves(msgs, msgs')
           /\ \A n \in 1..Len(msgs) :
                  msgs'[n].st = msgs[n].st /\ (n /= m => msgs'[n].lost = msgs[n].lost)
           /\ msgs' = [msgs EXCEPT ![m].lost = TRUE] => msgs'[m].lost
<1> DEFINE copy == [msg |-> m, part |-> msgs[m].next + 1, to |-> to]
<1>1. PICK s : /\ s = [senders[g] EXCEPT !.pc = "answered", !.answer = what, !.to = to]
               /\ Sender(g, s)
  BY DEF Goes
<1>2. /\ senders[g].job = m /\ UNCHANGED <<setup, adapter, generation, thread, inFlight>>
       /\ \/ UNCHANGED <<msgs, arrived>>
          \/ /\ arrived' = Append(arrived, copy)
             /\ msgs' = msgs \/ msgs' = [msgs EXCEPT ![m].lost = TRUE]
  BY DEF Goes
<1>3. /\ s \in State /\ s.pc = "answered" /\ s.answer = what /\ s.to = to /\ s.job = m
      /\ s.records = senders[g].records /\ s.work = senders[g].work
  BY <1>1, <1>2, StateFacts DEF State, IInv
<1>4. /\ senders' \in Seq(State) /\ Len(senders') = Len(senders) /\ senders'[g] = s
      /\ \A h \in 1..Len(senders) : h /= g => senders'[h] = senders[h]
  BY <1>1, <1>3, SenderFacts DEF IInv
<1>5. msgs \in Seq(Message) /\ msgs[m] \in Message /\ msgs[m].next \in Nat
  BY MessageFacts DEF IInv, NotifierTypeOK
<1>6. copy \in Copy
  BY <1>5 DEF Copy
<1> HIDE DEF copy
<1>7. arrived' \in Seq(Copy)
  <2>1. arrived \in Seq(Copy) /\ Append(arrived, copy) \in Seq(Copy)
    BY <1>6, AppendProperties DEF IInv, NotifierTypeOK
  <2>2. arrived' = arrived \/ arrived' = Append(arrived, copy)
    BY <1>2
  <2> QED BY <2>1, <2>2
<1> DEFINE r == [msgs[m] EXCEPT !.lost = TRUE]
<1>8. /\ r \in Message
      /\ r.kind = msgs[m].kind /\ r.dest = msgs[m].dest /\ r.parts = msgs[m].parts
      /\ r.gen = msgs[m].gen /\ r.next = msgs[m].next /\ r.st = msgs[m].st
  BY <1>5 DEF Message
<1>9. r.lost = TRUE
  BY <1>5 DEF Message
<1>10. CASE msgs' = msgs
  <2>1. Evolves(msgs, msgs') /\ msgs' \in Seq(Message)
    BY <1>5, <1>10, SameEvolves
  <2>2. NotifierTypeOK'
    BY <1>2, <1>4, <1>7, <2>1, TypeFrame DEF adapter, IInv, NotifierTypeOK
  <2>3. msgs' = [msgs EXCEPT ![m].lost = TRUE] => msgs'[m].lost
    <3>1. [msgs EXCEPT ![m].lost = TRUE][m] = r
      BY <1>5, MessageFacts
    <3> QED BY <1>9, <3>1
  <2> QED BY <1>3, <1>4, <1>10, <2>1, <2>2, <2>3
<1>11. CASE msgs' = [msgs EXCEPT ![m].lost = TRUE]
  <2> HIDE DEF r
  <2>1. msgs' = [msgs EXCEPT ![m] = r]
    BY <1>11 DEF r
  <2>2. /\ msgs' \in Seq(Message) /\ Len(msgs') = Len(msgs) /\ msgs'[m] = r
        /\ \A n \in 1..Len(msgs) : n /= m => msgs'[n] = msgs[n]
    BY <1>5, <1>8, <2>1, ExceptSeq
  <2>3. Len(msgs) \in Nat
    BY <1>5, MessageFacts
  <2>4. ASSUME NEW n \in 1..Len(msgs)
        PROVE  /\ msgs'[n].kind = msgs[n].kind /\ msgs'[n].dest = msgs[n].dest
               /\ msgs'[n].parts = msgs[n].parts
               /\ msgs'[n].gen = msgs[n].gen /\ msgs'[n].next = msgs[n].next
               /\ msgs'[n].st = msgs[n].st
    BY <1>8, <2>2
  <2>5. ASSUME NEW n \in 1..Len(msgs) PROVE msgs[n].lost => msgs'[n].lost
    BY <1>9, <2>2
  <2>6. Evolves(msgs, msgs')
    BY <2>2, <2>3, <2>4, <2>5 DEF Evolves
  <2>7. NotifierTypeOK'
    BY <1>2, <1>4, <1>7, <2>2, TypeFrame DEF adapter, IInv, NotifierTypeOK
  <2>8. msgs'[m].lost
    BY <1>9, <2>2
  <2> QED BY <1>3, <1>4, <2>2, <2>4, <2>6, <2>7, <2>8
<1> QED BY <1>2, <1>10, <1>11

LEMMA RequestStep ==
    ASSUME IInv, NEW g \in 1..Len(senders), Request(g)
    PROVE  IInv'
<1>1. PICK m \in 1..Len(msgs), to \in Nat, what \in Answers : Goes(g, m, to, what)
  BY RequestFacts
<1>2. /\ senders[g].pc = "request" /\ m = senders[g].job
      /\ UNCHANGED <<setup, adapter, generation, thread, inFlight>>
      /\ \/ what /= "sent" /\ UNCHANGED <<msgs, arrived>>
         \/ /\ arrived' = Append(arrived, [msg |-> m, part |-> msgs[m].next + 1, to |-> to])
            /\ \/ what = "sent" /\ msgs' = msgs
               \/ what = "unreachable" /\ msgs' = [msgs EXCEPT ![m].lost = TRUE]
  BY <1>1 DEF Goes
<1>3. /\ NotifierTypeOK'
      /\ senders'[g].pc = "answered" /\ senders'[g].answer = what /\ senders'[g].job = m
      /\ Len(senders') = Len(senders)
      /\ \A h \in 1..Len(senders) : h /= g => senders'[h] = senders[h]
      /\ Len(msgs') = Len(msgs) /\ Evolves(msgs, msgs')
      /\ \A n \in 1..Len(msgs) :
             msgs'[n].st = msgs[n].st /\ (n /= m => msgs'[n].lost = msgs[n].lost)
      /\ msgs' = [msgs EXCEPT ![m].lost = TRUE] => msgs'[m].lost
  BY <1>1, RequestTypes
<1>4. /\ msgs \in Seq(Message) /\ Len(msgs) \in Nat /\ generation \in Nat
      /\ arrived \in Seq(Copy) /\ Len(arrived) \in Nat
      /\ \A n \in 1..Len(msgs) : msgs[n].gen \in Nat /\ msgs[n].next \in Nat
  BY MessageFacts, LenProperties DEF IInv, NotifierTypeOK
<1>5. Asking(g) /\ (g /= generation \/ (thread /= None /\ g = generation))
  BY <1>2, StateFacts DEF Asking, IInv
<1>6. /\ msgs[m].gen = g /\ g \in Nat /\ g <= generation
      /\ g = generation => /\ inFlight = m /\ msgs[m].st = "waiting"
                           /\ \A k \in Waiting : msgs[k].dest = msgs[m].dest => m <= k
      /\ g /= generation => msgs[m].st = "closed"
  BY <1>2, <1>5, StateFacts DEF IInv, FrontInv
<1>7. ASSUME NEW h \in 1..Len(senders'), Asking(h)'
      PROVE  /\ h \in 1..Len(senders) /\ Asking(h) /\ senders'[h].job = senders[h].job
             /\ h = generation => inFlight' = senders[h].job
                                  /\ msgs'[senders[h].job].st = "waiting"
  <2>1. h \in 1..Len(senders) /\ Asking(h) /\ senders'[h].job = senders[h].job
    BY <1>2, <1>3, <1>5, <1>7 DEF Asking
  <2>2. PICK n \in 1..Len(msgs) : n = senders[h].job
    BY <2>1 DEF IInv, FrontInv
  <2>3. h = generation => inFlight = n /\ msgs[n].st = "waiting"
    BY <2>1, <2>2 DEF IInv, FrontInv
  <2> QED BY <1>2, <1>3, <2>1, <2>2, <2>3
<1>8. FrontInv'
  BY <1>2, <1>3, <1>7, FrontKept
<1>9. \A n : ~Delivered(n) \/ g /= generation
  BY <1>2 DEF Delivered
<1>10. \A n \in 1..Len(msgs') : msgs'[n].st = "waiting" => thread' /= None /\ generation' = generation
  BY <1>2, <1>3 DEF IInv, MessageInv
<1>11. ASSUME g /= generation, NEW n PROVE Delivered(n)' <=> Delivered(n)
  <2>1. generation' = generation /\ thread' = thread
    BY <1>2
  <2>2. CASE thread = None
    BY <2>1, <2>2 DEF Delivered
  <2>3. CASE thread /= None
    <3>1. generation \in 1..Len(senders)
      BY <2>3, LenProperties DEF IInv, NotifierTypeOK
    <3>2. senders'[generation] = senders[generation]
      BY <1>3, <1>11, <3>1
    <3> QED BY <2>1, <3>2 DEF Delivered
  <2> QED BY <2>2, <2>3
<1>12. ASSUME g = generation, NEW n PROVE Delivered(n)' <=> what = "sent" /\ n = m
  BY <1>2, <1>3, <1>5, <1>12 DEF Delivered
<1>13. generation' >= generation
  BY <1>2, <1>4
<1>14. MessageInv'
  BY <1>2, <1>3, <1>10, <1>13, MessageKept
<1>15. CASE what /= "sent" /\ UNCHANGED <<msgs, arrived>>
  <2>1. \A n \in 1..Len(msgs') : msgs'[n].st /= "closed" => (Delivered(n)' <=> Delivered(n))
    BY <1>9, <1>11, <1>12, <1>15
  <2>2. PassedInv' /\ CountInv' /\ InOrder'
    BY <1>2, <1>3, <1>10, <1>13, <1>15, <2>1, BooksKept
  <2> QED BY <1>3, <1>8, <1>14, <2>2 DEF IInv
<1>16. CASE /\ arrived' = Append(arrived, [msg |-> m, part |-> msgs[m].next + 1, to |-> to])
            /\ \/ what = "sent" /\ msgs' = msgs
               \/ what = "unreachable" /\ msgs' = [msgs EXCEPT ![m].lost = TRUE]
  <2> DEFINE last == Len(arrived) + 1
  <2>1. /\ Len(arrived') = last /\ last \in Nat /\ last \notin 1..Len(arrived)
        /\ arrived'[last].msg = m /\ arrived'[last].part = msgs[m].next + 1
        /\ \A i \in 1..Len(arrived) : arrived'[i] = arrived[i]
    <3> DEFINE copy == [msg |-> m, part |-> msgs[m].next + 1, to |-> to]
    <3>1. copy \in Copy /\ copy.msg = m /\ copy.part = msgs[m].next + 1
      BY <1>4 DEF Copy
    <3> HIDE DEF copy
    <3>2. arrived' = Append(arrived, copy)
      BY <1>16 DEF copy
    <3> QED BY <1>4, <3>1, <3>2, AppendProperties
  <2>2. \A i \in 1..Len(arrived') : i \in 1..Len(arrived) \/ i = last
    BY <1>4, <2>1
  <2>3. \A n \in 1..Len(msgs) :
            /\ msgs'[n].dest = msgs[n].dest /\ msgs'[n].next = msgs[n].next
            /\ msgs'[n].st = msgs[n].st /\ (msgs[n].lost => msgs'[n].lost)
    BY <1>3 DEF Evolves
  <2>4. Waiting' = Waiting
    <3>1. \A k : k \in Waiting' <=> k \in 1..Len(msgs') /\ msgs'[k].st = "waiting"
      BY <1>2, <1>3, WaitingNext
    <3>2. \A k : k \in Waiting <=> k \in 1..Len(msgs) /\ msgs[k].st = "waiting"
      BY WaitingFacts DEF IInv
    <3>3. \A k : k \in Waiting' <=> k \in Waiting
      BY <1>3, <3>1, <3>2
    <3> QED BY <3>3
  <2>5. what = "sent" \/ msgs'[m].lost
    BY <1>3, <1>16
  <2> HIDE DEF last
  <2>6. \A k \in Waiting : msgs[k].dest = msgs[m].dest => m <= k
    <3>1. CASE g = generation
      BY <1>6, <3>1
    <3>2. CASE g /= generation
      <4> SUFFICES ASSUME NEW k \in Waiting PROVE m <= k
        OBVIOUS
      <4>1. k \in 1..Len(msgs) /\ msgs[k].st = "waiting"
        BY WaitingFacts DEF IInv
      <4>2. msgs[k].gen = generation
        BY <4>1 DEF IInv, MessageInv
      <4>3. CASE k < m
        <5>1. k \in 1..m
          BY <4>1, <4>3
        <5>2. msgs[k].gen <= msgs[m].gen
          BY <5>1 DEF IInv, MessageInv
        <5> QED BY <1>4, <1>6, <3>2, <4>2, <5>2
      <4> QED BY <4>1, <4>3
    <3> QED BY <3>1, <3>2
  <2>7. PassedInv'
    <3> SUFFICES ASSUME NEW i \in 1..Len(arrived')
                 PROVE  /\ arrived'[i].msg \in 1..Len(msgs')
                        /\ \A k \in Waiting' :
                               msgs'[k].dest = msgs'[arrived'[i].msg].dest => arrived'[i].msg <= k
                        /\ msgs'[arrived'[i].msg].st = "waiting" =>
                               /\ arrived'[i].part <= msgs'[arrived'[i].msg].next + 1
                               /\ arrived'[i].part = msgs'[arrived'[i].msg].next + 1 =>
                                      \/ msgs'[arrived'[i].msg].lost
                                      \/ Delivered(arrived[i].msg)'
      BY DEF PassedInv
    <3>1. CASE i \in 1..Len(arrived)
      <4>1. PICK n \in 1..Len(msgs) : n = arrived[i].msg
        BY <3>1 DEF IInv, PassedInv
      <4>2. /\ \A k \in Waiting : msgs[k].dest = msgs[n].dest => n <= k
            /\ msgs[n].st = "waiting" =>
                   /\ arrived[i].part <= msgs[n].next + 1
                   /\ arrived[i].part = msgs[n].next + 1 => msgs[n].lost \/ Delivered(n)
        BY <3>1, <4>1 DEF IInv, PassedInv
      <4>3. arrived'[i] = arrived[i] /\ arrived'[i].msg = n
        BY <2>1, <3>1, <4>1
      <4>4. ASSUME NEW k \in Waiting', msgs'[k].dest = msgs'[n].dest PROVE n <= k
        <5>1. k \in Waiting /\ k \in 1..Len(msgs)
          BY <2>4, WaitingFacts DEF IInv
        <5> QED BY <2>3, <4>2, <4>4, <5>1
      <4>5. Delivered(n) => Delivered(n)'
        BY <1>9, <1>11
      <4>6. Delivered(arrived[i].msg)' <=> Delivered(n)'
        BY <4>3 DEF Delivered
      <4> QED BY <1>3, <2>3, <4>2, <4>3, <4>4, <4>5, <4>6
    <3>2. CASE i = last
      <4>1. arrived'[i].msg = m /\ arrived'[i].part = msgs[m].next + 1
        BY <2>1, <3>2
      <4>2. \A k \in Waiting' : msgs'[k].dest = msgs'[m].dest => m <= k
        <5> SUFFICES ASSUME NEW k \in Waiting', msgs'[k].dest = msgs'[m].dest PROVE m <= k
          OBVIOUS
        <5>1. k \in Waiting /\ k \in 1..Len(msgs)
          BY <2>4, WaitingFacts DEF IInv
        <5> QED BY <2>3, <2>6, <5>1
      <4>3. msgs'[m].st = "waiting" => msgs'[m].lost \/ Delivered(m)'
        <5>1. msgs'[m].st = "waiting" => g = generation
          BY <1>6, <2>3
        <5> QED BY <1>12, <2>5, <5>1
      <4>4. Delivered(arrived[i].msg)' <=> Delivered(m)'
        BY <4>1 DEF Delivered
      <4>5. msgs'[m].next = msgs[m].next /\ msgs[m].next \in Nat
        BY <1>4, <2>3
      <4> QED BY <1>3, <4>1, <4>2, <4>3, <4>4, <4>5
    <3> QED BY <2>2, <3>1, <3>2
  <2>8. CountInv'
    <3> SUFFICES ASSUME NEW n \in 1..Len(msgs'), msgs'[n].st /= "closed", ~msgs'[n].lost
                 PROVE  Cardinality(Copies(n)') = msgs'[n].next + (IF Delivered(n)' THEN 1 ELSE 0)
      BY DEF CountInv
    <3>1. n \in 1..Len(msgs) /\ msgs[n].st /= "closed" /\ ~msgs[n].lost /\ msgs'[n].next = msgs[n].next
      BY <1>3, <2>3
    <3>2. Cardinality(Copies(n)) = msgs[n].next + (IF Delivered(n) THEN 1 ELSE 0)
      BY <3>1 DEF IInv, CountInv
    <3>3. CASE n /= m
      <4>1. Copies(n)' = Copies(n)
        <5>1. \A i : i \in Copies(n)' <=> i \in Copies(n)
          <6> SUFFICES ASSUME NEW i
                       PROVE  i \in 1..Len(arrived') /\ arrived'[i].msg = n
                              <=> i \in 1..Len(arrived) /\ arrived[i].msg = n
            BY DEF Copies
          <6>1. CASE i \in 1..Len(arrived)
            BY <1>4, <2>1, <6>1 DEF last
          <6>2. CASE i = last
            BY <2>1, <3>3, <6>2
          <6>3. CASE i \notin 1..Len(arrived) /\ i /= last
            BY <2>2, <6>3
          <6> QED BY <6>1, <6>2, <6>3
        <5> QED BY <5>1
      <4>2. Delivered(n)' <=> Delivered(n)
        BY <1>9, <1>11, <1>12, <3>3
      <4> QED BY <3>1, <3>2, <4>1, <4>2
    <3>4. CASE n = m
      <4>1. g = generation /\ what = "sent"
        BY <1>6, <2>5, <3>1, <3>4
      <4>2. ~Delivered(n) /\ Delivered(n)'
        BY <1>9, <1>12, <3>4, <4>1
      <4>3. IsFiniteSet(Copies(n)) /\ last \notin Copies(n)
        <5>1. Copies(n) \subseteq 1..Len(arrived)
          BY DEF Copies
        <5>2. IsFiniteSet(1..Len(arrived))
          BY <1>4, FS_Interval
        <5> QED BY <2>1, <5>1, <5>2, FS_Subset
      <4>4. Copies(n)' = Copies(n) \cup {last}
        <5>1. \A i : i \in Copies(n)' <=> i \in Copies(n) \/ i = last
          <6> SUFFICES ASSUME NEW i
                       PROVE  /\ i \in 1..Len(arrived') /\ arrived'[i].msg = n
                              <=> (i \in 1..Len(arrived) /\ arrived[i].msg = n) \/ i = last
            BY DEF Copies
          <6>1. CASE i \in 1..Len(arrived)
            BY <1>4, <2>1, <6>1 DEF last
          <6>2. CASE i = last
            BY <1>4, <2>1, <3>4, <6>2 DEF last
          <6>3. CASE i \notin 1..Len(arrived) /\ i /= last
            BY <2>2, <6>3
          <6> QED BY <6>1, <6>2, <6>3
        <5> QED BY <5>1
      <4>5. Cardinality(Copies(n) \cup {last}) = Cardinality(Copies(n)) + 1
        BY <4>3, FS_AddElement
      <4>6. PICK c \in Nat : c = msgs[n].next
        BY <1>4, <3>1
      <4> QED BY <3>1, <3>2, <4>2, <4>4, <4>5, <4>6
    <3> QED BY <3>3, <3>4
  <2>9. InOrder'
    <3>1. DOMAIN arrived' = 1..Len(arrived') /\ DOMAIN arrived = 1..Len(arrived)
      BY <1>3, <1>4, LenProperties DEF NotifierTypeOK
    <3> SUFFICES ASSUME NEW i \in 1..Len(arrived'), NEW j \in 1..Len(arrived'), i < j,
                        msgs'[arrived'[i].msg].dest = msgs'[arrived'[j].msg].dest
                 PROVE  \/ arrived'[i].msg < arrived'[j].msg
                        \/ msgs'[arrived'[j].msg].st = "closed"
                        \/ /\ arrived'[i].msg = arrived'[j].msg
                           /\ \/ arrived'[i].part < arrived'[j].part
                              \/ /\ arrived'[i].part = arrived'[j].part
                                 /\ msgs'[arrived'[i].msg].lost
      BY <3>1 DEF InOrder
    <3>2. i \in 1..Len(arrived) /\ arrived'[i] = arrived[i]
      BY <1>4, <2>1 DEF last
    <3>3. PICK a \in 1..Len(msgs) : a = arrived[i].msg
      BY <3>2 DEF IInv, PassedInv
    <3>4. CASE j \in 1..Len(arrived)
      <4>1. PICK b \in 1..Len(msgs) : b = arrived[j].msg
        BY <3>4 DEF IInv, PassedInv
      <4>2. msgs[a].dest = msgs[b].dest
        BY <2>1, <2>3, <3>2, <3>3, <3>4, <4>1
      <4>3. \/ a < b
            \/ msgs[b].st = "closed"
            \/ /\ a = b
               /\ \/ arrived[i].part < arrived[j].part
                  \/ arrived[i].part = arrived[j].part /\ msgs[a].lost
        BY <3>1, <3>2, <3>3, <3>4, <4>1, <4>2 DEF IInv, InOrder
      <4> QED BY <2>1, <2>3, <3>2, <3>3, <3>4, <4>1, <4>3
    <3>5. CASE j = last
      <4>1. arrived'[j].msg = m /\ arrived'[j].part = msgs[m].next + 1
        BY <2>1, <3>5
      <4>2. CASE g /= generation
        BY <1>6, <2>3, <4>1, <4>2
      <4>3. CASE g = generation
        <5>1. msgs[m].st = "waiting" /\ m \in Waiting
          BY <1>6, <4>3, WaitingFacts DEF IInv
        <5>2. msgs[m].dest = msgs[a].dest
          BY <2>3, <3>2, <3>3, <4>1
        <5>3. a <= m
          BY <3>2, <3>3, <5>1, <5>2 DEF IInv, PassedInv
        <5>4. a = m => /\ arrived[i].part <= msgs[m].next + 1
                       /\ arrived[i].part = msgs[m].next + 1 => msgs[m].lost
          BY <1>9, <3>2, <3>3, <4>3, <5>1 DEF IInv, PassedInv
        <5>5. PICK p \in Nat : p = arrived[i].part
          <6>1. arrived[i] \in Copy
            BY <1>4, <3>2, ElementOfSeq
          <6> QED BY <6>1 DEF Copy
        <5>6. PICK q \in Nat : q = msgs[m].next
          BY <1>4
        <5>7. a = m => p < q + 1 \/ (p = q + 1 /\ msgs'[m].lost)
          BY <2>3, <5>4, <5>5, <5>6
        <5> QED BY <3>2, <3>3, <4>1, <5>3, <5>5, <5>6, <5>7
      <4> QED BY <4>2, <4>3
    <3> QED BY <2>2, <3>4, <3>5
  <2> QED BY <1>3, <1>8, <1>14, <2>7, <2>8, <2>9 DEF IInv
<1> QED BY <1>2, <1>15, <1>16

-----------------------------------------------------------------------------
(* Its answer is settled *)

\* An answer that counts is the current sender's, for the message it has in hand.
LEMMA AnsweredFacts ==
    ASSUME IInv, NEW g \in 1..Len(senders), NEW what, Answered(g, what)
    PROVE  \E m \in 1..Len(msgs) :
               /\ m = senders[g].job /\ msgs[m].st = "waiting"
               /\ g = generation /\ thread /= None /\ inFlight = m /\ inFlight' = None
               /\ senders[g].pc = "answered" /\ senders[g].answer = what
               /\ senders' \in Seq(State) /\ Len(senders') = Len(senders)
               /\ senders'[g] = Idle
               /\ \A h \in 1..Len(senders) : h /= g => senders'[h] = senders[h]
               /\ \A h \in 1..Len(senders') : Asking(h)' =>
                      h \in 1..Len(senders) /\ h /= generation /\ Asking(h)
                      /\ senders'[h] = senders[h]
               /\ UNCHANGED <<setup, inbox, roots, generation, thread, working, closing, outside,
                              budget, arrived>>
<1>1. /\ senders[g].pc = "answered" /\ senders[g].answer = what
      /\ msgs[senders[g].job].st = "waiting"
      /\ inFlight' = IF inFlight = senders[g].job THEN None ELSE inFlight
      /\ Sender(g, Idle)
      /\ UNCHANGED <<setup, inbox, roots, generation, thread, working, closing, outside, budget,
                     arrived>>
  BY DEF Answered
<1>2. Asking(g)
  BY <1>1 DEF Asking
<1>3. PICK m \in 1..Len(msgs) : m = senders[g].job
  BY <1>2 DEF IInv, FrontInv
<1>4. msgs[m].st = "waiting" /\ msgs[m].st /= "closed"
  BY <1>1, <1>3
<1>5. g = generation /\ thread /= None
  BY <1>2, <1>3, <1>4 DEF IInv, FrontInv
<1>6. inFlight = m
  BY <1>2, <1>3, <1>5 DEF IInv, FrontInv
<1>7. /\ senders' \in Seq(State) /\ Len(senders') = Len(senders)
      /\ senders'[g] = Idle
      /\ \A h \in 1..Len(senders) : h /= g => senders'[h] = senders[h]
  BY <1>1, IdleFacts, SenderFacts DEF IInv
<1>8. ASSUME NEW h \in 1..Len(senders'), Asking(h)'
      PROVE  h \in 1..Len(senders) /\ h /= generation /\ Asking(h) /\ senders'[h] = senders[h]
  BY <1>5, <1>7, <1>8, IdleFacts DEF Asking
<1> QED BY <1>1, <1>3, <1>4, <1>5, <1>6, <1>7, <1>8

\* Any answer but "sent".
LEMMA NotSentStep ==
    ASSUME IInv, NEW g \in 1..Len(senders), NEW what, Answered(g, what), what /= "sent",
           callbacks' = callbacks,
           msgs' \in Seq(Message), Len(msgs') = Len(msgs), Evolves(msgs, msgs')
    PROVE  IInv'
<1>1. PICK m \in 1..Len(msgs) :
               /\ m = senders[g].job /\ msgs[m].st = "waiting"
               /\ g = generation /\ thread /= None /\ inFlight = m /\ inFlight' = None
               /\ senders[g].pc = "answered" /\ senders[g].answer = what
               /\ senders' \in Seq(State) /\ Len(senders') = Len(senders)
               /\ senders'[g] = Idle
               /\ \A h \in 1..Len(senders') : Asking(h)' =>
                      h \in 1..Len(senders) /\ h /= generation /\ Asking(h)
                      /\ senders'[h] = senders[h]
               /\ UNCHANGED <<setup, inbox, roots, generation, thread, arrived>>
  BY AnsweredFacts
<1>2. inFlight' \in Nat
  BY <1>1 DEF None
<1>3. NotifierTypeOK'
  BY <1>1, <1>2, TypeFrame DEF IInv, NotifierTypeOK
<1>4. \A n \in 1..Len(msgs) : Delivered(n)' <=> Delivered(n)
  BY <1>1, IdleFacts DEF Delivered
<1>5. \A h \in 1..Len(senders') : Asking(h)' =>
          /\ h \in 1..Len(senders) /\ Asking(h) /\ senders'[h].job = senders[h].job
          /\ h = generation => inFlight' = senders[h].job
                               /\ msgs'[senders[h].job].st = "waiting"
  BY <1>1
<1> QED BY <1>1, <1>3, <1>4, <1>5, QuietStep

LEMMA SettleWaitStep ==
    ASSUME IInv, NEW g \in 1..Len(senders), SettleWait(g)
    PROVE  IInv'
<1>1. Answered(g, "wait") /\ UNCHANGED <<msgs, callbacks>>
  BY DEF SettleWait
<1>2. msgs \in Seq(Message) /\ Evolves(msgs, msgs)
  BY SameEvolves DEF IInv, NotifierTypeOK
<1> QED BY <1>1, <1>2, NotSentStep

LEMMA SettleRefusedFacts ==
    ASSUME IInv, NEW g \in 1..Len(senders), SettleRefused(g)
    PROVE  /\ Answered(g, "refused") /\ callbacks' = callbacks
           /\ msgs' \in Seq(Message) /\ Len(msgs') = Len(msgs) /\ Evolves(msgs, msgs')
<1>1. /\ Answered(g, "refused") /\ callbacks' = callbacks
      /\ msgs' = IF Edited(g) THEN [msgs EXCEPT ![senders[g].job].plain = TRUE]
                 ELSE Ended(msgs, {senders[g].job}, "refused")
  BY DEF SettleRefused
<1>2. PICK m \in 1..Len(msgs) : m = senders[g].job /\ msgs[m].st = "waiting"
  BY <1>1, AnsweredFacts
<1>3. msgs \in Seq(Message) /\ msgs[m] \in Message /\ Len(msgs) \in Nat
  BY MessageFacts DEF IInv, NotifierTypeOK
<1>4. CASE msgs' = Ended(msgs, {m}, "refused")
  <2>1. "refused" \in Ends \ {"sent"}
    BY DEF Ends
  <2>2. PICK S : S = {m}
    OBVIOUS
  <2>3. msgs' = Ended(msgs, S, "refused") /\ \A k \in S : msgs[k].st = "waiting"
    BY <1>2, <1>4, <2>2
  <2>4. \A k \in S : k \in 1..Len(msgs) => msgs[k].st = "waiting"
    BY <2>3
  <2>5. Evolves(msgs, Ended(msgs, S, "refused"))
    BY <1>3, <2>1, <2>4, EndedEvolves
  <2>6. Ended(msgs, S, "refused") \in Seq(Message) /\ Len(Ended(msgs, S, "refused")) = Len(msgs)
    BY <1>3, <2>1, EndedFacts
  <2> QED BY <1>1, <2>3, <2>5, <2>6
<1>5. CASE msgs' = [msgs EXCEPT ![m].plain = TRUE]
  <2> DEFINE r == [msgs[m] EXCEPT !.plain = TRUE]
  <2>1. /\ r \in Message
        /\ r.kind = msgs[m].kind /\ r.dest = msgs[m].dest /\ r.parts = msgs[m].parts
        /\ r.gen = msgs[m].gen /\ r.next = msgs[m].next /\ r.st = msgs[m].st
        /\ r.lost = msgs[m].lost
    BY <1>3 DEF Message
  <2>2. msgs' = [msgs EXCEPT ![m] = r]
    BY <1>5
  <2> HIDE DEF r
  <2>3. /\ msgs' \in Seq(Message) /\ Len(msgs') = Len(msgs) /\ msgs'[m] = r
        /\ \A n \in 1..Len(msgs) : n /= m => msgs'[n] = msgs[n]
    BY <1>3, <2>1, <2>2, ExceptSeq
  <2>4. \A n \in 1..Len(msgs) :
            /\ msgs'[n].kind = msgs[n].kind /\ msgs'[n].dest = msgs[n].dest
            /\ msgs'[n].parts = msgs[n].parts
            /\ msgs'[n].gen = msgs[n].gen /\ msgs'[n].next = msgs[n].next
            /\ msgs'[n].st = msgs[n].st /\ msgs'[n].lost = msgs[n].lost
    BY <2>1, <2>3
  <2>5. Evolves(msgs, msgs')
    BY <1>3, <2>3, <2>4 DEF Evolves
  <2> QED BY <1>1, <2>3, <2>5
<1> QED BY <1>1, <1>2, <1>4, <1>5

LEMMA SettleRefusedStep ==
    ASSUME IInv, NEW g \in 1..Len(senders), SettleRefused(g)
    PROVE  IInv'
BY SettleRefusedFacts, NotSentStep

LEMMA GivenUpFacts ==
    ASSUME IInv, NEW m, NEW S, msgs' = GivenUp(m, S)
    PROVE  msgs' \in Seq(Message) /\ Len(msgs') = Len(msgs) /\ Evolves(msgs, msgs')
<1> DEFINE T == {k \in S : Overdue(k)}
<1>1. msgs' = Ended(msgs, T, "withdrawn")
  BY DEF GivenUp
<1>2. \A k \in T : k \in 1..Len(msgs) => msgs[k].st = "waiting"
  BY DEF Overdue
<1>3. "withdrawn" \in Ends \ {"sent"}
  BY DEF Ends
<1>4. msgs \in Seq(Message)
  BY DEF IInv, NotifierTypeOK
<1> HIDE DEF T
<1> QED BY <1>1, <1>2, <1>3, <1>4, EndedFacts, EndedEvolves

LEMMA SettleServerFacts ==
    ASSUME IInv, NEW g \in 1..Len(senders), SettleServer(g)
    PROVE  /\ Answered(g, "server") /\ callbacks' = callbacks
           /\ msgs' \in Seq(Message) /\ Len(msgs') = Len(msgs) /\ Evolves(msgs, msgs')
<1>1. Answered(g, "server") /\ callbacks' = callbacks
  BY DEF SettleServer
<1>2. msgs' = GivenUp(senders[g].job, WaitingTo(msgs[senders[g].job].dest))
  BY DEF SettleServer
<1> QED BY <1>1, <1>2, GivenUpFacts

LEMMA SettleUnreachableFacts ==
    ASSUME IInv, NEW g \in 1..Len(senders), SettleUnreachable(g)
    PROVE  /\ Answered(g, "unreachable") /\ UNCHANGED <<callbacks, pause>>
           /\ msgs' \in Seq(Message) /\ Len(msgs') = Len(msgs) /\ Evolves(msgs, msgs')
<1>1. Answered(g, "unreachable") /\ UNCHANGED <<callbacks, pause>>
  BY DEF SettleUnreachable
<1>2. msgs' = GivenUp(senders[g].job, Waiting)
  BY DEF SettleUnreachable
<1> QED BY <1>1, <1>2, GivenUpFacts

LEMMA SettleServerStep ==
    ASSUME IInv, NEW g \in 1..Len(senders), SettleServer(g)
    PROVE  IInv'
BY SettleServerFacts, NotSentStep

LEMMA SettleUnreachableStep ==
    ASSUME IInv, NEW g \in 1..Len(senders), SettleUnreachable(g)
    PROVE  IInv'
BY SettleUnreachableFacts, NotSentStep

\* The answer to what close() gave up is nobody's.
LEMMA SettleClosedFacts ==
    ASSUME IInv, NEW g \in 1..Len(senders), SettleClosed(g)
    PROVE  /\ NotifierTypeOK' /\ g /= generation /\ Len(senders') = Len(senders)
           /\ senders[g].pc = "answered" /\ senders'[g] = Idle
           /\ \A h \in 1..Len(senders) : h /= g => senders'[h] = senders[h]
           /\ \A h \in 1..Len(senders) : h = generation /\ Asking(h) => inFlight' = senders[h].job
           /\ UNCHANGED <<setup, msgs, adapter, generation, thread, working, timers, closing,
                          outside, budget, arrived>>
<1>1. /\ senders[g].pc = "answered" /\ msgs[senders[g].job].st /= "waiting"
      /\ inFlight' = IF inFlight = senders[g].job THEN None ELSE inFlight
      /\ Sender(g, Idle)
      /\ UNCHANGED <<setup, msgs, adapter, generation, thread, working, timers, closing, outside,
                     budget, arrived>>
  BY DEF SettleClosed
<1>2. Asking(g) /\ g /= generation
  BY <1>1 DEF Asking, IInv, FrontInv
<1>3. /\ senders' \in Seq(State) /\ Len(senders') = Len(senders) /\ senders'[g] = Idle
      /\ \A h \in 1..Len(senders) : h /= g => senders'[h] = senders[h]
  BY <1>1, IdleFacts, SenderFacts DEF IInv
<1>4. inFlight' \in Nat
  BY <1>1 DEF IInv, NotifierTypeOK, None
<1>5. NotifierTypeOK'
  BY <1>1, <1>3, <1>4, TypeFrame DEF adapter, IInv, NotifierTypeOK
<1>6. ASSUME NEW h \in 1..Len(senders), h = generation, Asking(h)
      PROVE  inFlight' = senders[h].job
  <2>1. inFlight = senders[h].job /\ msgs[senders[h].job].st = "waiting"
    BY <1>6 DEF IInv, FrontInv
  <2> QED BY <1>1, <2>1
<1> QED BY <1>1, <1>2, <1>3, <1>5, <1>6

LEMMA SettleClosedStep ==
    ASSUME IInv, NEW g \in 1..Len(senders), SettleClosed(g)
    PROVE  IInv'
<1>1. /\ NotifierTypeOK' /\ g /= generation /\ Len(senders') = Len(senders)
      /\ senders'[g] = Idle
      /\ \A h \in 1..Len(senders) : h /= g => senders'[h] = senders[h]
      /\ \A h \in 1..Len(senders) : h = generation /\ Asking(h) => inFlight' = senders[h].job
      /\ UNCHANGED <<setup, msgs, generation, thread, arrived>>
  BY SettleClosedFacts
<1>2. Evolves(msgs, msgs')
  BY <1>1, SameEvolves DEF IInv, NotifierTypeOK
<1>3. \A n \in 1..Len(msgs) : Delivered(n)' <=> Delivered(n)
  <2>1. thread /= None => generation \in 1..Len(senders)
    BY LenProperties DEF IInv, NotifierTypeOK
  <2> QED BY <1>1, <2>1 DEF Delivered
<1>4. ASSUME NEW h \in 1..Len(senders'), Asking(h)'
      PROVE  /\ h \in 1..Len(senders) /\ Asking(h) /\ senders'[h].job = senders[h].job
             /\ h = generation => inFlight' = senders[h].job
                                  /\ msgs'[senders[h].job].st = "waiting"
  <2>1. h \in 1..Len(senders) /\ Asking(h) /\ senders'[h] = senders[h]
    BY <1>1, <1>4, IdleFacts DEF Asking
  <2>2. h = generation => msgs[senders[h].job].st = "waiting"
    BY <2>1 DEF IInv, FrontInv
  <2> QED BY <1>1, <2>1, <2>2
<1> QED BY <1>1, <1>2, <1>3, <1>4, QuietStep

\* Every request of a message was one part of it, in turn.
LEMMA SettleSentFacts ==
    ASSUME IInv, NEW g \in 1..Len(senders), SettleSent(g)
    PROVE  \E m \in 1..Len(msgs), whole \in BOOLEAN :
               /\ m = senders[g].job
               /\ whole <=> msgs[m].next + 1 = msgs[m].parts
               /\ msgs' \in Seq(Message) /\ Len(msgs') = Len(msgs)
               /\ msgs'[m].kind = msgs[m].kind /\ msgs'[m].dest = msgs[m].dest
               /\ msgs'[m].parts = msgs[m].parts /\ msgs'[m].gen = msgs[m].gen
               /\ msgs'[m].lost = msgs[m].lost /\ msgs'[m].next = msgs[m].next + 1
               /\ msgs'[m].st = IF whole THEN "sent" ELSE "waiting"
               /\ \A n \in 1..Len(msgs) : n /= m => msgs'[n] = msgs[n]
               /\ callbacks' = IF whole /\ msgs[m].kind = "open" THEN Append(callbacks, m)
                               ELSE callbacks
               /\ pause' = [pause EXCEPT ![msgs[m].dest] = IF 0 > setup.pace THEN 0 ELSE setup.pace]
               /\ Answered(g, "sent") /\ NotifierTypeOK'
<1>1. /\ Answered(g, "sent")
      /\ LET m == senders[g].job
             next == IF Edited(g) THEN msgs[m].parts ELSE msgs[m].next + 1
             whole == next = msgs[m].parts
         IN  /\ msgs' = [msgs EXCEPT ![m].next = next, ![m].st = IF whole THEN "sent" ELSE @]
             /\ callbacks' = IF whole /\ msgs[m].kind = "open" THEN Append(callbacks, m)
                             ELSE callbacks
             /\ pause' = [pause EXCEPT ![msgs[m].dest] = IF 0 > setup.pace THEN 0 ELSE setup.pace]
  BY DEF SettleSent, Reached
<1>2. PICK m \in 1..Len(msgs) :
          /\ m = senders[g].job /\ msgs[m].st = "waiting"
          /\ g = generation /\ inFlight' = None
          /\ senders' \in Seq(State) /\ Len(senders') = Len(senders)
          /\ UNCHANGED <<setup, inbox, roots, generation, thread, working, closing, outside,
                         budget, arrived>>
  BY <1>1, AnsweredFacts
<1>3. /\ msgs \in Seq(Message) /\ msgs[m] \in Message /\ Len(msgs) \in Nat
      /\ msgs[m].next \in Nat /\ msgs[m].parts \in Nat
  BY MessageFacts DEF IInv, NotifierTypeOK
<1>4. msgs[m].next < msgs[m].parts /\ (msgs[m].kind = "edit" => msgs[m].parts = 1)
  BY <1>2 DEF IInv, MessageInv
<1>5. PICK next \in Nat : next = msgs[m].next + 1
  BY <1>3
<1>6. (IF Edited(g) THEN msgs[m].parts ELSE msgs[m].next + 1) = next
  <2>1. Edited(g) => msgs[m].kind = "edit"
    BY <1>2 DEF Edited
  <2> QED BY <1>3, <1>4, <1>5, <2>1
<1>7. PICK whole \in BOOLEAN : whole <=> next = msgs[m].parts
  OBVIOUS
<1>8. /\ msgs' = [msgs EXCEPT ![m].next = next, ![m].st = IF whole THEN "sent" ELSE "waiting"]
      /\ callbacks' = IF whole /\ msgs[m].kind = "open" THEN Append(callbacks, m) ELSE callbacks
      /\ pause' = [pause EXCEPT ![msgs[m].dest] = IF 0 > setup.pace THEN 0 ELSE setup.pace]
  <2>1. /\ msgs' = [msgs EXCEPT ![m].next = next,
                                ![m].st = IF next = msgs[m].parts THEN "sent" ELSE @]
        /\ callbacks' = IF next = msgs[m].parts /\ msgs[m].kind = "open" THEN Append(callbacks, m)
                        ELSE callbacks
        /\ pause' = [pause EXCEPT ![msgs[m].dest] = IF 0 > setup.pace THEN 0 ELSE setup.pace]
    BY <1>1, <1>2, <1>6
  <2> QED BY <1>2, <1>3, <1>7, <2>1
<1> DEFINE r == [msgs[m] EXCEPT !.next = next, !.st = IF whole THEN "sent" ELSE "waiting"]
<1>9. /\ r \in Message
      /\ r.kind = msgs[m].kind /\ r.dest = msgs[m].dest /\ r.parts = msgs[m].parts
      /\ r.gen = msgs[m].gen /\ r.next = next /\ r.lost = msgs[m].lost
      /\ r.st = IF whole THEN "sent" ELSE "waiting"
  BY <1>3 DEF Message, Ends
<1>10. msgs' = [msgs EXCEPT ![m] = r]
  BY <1>3, <1>8
<1> HIDE DEF r
<1>11. /\ msgs' \in Seq(Message) /\ Len(msgs') = Len(msgs) /\ msgs'[m] = r
       /\ \A n \in 1..Len(msgs) : n /= m => msgs'[n] = msgs[n]
  BY <1>3, <1>9, <1>10, ExceptSeq
<1>12. callbacks' \in Seq(Nat)
  <2>1. callbacks \in Seq(Nat) /\ m \in Nat
    BY DEF IInv, NotifierTypeOK
  <2>2. Append(callbacks, m) \in Seq(Nat)
    BY <2>1, AppendProperties
  <2> QED BY <1>8, <2>1, <2>2
<1>13. NotifierTypeOK'
  BY <1>2, <1>11, <1>12, TypeFrame DEF None, IInv, NotifierTypeOK
<1>14. /\ m = senders[g].job
       /\ whole <=> msgs[m].next + 1 = msgs[m].parts
       /\ msgs' \in Seq(Message) /\ Len(msgs') = Len(msgs)
       /\ msgs'[m].kind = msgs[m].kind /\ msgs'[m].dest = msgs[m].dest
       /\ msgs'[m].parts = msgs[m].parts /\ msgs'[m].gen = msgs[m].gen
       /\ msgs'[m].lost = msgs[m].lost /\ msgs'[m].next = msgs[m].next + 1
       /\ msgs'[m].st = IF whole THEN "sent" ELSE "waiting"
       /\ \A n \in 1..Len(msgs) : n /= m => msgs'[n] = msgs[n]
  BY <1>2, <1>5, <1>7, <1>9, <1>11
<1> QED BY <1>1, <1>8, <1>13, <1>14

LEMMA SettleSentStep ==
    ASSUME IInv, NEW g \in 1..Len(senders), SettleSent(g)
    PROVE  IInv'
<1>1. PICK m \in 1..Len(msgs), whole \in BOOLEAN :
               /\ m = senders[g].job
               /\ whole <=> msgs[m].next + 1 = msgs[m].parts
               /\ msgs' \in Seq(Message) /\ Len(msgs') = Len(msgs)
               /\ msgs'[m].kind = msgs[m].kind /\ msgs'[m].dest = msgs[m].dest
               /\ msgs'[m].parts = msgs[m].parts /\ msgs'[m].gen = msgs[m].gen
               /\ msgs'[m].lost = msgs[m].lost /\ msgs'[m].next = msgs[m].next + 1
               /\ msgs'[m].st = IF whole THEN "sent" ELSE "waiting"
               /\ \A n \in 1..Len(msgs) : n /= m => msgs'[n] = msgs[n]
               /\ Answered(g, "sent") /\ NotifierTypeOK'
  BY SettleSentFacts
<1>2. /\ msgs[m].st = "waiting"
      /\ g = generation /\ thread /= None
      /\ senders[g].pc = "answered" /\ senders[g].answer = "sent"
      /\ Len(senders') = Len(senders)
      /\ senders'[g] = Idle
      /\ \A h \in 1..Len(senders') : Asking(h)' =>
             h \in 1..Len(senders) /\ h /= generation /\ Asking(h)
             /\ senders'[h] = senders[h]
      /\ UNCHANGED <<setup, generation, thread, arrived>>
  BY <1>1, AnsweredFacts
<1>3. /\ msgs \in Seq(Message) /\ Len(msgs) \in Nat
      /\ \A n \in 1..Len(msgs) : msgs[n].next \in Nat /\ msgs[n].parts \in Nat
      /\ DOMAIN arrived = 1..Len(arrived) /\ Len(arrived) \in Nat
      /\ \A i \in 1..Len(arrived) : arrived[i].part \in Nat
  <2>1. \A i \in 1..Len(arrived) : arrived[i] \in Copy
    BY ElementOfSeq DEF IInv, NotifierTypeOK
  <2> QED BY <2>1, MessageFacts, LenProperties DEF IInv, NotifierTypeOK, Copy
<1>4. \A n : Delivered(n) <=> n = m
  BY <1>1, <1>2 DEF Delivered
<1>5. \A n : ~(Delivered(n)')
  BY <1>2, IdleFacts DEF Delivered
<1>6. \A n \in 1..Len(msgs) :
          /\ msgs'[n].kind = msgs[n].kind /\ msgs'[n].dest = msgs[n].dest
          /\ msgs'[n].parts = msgs[n].parts /\ msgs'[n].gen = msgs[n].gen
          /\ msgs'[n].lost = msgs[n].lost
          /\ msgs'[n].st = "waiting" => msgs[n].st = "waiting"
          /\ msgs'[n].st = "closed" <=> msgs[n].st = "closed"
  BY <1>1, <1>2
<1>7. MessageInv'
  <2> SUFFICES ASSUME NEW n \in 1..Len(msgs')
               PROVE  /\ msgs'[n].gen <= generation
                      /\ msgs'[n].st = "waiting" =>
                             thread' /= None /\ msgs'[n].gen = generation
                             /\ msgs'[n].next < msgs'[n].parts
                      /\ msgs'[n].st = "sent" => msgs'[n].next = msgs'[n].parts
                      /\ msgs'[n].kind /= "text" => msgs'[n].parts = 1
                      /\ \A k \in 1..n : msgs'[k].gen <= msgs'[n].gen
    BY <1>2 DEF MessageInv
  <2>1. /\ msgs[n].gen <= generation
        /\ msgs[n].st = "waiting" =>
               thread /= None /\ msgs[n].gen = generation /\ msgs[n].next < msgs[n].parts
        /\ msgs[n].st = "sent" => msgs[n].next = msgs[n].parts
        /\ msgs[n].kind /= "text" => msgs[n].parts = 1
        /\ \A k \in 1..n : msgs[k].gen <= msgs[n].gen
    BY <1>1 DEF IInv, MessageInv
  <2>2. \A k \in 1..n : msgs'[k].gen <= msgs'[n].gen
    BY <1>1, <1>3, <1>6, <2>1
  <2>3. CASE n = m
    <3>1. PICK q \in Nat : q = msgs[m].next
      BY <1>3
    <3>2. PICK p \in Nat : p = msgs[m].parts
      BY <1>3
    <3>3. q < p /\ (whole <=> q + 1 = p)
      BY <1>1, <1>2, <2>1, <2>3, <3>1, <3>2
    <3>4. q + 1 < p \/ q + 1 = p
      BY <3>3
    <3>5. /\ msgs'[n].st = "waiting" => msgs'[n].next < msgs'[n].parts
          /\ msgs'[n].st = "sent" => msgs'[n].next = msgs'[n].parts
      BY <1>1, <2>3, <3>1, <3>2, <3>3, <3>4
    <3> QED BY <1>1, <1>2, <1>6, <2>1, <2>2, <2>3, <3>5
  <2>4. CASE n /= m
    BY <1>1, <1>2, <2>1, <2>2, <2>4
  <2> QED BY <2>3, <2>4
<1>8. FrontInv'
  <2> SUFFICES ASSUME NEW h \in 1..Len(senders'), Asking(h)'
               PROVE  LET n == senders'[h].job
                      IN  /\ n \in 1..Len(msgs') /\ msgs'[n].gen = h
                          /\ h = generation' =>
                                 /\ thread' /= None /\ inFlight' = n /\ msgs'[n].st = "waiting"
                                 /\ \A k \in Waiting' : msgs'[k].dest = msgs'[n].dest => n <= k
                          /\ h /= generation' \/ thread' = None => msgs'[n].st = "closed"
    BY DEF FrontInv
  <2>1. h \in 1..Len(senders) /\ h /= generation /\ Asking(h) /\ senders'[h] = senders[h]
    BY <1>2
  <2>2. PICK n \in 1..Len(msgs) : n = senders[h].job
    BY <2>1 DEF IInv, FrontInv
  <2>3. msgs[n].gen = h /\ msgs[n].st = "closed"
    BY <2>1, <2>2 DEF IInv, FrontInv
  <2> QED BY <1>1, <1>2, <1>6, <2>1, <2>2, <2>3
<1>9. Waiting' \subseteq Waiting
  <2> SUFFICES ASSUME NEW k \in Waiting' PROVE k \in Waiting
    OBVIOUS
  <2>1. k \in 1..Len(msgs') /\ msgs'[k].st = "waiting"
    BY <1>1, <1>2, WaitingNext
  <2> QED BY <1>1, <1>6, <2>1, WaitingFacts DEF IInv
<1>10. PassedInv'
  <2> SUFFICES ASSUME NEW i \in 1..Len(arrived)
               PROVE  LET a == arrived[i]
                      IN  /\ a.msg \in 1..Len(msgs')
                          /\ \A k \in Waiting' : msgs'[k].dest = msgs'[a.msg].dest => a.msg <= k
                          /\ msgs'[a.msg].st = "waiting" =>
                                 /\ a.part <= msgs'[a.msg].next + 1
                                 /\ a.part = msgs'[a.msg].next + 1 =>
                                        msgs'[a.msg].lost \/ Delivered(a.msg)'
    BY <1>2 DEF PassedInv
  <2>1. PICK n \in 1..Len(msgs) : n = arrived[i].msg
    BY DEF IInv, PassedInv
  <2>2. /\ \A k \in Waiting : msgs[k].dest = msgs[n].dest => n <= k
        /\ msgs[n].st = "waiting" =>
               /\ arrived[i].part <= msgs[n].next + 1
               /\ arrived[i].part = msgs[n].next + 1 => msgs[n].lost \/ Delivered(n)
    BY <2>1 DEF IInv, PassedInv
  <2>3. \A k \in Waiting' : msgs'[k].dest = msgs'[n].dest => n <= k
    <3> SUFFICES ASSUME NEW k \in Waiting', msgs'[k].dest = msgs'[n].dest PROVE n <= k
      OBVIOUS
    <3>1. k \in Waiting /\ k \in 1..Len(msgs)
      BY <1>9, WaitingFacts DEF IInv
    <3> QED BY <1>6, <2>2, <3>1
  <2>4. ASSUME msgs'[n].st = "waiting"
        PROVE  /\ arrived[i].part <= msgs'[n].next + 1
               /\ arrived[i].part = msgs'[n].next + 1 => msgs'[n].lost
    <3>1. msgs[n].st = "waiting"
      BY <1>6, <2>4
    <3>2. CASE n = m
      <4>1. PICK q \in Nat : q = msgs[m].next
        BY <1>3
      <4>2. PICK p \in Nat : p = arrived[i].part
        BY <1>3
      <4>3. p <= q + 1
        BY <2>2, <3>1, <3>2, <4>1, <4>2
      <4>4. p <= (q + 1) + 1 /\ p /= (q + 1) + 1
        BY <4>3
      <4> QED BY <1>1, <3>2, <4>1, <4>2, <4>4
    <3>3. CASE n /= m
      BY <1>1, <1>4, <2>2, <3>1, <3>3
    <3> QED BY <3>2, <3>3
  <2> QED BY <1>1, <2>1, <2>3, <2>4
<1>11. CountInv'
  <2> SUFFICES ASSUME NEW n \in 1..Len(msgs'), msgs'[n].st /= "closed", ~msgs'[n].lost
               PROVE  Cardinality(Copies(n)) = msgs'[n].next + (IF Delivered(n)' THEN 1 ELSE 0)
    BY <1>2 DEF CountInv, Copies
  <2>1. n \in 1..Len(msgs) /\ msgs[n].st /= "closed" /\ ~msgs[n].lost
    BY <1>1, <1>6
  <2>2. Cardinality(Copies(n)) = msgs[n].next + (IF Delivered(n) THEN 1 ELSE 0)
    BY <2>1 DEF IInv, CountInv
  <2>3. PICK q \in Nat : q = msgs[n].next
    BY <1>3, <2>1
  <2>4. CASE n = m
    <3>1. msgs'[n].next = q + 1 /\ Cardinality(Copies(n)) = q + 1
      BY <1>1, <1>4, <2>2, <2>3, <2>4
    <3>2. q + 1 \in Nat /\ (q + 1) + 0 = q + 1
      OBVIOUS
    <3> QED BY <1>5, <3>1, <3>2
  <2>5. CASE n /= m
    <3>1. msgs'[n].next = q /\ Cardinality(Copies(n)) = q + 0
      BY <1>1, <1>4, <2>1, <2>2, <2>3, <2>5
    <3> QED BY <1>5, <3>1
  <2> QED BY <2>4, <2>5
<1>12. InOrder'
  <2> SUFFICES ASSUME NEW i \in 1..Len(arrived), NEW j \in 1..Len(arrived), i < j,
                      msgs'[arrived[i].msg].dest = msgs'[arrived[j].msg].dest
               PROVE  \/ arrived[i].msg < arrived[j].msg
                      \/ msgs'[arrived[j].msg].st = "closed"
                      \/ /\ arrived[i].msg = arrived[j].msg
                         /\ \/ arrived[i].part < arrived[j].part
                            \/ arrived[i].part = arrived[j].part /\ msgs'[arrived[i].msg].lost
    BY <1>2, <1>3 DEF InOrder
  <2>1. arrived[i].msg \in 1..Len(msgs) /\ arrived[j].msg \in 1..Len(msgs)
    BY DEF IInv, PassedInv
  <2>2. \/ arrived[i].msg < arrived[j].msg
        \/ msgs[arrived[j].msg].st = "closed"
        \/ /\ arrived[i].msg = arrived[j].msg
           /\ \/ arrived[i].part < arrived[j].part
              \/ arrived[i].part = arrived[j].part /\ msgs[arrived[i].msg].lost
    <3>1. msgs[arrived[i].msg].dest = msgs[arrived[j].msg].dest
      BY <1>6, <2>1
    <3>2. InOrder
      BY DEF IInv
    <3>3. i \in DOMAIN arrived /\ j \in DOMAIN arrived
      BY <1>3
    <3> QED BY <3>1, <3>2, <3>3, Zenon DEF InOrder
  <2> QED BY <1>6, <2>1, <2>2
<1> QED BY <1>1, <1>7, <1>8, <1>10, <1>11, <1>12 DEF IInv

-----------------------------------------------------------------------------
(* close() *)

LEMMA EndCloseFacts ==
    ASSUME IInv, EndClose, thread /= None
    PROVE  /\ NotifierTypeOK' /\ Len(msgs') = Len(msgs) /\ Evolves(msgs, msgs')
           /\ \A m \in 1..Len(msgs') : msgs'[m].st /= "waiting"
           /\ \A m \in 1..Len(msgs) : msgs[m].st = "waiting" => msgs'[m].st = "closed"
           /\ generation' = generation + 1 /\ thread' = None /\ inbox' = <<>> /\ callbacks' = <<>>
           /\ Len(senders) = generation
           /\ UNCHANGED <<setup, roots, senders, inFlight, working, timers, outside, arrived>>
<1>1. /\ msgs' = Ended(msgs, Waiting, "closed")
      /\ inbox' = <<>> /\ callbacks' = <<>> /\ generation' = generation + 1 /\ thread' = None
      /\ UNCHANGED <<setup, roots, senders, inFlight, working, timers, outside, arrived>>
  BY DEF EndClose
<1>2. "closed" \in Ends \ {"sent"} /\ msgs \in Seq(Message) /\ Len(msgs) \in Nat
  BY MessageFacts DEF Ends, IInv, NotifierTypeOK
<1>3. \A m : m \in Waiting <=> m \in 1..Len(msgs) /\ msgs[m].st = "waiting"
  BY WaitingFacts DEF IInv
<1>4. /\ msgs' \in Seq(Message) /\ Len(msgs') = Len(msgs)
      /\ \A m \in 1..Len(msgs) :
             msgs'[m] = IF m \in Waiting THEN [msgs[m] EXCEPT !.st = "closed"] ELSE msgs[m]
  BY <1>1, <1>2, EndedFacts
<1>5. Evolves(msgs, msgs')
  <2>1. \A m \in Waiting : m \in 1..Len(msgs) => msgs[m].st = "waiting"
    BY <1>3
  <2> QED BY <1>1, <1>2, <2>1, EndedEvolves
<1>6. ASSUME NEW m \in 1..Len(msgs)
      PROVE  IF msgs[m].st = "waiting" THEN msgs'[m].st = "closed" ELSE msgs'[m] = msgs[m]
  <2>1. msgs[m] \in Message
    BY <1>2, MessageFacts
  <2>2. [msgs[m] EXCEPT !.st = "closed"].st = "closed"
    BY <2>1 DEF Message
  <2> QED BY <1>3, <1>4, <2>2
<1>7. Len(senders) = generation /\ generation \in Nat /\ generation + 1 \in Nat \ {0}
  BY DEF IInv, NotifierTypeOK
<1>8. NotifierTypeOK'
  <2>1. Message' = Message /\ Dests' = Dests
    BY <1>1, SameMessages
  <2>2. <<>> \in Seq(Event) /\ <<>> \in Seq(Nat)
    BY EmptySeq
  <2>3. Len(senders) = (generation + 1) - 1
    BY <1>7
  <2> QED BY <1>1, <1>4, <1>7, <2>1, <2>2, <2>3 DEF IInv, NotifierTypeOK
<1> QED BY <1>1, <1>4, <1>5, <1>6, <1>7, <1>8

LEMMA EndCloseStep == ASSUME IInv, EndClose PROVE IInv'
<1>1. CASE thread = None
  <2>1. UNCHANGED <<setup, msgs, inbox, callbacks, generation, thread, roots, senders, inFlight,
                    working, arrived>>
    BY <1>1 DEF EndClose
  <2> QED BY <2>1, OutsideStep DEF adapter, threads
<1>2. CASE thread /= None
  <2>1. /\ NotifierTypeOK' /\ Len(msgs') = Len(msgs) /\ Evolves(msgs, msgs')
        /\ \A m \in 1..Len(msgs') : msgs'[m].st /= "waiting"
        /\ \A m \in 1..Len(msgs) : msgs[m].st = "waiting" => msgs'[m].st = "closed"
        /\ generation' = generation + 1 /\ thread' = None
        /\ Len(senders) = generation
        /\ UNCHANGED <<setup, senders, arrived>>
    BY <1>2, EndCloseFacts
  <2>2. generation \in Nat /\ generation' >= generation
    BY <2>1 DEF IInv, NotifierTypeOK
  <2>3. ASSUME NEW m \in 1..Len(msgs'), msgs'[m].st /= "closed"
        PROVE  Delivered(m)' <=> Delivered(m)
    <3>1. ~(Delivered(m)')
      BY <2>1 DEF Delivered
    <3>2. msgs[m].st /= "waiting"
      BY <2>1, <2>3
    <3>3. generation \in 1..Len(senders)
      BY <2>1 DEF IInv, NotifierTypeOK
    <3>4. ~Delivered(m)
      BY <3>2, <3>3 DEF Delivered, IInv, FrontInv, Asking
    <3> QED BY <3>1, <3>4
  <2>4. MessageInv' /\ PassedInv' /\ CountInv' /\ InOrder'
    BY <2>1, <2>2, <2>3, BooksKept
  <2>5. FrontInv'
    <3> SUFFICES ASSUME NEW h \in 1..Len(senders), Asking(h)
                 PROVE  LET n == senders[h].job
                        IN  /\ n \in 1..Len(msgs') /\ msgs'[n].gen = h
                            /\ h /= generation' /\ msgs'[n].st = "closed"
      BY <2>1 DEF FrontInv, Asking
    <3>1. PICK n \in 1..Len(msgs) : n = senders[h].job
      BY DEF IInv, FrontInv
    <3>2. /\ msgs[n].gen = h
          /\ h = generation => msgs[n].st = "waiting"
          /\ h /= generation => msgs[n].st = "closed"
      BY <3>1 DEF IInv, FrontInv
    <3>3. msgs'[n].gen = msgs[n].gen /\ (msgs'[n].st = msgs[n].st \/ msgs[n].st = "waiting")
      BY <2>1 DEF Evolves
    <3>4. h /= generation + 1
      BY <2>1, <2>2
    <3> QED BY <2>1, <3>1, <3>2, <3>3, <3>4
  <2> QED BY <2>1, <2>4, <2>5 DEF IInv
<1> QED BY <1>1, <1>2

-----------------------------------------------------------------------------
(* The invariant *)

LEMMA InitIInv == Init => IInv
<1> SUFFICES ASSUME Init PROVE IInv
  OBVIOUS
<1>1. /\ setup \in Setups /\ msgs = <<>> /\ inbox = <<>> /\ callbacks = <<>>
      /\ roots = [d \in Dests |-> None] /\ generation = 1 /\ thread = None
      /\ senders = <<>> /\ inFlight = None /\ arrived = <<>>
  BY DEF Init
<1>2. \A S : <<>> \in Seq(S)
  BY EmptySeq
<1>3. Len(<<>>) = 0 /\ 1..0 = {} /\ None \in Nat
  BY DEF None
<1>4. NotifierTypeOK
  BY <1>1, <1>2, <1>3 DEF NotifierTypeOK
<1>5. MessageInv /\ FrontInv /\ PassedInv /\ CountInv
  BY <1>1, <1>3 DEF MessageInv, FrontInv, PassedInv, CountInv
<1>6. InOrder
  <2>1. DOMAIN arrived = {}
    BY <1>1
  <2> QED BY <2>1 DEF InOrder
<1> QED BY <1>4, <1>5, <1>6 DEF IInv

LEMMA SendStep == ASSUME IInv, Send PROVE IInv'
<1>1. PICK g \in 1..Len(senders) : Sending(g)
  BY LenProperties DEF Send, IInv, NotifierTypeOK
<1>2. CASE TakeWork(g)
  BY <1>2, TakeWorkStep
<1>3. CASE TakeDelivery(g)
  BY <1>3, TakeDeliveryStep
<1>4. CASE Leave(g)
  BY <1>4, LeaveStep
<1>5. CASE Record(g)
  BY <1>5, RecordStep
<1>6. CASE RunWork(g)
  BY <1>6, RunWorkStep
<1>7. CASE WorkDone(g)
  BY <1>7, WorkDoneStep
<1>8. CASE Request(g)
  BY <1>8, RequestStep
<1>9. CASE SettleClosed(g)
  BY <1>9, SettleClosedStep
<1>10. CASE SettleSent(g)
  BY <1>10, SettleSentStep
<1>11. CASE SettleWait(g)
  BY <1>11, SettleWaitStep
<1>12. CASE SettleRefused(g)
  BY <1>12, SettleRefusedStep
<1>13. CASE SettleServer(g)
  BY <1>13, SettleServerStep
<1>14. CASE SettleUnreachable(g)
  BY <1>14, SettleUnreachableStep
<1> QED BY <1>1, <1>2, <1>3, <1>4, <1>5, <1>6, <1>7, <1>8, <1>9, <1>10, <1>11, <1>12, <1>13, <1>14
        DEF Sending

LEMMA NextIInv == IInv /\ [Next]_vars => IInv'
<1> SUFFICES ASSUME IInv, [Next]_vars PROVE IInv'
  OBVIOUS
<1>1. CASE SendText
  BY <1>1, SendTextStep
<1>2. CASE PostEvent
  BY <1>2, PostEventStep
<1>3. CASE Send
  BY <1>3, SendStep
<1>4. CASE BeginClose
  BY <1>4, OutsideStep DEF BeginClose
<1>5. CASE EndClose
  BY <1>5, EndCloseStep
<1>6. CASE Tick
  BY <1>6, TickStep
<1>7. CASE Fail
  BY <1>7, OutsideStep DEF Fail
<1>8. CASE Recover
  BY <1>8, OutsideStep DEF Recover
<1>9. CASE UNCHANGED vars
  BY <1>9, OutsideStep DEF vars
<1> QED BY <1>1, <1>2, <1>3, <1>4, <1>5, <1>6, <1>7, <1>8, <1>9 DEF Next

\* What every reachable state satisfies.
THEOREM InductiveInvariant == Spec => []IInv
<1>1. IInv /\ [Next]_vars => IInv'
  BY NextIInv
<1> QED BY <1>1, InitIInv, PTL DEF Spec

\* Through outages, retries, refused edits and closes on a timeout, what reaches a chat
\* never goes back, and repeats only a request whose answer was lost.
THEOREM InTurn == Spec => []InOrder
<1>1. IInv => InOrder
  BY DEF IInv
<1> QED BY <1>1, InductiveInvariant, PTL

\* A message that ended has arrived as far as its caller is told, unless an answer was
\* lost or close() gave up its request.
THEOREM ToldAsItHappened == Spec => []ToldTheTruth
<1>1. IInv => ToldTheTruth
  <2> SUFFICES ASSUME IInv, NEW m \in 1..Len(msgs), msgs[m].st \in Ends \ {"closed"},
                      ~msgs[m].lost
               PROVE  Cardinality({i \in DOMAIN arrived : arrived[i].msg = m}) =
                          IF msgs[m].kind = "edit" /\ msgs[m].st = "sent" THEN 1 ELSE msgs[m].next
    BY MessageFacts DEF ToldTheTruth, Messages, IInv, NotifierTypeOK
  <2>1. msgs[m].st /= "waiting" /\ msgs[m].st /= "closed"
    BY DEF Ends
  <2>2. ~Delivered(m)
    <3> SUFFICES ASSUME Delivered(m) PROVE FALSE
      OBVIOUS
    <3>1. generation \in 1..Len(senders) /\ Asking(generation) /\ senders[generation].job = m
      BY LenProperties DEF Delivered, Asking, IInv, NotifierTypeOK
    <3> QED BY <2>1, <3>1 DEF IInv, FrontInv
  <2>3. msgs[m].next \in Nat
    BY MessageFacts DEF IInv, NotifierTypeOK
  <2>4. Cardinality(Copies(m)) = msgs[m].next
    BY <2>1, <2>2, <2>3 DEF IInv, CountInv
  <2>5. Copies(m) = {i \in DOMAIN arrived : arrived[i].msg = m}
    BY LenProperties DEF Copies, IInv, NotifierTypeOK
  <2>6. msgs[m].kind = "edit" /\ msgs[m].st = "sent" => msgs[m].next = 1
    BY DEF IInv, MessageInv
  <2> QED BY <2>4, <2>5, <2>6
<1> QED BY <1>1, InductiveInvariant, PTL

-----------------------------------------------------------------------------
(* What keeps the trade's opening in its place *)

LEMMA SentBefore ==
    ASSUME IInv, IInv', Evolves(msgs, msgs'), setup' = setup, NEW o \in 1..Len(msgs'),
           SentOpening(o)'
    PROVE  o \in 1..Len(msgs) /\ SentOpening(o)
<1>1. Len(msgs) \in Nat /\ Len(msgs') \in Nat
  BY SameMessages, MessageFacts DEF IInv, NotifierTypeOK
<1>2. msgs'[o].kind = "open" /\ msgs'[o].st = "sent"
  BY DEF SentOpening, IsOpening
<1>3. o \in 1..Len(msgs)
  BY <1>1, <1>2 DEF Evolves
<1> QED BY <1>2, <1>3 DEF Evolves, SentOpening, IsOpening

\* The same messages, and perhaps more.
Alike(ms, ns) ==
    /\ Len(ms) <= Len(ns)
    /\ \A m \in 1..Len(ms) : ns[m].kind = ms[m].kind /\ ns[m].dest = ms[m].dest

LEMMA EvolvesAlike ==
    ASSUME NEW ms, NEW ns, Evolves(ms, ns)
    PROVE  Alike(ms, ns)
BY DEF Evolves, Alike

LEMMA OpeningKept ==
    ASSUME IInv, IInv', OpeningInv, setup' = setup,
           "events" \in DOMAIN budget', budget'.events = budget.events,
           Alike(msgs, msgs'),
           \A m \in 1..Len(msgs') : m > Len(msgs) => msgs'[m].kind /= "open",
           inbox' = inbox \/ inbox' = <<>>,
           \A h \in 1..Len(senders') :
               \/ h \in 1..Len(senders) /\ senders'[h].work = senders[h].work
               \/ senders'[h].work = <<>>
    PROVE  OpeningInv'
<1>1. Len(msgs) \in Nat /\ Len(msgs') \in Nat
  BY SameMessages, MessageFacts DEF IInv, NotifierTypeOK
<1>2. NoneIn(<<>>)
  BY DEF NoneIn
<1>3. \A m \in 1..Len(msgs') : msgs'[m].kind = "open" =>
          m \in 1..Len(msgs) /\ msgs[m].kind = "open" /\ msgs'[m].dest = msgs[m].dest
  BY <1>1 DEF Alike
<1>4. NoOpening => NoOpening'
  BY <1>3 DEF NoOpening, IsOpening
<1>5. NoneIn(inbox) => NoneIn(inbox')
  BY <1>2
<1>6. \A h \in 1..Len(senders') :
          NoneIn(senders'[h].work) \/ (h \in 1..Len(senders) /\ senders'[h].work = senders[h].work)
  BY <1>2
<1>7. NoneInHand => NoneInHand'
  BY <1>6 DEF NoneInHand
<1>8. /\ "events" \in DOMAIN budget /\ budget.events \in Nat /\ budget.events <= setup.events
      /\ budget.events = setup.events => NoOpening /\ NoneIn(inbox) /\ NoneInHand
      /\ ~NoneIn(inbox) => NoOpening /\ NoneInHand /\ OnceIn(inbox)
      /\ \A g \in 1..Len(senders) : ~NoneIn(senders[g].work) =>
             /\ NoOpening /\ OnceIn(senders[g].work)
             /\ \A h \in 1..Len(senders) : h /= g => NoneIn(senders[h].work)
      /\ \A m, n \in 1..Len(msgs) :
             IsOpening(m) /\ IsOpening(n) /\ msgs[m].dest = msgs[n].dest => m = n
  BY DEF OpeningInv
<1>9. ~NoneIn(inbox') => NoOpening' /\ NoneInHand' /\ OnceIn(inbox')
  BY <1>2, <1>4, <1>7, <1>8
<1>10. ASSUME NEW g \in 1..Len(senders'), ~NoneIn(senders'[g].work)
       PROVE  /\ NoOpening' /\ OnceIn(senders'[g].work)
              /\ \A h \in 1..Len(senders') : h /= g => NoneIn(senders'[h].work)
  <2>1. g \in 1..Len(senders) /\ senders'[g].work = senders[g].work
    BY <1>6, <1>10
  <2> QED BY <1>4, <1>6, <1>8, <1>10, <2>1
<1>11. \A m, n \in 1..Len(msgs') :
           IsOpening(m)' /\ IsOpening(n)' /\ msgs'[m].dest = msgs'[n].dest => m = n
  BY <1>3, <1>8 DEF IsOpening
<1> QED BY <1>4, <1>5, <1>7, <1>8, <1>9, <1>10, <1>11 DEF OpeningInv

LEMMA HandKept ==
    ASSUME IInv, IInv', HandInv, setup' = setup, Alike(msgs, msgs'),
           \A h \in 1..Len(senders') : senders'[h].pc /= "work" =>
               senders'[h].records = <<>> /\ senders'[h].work = <<>>,
           callbacks' /= <<>> => thread' /= None /\ senders'[generation'].pc = "look",
           \A i \in 1..Len(callbacks') : Known(callbacks'[i]),
           \A h \in 1..Len(senders') : \A i \in 1..Len(senders'[h].records) :
               Known(senders'[h].records[i])
    PROVE  HandInv'
<1>1. Len(msgs) \in Nat /\ Len(msgs') \in Nat /\ Len(msgs) <= Len(msgs')
  BY SameMessages, MessageFacts DEF IInv, NotifierTypeOK, Alike
<1>2. \A o : Known(o) => o \in 1..Len(msgs') /\ msgs'[o].kind = "open"
  BY <1>1 DEF Alike, Known, IsOpening
<1>3. \A i \in 1..Len(callbacks') : Known(callbacks[i])'
  BY <1>2 DEF Known, IsOpening
<1>4. \A h \in 1..Len(senders') : \A i \in 1..Len(senders'[h].records) :
          Known(senders[h].records[i])'
  BY <1>2 DEF Known, IsOpening
<1> QED BY <1>3, <1>4 DEF HandInv

LEMMA RootKept ==
    ASSUME IInv, IInv', RootInv, UNCHANGED <<setup, generation, roots>>, Evolves(msgs, msgs'),
           DOMAIN pause' = Dests, \A d \in Dests : pause'[d] = 0 => pause[d] = 0,
           \A o \in 1..Len(msgs) : Unrecorded(o) => Unrecorded(o)'
    PROVE  RootInv'
<1>1. Dests' = Dests
  BY SameMessages
<1>2. ASSUME NEW o \in 1..Len(msgs'), SentOpening(o)', msgs'[o].gen = generation
      PROVE  roots[msgs'[o].dest] = o \/ (Unrecorded(o)' /\ pause'[msgs'[o].dest] /= 0)
  <2>1. o \in 1..Len(msgs) /\ SentOpening(o)
    BY <1>2, SentBefore
  <2>2. msgs'[o].dest = msgs[o].dest /\ msgs'[o].gen = msgs[o].gen
    BY <2>1 DEF Evolves
  <2>3. msgs[o].dest \in Dests
    BY <2>1, MessageFacts DEF IInv, NotifierTypeOK
  <2>4. roots[msgs[o].dest] = o \/ (Unrecorded(o) /\ pause[msgs[o].dest] /= 0)
    BY <1>2, <2>1, <2>2 DEF RootInv
  <2> QED BY <2>1, <2>2, <2>3, <2>4
<1> QED BY <1>1, <1>2 DEF RootInv

LEMMA RequestKept ==
    ASSUME IInv, IInv', RequestInv, UNCHANGED <<setup, roots>>, Evolves(msgs, msgs'),
           \A h \in 1..Len(senders') : senders'[h].pc = "request" =>
               h \in 1..Len(senders) /\ senders[h].pc = "request"
               /\ senders'[h].job = senders[h].job
    PROVE  RequestInv'
<1> SUFFICES ASSUME NEW h \in 1..Len(senders'), senders'[h].pc = "request",
                    NEW o \in 1..Len(msgs'), SentOpening(o)', msgs'[o].gen = h,
                    msgs'[o].dest = msgs'[senders'[h].job].dest
             PROVE  roots[msgs'[senders'[h].job].dest] = o
  BY DEF RequestInv
<1>1. o \in 1..Len(msgs) /\ SentOpening(o)
  BY SentBefore
<1>2. h \in 1..Len(senders) /\ senders[h].pc = "request" /\ senders'[h].job = senders[h].job
  OBVIOUS
<1>3. PICK m \in 1..Len(msgs) : m = senders[h].job
  BY <1>2 DEF IInv, FrontInv, Asking
<1>4. /\ msgs'[o].dest = msgs[o].dest /\ msgs'[o].gen = msgs[o].gen
      /\ msgs'[m].dest = msgs[m].dest
  BY <1>1 DEF Evolves
<1>5. roots[msgs[m].dest] = o
  BY <1>1, <1>2, <1>3, <1>4, SMTT(20) DEF RequestInv
<1> QED BY <1>2, <1>3, <1>4, <1>5

LEMMA RepliesKept ==
    ASSUME IInv, IInv', RepliesFindTheirRoot, UNCHANGED <<setup, arrived>>, Evolves(msgs, msgs')
    PROVE  RepliesFindTheirRoot'
<1>1. /\ DOMAIN arrived = 1..Len(arrived)
      /\ DOMAIN msgs = 1..Len(msgs) /\ DOMAIN msgs' = 1..Len(msgs')
  BY SameMessages, MessageFacts, LenProperties DEF IInv, NotifierTypeOK
<1> SUFFICES ASSUME NEW i \in 1..Len(arrived), NEW o \in 1..Len(msgs'),
                    msgs'[arrived[i].msg].kind \in {"reply", "edit"},
                    msgs'[o].kind = "open", msgs'[o].st = "sent",
                    o < arrived[i].msg, msgs'[o].dest = msgs'[arrived[i].msg].dest,
                    msgs'[o].gen = msgs'[arrived[i].msg].gen
             PROVE  arrived[i].to = o
  BY <1>1 DEF RepliesFindTheirRoot, Messages, Follows
<1>2. o \in 1..Len(msgs) /\ msgs[o].kind = "open" /\ msgs[o].st = "sent"
  BY SentBefore DEF SentOpening, IsOpening
<1>3. PICK m \in 1..Len(msgs) : m = arrived[i].msg
  BY DEF IInv, PassedInv
<1>4. /\ msgs'[o].dest = msgs[o].dest /\ msgs'[o].gen = msgs[o].gen
      /\ msgs'[m].dest = msgs[m].dest /\ msgs'[m].gen = msgs[m].gen
      /\ msgs'[m].kind = msgs[m].kind
  BY <1>2 DEF Evolves
<1> QED BY <1>1, <1>2, <1>3, <1>4 DEF RepliesFindTheirRoot, Messages, Follows

LEMMA UnrecordedKept ==
    ASSUME callbacks' = callbacks,
           \A h \in 1..Len(senders) :
               h \in 1..Len(senders') /\ senders'[h].records = senders[h].records
    PROVE  \A o : Unrecorded(o) => Unrecorded(o)'
<1> SUFFICES ASSUME NEW o, Unrecorded(o) PROVE Unrecorded(o)'
  OBVIOUS
<1>1. CASE \E i \in 1..Len(callbacks) : callbacks[i] = o
  BY <1>1 DEF Unrecorded
<1>2. CASE \E g \in 1..Len(senders) : \E i \in 1..Len(senders[g].records) : senders[g].records[i] = o
  <2>1. PICK g \in 1..Len(senders) : \E i \in 1..Len(senders[g].records) : senders[g].records[i] = o
    BY <1>2
  <2>2. g \in 1..Len(senders') /\ senders'[g].records = senders[g].records
    OBVIOUS
  <2> QED BY <2>1, <2>2 DEF Unrecorded
<1> QED BY <1>1, <1>2 DEF Unrecorded

\* Nothing of the opening is recorded, sent or made into messages.
LEMMA QuietOpening ==
    ASSUME IInv, IInv', RInv, UNCHANGED <<setup, generation, roots, arrived, callbacks, inbox>>,
           "events" \in DOMAIN budget', budget'.events = budget.events,
           Evolves(msgs, msgs'),
           \A m \in 1..Len(msgs') : m > Len(msgs) => msgs'[m].kind /= "open",
           DOMAIN pause' = Dests, \A d \in Dests : pause'[d] = 0 => pause[d] = 0,
           \A h \in 1..Len(senders) :
               /\ h \in 1..Len(senders')
               /\ senders'[h].records = senders[h].records /\ senders'[h].work = senders[h].work
               /\ \/ senders'[h].pc = senders[h].pc /\ senders'[h].job = senders[h].job
                  \/ /\ senders[h].records = <<>> /\ senders[h].work = <<>>
                     /\ senders'[h].pc \in {"look", "gone"},
           \A h \in 1..Len(senders') : h \in 1..Len(senders) \/ senders'[h] = Idle,
           callbacks /= <<>> => thread' /= None /\ senders'[generation].pc = "look"
    PROVE  RInv'
<1> USE DEF RInv
<1>1. \A h \in 1..Len(senders') :
          \/ h \in 1..Len(senders) /\ senders'[h].work = senders[h].work
          \/ senders'[h].work = <<>>
  BY IdleFacts
<1>2. OpeningInv'
  BY <1>1, EvolvesAlike, OpeningKept
<1>3. HandInv'
  <2>1. ASSUME NEW h \in 1..Len(senders'), senders'[h].pc /= "work"
        PROVE  senders'[h].records = <<>> /\ senders'[h].work = <<>>
    <3>1. CASE h \in 1..Len(senders)
      <4>1. senders[h].pc /= "work" => senders[h].records = <<>> /\ senders[h].work = <<>>
        BY <3>1 DEF HandInv
      <4>2. senders[h].records = <<>> /\ senders[h].work = <<>>
        BY <2>1, <3>1, <4>1
      <4> QED BY <3>1, <4>2
    <3>2. CASE h \notin 1..Len(senders)
      BY <3>2, IdleFacts
    <3> QED BY <3>1, <3>2
  <2>2. \A i \in 1..Len(callbacks') : Known(callbacks'[i])
    BY DEF HandInv
  <2>3. ASSUME NEW h \in 1..Len(senders'), NEW i \in 1..Len(senders'[h].records)
        PROVE  Known(senders'[h].records[i])
    <3>1. CASE h \in 1..Len(senders)
      <4>1. senders'[h].records = senders[h].records
        BY <3>1
      <4> QED BY <3>1, <4>1 DEF HandInv
    <3>2. CASE h \notin 1..Len(senders)
      <4>1. senders'[h].records = <<>>
        BY <3>2, IdleFacts
      <4> QED BY <4>1
    <3> QED BY <3>1, <3>2
  <2> QED BY <2>1, <2>2, <2>3, EvolvesAlike, HandKept
<1>4. RootInv'
  <2>1. \A o : Unrecorded(o) => Unrecorded(o)'
    BY UnrecordedKept
  <2> QED BY <2>1, RootKept
<1>5. RequestInv'
  <2>1. ASSUME NEW h \in 1..Len(senders'), senders'[h].pc = "request"
        PROVE  /\ h \in 1..Len(senders) /\ senders[h].pc = "request"
               /\ senders'[h].job = senders[h].job
    <3>1. h \in 1..Len(senders)
      BY <2>1, IdleFacts
    <3> QED BY <2>1, <3>1
  <2> QED BY <2>1, RequestKept
<1>6. RepliesFindTheirRoot'
  BY RepliesKept
<1> QED BY <1>2, <1>3, <1>4, <1>5, <1>6

\* A sender that holds nothing of it goes on to look.
LEMMA LookOpening ==
    ASSUME IInv, IInv', RInv, NEW g \in 1..Len(senders),
           UNCHANGED <<setup, generation, thread, roots, arrived, callbacks, inbox, budget>>,
           Len(msgs') = Len(msgs), Evolves(msgs, msgs'),
           DOMAIN pause' = Dests, \A d \in Dests : pause'[d] = 0 => pause[d] = 0,
           Len(senders') = Len(senders),
           \A h \in 1..Len(senders) : h /= g => senders'[h] = senders[h],
           senders[g].records = <<>>, senders[g].work = <<>>,
           senders'[g].records = <<>>, senders'[g].work = <<>>,
           senders'[g].pc = "look" \/ (g /= generation /\ senders'[g].pc = "gone")
    PROVE  RInv'
<1>1. Len(msgs) \in Nat
  BY MessageFacts DEF IInv, NotifierTypeOK
<1>2. \A m \in 1..Len(msgs') : m > Len(msgs) => msgs'[m].kind /= "open"
  BY <1>1
<1>3. "events" \in DOMAIN budget
  BY DEF RInv, OpeningInv
<1>4. callbacks /= <<>> => thread /= None /\ senders[generation].pc = "look"
  BY DEF RInv, HandInv
<1>5. callbacks /= <<>> => thread' /= None /\ senders'[generation].pc = "look"
  <2>1. thread /= None => generation \in 1..Len(senders)
    BY LenProperties DEF IInv, NotifierTypeOK
  <2>2. CASE g = generation
    BY <1>4, <2>2
  <2>3. CASE g /= generation
    BY <1>4, <2>1, <2>3
  <2> QED BY <2>2, <2>3
<1>6. \A h \in 1..Len(senders) :
               /\ h \in 1..Len(senders')
               /\ senders'[h].records = senders[h].records /\ senders'[h].work = senders[h].work
               /\ \/ senders'[h].pc = senders[h].pc /\ senders'[h].job = senders[h].job
                  \/ /\ senders[h].records = <<>> /\ senders[h].work = <<>>
                     /\ senders'[h].pc \in {"look", "gone"}
  <2> SUFFICES ASSUME NEW h \in 1..Len(senders)
               PROVE  /\ h \in 1..Len(senders')
                      /\ senders'[h].records = senders[h].records
                      /\ senders'[h].work = senders[h].work
                      /\ \/ senders'[h].pc = senders[h].pc /\ senders'[h].job = senders[h].job
                         \/ /\ senders[h].records = <<>> /\ senders[h].work = <<>>
                            /\ senders'[h].pc \in {"look", "gone"}
    OBVIOUS
  <2>1. CASE h = g
    BY <2>1
  <2>2. CASE h /= g
    BY <2>2
  <2> QED BY <2>1, <2>2
<1>7. \A h \in 1..Len(senders') : h \in 1..Len(senders) \/ senders'[h] = Idle
  OBVIOUS
<1> QED BY <1>2, <1>3, <1>5, <1>6, <1>7, QuietOpening

\* What counts for a chat's pace leaves it paced.
LEMMA PacedFacts ==
    ASSUME Paced, IInv, RInv, NEW d \in Dests, NEW hold,
           pause' = [pause EXCEPT ![d] = IF hold > setup.pace THEN hold ELSE setup.pace]
    PROVE  /\ DOMAIN pause' = Dests /\ pause'[d] /= 0
           /\ \A e \in Dests : pause'[e] = 0 => pause[e] = 0
<1>1. DOMAIN pause = Dests
  BY DEF RInv, RootInv
<1>2. setup.pace \in Nat /\ setup.pace >= 1
  BY SetupFacts DEF Paced, IInv, NotifierTypeOK
<1>3. (IF hold > setup.pace THEN hold ELSE setup.pace) /= 0
  <2>1. CASE hold = 0
    BY <1>2, <2>1
  <2>2. CASE hold /= 0
    BY <1>2, <2>2
  <2> QED BY <2>1, <2>2
<1> QED BY <1>1, <1>3

-----------------------------------------------------------------------------
(* Steps that leave the opening alone *)

LEMMA SendTextOpening == ASSUME IInv, IInv', RInv, SendText PROVE RInv'
<1>1. /\ EnsureThread /\ Spend("texts")
      /\ UNCHANGED <<setup, inbox, callbacks, roots, generation, inFlight, pause, arrived>>
  BY DEF SendText, adapter, timers
<1>2. /\ Evolves(msgs, msgs')
      /\ \A m \in 1..Len(msgs') : m > Len(msgs) => msgs'[m].kind /= "open"
  BY SendTextFacts
<1>3. "events" \in DOMAIN budget' /\ budget'.events = budget.events
  BY <1>1 DEF Spend, RInv, OpeningInv
<1>4. /\ thread' /= None /\ Len(senders) <= Len(senders')
      /\ Len(senders) \in Nat /\ Len(senders') \in Nat
      /\ \A h \in 1..Len(senders) : senders'[h] = senders[h]
      /\ \A h \in 1..Len(senders') : h \in 1..Len(senders) \/ senders'[h] = Idle
  BY <1>1, EnsureFacts, LenProperties DEF IInv, NotifierTypeOK
<1>5. callbacks /= <<>> => thread' /= None /\ senders'[generation].pc = "look"
  <2>1. thread /= None => generation \in 1..Len(senders)
    BY LenProperties DEF IInv, NotifierTypeOK
  <2> QED BY <1>4, <2>1 DEF RInv, HandInv
<1>6. DOMAIN pause' = Dests /\ \A d \in Dests : pause'[d] = 0 => pause[d] = 0
  BY <1>1 DEF RInv, RootInv
<1>7. \A h \in 1..Len(senders) : h \in 1..Len(senders')
  BY <1>4
<1> QED BY <1>1, <1>2, <1>3, <1>4, <1>5, <1>6, <1>7, QuietOpening

LEMMA OutsideOpening ==
    ASSUME IInv, IInv', RInv, UNCHANGED <<setup, msgs, adapter, threads, timers, arrived>>,
           "events" \in DOMAIN budget', budget'.events = budget.events
    PROVE  RInv'
<1>1. UNCHANGED <<setup, msgs, inbox, callbacks, roots, generation, thread, senders, pause, arrived>>
  BY DEF adapter, threads, timers
<1>2. Evolves(msgs, msgs') /\ Len(msgs) \in Nat
  BY <1>1, SameEvolves, MessageFacts DEF IInv, NotifierTypeOK
<1>3. \A m \in 1..Len(msgs') : m > Len(msgs) => msgs'[m].kind /= "open"
  BY <1>1, <1>2
<1>4. callbacks /= <<>> => thread' /= None /\ senders'[generation].pc = "look"
  BY <1>1 DEF RInv, HandInv
<1>5. DOMAIN pause' = Dests /\ \A d \in Dests : pause'[d] = 0 => pause[d] = 0
  BY <1>1 DEF RInv, RootInv
<1> QED BY <1>1, <1>2, <1>3, <1>4, <1>5, QuietOpening

LEMMA LeaveOpening ==
    ASSUME IInv, IInv', RInv, NEW g \in 1..Len(senders), Leave(g)
    PROVE  RInv'
<1>1. /\ senders[g].pc = "look" /\ g /= generation /\ Sender(g, [Idle EXCEPT !.pc = "gone"])
      /\ UNCHANGED <<setup, msgs, inbox, callbacks, roots, generation, thread, pause, budget,
                     arrived>>
  BY DEF Leave, adapter, timers
<1>2. PICK s \in State : /\ Sender(g, s) /\ s.pc = "gone" /\ s.records = <<>> /\ s.work = <<>>
  BY <1>1, IdleFacts
<1>3. /\ Len(senders') = Len(senders) /\ senders'[g] = s
      /\ \A h \in 1..Len(senders) : h /= g => senders'[h] = senders[h]
  BY <1>2, SenderFacts DEF IInv
<1>4. senders[g].records = <<>> /\ senders[g].work = <<>>
  BY <1>1 DEF RInv, HandInv
<1>5. DOMAIN pause' = Dests /\ \A d \in Dests : pause'[d] = 0 => pause[d] = 0
  BY <1>1 DEF RInv, RootInv
<1>6. Len(msgs') = Len(msgs) /\ Evolves(msgs, msgs')
  BY <1>1, SameEvolves DEF IInv, NotifierTypeOK
<1> QED BY <1>1, <1>2, <1>3, <1>4, <1>5, <1>6, LookOpening

LEMMA WorkDoneOpening ==
    ASSUME IInv, IInv', RInv, NEW g \in 1..Len(senders), WorkDone(g)
    PROVE  RInv'
<1>1. /\ senders[g].records = <<>> /\ senders[g].work = <<>>
      /\ Sender(g, [Idle EXCEPT !.pc = IF g = generation THEN "look" ELSE "gone"])
      /\ UNCHANGED <<setup, msgs, inbox, callbacks, roots, generation, thread, pause, budget,
                     arrived>>
  BY DEF WorkDone, adapter, timers
<1>2. PICK s \in State : /\ Sender(g, s) /\ s.records = <<>> /\ s.work = <<>>
                         /\ s.pc = IF g = generation THEN "look" ELSE "gone"
  BY <1>1, IdleFacts
<1>3. /\ Len(senders') = Len(senders) /\ senders'[g] = s
      /\ \A h \in 1..Len(senders) : h /= g => senders'[h] = senders[h]
  BY <1>2, SenderFacts DEF IInv
<1>4. DOMAIN pause' = Dests /\ \A d \in Dests : pause'[d] = 0 => pause[d] = 0
  BY <1>1 DEF RInv, RootInv
<1>5. Len(msgs') = Len(msgs) /\ Evolves(msgs, msgs')
  BY <1>1, SameEvolves DEF IInv, NotifierTypeOK
<1>6. senders'[g].pc = "look" \/ (g /= generation /\ senders'[g].pc = "gone")
  BY <1>2, <1>3
<1> QED BY <1>1, <1>2, <1>3, <1>4, <1>5, <1>6, LookOpening

LEMMA NotSentOpening ==
    ASSUME IInv, IInv', RInv, NEW g \in 1..Len(senders), NEW what, Answered(g, what),
           callbacks' = callbacks, Len(msgs') = Len(msgs), Evolves(msgs, msgs'),
           DOMAIN pause' = Dests, \A d \in Dests : pause'[d] = 0 => pause[d] = 0
    PROVE  RInv'
<1>1. /\ senders[g].pc = "answered" /\ Len(senders') = Len(senders) /\ senders'[g] = Idle
      /\ \A h \in 1..Len(senders) : h /= g => senders'[h] = senders[h]
      /\ UNCHANGED <<setup, inbox, roots, generation, thread, budget, arrived>>
  BY AnsweredFacts
<1>2. senders[g].records = <<>> /\ senders[g].work = <<>>
  BY <1>1 DEF RInv, HandInv
<1> QED BY <1>1, <1>2, IdleFacts, LookOpening

LEMMA AnsweredChat ==
    ASSUME IInv, NEW g \in 1..Len(senders), NEW what, Answered(g, what)
    PROVE  msgs[senders[g].job].dest \in Dests
<1>1. PICK m \in 1..Len(msgs) : m = senders[g].job
  BY AnsweredFacts
<1>2. msgs[m].dest \in Dests
  BY MessageFacts DEF IInv, NotifierTypeOK
<1> QED BY <1>1, <1>2

LEMMA SettleOpening ==
    ASSUME Paced, IInv, IInv', RInv, NEW g \in 1..Len(senders),
           \/ SettleWait(g) \/ SettleRefused(g) \/ SettleServer(g) \/ SettleUnreachable(g)
    PROVE  RInv'
<1>1. CASE SettleWait(g)
  <2>1. PICK hold : /\ Answered(g, "wait") /\ UNCHANGED <<msgs, callbacks>>
                    /\ Reached(msgs[senders[g].job].dest, hold)
    BY <1>1 DEF SettleWait
  <2>2. PICK d \in Dests : d = msgs[senders[g].job].dest
    BY <2>1, AnsweredChat
  <2>3. DOMAIN pause' = Dests /\ \A e \in Dests : pause'[e] = 0 => pause[e] = 0
    BY <2>1, <2>2, PacedFacts DEF Reached
  <2>4. Len(msgs') = Len(msgs) /\ Evolves(msgs, msgs')
    BY <2>1, SameEvolves DEF IInv, NotifierTypeOK
  <2> QED BY <2>1, <2>3, <2>4, NotSentOpening
<1>2. CASE SettleRefused(g)
  <2>1. /\ Answered(g, "refused") /\ callbacks' = callbacks
        /\ Len(msgs') = Len(msgs) /\ Evolves(msgs, msgs')
        /\ Reached(msgs[senders[g].job].dest, 0)
    BY <1>2, SettleRefusedFacts DEF SettleRefused
  <2>2. PICK d \in Dests : d = msgs[senders[g].job].dest
    BY <2>1, AnsweredChat
  <2>3. DOMAIN pause' = Dests /\ \A e \in Dests : pause'[e] = 0 => pause[e] = 0
    BY <2>1, <2>2, PacedFacts DEF Reached
  <2> QED BY <2>1, <2>3, NotSentOpening
<1>3. CASE SettleServer(g)
  <2>1. /\ Answered(g, "server") /\ callbacks' = callbacks
        /\ Len(msgs') = Len(msgs) /\ Evolves(msgs, msgs')
        /\ Reached(msgs[senders[g].job].dest, 0)
    BY <1>3, SettleServerFacts DEF SettleServer
  <2>2. PICK d \in Dests : d = msgs[senders[g].job].dest
    BY <2>1, AnsweredChat
  <2>3. DOMAIN pause' = Dests /\ \A e \in Dests : pause'[e] = 0 => pause[e] = 0
    BY <2>1, <2>2, PacedFacts DEF Reached
  <2> QED BY <2>1, <2>3, NotSentOpening
<1>4. CASE SettleUnreachable(g)
  <2>1. /\ Answered(g, "unreachable") /\ UNCHANGED <<callbacks, pause>>
        /\ Len(msgs') = Len(msgs) /\ Evolves(msgs, msgs')
    BY <1>4, SettleUnreachableFacts
  <2>2. DOMAIN pause' = Dests /\ \A e \in Dests : pause'[e] = 0 => pause[e] = 0
    BY <2>1 DEF RInv, RootInv
  <2> QED BY <2>1, <2>2, NotSentOpening
<1> QED BY <1>1, <1>2, <1>3, <1>4

LEMMA SettleClosedOpening ==
    ASSUME IInv, IInv', RInv, NEW g \in 1..Len(senders), SettleClosed(g)
    PROVE  RInv'
<1>1. /\ g /= generation /\ Len(senders') = Len(senders)
      /\ senders[g].pc = "answered" /\ senders'[g] = Idle
      /\ \A h \in 1..Len(senders) : h /= g => senders'[h] = senders[h]
      /\ UNCHANGED <<setup, msgs, inbox, callbacks, roots, generation, thread, pause, budget,
                     arrived>>
  BY SettleClosedFacts DEF adapter, timers
<1>2. senders[g].records = <<>> /\ senders[g].work = <<>>
  BY <1>1 DEF RInv, HandInv
<1>3. DOMAIN pause' = Dests /\ \A d \in Dests : pause'[d] = 0 => pause[d] = 0
  BY <1>1 DEF RInv, RootInv
<1>4. Len(msgs') = Len(msgs) /\ Evolves(msgs, msgs')
  BY <1>1, SameEvolves DEF IInv, NotifierTypeOK
<1> QED BY <1>1, <1>2, <1>3, <1>4, IdleFacts, LookOpening

-----------------------------------------------------------------------------
(* Steps that carry the opening on *)

\* The opening is posted first, and once.
LEMMA PostEventOpening == ASSUME IInv, IInv', RInv, PostEvent PROVE RInv'
<1>1. /\ EnsureThread /\ Spend("events")
      /\ UNCHANGED <<setup, msgs, callbacks, roots, generation, pause, arrived>>
  BY DEF PostEvent, timers
<1>2. /\ thread' /= None
      /\ \A h \in 1..Len(senders) : h \in 1..Len(senders') /\ senders'[h] = senders[h]
      /\ \A h \in 1..Len(senders') : h \in 1..Len(senders) \/ senders'[h] = Idle
  <2>1. Len(senders) \in Nat /\ Len(senders') \in Nat
    BY LenProperties DEF IInv, NotifierTypeOK
  <2> QED BY <1>1, <2>1, EnsureFacts DEF IInv
<1>3. PICK kind \in Event : /\ inbox' = Append(inbox, kind)
                            /\ kind = "open" <=> budget.events = setup.events
  BY DEF PostEvent, Event
<1>4. /\ inbox \in Seq(Event) /\ Len(inbox) \in Nat /\ Len(inbox') = Len(inbox) + 1
      /\ inbox'[Len(inbox) + 1] = kind
      /\ \A i \in 1..Len(inbox) : inbox'[i] = inbox[i]
  BY <1>3, AppendProperties, LenProperties DEF IInv, NotifierTypeOK
<1>5. PICK left \in Nat : /\ budget.events = left /\ left <= setup.events /\ setup.events \in Nat
                          /\ "events" \in DOMAIN budget
  BY SetupFacts DEF RInv, OpeningInv, IInv, NotifierTypeOK
<1>6. "events" \in DOMAIN budget' /\ budget'.events = left - 1 /\ left > 0
  BY <1>1, <1>5 DEF Spend
<1>7. budget'.events \in Nat /\ budget'.events <= setup.events /\ budget'.events /= setup.events
  BY <1>5, <1>6
<1>8. /\ left = setup.events => NoOpening /\ NoneIn(inbox) /\ NoneInHand
      /\ ~NoneIn(inbox) => NoOpening /\ NoneInHand /\ OnceIn(inbox)
      /\ \A g \in 1..Len(senders) : ~NoneIn(senders[g].work) =>
             /\ NoOpening /\ OnceIn(senders[g].work)
             /\ \A h \in 1..Len(senders) : h /= g => NoneIn(senders[h].work)
      /\ \A m, n \in 1..Len(msgs) :
             IsOpening(m) /\ IsOpening(n) /\ msgs[m].dest = msgs[n].dest => m = n
  BY <1>5 DEF RInv, OpeningInv
<1>9. \A i \in 1..Len(inbox') : i \in 1..Len(inbox) \/ i = Len(inbox) + 1
  BY <1>4
<1>10. ~NoneIn(inbox') => NoOpening /\ NoneInHand /\ OnceIn(inbox')
  <2>1. CASE kind = "open"
    <3>1. NoOpening /\ NoneIn(inbox) /\ NoneInHand
      BY <1>3, <1>5, <1>8, <2>1
    <3>2. \A i \in 1..Len(inbox) : inbox'[i] /= "open"
      BY <1>4, <3>1 DEF NoneIn
    <3>3. \A i \in 1..Len(inbox') : inbox'[i] = "open" => i = Len(inbox) + 1
      BY <1>9, <3>2
    <3>4. OnceIn(inbox')
      BY <3>3 DEF OnceIn
    <3> QED BY <3>1, <3>4
  <2>2. CASE kind /= "open"
    <3>1. NoneIn(inbox) => NoneIn(inbox')
      BY <1>4, <1>9, <2>2 DEF NoneIn
    <3>2. OnceIn(inbox) => OnceIn(inbox')
      <4> SUFFICES ASSUME OnceIn(inbox), NEW i \in 1..Len(inbox'), NEW j \in 1..Len(inbox'),
                          inbox'[i] = "open", inbox'[j] = "open"
                   PROVE  i = j
        BY DEF OnceIn
      <4>1. i \in 1..Len(inbox) /\ j \in 1..Len(inbox)
        BY <1>4, <1>9, <2>2
      <4> QED BY <1>4, <4>1 DEF OnceIn
    <3> QED BY <1>8, <3>1, <3>2
  <2> QED BY <2>1, <2>2
<1>11. \A h \in 1..Len(senders') :
           NoneIn(senders'[h].work) \/ (h \in 1..Len(senders) /\ senders'[h].work = senders[h].work)
  BY <1>2, IdleFacts DEF NoneIn
<1>12. (NoOpening => NoOpening') /\ (NoneInHand => NoneInHand')
  BY <1>1, <1>11 DEF NoOpening, IsOpening, NoneInHand
<1>13. \A g \in 1..Len(senders') : ~NoneIn(senders'[g].work) =>
           /\ NoOpening' /\ OnceIn(senders'[g].work)
           /\ \A h \in 1..Len(senders') : h /= g => NoneIn(senders'[h].work)
  <2> SUFFICES ASSUME NEW g \in 1..Len(senders'), ~NoneIn(senders'[g].work)
               PROVE  /\ NoOpening' /\ OnceIn(senders'[g].work)
                      /\ \A h \in 1..Len(senders') : h /= g => NoneIn(senders'[h].work)
    OBVIOUS
  <2>1. g \in 1..Len(senders) /\ senders'[g].work = senders[g].work
    BY <1>11
  <2> QED BY <1>8, <1>11, <1>12, <2>1
<1>14. OpeningInv'
  <2>1. \A m, n \in 1..Len(msgs) :
            IsOpening(m)' /\ IsOpening(n)' /\ msgs'[m].dest = msgs'[n].dest => m = n
    BY <1>1, <1>8 DEF IsOpening
  <2> QED BY <1>1, <1>6, <1>7, <1>10, <1>12, <1>13, <2>1 DEF OpeningInv
<1>15. Evolves(msgs, msgs')
  BY <1>1, SameEvolves DEF IInv, NotifierTypeOK
<1>16. HandInv'
  <2>1. HandInv
    BY DEF RInv
  <2>2. \A h \in 1..Len(senders') : senders'[h].pc /= "work" =>
            senders'[h].records = <<>> /\ senders'[h].work = <<>>
    BY <1>2, <2>1, IdleFacts DEF HandInv
  <2>3. callbacks' /= <<>> => thread' /= None /\ senders'[generation'].pc = "look"
    <3>1. thread /= None => generation \in 1..Len(senders)
      BY LenProperties DEF IInv, NotifierTypeOK
    <3> QED BY <1>1, <1>2, <2>1, <3>1 DEF HandInv
  <2>4. \A i \in 1..Len(callbacks') : Known(callbacks'[i])
    BY <1>1, <2>1 DEF HandInv
  <2>5. ASSUME NEW h \in 1..Len(senders'), NEW i \in 1..Len(senders'[h].records)
        PROVE  Known(senders'[h].records[i])
    <3>1. CASE h \in 1..Len(senders)
      <4>1. senders'[h] = senders[h]
        BY <1>2, <3>1
      <4> QED BY <2>1, <3>1, <4>1 DEF HandInv
    <3>2. CASE h \notin 1..Len(senders)
      <4>1. senders'[h].records = <<>>
        BY <1>2, <3>2, IdleFacts
      <4> QED BY <4>1
    <3> QED BY <3>1, <3>2
  <2> QED BY <1>1, <1>15, <2>1, <2>2, <2>3, <2>4, <2>5, EvolvesAlike, HandKept
<1>17. RootInv'
  <2>1. \A o : Unrecorded(o) => Unrecorded(o)'
    BY <1>1, <1>2, UnrecordedKept
  <2>2. RootInv /\ DOMAIN pause' = Dests /\ \A d \in Dests : pause'[d] = 0 => pause[d] = 0
    BY <1>1 DEF RInv, RootInv
  <2> QED BY <1>1, <1>15, <2>1, <2>2, RootKept
<1>18. RequestInv'
  <2>1. \A h \in 1..Len(senders') : senders'[h].pc = "request" =>
            h \in 1..Len(senders) /\ senders[h].pc = "request"
            /\ senders'[h].job = senders[h].job
    BY <1>2, IdleFacts
  <2> QED BY <1>1, <1>15, <2>1, RequestKept DEF RInv
<1>19. RepliesFindTheirRoot'
  BY <1>1, <1>15, RepliesKept DEF RInv
<1> QED BY <1>14, <1>16, <1>17, <1>18, <1>19 DEF RInv

\* What was posted is in one sender's hand.
LEMMA TakeWorkOpening ==
    ASSUME IInv, IInv', RInv, NEW g \in 1..Len(senders), TakeWork(g)
    PROVE  RInv'
<1> DEFINE taken == IF g = generation THEN inbox ELSE <<>>
<1>1. /\ senders[g].pc = "look" /\ callbacks' = <<>>
      /\ Sender(g, [Idle EXCEPT !.pc = "work", !.records = callbacks, !.work = taken])
      /\ inbox' = IF g = generation THEN <<>> ELSE inbox
      /\ UNCHANGED <<setup, msgs, roots, generation, thread, pause, budget, arrived>>
  BY DEF TakeWork, timers
<1>2. inbox \in Seq(Event) /\ callbacks \in Seq(Nat) /\ <<>> \in Seq(Event)
  BY EmptySeq DEF IInv, NotifierTypeOK
<1>3. taken \in Seq(Event)
  BY <1>2
<1> HIDE DEF taken
<1>4. PICK s \in State : /\ Sender(g, s) /\ s.pc = "work" /\ s.records = callbacks /\ s.work = taken
  <2> DEFINE s == [Idle EXCEPT !.pc = "work", !.records = callbacks, !.work = taken]
  <2>1. s \in State /\ s.pc = "work" /\ s.records = callbacks /\ s.work = taken
    BY <1>2, <1>3, IdleFacts DEF State
  <2> QED BY <1>1, <2>1
<1>5. /\ Len(senders') = Len(senders) /\ senders'[g] = s
      /\ \A h \in 1..Len(senders) : h /= g => senders'[h] = senders[h]
  BY <1>4, SenderFacts DEF IInv
<1>6. senders[g].records = <<>> /\ senders[g].work = <<>>
  BY <1>1 DEF RInv, HandInv
<1>7. Evolves(msgs, msgs')
  BY <1>1, SameEvolves DEF IInv, NotifierTypeOK
<1>8. /\ "events" \in DOMAIN budget /\ budget.events \in Nat /\ budget.events <= setup.events
      /\ budget.events = setup.events => NoOpening /\ NoneIn(inbox) /\ NoneInHand
      /\ ~NoneIn(inbox) => NoOpening /\ NoneInHand /\ OnceIn(inbox)
      /\ \A h \in 1..Len(senders) : ~NoneIn(senders[h].work) =>
             /\ NoOpening /\ OnceIn(senders[h].work)
             /\ \A k \in 1..Len(senders) : k /= h => NoneIn(senders[k].work)
      /\ \A m, n \in 1..Len(msgs) :
             IsOpening(m) /\ IsOpening(n) /\ msgs[m].dest = msgs[n].dest => m = n
  BY DEF RInv, OpeningInv
<1>9. NoneIn(<<>>)
  BY DEF NoneIn
<1>10. OpeningInv'
  <2>1. NoOpening => NoOpening'
    BY <1>1 DEF NoOpening, IsOpening
  <2>2. NoneIn(inbox) => NoneIn(inbox') /\ NoneIn(taken)
    BY <1>1, <1>9 DEF taken
  <2>3. NoneIn(inbox) /\ NoneInHand => NoneInHand'
    <3> SUFFICES ASSUME NoneIn(inbox), NoneInHand, NEW h \in 1..Len(senders')
                 PROVE  NoneIn(senders'[h].work)
      BY DEF NoneInHand
    <3>1. CASE h = g
      BY <1>4, <1>5, <2>2, <3>1
    <3>2. CASE h /= g
      BY <1>5, <3>2 DEF NoneInHand
    <3> QED BY <3>1, <3>2
  <2>4. ASSUME ~NoneIn(inbox')
        PROVE  NoOpening' /\ NoneInHand' /\ OnceIn(inbox')
    <3>1. inbox' = inbox /\ taken = <<>>
      BY <1>1, <1>9, <2>4 DEF taken
    <3>2. NoOpening /\ NoneInHand /\ OnceIn(inbox)
      BY <1>8, <2>4, <3>1
    <3>3. NoneInHand'
      <4> SUFFICES ASSUME NEW h \in 1..Len(senders') PROVE NoneIn(senders'[h].work)
        BY DEF NoneInHand
      <4>1. CASE h = g
        BY <1>4, <1>5, <1>9, <3>1, <4>1
      <4>2. CASE h /= g
        BY <1>5, <3>2, <4>2 DEF NoneInHand
      <4> QED BY <4>1, <4>2
    <3> QED BY <2>1, <3>1, <3>2, <3>3
  <2>5. ASSUME NEW h \in 1..Len(senders'), ~NoneIn(senders'[h].work)
        PROVE  /\ NoOpening' /\ OnceIn(senders'[h].work)
               /\ \A k \in 1..Len(senders') : k /= h => NoneIn(senders'[k].work)
    <3>1. CASE h = g
      <4>1. senders'[h].work = inbox /\ ~NoneIn(inbox)
        BY <1>4, <1>5, <1>9, <2>5, <3>1 DEF taken
      <4>2. NoOpening /\ NoneInHand /\ OnceIn(inbox)
        BY <1>8, <4>1
      <4>3. \A k \in 1..Len(senders') : k /= h => NoneIn(senders'[k].work)
        BY <1>5, <3>1, <4>2 DEF NoneInHand
      <4> QED BY <2>1, <4>1, <4>2, <4>3
    <3>2. CASE h /= g
      <4>1. h \in 1..Len(senders) /\ senders'[h].work = senders[h].work
        BY <1>5, <3>2
      <4>2. /\ NoOpening /\ OnceIn(senders[h].work)
            /\ \A k \in 1..Len(senders) : k /= h => NoneIn(senders[k].work)
        BY <1>8, <2>5, <4>1
      <4>3. ~NoneInHand
        BY <2>5, <4>1 DEF NoneInHand
      <4>4. NoneIn(inbox)
        BY <1>8, <4>3
      <4>5. \A k \in 1..Len(senders') : k /= h => NoneIn(senders'[k].work)
        BY <1>4, <1>5, <2>2, <4>2, <4>4
      <4> QED BY <2>1, <4>1, <4>2, <4>5
    <3> QED BY <3>1, <3>2
  <2>6. \A m, n \in 1..Len(msgs) :
            IsOpening(m)' /\ IsOpening(n)' /\ msgs'[m].dest = msgs'[n].dest => m = n
    BY <1>1, <1>8 DEF IsOpening
  <2> QED BY <1>1, <1>8, <2>1, <2>2, <2>3, <2>4, <2>5, <2>6 DEF OpeningInv
<1>11. HandInv'
  <2>1. HandInv
    BY DEF RInv
  <2>2. \A h \in 1..Len(senders') : senders'[h].pc /= "work" =>
            senders'[h].records = <<>> /\ senders'[h].work = <<>>
    BY <1>4, <1>5, <2>1 DEF HandInv
  <2>3. ASSUME NEW h \in 1..Len(senders'), NEW i \in 1..Len(senders'[h].records)
        PROVE  Known(senders'[h].records[i])
    <3>1. CASE h = g
      <4>1. senders'[h].records = callbacks
        BY <1>4, <1>5, <3>1
      <4> QED BY <2>1, <2>3, <4>1 DEF HandInv
    <3>2. CASE h /= g
      <4>1. h \in 1..Len(senders) /\ senders'[h] = senders[h]
        BY <1>5, <3>2
      <4> QED BY <2>1, <2>3, <4>1 DEF HandInv
    <3> QED BY <3>1, <3>2
  <2>4. /\ callbacks' /= <<>> => thread' /= None /\ senders'[generation'].pc = "look"
        /\ \A i \in 1..Len(callbacks') : Known(callbacks'[i])
    BY <1>1
  <2> QED BY <1>1, <1>7, <2>1, <2>2, <2>3, <2>4, EvolvesAlike, HandKept
<1>12. RootInv'
  <2>1. ASSUME NEW o, Unrecorded(o) PROVE Unrecorded(o)'
    <3>1. CASE \E i \in 1..Len(callbacks) : callbacks[i] = o
      <4>1. g \in 1..Len(senders') /\ senders'[g].records = callbacks
        BY <1>4, <1>5
      <4> QED BY <3>1, <4>1 DEF Unrecorded
    <3>2. ASSUME NEW h \in 1..Len(senders), \E i \in 1..Len(senders[h].records) :
                     senders[h].records[i] = o
          PROVE  Unrecorded(o)'
      <4>1. CASE h = g
        BY <1>6, <3>2, <4>1
      <4>2. CASE h /= g
        <5>1. h \in 1..Len(senders') /\ senders'[h].records = senders[h].records
          BY <1>5, <4>2
        <5> QED BY <3>2, <5>1 DEF Unrecorded
      <4> QED BY <4>1, <4>2
    <3> QED BY <2>1, <3>1, <3>2 DEF Unrecorded
  <2>2. RootInv /\ DOMAIN pause' = Dests /\ \A d \in Dests : pause'[d] = 0 => pause[d] = 0
    BY <1>1 DEF RInv, RootInv
  <2> QED BY <1>1, <1>7, <2>1, <2>2, RootKept
<1>13. RequestInv'
  <2>1. \A h \in 1..Len(senders') : senders'[h].pc = "request" =>
            h \in 1..Len(senders) /\ senders[h].pc = "request"
            /\ senders'[h].job = senders[h].job
    BY <1>4, <1>5
  <2> QED BY <1>1, <1>7, <2>1, RequestKept DEF RInv
<1>14. RepliesFindTheirRoot'
  BY <1>1, <1>7, RepliesKept DEF RInv
<1> QED BY <1>10, <1>11, <1>12, <1>13, <1>14 DEF RInv

\* A message of a chat that is not paced goes after the chat's opening is recorded.
LEMMA TakeDeliveryOpening ==
    ASSUME IInv, IInv', RInv, NEW g \in 1..Len(senders), TakeDelivery(g)
    PROVE  RInv'
<1>1. PICK m \in 1..Len(msgs) :
               /\ g = generation /\ senders[g].pc = "look" /\ ~WorkFirst(g)
               /\ pause[msgs[m].dest] = 0
               /\ Sender(g, [Idle EXCEPT !.pc = "request", !.job = m])
               /\ [Idle EXCEPT !.pc = "request", !.job = m] \in State
               /\ UNCHANGED <<setup, msgs, inbox, callbacks, roots, generation, thread, timers,
                              closing, outside, budget, arrived>>
  BY TakeDeliveryFacts
<1>2. PICK s \in State : /\ Sender(g, s) /\ s.pc = "request" /\ s.job = m
                         /\ s.records = <<>> /\ s.work = <<>>
  <2>1. LET s == [Idle EXCEPT !.pc = "request", !.job = m]
        IN  s.pc = "request" /\ s.job = m /\ s.records = <<>> /\ s.work = <<>>
    BY DEF Idle
  <2> QED BY <1>1, <2>1
<1>3. /\ Len(senders') = Len(senders) /\ senders'[g] = s
      /\ \A h \in 1..Len(senders) : h /= g => senders'[h] = senders[h]
  BY <1>2, SenderFacts DEF IInv
<1>4. senders[g].records = <<>> /\ senders[g].work = <<>> /\ callbacks = <<>>
  BY <1>1 DEF RInv, HandInv, WorkFirst
<1>5. Evolves(msgs, msgs') /\ Len(msgs) \in Nat
  BY <1>1, SameEvolves, MessageFacts DEF IInv, NotifierTypeOK
<1>6. \A h \in 1..Len(senders) :
          senders'[h].records = senders[h].records /\ senders'[h].work = senders[h].work
  BY <1>2, <1>3, <1>4
<1>7. OpeningInv'
  <2>1. "events" \in DOMAIN budget' /\ budget'.events = budget.events
    BY <1>1 DEF RInv, OpeningInv
  <2>2. \A n \in 1..Len(msgs') : n > Len(msgs) => msgs'[n].kind /= "open"
    BY <1>1, <1>5
  <2>3. \A h \in 1..Len(senders') :
            \/ h \in 1..Len(senders) /\ senders'[h].work = senders[h].work
            \/ senders'[h].work = <<>>
    BY <1>3, <1>6
  <2> QED BY <1>1, <1>5, <2>1, <2>2, <2>3, EvolvesAlike, OpeningKept DEF RInv
<1>8. HandInv'
  <2>1. HandInv
    BY DEF RInv
  <2>2. \A h \in 1..Len(senders') : senders'[h].pc /= "work" =>
            senders'[h].records = <<>> /\ senders'[h].work = <<>>
    BY <1>2, <1>3, <2>1 DEF HandInv
  <2>3. \A h \in 1..Len(senders') : \A i \in 1..Len(senders'[h].records) :
            Known(senders'[h].records[i])
    BY <1>3, <1>6, <2>1 DEF HandInv
  <2>4. callbacks' = <<>> /\ \A i \in 1..Len(callbacks') : Known(callbacks'[i])
    BY <1>1, <1>4
  <2> QED BY <1>1, <1>5, <2>1, <2>2, <2>3, <2>4, EvolvesAlike, HandKept
<1>9. RootInv'
  <2>1. \A o : Unrecorded(o) => Unrecorded(o)'
    BY <1>1, <1>3, <1>6, UnrecordedKept
  <2>2. RootInv /\ DOMAIN pause' = Dests /\ \A d \in Dests : pause'[d] = 0 => pause[d] = 0
    BY <1>1 DEF RInv, RootInv, timers
  <2> QED BY <1>1, <1>5, <2>1, <2>2, RootKept
<1>10. RequestInv'
  <2> SUFFICES ASSUME NEW h \in 1..Len(senders'), senders'[h].pc = "request",
                      NEW o \in 1..Len(msgs), SentOpening(o), msgs[o].gen = h,
                      msgs[o].dest = msgs[senders'[h].job].dest
               PROVE  roots[msgs[senders'[h].job].dest] = o
    BY <1>1 DEF RequestInv, SentOpening, IsOpening
  <2>1. CASE h = g
    <3>1. senders'[h].job = m
      BY <1>2, <1>3, <2>1
    <3>2. msgs[o].gen = generation /\ pause[msgs[o].dest] = 0
      BY <1>1, <2>1, <3>1
    <3>3. roots[msgs[o].dest] = o
      BY <3>2 DEF RInv, RootInv
    <3> QED BY <3>1, <3>3
  <2>2. CASE h /= g
    <3>1. h \in 1..Len(senders) /\ senders'[h] = senders[h]
      BY <1>3, <2>2
    <3> QED BY <3>1 DEF RInv, RequestInv
  <2> QED BY <2>1, <2>2
<1>11. RepliesFindTheirRoot'
  BY <1>1, <1>5, RepliesKept DEF RInv
<1> QED BY <1>7, <1>8, <1>9, <1>10, <1>11 DEF RInv

\* A chat has one opening, so what is recorded is its root.
LEMMA RecordOpening ==
    ASSUME IInv, IInv', RInv, NEW g \in 1..Len(senders), Record(g)
    PROVE  RInv'
<1>1. /\ senders[g].pc = "work" /\ senders[g].records /= <<>>
      /\ roots' = [roots EXCEPT ![msgs[Head(senders[g].records)].dest] = Head(senders[g].records)]
      /\ Sender(g, [senders[g] EXCEPT !.records = Tail(@)])
      /\ [senders[g] EXCEPT !.records = Tail(@)] \in State
      /\ UNCHANGED <<setup, msgs, inbox, callbacks, generation, thread, pause, budget, arrived>>
  BY RecordFacts DEF timers
<1>2. PICK s \in State : /\ Sender(g, s) /\ s.pc = "work" /\ s.work = senders[g].work
                         /\ s.records = Tail(senders[g].records)
  <2>1. senders[g] \in State
    BY StateFacts DEF IInv
  <2>2. LET s == [senders[g] EXCEPT !.records = Tail(@)]
        IN  s.pc = "work" /\ s.work = senders[g].work /\ s.records = Tail(senders[g].records)
    BY <1>1, <2>1 DEF State
  <2> QED BY <1>1, <2>2
<1>3. /\ Len(senders') = Len(senders) /\ senders'[g] = s
      /\ \A h \in 1..Len(senders) : h /= g => senders'[h] = senders[h]
  BY <1>2, SenderFacts DEF IInv
<1>4. PICK rs \in Seq(Nat) : rs = senders[g].records /\ rs /= <<>>
  BY <1>1, StateFacts DEF IInv
<1>5. /\ Len(rs) \in Nat /\ Len(rs) >= 1 /\ Head(rs) = rs[1]
      /\ Len(Tail(rs)) = Len(rs) - 1
      /\ \A i \in 1..Len(Tail(rs)) : Tail(rs)[i] = rs[i + 1]
  BY <1>4, HeadTailProperties, LenProperties, EmptySeq
<1>6. PICK x \in 1..Len(msgs) : x = Head(rs) /\ IsOpening(x)
  BY <1>4, <1>5 DEF RInv, HandInv, Known
<1>7. /\ msgs[x].dest \in Dests /\ roots \in [Dests -> Nat]
      /\ roots' = [roots EXCEPT ![msgs[x].dest] = x]
  BY <1>1, <1>4, <1>6, MessageFacts DEF IInv, NotifierTypeOK
<1>8. Evolves(msgs, msgs') /\ Len(msgs) \in Nat
  BY <1>1, SameEvolves, MessageFacts DEF IInv, NotifierTypeOK
<1>9. \A m, n \in 1..Len(msgs) :
          IsOpening(m) /\ IsOpening(n) /\ msgs[m].dest = msgs[n].dest => m = n
  BY DEF RInv, OpeningInv
<1>10. OpeningInv'
  <2>1. "events" \in DOMAIN budget' /\ budget'.events = budget.events
    BY <1>1 DEF RInv, OpeningInv
  <2>2. \A n \in 1..Len(msgs') : n > Len(msgs) => msgs'[n].kind /= "open"
    BY <1>1, <1>8
  <2>3. \A h \in 1..Len(senders') : h \in 1..Len(senders) /\ senders'[h].work = senders[h].work
    BY <1>2, <1>3
  <2> QED BY <1>1, <1>8, <2>1, <2>2, <2>3, EvolvesAlike, OpeningKept DEF RInv
<1>11. HandInv'
  <2>1. HandInv
    BY DEF RInv
  <2>2. \A h \in 1..Len(senders') : senders'[h].pc /= "work" =>
            senders'[h].records = <<>> /\ senders'[h].work = <<>>
    BY <1>2, <1>3, <2>1 DEF HandInv
  <2>3. ASSUME NEW h \in 1..Len(senders'), NEW i \in 1..Len(senders'[h].records)
        PROVE  Known(senders'[h].records[i])
    <3>1. CASE h = g
      <4>1. senders'[h].records = Tail(rs)
        BY <1>2, <1>3, <1>4, <3>1
      <4>2. i \in 1..Len(Tail(rs)) /\ i + 1 \in 1..Len(rs)
        BY <1>5, <2>3, <4>1
      <4>3. senders'[h].records[i] = senders[g].records[i + 1]
        BY <1>4, <1>5, <4>1, <4>2
      <4> QED BY <1>4, <2>1, <4>2, <4>3 DEF HandInv
    <3>2. CASE h /= g
      <4>1. h \in 1..Len(senders) /\ senders'[h] = senders[h]
        BY <1>3, <3>2
      <4> QED BY <2>1, <2>3, <4>1 DEF HandInv
    <3> QED BY <3>1, <3>2
  <2>4. callbacks' /= <<>> => thread' /= None /\ senders'[generation'].pc = "look"
    <3>1. thread /= None => generation \in 1..Len(senders)
      BY LenProperties DEF IInv, NotifierTypeOK
    <3>2. g = generation => callbacks = <<>>
      BY <1>1, <2>1 DEF HandInv
    <3> QED BY <1>1, <1>3, <2>1, <3>1, <3>2 DEF HandInv
  <2>5. \A i \in 1..Len(callbacks') : Known(callbacks'[i])
    BY <1>1, <2>1 DEF HandInv
  <2> QED BY <1>1, <1>8, <2>1, <2>2, <2>3, <2>4, <2>5, EvolvesAlike, HandKept
<1>12. ASSUME NEW o, Unrecorded(o), o /= x
       PROVE  Unrecorded(o)'
  <2>1. CASE \E i \in 1..Len(callbacks) : callbacks[i] = o
    BY <1>1, <2>1 DEF Unrecorded
  <2>2. ASSUME NEW h \in 1..Len(senders), NEW i \in 1..Len(senders[h].records),
               senders[h].records[i] = o
        PROVE  Unrecorded(o)'
    <3>1. CASE h = g
      <4>1. i \in 1..Len(rs) /\ rs[i] = o /\ i /= 1
        BY <1>4, <1>5, <1>6, <1>12, <2>2, <3>1
      <4>2. PICK j \in 1..Len(Tail(rs)) : j + 1 = i
        <5>1. i - 1 \in 1..Len(Tail(rs)) /\ (i - 1) + 1 = i
          BY <1>5, <4>1
        <5> QED BY <5>1
      <4>3. g \in 1..Len(senders') /\ senders'[g].records = Tail(rs)
        BY <1>2, <1>3, <1>4
      <4>4. j \in 1..Len(senders'[g].records) /\ senders'[g].records[j] = o
        BY <1>5, <4>1, <4>2, <4>3
      <4> QED BY <4>3, <4>4 DEF Unrecorded
    <3>2. CASE h /= g
      <4>1. h \in 1..Len(senders') /\ senders'[h] = senders[h]
        BY <1>3, <3>2
      <4> QED BY <2>2, <4>1 DEF Unrecorded
    <3> QED BY <3>1, <3>2
  <2> QED BY <1>12, <2>1, <2>2 DEF Unrecorded
<1>13. RootInv'
  <2>1. DOMAIN pause' = Dests' /\ DOMAIN pause = Dests
    BY <1>1, SameMessages DEF RInv, RootInv
  <2>2. ASSUME NEW o \in 1..Len(msgs), SentOpening(o), msgs[o].gen = generation
        PROVE  roots'[msgs[o].dest] = o \/ (Unrecorded(o)' /\ pause[msgs[o].dest] /= 0)
    <3>1. msgs[o].dest \in Dests
      BY MessageFacts DEF IInv, NotifierTypeOK
    <3>2. CASE o = x
      BY <1>7, <3>2
    <3>3. CASE o /= x
      <4>1. msgs[o].dest /= msgs[x].dest
        BY <1>6, <1>9, <2>2, <3>3 DEF SentOpening
      <4>2. roots'[msgs[o].dest] = roots[msgs[o].dest]
        BY <1>7, <3>1, <4>1
      <4>3. roots[msgs[o].dest] = o \/ (Unrecorded(o) /\ pause[msgs[o].dest] /= 0)
        BY <2>2 DEF RInv, RootInv
      <4>4. Unrecorded(o) => Unrecorded(o)'
        BY <1>12, <3>3
      <4> QED BY <4>2, <4>3, <4>4
    <3> QED BY <3>2, <3>3
  <2> QED BY <1>1, <2>1, <2>2 DEF RootInv, SentOpening, IsOpening
<1>14. RequestInv'
  <2>0. msgs' = msgs
    BY <1>1
  <2> SUFFICES ASSUME NEW h \in 1..Len(senders'), senders'[h].pc = "request",
                      NEW o \in 1..Len(msgs), SentOpening(o), msgs[o].gen = h,
                      msgs[o].dest = msgs[senders'[h].job].dest
               PROVE  roots'[msgs[senders'[h].job].dest] = o
    BY <2>0 DEF RequestInv, SentOpening, IsOpening
  <2>1. h \in 1..Len(senders) /\ senders'[h] = senders[h]
    BY <1>2, <1>3
  <2>2. roots[msgs[o].dest] = o
    BY <2>1 DEF RInv, RequestInv
  <2>3. msgs[o].dest \in Dests
    BY MessageFacts DEF IInv, NotifierTypeOK
  <2>4. roots'[msgs[o].dest] = o
    <3>1. CASE msgs[o].dest = msgs[x].dest
      <4>1. o = x
        BY <1>6, <1>9, <3>1 DEF SentOpening
      <4> QED BY <1>7, <4>1
    <3>2. CASE msgs[o].dest /= msgs[x].dest
      BY <1>7, <2>2, <2>3, <3>2
    <3> QED BY <3>1, <3>2
  <2> QED BY <2>4
<1>15. RepliesFindTheirRoot'
  BY <1>1, <1>8, RepliesKept DEF RInv
<1> QED BY <1>10, <1>11, <1>13, <1>14, <1>15 DEF RInv

\* The opening is made into messages once, one to each chat.
LEMMA RunWorkOpening ==
    ASSUME IInv, IInv', RInv, NEW g \in 1..Len(senders), RunWork(g)
    PROVE  RInv'
<1>1. /\ senders[g].pc = "work" /\ senders[g].work /= <<>> /\ senders[g].records = <<>>
      /\ Sender(g, [senders[g] EXCEPT !.work = Tail(@)])
      /\ [senders[g] EXCEPT !.work = Tail(@)] \in State
      /\ Evolves(msgs, msgs')
      /\ \A m \in 1..Len(msgs') : m > Len(msgs) =>
             /\ msgs'[m].kind = Head(senders[g].work)
             /\ \A n \in 1..Len(msgs') : n > Len(msgs) /\ msgs'[m].dest = msgs'[n].dest => m = n
      /\ UNCHANGED <<setup, inbox, callbacks, roots, generation, thread, pause, budget, arrived>>
  BY RunWorkFacts DEF adapter, timers
<1>2. PICK s \in State : /\ Sender(g, s) /\ s.pc = "work" /\ s.records = <<>>
                         /\ s.work = Tail(senders[g].work)
  <2>1. senders[g] \in State
    BY StateFacts DEF IInv
  <2>2. LET s == [senders[g] EXCEPT !.work = Tail(@)]
        IN  s.pc = "work" /\ s.records = senders[g].records /\ s.work = Tail(senders[g].work)
    BY <1>1, <2>1 DEF State
  <2> QED BY <1>1, <2>2
<1>3. /\ Len(senders') = Len(senders) /\ senders'[g] = s
      /\ \A h \in 1..Len(senders) : h /= g => senders'[h] = senders[h]
  BY <1>2, SenderFacts DEF IInv
<1>4. PICK ws \in Seq(Event) : ws = senders[g].work /\ ws /= <<>>
  BY <1>1, StateFacts DEF IInv
<1>5. /\ Len(ws) \in Nat /\ Len(ws) >= 1 /\ Head(ws) = ws[1]
      /\ Len(Tail(ws)) = Len(ws) - 1
      /\ \A i \in 1..Len(Tail(ws)) : Tail(ws)[i] = ws[i + 1]
  BY <1>4, HeadTailProperties, LenProperties, EmptySeq
<1>6. \A i \in 1..Len(Tail(ws)) : i + 1 \in 1..Len(ws) /\ i + 1 /= 1
  BY <1>5
<1>7. Len(msgs) \in Nat /\ Len(msgs') \in Nat
  BY <1>1, SameMessages, MessageFacts DEF IInv, NotifierTypeOK
<1>8. NoneIn(ws) => NoneIn(Tail(ws)) /\ Head(ws) /= "open"
  <2>1. NoneIn(ws) => NoneIn(Tail(ws))
    BY <1>5, <1>6 DEF NoneIn
  <2>2. 1 \in 1..Len(ws)
    BY <1>5
  <2> QED BY <1>5, <2>1, <2>2 DEF NoneIn
<1>9. OnceIn(ws) => OnceIn(Tail(ws)) /\ (Head(ws) = "open" => NoneIn(Tail(ws)))
  <2>1. ASSUME OnceIn(ws), NEW i \in 1..Len(Tail(ws)), NEW j \in 1..Len(Tail(ws)),
               Tail(ws)[i] = "open", Tail(ws)[j] = "open"
        PROVE  i = j
    <3>1. i + 1 = j + 1
      BY <1>5, <1>6, <2>1 DEF OnceIn
    <3> QED BY <1>5, <3>1
  <2>2. ASSUME OnceIn(ws), Head(ws) = "open", NEW i \in 1..Len(Tail(ws)), Tail(ws)[i] = "open"
        PROVE  FALSE
    <3>1. 1 \in 1..Len(ws) /\ ws[1] = "open" /\ ws[i + 1] = "open"
      BY <1>5, <2>2
    <3> QED BY <1>6, <2>2, <3>1 DEF OnceIn
  <2> QED BY <2>1, <2>2 DEF OnceIn, NoneIn
<1>10. /\ "events" \in DOMAIN budget /\ budget.events \in Nat /\ budget.events <= setup.events
       /\ budget.events = setup.events => NoOpening /\ NoneIn(inbox) /\ NoneInHand
       /\ ~NoneIn(inbox) => NoOpening /\ NoneInHand /\ OnceIn(inbox)
       /\ \A h \in 1..Len(senders) : ~NoneIn(senders[h].work) =>
              /\ NoOpening /\ OnceIn(senders[h].work)
              /\ \A k \in 1..Len(senders) : k /= h => NoneIn(senders[k].work)
       /\ \A m, n \in 1..Len(msgs) :
              IsOpening(m) /\ IsOpening(n) /\ msgs[m].dest = msgs[n].dest => m = n
  BY DEF RInv, OpeningInv
<1>11. \A m \in 1..Len(msgs') :
           \/ /\ m \in 1..Len(msgs) /\ msgs'[m].kind = msgs[m].kind /\ msgs'[m].dest = msgs[m].dest
           \/ m > Len(msgs) /\ msgs'[m].kind = Head(ws)
  BY <1>1, <1>4, <1>7 DEF Evolves
<1>12. \A h \in 1..Len(senders') :
           /\ h \in 1..Len(senders)
           /\ senders'[h].work = IF h = g THEN Tail(ws) ELSE senders[h].work
  BY <1>2, <1>3, <1>4
<1>13. OpeningInv'
  <2>1. CASE Head(ws) = "open"
    <3>1. ~NoneIn(senders[g].work)
      BY <1>4, <1>8, <2>1
    <3>2. /\ NoOpening /\ OnceIn(ws)
          /\ \A k \in 1..Len(senders) : k /= g => NoneIn(senders[k].work)
      BY <1>4, <1>10, <3>1
    <3>3. ~NoneInHand
      BY <3>1 DEF NoneInHand
    <3>4. NoneIn(inbox) /\ budget.events /= setup.events
      BY <1>10, <3>3
    <3>5. \A h \in 1..Len(senders') : NoneIn(senders'[h].work)
      BY <1>9, <1>12, <2>1, <3>2
    <3>6. ASSUME NEW m \in 1..Len(msgs'), NEW n \in 1..Len(msgs'), IsOpening(m)', IsOpening(n)',
                 msgs'[m].dest = msgs'[n].dest
          PROVE  m = n
      <4>1. msgs'[m].kind = "open" /\ msgs'[n].kind = "open"
        BY <3>6 DEF IsOpening
      <4>2. m > Len(msgs) /\ n > Len(msgs)
        BY <1>11, <3>2, <4>1 DEF NoOpening, IsOpening
      <4> QED BY <1>1, <3>6, <4>2
    <3> QED BY <1>1, <1>10, <3>4, <3>5, <3>6 DEF OpeningInv
  <2>2. CASE Head(ws) /= "open"
    <3>1. \A m \in 1..Len(msgs') : msgs'[m].kind = "open" =>
              m \in 1..Len(msgs) /\ msgs[m].kind = "open" /\ msgs'[m].dest = msgs[m].dest
      BY <1>11, <2>2
    <3>2. NoOpening => NoOpening'
      BY <3>1 DEF NoOpening, IsOpening
    <3>3. \A h \in 1..Len(senders') :
              /\ h \in 1..Len(senders)
              /\ NoneIn(senders[h].work) => NoneIn(senders'[h].work)
              /\ OnceIn(senders[h].work) => OnceIn(senders'[h].work)
      <4> SUFFICES ASSUME NEW h \in 1..Len(senders')
                   PROVE  /\ NoneIn(senders[h].work) => NoneIn(senders'[h].work)
                          /\ OnceIn(senders[h].work) => OnceIn(senders'[h].work)
        BY <1>12
      <4>1. CASE h = g
        <5>1. senders[h].work = ws /\ senders'[h].work = Tail(ws)
          BY <1>4, <1>12, <4>1
        <5> QED BY <1>8, <1>9, <5>1
      <4>2. CASE h /= g
        <5>1. senders'[h].work = senders[h].work
          BY <1>12, <4>2
        <5> QED BY <5>1
      <4> QED BY <4>1, <4>2
    <3>4. NoneInHand => NoneInHand'
      BY <3>3 DEF NoneInHand
    <3>5. \A m, n \in 1..Len(msgs') :
              IsOpening(m)' /\ IsOpening(n)' /\ msgs'[m].dest = msgs'[n].dest => m = n
      BY <1>10, <3>1 DEF IsOpening
    <3>6. \A h \in 1..Len(senders') : ~NoneIn(senders'[h].work) =>
              /\ NoOpening' /\ OnceIn(senders'[h].work)
              /\ \A k \in 1..Len(senders') : k /= h => NoneIn(senders'[k].work)
      <4> SUFFICES ASSUME NEW h \in 1..Len(senders'), ~NoneIn(senders'[h].work)
                   PROVE  /\ NoOpening' /\ OnceIn(senders'[h].work)
                          /\ \A k \in 1..Len(senders') : k /= h => NoneIn(senders'[k].work)
        OBVIOUS
      <4>1. h \in 1..Len(senders) /\ ~NoneIn(senders[h].work)
        BY <3>3
      <4>2. /\ NoOpening /\ OnceIn(senders[h].work)
            /\ \A k \in 1..Len(senders) : k /= h => NoneIn(senders[k].work)
        BY <1>10, <4>1
      <4> QED BY <3>2, <3>3, <4>2
    <3>7. ~NoneIn(inbox) => NoOpening' /\ NoneInHand' /\ OnceIn(inbox)
      BY <1>10, <3>2, <3>4
    <3>8. budget.events = setup.events => NoOpening' /\ NoneIn(inbox) /\ NoneInHand'
      BY <1>10, <3>2, <3>4
    <3>9. UNCHANGED <<setup, inbox, budget>>
      BY <1>1
    <3> QED BY <1>10, <3>5, <3>6, <3>7, <3>8, <3>9 DEF OpeningInv
  <2> QED BY <2>1, <2>2
<1>14. HandInv'
  <2>1. HandInv
    BY DEF RInv
  <2>2. \A h \in 1..Len(senders') : senders'[h].pc /= "work" =>
            senders'[h].records = <<>> /\ senders'[h].work = <<>>
    BY <1>2, <1>3, <2>1 DEF HandInv
  <2>3. ASSUME NEW h \in 1..Len(senders'), NEW i \in 1..Len(senders'[h].records)
        PROVE  Known(senders'[h].records[i])
    <3>1. CASE h = g
      BY <1>2, <1>3, <2>3, <3>1
    <3>2. CASE h /= g
      <4>1. h \in 1..Len(senders) /\ senders'[h] = senders[h]
        BY <1>3, <3>2
      <4> QED BY <2>1, <2>3, <4>1 DEF HandInv
    <3> QED BY <3>1, <3>2
  <2>4. callbacks' /= <<>> => thread' /= None /\ senders'[generation'].pc = "look"
    <3>1. thread /= None => generation \in 1..Len(senders)
      BY LenProperties DEF IInv, NotifierTypeOK
    <3>2. g = generation => callbacks = <<>>
      BY <1>1, <2>1 DEF HandInv
    <3>3. UNCHANGED <<callbacks, generation, thread>>
      BY <1>1
    <3> QED BY <1>3, <2>1, <3>1, <3>2, <3>3 DEF HandInv
  <2>5. \A i \in 1..Len(callbacks') : Known(callbacks'[i])
    BY <1>1, <2>1 DEF HandInv
  <2>6. setup' = setup /\ Alike(msgs, msgs')
    BY <1>1, EvolvesAlike
  <2> QED BY <2>1, <2>2, <2>3, <2>4, <2>5, <2>6, HandKept
<1>15. UNCHANGED <<setup, generation, roots, arrived, callbacks, pause>> /\ Evolves(msgs, msgs')
  BY <1>1
<1>16. RootInv'
  <2>1. \A h \in 1..Len(senders) :
            h \in 1..Len(senders') /\ senders'[h].records = senders[h].records
    BY <1>1, <1>2, <1>3
  <2>2. \A o : Unrecorded(o) => Unrecorded(o)'
    BY <1>15, <2>1, UnrecordedKept
  <2>3. RootInv /\ DOMAIN pause' = Dests /\ \A d \in Dests : pause'[d] = 0 => pause[d] = 0
    BY <1>15 DEF RInv, RootInv
  <2> QED BY <1>15, <2>2, <2>3, RootKept
<1>17. RequestInv'
  <2>1. \A h \in 1..Len(senders') : senders'[h].pc = "request" =>
            h \in 1..Len(senders) /\ senders[h].pc = "request"
            /\ senders'[h].job = senders[h].job
    BY <1>2, <1>3
  <2> QED BY <1>15, <2>1, RequestKept DEF RInv
<1>18. RepliesFindTheirRoot'
  BY <1>15, RepliesKept DEF RInv
<1> QED BY <1>13, <1>14, <1>16, <1>17, <1>18 DEF RInv

\* What goes out carries the root that its chat had when it was taken.
LEMMA RequestOpening ==
    ASSUME IInv, IInv', RInv, NEW g \in 1..Len(senders), Request(g)
    PROVE  RInv'
<1>1. PICK m \in 1..Len(msgs), to \in Nat, what \in Answers : Goes(g, m, to, what)
  BY RequestFacts
<1>2. /\ senders[g].pc = "request" /\ m = senders[g].job
      /\ to = IF Follows(m) THEN roots[msgs[m].dest] ELSE None
      /\ UNCHANGED <<setup, inbox, callbacks, roots, generation, thread, pause>>
      /\ \/ UNCHANGED <<msgs, arrived>>
         \/ arrived' = Append(arrived, [msg |-> m, part |-> msgs[m].next + 1, to |-> to])
  BY <1>1 DEF Goes, adapter, timers
<1>3. /\ senders'[g].pc = "answered"
      /\ senders'[g].records = senders[g].records /\ senders'[g].work = senders[g].work
      /\ Len(senders') = Len(senders)
      /\ \A h \in 1..Len(senders) : h /= g => senders'[h] = senders[h]
      /\ Len(msgs') = Len(msgs) /\ Evolves(msgs, msgs')
  BY <1>1, RequestTypes
<1>4. "events" \in DOMAIN budget' /\ budget'.events = budget.events
  <2>1. budget' = budget \/ Spend("lost") \/ Spend("refused") \/ Spend("wait")
    BY DEF Request
  <2> QED BY <2>1 DEF Spend, RInv, OpeningInv
<1>5. senders[g].records = <<>> /\ senders[g].work = <<>>
  BY <1>2 DEF RInv, HandInv
<1>6. Len(msgs) \in Nat
  BY MessageFacts DEF IInv, NotifierTypeOK
<1>7. \A h \in 1..Len(senders') :
          /\ h \in 1..Len(senders)
          /\ senders'[h].records = senders[h].records /\ senders'[h].work = senders[h].work
  BY <1>3
<1>8. OpeningInv'
  <2>1. \A n \in 1..Len(msgs') : n > Len(msgs) => msgs'[n].kind /= "open"
    BY <1>3, <1>6
  <2> QED BY <1>2, <1>3, <1>4, <1>7, <2>1, EvolvesAlike, OpeningKept DEF RInv
<1>9. HandInv'
  <2>1. HandInv
    BY DEF RInv
  <2>2. \A h \in 1..Len(senders') : senders'[h].pc /= "work" =>
            senders'[h].records = <<>> /\ senders'[h].work = <<>>
    BY <1>3, <1>5, <2>1 DEF HandInv
  <2>3. \A h \in 1..Len(senders') : \A i \in 1..Len(senders'[h].records) :
            Known(senders'[h].records[i])
    BY <1>7, <2>1 DEF HandInv
  <2>4. callbacks' /= <<>> => thread' /= None /\ senders'[generation'].pc = "look"
    <3>1. thread /= None => generation \in 1..Len(senders)
      BY LenProperties DEF IInv, NotifierTypeOK
    <3>2. g = generation => callbacks = <<>>
      BY <1>2, <2>1 DEF HandInv
    <3>3. UNCHANGED <<callbacks, generation, thread>>
      BY <1>2
    <3> QED BY <1>3, <2>1, <3>1, <3>2, <3>3 DEF HandInv
  <2>5. \A i \in 1..Len(callbacks') : Known(callbacks'[i])
    BY <1>2, <2>1 DEF HandInv
  <2> QED BY <1>2, <1>3, <2>1, <2>2, <2>3, <2>4, <2>5, EvolvesAlike, HandKept
<1>10. RootInv'
  <2>1. \A o : Unrecorded(o) => Unrecorded(o)'
    BY <1>2, <1>3, <1>7, UnrecordedKept
  <2>2. RootInv /\ DOMAIN pause' = Dests /\ \A d \in Dests : pause'[d] = 0 => pause[d] = 0
    BY <1>2 DEF RInv, RootInv
  <2> QED BY <1>2, <1>3, <2>1, <2>2, RootKept
<1>11. RequestInv'
  <2>1. \A h \in 1..Len(senders') : senders'[h].pc = "request" =>
            h \in 1..Len(senders) /\ senders[h].pc = "request"
            /\ senders'[h].job = senders[h].job
    BY <1>3
  <2> QED BY <1>2, <1>3, <2>1, RequestKept DEF RInv
<1>12. RepliesFindTheirRoot'
  <2>1. CASE UNCHANGED <<msgs, arrived>>
    BY <1>2, <1>3, <2>1, RepliesKept DEF RInv
  <2>2. CASE arrived' = Append(arrived, [msg |-> m, part |-> msgs[m].next + 1, to |-> to])
    <3>1. /\ arrived \in Seq(Copy) /\ Len(arrived) \in Nat /\ DOMAIN arrived = 1..Len(arrived)
          /\ DOMAIN arrived' = 1..Len(arrived')
          /\ DOMAIN msgs = 1..Len(msgs) /\ DOMAIN msgs' = 1..Len(msgs')
      BY SameMessages, MessageFacts, LenProperties, <1>2 DEF IInv, NotifierTypeOK
    <3>2. /\ \A i \in 1..Len(arrived') : i \in 1..Len(arrived) \/ i = Len(arrived) + 1
          /\ \A i \in 1..Len(arrived) : arrived'[i] = arrived[i]
          /\ arrived'[Len(arrived) + 1].msg = m /\ arrived'[Len(arrived) + 1].to = to
      <4> DEFINE copy == [msg |-> m, part |-> msgs[m].next + 1, to |-> to]
      <4>1. copy \in Copy /\ copy.msg = m /\ copy.to = to
        BY MessageFacts, SMTT(20) DEF Copy, IInv, NotifierTypeOK
      <4> HIDE DEF copy
      <4>2. arrived' = Append(arrived, copy)
        BY <2>2 DEF copy
      <4>3. /\ Len(arrived') = Len(arrived) + 1 /\ arrived'[Len(arrived) + 1] = copy
            /\ \A i \in 1..Len(arrived) : arrived'[i] = arrived[i]
        BY <3>1, <4>1, <4>2, AppendProperties
      <4> QED BY <3>1, <4>1, <4>3
    <3> SUFFICES ASSUME NEW i \in 1..Len(arrived'), NEW o \in 1..Len(msgs'),
                        msgs'[arrived'[i].msg].kind \in {"reply", "edit"}, SentOpening(o)',
                        o < arrived'[i].msg, msgs'[o].dest = msgs'[arrived'[i].msg].dest,
                        msgs'[o].gen = msgs'[arrived'[i].msg].gen
                 PROVE  arrived'[i].to = o
      BY <3>1 DEF RepliesFindTheirRoot, Messages, Follows, SentOpening, IsOpening
    <3>3. PICK n \in 1..Len(msgs) : n = arrived'[i].msg
      BY <1>3, <3>1 DEF IInv, PassedInv
    <3>4. /\ o \in 1..Len(msgs) /\ Follows(n) /\ SentOpening(o)
          /\ o < n /\ msgs[o].dest = msgs[n].dest /\ msgs[o].gen = msgs[n].gen
      <4>1. o \in 1..Len(msgs)
        BY <1>3
      <4>2. \A k \in 1..Len(msgs) :
                /\ msgs'[k].kind = msgs[k].kind /\ msgs'[k].dest = msgs[k].dest
                /\ msgs'[k].gen = msgs[k].gen /\ (msgs'[k].st = "sent" => msgs[k].st = "sent")
        BY <1>3 DEF Evolves
      <4> QED BY <3>3, <4>1, <4>2 DEF Follows, SentOpening, IsOpening
    <3>5. CASE i \in 1..Len(arrived)
      <4>1. arrived'[i] = arrived[i]
        BY <3>2, <3>5
      <4> QED BY <3>1, <3>5, <3>3, <3>4, <4>1
          DEF RInv, RepliesFindTheirRoot, Messages, SentOpening, IsOpening
    <3>6. CASE i = Len(arrived) + 1
      <4>1. n = m /\ arrived'[i].to = roots[msgs[m].dest]
        BY <1>2, <3>2, <3>6, <3>3, <3>4
      <4>2. msgs[m].gen = g
        BY <1>2 DEF IInv, FrontInv, Asking
      <4>3. roots[msgs[m].dest] = o
        BY <1>2, <3>4, <4>1, <4>2 DEF RInv, RequestInv
      <4> QED BY <4>1, <4>3
    <3> QED BY <3>2, <3>5, <3>6
  <2> QED BY <1>2, <2>1, <2>2
<1> QED BY <1>8, <1>9, <1>10, <1>11, <1>12 DEF RInv

\* The opening that went out is left for recording, and its chat is paced meanwhile.
LEMMA SettleSentOpening ==
    ASSUME Paced, IInv, IInv', RInv, NEW g \in 1..Len(senders), SettleSent(g)
    PROVE  RInv'
<1>1. PICK m \in 1..Len(msgs), whole \in BOOLEAN :
               /\ m = senders[g].job
               /\ Len(msgs') = Len(msgs)
               /\ msgs'[m].kind = msgs[m].kind /\ msgs'[m].dest = msgs[m].dest
               /\ msgs'[m].gen = msgs[m].gen
               /\ msgs'[m].st = IF whole THEN "sent" ELSE "waiting"
               /\ \A n \in 1..Len(msgs) : n /= m => msgs'[n] = msgs[n]
               /\ callbacks' = IF whole /\ msgs[m].kind = "open" THEN Append(callbacks, m)
                               ELSE callbacks
               /\ pause' = [pause EXCEPT ![msgs[m].dest] = IF 0 > setup.pace THEN 0 ELSE setup.pace]
               /\ Answered(g, "sent")
  BY SettleSentFacts
<1>2. /\ m = senders[g].job /\ msgs[m].st = "waiting"
      /\ g = generation /\ thread /= None
      /\ senders[g].pc = "answered"
      /\ Len(senders') = Len(senders) /\ senders'[g] = Idle
      /\ \A h \in 1..Len(senders) : h /= g => senders'[h] = senders[h]
      /\ UNCHANGED <<setup, inbox, roots, generation, thread, budget, arrived>>
  BY <1>1, AnsweredFacts
<1>3. Alike(msgs, msgs') /\ Len(msgs) \in Nat
  <2>1. Len(msgs) \in Nat
    BY MessageFacts DEF IInv, NotifierTypeOK
  <2>2. \A n \in 1..Len(msgs) : msgs'[n].kind = msgs[n].kind /\ msgs'[n].dest = msgs[n].dest
    BY <1>1
  <2> QED BY <1>1, <2>1, <2>2 DEF Alike
<1>4. senders[g].records = <<>> /\ senders[g].work = <<>>
  BY <1>2 DEF RInv, HandInv
<1>5. \A h \in 1..Len(senders') :
          /\ h \in 1..Len(senders)
          /\ senders'[h].records = senders[h].records /\ senders'[h].work = senders[h].work
  BY <1>2, <1>4, IdleFacts
<1>6. msgs[m].dest \in Dests /\ callbacks \in Seq(Nat) /\ Len(callbacks) \in Nat
      /\ msgs[m].gen = generation
  BY <1>2, MessageFacts, LenProperties DEF IInv, NotifierTypeOK, MessageInv
<1>7. /\ \A i \in 1..Len(callbacks) : i \in 1..Len(callbacks') /\ callbacks'[i] = callbacks[i]
      /\ \A i \in 1..Len(callbacks') :
             i \in 1..Len(callbacks) \/ (callbacks'[i] = m /\ IsOpening(m))
      /\ whole /\ msgs[m].kind = "open" => \E i \in 1..Len(callbacks') : callbacks'[i] = m
  <2>1. CASE whole /\ msgs[m].kind = "open"
    <3>1. callbacks' = Append(callbacks, m) /\ m \in Nat
      BY <1>1, <2>1
    <3>2. /\ Len(callbacks') = Len(callbacks) + 1 /\ callbacks'[Len(callbacks) + 1] = m
          /\ \A i \in 1..Len(callbacks) : callbacks'[i] = callbacks[i]
      BY <1>6, <3>1, AppendProperties
    <3>3. Len(callbacks) + 1 \in 1..Len(callbacks')
      BY <1>6, <3>2
    <3>4. IsOpening(m)
      BY <2>1 DEF IsOpening
    <3> QED BY <1>6, <3>2, <3>3, <3>4, SMTT(20)
  <2>2. CASE ~(whole /\ msgs[m].kind = "open")
    <3>1. callbacks' = callbacks
      BY <1>1, <2>2
    <3> QED BY <2>2, <3>1
  <2> QED BY <2>1, <2>2
<1>8. /\ DOMAIN pause' = Dests /\ pause'[msgs[m].dest] /= 0
      /\ \A e \in Dests : pause'[e] = 0 => pause[e] = 0
  BY <1>1, <1>6, PacedFacts
<1>9. \A o \in 1..Len(msgs') : SentOpening(o)' =>
          /\ o \in 1..Len(msgs) /\ msgs'[o].gen = msgs[o].gen /\ msgs'[o].dest = msgs[o].dest
          /\ SentOpening(o) \/ (o = m /\ whole /\ msgs[m].kind = "open")
  <2> SUFFICES ASSUME NEW o \in 1..Len(msgs), msgs'[o].kind = "open", msgs'[o].st = "sent"
               PROVE  /\ msgs'[o].gen = msgs[o].gen /\ msgs'[o].dest = msgs[o].dest
                      /\ \/ msgs[o].kind = "open" /\ msgs[o].st = "sent"
                         \/ o = m /\ whole /\ msgs[m].kind = "open"
    BY <1>1 DEF SentOpening, IsOpening
  <2>1. CASE o = m
    BY <1>1, <2>1
  <2>2. CASE o /= m
    BY <1>1, <2>2
  <2> QED BY <2>1, <2>2
<1>10. OpeningInv'
  <2>1. \A n \in 1..Len(msgs') : n > Len(msgs) => msgs'[n].kind /= "open"
    BY <1>1, <1>3
  <2>2. "events" \in DOMAIN budget' /\ budget'.events = budget.events
    BY <1>2 DEF RInv, OpeningInv
  <2> QED BY <1>2, <1>3, <1>5, <2>1, <2>2, OpeningKept DEF RInv
<1>11. HandInv'
  <2>1. HandInv
    BY DEF RInv
  <2>2. \A h \in 1..Len(senders') : senders'[h].pc /= "work" =>
            senders'[h].records = <<>> /\ senders'[h].work = <<>>
    BY <1>2, <2>1, IdleFacts DEF HandInv
  <2>3. \A h \in 1..Len(senders') : \A i \in 1..Len(senders'[h].records) :
            Known(senders'[h].records[i])
    BY <1>5, <2>1 DEF HandInv
  <2>4. thread' /= None /\ senders'[generation'].pc = "look"
    BY <1>2, IdleFacts
  <2>5. \A i \in 1..Len(callbacks') : Known(callbacks'[i])
    BY <1>7, <2>1 DEF HandInv, Known
  <2> QED BY <1>2, <1>3, <2>1, <2>2, <2>3, <2>4, <2>5, HandKept
<1>12. ASSUME NEW o, Unrecorded(o) PROVE Unrecorded(o)'
  <2>1. CASE \E i \in 1..Len(callbacks) : callbacks[i] = o
    BY <1>7, <2>1 DEF Unrecorded
  <2>2. ASSUME NEW h \in 1..Len(senders), \E i \in 1..Len(senders[h].records) :
                   senders[h].records[i] = o
        PROVE  Unrecorded(o)'
    <3>1. h \in 1..Len(senders') /\ senders'[h].records = senders[h].records
      BY <1>2, <1>5
    <3> QED BY <2>2, <3>1 DEF Unrecorded
  <2> QED BY <1>12, <2>1, <2>2 DEF Unrecorded
<1>13. RootInv'
  <2>1. DOMAIN pause' = Dests'
    BY <1>2, <1>8, SameMessages
  <2>2. ASSUME NEW o \in 1..Len(msgs'), SentOpening(o)', msgs'[o].gen = generation
        PROVE  roots[msgs'[o].dest] = o \/ (Unrecorded(o)' /\ pause'[msgs'[o].dest] /= 0)
    <3>1. /\ o \in 1..Len(msgs) /\ msgs'[o].gen = msgs[o].gen /\ msgs'[o].dest = msgs[o].dest
          /\ SentOpening(o) \/ (o = m /\ whole /\ msgs[m].kind = "open")
      BY <1>9, <2>2
    <3>2. CASE SentOpening(o)
      <4>1. roots[msgs[o].dest] = o \/ (Unrecorded(o) /\ pause[msgs[o].dest] /= 0)
        BY <2>2, <3>1, <3>2 DEF RInv, RootInv
      <4>2. msgs[o].dest \in Dests
        BY <3>1, MessageFacts DEF IInv, NotifierTypeOK
      <4> QED BY <1>8, <1>12, <3>1, <4>1, <4>2
    <3>3. CASE o = m /\ whole /\ msgs[m].kind = "open"
      <4>1. Unrecorded(o)'
        BY <1>7, <3>3 DEF Unrecorded
      <4> QED BY <1>8, <3>1, <3>3, <4>1
    <3> QED BY <3>1, <3>2, <3>3
  <2> QED BY <1>2, <2>1, <2>2 DEF RootInv
<1>14. RequestInv'
  <2> SUFFICES ASSUME NEW h \in 1..Len(senders'), senders'[h].pc = "request",
                      NEW o \in 1..Len(msgs'), SentOpening(o)', msgs'[o].gen = h,
                      msgs'[o].dest = msgs'[senders'[h].job].dest
               PROVE  roots'[msgs'[senders'[h].job].dest] = o
    BY DEF RequestInv
  <2>1. h /= g /\ h \in 1..Len(senders) /\ senders'[h] = senders[h]
    BY <1>2, IdleFacts
  <2>2. /\ o \in 1..Len(msgs) /\ msgs'[o].gen = msgs[o].gen /\ msgs'[o].dest = msgs[o].dest
        /\ SentOpening(o) \/ o = m
    BY <1>9
  <2>3. SentOpening(o)
    BY <1>2, <1>6, <2>1, <2>2
  <2>4. PICK n \in 1..Len(msgs) : n = senders[h].job
    BY <2>1 DEF IInv, FrontInv, Asking
  <2>5. msgs'[n].dest = msgs[n].dest
    BY <1>3 DEF Alike
  <2>6. /\ senders[h].pc = "request" /\ msgs[senders[h].job].dest = msgs[n].dest
        /\ msgs[o].gen = h /\ msgs[o].dest = msgs[n].dest
    <3>1. senders'[h].job = n /\ senders[h].pc = "request"
      BY <2>1, <2>4
    <3>2. msgs'[o].gen = h /\ msgs'[o].dest = msgs'[n].dest
      BY <3>1, Zenon
    <3> QED BY <2>2, <2>4, <2>5, <3>1, <3>2, Zenon
  <2>7. roots[msgs[n].dest] = o
    <3>1. RequestInv
      BY DEF RInv
    <3> QED BY <2>1, <2>2, <2>3, <2>6, <3>1, Zenon DEF RequestInv
  <2> QED BY <1>2, <2>1, <2>4, <2>5, <2>7
<1>15. RepliesFindTheirRoot'
  <2>1. /\ DOMAIN arrived = 1..Len(arrived)
        /\ DOMAIN msgs = 1..Len(msgs) /\ DOMAIN msgs' = 1..Len(msgs')
    BY <1>2, SameMessages, MessageFacts, LenProperties DEF IInv, NotifierTypeOK
  <2> SUFFICES ASSUME NEW i \in 1..Len(arrived), NEW o \in 1..Len(msgs'),
                      msgs'[arrived[i].msg].kind \in {"reply", "edit"}, SentOpening(o)',
                      o < arrived[i].msg, msgs'[o].dest = msgs'[arrived[i].msg].dest,
                      msgs'[o].gen = msgs'[arrived[i].msg].gen
               PROVE  arrived[i].to = o
    BY <1>2, <2>1 DEF RepliesFindTheirRoot, Messages, Follows, SentOpening, IsOpening
  <2>2. PICK n \in 1..Len(msgs) : n = arrived[i].msg
    BY DEF IInv, PassedInv
  <2>3. /\ msgs'[n].kind = msgs[n].kind /\ msgs'[n].dest = msgs[n].dest
        /\ msgs'[n].gen = msgs[n].gen
    BY <1>1
  <2>4. /\ o \in 1..Len(msgs) /\ msgs'[o].gen = msgs[o].gen /\ msgs'[o].dest = msgs[o].dest
        /\ SentOpening(o) \/ o = m
    BY <1>9
  <2>5. CASE SentOpening(o)
    BY <2>1, <2>2, <2>3, <2>4, <2>5
       DEF RInv, RepliesFindTheirRoot, Messages, Follows, SentOpening, IsOpening
  <2>6. CASE o = m
    <3>1. m \in Waiting /\ msgs[m].dest = msgs[n].dest
      BY <1>2, <2>2, <2>3, <2>4, <2>6, WaitingFacts DEF IInv
    <3>2. n <= m
      BY <2>2, <3>1 DEF IInv, PassedInv
    <3> QED BY <1>3, <2>2, <2>6, <3>2
  <2> QED BY <2>4, <2>5, <2>6
<1> QED BY <1>10, <1>11, <1>13, <1>14, <1>15 DEF RInv

\* No tick passes while an opening is to be recorded, so its chat is paced until it is.
LEMMA TickOpening == ASSUME IInv, IInv', RInv, Tick PROVE RInv'
<1>1. /\ Len(msgs') = Len(msgs) /\ Evolves(msgs, msgs')
      /\ UNCHANGED <<setup, inbox, callbacks, roots, generation, thread, senders, arrived, budget>>
  BY TickFacts DEF adapter, threads
<1>2. Len(msgs) \in Nat /\ \A m \in 1..Len(msgs') : m > Len(msgs) => msgs'[m].kind /= "open"
  <2>1. Len(msgs) \in Nat
    BY MessageFacts DEF IInv, NotifierTypeOK
  <2> QED BY <1>1, <2>1
<1>3. \A g \in 1..Len(senders) : ~Busy(g)
  BY LenProperties DEF Tick, IInv, NotifierTypeOK
<1>4. callbacks = <<>>
  <2>1. thread /= None => generation \in 1..Len(senders)
    BY LenProperties DEF IInv, NotifierTypeOK
  <2> QED BY <1>3, <2>1 DEF RInv, HandInv, Busy, WorkFirst
<1>5. \A g \in 1..Len(senders) : senders[g].records = <<>>
  BY <1>3 DEF RInv, HandInv, Busy
<1>6. \A o : ~Unrecorded(o)
  BY <1>4, <1>5 DEF Unrecorded
<1>7. OpeningInv'
  <2>1. "events" \in DOMAIN budget' /\ budget'.events = budget.events
    BY <1>1 DEF RInv, OpeningInv
  <2> QED BY <1>1, <1>2, <2>1, EvolvesAlike, OpeningKept DEF RInv
<1>8. HandInv'
  <2>1. HandInv
    BY DEF RInv
  <2>2. \A h \in 1..Len(senders') : senders'[h].pc /= "work" =>
            senders'[h].records = <<>> /\ senders'[h].work = <<>>
    BY <1>1, <2>1 DEF HandInv
  <2>3. \A h \in 1..Len(senders') : \A i \in 1..Len(senders'[h].records) :
            Known(senders'[h].records[i])
    BY <1>1, <2>1 DEF HandInv
  <2>4. callbacks' = <<>> /\ \A i \in 1..Len(callbacks') : Known(callbacks'[i])
    BY <1>1, <1>4, EmptySeq
  <2> QED BY <1>1, <2>1, <2>2, <2>3, <2>4, EvolvesAlike, HandKept
<1>9. RootInv'
  <2>1. DOMAIN pause' = Dests /\ Dests' = Dests
    BY <1>1, SameMessages DEF Tick
  <2>2. ASSUME NEW o \in 1..Len(msgs'), SentOpening(o)', msgs'[o].gen = generation
        PROVE  roots[msgs'[o].dest] = o
    <3>1. o \in 1..Len(msgs) /\ SentOpening(o)
      BY <1>1, <2>2, SentBefore
    <3>2. msgs'[o].dest = msgs[o].dest /\ msgs'[o].gen = msgs[o].gen
      BY <1>1, <3>1 DEF Evolves
    <3> QED BY <1>6, <2>2, <3>1, <3>2 DEF RInv, RootInv
  <2> QED BY <1>1, <2>1, <2>2 DEF RootInv
<1>10. RequestInv'
  <2>1. \A h \in 1..Len(senders') : senders'[h].pc = "request" =>
            h \in 1..Len(senders) /\ senders[h].pc = "request"
            /\ senders'[h].job = senders[h].job
    BY <1>1
  <2> QED BY <1>1, <2>1, RequestKept DEF RInv
<1>11. RepliesFindTheirRoot'
  BY <1>1, RepliesKept DEF RInv
<1> QED BY <1>7, <1>8, <1>9, <1>10, <1>11 DEF RInv

\* The next generation starts with nothing sent: no opening of it is to be found.
LEMMA EndCloseOpening == ASSUME IInv, IInv', RInv, EndClose PROVE RInv'
<1>1. CASE thread = None
  <2>1. /\ UNCHANGED <<setup, msgs, inbox, callbacks, roots, generation, thread, senders, inFlight,
                       working, timers, arrived, budget>>
    BY <1>1 DEF EndClose
  <2>2. "events" \in DOMAIN budget' /\ budget'.events = budget.events
    BY <2>1 DEF RInv, OpeningInv
  <2> QED BY <2>1, <2>2, OutsideOpening DEF adapter, threads
<1>2. CASE thread /= None
  <2>1. /\ Len(msgs') = Len(msgs) /\ Evolves(msgs, msgs')
        /\ generation' = generation + 1 /\ thread' = None /\ inbox' = <<>> /\ callbacks' = <<>>
        /\ UNCHANGED <<setup, roots, senders, pause, arrived>>
    BY <1>2, EndCloseFacts DEF timers
  <2>2. Len(msgs) \in Nat /\ \A m \in 1..Len(msgs') : m > Len(msgs) => msgs'[m].kind /= "open"
    <3>1. Len(msgs) \in Nat
      BY MessageFacts DEF IInv, NotifierTypeOK
    <3> QED BY <2>1, <3>1
  <2>3. "events" \in DOMAIN budget' /\ budget'.events = budget.events
    <3>1. budget' = budget \/ Spend("timeouts")
      BY <1>2 DEF EndClose
    <3> QED BY <3>1 DEF Spend, RInv, OpeningInv
  <2>4. OpeningInv'
    <3>1. \A h \in 1..Len(senders') : h \in 1..Len(senders) /\ senders'[h].work = senders[h].work
      BY <2>1
    <3> QED BY <2>1, <2>2, <2>3, <3>1, EvolvesAlike, OpeningKept DEF RInv
  <2>5. HandInv'
    <3>1. HandInv
      BY DEF RInv
    <3>2. \A h \in 1..Len(senders') : senders'[h].pc /= "work" =>
              senders'[h].records = <<>> /\ senders'[h].work = <<>>
      BY <2>1, <3>1 DEF HandInv
    <3>3. \A h \in 1..Len(senders') : \A i \in 1..Len(senders'[h].records) :
              Known(senders'[h].records[i])
      BY <2>1, <3>1 DEF HandInv
    <3>4. \A i \in 1..Len(callbacks') : Known(callbacks'[i])
      BY <2>1, EmptySeq
    <3> QED BY <2>1, <3>1, <3>2, <3>3, <3>4, EvolvesAlike, HandKept
  <2>6. RootInv'
    <3>1. DOMAIN pause' = Dests'
      BY <2>1, SameMessages DEF RInv, RootInv
    <3>2. ASSUME NEW o \in 1..Len(msgs'), msgs'[o].gen = generation' PROVE FALSE
      <4>1. o \in 1..Len(msgs)
        BY <2>1
      <4>2. msgs'[o].gen = msgs[o].gen
        BY <2>1, <4>1 DEF Evolves
      <4>3. msgs[o].gen \in Nat /\ msgs[o].gen <= generation /\ generation \in Nat
        BY <4>1, MessageFacts DEF IInv, NotifierTypeOK, MessageInv
      <4> QED BY <2>1, <3>2, <4>2, <4>3
    <3> QED BY <3>1, <3>2 DEF RootInv
  <2>7. RequestInv'
    <3>1. \A h \in 1..Len(senders') : senders'[h].pc = "request" =>
              h \in 1..Len(senders) /\ senders[h].pc = "request"
              /\ senders'[h].job = senders[h].job
      BY <2>1
    <3> QED BY <2>1, <3>1, RequestKept DEF RInv
  <2>8. RepliesFindTheirRoot'
    BY <2>1, RepliesKept DEF RInv
  <2> QED BY <2>4, <2>5, <2>6, <2>7, <2>8 DEF RInv
<1> QED BY <1>1, <1>2

LEMMA InitRInv == Init => RInv
<1> SUFFICES ASSUME Init PROVE RInv
  OBVIOUS
<1>1. /\ msgs = <<>> /\ inbox = <<>> /\ callbacks = <<>> /\ senders = <<>> /\ arrived = <<>>
      /\ setup \in Setups /\ DOMAIN pause = Dests
  BY DEF Init
<1>2. setup.events \in Nat
  BY <1>1, SetupFacts
<1>3. /\ \A m \in 1..Len(msgs) : FALSE
      /\ \A i \in 1..Len(callbacks) : FALSE
      /\ \A g \in 1..Len(senders) : FALSE
      /\ \A i \in 1..Len(inbox) : FALSE
      /\ \A i \in DOMAIN arrived : FALSE
  BY <1>1, EmptySeq
<1>4. "events" \in DOMAIN budget /\ budget.events = setup.events
  BY DEF Init
<1>5. OpeningInv
  BY <1>2, <1>3, <1>4 DEF OpeningInv, NoOpening, NoneIn, NoneInHand
<1>6. HandInv
  BY <1>1, <1>3 DEF HandInv
<1>7. RootInv /\ RequestInv
  BY <1>1, <1>3 DEF RootInv, RequestInv
<1>8. RepliesFindTheirRoot
  BY <1>3 DEF RepliesFindTheirRoot
<1> QED BY <1>5, <1>6, <1>7, <1>8 DEF RInv

LEMMA SendOpening == ASSUME Paced, IInv, IInv', RInv, Send PROVE RInv'
<1>1. PICK g \in 1..Len(senders) : Sending(g)
  BY LenProperties DEF Send, IInv, NotifierTypeOK
<1>2. CASE TakeWork(g)
  BY <1>2, TakeWorkOpening
<1>3. CASE TakeDelivery(g)
  BY <1>3, TakeDeliveryOpening
<1>4. CASE Leave(g)
  BY <1>4, LeaveOpening
<1>5. CASE Record(g)
  BY <1>5, RecordOpening
<1>6. CASE RunWork(g)
  BY <1>6, RunWorkOpening
<1>7. CASE WorkDone(g)
  BY <1>7, WorkDoneOpening
<1>8. CASE Request(g)
  BY <1>8, RequestOpening
<1>9. CASE SettleClosed(g)
  BY <1>9, SettleClosedOpening
<1>10. CASE SettleSent(g)
  BY <1>10, SettleSentOpening
<1>11. CASE SettleWait(g) \/ SettleRefused(g) \/ SettleServer(g) \/ SettleUnreachable(g)
  BY <1>11, SettleOpening
<1> QED BY <1>1, <1>2, <1>3, <1>4, <1>5, <1>6, <1>7, <1>8, <1>9, <1>10, <1>11 DEF Sending

LEMMA NextRInv == ASSUME Paced PROVE IInv /\ RInv /\ [Next]_vars => RInv'
<1> SUFFICES ASSUME IInv, RInv, [Next]_vars PROVE RInv'
  OBVIOUS
<1>1. IInv' /\ "events" \in DOMAIN budget
  BY NextIInv DEF RInv, OpeningInv
<1>2. CASE SendText
  BY <1>1, <1>2, SendTextOpening
<1>3. CASE PostEvent
  BY <1>1, <1>3, PostEventOpening
<1>4. CASE Send
  BY <1>1, <1>4, SendOpening
<1>5. CASE BeginClose
  <2>1. "events" \in DOMAIN budget' /\ budget'.events = budget.events
    BY <1>1, <1>5 DEF BeginClose, Spend
  <2> QED BY <1>1, <1>5, <2>1, OutsideOpening DEF BeginClose
<1>6. CASE EndClose
  BY <1>1, <1>6, EndCloseOpening
<1>7. CASE Tick
  BY <1>1, <1>7, TickOpening
<1>8. CASE Fail
  <2>1. "events" \in DOMAIN budget' /\ budget'.events = budget.events
    BY <1>1, <1>8 DEF Fail, Spend
  <2> QED BY <1>1, <1>8, <2>1, OutsideOpening DEF Fail
<1>9. CASE Recover
  <2>1. "events" \in DOMAIN budget' /\ budget'.events = budget.events
    BY <1>1, <1>9 DEF Recover
  <2> QED BY <1>1, <1>9, <2>1, OutsideOpening DEF Recover
<1>10. CASE UNCHANGED vars
  <2>1. "events" \in DOMAIN budget' /\ budget'.events = budget.events
    BY <1>1, <1>10 DEF vars
  <2> QED BY <1>1, <1>10, <2>1, OutsideOpening DEF vars
<1> QED BY <1>2, <1>3, <1>4, <1>5, <1>6, <1>7, <1>8, <1>9, <1>10 DEF Next

\* A reply or an edit that reached a chat names the opening of its trade there, if that one
\* went out before it.
THEOREM RootsFound == ASSUME Paced PROVE Spec => []RepliesFindTheirRoot
<1>1. Init => IInv /\ RInv
  BY InitIInv, InitRInv
<1>2. IInv /\ RInv /\ [Next]_vars => (IInv /\ RInv)'
  BY NextIInv, NextRInv
<1>3. IInv /\ RInv => RepliesFindTheirRoot
  BY DEF RInv
<1> QED BY <1>1, <1>2, <1>3, PTL DEF Spec
=============================================================================
