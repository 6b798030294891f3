---------------------------- MODULE BrokersProofs ----------------------------
(***************************************************************************)
(* What talks to a venue, for all scenarios: the trader and its venue      *)
(* agree, a feed gives each closed candle that it can hear of once and in  *)
(* order, and what the venue is made to do is what was decided.            *)
(*                                                                         *)
(* The invariants of the feeds and the signed calls are stated and proved  *)
(* here, those of the pairs in their own modules.                          *)
(***************************************************************************)
EXTENDS Brokers, FiniteSetTheorems, SequenceTheorems, TLAPS

-----------------------------------------------------------------------------
(* The signed calls, for every call, position and number of faults *)

CallFaults == {"loss", "drop", "slow", "limit", "refuse", "unauthorised", "moved"}

CallTypeOK ==
    /\ leg \in Calls!Legs \cup {"none"} /\ left \subseteq Calls!Legs
    /\ attempt \in Nat /\ age \in Int /\ toClose \in Nat /\ oldest \in Int /\ position \in Int
    /\ placed \subseteq Calls!Legs
    /\ executed \in [Calls!Legs -> Nat] /\ lost \in [Calls!Legs -> Nat]

\* A leg still to come, or to be tried again, was executed only where its answer was lost; the
\* one in progress does not come again, and its query keeps the timestamp of its first attempt.
CallInv ==
    /\ CallTypeOK /\ Calls!OrdersAsDecided
    /\ \A l \in left \cup ({leg} \cap Calls!Legs) : executed[l] <= lost[l]
    /\ leg \notin left /\ stamp = 0

\* The legs of a call have a first.
LEMMA FirstIsThere == ASSUME NEW legs, legs \subseteq Calls!Legs, legs # {} PROVE Calls!FirstOf(legs) \in legs
<1>1. \E l \in legs : \A o \in legs : Calls!Order(l) <= Calls!Order(o)
  <2>1. CASE "read" \in legs
    BY <2>1 DEF Calls!Order, Calls!Legs
  <2>2. CASE "read" \notin legs /\ "entry" \in legs
    BY <2>2 DEF Calls!Order, Calls!Legs
  <2>3. CASE "read" \notin legs /\ "close" \in legs
    BY <2>3 DEF Calls!Order, Calls!Legs
  <2>4. CASE legs \cap {"read", "entry", "close"} = {} /\ "stop_loss" \in legs
    BY <2>4 DEF Calls!Order, Calls!Legs
  <2>5. CASE legs = {"take_profit"}
    <3>1. Calls!Order("take_profit") = 4
      BY DEF Calls!Order
    <3> QED
      BY <2>5, <3>1
  <2> QED
    BY <2>1, <2>2, <2>3, <2>4, <2>5 DEF Calls!Legs
<1> QED
  BY <1>1 DEF Calls!FirstOf

\* What the venue makes of a request that it takes.
LEMMA ExecutedOnce ==
    ASSUME CallInv, Calls!Trying, Calls!Execute
    PROVE  /\ leg \in Calls!Legs
           /\ executed' \in [Calls!Legs -> Nat] /\ executed' = [executed EXCEPT ![leg] = executed[leg] + 1]
           /\ position' \in Int /\ position' >= 0
           /\ oldest' \in Int /\ oldest' <= Calls!RecvWindow
<1>1. leg \in Calls!Legs /\ position \in Int /\ position >= 0 /\ toClose \in Nat /\ age \in Int /\ stamp = 0
  BY DEF CallInv, CallTypeOK, Calls!Trying, Calls!OrdersAsDecided, Calls!CloseNeverFlips
<1>2. position' \in Int /\ position' >= 0
  BY <1>1 DEF Calls!Execute, Calls!Executable, Calls!Filled, Calls!Smaller, Calls!Quantity
<1>3. oldest' \in Int /\ oldest' <= Calls!RecvWindow
  BY <1>1 DEF CallInv, CallTypeOK, Calls!OrdersAsDecided, Calls!NothingLate, Calls!Execute, Calls!Executable, Calls!Larger, Calls!RecvWindow
<1>4. executed' \in [Calls!Legs -> Nat] /\ executed' = [executed EXCEPT ![leg] = executed[leg] + 1]
  BY <1>1 DEF CallInv, CallTypeOK, Calls!Execute
<1> QED
  BY <1>1, <1>2, <1>3, <1>4

\* How a leg ends keeps everything but what the venue has done.
CallEnds == /\ leg' \in {"none", leg}
            /\ attempt' \in Nat /\ age' \in Int /\ toClose' \in Nat
            /\ left' = left /\ stamp' = stamp

\* An attempt at a leg ends it, or is followed by another; what is executed, or lost, counts.
LEMMA AttemptStep ==
    ASSUME CallInv, Calls!Trying, CallEnds,
           executed' \in [Calls!Legs -> Nat], lost' \in [Calls!Legs -> Nat],
           \A l \in Calls!Legs \ {leg} : executed'[l] = executed[l] /\ lost'[l] = lost[l],
           executed[leg] <= executed'[leg], executed'[leg] <= 1 + lost'[leg],
           leg' = leg => executed'[leg] <= lost'[leg],
           placed' \subseteq placed \cup {leg}, leg \in placed' => executed'[leg] > 0,
           oldest' \in Int, Calls!NothingLate', position' \in Int, Calls!CloseNeverFlips'
    PROVE  CallInv'
<1>1. leg \in Calls!Legs /\ leg \notin left /\ left \subseteq Calls!Legs /\ placed \subseteq Calls!Legs
  BY DEF CallInv, CallTypeOK, Calls!Trying
<1>2. executed \in [Calls!Legs -> Nat] /\ lost \in [Calls!Legs -> Nat]
  BY DEF CallInv, CallTypeOK
<1>3. CallTypeOK'
  BY <1>1 DEF CallInv, CallTypeOK, CallEnds
<1>4. \A l \in Calls!Legs : executed'[l] <= 1 + lost'[l]
  BY <1>1, <1>2 DEF CallInv, Calls!OrdersAsDecided, Calls!SentAgainOnlyUnheard
<1>5. \A l \in placed' : executed'[l] > 0
  <2> TAKE l \in placed'
  <2>1. CASE l = leg
    BY <2>1
  <2>2. CASE l # leg
    <3>1. l \in placed /\ l \in Calls!Legs \ {leg}
      BY <1>1, <2>2
    <3> QED
      BY <3>1 DEF CallInv, Calls!OrdersAsDecided, Calls!SentAgainOnlyUnheard
  <2> QED
    BY <2>1, <2>2
<1>6. \A l \in left' \cup ({leg'} \cap Calls!Legs) : executed'[l] <= lost'[l]
  <2> TAKE l \in left' \cup ({leg'} \cap Calls!Legs)
  <2>1. CASE l = leg
    <3>1. leg' = leg
      BY <1>1, <2>1 DEF CallEnds, Calls!Legs
    <3> QED
      BY <2>1, <3>1
  <2>2. CASE l # leg
    <3>1. l \in left /\ l \in Calls!Legs \ {leg}
      BY <1>1, <2>2 DEF CallEnds, Calls!Legs
    <3> QED
      BY <3>1 DEF CallInv
  <2> QED
    BY <2>1, <2>2
<1>7. leg' \notin left' /\ stamp' = 0
  BY <1>1 DEF CallInv, CallEnds, Calls!Legs
<1> QED
  BY <1>3, <1>4, <1>5, <1>6, <1>7 DEF CallInv, Calls!OrdersAsDecided, Calls!SentAgainOnlyUnheard

\* Waiting for another try, giving up, an answer and a refusal.
LEMMA AgainEnds == ASSUME CallInv, NEW seconds \in Int, Calls!Again(seconds) PROVE CallEnds /\ placed' = placed
  BY DEF CallInv, CallTypeOK, Calls!Again, CallEnds

LEMMA RaiseEnds == ASSUME CallInv, NEW error, Calls!Raise(error) PROVE CallEnds /\ placed' = placed
  BY DEF CallInv, CallTypeOK, Calls!Raise, CallEnds

LEMMA BrokenEnds == ASSUME CallInv, NEW seconds \in Int, Calls!Broken(seconds) PROVE CallEnds /\ placed' = placed
<1>1. 2 ^ attempt \in Int
  BY DEF CallInv, CallTypeOK
<1> QED
  BY <1>1, RaiseEnds, AgainEnds DEF Calls!Broken

LEMMA AnsweredEnds == ASSUME CallInv, Calls!Answered PROVE CallEnds /\ placed' \subseteq placed \cup {leg}
<1>1. CASE leg = "read" /\ position = 0
  BY <1>1, RaiseEnds DEF Calls!Answered
<1>2. CASE ~(leg = "read" /\ position = 0)
  <2>1. Calls!Done /\ toClose' = (IF leg = "read" THEN position ELSE toClose) /\ placed' \subseteq placed \cup {leg}
    BY <1>2 DEF Calls!Answered
  <2>2. toClose' \in Nat
    BY <2>1 DEF CallInv, CallTypeOK, Calls!OrdersAsDecided, Calls!CloseNeverFlips
  <2> QED
    BY <2>1, <2>2 DEF Calls!Done, CallEnds, CallInv, CallTypeOK
<1> QED
  BY <1>1, <1>2

LEMMA RefusedEnds == ASSUME CallInv, Calls!Refused PROVE CallEnds /\ placed' = placed
<1>1. CASE leg \in {"stop_loss", "take_profit"}
  BY <1>1 DEF Calls!Refused, Calls!Done, CallEnds, CallInv, CallTypeOK
<1>2. CASE leg \notin {"stop_loss", "take_profit"}
  BY <1>2, RaiseEnds DEF Calls!Refused
<1> QED
  BY <1>1, <1>2

\* An attempt that is not executed.
LEMMA UnexecutedStep ==
    ASSUME CallInv, Calls!Trying, CallEnds, placed' = placed, Calls!NoExecution,
           lost' = lost \/ lost' = [lost EXCEPT ![leg] = @ + 1]
    PROVE  CallInv'
<1>1. leg \in Calls!Legs /\ executed \in [Calls!Legs -> Nat] /\ lost \in [Calls!Legs -> Nat] /\ executed[leg] <= lost[leg]
  BY DEF CallInv, CallTypeOK, Calls!Trying
<1>2. leg \in placed' => executed'[leg] > 0
  BY DEF CallInv, Calls!OrdersAsDecided, Calls!SentAgainOnlyUnheard, Calls!NoExecution
<1>3. oldest' \in Int /\ Calls!NothingLate' /\ position' \in Int /\ Calls!CloseNeverFlips'
  BY DEF CallInv, CallTypeOK, Calls!OrdersAsDecided, Calls!NothingLate, Calls!CloseNeverFlips, Calls!NoExecution
<1>4. /\ lost' \in [Calls!Legs -> Nat] /\ lost[leg] <= lost'[leg]
      /\ \A l \in Calls!Legs \ {leg} : lost'[l] = lost[l]
  BY <1>1
<1>5. /\ executed' = executed /\ executed[leg] <= executed'[leg]
      /\ executed'[leg] <= 1 + lost'[leg] /\ executed'[leg] <= lost'[leg]
  BY <1>1, <1>4 DEF Calls!NoExecution
<1> QED
  BY <1>1, <1>2, <1>3, <1>4, <1>5, AttemptStep

\* An attempt that is executed: the leg is over, or its answer was lost.
LEMMA ExecutedStep ==
    ASSUME CallInv, Calls!Trying, CallEnds, placed' \subseteq placed \cup {leg}, Calls!Execute,
           (lost' = lost /\ leg' = "none") \/ lost' = [lost EXCEPT ![leg] = @ + 1]
    PROVE  CallInv'
<1>1. leg \in Calls!Legs /\ executed \in [Calls!Legs -> Nat] /\ lost \in [Calls!Legs -> Nat] /\ executed[leg] <= lost[leg]
  BY DEF CallInv, CallTypeOK, Calls!Trying
<1>2. executed' \in [Calls!Legs -> Nat] /\ executed'[leg] = executed[leg] + 1
      /\ \A l \in Calls!Legs \ {leg} : executed'[l] = executed[l]
  BY <1>1, ExecutedOnce
<1>3. oldest' \in Int /\ Calls!NothingLate' /\ position' \in Int /\ Calls!CloseNeverFlips'
  BY ExecutedOnce DEF Calls!NothingLate, Calls!CloseNeverFlips
<1>4. /\ lost' \in [Calls!Legs -> Nat] /\ \A l \in Calls!Legs \ {leg} : lost'[l] = lost[l]
      /\ (lost'[leg] = lost[leg] /\ leg' = "none") \/ lost'[leg] = lost[leg] + 1
  BY <1>1
<1>5. leg' = leg => executed'[leg] <= lost'[leg]
  BY <1>1, <1>2, <1>4 DEF Calls!Legs
<1>6. /\ executed[leg] <= executed'[leg] /\ executed'[leg] <= 1 + lost'[leg]
      /\ leg \in placed' => executed'[leg] > 0
  BY <1>1, <1>2, <1>4
<1> QED
  BY <1>2, <1>3, <1>4, <1>5, <1>6, AttemptStep

LEMMA CallNextKeeps == ASSUME CallInv, [Calls!Next]_(Calls!vars) PROVE CallInv'
<1>1. CASE UNCHANGED Calls!vars
  BY <1>1 DEF Calls!vars, CallInv, CallTypeOK, Calls!OrdersAsDecided, Calls!SentAgainOnlyUnheard, Calls!NothingLate, Calls!CloseNeverFlips
<1>2. CASE Calls!Sign
  <2>1. leg' \in left /\ left' = left \ {leg'} /\ leg' \in Calls!Legs
    BY <1>2, FirstIsThere DEF Calls!Sign, CallInv, CallTypeOK
  <2>2. UNCHANGED <<toClose, placed, position, executed, lost, oldest>> /\ attempt' = 0 /\ age' = 0 /\ stamp' = 0
    BY <1>2 DEF Calls!Sign
  <2>3. CallTypeOK'
    BY <2>1, <2>2 DEF CallInv, CallTypeOK
  <2>4. Calls!OrdersAsDecided'
    BY <2>2 DEF CallInv, Calls!OrdersAsDecided, Calls!SentAgainOnlyUnheard, Calls!NothingLate, Calls!CloseNeverFlips
  <2>5. \A l \in left' \cup ({leg'} \cap Calls!Legs) : executed'[l] <= lost'[l]
    BY <2>1, <2>2 DEF CallInv
  <2> QED
    BY <2>1, <2>2, <2>3, <2>4, <2>5 DEF CallInv
<1>3. CASE Calls!Accepted
  <2>1. Calls!Trying /\ Calls!Execute /\ Calls!Answered /\ lost' = lost /\ leg' = "none"
    BY <1>3 DEF Calls!Accepted, Calls!Answered, Calls!Raise, Calls!Done
  <2> QED
    BY <2>1, AnsweredEnds, ExecutedStep
<1>4. CASE Calls!NotReached
  <2>1. Calls!Trying /\ Calls!NoExecution /\ Calls!Broken(0) /\ lost' = lost
    BY <1>4 DEF Calls!NotReached
  <2> QED
    BY <2>1, BrokenEnds, UnexecutedStep
<1>5. CASE Calls!AnswerLost
  <2>1. /\ Calls!Trying /\ (Calls!Broken(0) \/ Calls!Broken(Calls!Timeout))
        /\ Calls!Execute \/ Calls!NoExecution
        /\ lost' = [lost EXCEPT ![leg] = @ + 1]
    BY <1>5 DEF Calls!AnswerLost
  <2>2. CallEnds /\ placed' = placed
    BY <2>1, BrokenEnds DEF Calls!Timeout
  <2> QED
    BY <2>1, <2>2, ExecutedStep, UnexecutedStep
<1>6. CASE Calls!RateLimited
  <2>1. Calls!Trying /\ Calls!NoExecution /\ lost' = lost
    BY <1>6 DEF Calls!RateLimited
  <2>2. PICK seconds \in Calls!RetryAfter :
           IF attempt = Calls!MaxAttempts - 1 THEN Calls!Raise("ConnectionFailed") ELSE Calls!Again(seconds)
    BY <1>6 DEF Calls!RateLimited
  <2>3. CallEnds /\ placed' = placed
    BY <2>2, RaiseEnds, AgainEnds DEF Calls!RetryAfter
  <2> QED
    BY <2>1, <2>3, UnexecutedStep
<1>7. CASE Calls!Rejected
  <2>1. Calls!Trying /\ lost' = lost
    BY <1>7 DEF Calls!Rejected
  <2>2. ((Calls!Execute \/ Calls!NoExecution) /\ Calls!Refused) \/ (Calls!NoExecution /\ Calls!Raise("AuthenticationError"))
    BY <1>7 DEF Calls!Rejected, Calls!ServerError
  <2>3. CallEnds /\ placed' = placed /\ leg' = "none"
    BY <2>2, RaiseEnds, RefusedEnds DEF Calls!Refused, Calls!Raise, Calls!Done
  <2> QED
    BY <2>1, <2>2, <2>3, ExecutedStep, UnexecutedStep
<1>8. CASE Calls!Moved
  <2>1. UNCHANGED <<leg, left, attempt, age, stamp, toClose, placed, executed, lost, oldest>>
    BY <1>8 DEF Calls!Moved
  <2>2. position \in Int /\ position > 0 /\ position' = position - 1
    BY <1>8 DEF Calls!Moved, CallInv, CallTypeOK
  <2>3. position' \in Int /\ position' >= 0
    BY <2>2
  <2> QED
    BY <2>1, <2>3 DEF CallInv, CallTypeOK, Calls!OrdersAsDecided, Calls!SentAgainOnlyUnheard, Calls!NothingLate, Calls!CloseNeverFlips
<1> QED
  BY <1>1, <1>2, <1>3, <1>4, <1>5, <1>6, <1>7, <1>8 DEF Calls!Next

LEMMA CallInitHolds == ASSUME CallSetups \subseteq Calls!Setup, Calls!Init PROVE CallInv
<1>1. left \subseteq Calls!Legs /\ position \in Nat
  <2>1. setup.legs \subseteq Calls!Legs /\ setup.position \in Nat
    BY DEF Calls!Init, Calls!Setup
  <2> QED
    BY <2>1 DEF Calls!Init
<1>2. /\ leg = "none" /\ attempt = 0 /\ age = 0 /\ stamp = 0 /\ toClose = 0 /\ placed = {} /\ oldest = 0
      /\ executed = [l \in Calls!Legs |-> 0] /\ lost = [l \in Calls!Legs |-> 0]
  BY DEF Calls!Init
<1>3. CallTypeOK
  BY <1>1, <1>2 DEF CallTypeOK
<1>4. Calls!OrdersAsDecided
  BY <1>1, <1>2 DEF Calls!OrdersAsDecided, Calls!SentAgainOnlyUnheard, Calls!NothingLate, Calls!CloseNeverFlips, Calls!RecvWindow
<1>5. leg \notin left /\ \A l \in Calls!Legs : executed[l] <= lost[l]
  BY <1>1, <1>2 DEF Calls!Legs
<1> QED
  BY <1>1, <1>2, <1>3, <1>4, <1>5 DEF CallInv

-----------------------------------------------------------------------------
(* The feeds, for every transport, length of the tail, life of a key and number of faults *)

Rows == [n : Nat, version : {"early", "late", "closed"}]

FeedTypeOK ==
    /\ setup \in Streams!Setup
    /\ newest \in Nat /\ newest > 0 /\ version \in {0, 1} /\ link \in {"up", "down"}
    /\ unheard \in Seq(Rows) /\ inHand \in Seq(Rows) /\ given \in Seq(Rows)
    /\ state = [closed |-> state.closed, forming |-> state.forming] /\ state.closed \in Int
    /\ start \in Int /\ silent \subseteq Nat

\* What is given, is to be given and was sent is said in the order of the candles.
Ordered(s) == \A i, j \in 1..Len(s) : i < j => Streams!Before(s[i], s[j])
Ahead(s, t) == \A i \in 1..Len(s), j \in 1..Len(t) : Streams!Before(s[i], t[j])
OrderInv == /\ Ordered(given) /\ Ordered(inHand) /\ Ordered(unheard)
            /\ Ahead(given, inHand) /\ Ahead(given, unheard) /\ Ahead(inHand, unheard)

\* Nothing is said of a candle that has not opened, or of its close before it closes.
Past(s) == \A i \in 1..Len(s) : s[i].n <= newest /\ (Streams!IsClosed(s[i]) => s[i].n < newest)
PastInv == /\ Past(given) /\ Past(inHand) /\ Past(unheard)
           /\ start # Streams!None => start \in 1..newest

\* Before the subscription takes hold there is nothing to say.
StartInv == /\ start = Streams!None => given = <<>> /\ inHand = <<>> /\ unheard = <<>>
            /\ start = Streams!None /\ ~Streams!Polls => link = "down"

\* What closed since is given, in hand, on its way, or was out of hearing.
SocketInv ==
    ~Streams!Polls => /\ Len(inHand) <= 1
                      /\ start # Streams!None => \A m \in start..(newest - 1) :
                             m \in Streams!ClosedIn(given) \/ m \in Streams!ClosedIn(inHand) \/ m \in Streams!ClosedIn(unheard) \/ m \in silent

\* Up to the last closed candle that the poller emitted, each is given or was out of the tail.
EmittedInv ==
    Streams!Polls => /\ unheard = <<>> /\ (start = Streams!None <=> state.closed = Streams!None)
                     /\ start # Streams!None =>
                           /\ start - 1 <= state.closed /\ state.closed < newest
                           /\ \A m \in start..state.closed : m \in Streams!ClosedIn(given) \/ m \in silent

\* A candle the poller stepped over had left the tail when it spoke of a later one.
SteppedOver(n) == \A m \in (state.closed + 1)..(n - 1) : m <= n - setup.tail
PassedInv ==
    Streams!Polls => \A i \in 1..Len(given) :
                 \/ given[i].n <= state.closed
                 \/ ~Streams!IsClosed(given[i]) /\ SteppedOver(given[i].n)

\* The rows in hand are consecutive, only the last may be forming, and behind the first of
\* them nothing is left to say.
HandInv ==
    Streams!Polls /\ inHand # <<>> =>
        /\ state.closed < inHand[1].n
        /\ \A m \in (state.closed + 1)..(inHand[1].n - 1) : m \in silent
        /\ Streams!IsClosed(inHand[1]) \/ SteppedOver(inHand[1].n)
        /\ \A i \in 1..Len(inHand) : /\ inHand[i].n = inHand[1].n + i - 1
                                     /\ Streams!IsClosed(inHand[i]) \/ i = Len(inHand)

FeedInv == /\ FeedTypeOK /\ OrderInv /\ PastInv /\ StartInv
           /\ SocketInv /\ EmittedInv /\ PassedInv /\ HandInv

-----------------------------------------------------------------------------
(* The operators of the feeds *)

LEMMA ClosedInIs ==
    ASSUME NEW s \in Seq(Rows), NEW m
    PROVE  m \in Streams!ClosedIn(s) <=> \E i \in 1..Len(s) : Streams!IsClosed(s[i]) /\ s[i].n = m
<1>1. Streams!ToSet(s) = {s[i] : i \in 1..Len(s)}
  BY DEF Streams!ToSet
<1> QED
  BY <1>1 DEF Streams!ClosedIn

LEMMA ClosedInTypes == ASSUME NEW s \in Seq(Rows) PROVE Streams!ClosedIn(s) \subseteq Nat
<1> SUFFICES ASSUME NEW m \in Streams!ClosedIn(s) PROVE m \in Nat
  OBVIOUS
<1>1. PICK i \in 1..Len(s) : s[i].n = m
  BY ClosedInIs
<1>2. s[i] \in Rows
  OBVIOUS
<1> QED
  BY <1>1, <1>2 DEF Rows

\* A row that joins the end.
LEMMA ClosedInAppend ==
    ASSUME NEW s \in Seq(Rows), NEW r \in Rows, NEW m
    PROVE  m \in Streams!ClosedIn(Append(s, r)) <=> m \in Streams!ClosedIn(s) \/ (Streams!IsClosed(r) /\ r.n = m)
<1> DEFINE t == Append(s, r)
<1>1. t \in Seq(Rows) /\ Len(t) = Len(s) + 1 /\ t[Len(s) + 1] = r /\ \A i \in 1..Len(s) : t[i] = s[i]
  OBVIOUS
<1>2. Len(s) \in Nat
  OBVIOUS
<1> HIDE DEF t
<1>3. ASSUME m \in Streams!ClosedIn(t) PROVE m \in Streams!ClosedIn(s) \/ (Streams!IsClosed(r) /\ r.n = m)
  <2>1. PICK i \in 1..Len(t) : Streams!IsClosed(t[i]) /\ t[i].n = m
    BY <1>1, <1>3, ClosedInIs
  <2>2. CASE i = Len(s) + 1
    BY <1>1, <2>1, <2>2
  <2>3. CASE i \in 1..Len(s)
    BY <1>1, <2>1, <2>3, ClosedInIs
  <2> QED
    BY <1>1, <1>2, <2>2, <2>3
<1>4. ASSUME m \in Streams!ClosedIn(s) PROVE m \in Streams!ClosedIn(t)
  <2>1. PICK i \in 1..Len(s) : Streams!IsClosed(s[i]) /\ s[i].n = m
    BY <1>4, ClosedInIs
  <2>2. i \in 1..Len(t) /\ t[i] = s[i]
    BY <1>1, <1>2
  <2> QED
    BY <1>1, <2>1, <2>2, ClosedInIs
<1>5. ASSUME Streams!IsClosed(r), r.n = m PROVE m \in Streams!ClosedIn(t)
  <2>1. Len(s) + 1 \in 1..Len(t)
    BY <1>1, <1>2
  <2> QED
    BY <1>1, <1>5, <2>1, ClosedInIs
<1> QED
  BY <1>3, <1>4, <1>5 DEF t

\* The first row and the others.
LEMMA ClosedInTail ==
    ASSUME NEW s \in Seq(Rows), s # <<>>, NEW m
    PROVE  m \in Streams!ClosedIn(s) <=> m \in Streams!ClosedIn(Tail(s)) \/ (Streams!IsClosed(Head(s)) /\ Head(s).n = m)
<1> DEFINE t == Tail(s)
<1>1. t \in Seq(Rows) /\ Len(t) = Len(s) - 1 /\ Head(s) = s[1] /\ \A i \in 1..Len(t) : t[i] = s[i + 1]
  OBVIOUS
<1>2. Len(s) \in Nat /\ Len(s) > 0
  OBVIOUS
<1> HIDE DEF t
<1>3. ASSUME m \in Streams!ClosedIn(s), ~(Streams!IsClosed(s[1]) /\ s[1].n = m) PROVE m \in Streams!ClosedIn(t)
  <2>1. PICK i \in 1..Len(s) : Streams!IsClosed(s[i]) /\ s[i].n = m
    BY <1>3, ClosedInIs
  <2>2. i - 1 \in 1..Len(t) /\ t[i - 1] = s[i]
    <3>1. i # 1
      BY <1>3, <2>1
    <3>2. i - 1 \in 1..Len(t) /\ (i - 1) + 1 = i
      BY <1>1, <1>2, <3>1
    <3> QED
      BY <1>1, <3>2
  <2> QED
    BY <1>1, <2>1, <2>2, ClosedInIs
<1>4. ASSUME m \in Streams!ClosedIn(t) PROVE m \in Streams!ClosedIn(s)
  <2>1. PICK i \in 1..Len(t) : Streams!IsClosed(t[i]) /\ t[i].n = m
    BY <1>1, <1>4, ClosedInIs
  <2>2. i + 1 \in 1..Len(s) /\ s[i + 1] = t[i]
    BY <1>1, <1>2
  <2> QED
    BY <2>1, <2>2, ClosedInIs
<1>5. ASSUME Streams!IsClosed(s[1]), s[1].n = m PROVE m \in Streams!ClosedIn(s)
  BY <1>2, <1>5, ClosedInIs
<1> QED
  BY <1>1, <1>3, <1>4, <1>5 DEF t

LEMMA NoneClosedIn == ASSUME NEW m PROVE m \notin Streams!ClosedIn(<<>>)
<1>1. Streams!ToSet(<<>>) = {}
  BY DEF Streams!ToSet
<1> QED
  BY <1>1 DEF Streams!ClosedIn

\* Where the rows of a tail and of an extended sequence come from.
LEMMA TailRows ==
    ASSUME NEW s \in Seq(Rows), s # <<>>
    PROVE  /\ Tail(s) \in Seq(Rows) /\ Len(Tail(s)) = Len(s) - 1 /\ Len(s) \in Nat /\ Len(s) > 0
           /\ Head(s) = s[1] /\ Head(s) \in Rows
           /\ \A i \in 1..Len(Tail(s)) : i + 1 \in 1..Len(s) /\ Tail(s)[i] = s[i + 1]
<1>1. Tail(s) \in Seq(Rows) /\ Len(Tail(s)) = Len(s) - 1 /\ Len(s) \in Nat /\ Len(s) > 0 /\ Head(s) = s[1]
  OBVIOUS
<1>2. \A i \in 1..Len(Tail(s)) : i + 1 \in 1..Len(s) /\ Tail(s)[i] = s[i + 1]
  BY <1>1
<1> QED
  BY <1>1, <1>2

LEMMA AppendRows ==
    ASSUME NEW s \in Seq(Rows), NEW r \in Rows
    PROVE  /\ Append(s, r) \in Seq(Rows)
           /\ \A i \in 1..Len(Append(s, r)) :
                 \/ i \in 1..Len(s) /\ Append(s, r)[i] = s[i]
                 \/ i = Len(s) + 1 /\ Append(s, r)[i] = r
  OBVIOUS

\* The order is kept when the first row goes, and when a row joins that no other is behind.
LEMMA OrderedTail == ASSUME NEW s \in Seq(Rows), s # <<>>, Ordered(s) PROVE Ordered(Tail(s))
  BY TailRows DEF Ordered

LEMMA OrderedAppend ==
    ASSUME NEW s \in Seq(Rows), NEW r \in Rows, Ordered(s), \A i \in 1..Len(s) : Streams!Before(s[i], r)
    PROVE  Ordered(Append(s, r))
<1> DEFINE t == Append(s, r)
<1>1. \A i \in 1..Len(t) : (i \in 1..Len(s) /\ t[i] = s[i]) \/ (i = Len(s) + 1 /\ t[i] = r)
  BY AppendRows
<1>2. Len(s) \in Nat
  OBVIOUS
<1> HIDE DEF t
<1>3. ASSUME NEW i \in 1..Len(t), NEW j \in 1..Len(t), i < j PROVE Streams!Before(t[i], t[j])
  <2>1. i \in 1..Len(s) /\ t[i] = s[i]
    BY <1>1, <1>2, <1>3
  <2> QED
    BY <1>1, <1>3, <2>1 DEF Ordered
<1> QED
  BY <1>3 DEF Ordered, t

LEMMA AheadTail ==
    ASSUME NEW s \in Seq(Rows), NEW t \in Seq(Rows), Ahead(s, t)
    PROVE  /\ t # <<>> => Ahead(s, Tail(t))
           /\ s # <<>> => Ahead(Tail(s), t)
  BY TailRows DEF Ahead

LEMMA AheadAppend ==
    ASSUME NEW s \in Seq(Rows), NEW t \in Seq(Rows), NEW r \in Rows, Ahead(s, t)
    PROVE  /\ (\A i \in 1..Len(s) : Streams!Before(s[i], r)) => Ahead(s, Append(t, r))
           /\ (\A i \in 1..Len(t) : Streams!Before(r, t[i])) => Ahead(Append(s, r), t)
  BY AppendRows DEF Ahead

\* The first row of an ordered sequence is before the others.
LEMMA HeadBefore ==
    ASSUME NEW s \in Seq(Rows), s # <<>>, Ordered(s)
    PROVE  \A i \in 1..Len(Tail(s)) : Streams!Before(Head(s), Tail(s)[i])
<1> SUFFICES ASSUME NEW i \in 1..Len(Tail(s)) PROVE Streams!Before(Head(s), Tail(s)[i])
  OBVIOUS
<1>1. Head(s) = s[1] /\ i + 1 \in 1..Len(s) /\ Tail(s)[i] = s[i + 1] /\ 1 \in 1..Len(s) /\ 1 < i + 1
  BY TailRows
<1> QED
  BY <1>1 DEF Ordered

LEMMA EmptyOrder == Ordered(<<>>) /\ \A s : Ahead(s, <<>>) /\ Ahead(<<>>, s) /\ Past(<<>>)
<1>1. 1..Len(<<>>) = {}
  OBVIOUS
<1> QED
  BY <1>1 DEF Ordered, Ahead, Past

LEMMA SingleRow ==
    ASSUME NEW r \in Rows
    PROVE  /\ <<r>> \in Seq(Rows) /\ Len(<<r>>) = 1 /\ <<r>>[1] = r
           /\ Ordered(<<r>>)
<1>1. <<r>> \in Seq(Rows) /\ Len(<<r>>) = 1 /\ <<r>>[1] = r
  OBVIOUS
<1> QED
  BY <1>1 DEF Ordered

-----------------------------------------------------------------------------
(* What a step leaves alone *)

LEMMA OrderKept == ASSUME OrderInv, UNCHANGED <<unheard, inHand, given>> PROVE OrderInv'
  BY DEF OrderInv, Ordered, Ahead

LEMMA PastKept ==
    ASSUME FeedTypeOK, PastInv, newest' \in Nat, newest' >= newest,
           UNCHANGED <<unheard, inHand, given, start>>
    PROVE  PastInv'
<1>1. ASSUME NEW s \in Seq(Rows), Past(s)
      PROVE  \A i \in 1..Len(s) : s[i].n <= newest' /\ (Streams!IsClosed(s[i]) => s[i].n < newest')
  <2> SUFFICES ASSUME NEW i \in 1..Len(s)
               PROVE  s[i].n <= newest' /\ (Streams!IsClosed(s[i]) => s[i].n < newest')
    OBVIOUS
  <2>1. s[i] \in Rows /\ s[i].n <= newest /\ (Streams!IsClosed(s[i]) => s[i].n < newest)
    BY <1>1 DEF Past
  <2>2. s[i].n \in Nat /\ newest \in Nat
    BY <2>1 DEF Rows, FeedTypeOK
  <2> QED
    BY <2>1, <2>2
<1>2. start # Streams!None => start \in 1..newest'
  BY DEF FeedTypeOK, PastInv
<1> QED
  BY <1>1, <1>2 DEF PastInv, Past, FeedTypeOK

\* The poller's part, when no row is moved and the clock of candles does not run back.
LEMMA PollerKept ==
    ASSUME FeedTypeOK, EmittedInv, PassedInv, HandInv, newest' \in Nat, newest' >= newest,
           UNCHANGED <<setup, unheard, inHand, state, given, start>>, silent \subseteq silent'
    PROVE  EmittedInv' /\ PassedInv' /\ HandInv'
<1>1. EmittedInv'
  <2>1. newest \in Nat /\ state.closed \in Int
    BY DEF FeedTypeOK
  <2>2. state.closed < newest => state.closed < newest'
    BY <2>1
  <2> QED
    BY <2>2 DEF EmittedInv, Streams!Polls, Streams!None
<1>2. PassedInv'
  BY DEF PassedInv, Streams!Polls, SteppedOver
<1>3. HandInv'
  BY DEF HandInv, Streams!Polls, SteppedOver
<1> QED
  BY <1>1, <1>2, <1>3

LEMMA QuietStep ==
    ASSUME FeedInv, UNCHANGED <<setup, newest, link, unheard, inHand, state, given, start, silent>>,
           version' \in {0, 1}
    PROVE  FeedInv'
<1>1. FeedTypeOK /\ OrderInv /\ PastInv /\ StartInv /\ SocketInv /\ EmittedInv /\ PassedInv /\ HandInv
  BY DEF FeedInv
<1>2. FeedTypeOK' /\ newest' \in Nat /\ newest' >= newest
  BY <1>1 DEF FeedTypeOK
<1>3. OrderInv' /\ PastInv'
  BY <1>1, <1>2, OrderKept, PastKept
<1>4. StartInv' /\ SocketInv'
  BY <1>1 DEF StartInv, SocketInv, Streams!Polls
<1>5. EmittedInv' /\ PassedInv' /\ HandInv'
  BY <1>1, <1>2, PollerKept
<1> QED
  BY <1>2, <1>3, <1>4, <1>5 DEF FeedInv

\* The socket goes down.
LEMMA CutStep ==
    ASSUME FeedInv, ~Streams!Polls, Streams!Cut, UNCHANGED <<setup, newest, version, inHand, state, given, start>>
    PROVE  FeedInv'
<1>1. FeedTypeOK /\ OrderInv /\ PastInv /\ StartInv /\ SocketInv
  BY DEF FeedInv
<1>2. /\ link' = "down" /\ unheard' = <<>> /\ silent' = silent \cup Streams!ClosedIn(unheard)
      /\ Streams!ClosedIn(unheard) \subseteq Nat /\ ~Streams!Polls'
  BY <1>1, ClosedInTypes DEF Streams!Cut, FeedTypeOK, Streams!Polls
<1>3. FeedTypeOK'
  <2>1. <<>> \in Seq(Rows)
    OBVIOUS
  <2>2. silent' \subseteq Nat
    BY <1>1, <1>2 DEF FeedTypeOK
  <2> QED
    BY <1>1, <1>2, <2>1, <2>2 DEF FeedTypeOK
<1>4. OrderInv'
  BY <1>1, <1>2, EmptyOrder DEF OrderInv, Ordered, Ahead
<1>5. PastInv'
  BY <1>1, <1>2, EmptyOrder DEF PastInv, Past
<1>6. StartInv'
  BY <1>1, <1>2 DEF StartInv
<1>7. SocketInv'
  BY <1>1, <1>2 DEF SocketInv
<1> QED
  BY <1>2, <1>3, <1>4, <1>5, <1>6, <1>7 DEF FeedInv, EmittedInv, PassedInv, HandInv

-----------------------------------------------------------------------------
(* The venue *)

\* What the socket is told comes behind all that was said, and is not of the future.
LEMMA ToldStep ==
    ASSUME FeedInv, ~Streams!Polls, link = "up", NEW row \in Rows,
           unheard' = Append(unheard, row), UNCHANGED <<setup, link, inHand, state, given, start>>,
           newest' \in Nat, newest' >= newest, version' \in {0, 1}, silent' = silent,
           row.n = newest, Streams!IsClosed(row) => newest' = newest + 1, ~Streams!IsClosed(row) => newest' = newest
    PROVE  FeedInv'
<1>1. FeedTypeOK /\ OrderInv /\ PastInv /\ StartInv /\ SocketInv
  BY DEF FeedInv
<1>2. /\ unheard \in Seq(Rows) /\ given \in Seq(Rows) /\ inHand \in Seq(Rows) /\ newest \in Nat
      /\ ~Streams!Polls' /\ start \in Int
  BY <1>1 DEF FeedTypeOK, Streams!Polls
<1>3. ASSUME NEW s \in Seq(Rows), Past(s) PROVE \A i \in 1..Len(s) : Streams!Before(s[i], row)
  <2> SUFFICES ASSUME NEW i \in 1..Len(s) PROVE Streams!Before(s[i], row)
    OBVIOUS
  <2>1. s[i] \in Rows /\ s[i].n <= newest /\ (Streams!IsClosed(s[i]) => s[i].n < newest)
    BY <1>3 DEF Past
  <2>2. s[i].n \in Nat
    BY <2>1 DEF Rows
  <2>3. s[i].n < newest \/ (s[i].n = newest /\ ~Streams!IsClosed(s[i]))
    BY <1>2, <2>1, <2>2
  <2> QED
    BY <2>3 DEF Streams!Before
<1>4. FeedTypeOK'
  <2>1. unheard' \in Seq(Rows) /\ newest' \in Nat /\ newest' > 0
    BY <1>1, <1>2, AppendRows DEF FeedTypeOK
  <2> QED
    BY <1>1, <2>1 DEF FeedTypeOK
<1>5. OrderInv'
  <2>1. Ordered(unheard') /\ Ahead(given, unheard') /\ Ahead(inHand, unheard')
    BY <1>1, <1>2, <1>3, OrderedAppend, AheadAppend DEF OrderInv, PastInv
  <2> QED
    BY <1>1, <2>1 DEF OrderInv, Ordered, Ahead
<1>6. PastInv'
  <2>1. ASSUME NEW s \in Seq(Rows), Past(s)
        PROVE  \A i \in 1..Len(s) : s[i].n <= newest' /\ (Streams!IsClosed(s[i]) => s[i].n < newest')
    <3> SUFFICES ASSUME NEW i \in 1..Len(s)
                 PROVE  s[i].n <= newest' /\ (Streams!IsClosed(s[i]) => s[i].n < newest')
      OBVIOUS
    <3>1. s[i] \in Rows /\ s[i].n <= newest /\ (Streams!IsClosed(s[i]) => s[i].n < newest)
      BY <2>1 DEF Past
    <3>2. s[i].n \in Nat
      BY <3>1 DEF Rows
    <3> QED
      BY <1>2, <3>1, <3>2
  <2>2. row.n <= newest' /\ (Streams!IsClosed(row) => row.n < newest')
    BY <1>2
  <2>3. \A i \in 1..Len(unheard') : unheard'[i].n <= newest' /\ (Streams!IsClosed(unheard'[i]) => unheard'[i].n < newest')
    BY <1>1, <1>2, <2>1, <2>2, AppendRows DEF PastInv
  <2>4. start' # Streams!None => start' \in 1..newest'
    BY <1>1, <1>2 DEF PastInv
  <2> QED
    BY <1>1, <1>2, <2>1, <2>3, <2>4 DEF PastInv, Past
<1>7. StartInv'
  BY <1>1 DEF StartInv
<1>8. SocketInv'
  <2>1. ASSUME start # Streams!None, NEW m \in start..(newest' - 1)
        PROVE  m \in Streams!ClosedIn(given) \/ m \in Streams!ClosedIn(inHand) \/ m \in Streams!ClosedIn(unheard') \/ m \in silent
    <3>1. CASE m \in start..(newest - 1)
      BY <1>1, <1>2, <2>1, <3>1, ClosedInAppend DEF SocketInv
    <3>2. CASE m = newest /\ newest' = newest + 1
      BY <1>2, <3>2, ClosedInAppend
    <3>3. newest' = newest + 1 \/ newest' = newest
      OBVIOUS
    <3>4. newest \in Nat /\ start \in Int
      BY <1>2
    <3>5. m \in start..(newest - 1) \/ (m = newest /\ newest' = newest + 1)
      <4>1. CASE newest' = newest + 1
        BY <3>4, <4>1
      <4>2. CASE newest' = newest
        BY <3>4, <4>2
      <4> QED
        BY <3>3, <4>1, <4>2
    <3> QED
      BY <3>1, <3>2, <3>5
  <2> QED
    BY <1>1, <1>2, <2>1 DEF SocketInv
<1> QED
  BY <1>2, <1>4, <1>5, <1>6, <1>7, <1>8 DEF FeedInv, EmittedInv, PassedInv, HandInv

\* A candle that closes unheard of is out of hearing, or for the poller to find.
LEMMA UntoldStep ==
    ASSUME FeedInv, Streams!Polls \/ link # "up", newest' = newest + 1, version' \in {0, 1},
           UNCHANGED <<setup, link, unheard, inHand, state, given, start>>,
           ~Streams!Polls => silent' = silent \cup {newest}, Streams!Polls => silent' = silent
    PROVE  FeedInv'
<1>1. FeedTypeOK /\ OrderInv /\ PastInv /\ StartInv /\ SocketInv /\ EmittedInv /\ PassedInv /\ HandInv
  BY DEF FeedInv
<1>2. newest \in Nat /\ newest' \in Nat /\ newest' >= newest /\ start \in Int /\ silent' \subseteq Nat
      /\ silent \subseteq silent' /\ (Streams!Polls' <=> Streams!Polls)
  <2>1. newest \in Nat /\ start \in Int /\ silent \subseteq Nat
    BY <1>1 DEF FeedTypeOK
  <2>2. newest' \in Nat /\ newest' >= newest
    BY <2>1
  <2>3. silent' \subseteq Nat /\ silent \subseteq silent'
    BY <2>1
  <2>4. Streams!Polls' <=> Streams!Polls
    BY DEF Streams!Polls
  <2> QED
    BY <2>1, <2>2, <2>3, <2>4
<1>3. FeedTypeOK'
  <2>1. newest' \in Nat /\ newest' > 0
    BY <1>1 DEF FeedTypeOK
  <2> QED
    BY <1>1, <1>2, <2>1 DEF FeedTypeOK
<1>4. OrderInv' /\ PastInv'
  BY <1>1, <1>2, OrderKept, PastKept
<1>5. StartInv'
  BY <1>1, <1>2 DEF StartInv
<1>6. SocketInv'
  <2>1. ASSUME ~Streams!Polls, start # Streams!None, NEW m \in start..(newest' - 1)
        PROVE  m \in Streams!ClosedIn(given) \/ m \in Streams!ClosedIn(inHand) \/ m \in Streams!ClosedIn(unheard) \/ m \in silent'
    <3>1. CASE m \in start..(newest - 1)
      BY <1>1, <1>2, <2>1, <3>1 DEF SocketInv
    <3>2. CASE m = newest
      BY <2>1, <3>2
    <3> QED
      BY <1>2, <2>1, <3>1, <3>2
  <2> QED
    BY <1>1, <1>2, <2>1 DEF SocketInv
<1>7. EmittedInv' /\ PassedInv' /\ HandInv'
  BY <1>1, <1>2, PollerKept
<1> QED
  BY <1>3, <1>4, <1>5, <1>6, <1>7 DEF FeedInv

LEMMA HappenStep == ASSUME FeedInv, Streams!Happen PROVE FeedInv'
<1>1. newest \in Nat /\ newest' = newest + 1 /\ version' = 0 /\ Streams!Tell(Streams!Closed(newest))
  BY DEF Streams!Happen, FeedInv, FeedTypeOK
<1>2. Streams!Closed(newest) \in Rows /\ Streams!Closed(newest).n = newest /\ Streams!IsClosed(Streams!Closed(newest))
  BY <1>1 DEF Streams!Closed, Streams!Row, Rows, Streams!IsClosed
<1>3. UNCHANGED <<setup, link, inHand, state, given, start>>
  BY DEF Streams!Happen
<1>4. CASE ~Streams!Polls /\ link = "up"
  <2>1. unheard' = Append(unheard, Streams!Closed(newest)) /\ silent' = silent
    BY <1>1, <1>4 DEF Streams!Tell
  <2> QED
    BY <1>1, <1>2, <1>3, <1>4, <2>1, ToldStep
<1>5. CASE Streams!Polls \/ link # "up"
  <2>1. unheard' = unheard /\ (~Streams!Polls => silent' = silent \cup {newest}) /\ (Streams!Polls => silent' = silent)
    BY <1>1, <1>2, <1>5 DEF Streams!Tell
  <2> QED
    BY <1>1, <1>3, <1>5, <2>1, UntoldStep
<1> QED
  BY <1>4, <1>5

LEMMA ReviseStep == ASSUME FeedInv, Streams!Revise PROVE FeedInv'
<1>1. newest \in Nat /\ version' = 1 /\ Streams!Tell(Streams!Forming(newest, 1))
  BY DEF Streams!Revise, FeedInv, FeedTypeOK
<1>2. Streams!Forming(newest, 1) \in Rows /\ Streams!Forming(newest, 1).n = newest /\ ~Streams!IsClosed(Streams!Forming(newest, 1))
  BY <1>1 DEF Streams!Forming, Streams!Row, Rows, Streams!IsClosed
<1>3. UNCHANGED <<setup, newest, link, inHand, state, given, start>>
  BY DEF Streams!Revise
<1>4. CASE ~Streams!Polls /\ link = "up"
  <2>1. unheard' = Append(unheard, Streams!Forming(newest, 1)) /\ silent' = silent
    BY <1>1, <1>4 DEF Streams!Tell
  <2> QED
    BY <1>1, <1>2, <1>3, <1>4, <2>1, ToldStep
<1>5. CASE Streams!Polls \/ link # "up"
  <2>1. unheard' = unheard /\ silent' = silent
    BY <1>1, <1>2, <1>5 DEF Streams!Tell
  <2> QED
    BY <1>1, <1>3, <2>1, QuietStep
<1> QED
  BY <1>4, <1>5

-----------------------------------------------------------------------------
(* The socket *)

LEMMA ConnectStep == ASSUME FeedInv, Streams!Connect PROVE FeedInv'
<1>1. /\ ~Streams!Polls /\ link = "down" /\ version' \in {0, 1}
      /\ UNCHANGED <<setup, newest, version, unheard, inHand, state, given, silent>>
  BY DEF Streams!Connect, FeedInv, FeedTypeOK
<1>2. CASE UNCHANGED <<link, start>>
  BY <1>1, <1>2, QuietStep
<1>3. CASE Streams!Open
  <2>1. FeedTypeOK /\ OrderInv /\ PastInv /\ StartInv /\ SocketInv /\ newest \in Nat /\ newest > 0
    BY DEF FeedInv, FeedTypeOK
  <2>2. link' = "up" /\ (start # Streams!None => start' = start) /\ (start = Streams!None => start' = newest) /\ ~Streams!Polls'
    BY <1>1, <1>3 DEF Streams!Open, Streams!Polls
  <2>3. start' \in Int /\ start' # Streams!None /\ start' \in 1..newest
    BY <2>1, <2>2 DEF PastInv, FeedTypeOK, Streams!None
  <2>4. FeedTypeOK'
    BY <1>1, <2>1, <2>2, <2>3 DEF FeedTypeOK
  <2>5. OrderInv'
    BY <1>1, <2>1, OrderKept
  <2>6. PastInv'
    BY <1>1, <2>1, <2>3 DEF PastInv, Past
  <2>7. StartInv'
    BY <2>3 DEF StartInv
  <2>8. SocketInv'
    <3>1. CASE start # Streams!None
      BY <1>1, <2>1, <2>2, <3>1 DEF SocketInv
    <3>2. CASE start = Streams!None
      <4>1. start'..(newest' - 1) = {} /\ Len(inHand') <= 1
        BY <1>1, <2>1, <2>2, <3>2 DEF SocketInv
      <4> QED
        BY <4>1 DEF SocketInv
    <3> QED
      BY <3>1, <3>2
  <2> QED
    BY <2>2, <2>4, <2>5, <2>6, <2>7, <2>8 DEF FeedInv, EmittedInv, PassedInv, HandInv
<1> QED
  BY <1>2, <1>3 DEF Streams!Connect

LEMMA ReceiveStep == ASSUME FeedInv, Streams!Receive PROVE FeedInv'
<1> DEFINE row == Head(unheard)
<1>1. /\ ~Streams!Polls /\ link = "up" /\ unheard # <<>> /\ inHand = <<>> /\ unheard' = Tail(unheard)
      /\ inHand' = (IF setup.closedOnly /\ ~Streams!IsClosed(row) THEN <<>> ELSE <<row>>)
      /\ UNCHANGED <<setup, newest, version, link, state, given, start, silent>>
  BY DEF Streams!Receive
<1>2. FeedTypeOK /\ OrderInv /\ PastInv /\ StartInv /\ SocketInv
  BY DEF FeedInv
<1>3. unheard \in Seq(Rows) /\ given \in Seq(Rows) /\ ~Streams!Polls'
  BY <1>1, <1>2 DEF FeedTypeOK, Streams!Polls
<1>4. /\ unheard' \in Seq(Rows) /\ row \in Rows /\ row = unheard[1] /\ 1 \in 1..Len(unheard)
      /\ \A i \in 1..Len(unheard') : i + 1 \in 1..Len(unheard) /\ unheard'[i] = unheard[i + 1]
  BY <1>1, <1>3, TailRows
<1>5. inHand' = <<>> \/ (inHand' = <<row>> /\ inHand'[1] = row)
  BY <1>1
<1>6. inHand' \in Seq(Rows) /\ Len(inHand') <= 1 /\ \A i \in 1..Len(inHand') : inHand'[i] = row
  <2>1. CASE inHand' = <<>>
    <3>1. <<>> \in Seq(Rows) /\ Len(<<>>) = 0
      OBVIOUS
    <3> QED
      BY <2>1, <3>1
  <2>2. CASE inHand' = <<row>>
    <3>1. <<row>> \in Seq(Rows) /\ Len(<<row>>) = 1 /\ <<row>>[1] = row
      BY <1>4, SingleRow
    <3>2. 1..1 = {1}
      OBVIOUS
    <3> QED
      BY <2>2, <3>1, <3>2
  <2> QED
    BY <1>5, <2>1, <2>2
<1>7. FeedTypeOK'
  BY <1>1, <1>2, <1>4, <1>6 DEF FeedTypeOK
<1>8. OrderInv'
  <2>1. Ordered(unheard') /\ Ahead(given, unheard')
    BY <1>1, <1>2, <1>3, OrderedTail, AheadTail DEF OrderInv
  <2>2. Ordered(inHand')
    BY <1>4, <1>5, SingleRow, EmptyOrder
  <2>3. Ahead(given, inHand')
    BY <1>2, <1>4, <1>6 DEF OrderInv, Ahead
  <2>4. Ahead(inHand', unheard')
    BY <1>1, <1>2, <1>3, <1>6, HeadBefore DEF OrderInv, Ahead
  <2>5. Ordered(given)
    BY <1>2 DEF OrderInv
  <2> QED
    BY <1>1, <2>1, <2>2, <2>3, <2>4, <2>5 DEF OrderInv, Ordered, Ahead
<1>9. PastInv'
  <2>1. \A i \in 1..Len(unheard') : unheard'[i].n <= newest /\ (Streams!IsClosed(unheard'[i]) => unheard'[i].n < newest)
    BY <1>2, <1>4 DEF PastInv, Past
  <2>2. \A i \in 1..Len(inHand') : inHand'[i].n <= newest /\ (Streams!IsClosed(inHand'[i]) => inHand'[i].n < newest)
    BY <1>2, <1>4, <1>6 DEF PastInv, Past
  <2> QED
    BY <1>1, <1>2, <2>1, <2>2 DEF PastInv, Past
<1>10. StartInv'
  BY <1>1, <1>2 DEF StartInv
<1>11. SocketInv'
  <2>1. ASSUME NEW m, m \in Streams!ClosedIn(unheard) PROVE m \in Streams!ClosedIn(inHand') \/ m \in Streams!ClosedIn(unheard')
    <3>1. m \in Streams!ClosedIn(unheard') \/ (Streams!IsClosed(row) /\ row.n = m)
      BY <1>1, <1>3, <2>1, ClosedInTail
    <3>2. ASSUME Streams!IsClosed(row), row.n = m PROVE m \in Streams!ClosedIn(inHand')
      <4>1. inHand' = <<row>>
        BY <1>1, <3>2
      <4>2. 1 \in 1..Len(inHand') /\ inHand'[1] = row
        BY <1>4, <4>1, SingleRow
      <4> QED
        BY <1>6, <3>2, <4>2, ClosedInIs
    <3> QED
      BY <3>1, <3>2
  <2>2. \A m : m \notin Streams!ClosedIn(inHand)
    BY <1>1, NoneClosedIn
  <2>3. ASSUME start # Streams!None, NEW m \in start..(newest - 1)
        PROVE  m \in Streams!ClosedIn(given) \/ m \in Streams!ClosedIn(inHand') \/ m \in Streams!ClosedIn(unheard') \/ m \in silent
    BY <1>1, <1>2, <2>1, <2>2, <2>3 DEF SocketInv
  <2> QED
    BY <1>1, <1>6, <2>3 DEF SocketInv
<1> QED
  BY <1>3, <1>7, <1>8, <1>9, <1>10, <1>11 DEF FeedInv, EmittedInv, PassedInv, HandInv

LEMMA DropStep == ASSUME FeedInv, Streams!Drop PROVE FeedInv'
  BY CutStep DEF Streams!Drop

LEMMA StopStep == ASSUME FeedInv, Streams!Stop PROVE FeedInv'
<1>1. CASE Streams!Polls
  BY <1>1, QuietStep DEF Streams!Stop, FeedInv, FeedTypeOK
<1>2. CASE ~Streams!Polls
  BY <1>2, CutStep DEF Streams!Stop
<1> QED
  BY <1>1, <1>2

LEMMA KeepaliveStep == ASSUME FeedInv, Streams!Keepalive PROVE FeedInv'
<1>1. ~Streams!Polls /\ UNCHANGED <<setup, newest, version, inHand, state, given, start>> /\ version' \in {0, 1}
  BY DEF Streams!Keepalive, Streams!Polls, FeedInv, FeedTypeOK
<1>2. Streams!Cut \/ UNCHANGED <<link, unheard, silent>>
  BY DEF Streams!Keepalive
<1> QED
  BY <1>1, <1>2, CutStep, QuietStep

-----------------------------------------------------------------------------
(* The callback *)

\* A row is given; the others of its turn stay in hand, or are left to the next one.
LEMMA GivenRows ==
    ASSUME FeedInv, Streams!Emit
    PROVE  /\ given \in Seq(Rows) /\ inHand \in Seq(Rows) /\ inHand # <<>> /\ 1 \in 1..Len(inHand)
           /\ inHand[1] \in Rows /\ inHand[1].n \in Nat /\ given' = Append(given, inHand[1])
           /\ inHand' \in Seq(Rows) /\ (inHand' = <<>> \/ inHand' = Tail(inHand))
           /\ start # Streams!None /\ UNCHANGED <<setup, newest, link, unheard, start, silent>>
           /\ state' = IF Streams!Polls THEN Streams!Remembered(inHand[1]) ELSE state
<1>1. given \in Seq(Rows) /\ inHand \in Seq(Rows) /\ inHand # <<>> /\ start # Streams!None
  BY DEF Streams!Emit, FeedInv, FeedTypeOK, StartInv
<1>2. Head(inHand) = inHand[1] /\ Tail(inHand) \in Seq(Rows) /\ inHand[1] \in Rows /\ 1 \in 1..Len(inHand)
  BY <1>1, TailRows
<1>3. inHand' = <<>> \/ inHand' = Tail(inHand)
  BY DEF Streams!Emit
<1>4. <<>> \in Seq(Rows)
  OBVIOUS
<1>5. inHand[1].n \in Nat
  BY <1>2 DEF Rows
<1>6. given' = Append(given, inHand[1]) /\ state' = IF Streams!Polls THEN Streams!Remembered(inHand[1]) ELSE state
  BY <1>2 DEF Streams!Emit
<1> QED
  BY <1>1, <1>2, <1>3, <1>4, <1>5, <1>6 DEF Streams!Emit

\* What both kinds of feed keep.
LEMMA GivenStep == ASSUME FeedInv, Streams!Emit PROVE FeedTypeOK' /\ OrderInv' /\ PastInv' /\ StartInv'
<1> DEFINE row == inHand[1]
<1>1. FeedTypeOK /\ OrderInv /\ PastInv /\ StartInv
  BY DEF FeedInv
<1>2. /\ given \in Seq(Rows) /\ inHand \in Seq(Rows) /\ inHand # <<>> /\ 1 \in 1..Len(inHand)
      /\ row \in Rows /\ row.n \in Nat /\ given' = Append(given, row)
      /\ inHand' \in Seq(Rows) /\ (inHand' = <<>> \/ inHand' = Tail(inHand))
      /\ start # Streams!None /\ UNCHANGED <<setup, newest, link, unheard, start, silent>>
      /\ state' = IF Streams!Polls THEN Streams!Remembered(row) ELSE state
  BY GivenRows
<1>3. unheard \in Seq(Rows) /\ Head(inHand) = row
  BY <1>1, <1>2, TailRows DEF FeedTypeOK
<1> HIDE DEF row
<1>4. given' \in Seq(Rows)
  BY <1>2, AppendRows
<1>5. FeedTypeOK'
  <2>1. state' = [closed |-> state'.closed, forming |-> state'.forming] /\ state'.closed \in Int
    BY <1>1, <1>2 DEF FeedTypeOK, Streams!Remembered
  <2>2. version' = version
    BY DEF Streams!Emit
  <2> QED
    BY <1>1, <1>2, <1>4, <2>1, <2>2 DEF FeedTypeOK
<1>6. OrderInv'
  <2>1. /\ \A i \in 1..Len(given) : Streams!Before(given[i], row)
        /\ \A i \in 1..Len(unheard) : Streams!Before(row, unheard[i])
    BY <1>1, <1>2, <1>3 DEF OrderInv, Ahead, row
  <2>2. Ordered(Append(given, row)) /\ Ahead(Append(given, row), unheard)
    BY <1>1, <1>2, <1>3, <2>1, OrderedAppend, AheadAppend DEF OrderInv
  <2>3. Ordered(Tail(inHand)) /\ Ahead(given, Tail(inHand)) /\ Ahead(Tail(inHand), unheard)
    BY <1>1, <1>2, <1>3, OrderedTail, AheadTail DEF OrderInv
  <2>4. Ahead(Append(given, row), Tail(inHand))
    BY <1>1, <1>2, <1>3, <2>3, AheadAppend, HeadBefore, TailRows DEF OrderInv
  <2>5. Ordered(unheard)
    BY <1>1 DEF OrderInv
  <2> QED
    BY <1>2, <2>2, <2>3, <2>4, <2>5, EmptyOrder DEF OrderInv, Ordered, Ahead
<1>7. PastInv'
  <2>1. row.n <= newest /\ (Streams!IsClosed(row) => row.n < newest)
    BY <1>1, <1>2 DEF PastInv, Past, row
  <2>2. \A i \in 1..Len(given') : given'[i].n <= newest /\ (Streams!IsClosed(given'[i]) => given'[i].n < newest)
    BY <1>1, <1>2, <2>1, AppendRows DEF PastInv, Past
  <2>3. \A i \in 1..Len(Tail(inHand)) :
           Tail(inHand)[i].n <= newest /\ (Streams!IsClosed(Tail(inHand)[i]) => Tail(inHand)[i].n < newest)
    BY <1>1, <1>2, TailRows DEF PastInv, Past
  <2>4. \A i \in 1..Len(inHand') : inHand'[i].n <= newest /\ (Streams!IsClosed(inHand'[i]) => inHand'[i].n < newest)
    BY <1>2, <2>3, EmptyOrder DEF Past
  <2> QED
    BY <1>1, <1>2, <2>2, <2>4 DEF PastInv, Past
<1>8. StartInv'
  BY <1>2 DEF StartInv
<1> QED
  BY <1>5, <1>6, <1>7, <1>8

LEMMA SocketGivenStep == ASSUME FeedInv, Streams!Emit, ~Streams!Polls PROVE FeedInv'
<1>1. SocketInv /\ unheard \in Seq(Rows)
  BY DEF FeedInv, FeedTypeOK
<1>2. /\ given \in Seq(Rows) /\ inHand \in Seq(Rows) /\ inHand # <<>> /\ inHand[1] \in Rows
      /\ given' = Append(given, inHand[1]) /\ (inHand' = <<>> \/ inHand' = Tail(inHand))
      /\ UNCHANGED <<setup, newest, unheard, start, silent>> /\ ~Streams!Polls'
  BY GivenRows DEF Streams!Polls
<1>3. inHand' = <<>> /\ Tail(inHand) = <<>> /\ Head(inHand) = inHand[1]
  BY <1>1, <1>2 DEF SocketInv
<1>4. ASSUME NEW m, m \in Streams!ClosedIn(inHand) PROVE m \in Streams!ClosedIn(given')
  <2>1. m \in Streams!ClosedIn(Tail(inHand)) \/ (Streams!IsClosed(inHand[1]) /\ inHand[1].n = m)
    BY <1>2, <1>3, <1>4, ClosedInTail
  <2> QED
    BY <1>2, <1>3, <2>1, NoneClosedIn, ClosedInAppend
<1>5. ASSUME NEW m, m \in Streams!ClosedIn(given) PROVE m \in Streams!ClosedIn(given')
  BY <1>2, <1>5, ClosedInAppend
<1>6. SocketInv'
  <2>1. Len(inHand') <= 1
    BY <1>3
  <2>2. ASSUME start # Streams!None, NEW m \in start..(newest - 1)
        PROVE  m \in Streams!ClosedIn(given') \/ m \in Streams!ClosedIn(unheard) \/ m \in silent
    BY <1>1, <1>4, <1>5, <2>2 DEF SocketInv
  <2> QED
    BY <1>2, <2>1, <2>2 DEF SocketInv
<1> QED
  BY <1>2, <1>6, GivenStep DEF FeedInv, EmittedInv, PassedInv, HandInv

LEMMA NextRow ==
    ASSUME NEW k \in Nat, NEW a, NEW b, a = k, b = k + 1
    PROVE  a < b /\ (a + 1)..(b - 1) = {}
  OBVIOUS

\* The poller remembers a closed candle: all before it is said or was stepped over.
LEMMA PollerClosedStep ==
    ASSUME FeedInv, Streams!Emit, Streams!Polls, Streams!IsClosed(inHand[1])
    PROVE  EmittedInv' /\ PassedInv' /\ HandInv'
<1> DEFINE n == inHand[1].n
           last == state.closed
<1>1. /\ EmittedInv /\ PassedInv /\ HandInv /\ OrderInv /\ PastInv
      /\ state = [closed |-> last, forming |-> state.forming] /\ last \in Int /\ newest \in Nat /\ start \in Int
  BY DEF FeedInv, FeedTypeOK
<1>2. /\ given \in Seq(Rows) /\ inHand \in Seq(Rows) /\ inHand # <<>> /\ 1 \in 1..Len(inHand)
      /\ inHand[1] \in Rows /\ n \in Nat /\ given' = Append(given, inHand[1])
      /\ inHand' \in Seq(Rows) /\ (inHand' = <<>> \/ inHand' = Tail(inHand)) /\ start # Streams!None
      /\ UNCHANGED <<setup, newest, unheard, start, silent>> /\ Streams!Polls' /\ state' = Streams!Remembered(inHand[1])
  BY GivenRows DEF Streams!Polls
<1>3. last \in Int /\ state'.closed = n
  BY <1>1, <1>2 DEF Streams!Remembered
<1>4. last < n /\ n < newest /\ \A m \in (last + 1)..(n - 1) : m \in silent
  BY <1>1, <1>2 DEF HandInv, PastInv, Past
<1>5. ASSUME NEW m PROVE m \in Streams!ClosedIn(given') <=> m \in Streams!ClosedIn(given) \/ n = m
  BY <1>2, ClosedInAppend
<1>6. EmittedInv'
  <2>1. start - 1 <= n
    <3>1. start - 1 <= last
      BY <1>1, <1>2 DEF EmittedInv
    <3> QED
      BY <1>1, <1>3, <1>4, <3>1, <1>2
  <2>2. ASSUME NEW m \in start..n PROVE m \in Streams!ClosedIn(given') \/ m \in silent
    <3>1. CASE m \in start..last
      BY <1>1, <1>2, <1>5, <3>1 DEF EmittedInv
    <3>2. CASE m \in (last + 1)..(n - 1)
      BY <1>4, <3>2
    <3>3. CASE m = n
      BY <1>5, <3>3
    <3>4. m \in start..last \/ m \in (last + 1)..(n - 1) \/ m = n
      <4>1. start \in Int /\ last \in Int /\ n \in Int
        BY <1>1, <1>2, <1>3
      <4> HIDE DEF n, last
      <4> QED
        BY <2>2, <4>1
    <3> QED
      BY <3>1, <3>2, <3>3, <3>4
  <2>3. unheard' = <<>> /\ n # Streams!None
    BY <1>1, <1>2 DEF EmittedInv, Streams!None
  <2> QED
    BY <1>2, <1>3, <1>4, <2>1, <2>2, <2>3 DEF EmittedInv
<1>7. PassedInv'
  <2>1. \A i \in 1..Len(given) : given[i].n <= n
    <3> SUFFICES ASSUME NEW i \in 1..Len(given) PROVE given[i].n <= n
      OBVIOUS
    <3>1. Streams!Before(given[i], inHand[1]) /\ given[i] \in Rows
      <4>1. Ahead(given, inHand) /\ given[i] \in Rows
        BY <1>1, <1>2 DEF OrderInv
      <4> QED
        BY <1>2, <4>1 DEF Ahead
    <3>2. given[i].n \in Nat
      BY <3>1 DEF Rows
    <3> QED
      BY <1>2, <3>1, <3>2 DEF Streams!Before
  <2>2. \A i \in 1..Len(given') : given'[i].n <= n
    BY <1>2, <2>1, AppendRows
  <2> QED
    BY <1>3, <2>2 DEF PassedInv
<1>8. HandInv'
  <2> SUFFICES ASSUME inHand' # <<>> PROVE HandInv'
    BY DEF HandInv
  <2>1. /\ Len(inHand') = Len(inHand) - 1 /\ Len(inHand) \in Nat /\ 1 \in 1..Len(inHand')
        /\ \A i \in 1..Len(inHand') : i + 1 \in 1..Len(inHand) /\ inHand'[i] = inHand[i + 1]
    <3>1. inHand' = Tail(inHand)
      BY <1>2
    <3>2. 1 \in 1..Len(inHand')
      BY <1>2, TailRows
    <3> QED
      BY <1>2, <3>1, <3>2, TailRows
  <2>2. \A i \in 1..Len(inHand) : inHand[i].n = n + i - 1 /\ (Streams!IsClosed(inHand[i]) \/ i = Len(inHand))
    BY <1>1, <1>2 DEF HandInv
  <2>3. \A i \in 1..Len(inHand') : inHand'[i].n = n + (i + 1) - 1 /\ (Streams!IsClosed(inHand'[i]) \/ i + 1 = Len(inHand))
    BY <2>1, <2>2
  <2>4. inHand'[1].n = n + 1
    <3>1. inHand'[1].n = n + (1 + 1) - 1
      BY <2>1, <2>3
    <3>2. n \in Nat
      BY <1>2
    <3> HIDE DEF n
    <3>3. n + (1 + 1) - 1 = n + 1
      BY <3>2
    <3> QED
      BY <3>1, <3>3
  <2>5. \A i \in 1..Len(inHand') : inHand'[i].n = inHand'[1].n + i - 1 /\ (Streams!IsClosed(inHand'[i]) \/ i = Len(inHand'))
    <3> SUFFICES ASSUME NEW i \in 1..Len(inHand')
                 PROVE  inHand'[i].n = inHand'[1].n + i - 1 /\ (Streams!IsClosed(inHand'[i]) \/ i = Len(inHand'))
      OBVIOUS
    <3>1. inHand'[i].n = n + (i + 1) - 1 /\ (Streams!IsClosed(inHand'[i]) \/ i + 1 = Len(inHand))
      BY <2>3
    <3>2. i + 1 = Len(inHand) => i = Len(inHand')
      BY <2>1
    <3>3. n \in Int /\ i \in Int
      BY <1>2
    <3> HIDE DEF n
    <3>4. n + (i + 1) - 1 = (n + 1) + i - 1
      BY <3>3
    <3> QED
      BY <2>4, <3>1, <3>2, <3>4
  <2>6. state'.closed < inHand'[1].n /\ (state'.closed + 1)..(inHand'[1].n - 1) = {}
    <3>1. n \in Nat
      BY <1>2
    <3>2. state'.closed = n /\ inHand'[1].n = n + 1
      BY <1>3, <2>4
    <3> QED
      BY <3>1, <3>2, NextRow
  <2> QED
    BY <2>5, <2>6 DEF HandInv, SteppedOver
<1> QED
  BY <1>6, <1>7, <1>8

\* A forming row ends the turn, and is behind all that the poller may still have to say.
LEMMA PollerFormingStep ==
    ASSUME FeedInv, Streams!Emit, Streams!Polls, ~Streams!IsClosed(inHand[1])
    PROVE  EmittedInv' /\ PassedInv' /\ HandInv'
<1>1. EmittedInv /\ PassedInv /\ HandInv /\ newest \in Nat /\ start \in Int /\ state.closed \in Int
  BY DEF FeedInv, FeedTypeOK
<1>2. /\ given \in Seq(Rows) /\ inHand \in Seq(Rows) /\ inHand # <<>> /\ 1 \in 1..Len(inHand)
      /\ inHand[1] \in Rows /\ given' = Append(given, inHand[1])
      /\ (inHand' = <<>> \/ inHand' = Tail(inHand)) /\ start # Streams!None
      /\ UNCHANGED <<setup, newest, unheard, start, silent>> /\ Streams!Polls' /\ state' = Streams!Remembered(inHand[1])
  BY GivenRows DEF Streams!Polls
<1>3. state'.closed = state.closed
  BY <1>2 DEF FeedInv, FeedTypeOK, Streams!Remembered
<1>4. inHand' = <<>>
  <2>1. Len(inHand) = 1
    BY <1>1, <1>2 DEF HandInv
  <2> QED
    BY <1>2, <2>1
<1>5. SteppedOver(inHand[1].n)
  BY <1>1, <1>2 DEF HandInv
<1>6. EmittedInv'
  <2>1. ASSUME NEW m \in start..state.closed PROVE m \in Streams!ClosedIn(given') \/ m \in silent
    BY <1>1, <1>2, <2>1, ClosedInAppend DEF EmittedInv
  <2> QED
    BY <1>1, <1>2, <1>3, <2>1 DEF EmittedInv
<1>7. PassedInv'
  <2> SUFFICES ASSUME NEW i \in 1..Len(given')
               PROVE  given'[i].n <= state'.closed
                      \/ (~Streams!IsClosed(given'[i]) /\ \A m \in (state'.closed + 1)..(given'[i].n - 1) :
                                                             m <= given'[i].n - setup'.tail)
    BY DEF PassedInv, SteppedOver
  <2>1. CASE i \in 1..Len(given) /\ given'[i] = given[i]
    BY <1>1, <1>2, <1>3, <2>1 DEF PassedInv, SteppedOver
  <2>2. CASE given'[i] = inHand[1]
    BY <1>2, <1>3, <1>5, <2>2 DEF SteppedOver
  <2> QED
    BY <1>2, <2>1, <2>2, AppendRows
<1> QED
  BY <1>4, <1>6, <1>7 DEF HandInv

LEMMA EmitStep == ASSUME FeedInv, Streams!Emit PROVE FeedInv'
<1>1. CASE ~Streams!Polls
  BY <1>1, SocketGivenStep
<1>2. CASE Streams!Polls
  <2>1. EmittedInv' /\ PassedInv' /\ HandInv'
    BY <1>2, PollerClosedStep, PollerFormingStep
  <2>2. Streams!Polls'
    BY <1>2 DEF Streams!Emit, Streams!Polls
  <2> QED
    BY <2>1, <2>2, GivenStep DEF FeedInv, SocketInv
<1> QED
  BY <1>1, <1>2

-----------------------------------------------------------------------------
(* The poller *)

\* The first candle of the tail that the poller has not emitted.
FirstNews == IF Streams!InTail(Streams!Baseline + 1) THEN Streams!Baseline + 1 ELSE newest - setup.tail + 1

LEMMA FirstIs ==
    ASSUME FeedInv, Streams!Polls
    PROVE  /\ Streams!Baseline \in Nat /\ Streams!Baseline # Streams!None /\ state.closed <= Streams!Baseline
           /\ Streams!Baseline < newest /\ FirstNews \in Nat /\ Streams!Baseline < FirstNews /\ FirstNews <= newest
           /\ newest - setup.tail < FirstNews
           /\ \A m \in (Streams!Baseline + 1)..(FirstNews - 1) : m <= newest - setup.tail /\ ~Streams!InTail(m) /\ m < newest
           /\ setup.tail \in Nat /\ setup.tail > 0
<1>1. newest \in Nat /\ newest > 0 /\ state.closed \in Int /\ setup.tail \in Nat /\ setup.tail > 0 /\ start \in Int
  BY DEF FeedInv, FeedTypeOK, Streams!Setup
<1>2. state.closed # Streams!None => start # Streams!None /\ start - 1 <= state.closed /\ state.closed < newest /\ start \in 1..newest
  BY DEF FeedInv, EmittedInv, PastInv
<1>3. /\ Streams!Baseline \in Int /\ Streams!Baseline >= 0 /\ Streams!Baseline < newest /\ state.closed <= Streams!Baseline
      /\ Streams!Baseline # Streams!None
  BY <1>1, <1>2 DEF Streams!Baseline, Streams!None
<1> HIDE DEF Streams!Baseline
<1>4. CASE Streams!InTail(Streams!Baseline + 1)
  <2>1. FirstNews = Streams!Baseline + 1 /\ newest - setup.tail < Streams!Baseline + 1
    BY <1>4 DEF FirstNews, Streams!InTail
  <2> QED
    BY <1>1, <1>3, <2>1
<1>5. CASE ~Streams!InTail(Streams!Baseline + 1)
  <2>1. FirstNews = newest - setup.tail + 1 /\ Streams!Baseline + 1 <= newest - setup.tail
    BY <1>1, <1>3, <1>5 DEF FirstNews, Streams!InTail
  <2>2. FirstNews \in Nat /\ Streams!Baseline < FirstNews /\ FirstNews <= newest /\ newest - setup.tail < FirstNews
    BY <1>1, <1>3, <2>1
  <2>3. \A m \in (Streams!Baseline + 1)..(FirstNews - 1) : m <= newest - setup.tail /\ ~Streams!InTail(m) /\ m < newest
    BY <1>1, <1>3, <2>1 DEF Streams!InTail
  <2> QED
    BY <1>1, <1>3, <2>2, <2>3
<1> QED
  BY <1>4, <1>5

\* The rows of a poll: consecutive candles, closed but for the one that is forming.
LEMMA NewsIs ==
    ASSUME FeedInv, Streams!Polls
    PROVE  /\ Streams!News \in Seq(Rows)
           /\ \A i \in 1..Len(Streams!News) :
                 /\ Streams!News[i].n = FirstNews + i - 1
                 /\ Streams!News[i].n <= newest
                 /\ Streams!IsClosed(Streams!News[i]) => Streams!News[i].n < newest
                 /\ Streams!IsClosed(Streams!News[i]) \/ (i = Len(Streams!News) /\ Streams!News[i].n = newest)
<1> DEFINE first == FirstNews
           count == newest - first
           closed == [i \in 1..count |-> Streams!Closed(first + i - 1)]
           row == Streams!Forming(newest, version)
           forming == IF setup.closedOnly \/ row = state.forming THEN <<>> ELSE <<row>>
<1>1. newest \in Nat /\ first \in Nat /\ first <= newest /\ version \in {0, 1}
  BY FirstIs DEF FeedInv, FeedTypeOK
<1>2. Streams!News = closed \o forming
  BY DEF Streams!News, FirstNews
<1>3. /\ row \in Rows /\ row.n = newest /\ ~Streams!IsClosed(row)
      /\ \A k \in Nat : Streams!Closed(k) \in Rows /\ Streams!Closed(k).n = k /\ Streams!IsClosed(Streams!Closed(k))
  BY <1>1 DEF Streams!Forming, Streams!Closed, Streams!Row, Rows, Streams!IsClosed
<1> HIDE DEF first, row
<1>4. count \in Nat
  BY <1>1
<1>5. \A i \in 1..count : first + i - 1 \in Nat /\ first + i - 1 < newest
  BY <1>1
<1>6. closed \in Seq(Rows) /\ Len(closed) = count /\ \A i \in 1..count : closed[i] = Streams!Closed(first + i - 1)
  <2>1. \A i \in 1..count : Streams!Closed(first + i - 1) \in Rows
    BY <1>3, <1>5
  <2> HIDE DEF count
  <2> QED
    BY <1>4, <2>1
<1>7. first + (count + 1) - 1 = newest
  BY <1>1
<1> HIDE DEF count, closed
<1>8. CASE forming = <<>>
  <2>1. Streams!News = closed
    BY <1>2, <1>6, <1>8
  <2>2. ASSUME NEW i \in 1..Len(Streams!News)
        PROVE  Streams!News[i].n = first + i - 1 /\ Streams!News[i].n < newest /\ Streams!IsClosed(Streams!News[i])
    <3>1. i \in 1..count /\ Streams!News[i] = Streams!Closed(first + i - 1)
      BY <1>6, <2>1
    <3> QED
      BY <1>3, <1>5, <3>1
  <2>3. ASSUME NEW i \in 1..Len(Streams!News) PROVE Streams!News[i].n <= newest
    BY <1>1, <1>5, <1>6, <2>1, <2>2
  <2> QED
    BY <1>6, <2>1, <2>2, <2>3 DEF first
<1>9. CASE forming = <<row>>
  <2>1. Streams!News = Append(closed, row)
    BY <1>2, <1>3, <1>6, <1>9
  <2>2. Streams!News \in Seq(Rows) /\ Len(Streams!News) = count + 1
    BY <1>3, <1>4, <1>6, <2>1
  <2>3. \A i \in 1..Len(Streams!News) : (i \in 1..count /\ Streams!News[i] = Streams!Closed(first + i - 1)) \/ (i = count + 1 /\ Streams!News[i] = row)
    BY <1>3, <1>6, <2>1, AppendRows
  <2>4. ASSUME NEW i \in 1..Len(Streams!News)
        PROVE  /\ Streams!News[i].n = first + i - 1 /\ Streams!News[i].n <= newest
               /\ Streams!IsClosed(Streams!News[i]) => Streams!News[i].n < newest
               /\ Streams!IsClosed(Streams!News[i]) \/ (i = Len(Streams!News) /\ Streams!News[i].n = newest)
    <3>1. CASE i \in 1..count /\ Streams!News[i] = Streams!Closed(first + i - 1)
      BY <1>1, <1>3, <1>5, <3>1
    <3>2. CASE i = count + 1 /\ Streams!News[i] = row
      BY <1>1, <1>3, <1>7, <2>2, <3>2
    <3> QED
      BY <2>3, <3>1, <3>2
  <2> QED
    BY <2>2, <2>4 DEF first
<1> QED
  BY <1>8, <1>9

LEMMA PollStep == ASSUME FeedInv, Streams!Poll PROVE FeedInv'
<1>1. /\ Streams!Polls /\ inHand = <<>> /\ inHand' = Streams!News /\ state' = [state EXCEPT !.closed = Streams!Baseline]
      /\ start' = (IF start = Streams!None THEN newest ELSE start)
      /\ silent' = silent \cup {n \in (Streams!Baseline + 1)..(newest - 1) : ~Streams!InTail(n)}
      /\ UNCHANGED <<setup, newest, version, link, unheard, given>>
  BY DEF Streams!Poll
<1>2. FeedTypeOK /\ OrderInv /\ PastInv /\ StartInv /\ EmittedInv /\ PassedInv
  BY DEF FeedInv
<1>3. /\ newest \in Nat /\ newest > 0 /\ given \in Seq(Rows) /\ state.closed \in Int /\ start \in Int
      /\ silent \subseteq Nat /\ unheard = <<>> /\ Streams!Polls'
  BY <1>1, <1>2 DEF FeedTypeOK, EmittedInv, Streams!Polls
<1>4. /\ Streams!Baseline \in Nat /\ Streams!Baseline # Streams!None /\ state.closed <= Streams!Baseline
      /\ Streams!Baseline < newest /\ FirstNews \in Nat /\ Streams!Baseline < FirstNews /\ FirstNews <= newest
      /\ newest - setup.tail < FirstNews
      /\ \A m \in (Streams!Baseline + 1)..(FirstNews - 1) : m <= newest - setup.tail /\ ~Streams!InTail(m) /\ m < newest
      /\ setup.tail \in Nat /\ setup.tail > 0
  BY <1>1, FirstIs
<1>5. /\ Streams!News \in Seq(Rows)
      /\ \A i \in 1..Len(Streams!News) : /\ Streams!News[i].n = FirstNews + i - 1
                                         /\ Streams!News[i].n <= newest
                                         /\ Streams!IsClosed(Streams!News[i]) => Streams!News[i].n < newest
                                         /\ Streams!IsClosed(Streams!News[i]) \/ (i = Len(Streams!News) /\ Streams!News[i].n = newest)
  BY <1>1, NewsIs
<1>6. state'.closed = Streams!Baseline /\ state' = [closed |-> Streams!Baseline, forming |-> state.forming]
  BY <1>1, <1>2 DEF FeedTypeOK
<1>7. start' \in 1..newest /\ start' # Streams!None /\ (start # Streams!None => start' = start)
  BY <1>1, <1>2, <1>3 DEF PastInv, Streams!None
<1>8. \A n \in {m \in (Streams!Baseline + 1)..(newest - 1) : ~Streams!InTail(m)} : n \in silent'
  BY <1>1
<1> HIDE DEF Streams!Baseline, FirstNews, Streams!News
<1>9. FeedTypeOK'
  <2>1. silent' \subseteq Nat
    <3>1. (Streams!Baseline + 1)..(newest - 1) \subseteq Nat
      BY <1>4
    <3> QED
      BY <1>1, <1>3, <3>1
  <2>2. state' = [closed |-> state'.closed, forming |-> state'.forming] /\ state'.closed \in Int
    BY <1>4, <1>6
  <2> QED
    BY <1>1, <1>2, <1>5, <1>7, <2>1, <2>2 DEF FeedTypeOK
<1>10. \A i \in 1..Len(given) : given[i] \in Rows /\ given[i].n \in Nat
  <2>1. \A i \in 1..Len(given) : given[i] \in Rows
    BY <1>3
  <2> QED
    BY <2>1 DEF Rows
<1>11. \A i \in 1..Len(given) :
          given[i].n < FirstNews \/ (given[i].n = FirstNews /\ ~Streams!IsClosed(given[i]))
  <2> SUFFICES ASSUME NEW i \in 1..Len(given)
               PROVE  given[i].n < FirstNews \/ (given[i].n = FirstNews /\ ~Streams!IsClosed(given[i]))
    OBVIOUS
  <2>1. CASE given[i].n <= state.closed
    BY <1>3, <1>4, <1>10, <2>1
  <2>2. CASE ~Streams!IsClosed(given[i]) /\ SteppedOver(given[i].n) /\ given[i].n > FirstNews
    <3>1. FirstNews \in (state.closed + 1)..(given[i].n - 1)
      BY <1>3, <1>4, <1>10, <2>2
    <3>2. FirstNews <= given[i].n - setup.tail
      BY <2>2, <3>1 DEF SteppedOver
    <3>3. given[i].n <= newest
      BY <1>2 DEF PastInv, Past
    <3> QED
      BY <1>3, <1>4, <1>10, <3>2, <3>3
  <2> QED
    BY <1>1, <1>2, <1>4, <1>10, <2>1, <2>2 DEF PassedInv
<1>12. OrderInv'
  <2>1. ASSUME NEW i \in 1..Len(Streams!News), NEW j \in 1..Len(Streams!News), i < j PROVE Streams!Before(Streams!News[i], Streams!News[j])
    <3>1. Streams!News[i].n = FirstNews + i - 1 /\ Streams!News[j].n = FirstNews + j - 1 /\ i \in Int /\ j \in Int
      BY <1>5
    <3>2. FirstNews + i - 1 < FirstNews + j - 1
      BY <1>4, <2>1, <3>1
    <3> QED
      BY <3>1, <3>2 DEF Streams!Before
  <2>2. ASSUME NEW i \in 1..Len(given), NEW j \in 1..Len(Streams!News) PROVE Streams!Before(given[i], Streams!News[j])
    <3>1. Streams!News[j].n = FirstNews + j - 1 /\ j \in Int /\ j >= 1
      BY <1>5
    <3>2. CASE j = 1
      <4>1. Streams!News[j].n = FirstNews
        BY <1>4, <3>1, <3>2
      <4> QED
        BY <1>11, <4>1 DEF Streams!Before
    <3>3. CASE j > 1
      <4>1. given[i].n < FirstNews + j - 1
        BY <1>4, <1>10, <1>11, <3>1, <3>3
      <4> QED
        BY <3>1, <4>1 DEF Streams!Before
    <3> QED
      BY <3>1, <3>2, <3>3
  <2> QED
    BY <1>1, <1>2, <1>3, <2>1, <2>2, EmptyOrder DEF OrderInv, Ordered, Ahead
<1>13. PastInv'
  BY <1>1, <1>2, <1>5, <1>7 DEF PastInv, Past
<1>14. StartInv'
  BY <1>7 DEF StartInv
<1>15. EmittedInv'
  <2>1. start' - 1 <= Streams!Baseline
    <3>1. CASE start = Streams!None
      <4>1. state.closed = Streams!None
        BY <1>1, <1>2, <3>1 DEF EmittedInv
      <4>2. Streams!Baseline = newest - 1 /\ start' = newest
        BY <1>1, <3>1, <4>1 DEF Streams!Baseline
      <4> QED
        BY <1>3, <4>2
    <3>2. CASE start # Streams!None
      BY <1>1, <1>2, <1>3, <1>4, <1>7, <3>2 DEF EmittedInv
    <3> QED
      BY <3>1, <3>2
  <2>2. ASSUME NEW m \in start'..Streams!Baseline PROVE m \in Streams!ClosedIn(given) \/ m \in silent
    <3>1. CASE start = Streams!None
      <4>1. state.closed = Streams!None
        BY <1>1, <1>2, <3>1 DEF EmittedInv
      <4>2. Streams!Baseline = newest - 1 /\ start' = newest
        BY <1>1, <3>1, <4>1 DEF Streams!Baseline
      <4> QED
        BY <1>3, <2>2, <4>2
    <3>2. CASE start # Streams!None
      <4>1. state.closed # Streams!None
        BY <1>1, <1>2, <3>2 DEF EmittedInv
      <4>2. Streams!Baseline = state.closed /\ start' = start
        BY <1>7, <3>2, <4>1 DEF Streams!Baseline
      <4> QED
        BY <1>1, <1>2, <2>2, <3>2, <4>2 DEF EmittedInv
    <3> QED
      BY <3>1, <3>2
  <2> QED
    BY <1>1, <1>3, <1>4, <1>6, <1>7, <2>1, <2>2 DEF EmittedInv
<1>16. PassedInv'
  <2> SUFFICES ASSUME NEW i \in 1..Len(given)
               PROVE  \/ given[i].n <= Streams!Baseline
                      \/ ~Streams!IsClosed(given[i]) /\ \A m \in (Streams!Baseline + 1)..(given[i].n - 1) : m <= given[i].n - setup.tail
    BY <1>1, <1>6 DEF PassedInv, SteppedOver
  <2>1. CASE given[i].n <= state.closed
    BY <1>3, <1>4, <1>10, <2>1
  <2>2. CASE ~Streams!IsClosed(given[i]) /\ SteppedOver(given[i].n)
    <3>1. ASSUME NEW m \in (Streams!Baseline + 1)..(given[i].n - 1) PROVE m <= given[i].n - setup.tail
      <4>1. m \in (state.closed + 1)..(given[i].n - 1)
        BY <1>3, <1>4, <1>10, <3>1
      <4> QED
        BY <2>2, <4>1 DEF SteppedOver
    <3> QED
      BY <2>2, <3>1
  <2> QED
    BY <1>1, <1>2, <2>1, <2>2 DEF PassedInv
<1>17. HandInv'
  <2> SUFFICES ASSUME inHand' # <<>> PROVE HandInv'
    BY DEF HandInv
  <2>1. 1 \in 1..Len(Streams!News) /\ Streams!News[1].n = FirstNews
    <3>1. 1 \in 1..Len(Streams!News)
      BY <1>1, <1>5
    <3>2. Streams!News[1].n = FirstNews + 1 - 1
      BY <1>5, <3>1
    <3> QED
      BY <1>4, <3>1, <3>2
  <2>2. \A m \in (Streams!Baseline + 1)..(FirstNews - 1) : m \in silent'
    <3> TAKE m \in (Streams!Baseline + 1)..(FirstNews - 1)
    <3>1. ~Streams!InTail(m) /\ m \in (Streams!Baseline + 1)..(newest - 1)
      BY <1>3, <1>4
    <3> QED
      BY <1>8, <3>1
  <2>3. ASSUME ~Streams!IsClosed(Streams!News[1]) PROVE \A m \in (Streams!Baseline + 1)..(FirstNews - 1) : m <= FirstNews - setup.tail
    <3>1. FirstNews = newest
      BY <1>5, <2>1, <2>3
    <3> QED
      BY <1>4, <3>1
  <2>4. \A i \in 1..Len(Streams!News) : Streams!News[i].n = FirstNews + i - 1 /\ (Streams!IsClosed(Streams!News[i]) \/ i = Len(Streams!News))
    BY <1>5
  <2> QED
    BY <1>1, <1>4, <1>6, <2>1, <2>2, <2>3, <2>4 DEF HandInv, SteppedOver
<1> QED
  BY <1>3, <1>9, <1>12, <1>13, <1>14, <1>15, <1>16, <1>17 DEF FeedInv, SocketInv

-----------------------------------------------------------------------------
(* What a feed has given *)

LEMMA FeedInitHolds == ASSUME FeedSetups \subseteq Streams!Setup, Streams!Init PROVE FeedInv
<1>1. /\ setup \in Streams!Setup /\ newest = 1 /\ version = 0 /\ link = (IF Streams!Polls THEN "up" ELSE "down")
      /\ unheard = <<>> /\ inHand = <<>> /\ given = <<>> /\ start = Streams!None /\ silent = {}
      /\ state = [closed |-> Streams!None, forming |-> Streams!Row(Streams!None, "early")] /\ state.closed = Streams!None
  BY DEF Streams!Init
<1>2. <<>> \in Seq(Rows) /\ 1..Len(<<>>) = {}
  OBVIOUS
<1>3. FeedTypeOK
  <2>1. state = [closed |-> state.closed, forming |-> state.forming] /\ state.closed \in Int
    BY <1>1 DEF Streams!None
  <2>2. start \in Int /\ link \in {"up", "down"}
    BY <1>1 DEF Streams!None
  <2> QED
    BY <1>1, <1>2, <2>1, <2>2 DEF FeedTypeOK
<1>4. OrderInv
  BY <1>1, EmptyOrder DEF OrderInv
<1>5. PastInv /\ StartInv
  BY <1>1, EmptyOrder DEF PastInv, StartInv
<1>6. SocketInv /\ EmittedInv /\ HandInv
  BY <1>1, <1>2 DEF SocketInv, EmittedInv, HandInv
<1>7. PassedInv
  BY <1>1, <1>2 DEF PassedInv
<1> QED
  BY <1>3, <1>4, <1>5, <1>6, <1>7 DEF FeedInv

LEMMA FeedNextKeeps == ASSUME FeedInv, [Streams!Next]_(Streams!vars) PROVE FeedInv'
<1>1. CASE UNCHANGED Streams!vars
  BY <1>1, QuietStep DEF Streams!vars, FeedInv, FeedTypeOK
<1> QED
  BY <1>1, HappenStep, ReviseStep, ConnectStep, ReceiveStep, DropStep, StopStep, KeepaliveStep, EmitStep, PollStep
     DEF Streams!Next, Streams!Work

\* What the invariant says of the rows that were given.
LEMMA GivenInOrder == ASSUME FeedInv PROVE Streams!OnceInOrder
<1>1. /\ FeedTypeOK /\ OrderInv /\ PastInv /\ StartInv /\ SocketInv /\ EmittedInv /\ PassedInv
      /\ given \in Seq(Rows) /\ inHand \in Seq(Rows) /\ unheard \in Seq(Rows)
      /\ newest \in Nat /\ start \in Int /\ state.closed \in Int
  BY DEF FeedInv, FeedTypeOK
<1>2. \A i, j \in DOMAIN given : i < j => Streams!Before(given[i], given[j])
  <2>1. DOMAIN given = 1..Len(given)
    BY <1>1
  <2> QED
    BY <1>1, <2>1 DEF OrderInv, Ordered
<1>3. ASSUME NEW n \in Streams!ClosedIn(given), NEW m \in start..n PROVE m \in Streams!ClosedIn(given) \cup silent
  <2>1. PICK i \in 1..Len(given) : Streams!IsClosed(given[i]) /\ given[i].n = n
    BY <1>1, ClosedInIs
  <2>2. n \in Nat /\ n < newest /\ start # Streams!None
    <3>1. n < newest
      BY <1>1, <2>1 DEF PastInv, Past
    <3>2. given # <<>>
      BY <1>1, <2>1
    <3> QED
      BY <1>1, <3>1, <3>2, ClosedInTypes DEF StartInv
  <2>3. ASSUME NEW s \in Seq(Rows), Ahead(given, s), m \in Streams!ClosedIn(s) PROVE m \in Streams!ClosedIn(given)
    <3>1. PICK j \in 1..Len(s) : Streams!IsClosed(s[j]) /\ s[j].n = m
      BY <2>3, ClosedInIs
    <3>2. n < m \/ (n = m /\ ~Streams!IsClosed(given[i]))
      BY <2>1, <2>3, <3>1 DEF Ahead, Streams!Before
    <3> QED
      BY <1>1, <2>1, <2>2, <3>2
  <2>4. CASE ~Streams!Polls
    <3>1. m \in start..(newest - 1)
      BY <1>1, <2>2
    <3>2. m \in Streams!ClosedIn(given) \/ m \in Streams!ClosedIn(inHand) \/ m \in Streams!ClosedIn(unheard) \/ m \in silent
      BY <1>1, <2>2, <2>4, <3>1 DEF SocketInv
    <3> QED
      BY <1>1, <2>3, <3>2 DEF OrderInv
  <2>5. CASE Streams!Polls
    <3>1. n <= state.closed
      BY <1>1, <2>1, <2>5 DEF PassedInv
    <3>2. m \in start..state.closed
      BY <1>1, <2>2, <3>1
    <3> QED
      BY <1>1, <2>2, <2>5, <3>2 DEF EmittedInv
  <2> QED
    BY <2>4, <2>5
<1> QED
  BY <1>2, <1>3 DEF Streams!OnceInOrder


-----------------------------------------------------------------------------
(* The parts together *)

OnSpot == part = "spot"
OnMeta == part = "meta"
OnFeed == part = "feed"
OnCall == part = "call"

LEMMA PartsStart ==
    ASSUME Init
    PROVE  /\ OnSpot => SpotPairs!Init
           /\ OnMeta => MetaPairs!Init
           /\ OnFeed => Streams!Init
           /\ OnCall => Calls!Init
  BY DEF Init, OnSpot, OnMeta, OnFeed, OnCall

\* Each part goes on alone.
LEMMA PartsStep ==
    ASSUME [Next]_vars
    PROVE  /\ part' = part
           /\ OnSpot => [SpotPairs!Next]_(SpotPairs!vars)
           /\ OnMeta => [MetaPairs!Next]_(MetaPairs!vars)
           /\ OnFeed => [Streams!Next]_(Streams!vars)
           /\ OnCall => [Calls!Next]_(Calls!vars)
<1>1. CASE UNCHANGED vars
  <2>1. UNCHANGED <<part, setup, budget, pairVars, spotVars, metaVars, feedVars, callVars, dataVars>>
    BY <1>1 DEF vars
  <2> QED
    BY <2>1 DEF pairVars, spotVars, metaVars, feedVars, callVars,
                SpotPairs!vars, MetaPairs!vars, Streams!vars, Calls!vars
<1>2. CASE OfSpot(SpotPairs!Next)
  BY <1>2 DEF OfSpot, OnSpot, OnMeta, OnFeed, OnCall
<1>3. CASE OfMeta(MetaPairs!Next)
  BY <1>3 DEF OfMeta, OnSpot, OnMeta, OnFeed, OnCall
<1>4. CASE OfFeed(Streams!Next)
  BY <1>4 DEF OfFeed, OnSpot, OnMeta, OnFeed, OnCall
<1>5. CASE OfCall(Calls!Next)
  BY <1>5 DEF OfCall, OnSpot, OnMeta, OnFeed, OnCall
<1>6. CASE OfData(Candles!Next)
  BY <1>6 DEF OfData, OnSpot, OnMeta, OnFeed, OnCall
<1> QED
  BY <1>1, <1>2, <1>3, <1>4, <1>5, <1>6 DEF Next

\* The feeds and the calls: no hypothesis is needed.
DataInv == (OnFeed => FeedInv) /\ (OnCall => CallInv)

LEMMA DataStart == ASSUME Init PROVE DataInv
<1>1. OnFeed => FeedInv
  BY PartsStart, ScenariosAssumption, FeedInitHolds
<1>2. OnCall => CallInv
  BY PartsStart, ScenariosAssumption, CallInitHolds
<1> QED
  BY <1>1, <1>2 DEF DataInv

LEMMA DataKeep == ASSUME DataInv, [Next]_vars PROVE DataInv'
<1>1. (OnFeed' <=> OnFeed) /\ (OnCall' <=> OnCall)
  BY PartsStep DEF OnFeed, OnCall
<1>2. OnFeed => FeedInv'
  BY PartsStep, FeedNextKeeps DEF DataInv
<1>3. OnCall => CallInv'
  BY PartsStep, CallNextKeeps DEF DataInv
<1> QED
  BY <1>1, <1>2, <1>3 DEF DataInv

\* The pairs: where a spot process stops only between two items.
PairsInv ==
    /\ OnSpot => SpotPairs!IInv
    /\ OnMeta => MetaPairs!IInv

LEMMA PairsStart == ASSUME SpotPairs!BetweenItems, Init PROVE PairsInv
<1>1. OnSpot => SpotPairs!IInv
  BY PartsStart, SpotPairs!InitHolds
<1>2. OnMeta => MetaPairs!IInv
  BY PartsStart, ScenariosAssumption, MetaPairs!InitHolds
<1> QED
  BY <1>1, <1>2 DEF PairsInv

LEMMA PairsKeep == ASSUME PairsInv, [Next]_vars PROVE PairsInv'
<1>1. (OnSpot' <=> OnSpot) /\ (OnMeta' <=> OnMeta)
  BY PartsStep DEF OnSpot, OnMeta
<1>2. OnSpot => SpotPairs!IInv'
  BY PartsStep, SpotPairs!StepKeeps DEF PairsInv
<1>3. OnMeta => MetaPairs!IInv'
  BY PartsStep, MetaPairs!StepKeeps DEF PairsInv
<1> QED
  BY <1>1, <1>2, <1>3 DEF PairsInv

\* For every venue, every subscriber and any number of refusals and broken connections: the
\* rows a feed gives are in order, no closed candle twice, and none left out that it could
\* hear of (_stream.py, _ws_stream.py).
THEOREM FeedsInOrder == Spec => []OnceInOrder
<1>1. Init => DataInv
  BY DataStart
<1>2. DataInv /\ [Next]_vars => DataInv'
  BY DataKeep
<1>3. DataInv => OnceInOrder
  BY GivenInOrder DEF DataInv, OnceInOrder, OnFeed
<1> QED
  BY <1>1, <1>2, <1>3, PTL DEF Spec

\* For every call, position and number of faults: an order is executed once more only for an
\* answer that never came, within its recvWindow, and a close never opens the opposite
\* position (_binance_client.py).
THEOREM CallsAsDecided == Spec => []OrdersAsDecided
<1>1. Init => DataInv
  BY DataStart
<1>2. DataInv /\ [Next]_vars => DataInv'
  BY DataKeep
<1>3. DataInv => OrdersAsDecided
  BY DEF DataInv, CallInv, OrdersAsDecided, OnCall
<1> QED
  BY <1>1, <1>2, <1>3, PTL DEF Spec

\* For every scenario in which a spot process stops between two items: between two items of
\* the worker the trader and its venue agree, on spot and on MetaTrader (_execution.py).
THEOREM TraderAndVenueAgree == SpotPairs!BetweenItems => (Spec => []VenueAgrees)
<1> SUFFICES ASSUME SpotPairs!BetweenItems PROVE Spec => []VenueAgrees
  OBVIOUS
<1>1. Init => PairsInv
  BY PairsStart
<1>2. PairsInv /\ [Next]_vars => PairsInv'
  BY PairsKeep
<1>3. PairsInv => VenueAgrees
  BY SpotPairs!InvariantSays, MetaPairs!InvariantSays DEF PairsInv, VenueAgrees, OnSpot, OnMeta
<1> QED
  BY <1>1, <1>2, <1>3, PTL DEF Spec
=============================================================================
