------------------------------ MODULE Brokers -------------------------------
(***************************************************************************)
(* What talks to a venue: a spot pair, a MetaTrader pair, the candle and   *)
(* account feeds, the signed calls and the candle collection.  They share  *)
(* no state: `part` says which of them a behaviour is about, and the       *)
(* variables of the others stay as they are.                               *)
(*                                                                         *)
(* The pairs are instances of the modules of their proofs, which bring     *)
(* their theorems with them.                                               *)
(***************************************************************************)
CONSTANTS SpotSetups, MetaSetups, FeedSetups, CallSetups, CollectorSetups \* the scenarios of each

VARIABLES
    part, setup, budget,
    mode, trades, journal, todo, entries,
    hold, orders, feed, unseen, open, told,
    venue, late, snap, forgotten,
    newest, version, link, unheard, inHand, state, key, stopped, given, start, silent,
    leg, left, attempt, age, stamp, toClose, outcome, placed, failed, position, executed, lost, oldest,
    now, file, gaps, rows, busy

pairVars == <<mode, trades, journal, todo, entries>>
spotVars == <<hold, orders, feed, unseen, open, told>>
metaVars == <<venue, late, snap, forgotten>>
feedVars == <<newest, version, link, unheard, inHand, state, key, stopped, given, start, silent>>
callVars == <<leg, left, attempt, age, stamp, toClose, outcome, placed, failed, position, executed, lost, oldest>>
dataVars == <<now, file, gaps, rows, busy>>
vars == <<part, setup, budget, pairVars, spotVars, metaVars, feedVars, callVars, dataVars>>

SpotPairs == INSTANCE SpotPairProofs WITH Setups <- SpotSetups
MetaPairs == INSTANCE MetaPairProofs WITH Setups <- MetaSetups
Streams   == INSTANCE Feeds WITH Setups <- FeedSetups
Calls     == INSTANCE SignedCalls WITH Setups <- CallSetups
Candles   == INSTANCE Collector WITH Setups <- CollectorSetups

ASSUME ScenariosAssumption ==
    /\ SpotSetups \subseteq SpotPairs!Setup /\ MetaSetups \subseteq MetaPairs!Setup
    /\ FeedSetups \subseteq Streams!Setup /\ CallSetups \subseteq Calls!Setup
    /\ CollectorSetups \subseteq Candles!Setup

NoPair == mode = 0 /\ trades = 0 /\ journal = 0 /\ todo = 0 /\ entries = 0
NoSpot == hold = 0 /\ orders = 0 /\ feed = 0 /\ unseen = 0 /\ open = 0 /\ told = 0
NoMeta == venue = 0 /\ late = 0 /\ snap = 0 /\ forgotten = 0
NoFeed == /\ newest = 0 /\ version = 0 /\ link = 0 /\ unheard = 0 /\ inHand = 0 /\ state = 0
          /\ key = 0 /\ stopped = 0 /\ given = 0 /\ start = 0 /\ silent = 0
NoCall == /\ leg = 0 /\ left = 0 /\ attempt = 0 /\ age = 0 /\ stamp = 0 /\ toClose = 0 /\ outcome = 0
          /\ placed = 0 /\ failed = 0 /\ position = 0 /\ executed = 0 /\ lost = 0 /\ oldest = 0
NoData == now = 0 /\ file = 0 /\ gaps = 0 /\ rows = 0 /\ busy = 0

Init ==
    \/ part = "spot" /\ SpotPairs!Init /\ NoMeta /\ NoFeed /\ NoCall /\ NoData
    \/ part = "meta" /\ MetaPairs!Init /\ NoSpot /\ NoFeed /\ NoCall /\ NoData
    \/ part = "feed" /\ Streams!Init /\ NoPair /\ NoSpot /\ NoMeta /\ NoCall /\ NoData
    \/ part = "call" /\ Calls!Init /\ NoPair /\ NoSpot /\ NoMeta /\ NoFeed /\ NoData
    \/ part = "data" /\ Candles!Init /\ NoPair /\ NoSpot /\ NoMeta /\ NoFeed /\ NoCall

OfSpot(A) == part = "spot" /\ A /\ UNCHANGED <<part, metaVars, feedVars, callVars, dataVars>>
OfMeta(A) == part = "meta" /\ A /\ UNCHANGED <<part, spotVars, feedVars, callVars, dataVars>>
OfFeed(A) == part = "feed" /\ A /\ UNCHANGED <<part, pairVars, spotVars, metaVars, callVars, dataVars>>
OfCall(A) == part = "call" /\ A /\ UNCHANGED <<part, pairVars, spotVars, metaVars, feedVars, dataVars>>
OfData(A) == part = "data" /\ A /\ UNCHANGED <<part, pairVars, spotVars, metaVars, feedVars, callVars>>

Next == \/ OfSpot(SpotPairs!Next) \/ OfMeta(MetaPairs!Next)
        \/ OfFeed(Streams!Next) \/ OfCall(Calls!Next) \/ OfData(Candles!Next)

\* The fairness of each part, as its module states it (`part` never changes, so that the
\* fairness of the disjunction is the fairness of each).
Work == OfSpot(SpotPairs!Work) \/ OfMeta(MetaPairs!Work) \/ OfFeed(Streams!Work) \/ OfData(Candles!Collect)
Candle == OfSpot(SpotPairs!Candle) \/ OfMeta(MetaPairs!Candle)
Spec == Init /\ [][Next]_vars /\ WF_vars(Work) /\ SF_vars(Candle) /\ SF_vars(OfSpot(SpotPairs!UserData))

-----------------------------------------------------------------------------
(* Properties: those of the modules, each where its part is *)

\* Between two items of the worker the trader and its venue agree.  Spot: what is held
\* without a working order, or without a trade, the user was told of.  MetaTrader: a tracked
\* stop stands where the engine believes it, unless no answer says where it stands, and no
\* position is forgotten but by a request whose reply was lost, a crash, or a failed start.
VenueAgrees == /\ part = "spot" => SpotPairs!NeverNakedUnsaid
               /\ part = "meta" => MetaPairs!VenueAgrees

\* No trailing stop of a spot trade stays due for ever.
DueStopLands == []<>(part = "spot" => SpotPairs!StopsStand)

\* Again and again the trades have the size of what is at the venue, whatever was closed by
\* an order, by hand, or twice over.
LedgerCatchesUp == []<>(/\ part = "spot" => SpotPairs!Settled
                        /\ part = "meta" => MetaPairs!VolumesAgree)

\* Every closed candle that a feed can hear of is given to the callback once, in order.
OnceInOrder == part = "feed" => Streams!OnceInOrder

\* However often it is refused or broken, a feed is up again and again with every candle it
\* could hear of given to the callback.
FeedLives == []<>(part = "feed" => Streams!Ended \/ Streams!UpToDate)

\* An order is executed once more only for an answer that never came, and not later than its
\* recvWindow after it was decided; a close never opens the opposite position.
OrdersAsDecided == part = "call" => Calls!OrdersAsDecided

\* Collecting again and again brings every candle the venue has.
Collected == []<>(part = "data" => Candles!Complete)
=============================================================================
