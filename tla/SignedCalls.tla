----------------------------- MODULE SignedCalls -----------------------------
(***************************************************************************)
(* A Binance order as the connector sends it (exchange/binance/_rest.py,   *)
(* create_order and close_position of _client.py): requests signed once    *)
(* and tried again, with a venue that executes, refuses, limits or loses   *)
(* them.                                                                   *)
(*                                                                         *)
(* One call of the connector: an entry with the protective orders it was   *)
(* asked to attach, or a close, which reads the position first.  Each of   *)
(* its requests is a leg.  Time is the seconds since a leg was begun.      *)
(***************************************************************************)
EXTENDS Integers

CONSTANT Setups   \* the scenarios to explore: the call, and what may go wrong

Legs == {"read", "entry", "close", "stop_loss", "take_profit"}
Setup == [legs     : SUBSET Legs,              \* of the call
          position : Nat,                      \* held when it starts
          faults   : [{"loss", "drop", "slow", "limit", "refuse", "unauthorised", "moved"} -> Nat]]

MaxAttempts == 5
RecvWindow == 5
Timeout == 30
RetryAfter == {1, 60}
Quantity == 1       \* of an entry

VARIABLES
    setup,     \* the scenario, fixed at the start
    leg,       \* of the request in progress, "none" before and between
    left,      \* the legs still to come
    attempt,
    age,       \* seconds since the leg was begun
    stamp,     \* the timestamp in its query, in those seconds
    toClose,   \* the quantity close_position read
    outcome,   \* of the call: "", "returned", "OrderError", "ConnectionFailed", "AuthenticationError"
    placed,    \* legs the result says were placed
    failed,    \* legs whose error the result records
    position,  \* at the venue, below zero when short
    executed,  \* history: how often the venue executed each leg
    lost,      \* history: answers of each leg that never arrived
    oldest,    \* history: the age of the oldest request the venue executed
    budget     \* what the bounds leave
vars == <<setup, leg, left, attempt, age, stamp, toClose, outcome, placed, failed, position, executed, lost,
          oldest, budget>>

Spend(what) == budget[what] > 0 /\ budget' = [budget EXCEPT ![what] = @ - 1]
Order(l) == CASE l = "read" -> 1 [] l \in {"entry", "close"} -> 2 [] l = "stop_loss" -> 3 [] OTHER -> 4
FirstOf(legs) == CHOOSE l \in legs : \A o \in legs : Order(l) <= Order(o)
Larger(a, b) == IF a > b THEN a ELSE b
Smaller(a, b) == IF a < b THEN a ELSE b

-----------------------------------------------------------------------------
(* The venue *)

\* Variant: a close that is not reduce_only.
FilledPlain == CASE leg = "entry" -> position + Quantity
                 [] leg = "close" -> position - toClose
                 [] OTHER -> position

\* A reduce_only order never takes more than is there.
Filled == CASE leg = "entry" -> position + Quantity
            [] leg = "close" -> position - Smaller(toClose, position)
            [] OTHER -> position

\* A request signed longer ago than its recvWindow is refused, as is a reduce_only order when
\* nothing is held.
Executable == age - stamp <= RecvWindow /\ (leg = "close" => position > 0)

Execute == /\ Executable
           /\ position' = Filled
           /\ executed' = [executed EXCEPT ![leg] = @ + 1]
           /\ oldest' = Larger(oldest, age)
NoExecution == UNCHANGED <<position, executed, oldest>>

-----------------------------------------------------------------------------
(* BinanceREST.signed, and _request's loop *)

Sign == /\ outcome = "" /\ leg = "none" /\ left # {}
        /\ leg' = FirstOf(left) /\ left' = left \ {FirstOf(left)}
        /\ attempt' = 0 /\ age' = 0 /\ stamp' = 0
        /\ UNCHANGED <<setup, toClose, outcome, placed, failed, position, executed, lost, oldest, budget>>

Again(seconds) == /\ attempt' = attempt + 1 /\ age' = age + seconds /\ stamp' = stamp
                  /\ UNCHANGED <<leg, left, toClose, outcome, placed, failed>>

Raise(error) == /\ outcome' = error /\ leg' = "none"
                /\ UNCHANGED <<left, attempt, age, stamp, toClose, placed, failed>>

\* The connection breaks or times out: wait 2 ** attempt and try again, or give up.
Broken(seconds) == IF attempt = MaxAttempts - 1 THEN Raise("ConnectionFailed")
                   ELSE Again(seconds + 2 ^ attempt)

\* The leg is done; the call returns with its last one.
Done == /\ leg' = "none"
        /\ outcome' = IF left = {} THEN "returned" ELSE ""
        /\ UNCHANGED <<left, attempt, age, stamp>>

\* _attach_sl_tp records an OrderError of its own legs and goes on; others propagate.
Refused == IF leg \in {"stop_loss", "take_profit"}
           THEN Done /\ failed' = failed \cup {leg} /\ UNCHANGED <<toClose, placed>>
           ELSE Raise("OrderError")

-----------------------------------------------------------------------------
(* What an attempt comes to *)

Trying == outcome = "" /\ leg # "none"

\* close_position: no position is an OrderError; its orders are reduce_only.
Answered == IF leg = "read" /\ position = 0 THEN Raise("OrderError")
            ELSE /\ Done
                 /\ toClose' = IF leg = "read" THEN position ELSE toClose
                 /\ placed' = IF leg = "read" THEN placed ELSE placed \cup {leg}
                 /\ UNCHANGED failed

\* The venue executes it and answers.
Accepted == /\ Trying /\ Execute /\ Answered
            /\ UNCHANGED <<setup, lost, budget>>

\* It never reaches the venue.
NotReached == /\ Trying /\ Spend("drop") /\ NoExecution /\ Broken(0)
              /\ UNCHANGED <<setup, lost>>

\* The venue executes it, or refuses a stale one, and its answer is lost: at once, or in a
\* timeout.
AnswerLost == /\ Trying
              /\ \/ Spend("loss") /\ Broken(0)
                 \/ Spend("slow") /\ Broken(Timeout)
              /\ Execute \/ (~Executable /\ NoExecution)
              /\ lost' = [lost EXCEPT ![leg] = @ + 1]
              /\ UNCHANGED setup

\* 429, 418: wait what Retry-After says; the last attempt's wait ends in ConnectionFailed.
RateLimited == /\ Trying /\ Spend("limit") /\ NoExecution
               /\ \E seconds \in RetryAfter :
                     IF attempt = MaxAttempts - 1 THEN Raise("ConnectionFailed") ELSE Again(seconds)
               /\ UNCHANGED <<setup, lost>>

\* 5xx is an OrderError like any other; the venue may have executed it all the same.
ServerError == /\ Spend("refuse") /\ (Execute \/ NoExecution) /\ Refused

\* 4xx: its own error, or the request is stale; 401 is an AuthenticationError.
Rejected == /\ Trying
            /\ \/ ServerError
               \/ ~Executable /\ NoExecution /\ Refused /\ UNCHANGED budget
               \/ Spend("unauthorised") /\ NoExecution /\ Raise("AuthenticationError")
            /\ UNCHANGED <<setup, lost>>

\* The position shrinks behind the caller's back: a stop fills, a liquidation.
Moved == /\ outcome = "" /\ position > 0 /\ Spend("moved")
         /\ position' = position - 1
         /\ UNCHANGED <<setup, leg, left, attempt, age, stamp, toClose, outcome, placed, failed, executed, lost,
                        oldest>>

-----------------------------------------------------------------------------
Init == /\ setup \in Setups
        /\ leg = "none" /\ left = setup.legs /\ attempt = 0 /\ age = 0 /\ stamp = 0 /\ toClose = 0
        /\ outcome = "" /\ placed = {} /\ failed = {}
        /\ position = setup.position
        /\ executed = [l \in Legs |-> 0] /\ lost = [l \in Legs |-> 0]
        /\ oldest = 0 /\ budget = setup.faults

Next == Sign \/ Accepted \/ NotReached \/ AnswerLost \/ RateLimited \/ Rejected \/ Moved

Spec == Init /\ [][Next]_vars

-----------------------------------------------------------------------------
(* Properties *)

\* What the venue has answered is not sent again: a leg is executed once, and once more for
\* each of its answers that was lost on the way; what the result says was placed was executed.
SentAgainOnlyUnheard ==
    /\ \A l \in Legs : executed[l] <= 1 + lost[l]
    /\ \A l \in placed : executed[l] > 0

\* However long an order is retried or held back by a rate limit, it is not filled later than
\* its recvWindow after it was decided (_request signs the query once).
NothingLate == oldest <= RecvWindow

\* A close never opens the opposite position, whatever fills between its reading of the
\* position and its order, and however often that order is executed.
CloseNeverFlips == position >= 0

\* The three together: what the trader decided is what the venue was made to do.
OrdersAsDecided == SentAgainOnlyUnheard /\ NothingLate /\ CloseNeverFlips
=============================================================================
