--------------------------- MODULE MetaPairProofs ---------------------------
(***************************************************************************)
(* The positions of a MetaTrader pair, for every scenario: between two     *)
(* items a tracked stop stands at least where the engine believes it, save *)
(* where no answer says so, and no position is left behind but by the      *)
(* faults and the failed starts that account for it.                       *)
(***************************************************************************)
EXTENDS MetaPair, FiniteSetTheorems, SequenceTheorems, TLAPS

IsSeq(s) == s \in Seq({s[i] : i \in 1..Len(s)})

\* The terminal: positions are never forgotten, and only lose volume.
PositionOK(p, last) ==
    /\ p = [trade |-> p.trade, qty |-> p.qty, sl |-> p.sl]
    /\ p.trade \in 1..last /\ p.qty \in Nat /\ p.sl \in Int
VenueOK(v, last) == IsSeq(v) /\ \A i \in 1..Len(v) : PositionOK(v[i], last)
RequestOK(q, n, last) ==
    /\ q.kind \in {"open", "close", "modify"}
    /\ IF q.kind = "open" THEN q.id \in 1..last /\ q.n \in Nat
       ELSE q.id \in 1..n /\ q.n \in (IF q.kind = "close" THEN Nat ELSE Int)
LateOK(l, n, last) == IsSeq(l) /\ \A i \in 1..Len(l) : RequestOK(l[i], n, last)
GoesOn(v, w) ==
    /\ Len(v) <= Len(w)
    /\ \A i \in 1..Len(v) : w[i].trade = v[i].trade /\ w[i].qty <= v[i].qty
OpenIn(v) == {i \in 1..Len(v) : v[i].qty > 0}

\* The trades of a book: each has the ticket of a position opened for it.
TradeOK(r, t, v) ==
    /\ r = [size |-> r.size, hits |-> r.hits, sl |-> r.sl, ticket |-> r.ticket,
            free |-> r.free, pending |-> r.pending, unsure |-> r.unsure]
    /\ r.size \in Nat /\ r.hits \in Nat /\ r.sl \in Int
    /\ r.free \in BOOLEAN /\ r.pending \in BOOLEAN /\ r.unsure \in BOOLEAN
    /\ r.ticket \in 1..Len(v) /\ v[r.ticket].trade = t /\ v[r.ticket].qty <= r.size
BookOK(book, v, last) ==
    DOMAIN book \subseteq 1..last /\ \A t \in DOMAIN book : TradeOK(book[t], t, v)
Tickets(book) == {book[t].ticket : t \in DOMAIN book}
Waiting(tasks) == IF tasks /= <<>> /\ Head(tasks).op = "ticket" THEN {Head(tasks).arg} ELSE {}

\* What a book believes of a stop holds, or is known not to, or no answer says.
Agrees(r, v) == r.unsure \/ r.pending \/ v[r.ticket].qty = 0 \/ r.sl <= v[r.ticket].sl
Bare(r, v) == v[r.ticket].sl = NoStop
Owed(t, tasks) == tasks /= <<>> /\ Head(tasks).op = "settled" /\ Head(tasks).t = t
Repaired(t, tasks) == tasks /= <<>> /\ Head(tasks).op = "repair" /\ Head(tasks).t = t /\ Head(tasks).arg = NoStop

\* What an item has left to do: first what concerns a trade, once each; one entry.
Stages == {"retry", "free", "raise", "levels", "level", "exit", "enter", "reconcile", "flush"}
Calling == {"sync", "free_sl", "raise_sl"}
OfTrade == Calling \cup {"settled"}
TaskOK(x, ids, last) ==
    /\ x.op \in Stages \cup OfTrade \cup {"ticket", "closing"}
    /\ x.op \in OfTrade => x.t \in ids
    /\ x.op = "ticket" => x.t = last /\ x.t \notin ids
TasksOK(s, ids, last) ==
    /\ IsSeq(s)
    /\ \A i \in 1..Len(s) : /\ TaskOK(s[i], ids, last)
                            /\ i > 1 => s[i].op \in Stages \cup Calling
                            /\ s[i].op = "flush" <=> i = Len(s)
    /\ \A i, j \in 1..Len(s) : i < j =>
           /\ s[j].op \in OfTrade => s[i].op \in OfTrade /\ s[i].t /= s[j].t
           /\ s[j].op = "enter" => s[i].op \notin {"enter", "ticket"}
\* What a loop of closes has left to do, and what it has done.
ClosedOK(a, book, v) ==
    /\ IsSeq(a.left) /\ \A i \in 1..Len(a.left) : a.left[i] \in DOMAIN book
    /\ a.done \subseteq DOMAIN book /\ \A t \in a.done : v[book[t].ticket].qty = 0
Early(s) == \E i \in 1..Len(s) : s[i].op \in {"enter", "ticket"}

\* What a restart has left to do: the trades of the journal, once each.
StartOK(s, ids, old) ==
    /\ IsSeq(s) /\ s /= <<>>
    /\ \A i \in 1..Len(s) :
           /\ s[i].op \in {"repair", "adopt", "flush"}
           /\ s[i].op = "repair" => i = 1 /\ s[i].t \in ids
           /\ s[i].op = "adopt" => s[i].t \in old \ ids
           /\ s[i].op = "flush" <=> i = Len(s)
    /\ \A i, j \in 1..Len(s) : i < j /\ s[j].op = "adopt" => s[i].t /= s[j].t
Adopting(t, s) == \E i \in 1..Len(s) : s[i].op = "adopt" /\ s[i].t = t

-----------------------------------------------------------------------------
\* The trades that count: of a process that is down, those of its journal.
Books == IF mode = "up" THEN trades ELSE journal
Held == Tickets(Books) \cup Waiting(todo) \cup forgotten
Left == Spent("resend") + 2 * Spent("lose") + Spent("late") + Spent("crash")
InTime == Spent("late") = 0

TypeInv ==
    /\ setup \in Setup /\ entries \in Nat /\ mode \in {"up", "down", "starting"}
    /\ budget \in [Fault -> Nat] /\ \A f \in Fault : budget[f] <= setup.faults[f]
    /\ VenueOK(venue, entries) /\ LateOK(late, Len(venue), entries) /\ Len(late) <= Spent("late")
    /\ BookOK(journal, venue, entries) /\ forgotten \subseteq 1..Len(venue)

Counted == Cardinality(OpenIn(venue) \ Held) + Len(late) <= Left

UpInv ==
    /\ TasksOK(todo, Tracked, entries)
    /\ todo = <<>> => journal = trades
    /\ BookOK(trades, venue, entries)
    /\ Tracked \subseteq DOMAIN journal \cup {entries}
    /\ Early(todo) => Tracked \subseteq DOMAIN journal
    /\ \A t \in Tracked \cap DOMAIN journal : journal[t].ticket = trades[t].ticket
    /\ Doing("closing") => ClosedOK(Arg, trades, venue)
    /\ Doing("ticket") =>
           /\ Arg \in 1..Len(venue) /\ venue[Arg].trade = It /\ It \notin DOMAIN journal
           /\ \A i \in 1..Len(venue) : venue[i].trade = It => venue[i].qty <= Size
           /\ \A i \in 1..Len(late) : late[i].kind = "open" => late[i].id /= It
           /\ \A i \in forgotten : venue[i].trade /= It
UpStops ==
    InTime =>
        /\ \A t \in Tracked : Agrees(trades[t], venue) \/ Owed(t, todo)
        /\ \A t \in DOMAIN journal : Agrees(journal[t], venue)
        /\ Doing("ticket") => \A i \in 1..Len(venue) : venue[i].trade = It => -1 <= venue[i].sl

Snapped ==
    /\ GoesOn(snap, venue) /\ Len(snap) \in Nat /\ \A i \in 1..Len(snap) : snap[i].qty \in Nat
    /\ \A t \in DOMAIN journal : journal[t].ticket \in 1..Len(snap)
StartInv ==
    \/ todo = <<Stage("read")>> /\ Tracked = {}
    \/ /\ StartOK(todo, Tracked, DOMAIN journal)
       /\ Snapped
       /\ BookOK(trades, venue, entries)
       /\ Tracked \subseteq DOMAIN journal
       /\ \A t \in Tracked : journal[t].ticket = trades[t].ticket /\ journal[t].sl = trades[t].sl
       /\ \A t \in DOMAIN journal :
              t \in Tracked \/ Adopting(t, todo) \/ snap[journal[t].ticket].qty = 0
StartStops ==
    InTime =>
        /\ \A t \in DOMAIN journal : Agrees(journal[t], venue) \/ Bare(journal[t], venue)
        /\ mode = "starting" /\ todo /= <<Stage("read")>> =>
               /\ \A t \in Tracked : Agrees(trades[t], venue) \/ (Repaired(t, todo) /\ Bare(trades[t], venue))
               /\ \A t \in DOMAIN journal \ Tracked :
                      venue[journal[t].ticket].sl = snap[journal[t].ticket].sl

IInv ==
    /\ TypeInv /\ Counted
    /\ mode = "up" => UpInv /\ UpStops
    /\ mode = "down" => todo = <<>> /\ Tracked = {}
    /\ mode = "starting" => StartInv
    /\ mode /= "up" => StartStops


-----------------------------------------------------------------------------
(* Sequences of anything *)

LEMMA SeqIs == ASSUME NEW X, NEW s \in Seq(X) PROVE IsSeq(s)
<1>1. Len(s) \in Nat /\ s = [i \in 1..Len(s) |-> s[i]]
  OBVIOUS
<1> QED
  BY <1>1 DEF IsSeq

LEMMA SeqLen == ASSUME NEW s, IsSeq(s) PROVE Len(s) \in Nat /\ DOMAIN s = 1..Len(s)
  BY DEF IsSeq

LEMMA SeqMade ==
    ASSUME NEW s, NEW n \in Nat, s = [i \in 1..n |-> s[i]]
    PROVE  IsSeq(s) /\ Len(s) = n
<1>1. s \in Seq({s[i] : i \in 1..n})
  <2>1. s \in [1..n -> {s[i] : i \in 1..n}]
    OBVIOUS
  <2> QED
    BY <2>1
<1>2. Len(s) = n
  OBVIOUS
<1> QED
  BY <1>1, <1>2 DEF IsSeq

LEMMA SeqConcat ==
    ASSUME NEW s, NEW t, IsSeq(s), IsSeq(t)
    PROVE  /\ IsSeq(s \o t) /\ Len(s \o t) = Len(s) + Len(t)
           /\ \A i \in 1..Len(s \o t) :
                 \/ i \in 1..Len(s) /\ (s \o t)[i] = s[i]
                 \/ i - Len(s) \in 1..Len(t) /\ (s \o t)[i] = t[i - Len(s)]
<1> DEFINE X == {s[i] : i \in 1..Len(s)} \cup {t[i] : i \in 1..Len(t)}
<1>1. s \in Seq(X) /\ t \in Seq(X)
  <2>1. s = [i \in 1..Len(s) |-> s[i]] /\ Len(s) \in Nat
    BY DEF IsSeq
  <2>2. t = [i \in 1..Len(t) |-> t[i]] /\ Len(t) \in Nat
    BY DEF IsSeq
  <2> QED
    BY <2>1, <2>2
<1> HIDE DEF X
<1>2. s \o t \in Seq(X) /\ Len(s \o t) = Len(s) + Len(t)
  BY <1>1
<1>3. \A i \in 1..Len(s) : (s \o t)[i] = s[i]
  BY <1>1
<1>4. \A i \in 1..Len(s \o t) : i \notin 1..Len(s) =>
          i - Len(s) \in 1..Len(t) /\ (s \o t)[i] = t[i - Len(s)]
  BY <1>1
<1> QED
  BY <1>2, <1>3, <1>4, SeqIs

LEMMA SeqTail ==
    ASSUME NEW s, IsSeq(s), s /= <<>>
    PROVE  /\ IsSeq(Tail(s)) /\ Len(Tail(s)) = Len(s) - 1 /\ Len(s) > 0 /\ Head(s) = s[1]
           /\ \A i \in 1..Len(Tail(s)) : i + 1 \in 1..Len(s) /\ Tail(s)[i] = s[i + 1]
<1> DEFINE X == {s[i] : i \in 1..Len(s)}
<1>1. s \in Seq(X)
  BY DEF IsSeq
<1> HIDE DEF X
<1>2. /\ Tail(s) \in Seq(X) /\ Len(Tail(s)) = Len(s) - 1 /\ Len(s) \in Nat /\ Len(s) > 0 /\ Head(s) = s[1]
      /\ \A i \in 1..Len(Tail(s)) : Tail(s)[i] = s[i + 1]
  BY <1>1
<1>3. \A i \in 1..Len(Tail(s)) : i + 1 \in 1..Len(s)
  BY <1>2
<1> QED
  BY <1>2, <1>3, SeqIs

LEMMA SeqAppend ==
    ASSUME NEW s, IsSeq(s), NEW x
    PROVE  /\ IsSeq(Append(s, x)) /\ Len(Append(s, x)) = Len(s) + 1 /\ Append(s, x)[Len(s) + 1] = x
           /\ \A i \in 1..Len(s) : Append(s, x)[i] = s[i]
<1> DEFINE X == {s[i] : i \in 1..Len(s)} \cup {x}
<1>1. s \in Seq(X) /\ x \in X
  <2>1. s = [i \in 1..Len(s) |-> s[i]] /\ Len(s) \in Nat
    BY DEF IsSeq
  <2> QED
    BY <2>1
<1> HIDE DEF X
<1>2. /\ Append(s, x) \in Seq(X) /\ Len(Append(s, x)) = Len(s) + 1 /\ Append(s, x)[Len(s) + 1] = x
      /\ \A i \in 1..Len(s) : Append(s, x)[i] = s[i]
  BY <1>1
<1> QED
  BY <1>2, SeqIs

LEMMA SeqOne == ASSUME NEW x PROVE IsSeq(<<x>>) /\ Len(<<x>>) = 1 /\ <<x>>[1] = x
<1>1. <<x>> \in Seq({x}) /\ Len(<<x>>) = 1 /\ <<x>>[1] = x
  OBVIOUS
<1> QED
  BY <1>1, SeqIs

LEMMA SeqTwo == ASSUME NEW x, NEW y PROVE IsSeq(<<x, y>>) /\ Len(<<x, y>>) = 2 /\ <<x, y>>[1] = x /\ <<x, y>>[2] = y
<1>1. <<x, y>> \in Seq({x, y}) /\ Len(<<x, y>>) = 2 /\ <<x, y>>[1] = x /\ <<x, y>>[2] = y
  OBVIOUS
<1> QED
  BY <1>1, SeqIs

LEMMA SeqNone == IsSeq(<<>>) /\ Len(<<>>) = 0
<1>1. <<>> \in Seq({}) /\ Len(<<>>) = 0
  OBVIOUS
<1> QED
  BY <1>1, SeqIs

\* Ranking a finite set of numbers names its elements, and nothing else.
LEMMA RanksName ==
    ASSUME NEW S, IsFiniteSet(S), S \subseteq Nat
    PROVE  /\ \A k \in 1..Cardinality(S) : Ascending(S)[k] \in S
           /\ \A k, l \in 1..Cardinality(S) : k /= l => Ascending(S)[k] /= Ascending(S)[l]
           /\ \A k \in 1..Cardinality(S) : Cardinality({j \in S : j <= Ascending(S)[k]}) = k
           /\ \A i \in S : \E k \in 1..Cardinality(S) : Ascending(S)[k] = i
<1> DEFINE n == Cardinality(S)
           Upto(i) == {j \in S : j <= i}
           R == [i \in S |-> Cardinality(Upto(i))]
<1>1. n \in Nat
  BY FS_CardinalityType
<1>2. \A i \in S : IsFiniteSet(Upto(i)) /\ Cardinality(Upto(i)) \in 1..n
  <2> TAKE i \in S
  <2>1. Upto(i) \in SUBSET S /\ i \in Upto(i)
    OBVIOUS
  <2>2. IsFiniteSet(Upto(i)) /\ Cardinality(Upto(i)) <= n
    BY <2>1, FS_Subset
  <2>3. Cardinality(Upto(i)) \in Nat /\ Cardinality(Upto(i)) /= 0
    BY <2>1, <2>2, FS_CardinalityType, FS_EmptySet
  <2> HIDE DEF Upto
  <2> QED
    BY <1>1, <2>2, <2>3
<1>3. \A i, j \in S : i < j => Cardinality(Upto(i)) /= Cardinality(Upto(j))
  <2> SUFFICES ASSUME NEW i \in S, NEW j \in S, i < j
               PROVE  Cardinality(Upto(i)) /= Cardinality(Upto(j))
    OBVIOUS
  <2>0. i \in Nat /\ j \in Nat
    OBVIOUS
  <2>1. Upto(i) \in SUBSET Upto(j) /\ j \in Upto(j) /\ j \notin Upto(i)
    <3>1. \A x \in S : x <= i => x <= j
      BY <2>0
    <3>2. j <= j /\ ~(j <= i)
      BY <2>0
    <3> QED
      BY <3>1, <3>2
  <2>2. Upto(i) /= Upto(j)
    BY <2>1
  <2> QED
    BY <1>2, <2>1, <2>2, FS_Subset
<1>4. R \in [S -> 1..n]
  BY <1>2
<1>5. \A i, j \in S : R[i] = R[j] => i = j
  <2> SUFFICES ASSUME NEW i \in S, NEW j \in S, i /= j PROVE R[i] /= R[j]
    OBVIOUS
  <2>1. i < j \/ j < i
    OBVIOUS
  <2> HIDE DEF Upto
  <2> QED
    BY <1>3, <2>1
<1>6. R \in Injection(S, 1..n)
  <2> HIDE DEF R
  <2> QED
    BY <1>4, <1>5 DEF Injection, IsInjective
<1>7. R \in Surjection(S, 1..n)
  <2> HIDE DEF R
  <2>1. IsFiniteSet(1..n) /\ Cardinality(1..n) = n
    BY <1>1, FS_Interval
  <2> QED
    BY <1>6, <2>1, FS_Injection
<1>8. ASSUME NEW k \in 1..n
      PROVE  Ascending(S)[k] \in S /\ Cardinality(Upto(Ascending(S)[k])) = k
  <2>1. \E i \in S : Cardinality(Upto(i)) = k
    <3>1. \E i \in S : R[i] = k
      <4> HIDE DEF R
      <4> QED
        BY <1>7 DEF Surjection
    <3> HIDE DEF Upto
    <3> QED
      BY <3>1
  <2>2. Ascending(S)[k] = CHOOSE i \in S : Cardinality(Upto(i)) = k
    BY DEF Ascending
  <2> HIDE DEF Upto
  <2> QED
    BY <2>1, <2>2
<1>9. \A k \in 1..n : Cardinality({j \in S : j <= Ascending(S)[k]}) = k
  BY <1>8
<1>10. ASSUME NEW i \in S PROVE \E k \in 1..n : Ascending(S)[k] = i
  <2> DEFINE k == Cardinality(Upto(i))
             j == Ascending(S)[k]
  <2>1. k \in 1..n
    BY <1>2
  <2>2. j \in S /\ Cardinality(Upto(j)) = k
    BY <1>8, <2>1
  <2>3. R[i] = k /\ R[j] = k
    BY <2>2
  <2>4. j = i
    <3> HIDE DEF R, j, k
    <3> QED
      BY <1>5, <2>2, <2>3
  <2> HIDE DEF k
  <2> QED
    BY <2>1, <2>4
<1> HIDE DEF Upto
<1> QED
  BY <1>8, <1>9, <1>10 DEF n

\* So a set of numbers has a least one.
LEMMA LeastIs ==
    ASSUME NEW S, IsFiniteSet(S), S \subseteq Nat, S /= {}
    PROVE  \E i \in S : \A j \in S : i <= j
<1> DEFINE n == Cardinality(S)
           i == Ascending(S)[1]
           U == {j \in S : j <= i}
<1>1. n \in Nat /\ n /= 0
  BY FS_CardinalityType, FS_EmptySet
<1>2. 1 \in 1..n
  BY <1>1
<1>3. i \in S /\ Cardinality(U) = 1
  BY <1>2, RanksName
<1>4. IsFiniteSet(U) /\ i \in U
  <2>1. i \in Nat
    BY <1>3
  <2>2. U \subseteq S /\ i \in U
    <3> HIDE DEF i
    <3> QED
      BY <1>3, <2>1
  <2> HIDE DEF U, i
  <2> QED
    BY <2>2, FS_Subset
<1>5. ASSUME NEW j \in S, ~(i <= j) PROVE FALSE
  <2>1. j \in U /\ j /= i
    <3>1. i \in Nat /\ j \in Nat
      BY <1>3
    <3> HIDE DEF i
    <3> QED
      BY <1>3, <1>5, <3>1
  <2>2. IsFiniteSet(U \ {i}) /\ Cardinality(U \ {i}) = 0
    <3> HIDE DEF U
    <3> QED
      BY <1>3, <1>4, FS_RemoveElement
  <2>3. U \ {i} = {}
    <3> HIDE DEF U
    <3> QED
      BY <2>2, FS_EmptySet
  <2> QED
    BY <2>1, <2>3
<1> QED
  BY <1>3, <1>5

-----------------------------------------------------------------------------
(* What is left to do *)

LEMMA OneIn == ASSUME NEW n \in Nat, n > 0 PROVE 1 \in 1..n
  OBVIOUS

LEMMA TaskIs ==
    ASSUME NEW op, NEW t, NEW arg, NEW x, x = Task(op, t, arg)
    PROVE  x.op = op /\ x.t = t /\ x.arg = arg
  BY DEF Task

LEMMA TasksAre ==
    ASSUME NEW s, NEW ids, NEW last, TasksOK(s, ids, last)
    PROVE  /\ IsSeq(s) /\ Len(s) \in Nat
           /\ \A i \in 1..Len(s) : TaskOK(s[i], ids, last)
           /\ \A i \in 1..Len(s) : i > 1 => s[i].op \in Stages \cup Calling
           /\ \A i \in 1..Len(s) : s[i].op = "flush" <=> i = Len(s)
           /\ \A i, j \in 1..Len(s) : i < j /\ s[j].op \in OfTrade => s[i].op \in OfTrade /\ s[i].t /= s[j].t
           /\ \A i, j \in 1..Len(s) : i < j /\ s[j].op = "enter" => s[i].op \notin {"enter", "ticket"}
<1>1. IsSeq(s)
  BY DEF TasksOK
<1>2. Len(s) \in Nat
  BY <1>1, SeqLen
<1>3. \A i \in 1..Len(s) : TaskOK(s[i], ids, last)
  BY DEF TasksOK
<1>4. \A i \in 1..Len(s) : i > 1 => s[i].op \in Stages \cup Calling
  BY DEF TasksOK
<1>5. \A i \in 1..Len(s) : s[i].op = "flush" <=> i = Len(s)
  BY DEF TasksOK
<1>6. \A i, j \in 1..Len(s) : i < j /\ s[j].op \in OfTrade => s[i].op \in OfTrade /\ s[i].t /= s[j].t
  BY DEF TasksOK
<1>7. \A i, j \in 1..Len(s) : i < j /\ s[j].op = "enter" => s[i].op \notin {"enter", "ticket"}
  BY DEF TasksOK
<1> QED
  BY <1>1, <1>2, <1>3, <1>4, <1>5, <1>6, <1>7

\* The rest of an item, whose trades may have changed but for those it concerns.
LEMMA RestOK ==
    ASSUME NEW s, NEW ids, NEW last, TasksOK(s, ids, last),
           s /= <<>>, Head(s).op /= "flush",
           NEW others, NEW top, \A t \in ids \ others : Head(s).op \in OfTrade => t = Head(s).t
    PROVE  /\ TasksOK(Tail(s), others, top) /\ Tail(s) /= <<>>
           /\ Head(Tail(s)).op \in Stages \cup Calling
           /\ Early(Tail(s)) => Early(s) /\ Head(s).op \notin {"enter", "ticket"}
           /\ Head(s).op \notin OfTrade => Head(Tail(s)).op \in Stages
<1>1. /\ IsSeq(s) /\ Len(s) \in Nat
      /\ \A i \in 1..Len(s) : TaskOK(s[i], ids, last)
      /\ \A i \in 1..Len(s) : i > 1 => s[i].op \in Stages \cup Calling
      /\ \A i \in 1..Len(s) : s[i].op = "flush" <=> i = Len(s)
      /\ \A i, j \in 1..Len(s) : i < j /\ s[j].op \in OfTrade => s[i].op \in OfTrade /\ s[i].t /= s[j].t
      /\ \A i, j \in 1..Len(s) : i < j /\ s[j].op = "enter" => s[i].op \notin {"enter", "ticket"}
  BY TasksAre
<1> DEFINE r == Tail(s)
<1>2. IsSeq(r) /\ Len(r) = Len(s) - 1 /\ Len(s) > 0 /\ Head(s) = s[1]
  BY <1>1, SeqTail
<1>3. \A i \in 1..Len(r) : i + 1 \in 1..Len(s) /\ r[i] = s[i + 1]
  BY <1>1, SeqTail
<1> HIDE DEF r
<1>4. Len(s) > 1
  BY <1>1, <1>2
<1>5. Len(r) \in Nat /\ Len(r) > 0 /\ r /= <<>>
  BY <1>1, <1>2, <1>4, SeqNone
<1>6. Head(r) = s[2] /\ s[2].op \in Stages \cup Calling
  <2>1. Head(r) = r[1] /\ r[1] = s[2]
    BY <1>2, <1>3, <1>5, SeqTail
  <2>2. s[2].op \in Stages \cup Calling
    BY <1>1, <1>4
  <2> QED
    BY <2>1, <2>2
<1>7. ASSUME NEW i \in 1..Len(r)
      PROVE  /\ TaskOK(r[i], others, top)
             /\ r[i].op \in Stages \cup Calling
             /\ r[i].op = "flush" <=> i = Len(r)
  <2>1. r[i] = s[i + 1] /\ i + 1 \in 1..Len(s) /\ 1 < i + 1 /\ 1 \in 1..Len(s) /\ i \in Nat
    BY <1>1, <1>2, <1>3
  <2>2. TaskOK(r[i], ids, last) /\ r[i].op \in Stages \cup Calling
    BY <1>1, <2>1
  <2>3. r[i].op = "flush" <=> i = Len(r)
    BY <1>1, <1>2, <2>1
  <2>4. r[i].op \in OfTrade => s[1].op \in OfTrade /\ s[1].t /= r[i].t
    BY <1>1, <2>1
  <2>5. TaskOK(r[i], others, top)
    BY <1>2, <2>2, <2>4 DEF TaskOK, Stages, Calling
  <2> QED
    BY <2>2, <2>3, <2>5
<1>8. ASSUME NEW i \in 1..Len(r), NEW j \in 1..Len(r), i < j
      PROVE  /\ r[j].op \in OfTrade => r[i].op \in OfTrade /\ r[i].t /= r[j].t
             /\ r[j].op = "enter" => r[i].op \notin {"enter", "ticket"}
  <2>1. i + 1 < j + 1 /\ i + 1 \in 1..Len(s) /\ j + 1 \in 1..Len(s) /\ r[i] = s[i + 1] /\ r[j] = s[j + 1]
    BY <1>3, <1>8
  <2> QED
    BY <1>1, <2>1
<1>9. TasksOK(r, others, top)
  BY <1>2, <1>7, <1>8 DEF TasksOK
<1>10. Early(r) => Early(s) /\ Head(s).op \notin {"enter", "ticket"}
  <2> SUFFICES ASSUME NEW i \in 1..Len(r), r[i].op \in {"enter", "ticket"}
               PROVE  Early(s) /\ Head(s).op \notin {"enter", "ticket"}
    BY DEF Early
  <2>1. r[i] = s[i + 1] /\ i + 1 \in 1..Len(s) /\ 1 < i + 1 /\ 1 \in 1..Len(s)
    BY <1>1, <1>2, <1>3
  <2>2. r[i].op = "enter"
    BY <1>7 DEF Stages, Calling
  <2> QED
    BY <1>1, <1>2, <2>1, <2>2 DEF Early
<1>11. Head(s).op \notin OfTrade => Head(r).op \in Stages
  <2>1. 1 \in 1..Len(s) /\ 2 \in 1..Len(s)
    BY <1>1, <1>4
  <2> QED
    BY <1>1, <1>2, <1>6, <2>1 DEF OfTrade
<1> QED
  BY <1>5, <1>6, <1>9, <1>10, <1>11 DEF r

\* What is left of an item at a stage concerns no trade.
LEMMA StayOK ==
    ASSUME NEW s, NEW ids, NEW last, TasksOK(s, ids, last),
           s /= <<>>, Head(s).op \in Stages, NEW others, NEW top
    PROVE  TasksOK(s, others, top)
<1>1. /\ IsSeq(s) /\ Len(s) \in Nat
      /\ \A i \in 1..Len(s) : TaskOK(s[i], ids, last)
      /\ \A i \in 1..Len(s) : i > 1 => s[i].op \in Stages \cup Calling
      /\ \A i, j \in 1..Len(s) : i < j /\ s[j].op \in OfTrade => s[i].op \in OfTrade /\ s[i].t /= s[j].t
  BY TasksAre
<1>2. Len(s) > 0 /\ Head(s) = s[1]
  BY <1>1, SeqTail
<1>3. ASSUME NEW i \in 1..Len(s) PROVE TaskOK(s[i], others, top)
  <2>1. i = 1 \/ i > 1
    OBVIOUS
  <2>2. 1 \in 1..Len(s) /\ s[1].op \in Stages
    BY <1>1, <1>2
  <2>3. s[i].op \in Stages
    <3>1. CASE i = 1
      BY <2>2, <3>1
    <3>2. CASE i > 1
      <4>1. s[i].op \notin OfTrade
        BY <1>1, <2>2, <3>2 DEF Stages, OfTrade, Calling
      <4> QED
        BY <1>1, <3>2, <4>1 DEF OfTrade
    <3> QED
      BY <2>1, <3>1, <3>2
  <2> QED
    BY <2>3 DEF TaskOK, Stages, OfTrade, Calling
<1> QED
  BY <1>3 DEF TasksOK

\* Tasks that come before the rest.
LEMMA MoreOK ==
    ASSUME NEW s, NEW ids, NEW last, TasksOK(s, ids, last), s /= <<>>,
           Head(s).op \in Stages \cup Calling,
           NEW a, IsSeq(a),
           \A i \in 1..Len(a) : TaskOK(a[i], ids, last) /\ a[i].op \notin {"flush", "enter"},
           \A i \in 1..Len(a) : i > 1 => a[i].op \in Stages \cup Calling,
           \A i, j \in 1..Len(a) : i < j /\ a[j].op \in OfTrade => a[i].op \in OfTrade /\ a[i].t /= a[j].t,
           \A j \in 1..Len(s) : s[j].op \in OfTrade =>
               \A i \in 1..Len(a) : a[i].op \in OfTrade /\ a[i].t /= s[j].t,
           \A j \in 1..Len(s) : s[j].op = "enter" => \A i \in 1..Len(a) : a[i].op /= "ticket",
           NEW c, c = a \o s
    PROVE  /\ TasksOK(c, ids, last) /\ c /= <<>>
           /\ Head(c) = IF a = <<>> THEN Head(s) ELSE a[1]
<1>0. IsSeq(s)
  BY DEF TasksOK
<1>1. /\ Len(a) \in Nat /\ Len(s) \in Nat /\ Len(s) > 0 /\ IsSeq(s) /\ Head(s) = s[1]
  BY <1>0, SeqTail, SeqLen
<1>2. /\ IsSeq(c) /\ Len(c) = Len(a) + Len(s)
      /\ \A i \in 1..Len(c) :
            \/ i \in 1..Len(a) /\ c[i] = a[i]
            \/ i - Len(a) \in 1..Len(s) /\ c[i] = s[i - Len(a)]
  BY <1>1, SeqConcat
<1>3. ASSUME NEW i \in 1..Len(c) PROVE TaskOK(c[i], ids, last)
  BY <1>2 DEF TasksOK
<1>4. ASSUME NEW i \in 1..Len(c), i > 1 PROVE c[i].op \in Stages \cup Calling
  <2>1. CASE i \in 1..Len(a) /\ c[i] = a[i]
    BY <1>4, <2>1
  <2>2. CASE i - Len(a) \in 1..Len(s) /\ c[i] = s[i - Len(a)]
    <3>1. i - Len(a) = 1 \/ i - Len(a) > 1
      BY <1>1, <2>2
    <3> QED
      BY <1>1, <2>2, <3>1 DEF TasksOK
  <2> QED
    BY <1>2, <2>1, <2>2
<1>5. ASSUME NEW i \in 1..Len(c) PROVE c[i].op = "flush" <=> i = Len(c)
  <2>1. CASE i \in 1..Len(a) /\ c[i] = a[i]
    BY <1>1, <1>2, <2>1
  <2>2. CASE i - Len(a) \in 1..Len(s) /\ c[i] = s[i - Len(a)]
    <3>1. c[i].op = "flush" <=> i - Len(a) = Len(s)
      BY <2>2 DEF TasksOK
    <3> QED
      BY <1>1, <1>2, <3>1
  <2> QED
    BY <1>2, <2>1, <2>2
<1>6. ASSUME NEW i \in 1..Len(c), NEW j \in 1..Len(c), i < j
      PROVE  /\ c[j].op \in OfTrade => c[i].op \in OfTrade /\ c[i].t /= c[j].t
             /\ c[j].op = "enter" => c[i].op \notin {"enter", "ticket"}
  <2>1. CASE j \in 1..Len(a) /\ c[j] = a[j]
    <3>1. i \in 1..Len(a)
      BY <1>1, <1>6, <2>1
    <3>2. c[i] = a[i]
      BY <1>1, <1>2, <3>1
    <3> QED
      BY <1>6, <2>1, <3>1, <3>2
  <2>2. CASE j - Len(a) \in 1..Len(s) /\ c[j] = s[j - Len(a)] /\ i \in 1..Len(a) /\ c[i] = a[i]
    BY <1>6, <2>2
  <2>3. CASE /\ j - Len(a) \in 1..Len(s) /\ c[j] = s[j - Len(a)]
             /\ i - Len(a) \in 1..Len(s) /\ c[i] = s[i - Len(a)]
    <3>1. i - Len(a) < j - Len(a)
      BY <1>1, <1>6
    <3> QED
      BY <1>6, <2>3, <3>1 DEF TasksOK
  <2> QED
    BY <1>2, <2>1, <2>2, <2>3
<1>7. IsSeq(c) /\ Len(c) > 0 /\ Len(c) \in Nat
  BY <1>1, <1>2
<1>8. c /= <<>> /\ Head(c) = c[1]
  BY <1>7, SeqNone, SeqTail
<1>9. c[1] = IF a = <<>> THEN Head(s) ELSE a[1]
  <2>1. CASE a = <<>>
    <3>1. Len(a) = 0
      BY <2>1, SeqNone
    <3> QED
      BY <1>1, <1>2, <1>7, <2>1, <3>1
  <2>2. CASE a /= <<>>
    <3>1. Len(a) > 0
      BY <2>2, SeqTail
    <3> QED
      BY <1>1, <1>2, <1>7, <2>2, <3>1
  <2> QED
    BY <2>1, <2>2
<1>10. TasksOK(c, ids, last)
  BY <1>3, <1>4, <1>5, <1>6, <1>7 DEF TasksOK
<1> QED
  BY <1>8, <1>9, <1>10

LEMMA MoreEarly ==
    ASSUME NEW s, NEW a, IsSeq(a), IsSeq(s), \A i \in 1..Len(a) : a[i].op \notin {"enter", "ticket"},
           Early(a \o s)
    PROVE  Early(s)
<1> DEFINE c == a \o s
<1>0. c = a \o s
  OBVIOUS
<1> HIDE DEF c
<1>1. \A i \in 1..Len(c) :
          \/ i \in 1..Len(a) /\ c[i] = a[i]
          \/ i - Len(a) \in 1..Len(s) /\ c[i] = s[i - Len(a)]
  BY <1>0, SeqConcat
<1>2. PICK i \in 1..Len(c) : c[i].op \in {"enter", "ticket"}
  BY <1>0 DEF Early
<1> QED
  BY <1>1, <1>2 DEF Early

LEMMA OneMore ==
    ASSUME NEW s, NEW ids, NEW last, TasksOK(s, ids, last), s /= <<>>,
           Head(s).op \in Stages, NEW x, TaskOK(x, ids, last), x.op \in {"settled", "ticket", "closing"},
           x.op = "ticket" => ~Early(s)
    PROVE  /\ TasksOK(<<x>> \o s, ids, last)
           /\ <<x>> \o s /= <<>> /\ Head(<<x>> \o s) = x
           /\ Early(<<x>> \o s) => Early(s) \/ x.op = "ticket"
<1> DEFINE a == <<x>>
<1>1. IsSeq(a) /\ Len(a) = 1 /\ a[1] = x
  BY SeqOne
<1>2. a /= <<>>
  BY <1>1, SeqNone
<1> HIDE DEF a
<1>3. \A i \in 1..Len(a) : i = 1
  BY <1>1
<1>4. \A i \in 1..Len(a) : TaskOK(a[i], ids, last) /\ a[i].op \notin {"flush", "enter"}
  BY <1>1, <1>3
<1>5. \A i \in 1..Len(a) : i > 1 => a[i].op \in Stages \cup Calling
  BY <1>3
<1>6. \A i, j \in 1..Len(a) : i < j /\ a[j].op \in OfTrade => a[i].op \in OfTrade /\ a[i].t /= a[j].t
  BY <1>3
<1>7. \A j \in 1..Len(s) : s[j].op \notin OfTrade
  <2>1. IsSeq(s)
    BY DEF TasksOK
  <2>2. Head(s) = s[1] /\ Len(s) > 0 /\ Len(s) \in Nat
    BY <2>1, SeqTail, SeqLen
  <2> SUFFICES ASSUME NEW j \in 1..Len(s), s[j].op \in OfTrade PROVE FALSE
    OBVIOUS
  <2>3. s[1].op \notin OfTrade
    BY <2>2 DEF Stages, OfTrade, Calling
  <2>4. 1 \in 1..Len(s) /\ 1 < j
    BY <2>2, <2>3
  <2> QED
    BY <2>3, <2>4, TasksAre
<1>8. \A j \in 1..Len(s) : s[j].op \in OfTrade => \A i \in 1..Len(a) : a[i].op \in OfTrade /\ a[i].t /= s[j].t
  BY <1>7
<1>9. \A j \in 1..Len(s) : s[j].op = "enter" => \A i \in 1..Len(a) : a[i].op /= "ticket"
  BY <1>1, <1>3 DEF Early
<1> DEFINE c == a \o s
<1> HIDE DEF c
<1>10. TasksOK(c, ids, last)
  BY <1>1, <1>4, <1>5, <1>6, <1>8, <1>9, MoreOK DEF c
<1>11. c /= <<>>
  BY <1>1, <1>4, <1>5, <1>6, <1>8, <1>9, MoreOK DEF c
<1>12. Head(c) = IF a = <<>> THEN Head(s) ELSE a[1]
  BY <1>1, <1>4, <1>5, <1>6, <1>8, <1>9, MoreOK DEF c
<1>13. Head(c) = x
  BY <1>1, <1>2, <1>12
<1>14. IsSeq(s)
  BY DEF TasksOK
<1>15. Early(c) => Early(s) \/ x.op = "ticket"
  <2> SUFFICES ASSUME Early(c), x.op /= "ticket" PROVE Early(s)
    OBVIOUS
  <2>1. \A i \in 1..Len(a) : a[i].op \notin {"enter", "ticket"}
    BY <1>1, <1>3
  <2> QED
    BY <1>1, <1>14, <2>1, MoreEarly DEF c
<1> QED
  BY <1>10, <1>11, <1>13, <1>15 DEF a, c

\* One task of each of some trades, before a rest that concerns none.
LEMMA EachOK ==
    ASSUME NEW s, NEW ids, NEW last, TasksOK(s, ids, last), s /= <<>>,
           Head(s).op \in Stages, ids \subseteq Nat,
           NEW S, IsFiniteSet(S), S \subseteq ids,
           NEW op, op \in Calling \cup {"level"}
    PROVE  /\ TasksOK(PerTrade(op, S) \o s, ids, last) /\ PerTrade(op, S) \o s /= <<>>
           /\ Head(PerTrade(op, S) \o s).op \in Stages \cup Calling
           /\ Early(PerTrade(op, S) \o s) => Early(s)
<1> DEFINE n == Cardinality(S)
           a == PerTrade(op, S)
<1>1. n \in Nat
  BY FS_CardinalityType
<1>2. /\ \A k \in 1..n : Ascending(S)[k] \in S
      /\ \A k, l \in 1..n : k /= l => Ascending(S)[k] /= Ascending(S)[l]
  BY RanksName
<1>3. a = [k \in 1..n |-> a[k]] /\ \A k \in 1..n : a[k] = Task(op, Ascending(S)[k], 0)
  BY DEF PerTrade
<1> HIDE DEF n, a
<1>4. IsSeq(a) /\ Len(a) = n
  BY <1>1, <1>3, SeqMade
<1>5. \A k \in 1..n : a[k].op = op /\ a[k].t = Ascending(S)[k]
  BY <1>3, TaskIs
<1>6. \A i \in 1..Len(a) : TaskOK(a[i], ids, last) /\ a[i].op \notin {"flush", "enter"}
  <2> TAKE i \in 1..Len(a)
  <2>1. a[i].op = op /\ a[i].t \in S
    BY <1>2, <1>4, <1>5
  <2> QED
    BY <2>1 DEF TaskOK, OfTrade, Calling, Stages
<1>7. \A i \in 1..Len(a) : a[i].op \in Stages \cup Calling /\ a[i].op /= "ticket"
  BY <1>4, <1>5 DEF Stages, Calling
<1>8. \A i, j \in 1..Len(a) : i < j /\ a[j].op \in OfTrade => a[i].op \in OfTrade /\ a[i].t /= a[j].t
  <2> SUFFICES ASSUME NEW i \in 1..Len(a), NEW j \in 1..Len(a), i < j, a[j].op \in OfTrade
               PROVE  a[i].op \in OfTrade /\ a[i].t /= a[j].t
    OBVIOUS
  <2>1. i /= j
    BY <1>1, <1>4
  <2> QED
    BY <1>2, <1>4, <1>5, <2>1
<1>9. IsSeq(s) /\ Len(s) \in Nat /\ Head(s) = s[1] /\ Len(s) > 0
  <2>1. IsSeq(s)
    BY DEF TasksOK
  <2> QED
    BY <2>1, SeqTail, SeqLen
<1>10. \A j \in 1..Len(s) : s[j].op \notin OfTrade
  <2> SUFFICES ASSUME NEW j \in 1..Len(s), s[j].op \in OfTrade PROVE FALSE
    OBVIOUS
  <2>1. s[1].op \notin OfTrade
    BY <1>9 DEF Stages, OfTrade, Calling
  <2>2. 1 \in 1..Len(s) /\ 1 < j
    BY <1>9, <2>1
  <2> QED
    BY <2>1, <2>2, TasksAre
<1>11. \A j \in 1..Len(s) : s[j].op \in OfTrade => \A i \in 1..Len(a) : a[i].op \in OfTrade /\ a[i].t /= s[j].t
  BY <1>10
<1>12. \A j \in 1..Len(s) : s[j].op = "enter" => \A i \in 1..Len(a) : a[i].op /= "ticket"
  BY <1>7
<1>13. \A i \in 1..Len(a) : i > 1 => a[i].op \in Stages \cup Calling
  BY <1>7
<1> DEFINE c == a \o s
<1> HIDE DEF c
<1>14. TasksOK(c, ids, last)
  BY <1>4, <1>6, <1>8, <1>11, <1>12, <1>13, MoreOK DEF c
<1>15. c /= <<>>
  BY <1>4, <1>6, <1>8, <1>11, <1>12, <1>13, MoreOK DEF c
<1>16. Head(c) = IF a = <<>> THEN Head(s) ELSE a[1]
  BY <1>4, <1>6, <1>8, <1>11, <1>12, <1>13, MoreOK DEF c
<1>18. a /= <<>> => 1 \in 1..Len(a)
  <2> SUFFICES ASSUME a /= <<>> PROVE 1 \in 1..Len(a)
    OBVIOUS
  <2>1. Len(a) > 0
    BY <1>4, SeqTail
  <2>2. Len(a) \in Nat
    BY <1>1, <1>4
  <2> QED
    BY <2>1, <2>2, OneIn
<1>19. Head(c).op \in Stages \cup Calling
  BY <1>7, <1>16, <1>18
<1>20. Early(c) => Early(s)
  <2>1. \A i \in 1..Len(a) : a[i].op \notin {"enter", "ticket"}
    BY <1>6, <1>7
  <2> QED
    BY <1>4, <1>9, <2>1, MoreEarly DEF c
<1> QED
  BY <1>14, <1>15, <1>19, <1>20 DEF a, c

-----------------------------------------------------------------------------
(* The terminal *)

LEMMA VenueFacts ==
    ASSUME NEW v, NEW last, VenueOK(v, last)
    PROVE  /\ IsSeq(v) /\ Len(v) \in Nat /\ DOMAIN v = 1..Len(v)
           /\ \A i \in 1..Len(v) :
                 /\ v[i] = [trade |-> v[i].trade, qty |-> v[i].qty, sl |-> v[i].sl]
                 /\ v[i].trade \in 1..last /\ v[i].qty \in Nat /\ v[i].sl \in Int
<1>1. IsSeq(v)
  BY DEF VenueOK
<1>2. Len(v) \in Nat /\ DOMAIN v = 1..Len(v)
  BY <1>1, SeqLen
<1> QED
  BY <1>1, <1>2 DEF VenueOK, PositionOK

LEMMA OpenMakes ==
    ASSUME NEW v, NEW last, VenueOK(v, last), NEW p, PositionOK(p, last), NEW w, w = Append(v, p)
    PROVE  /\ VenueOK(w, last) /\ Len(w) = Len(v) + 1 /\ w[Len(w)] = p
           /\ \A i \in 1..Len(v) : w[i] = v[i]
<1>1. IsSeq(v) /\ Len(v) \in Nat /\ \A i \in 1..Len(v) : PositionOK(v[i], last)
  BY VenueFacts DEF VenueOK
<1>2. /\ IsSeq(w) /\ Len(w) = Len(v) + 1 /\ w[Len(v) + 1] = p
      /\ \A i \in 1..Len(v) : w[i] = v[i]
  BY <1>1, SeqAppend
<1>3. ASSUME NEW i \in 1..Len(w) PROVE PositionOK(w[i], last)
  <2>1. i \in 1..Len(v) \/ i = Len(v) + 1
    BY <1>1, <1>2
  <2> QED
    BY <1>1, <1>2, <2>1
<1> QED
  BY <1>2, <1>3 DEF VenueOK

\* One position changed, the others as they were.
LEMMA OtherMakes ==
    ASSUME NEW v, NEW last, VenueOK(v, last), NEW n \in 1..Len(v), NEW p, PositionOK(p, last),
           p.trade = v[n].trade, p.qty <= v[n].qty, NEW w, w = [v EXCEPT ![n] = p]
    PROVE  /\ VenueOK(w, last) /\ Len(w) = Len(v) /\ GoesOn(v, w) /\ w[n] = p
           /\ \A i \in 1..Len(v) : i /= n => w[i] = v[i]
<1>1. /\ IsSeq(v) /\ Len(v) \in Nat /\ DOMAIN v = 1..Len(v) /\ \A i \in 1..Len(v) : PositionOK(v[i], last)
      /\ \A i \in 1..Len(v) : v[i].qty \in Nat
  BY VenueFacts DEF VenueOK
<1>2. DOMAIN w = 1..Len(v) /\ w[n] = p /\ \A i \in 1..Len(v) : i /= n => w[i] = v[i]
  BY <1>1
<1>3. w = [i \in 1..Len(v) |-> w[i]]
  BY <1>1
<1> HIDE DEF VenueOK
<1>4. IsSeq(w) /\ Len(w) = Len(v)
  BY <1>1, <1>3, SeqMade
<1>5. ASSUME NEW i \in 1..Len(v)
      PROVE  PositionOK(w[i], last) /\ w[i].trade = v[i].trade /\ w[i].qty <= v[i].qty
  <2>1. CASE i = n
    BY <1>2, <2>1
  <2>2. CASE i /= n
    <3>1. v[i].qty <= v[i].qty
      BY <1>1
    <3> QED
      BY <1>1, <1>2, <2>2, <3>1
  <2> QED
    BY <2>1, <2>2
<1>6. Len(v) <= Len(w)
  BY <1>1, <1>4
<1> QED
  BY <1>2, <1>4, <1>5, <1>6 DEF VenueOK, GoesOn

LEMMA GoesSame == ASSUME NEW v, NEW last, VenueOK(v, last) PROVE GoesOn(v, v)
<1>1. Len(v) \in Nat /\ \A i \in 1..Len(v) : v[i].qty \in Nat
  BY VenueFacts
<1> QED
  BY <1>1 DEF GoesOn

LEMMA GoesFurther ==
    ASSUME NEW u, NEW v, NEW w, NEW last, Len(u) \in Nat, Len(v) \in Nat, Len(w) \in Nat,
           \A i \in 1..Len(u) : u[i].qty \in Nat, \A i \in 1..Len(v) : v[i].qty \in Nat,
           \A i \in 1..Len(w) : w[i].qty \in Nat, GoesOn(u, v), GoesOn(v, w)
    PROVE  GoesOn(u, w)
<1>1. Len(u) <= Len(w) /\ \A i \in 1..Len(u) : i \in 1..Len(v) /\ i \in 1..Len(w)
  BY DEF GoesOn
<1>2. ASSUME NEW i \in 1..Len(u) PROVE w[i].trade = u[i].trade /\ w[i].qty <= u[i].qty
  <2>1. i \in 1..Len(v) /\ i \in 1..Len(w)
    BY <1>1
  <2>2. w[i].trade = v[i].trade /\ w[i].qty <= v[i].qty
    BY <2>1 DEF GoesOn
  <2>3. v[i].trade = u[i].trade /\ v[i].qty <= u[i].qty
    BY DEF GoesOn
  <2>4. u[i].qty \in Nat /\ v[i].qty \in Nat /\ w[i].qty \in Nat
    BY <2>1
  <2> QED
    BY <2>2, <2>3, <2>4
<1> QED
  BY <1>1, <1>2 DEF GoesOn

\* How a request leaves the terminal, executed or not.
Makes(v, w, q) ==
    /\ GoesOn(v, w) /\ Len(w) \in Nat
    /\ IF q.kind = "open"
       THEN /\ Len(w) <= Len(v) + 1 /\ \A i \in 1..Len(v) : w[i] = v[i]
            /\ \A i \in 1..Len(w) : i > Len(v) => w[i].trade = q.id /\ w[i].sl = -1
       ELSE /\ Len(w) = Len(v)
            /\ \A i \in 1..Len(v) : w[i].sl = v[i].sl \/ (q.kind = "modify" /\ i = q.id /\ w[i].sl = q.n)

LEMMA CloseMakes ==
    ASSUME NEW v, NEW last, VenueOK(v, last), NEW q, q.kind = "close", RequestOK(q, Len(v), last), Can(v, q)
    PROVE  /\ VenueOK(Do(v, q), last) /\ Makes(v, Do(v, q), q)
           /\ Do(v, q)[q.id].qty = v[q.id].qty - q.n
<1> DEFINE n == q.id
           p == [trade |-> v[n].trade, qty |-> v[n].qty - q.n, sl |-> v[n].sl]
           w == [v EXCEPT ![n] = p]
<1>1. n \in 1..Len(v) /\ q.n \in Nat
  BY DEF RequestOK
<1>2. /\ v[n] = [trade |-> v[n].trade, qty |-> v[n].qty, sl |-> v[n].sl]
      /\ v[n].trade \in 1..last /\ v[n].qty \in Nat /\ v[n].sl \in Int /\ Len(v) \in Nat
  BY <1>1, VenueFacts
<1>3. q.n <= v[n].qty
  BY DEF Can
<1>4. [v[n] EXCEPT !.qty = v[n].qty - q.n] = p
  BY <1>2
<1>5. Do(v, q) = w
  BY <1>4 DEF Do
<1>6. PositionOK(p, last)
  BY <1>1, <1>2, <1>3 DEF PositionOK
<1>7. p.trade = v[n].trade /\ p.qty <= v[n].qty /\ p.qty = v[n].qty - q.n /\ p.sl = v[n].sl
  BY <1>1, <1>2
<1> HIDE DEF p, n
<1>8. w = [v EXCEPT ![n] = p]
  OBVIOUS
<1>13. Len(v) \in Nat /\ DOMAIN v = 1..Len(v)
  BY VenueFacts
<1>14. w[n] = p
  BY <1>1, <1>13
<1> HIDE DEF w
<1>9. /\ VenueOK(w, last) /\ Len(w) = Len(v) /\ GoesOn(v, w) /\ w[n] = p
      /\ \A i \in 1..Len(v) : i /= n => w[i] = v[i]
  <2>1. VenueOK(w, last)
    BY <1>1, <1>6, <1>7, <1>8, OtherMakes
  <2>5. Len(w) = Len(v)
    BY <1>1, <1>6, <1>7, <1>8, OtherMakes
  <2>2. GoesOn(v, w)
    BY <1>1, <1>6, <1>7, <1>8, OtherMakes
  <2>3. w[n] = p
    BY <1>14
  <2>4. \A i \in 1..Len(v) : i /= n => w[i] = v[i]
    BY <1>1, <1>6, <1>7, <1>8, OtherMakes
  <2> QED
    BY <2>1, <2>2, <2>3, <2>4, <2>5
<1>10. \A i \in 1..Len(v) : w[i].sl = v[i].sl
  BY <1>7, <1>9
<1>11. Makes(v, w, q)
  BY <1>2, <1>9, <1>10 DEF Makes
<1> QED
  BY <1>5, <1>7, <1>9, <1>11 DEF n

LEMMA ModifyMakes ==
    ASSUME NEW v, NEW last, VenueOK(v, last), NEW q, q.kind = "modify", RequestOK(q, Len(v), last)
    PROVE  /\ VenueOK(Do(v, q), last) /\ Makes(v, Do(v, q), q)
           /\ Do(v, q)[q.id].sl = q.n /\ \A i \in 1..Len(v) : Do(v, q)[i].qty = v[i].qty
<1> DEFINE n == q.id
           p == [trade |-> v[n].trade, qty |-> v[n].qty, sl |-> q.n]
           w == [v EXCEPT ![n] = p]
<1>1. n \in 1..Len(v) /\ q.n \in Int
  BY DEF RequestOK
<1>2. /\ v[n] = [trade |-> v[n].trade, qty |-> v[n].qty, sl |-> v[n].sl]
      /\ v[n].trade \in 1..last /\ v[n].qty \in Nat /\ v[n].sl \in Int /\ Len(v) \in Nat
  BY <1>1, VenueFacts
<1>4. [v[n] EXCEPT !.sl = q.n] = p
  BY <1>2
<1>5. Do(v, q) = w
  BY <1>4 DEF Do
<1>6. PositionOK(p, last)
  BY <1>1, <1>2 DEF PositionOK
<1>7. p.trade = v[n].trade /\ p.qty <= v[n].qty /\ p.qty = v[n].qty /\ p.sl = q.n
  BY <1>1, <1>2
<1> HIDE DEF p, n
<1>8. w = [v EXCEPT ![n] = p]
  OBVIOUS
<1>13. Len(v) \in Nat /\ DOMAIN v = 1..Len(v)
  BY VenueFacts
<1>14. w[n] = p
  BY <1>1, <1>13
<1> HIDE DEF w
<1>9. /\ VenueOK(w, last) /\ Len(w) = Len(v) /\ GoesOn(v, w) /\ w[n] = p
      /\ \A i \in 1..Len(v) : i /= n => w[i] = v[i]
  <2>1. VenueOK(w, last)
    BY <1>1, <1>6, <1>7, <1>8, OtherMakes
  <2>5. Len(w) = Len(v)
    BY <1>1, <1>6, <1>7, <1>8, OtherMakes
  <2>2. GoesOn(v, w)
    BY <1>1, <1>6, <1>7, <1>8, OtherMakes
  <2>3. w[n] = p
    BY <1>14
  <2>4. \A i \in 1..Len(v) : i /= n => w[i] = v[i]
    BY <1>1, <1>6, <1>7, <1>8, OtherMakes
  <2> QED
    BY <2>1, <2>2, <2>3, <2>4, <2>5
<1>10. \A i \in 1..Len(v) : w[i].qty = v[i].qty
  BY <1>7, <1>9
<1>11. \A i \in 1..Len(v) : w[i].sl = v[i].sl \/ (i = q.id /\ w[i].sl = q.n)
  BY <1>7, <1>9 DEF n
<1>12. Makes(v, w, q)
  BY <1>2, <1>9, <1>11 DEF Makes
<1> QED
  BY <1>5, <1>7, <1>9, <1>10, <1>12 DEF n

LEMMA OpenedMakes ==
    ASSUME NEW v, NEW last, VenueOK(v, last), NEW q, q.kind = "open", RequestOK(q, Len(v), last)
    PROVE  VenueOK(Do(v, q), last) /\ Makes(v, Do(v, q), q) /\ Len(Do(v, q)) = Len(v) + 1
<1> DEFINE p == [trade |-> q.id, qty |-> q.n, sl |-> -1]
           w == Append(v, p)
<1>1. Do(v, q) = w
  BY DEF Do
<1>2. PositionOK(p, last) /\ p.trade = q.id /\ p.sl = -1
  BY DEF PositionOK, RequestOK
<1>3. Len(v) \in Nat /\ \A i \in 1..Len(v) : v[i].qty \in Nat
  BY VenueFacts
<1> HIDE DEF p
<1>4. w = Append(v, p)
  OBVIOUS
<1> HIDE DEF w
<1>5. /\ VenueOK(w, last) /\ Len(w) = Len(v) + 1 /\ w[Len(w)] = p
      /\ \A i \in 1..Len(v) : w[i] = v[i]
  <2>1. VenueOK(w, last) /\ Len(w) = Len(v) + 1
    BY <1>2, <1>4, OpenMakes
  <2>2. w[Len(w)] = p
    BY <1>2, <1>4, OpenMakes
  <2>3. \A i \in 1..Len(v) : w[i] = v[i]
    BY <1>2, <1>4, OpenMakes
  <2> QED
    BY <2>1, <2>2, <2>3
<1>6. GoesOn(v, w)
  BY <1>3, <1>5 DEF GoesOn
<1>7. \A i \in 1..Len(w) : i > Len(v) => i = Len(w)
  BY <1>3, <1>5
<1>8. Makes(v, w, q)
  BY <1>2, <1>3, <1>5, <1>6, <1>7 DEF Makes
<1> QED
  BY <1>1, <1>5, <1>8

LEMMA NoneMakes ==
    ASSUME NEW v, NEW last, VenueOK(v, last), NEW q
    PROVE  Makes(v, v, q)
<1>1. GoesOn(v, v) /\ Len(v) \in Nat
  BY GoesSame, VenueFacts
<1> QED
  BY <1>1 DEF Makes

LEMMA TryMakes ==
    ASSUME NEW v, NEW last, VenueOK(v, last), NEW q, RequestOK(q, Len(v), last)
    PROVE  VenueOK(Try(v, q), last) /\ Makes(v, Try(v, q), q)
<1>1. CASE ~Can(v, q)
  BY <1>1, NoneMakes DEF Try
<1>2. CASE Can(v, q)
  <2>1. Try(v, q) = Do(v, q)
    BY <1>2 DEF Try
  <2>2. q.kind \in {"open", "close", "modify"}
    BY DEF RequestOK
  <2>3. VenueOK(Do(v, q), last) /\ Makes(v, Do(v, q), q)
    BY <1>2, <2>2, CloseMakes, ModifyMakes, OpenedMakes
  <2> QED
    BY <2>1, <2>3
<1> QED
  BY <1>1, <1>2

LEMMA RequestKept ==
    ASSUME NEW q, NEW n \in Nat, NEW m \in Nat, n <= m, NEW last \in Nat, NEW l \in Nat, last <= l,
           RequestOK(q, n, last)
    PROVE  RequestOK(q, m, l)
  BY DEF RequestOK

\* A request that may be executed twice, of one that opens nothing.
LEMMA TwiceMakes ==
    ASSUME NEW v, NEW last \in Nat, VenueOK(v, last), NEW q, RequestOK(q, Len(v), last), q.kind /= "open",
           NEW w, w \in {v, Try(v, q), Try(Try(v, q), q)}
    PROVE  VenueOK(w, last) /\ Makes(v, w, q)
<1> DEFINE u == Try(v, q)
<1>1. VenueOK(u, last) /\ Makes(v, u, q)
  BY TryMakes
<1> HIDE DEF u
<1>2. Len(v) \in Nat /\ Len(u) = Len(v) /\ \A i \in 1..Len(v) : v[i].qty \in Nat
  BY <1>1, VenueFacts DEF Makes
<1>3. \A i \in 1..Len(u) : u[i].qty \in Nat
  BY <1>1, VenueFacts
<1> DEFINE x == Try(u, q)
<1>4. VenueOK(x, last) /\ Makes(u, x, q)
  BY <1>1, <1>2, TryMakes
<1> HIDE DEF x
<1>5. Len(x) \in Nat /\ Len(x) = Len(u) /\ \A i \in 1..Len(x) : x[i].qty \in Nat
  BY <1>4, VenueFacts DEF Makes
<1>6. GoesOn(v, u) /\ GoesOn(u, x)
  BY <1>1, <1>4 DEF Makes
<1>7. GoesOn(v, x)
  BY <1>2, <1>3, <1>5, <1>6, GoesFurther
<1>8. \A i \in 1..Len(v) : u[i].sl = v[i].sl \/ (q.kind = "modify" /\ i = q.id /\ u[i].sl = q.n)
  BY <1>1 DEF Makes
<1>9. \A i \in 1..Len(u) : x[i].sl = u[i].sl \/ (q.kind = "modify" /\ i = q.id /\ x[i].sl = q.n)
  BY <1>4 DEF Makes
<1>10. \A i \in 1..Len(v) : x[i].sl = v[i].sl \/ (q.kind = "modify" /\ i = q.id /\ x[i].sl = q.n)
  BY <1>2, <1>8, <1>9
<1>11. Makes(v, x, q)
  BY <1>2, <1>5, <1>7, <1>10 DEF Makes
<1>12. w \in {v, u, x}
  BY DEF u, x
<1> QED
  BY <1>1, <1>4, <1>11, <1>12, NoneMakes

-----------------------------------------------------------------------------
(* The books, and what no trade stands for *)

LEMMA BookFacts ==
    ASSUME NEW book, NEW v, NEW last \in Nat, BookOK(book, v, last)
    PROVE  /\ IsFiniteSet(DOMAIN book) /\ DOMAIN book \subseteq 1..last /\ DOMAIN book \subseteq Nat
           /\ \A t \in DOMAIN book :
                 /\ book[t].size \in Nat /\ book[t].hits \in Nat /\ book[t].sl \in Int
                 /\ book[t].ticket \in 1..Len(v) /\ v[book[t].ticket].trade = t
                 /\ v[book[t].ticket].qty <= book[t].size
<1>1. DOMAIN book \subseteq 1..last
  BY DEF BookOK
<1>2. IsFiniteSet(1..last)
  BY FS_Interval
<1>3. IsFiniteSet(DOMAIN book) /\ DOMAIN book \subseteq Nat
  BY <1>1, <1>2, FS_Subset
<1> QED
  BY <1>1, <1>3 DEF BookOK, TradeOK

\* A trade still stands for its position when that has lost volume.
LEMMA TradeKept ==
    ASSUME NEW v, NEW w, NEW last, NEW l, VenueOK(v, last), VenueOK(w, l), GoesOn(v, w),
           NEW r, NEW t, TradeOK(r, t, v)
    PROVE  TradeOK(r, t, w)
<1>1. Len(v) \in Nat /\ Len(w) \in Nat /\ Len(v) <= Len(w)
  BY VenueFacts DEF GoesOn
<1>2. r.ticket \in 1..Len(v) /\ r.ticket \in 1..Len(w)
  BY <1>1 DEF TradeOK
<1>3. w[r.ticket].trade = v[r.ticket].trade /\ w[r.ticket].qty <= v[r.ticket].qty
  BY <1>2 DEF GoesOn
<1>4. v[r.ticket].qty \in Nat /\ w[r.ticket].qty \in Nat
  BY <1>2, VenueFacts
<1>5. w[r.ticket].qty <= r.size
  BY <1>3, <1>4 DEF TradeOK
<1> QED
  BY <1>2, <1>3, <1>5 DEF TradeOK

LEMMA BookKept ==
    ASSUME NEW v, NEW w, NEW last \in Nat, NEW l \in Nat, last <= l,
           VenueOK(v, last), VenueOK(w, l), GoesOn(v, w),
           NEW book, BookOK(book, v, last)
    PROVE  BookOK(book, w, l)
<1>1. DOMAIN book \subseteq 1..last /\ \A t \in DOMAIN book : TradeOK(book[t], t, v)
  BY DEF BookOK
<1>2. \A t \in DOMAIN book : TradeOK(book[t], t, w)
  BY <1>1, TradeKept
<1>3. DOMAIN book \subseteq 1..l
  BY <1>1
<1> QED
  BY <1>2, <1>3 DEF BookOK

\* A trade is added to a book, or changed in it.
LEMMA BookWith ==
    ASSUME NEW book, NEW v, NEW last, BookOK(book, v, last),
           NEW t \in 1..last, NEW r, TradeOK(r, t, v),
           NEW other, DOMAIN other = DOMAIN book \cup {t}, other[t] = r,
           \A u \in DOMAIN book : u /= t => other[u] = book[u]
    PROVE  BookOK(other, v, last)
<1>1. DOMAIN other \subseteq 1..last
  BY DEF BookOK
<1>2. \A u \in DOMAIN other : TradeOK(other[u], u, v)
  BY DEF BookOK
<1> QED
  BY <1>1, <1>2 DEF BookOK

LEMMA Fewer ==
    ASSUME NEW A, NEW B, IsFiniteSet(B), A \subseteq B
    PROVE  Cardinality(A) \in Nat /\ Cardinality(B) \in Nat /\ Cardinality(A) <= Cardinality(B)
  BY FS_Subset, FS_CardinalityType

LEMMA OneOver ==
    ASSUME NEW A, NEW B, IsFiniteSet(B), NEW x, A \subseteq B \cup {x}
    PROVE  Cardinality(A) \in Nat /\ Cardinality(B) \in Nat /\ Cardinality(A) <= Cardinality(B) + 1
<1>1. /\ IsFiniteSet(B \cup {x}) /\ Cardinality(B) \in Nat
      /\ Cardinality(B \cup {x}) = Cardinality(B) \/ Cardinality(B \cup {x}) = Cardinality(B) + 1
  BY FS_AddElement, FS_CardinalityType
<1>2. Cardinality(A) \in Nat /\ Cardinality(A) <= Cardinality(B \cup {x})
  BY <1>1, Fewer
<1> QED
  BY <1>1, <1>2

LEMMA Swapped ==
    ASSUME NEW A, NEW B, IsFiniteSet(B), NEW x, NEW y \in B, A \subseteq (B \ {y}) \cup {x}
    PROVE  Cardinality(A) \in Nat /\ Cardinality(B) \in Nat /\ Cardinality(A) <= Cardinality(B)
<1> DEFINE C == B \ {y}
<1>1. IsFiniteSet(C) /\ Cardinality(C) = Cardinality(B) - 1 /\ Cardinality(B) \in Nat
  BY FS_RemoveElement, FS_CardinalityType
<1> HIDE DEF C
<1>2. A \subseteq C \cup {x}
  BY DEF C
<1>3. Cardinality(A) \in Nat /\ Cardinality(C) \in Nat /\ Cardinality(A) <= Cardinality(C) + 1
  BY <1>1, <1>2, OneOver
<1> QED
  BY <1>1, <1>3

LEMMA SomeOver ==
    ASSUME NEW A, NEW B, IsFiniteSet(B), NEW m \in Nat, NEW n \in Nat, m <= n, A \subseteq B \cup (m + 1)..n
    PROVE  Cardinality(A) \in Nat /\ Cardinality(B) \in Nat /\ Cardinality(A) <= Cardinality(B) + (n - m)
<1> DEFINE C == (m + 1)..n
<1>1. IsFiniteSet(C) /\ Cardinality(C) = n - m
  <2>1. IsFiniteSet(C) /\ Cardinality(C) = IF m + 1 > n THEN 0 ELSE n - (m + 1) + 1
    BY FS_Interval
  <2> QED
    BY <2>1
<1> HIDE DEF C
<1>2. /\ IsFiniteSet(B \cup C)
      /\ Cardinality(B \cup C) = Cardinality(B) + Cardinality(C) - Cardinality(B \cap C)
  BY <1>1, FS_Union
<1>3. Cardinality(B \cap C) \in Nat /\ Cardinality(C) \in Nat
  <2>1. B \cap C \subseteq C
    OBVIOUS
  <2> QED
    BY <1>1, <2>1, Fewer
<1>4. Cardinality(A) \in Nat /\ Cardinality(A) <= Cardinality(B \cup C)
  <2>1. A \subseteq B \cup C
    BY DEF C
  <2> QED
    BY <1>2, <2>1, Fewer
<1>5. Cardinality(B) \in Nat
  BY FS_CardinalityType
<1> QED
  BY <1>1, <1>2, <1>3, <1>4, <1>5

LEMMA OpenFinite ==
    ASSUME NEW v, NEW last, VenueOK(v, last), NEW held
    PROVE  IsFiniteSet(OpenIn(v) \ held)
<1>1. Len(v) \in Nat
  BY VenueFacts
<1>2. IsFiniteSet(1..Len(v)) /\ OpenIn(v) \ held \subseteq 1..Len(v)
  BY <1>1, FS_Interval DEF OpenIn
<1> QED
  BY <1>2, FS_Subset

\* A position that is open was open before, or is new.
LEMMA OpenKept ==
    ASSUME NEW v, NEW w, NEW last, NEW l, VenueOK(v, last), VenueOK(w, l), GoesOn(v, w), NEW i \in OpenIn(w)
    PROVE  i \in OpenIn(v) \/ i \in (Len(v) + 1)..Len(w)
<1>1. Len(v) \in Nat /\ Len(w) \in Nat /\ i \in 1..Len(w) /\ w[i].qty > 0
  BY VenueFacts DEF OpenIn
<1>2. CASE i \in 1..Len(v)
  <2>1. v[i].qty \in Nat /\ w[i].qty \in Nat /\ w[i].qty <= v[i].qty
    BY <1>1, <1>2, VenueFacts DEF GoesOn
  <2> QED
    BY <1>1, <1>2, <2>1 DEF OpenIn
<1> QED
  BY <1>1, <1>2

-----------------------------------------------------------------------------
(* A step of the worker *)

LEMMA Typed ==
    ASSUME IInv
    PROVE  /\ setup \in Setup /\ entries \in Nat /\ mode \in {"up", "down", "starting"}
           /\ budget \in [Fault -> Nat] /\ \A f \in Fault : setup.faults[f] \in Nat /\ budget[f] <= setup.faults[f]
           /\ VenueOK(venue, entries) /\ LateOK(late, Len(venue), entries) /\ Len(late) \in Nat
           /\ Len(late) <= Spent("late") /\ BookOK(journal, venue, entries)
           /\ Counted /\ Len(venue) \in Nat /\ forgotten \subseteq 1..Len(venue)
<1>1. TypeInv /\ Counted
  BY DEF IInv
<1>2. \A f \in Fault : setup.faults[f] \in Nat
  <2>1. setup.faults \in [Fault -> Nat]
    BY <1>1 DEF TypeInv, Setup
  <2> QED
    BY <2>1
<1>3. Len(late) \in Nat
  <2>1. IsSeq(late)
    BY <1>1 DEF TypeInv, LateOK
  <2> QED
    BY <2>1, SeqLen
<1>4. VenueOK(venue, entries)
  BY <1>1 DEF TypeInv
<1>5. Len(venue) \in Nat
  BY <1>4, VenueFacts
<1>6. setup \in Setup /\ entries \in Nat /\ mode \in {"up", "down", "starting"}
  BY <1>1 DEF TypeInv
<1>7. budget \in [Fault -> Nat] /\ \A f \in Fault : budget[f] <= setup.faults[f]
  BY <1>1 DEF TypeInv
<1>8. /\ LateOK(late, Len(venue), entries) /\ Len(late) <= Spent("late") /\ BookOK(journal, venue, entries)
      /\ forgotten \subseteq 1..Len(venue)
  BY <1>1 DEF TypeInv
<1> QED
  BY <1>1, <1>2, <1>3, <1>4, <1>5, <1>6, <1>7, <1>8

Spends == budget' \in [Fault -> Nat] /\ \A f \in Fault : budget'[f] <= budget[f]

\* What the faults account for only grows; every request given up on is accounted for.
LEMMA SpentGrows ==
    ASSUME IInv, UNCHANGED setup, Spends
    PROVE  /\ Left \in Int /\ Left' \in Int /\ Left <= Left'
           /\ Left + (budget["late"] - budget'["late"]) <= Left'
           /\ Left + (budget["crash"] - budget'["crash"]) <= Left'
           /\ Left + (budget["resend"] - budget'["resend"]) <= Left'
           /\ Left + 2 * (budget["lose"] - budget'["lose"]) <= Left'
           /\ Spent("late") \in Nat /\ Spent("late")' \in Nat
           /\ Spent("late")' = Spent("late") + (budget["late"] - budget'["late"])
           /\ InTime' => InTime
<1> DEFINE sl == setup.faults["late"]
           sr == setup.faults["resend"]
           so == setup.faults["lose"]
           sc == setup.faults["crash"]
<1>1. /\ sl \in Nat /\ sr \in Nat /\ so \in Nat /\ sc \in Nat
      /\ budget["late"] \in Nat /\ budget["resend"] \in Nat /\ budget["lose"] \in Nat /\ budget["crash"] \in Nat
      /\ budget["late"] <= sl /\ budget["resend"] <= sr /\ budget["lose"] <= so /\ budget["crash"] <= sc
  BY Typed DEF Fault
<1>2. /\ budget'["late"] \in Nat /\ budget'["resend"] \in Nat
      /\ budget'["lose"] \in Nat /\ budget'["crash"] \in Nat
      /\ budget'["late"] <= budget["late"] /\ budget'["resend"] <= budget["resend"]
      /\ budget'["lose"] <= budget["lose"] /\ budget'["crash"] <= budget["crash"]
  BY DEF Spends, Fault
<1>3. /\ Left = (sr - budget["resend"]) + 2 * (so - budget["lose"]) + (sl - budget["late"]) + (sc - budget["crash"])
      /\ Left' = (sr - budget'["resend"]) + 2 * (so - budget'["lose"])
                 + (sl - budget'["late"]) + (sc - budget'["crash"])
      /\ Spent("late") = sl - budget["late"] /\ Spent("late")' = sl - budget'["late"]
  BY DEF Left, Spent
<1>4. (InTime <=> Spent("late") = 0) /\ (InTime' <=> Spent("late")' = 0)
  BY DEF InTime
<1> HIDE DEF sl, sr, so, sc
<1> QED
  BY <1>1, <1>2, <1>3, <1>4

LEMMA SpendIs ==
    ASSUME IInv, NEW f \in Fault, Spend(f)
    PROVE  Spends /\ budget'[f] = budget[f] - 1
<1>1. budget \in [Fault -> Nat] /\ budget[f] > 0 /\ budget' = [budget EXCEPT ![f] = budget[f] - 1]
  BY Typed DEF Spend
<1> QED
  BY <1>1 DEF Spends

LEMMA SpendNone == ASSUME IInv, UNCHANGED budget PROVE Spends
<1>1. budget \in [Fault -> Nat]
  BY Typed
<1> QED
  BY <1>1 DEF Spends

\* At work: what the invariant says of a process that is up.
LEMMA AtWork ==
    ASSUME IInv, mode = "up"
    PROVE  /\ TasksOK(todo, Tracked, entries) /\ BookOK(trades, venue, entries)
           /\ (todo = <<>> => journal = trades)
           /\ Tracked \subseteq DOMAIN journal \cup {entries}
           /\ (Early(todo) => Tracked \subseteq DOMAIN journal)
           /\ \A t \in Tracked \cap DOMAIN journal : journal[t].ticket = trades[t].ticket
           /\ Tracked = DOMAIN trades /\ IsFiniteSet(Tracked) /\ Tracked \subseteq Nat /\ Tracked \subseteq 1..entries
<1>1. UpInv /\ entries \in Nat
  BY Typed DEF IInv
<1>2. BookOK(trades, venue, entries)
  BY <1>1 DEF UpInv
<1>3. Tracked = DOMAIN trades /\ IsFiniteSet(Tracked) /\ Tracked \subseteq Nat /\ Tracked \subseteq 1..entries
  BY <1>1, <1>2, BookFacts DEF Tracked
<1> QED
  BY <1>1, <1>2, <1>3 DEF UpInv

\* The head of what is left is no ticket to find, and no loop of closes.
Found(tasks) == tasks = <<>> \/ Head(tasks).op \notin {"ticket", "closing"}
LEMMA FoundWaits == ASSUME NEW s, s = <<>> \/ Head(s).op /= "ticket" PROVE Waiting(s) = {}
  BY DEF Waiting

StopsStay == \A i \in 1..Len(venue) : venue'[i].sl = venue[i].sl

SameLength ==
    /\ VenueOK(venue', entries) /\ GoesOn(venue, venue') /\ Len(venue') = Len(venue)
    /\ LateOK(late', Len(venue), entries) /\ Len(late') <= Len(late) + (budget["late"] - budget'["late"])
    /\ Spends

\* The journal has the trades it had, of the same positions.
SameBook ==
    /\ DOMAIN journal' = DOMAIN journal /\ BookOK(journal', venue', entries)
    /\ \A t \in DOMAIN journal : journal'[t].ticket = journal[t].ticket

WorkStep ==
    /\ UNCHANGED <<setup, mode, forgotten>> /\ SameLength /\ SameBook
    /\ TasksOK(todo', DOMAIN trades', entries) /\ todo' /= <<>> /\ Head(todo').op /= "ticket"
    /\ Early(todo') => Early(todo)
    /\ Head(todo').op = "closing" => ClosedOK(Head(todo').arg, trades', venue')
    /\ BookOK(trades', venue', entries) /\ DOMAIN trades' \subseteq Tracked
    /\ \A t \in DOMAIN trades' : trades'[t].ticket = trades[t].ticket
    /\ \A t \in Tracked \ DOMAIN trades' : venue'[trades[t].ticket].qty = 0

\* What is believed of a stop that stays is as true as before.
LEMMA AgreesStill ==
    ASSUME IInv, SameLength, NEW r, r.ticket \in 1..Len(venue), Agrees(r, venue),
           venue'[r.ticket].sl = venue[r.ticket].sl
    PROVE  Agrees(r, venue')
<1> DEFINE i == r.ticket
<1>1. venue[i].qty \in Nat
  BY Typed, VenueFacts
<1>2. venue'[i].qty \in Nat /\ venue'[i].qty <= venue[i].qty
  BY VenueFacts DEF SameLength, GoesOn
<1>3. venue[i].qty = 0 => venue'[i].qty = 0
  BY <1>1, <1>2
<1> QED
  BY <1>3 DEF Agrees

\* The journal, when no stop moves.
LEMMA JournalStays ==
    ASSUME IInv, SameLength, StopsStay, UNCHANGED journal
    PROVE  /\ SameBook
           /\ mode = "up" /\ InTime => \A t \in DOMAIN journal' : Agrees(journal'[t], venue')
<1>1. /\ VenueOK(venue, entries) /\ VenueOK(venue', entries) /\ GoesOn(venue, venue') /\ entries \in Nat
      /\ entries <= entries /\ BookOK(journal, venue, entries)
  BY Typed DEF SameLength
<1>2. BookOK(journal, venue', entries)
  BY <1>1, BookKept
<1>3. ASSUME mode = "up", InTime, NEW t \in DOMAIN journal PROVE Agrees(journal[t], venue')
  <2>1. Agrees(journal[t], venue)
    BY <1>3 DEF IInv, UpStops
  <2>2. journal[t].ticket \in 1..Len(venue)
    BY <1>1, BookFacts
  <2> QED
    BY <2>1, <2>2, AgreesStill DEF StopsStay
<1> QED
  BY <1>2, <1>3 DEF SameBook

LEMMA WorkKeeps ==
    ASSUME IInv, mode = "up", todo /= <<>>, Head(todo).op /= "ticket", WorkStep, UNCHANGED entries,
           InTime' => \A t \in DOMAIN journal' : Agrees(journal'[t], venue'),
           InTime' => \A t \in DOMAIN trades' : Agrees(trades'[t], venue') \/ Owed(t, todo')
    PROVE  IInv'
<1>0. SameLength /\ UNCHANGED <<setup, mode, forgotten>>
  BY DEF WorkStep
<1>1. /\ setup \in Setup /\ entries \in Nat /\ mode \in {"up", "down", "starting"}
      /\ budget \in [Fault -> Nat]
      /\ \A f \in Fault : setup.faults[f] \in Nat /\ budget[f] \in Nat /\ budget[f] <= setup.faults[f]
      /\ VenueOK(venue, entries) /\ Len(late) \in Nat /\ Len(late) <= Spent("late")
      /\ BookOK(journal, venue, entries) /\ Counted /\ forgotten \subseteq 1..Len(venue)
  BY Typed
<1>2. /\ VenueOK(venue', entries) /\ GoesOn(venue, venue') /\ Len(venue') = Len(venue)
      /\ LateOK(late', Len(venue'), entries) /\ Len(late') <= Len(late) + (budget["late"] - budget'["late"])
      /\ Spends
  BY <1>0 DEF SameLength
<1>3. Len(late') \in Nat /\ budget'["late"] \in Nat /\ budget["late"] \in Nat
  <2>1. IsSeq(late')
    BY <1>2 DEF LateOK
  <2> QED
    BY <1>1, <1>2, <2>1, SeqLen DEF Spends, Fault
<1>4. BookOK(journal', venue', entries) /\ DOMAIN journal' = DOMAIN journal
  BY DEF WorkStep, SameBook
<1>5. TypeInv'
  <2>1. budget' \in [Fault -> Nat] /\ \A f \in Fault : budget'[f] <= setup.faults[f]
    <3>1. ASSUME NEW f \in Fault PROVE budget'[f] <= setup.faults[f]
      <4>1. budget'[f] \in Nat /\ budget'[f] <= budget[f]
        BY <1>2 DEF Spends
      <4> QED
        BY <1>1, <4>1
    <3> QED
      BY <1>2, <3>1 DEF Spends
  <2>2. Len(late') <= Spent("late")'
    BY <1>0, <1>1, <1>2, <1>3, SpentGrows
  <2> QED
    BY <1>0, <1>1, <1>2, <1>4, <2>1, <2>2 DEF TypeInv
<1>6. Held = Tickets(trades) \cup forgotten /\ Held' = Tickets(trades') \cup forgotten
  <2>1. Waiting(todo) = {} /\ Waiting(todo') = {}
    BY FoundWaits DEF WorkStep
  <2> QED
    BY <1>0, <2>1 DEF Held, Books
<1>7. OpenIn(venue') \ Held' \subseteq OpenIn(venue) \ Held
  <2> SUFFICES ASSUME NEW i \in OpenIn(venue'), i \notin Held' PROVE i \in OpenIn(venue) /\ i \notin Held
    OBVIOUS
  <2>1. i \in OpenIn(venue) /\ Len(venue') \in Nat /\ Len(venue) \in Nat
    <3>1. Len(venue') \in Nat /\ Len(venue) \in Nat
      BY <1>1, <1>2, VenueFacts
    <3>2. i \in OpenIn(venue) \/ i \in (Len(venue) + 1)..Len(venue')
      BY <1>1, <1>2, OpenKept
    <3> QED
      BY <1>2, <3>1, <3>2
  <2>2. ASSUME NEW t \in Tracked, trades[t].ticket = i PROVE FALSE
    <3>1. t \in DOMAIN trades' => trades'[t].ticket = i
      BY <2>2 DEF WorkStep
    <3>2. t \notin DOMAIN trades'
      BY <1>6, <3>1 DEF Tickets
    <3>3. venue'[i].qty = 0
      BY <2>2, <3>2 DEF WorkStep
    <3> QED
      BY <3>3 DEF OpenIn
  <2> QED
    BY <1>6, <2>1, <2>2 DEF Tickets, Tracked
<1>8. Counted'
  <2> DEFINE a == Cardinality(OpenIn(venue) \ Held)
             b == Cardinality(OpenIn(venue') \ Held')
  <2>1. IsFiniteSet(OpenIn(venue) \ Held)
    BY <1>1, OpenFinite
  <2>2. a \in Nat /\ b \in Nat /\ b <= a
    BY <1>7, <2>1, Fewer
  <2>3. a + Len(late) <= Left
    BY <1>1 DEF Counted
  <2>4. Left \in Int /\ Left' \in Int /\ Left + (budget["late"] - budget'["late"]) <= Left'
    BY <1>0, <1>2, SpentGrows
  <2> HIDE DEF a, b
  <2>5. b + Len(late') <= Left'
    BY <1>1, <1>2, <1>3, <2>2, <2>3, <2>4
  <2> QED
    BY <2>5 DEF Counted, b
<1>9. UpInv'
  <2>1. TasksOK(todo', DOMAIN trades', entries) /\ todo' /= <<>> /\ BookOK(trades', venue', entries)
    BY DEF WorkStep
  <2>2. Tracked' = DOMAIN trades'
    BY DEF Tracked
  <2>3. DOMAIN trades' \subseteq Tracked /\ Tracked \subseteq DOMAIN journal \cup {entries}
    BY AtWork DEF WorkStep
  <2>4. Early(todo') => DOMAIN trades' \subseteq DOMAIN journal
    BY <2>3, AtWork DEF WorkStep
  <2>5. ASSUME NEW t \in DOMAIN trades', t \in DOMAIN journal
        PROVE  journal'[t].ticket = trades'[t].ticket
    BY <2>3, <2>5, AtWork DEF WorkStep, SameBook
  <2>6. ~Doing("ticket")' /\ (Doing("closing") => ClosedOK(Arg, trades, venue))'
    BY DEF Doing, Arg, WorkStep
  <2> QED
    BY <1>0, <1>4, <2>1, <2>2, <2>3, <2>4, <2>5, <2>6 DEF UpInv
<1>10. UpStops'
  <2>1. ~Doing("ticket")'
    BY DEF Doing, WorkStep
  <2> QED
    BY <2>1 DEF UpStops, Tracked
<1> QED
  BY <1>0, <1>5, <1>8, <1>9, <1>10 DEF IInv

-----------------------------------------------------------------------------
(* Calls that open nothing *)

CallOk(q) == Call(q, TRUE, FALSE, FALSE, FALSE)
CallRefused(q) == Call(q, FALSE, TRUE, FALSE, FALSE)
CallLost(q) == Call(q, FALSE, FALSE, TRUE, FALSE)
CallEscaped(q) == Call(q, FALSE, FALSE, FALSE, TRUE)
CallBad(q) == CallRefused(q) \/ CallLost(q) \/ CallEscaped(q)

\* What a call does to the terminal, to the requests given up on and to the faults to come.
LEMMA CallCases ==
    ASSUME IInv, NEW q, CallOk(q) \/ CallBad(q)
    PROVE  /\ venue' \in {venue, Try(venue, q), Try(Try(venue, q), q)} /\ Spends
           /\ late' = late \/ (late' = Append(late, q) /\ budget'["late"] = budget["late"] - 1)
           /\ CallOk(q) => /\ Can(venue, q) /\ late' = late
                           /\ \/ venue' = Do(venue, q)
                              \/ venue' = Do(Do(venue, q), q) /\ Can(Do(venue, q), q)
<1>1. CASE Can(venue, q) /\ venue' = Do(venue, q) /\ UNCHANGED <<late, budget>>
  BY <1>1, SpendNone DEF Try
<1>2. CASE (IF Can(venue, q) THEN Spend("refuse") ELSE UNCHANGED budget) /\ UNCHANGED <<venue, late>> /\ ~CallOk(q)
  BY <1>2, SpendNone, SpendIs DEF Fault
<1>3. CASE /\ Can(venue, q) /\ Spend("resend") /\ UNCHANGED late /\ venue' = Try(Do(venue, q), q)
           /\ CallOk(q) => Can(Do(venue, q), q)
  <2>1. Try(venue, q) = Do(venue, q)
    BY <1>3 DEF Try
  <2>2. CallOk(q) => venue' = Do(Do(venue, q), q)
    BY <1>3 DEF Try
  <2>3. Spends
    BY <1>3, SpendIs DEF Fault
  <2> QED
    BY <1>3, <2>1, <2>2, <2>3
<1>4. CASE Spend("lose") /\ UNCHANGED late /\ venue' \in {venue, Try(venue, q), Try(Try(venue, q), q)} /\ ~CallOk(q)
  BY <1>4, SpendIs DEF Fault
<1>5. CASE Spend("late") /\ late' = Append(late, q) /\ UNCHANGED venue /\ ~CallOk(q)
  BY <1>5, SpendIs DEF Fault
<1>6. \/ Can(venue, q) /\ venue' = Do(venue, q) /\ UNCHANGED <<late, budget>>
      \/ (IF Can(venue, q) THEN Spend("refuse") ELSE UNCHANGED budget) /\ UNCHANGED <<venue, late>>
      \/ Can(venue, q) /\ Spend("resend") /\ UNCHANGED late /\ venue' = Try(Do(venue, q), q)
      \/ Spend("lose") /\ UNCHANGED late /\ venue' \in {venue, Try(venue, q), Try(Try(venue, q), q)}
      \/ Spend("late") /\ late' = Append(late, q) /\ UNCHANGED venue
  BY DEF CallOk, CallBad, CallRefused, CallLost, CallEscaped, Call
<1>7. CASE CallOk(q)
  <2>1. \/ Can(venue, q) /\ venue' = Do(venue, q) /\ UNCHANGED <<late, budget>>
        \/ /\ Can(venue, q) /\ Spend("resend") /\ UNCHANGED late /\ venue' = Try(Do(venue, q), q)
           /\ Can(Do(venue, q), q)
    BY <1>7 DEF CallOk, Call
  <2> QED
    BY <1>1, <1>3, <2>1
<1>8. CASE ~CallOk(q)
  BY <1>1, <1>2, <1>3, <1>4, <1>5, <1>6, <1>8
<1> QED
  BY <1>7, <1>8

\* A move that is refused leaves the terminal as it was.
LEMMA NotMoved ==
    ASSUME IInv, NEW q, RequestOK(q, Len(venue), entries), q.kind = "modify", CallRefused(q)
    PROVE  UNCHANGED venue
<1>1. \/ UNCHANGED venue
      \/ Can(venue, q) /\ ~Can(Do(venue, q), q)
  BY DEF CallRefused, Call
<1>2. VenueOK(venue, entries) /\ q.id \in 1..Len(venue)
  BY Typed DEF RequestOK
<1>3. Do(venue, q)[q.id].qty = venue[q.id].qty
  BY <1>2, ModifyMakes
<1>4. Can(venue, q) => Can(Do(venue, q), q)
  BY <1>3 DEF Can
<1> QED
  BY <1>1, <1>4

LEMMA LateMakes ==
    ASSUME NEW l, NEW n, NEW last, LateOK(l, n, last), NEW q, RequestOK(q, n, last)
    PROVE  LateOK(Append(l, q), n, last) /\ Len(Append(l, q)) = Len(l) + 1 /\ Len(l) \in Nat
<1>1. IsSeq(l) /\ \A i \in 1..Len(l) : RequestOK(l[i], n, last)
  BY DEF LateOK
<1>2. Len(l) \in Nat
  BY <1>1, SeqLen
<1> DEFINE k == Append(l, q)
<1>3. /\ IsSeq(k) /\ Len(k) = Len(l) + 1 /\ k[Len(l) + 1] = q
      /\ \A i \in 1..Len(l) : k[i] = l[i]
  BY <1>1, SeqAppend
<1> HIDE DEF k
<1>4. ASSUME NEW i \in 1..Len(k) PROVE RequestOK(k[i], n, last)
  <2>1. i \in 1..Len(l) \/ i = Len(l) + 1
    BY <1>2, <1>3
  <2> QED
    BY <1>1, <1>3, <2>1
<1>5. LateOK(k, n, last)
  BY <1>3, <1>4 DEF LateOK
<1> QED
  BY <1>2, <1>3, <1>5 DEF k

LEMMA CallMakes ==
    ASSUME IInv, NEW q, RequestOK(q, Len(venue), entries), q.kind /= "open", CallOk(q) \/ CallBad(q)
    PROVE  /\ SameLength
           /\ \A i \in 1..Len(venue) :
                  venue'[i].sl = venue[i].sl \/ (q.kind = "modify" /\ i = q.id /\ venue'[i].sl = q.n)
<1>1. /\ VenueOK(venue, entries) /\ entries \in Nat /\ LateOK(late, Len(venue), entries) /\ Len(late) \in Nat
      /\ budget \in [Fault -> Nat]
  BY Typed
<1>2. venue' \in {venue, Try(venue, q), Try(Try(venue, q), q)} /\ Spends
  BY CallCases
<1>3. VenueOK(venue', entries) /\ Makes(venue, venue', q)
  BY <1>1, <1>2, TwiceMakes
<1>4. GoesOn(venue, venue') /\ Len(venue') = Len(venue)
  BY <1>3 DEF Makes
<1>5. LateOK(late', Len(venue), entries) /\ Len(late') <= Len(late) + (budget["late"] - budget'["late"])
  <2>1. budget["late"] \in Nat /\ budget'["late"] \in Nat /\ budget'["late"] <= budget["late"]
    BY <1>1, <1>2 DEF Spends, Fault
  <2>2. CASE late' = late
    BY <1>1, <2>1, <2>2
  <2>3. CASE late' = Append(late, q) /\ budget'["late"] = budget["late"] - 1
    <3>1. LateOK(late', Len(venue), entries) /\ Len(late') = Len(late) + 1
      BY <1>1, <2>3, LateMakes
    <3> QED
      BY <1>1, <2>1, <2>3, <3>1
  <2> QED
    BY <2>2, <2>3, CallCases
<1>6. SameLength
  BY <1>2, <1>3, <1>4, <1>5 DEF SameLength
<1> QED
  BY <1>3, <1>6 DEF Makes

\* A stop moved is where it was asked to be.
LEMMA MovedTo ==
    ASSUME IInv, NEW q, RequestOK(q, Len(venue), entries), q.kind = "modify", CallOk(q)
    PROVE  venue'[q.id].sl = q.n
<1>1. VenueOK(venue, entries) /\ entries \in Nat
  BY Typed
<1> DEFINE w == Do(venue, q)
<1>2. VenueOK(w, entries) /\ Makes(venue, w, q) /\ w[q.id].sl = q.n
  BY <1>1, ModifyMakes
<1> HIDE DEF w
<1>3. Len(w) = Len(venue)
  BY <1>2 DEF Makes
<1>4. Do(w, q)[q.id].sl = q.n
  BY <1>2, <1>3, ModifyMakes
<1>5. venue' = w \/ venue' = Do(w, q)
  BY CallCases DEF w
<1> QED
  BY <1>2, <1>4, <1>5

\* What was closed had the volume, and has lost it.
LEMMA ClosedBy ==
    ASSUME IInv, NEW q, RequestOK(q, Len(venue), entries), q.kind = "close", CallOk(q)
    PROVE  q.n <= venue[q.id].qty /\ venue'[q.id].qty <= venue[q.id].qty - q.n
<1>1. VenueOK(venue, entries) /\ entries \in Nat /\ Can(venue, q)
  BY Typed, CallCases
<1>2. q.id \in 1..Len(venue) /\ q.n \in Nat /\ q.n <= venue[q.id].qty /\ venue[q.id].qty \in Nat
  <2>1. q.id \in 1..Len(venue) /\ q.n \in Nat
    BY DEF RequestOK
  <2>2. venue[q.id].qty \in Nat
    BY <1>1, <2>1, VenueFacts
  <2> QED
    BY <1>1, <2>1, <2>2 DEF Can
<1> DEFINE w == Do(venue, q)
<1>3. VenueOK(w, entries) /\ Makes(venue, w, q) /\ w[q.id].qty = venue[q.id].qty - q.n
  BY <1>1, CloseMakes
<1> HIDE DEF w
<1>4. Len(w) = Len(venue)
  BY <1>3 DEF Makes
<1>5. Can(w, q) => Do(w, q)[q.id].qty = w[q.id].qty - q.n
  BY <1>3, <1>4, CloseMakes
<1>6. venue' = w \/ (venue' = Do(w, q) /\ Can(w, q))
  BY CallCases DEF w
<1> QED
  BY <1>2, <1>3, <1>5, <1>6

-----------------------------------------------------------------------------
(* The stages of an item *)

AtStage == todo /= <<>> /\ Head(todo).op \in Stages \ {"flush"}

LEMMA RestAt ==
    ASSUME IInv, mode = "up", AtStage
    PROVE  /\ TasksOK(Rest, Tracked, entries) /\ Rest /= <<>> /\ Head(Rest).op \in Stages
           /\ Early(Rest) => Early(todo)
<1>1. TasksOK(todo, Tracked, entries)
  BY AtWork
<1>2. todo /= <<>> /\ Head(todo).op /= "flush" /\ Head(todo).op \notin OfTrade
  BY DEF AtStage, Stages, OfTrade, Calling
<1> DEFINE none == Tracked \ Tracked
<1>3. \A t \in none : Head(todo).op \in OfTrade => t = Head(todo).t
  OBVIOUS
<1>4. TasksOK(Tail(todo), Tracked, entries)
  BY <1>1, <1>2, RestOK
<1>5. Tail(todo) /= <<>>
  BY <1>1, <1>2, RestOK
<1>6. Head(Tail(todo)).op \in Stages
  BY <1>1, <1>2, RestOK
<1>7. Early(Tail(todo)) => Early(todo)
  BY <1>1, <1>2, RestOK
<1> QED
  BY <1>4, <1>5, <1>6, <1>7 DEF Rest

LEMMA SamePlace == ASSUME IInv, UNCHANGED <<venue, late>>, Spends PROVE SameLength /\ StopsStay
<1>1. /\ VenueOK(venue, entries) /\ LateOK(late, Len(venue), entries) /\ Len(late) \in Nat
      /\ budget \in [Fault -> Nat]
  BY Typed
<1>2. GoesOn(venue, venue)
  BY <1>1, GoesSame
<1>3. Len(late) <= Len(late) + (budget["late"] - budget'["late"])
  <2>1. budget["late"] \in Nat /\ budget'["late"] \in Nat /\ budget'["late"] <= budget["late"]
    BY <1>1 DEF Spends, Fault
  <2> QED
    BY <1>1, <2>1
<1> QED
  BY <1>1, <1>2, <1>3 DEF SameLength, StopsStay

LEMMA FoundHead == ASSUME NEW s, s /= <<>>, Found(s) PROVE Head(s).op /= "ticket" /\ Head(s).op /= "closing"
  BY DEF Found

\* A step that makes no call: the trades that are left are as they were but for what they
\* are called and how large they are.
LEMMA QuietKeeps ==
    ASSUME IInv, mode = "up", todo /= <<>>, Head(todo).op \notin {"ticket", "settled"},
           UNCHANGED <<setup, mode, forgotten, journal, entries, venue, late>>, Spends,
           DOMAIN trades' \subseteq Tracked,
           \A t \in DOMAIN trades' :
               /\ TradeOK(trades'[t], t, venue) /\ trades'[t].ticket = trades[t].ticket
               /\ trades'[t].sl = trades[t].sl /\ trades'[t].pending = trades[t].pending
               /\ trades'[t].unsure = trades[t].unsure,
           \A t \in Tracked \ DOMAIN trades' : venue[trades[t].ticket].qty = 0,
           TasksOK(todo', DOMAIN trades', entries), todo' /= <<>>, Head(todo').op /= "ticket",
           Early(todo') => Early(todo),
           Head(todo').op = "closing" => ClosedOK(Head(todo').arg, trades', venue)
    PROVE  IInv'
<1>1. SameLength /\ StopsStay
  BY SamePlace
<1>2. SameBook /\ (InTime => \A t \in DOMAIN journal' : Agrees(journal'[t], venue'))
  BY <1>1, JournalStays
<1>3. BookOK(trades', venue', entries)
  <2>1. Tracked \subseteq 1..entries
    BY AtWork
  <2> QED
    BY <2>1 DEF BookOK
<1>4. WorkStep
  BY <1>1, <1>2, <1>3 DEF WorkStep
<1>5. InTime' => InTime
  BY SpentGrows
<1>6. ASSUME InTime', NEW t \in DOMAIN trades' PROVE Agrees(trades'[t], venue')
  <2>1. Agrees(trades[t], venue) \/ Owed(t, todo)
    BY <1>5, <1>6 DEF IInv, UpStops
  <2>2. ~Owed(t, todo)
    BY DEF Owed
  <2> QED
    BY <2>1, <2>2 DEF Agrees
<1> QED
  BY <1>2, <1>4, <1>5, <1>6, WorkKeeps

\* A step that calls nothing and changes no trade.
LEMMA LocalKeeps ==
    ASSUME IInv, mode = "up", AtStage, UNCHANGED entries, NEW tasks, Local(trades, tasks),
           TasksOK(tasks, Tracked, entries), tasks /= <<>>, Head(tasks).op /= "ticket",
           Head(tasks).op = "closing" => ClosedOK(Head(tasks).arg, trades, venue),
           Early(tasks) => Early(todo)
    PROVE  IInv'
<1>1. /\ UNCHANGED <<setup, mode, forgotten, journal>> /\ trades' = trades /\ todo' = tasks
      /\ UNCHANGED <<venue, late, budget>>
  BY DEF Local, Step, Goes
<1>2. Spends /\ todo /= <<>> /\ Head(todo).op \notin {"ticket", "settled"}
  BY <1>1, SpendNone DEF AtStage, Stages
<1>3. BookOK(trades, venue, entries) /\ Tracked = DOMAIN trades
  BY AtWork
<1>4. \A t \in DOMAIN trades : TradeOK(trades[t], t, venue)
  BY <1>3 DEF BookOK
<1> QED
  BY <1>1, <1>2, <1>3, <1>4, QuietKeeps

LEMMA RestKeeps ==
    ASSUME IInv, mode = "up", AtStage, UNCHANGED entries, Local(trades, Rest)
    PROVE  IInv'
<1>1. TasksOK(Rest, Tracked, entries) /\ Rest /= <<>> /\ Head(Rest).op \in Stages /\ (Early(Rest) => Early(todo))
  BY RestAt
<1>2. Head(Rest).op /= "ticket" /\ Head(Rest).op /= "closing"
  BY <1>1 DEF Stages
<1> QED
  BY <1>1, <1>2, LocalKeeps

LEMMA EachKeeps ==
    ASSUME IInv, mode = "up", AtStage, UNCHANGED entries, NEW S, S \subseteq Tracked,
           NEW op, op \in Calling \cup {"level"},
           Local(trades, PerTrade(op, S) \o Rest)
    PROVE  IInv'
<1> DEFINE c == PerTrade(op, S) \o Rest
<1>1. TasksOK(Rest, Tracked, entries) /\ Rest /= <<>> /\ Head(Rest).op \in Stages
  BY RestAt
<1>2. IsFiniteSet(S) /\ Tracked \subseteq Nat
  BY AtWork, FS_Subset
<1>3. TasksOK(c, Tracked, entries)
  BY <1>1, <1>2, EachOK
<1>4. c /= <<>>
  BY <1>1, <1>2, EachOK
<1>5. Head(c).op \in Stages \cup Calling
  BY <1>1, <1>2, EachOK
<1>6. Early(c) => Early(todo)
  BY <1>1, <1>2, EachOK, RestAt
<1> HIDE DEF c
<1>7. Local(trades, c)
  BY DEF c
<1>8. Head(c).op /= "ticket" /\ Head(c).op /= "closing"
  BY <1>5 DEF Stages, Calling
<1> QED
  BY <1>3, <1>4, <1>6, <1>7, <1>8, LocalKeeps

LEMMA RetryKeeps == ASSUME IInv, mode = "up", RetryPending PROVE IInv'
<1>1. AtStage /\ UNCHANGED entries
  BY DEF RetryPending, Doing, AtStage, Stages
<1>2. Local(trades, PerTrade("sync", {t \in Tracked : trades[t].pending}) \o Rest)
  BY DEF RetryPending
<1> DEFINE S == {t \in Tracked : trades[t].pending}
<1>3. S \subseteq Tracked
  OBVIOUS
<1> QED
  BY <1>1, <1>2, <1>3, EachKeeps DEF Calling

LEMMA BreakEvensKeep == ASSUME IInv, mode = "up", BreakEvens PROVE IInv'
<1>1. AtStage /\ UNCHANGED entries
  BY DEF BreakEvens, Doing, AtStage, Stages
<1>2. PICK S \in SUBSET {t \in Tracked : setup.free /\ Fractions = <<>> /\ ~trades[t].free} :
          Local(trades, PerTrade("free_sl", S) \o Rest)
  BY DEF BreakEvens
<1>3. S \subseteq Tracked
  OBVIOUS
<1> QED
  BY <1>1, <1>2, <1>3, EachKeeps DEF Calling

LEMMA RaiseKeeps == ASSUME IInv, mode = "up", RaiseStops PROVE IInv'
<1>1. AtStage /\ UNCHANGED entries
  BY DEF RaiseStops, Doing, AtStage, Stages
<1>2. PICK S \in SUBSET {t \in Tracked : trades[t].sl < setup.top} : Local(trades, PerTrade("raise_sl", S) \o Rest)
  BY DEF RaiseStops
<1>3. S \subseteq Tracked
  OBVIOUS
<1> QED
  BY <1>1, <1>2, <1>3, EachKeeps DEF Calling

LEMMA LevelsKeep == ASSUME IInv, mode = "up", CheckLevels PROVE IInv'
<1>1. AtStage /\ UNCHANGED entries
  BY DEF CheckLevels, Doing, AtStage, Stages
<1>2. CASE Fractions /= <<>>
  <2>1. Local(trades, PerTrade("level", Tracked) \o Rest)
    BY <1>2 DEF CheckLevels
  <2> QED
    BY <1>1, <2>1, EachKeeps
<1>3. CASE Fractions = <<>>
  <2>1. <<>> \o Rest = Rest
    <3>1. IsSeq(Rest)
      BY <1>1, RestAt DEF TasksOK
    <3> DEFINE X == {Rest[i] : i \in 1..Len(Rest)}
    <3>2. Rest \in Seq(X)
      BY <3>1 DEF IsSeq
    <3> HIDE DEF X
    <3> QED
      BY <3>2
  <2>2. Local(trades, Rest)
    BY <1>3, <2>1 DEF CheckLevels
  <2> QED
    BY <1>1, <2>2, RestKeeps
<1> QED
  BY <1>2, <1>3

LEMMA LevelDoneKeeps == ASSUME IInv, mode = "up", LevelDone PROVE IInv'
<1>1. AtStage /\ UNCHANGED entries /\ Local(trades, Rest)
  BY DEF LevelDone, Doing, AtStage, Stages
<1> QED
  BY <1>1, RestKeeps

\* The ranked trades of a set, as a sequence.
LEMMA RankedIs ==
    ASSUME NEW S, IsFiniteSet(S), S \subseteq Nat
    PROVE  IsSeq(Ascending(S)) /\ \A i \in 1..Len(Ascending(S)) : Ascending(S)[i] \in S
<1> DEFINE n == Cardinality(S)
           a == Ascending(S)
<1>1. n \in Nat /\ \A k \in 1..n : a[k] \in S
  BY FS_CardinalityType, RanksName
<1>2. a = [k \in 1..n |-> a[k]]
  <2> DEFINE f(k) == CHOOSE i \in S : Cardinality({j \in S : j <= i}) = k
  <2>1. a = [k \in 1..n |-> f(k)]
    BY DEF Ascending
  <2> HIDE DEF a, f, n
  <2> QED
    BY <2>1
<1> HIDE DEF n, a
<1>3. IsSeq(a) /\ Len(a) = n
  BY <1>1, <1>2, SeqMade
<1> QED
  BY <1>1, <1>3 DEF a

\* A loop of closes, before a rest that concerns no trade.
ClosingFirst(left, done, s) == <<Closing(left, done)>> \o s
LEMMA ClosingIs ==
    ASSUME NEW s, NEW ids, NEW last, TasksOK(s, ids, last), s /= <<>>, Head(s).op \in Stages,
           NEW left, NEW done, NEW c, c = ClosingFirst(left, done, s)
    PROVE  /\ TasksOK(c, ids, last) /\ c /= <<>> /\ Head(c).op = "closing"
           /\ Head(c).arg.left = left /\ Head(c).arg.done = done
           /\ Early(c) => Early(s)
<1> DEFINE x == Closing(left, done)
<1>1. x.op = "closing" /\ x.arg = [left |-> left, done |-> done]
  BY DEF Closing, Task
<1> HIDE DEF x
<1>2. TaskOK(x, ids, last)
  BY <1>1 DEF TaskOK, OfTrade, Calling
<1>3. c = <<x>> \o s
  BY DEF ClosingFirst, x
<1>4. TasksOK(c, ids, last)
  BY <1>1, <1>2, <1>3, OneMore
<1>5. c /= <<>> /\ Head(c) = x
  BY <1>1, <1>2, <1>3, OneMore
<1>6. Early(c) => Early(s) \/ x.op = "ticket"
  BY <1>1, <1>2, <1>3, OneMore
<1> QED
  BY <1>1, <1>4, <1>5, <1>6

LEMMA ForceCloseKeeps == ASSUME IInv, mode = "up", ForceClose PROVE IInv'
<1>1. AtStage /\ UNCHANGED entries
  BY DEF ForceClose, Doing, AtStage, Stages
<1>2. CASE Local(trades, Rest)
  BY <1>1, <1>2, RestKeeps
<1>3. CASE Local(trades, <<Closing(Ascending(Tracked), {})>> \o Rest)
  <2> DEFINE c == <<Closing(Ascending(Tracked), {})>> \o Rest
  <2>1. TasksOK(Rest, Tracked, entries) /\ Rest /= <<>> /\ Head(Rest).op \in Stages /\ (Early(Rest) => Early(todo))
    BY <1>1, RestAt
  <2>2. /\ TasksOK(c, Tracked, entries) /\ c /= <<>> /\ Head(c).op = "closing"
        /\ Head(c).arg.left = Ascending(Tracked) /\ Head(c).arg.done = {}
        /\ (Early(c) => Early(Rest))
    <3> DEFINE a == Ascending(Tracked)
    <3>1. c = ClosingFirst(a, {}, Rest)
      BY DEF ClosingFirst
    <3> HIDE DEF a, c
    <3>2. /\ TasksOK(c, Tracked, entries) /\ c /= <<>> /\ Head(c).op = "closing"
          /\ Head(c).arg.left = a /\ Head(c).arg.done = {}
          /\ (Early(c) => Early(Rest))
      BY <2>1, <3>1, ClosingIs
    <3> QED
      BY <3>2 DEF a
  <2>3. IsSeq(Ascending(Tracked)) /\ \A i \in 1..Len(Ascending(Tracked)) : Ascending(Tracked)[i] \in Tracked
    BY AtWork, RankedIs
  <2> HIDE DEF c
  <2>4. ClosedOK(Head(c).arg, trades, venue)
    BY <2>2, <2>3, AtWork DEF ClosedOK
  <2>5. Local(trades, c)
    BY <1>3 DEF c
  <2> QED
    BY <1>1, <2>1, <2>2, <2>4, <2>5, LocalKeeps
<1> QED
  BY <1>2, <1>3 DEF ForceClose

-----------------------------------------------------------------------------
(* Stops *)

IsSure(x, r) == x = [r EXCEPT !.unsure = FALSE]
IsUnsure(x, r) == x = [r EXCEPT !.unsure = TRUE]
IsPending(x, r) == x = [r EXCEPT !.pending = TRUE]
IsDone(x, r) == x = [r EXCEPT !.pending = FALSE]
HasStop(x, r, n) == x = [r EXCEPT !.sl = n]

\* What remains of a record when one of its fields is set.
LEMMA SureIs ==
    ASSUME NEW v, NEW t, NEW r, TradeOK(r, t, v), NEW x, IsSure(x, r)
    PROVE  /\ TradeOK(x, t, v) /\ x.ticket = r.ticket /\ x.sl = r.sl
           /\ x.pending = r.pending
<1>1. /\ r = [size |-> r.size, hits |-> r.hits, sl |-> r.sl, ticket |-> r.ticket,
              free |-> r.free, pending |-> r.pending, unsure |-> r.unsure]
      /\ r.size \in Nat /\ r.hits \in Nat /\ r.sl \in Int
      /\ r.free \in BOOLEAN /\ r.pending \in BOOLEAN /\ r.unsure \in BOOLEAN
      /\ r.ticket \in 1..Len(v) /\ v[r.ticket].trade = t /\ v[r.ticket].qty <= r.size
  BY DEF TradeOK
<1>2. x = [size |-> r.size, hits |-> r.hits, sl |-> r.sl, ticket |-> r.ticket,
           free |-> r.free, pending |-> r.pending, unsure |-> FALSE]
  BY <1>1 DEF IsSure
<1> QED
  BY <1>1, <1>2 DEF TradeOK

LEMMA UnsureIs ==
    ASSUME NEW v, NEW t, NEW r, TradeOK(r, t, v), NEW x, IsUnsure(x, r)
    PROVE  /\ TradeOK(x, t, v) /\ x.ticket = r.ticket /\ x.sl = r.sl
           /\ x.pending = r.pending /\ x.unsure = TRUE
<1>1. /\ r = [size |-> r.size, hits |-> r.hits, sl |-> r.sl, ticket |-> r.ticket,
              free |-> r.free, pending |-> r.pending, unsure |-> r.unsure]
      /\ r.size \in Nat /\ r.hits \in Nat /\ r.sl \in Int
      /\ r.free \in BOOLEAN /\ r.pending \in BOOLEAN /\ r.unsure \in BOOLEAN
      /\ r.ticket \in 1..Len(v) /\ v[r.ticket].trade = t /\ v[r.ticket].qty <= r.size
  BY DEF TradeOK
<1>2. x = [size |-> r.size, hits |-> r.hits, sl |-> r.sl, ticket |-> r.ticket,
           free |-> r.free, pending |-> r.pending, unsure |-> TRUE]
  BY <1>1 DEF IsUnsure
<1> QED
  BY <1>1, <1>2 DEF TradeOK

LEMMA PendingIs ==
    ASSUME NEW v, NEW t, NEW r, TradeOK(r, t, v), NEW x, IsPending(x, r)
    PROVE  /\ TradeOK(x, t, v) /\ x.ticket = r.ticket /\ x.sl = r.sl
           /\ x.pending = TRUE /\ x.unsure = r.unsure
<1>1. /\ r = [size |-> r.size, hits |-> r.hits, sl |-> r.sl, ticket |-> r.ticket,
              free |-> r.free, pending |-> r.pending, unsure |-> r.unsure]
      /\ r.size \in Nat /\ r.hits \in Nat /\ r.sl \in Int
      /\ r.free \in BOOLEAN /\ r.pending \in BOOLEAN /\ r.unsure \in BOOLEAN
      /\ r.ticket \in 1..Len(v) /\ v[r.ticket].trade = t /\ v[r.ticket].qty <= r.size
  BY DEF TradeOK
<1>2. x = [size |-> r.size, hits |-> r.hits, sl |-> r.sl, ticket |-> r.ticket,
           free |-> r.free, pending |-> TRUE, unsure |-> r.unsure]
  BY <1>1 DEF IsPending
<1> QED
  BY <1>1, <1>2 DEF TradeOK

LEMMA DoneIs ==
    ASSUME NEW v, NEW t, NEW r, TradeOK(r, t, v), NEW x, IsDone(x, r)
    PROVE  /\ TradeOK(x, t, v) /\ x.ticket = r.ticket /\ x.sl = r.sl
           /\ x.pending = FALSE /\ x.unsure = r.unsure
<1>1. /\ r = [size |-> r.size, hits |-> r.hits, sl |-> r.sl, ticket |-> r.ticket,
              free |-> r.free, pending |-> r.pending, unsure |-> r.unsure]
      /\ r.size \in Nat /\ r.hits \in Nat /\ r.sl \in Int
      /\ r.free \in BOOLEAN /\ r.pending \in BOOLEAN /\ r.unsure \in BOOLEAN
      /\ r.ticket \in 1..Len(v) /\ v[r.ticket].trade = t /\ v[r.ticket].qty <= r.size
  BY DEF TradeOK
<1>2. x = [size |-> r.size, hits |-> r.hits, sl |-> r.sl, ticket |-> r.ticket,
           free |-> r.free, pending |-> FALSE, unsure |-> r.unsure]
  BY <1>1 DEF IsDone
<1> QED
  BY <1>1, <1>2 DEF TradeOK

LEMMA StopIs ==
    ASSUME NEW v, NEW t, NEW r, TradeOK(r, t, v), NEW n \in Int, NEW x, HasStop(x, r, n)
    PROVE  TradeOK(x, t, v) /\ x.ticket = r.ticket /\ x.sl = n /\ x.pending = r.pending /\ x.unsure = r.unsure
<1>1. /\ r = [size |-> r.size, hits |-> r.hits, sl |-> r.sl, ticket |-> r.ticket,
              free |-> r.free, pending |-> r.pending, unsure |-> r.unsure]
      /\ r.size \in Nat /\ r.hits \in Nat /\ r.sl \in Int
      /\ r.free \in BOOLEAN /\ r.pending \in BOOLEAN /\ r.unsure \in BOOLEAN
      /\ r.ticket \in 1..Len(v) /\ v[r.ticket].trade = t /\ v[r.ticket].qty <= r.size
  BY DEF TradeOK
<1>2. x = [size |-> r.size, hits |-> r.hits, sl |-> n, ticket |-> r.ticket,
          free |-> r.free, pending |-> r.pending, unsure |-> r.unsure]
  BY <1>1 DEF HasStop
<1> QED
  BY <1>1, <1>2 DEF TradeOK

\* A tracked trade, and what becomes of it.
LEMMA TradeIs ==
    ASSUME IInv, mode = "up", NEW t \in Tracked
    PROVE  /\ TradeOK(trades[t], t, venue) /\ t \in 1..entries
           /\ trades[t].size \in Nat /\ trades[t].hits \in Nat /\ trades[t].sl \in Int
           /\ trades[t].ticket \in 1..Len(venue) /\ venue[trades[t].ticket].trade = t
           /\ venue[trades[t].ticket].qty \in Nat /\ venue[trades[t].ticket].qty <= trades[t].size
           /\ venue[trades[t].ticket].sl \in Int
<1>1. BookOK(trades, venue, entries) /\ Tracked = DOMAIN trades /\ entries \in Nat /\ VenueOK(venue, entries)
  BY AtWork, Typed
<1>2. TradeOK(trades[t], t, venue) /\ t \in 1..entries
  BY <1>1 DEF BookOK
<1>3. /\ trades[t].size \in Nat /\ trades[t].hits \in Nat /\ trades[t].sl \in Int
      /\ trades[t].ticket \in 1..Len(venue) /\ venue[trades[t].ticket].trade = t
      /\ venue[trades[t].ticket].qty <= trades[t].size
  BY <1>2 DEF TradeOK
<1>4. venue[trades[t].ticket].qty \in Nat /\ venue[trades[t].ticket].sl \in Int
  BY <1>1, <1>3, VenueFacts
<1> QED
  BY <1>2, <1>3, <1>4

LEMMA WithIs ==
    ASSUME NEW t \in Tracked, NEW r, NEW other, other = With(t, r)
    PROVE  DOMAIN other = Tracked /\ other[t] = r /\ \A u \in Tracked : u /= t => other[u] = trades[u]
  BY DEF With, Tracked

\* What the journal says of a stop that may have been lowered is in doubt.
LEMMA DoubtedIs ==
    ASSUME NEW book, NEW v, NEW last, BookOK(book, v, last), NEW t, NEW n \in Int,
           NEW other, other = Doubted(book, t, n)
    PROVE  /\ BookOK(other, v, last) /\ DOMAIN other = DOMAIN book
           /\ \A u \in DOMAIN book :
                  /\ other[u].ticket = book[u].ticket /\ other[u].sl = book[u].sl
                  /\ other[u].pending = book[u].pending
                  /\ book[u].unsure => other[u].unsure
                  /\ u = t => other[u].unsure \/ book[u].sl <= n
<1>1. DOMAIN book \subseteq 1..last /\ \A u \in DOMAIN book : TradeOK(book[u], u, v)
  BY DEF BookOK
<1>2. DOMAIN other = DOMAIN book
  BY DEF Doubted
<1>3. ASSUME NEW u \in DOMAIN book
      PROVE  /\ TradeOK(other[u], u, v)
             /\ other[u].ticket = book[u].ticket /\ other[u].sl = book[u].sl
             /\ other[u].pending = book[u].pending
             /\ book[u].unsure => other[u].unsure
             /\ u = t => other[u].unsure \/ book[u].sl <= n
  <2> DEFINE r == book[u]
             x == [r EXCEPT !.unsure = TRUE]
  <2>1. TradeOK(r, u, v)
    BY <1>1
  <2>2. TradeOK(x, u, v) /\ x.ticket = r.ticket /\ x.sl = r.sl /\ x.pending = r.pending /\ x.unsure = TRUE
    <3>1. IsUnsure(x, r)
      BY DEF IsUnsure
    <3> HIDE DEF r, x
    <3> QED
      BY <2>1, <3>1, UnsureIs
  <2>3. other[u] = IF u = t /\ n < r.sl THEN x ELSE r
    BY DEF Doubted
  <2>4. r.sl \in Int
    BY <2>1 DEF TradeOK
  <2> HIDE DEF x
  <2>5. CASE u = t /\ n < r.sl
    BY <2>2, <2>3, <2>5
  <2>6. CASE ~(u = t /\ n < r.sl)
    <3>1. other[u] = r
      BY <2>3, <2>6
    <3>2. u = t => r.sl <= n
      BY <2>4, <2>6
    <3> QED
      BY <2>1, <3>1, <3>2
  <2> QED
    BY <2>5, <2>6
<1> QED
  BY <1>1, <1>2, <1>3 DEF BookOK

\* One trade's stop may have been moved: what is believed of it holds if it is pending, in
\* doubt, where it was asked to be, or not above where it may have been left.
LEMMA StopMade ==
    ASSUME IInv, mode = "up", todo /= <<>>, Found(todo), UNCHANGED <<setup, mode, forgotten, entries>>,
           NEW t \in Tracked, NEW n \in Int,
           NEW q, q = ModifyRequest(trades[t].ticket, n), CallOk(q) \/ CallBad(q),
           \/ UNCHANGED journal /\ UNCHANGED venue
           \/ journal' = Doubted(journal, t, n),
           NEW r, TradeOK(r, t, venue), r.ticket = trades[t].ticket, trades' = With(t, r),
           \/ r.pending
           \/ r.unsure
           \/ CallOk(q) /\ r.sl = n
           \/ /\ Head(todo).op /= "settled" /\ (UNCHANGED venue \/ r.sl <= n)
              /\ r.sl = trades[t].sl /\ r.pending = trades[t].pending /\ r.unsure = trades[t].unsure,
           Head(todo).op = "settled" => Head(todo).t = t,
           TasksOK(todo', Tracked, entries), todo' /= <<>>, Found(todo'), Early(todo') => Early(todo)
    PROVE  IInv'
<1> DEFINE k == trades[t].ticket
<1>1. /\ TradeOK(trades[t], t, venue) /\ t \in 1..entries
      /\ k \in 1..Len(venue) /\ venue[k].trade = t /\ trades[t].sl \in Int
      /\ venue[k].qty \in Nat /\ venue[k].sl \in Int
  BY TradeIs
<1>2. q.kind = "modify" /\ q.id = k /\ q.n = n
  BY DEF ModifyRequest
<1>3. RequestOK(q, Len(venue), entries)
  BY <1>1, <1>2 DEF RequestOK
<1>4. /\ SameLength
      /\ \A i \in 1..Len(venue) : venue'[i].sl = venue[i].sl \/ (i = k /\ venue'[i].sl = n)
  BY <1>2, <1>3, CallMakes
<1>5. DOMAIN trades' = Tracked /\ trades'[t] = r /\ \A u \in Tracked : u /= t => trades'[u] = trades[u]
  <2> DEFINE other == With(t, r)
  <2>1. other = With(t, r)
    OBVIOUS
  <2> HIDE DEF other
  <2>2. DOMAIN other = Tracked /\ other[t] = r
    BY <2>1, WithIs
  <2>3. \A u \in Tracked : u /= t => other[u] = trades[u]
    BY <2>1, WithIs
  <2> QED
    BY <2>2, <2>3 DEF other
<1>6. /\ BookOK(trades, venue, entries) /\ Tracked = DOMAIN trades /\ BookOK(journal, venue, entries)
      /\ entries \in Nat /\ VenueOK(venue, entries) /\ VenueOK(venue', entries) /\ GoesOn(venue, venue')
      /\ entries <= entries
  BY <1>4, AtWork, Typed DEF SameLength
<1>7. BookOK(trades', venue', entries)
  <2>1. DOMAIN trades' = DOMAIN trades \cup {t}
    BY <1>5, <1>6
  <2>2. BookOK(trades', venue, entries)
    BY <1>1, <1>5, <1>6, <2>1, BookWith
  <2> QED
    BY <1>6, <2>2, BookKept
<1>8. SameBook /\ (InTime => \A u \in DOMAIN journal' : Agrees(journal'[u], venue'))
  <2>1. CASE UNCHANGED journal /\ UNCHANGED venue
    <3>1. StopsStay
      BY <2>1 DEF StopsStay
    <3> QED
      BY <1>4, <2>1, <3>1, JournalStays
  <2>2. CASE journal' = Doubted(journal, t, n)
    <3>1. /\ BookOK(journal', venue, entries) /\ DOMAIN journal' = DOMAIN journal
          /\ \A u \in DOMAIN journal :
                 /\ journal'[u].ticket = journal[u].ticket /\ journal'[u].sl = journal[u].sl
                 /\ journal'[u].pending = journal[u].pending
                 /\ journal[u].unsure => journal'[u].unsure
                 /\ u = t => journal'[u].unsure \/ journal[u].sl <= n
      <4> DEFINE other == Doubted(journal, t, n)
      <4>1. other = Doubted(journal, t, n) /\ journal' = other
        BY <2>2
      <4> HIDE DEF other
      <4> QED
        BY <1>6, <4>1, DoubtedIs
    <3>2. BookOK(journal', venue', entries)
      BY <1>6, <3>1, BookKept
    <3>3. ASSUME InTime, NEW u \in DOMAIN journal PROVE Agrees(journal'[u], venue')
      <4> DEFINE j == journal[u].ticket
      <4>1. Agrees(journal[u], venue)
        BY <3>3 DEF IInv, UpStops
      <4>2. j \in 1..Len(venue) /\ venue[j].trade = u
        BY <1>6, BookFacts
      <4>3. Agrees(journal'[u], venue)
        BY <3>1, <4>1 DEF Agrees
      <4>4. CASE venue'[j].sl = venue[j].sl
        BY <1>4, <3>1, <4>2, <4>3, <4>4, AgreesStill
      <4>5. CASE j = k /\ venue'[j].sl = n
        <5>1. u = t
          BY <1>1, <4>2, <4>5
        <5> QED
          BY <3>1, <4>5, <5>1 DEF Agrees
      <4> QED
        BY <1>4, <4>2, <4>4, <4>5
    <3> QED
      BY <3>1, <3>2, <3>3 DEF SameBook
  <2> QED
    BY <2>1, <2>2
<1>9. \A u \in DOMAIN trades' : trades'[u].ticket = trades[u].ticket
  BY <1>5
<1>10. Head(todo').op /= "ticket" /\ Head(todo').op /= "closing" /\ Head(todo).op /= "ticket"
  BY FoundHead
<1>11. WorkStep
  BY <1>4, <1>5, <1>7, <1>8, <1>9, <1>10 DEF WorkStep
<1>12. InTime' => InTime
  BY <1>4, SpentGrows DEF SameLength
<1>13. ASSUME InTime', NEW u \in Tracked PROVE Agrees(trades'[u], venue')
  <2>1. Agrees(trades[u], venue) \/ Owed(u, todo)
    BY <1>12, <1>13 DEF IInv, UpStops
  <2> DEFINE j == trades[u].ticket
  <2>2. j \in 1..Len(venue) /\ venue[j].trade = u
    BY TradeIs
  <2>3. CASE u /= t
    <3>1. ~Owed(u, todo)
      BY <2>3 DEF Owed
    <3>2. venue'[j].sl = venue[j].sl
      BY <1>1, <1>4, <2>2, <2>3
    <3>3. Agrees(trades[u], venue')
      BY <1>4, <2>1, <2>2, <3>1, <3>2, AgreesStill
    <3> QED
      BY <1>5, <2>3, <3>3
  <2>4. CASE u = t
    <3>1. CASE r.pending \/ r.unsure
      BY <1>5, <2>4, <3>1 DEF Agrees
    <3>2. CASE CallOk(q) /\ r.sl = n
      <4>1. venue'[k].sl = n
        BY <1>2, <1>3, <3>2, MovedTo
      <4> QED
        BY <1>5, <2>4, <3>2, <4>1 DEF Agrees
    <3>3. CASE /\ Head(todo).op /= "settled" /\ (UNCHANGED venue \/ r.sl <= n)
               /\ r.sl = trades[t].sl /\ r.pending = trades[t].pending /\ r.unsure = trades[t].unsure
      <4>1. ~Owed(u, todo)
        BY <3>3 DEF Owed
      <4>2. Agrees(r, venue)
        BY <2>1, <2>4, <3>3, <4>1 DEF Agrees
      <4>3. CASE venue'[k].sl = venue[k].sl
        <5>1. Agrees(r, venue')
          BY <1>1, <1>4, <4>2, <4>3, AgreesStill
        <5> QED
          BY <1>5, <2>4, <5>1
      <4>4. CASE venue'[k].sl = n /\ ~(venue'[k].sl = venue[k].sl)
        <5>1. r.sl <= n
          BY <3>3, <4>4
        <5> QED
          BY <1>5, <2>4, <4>4, <5>1 DEF Agrees
      <4> QED
        BY <1>1, <1>4, <4>3, <4>4
    <3> QED
      BY <3>1, <3>2, <3>3
  <2> QED
    BY <2>3, <2>4
<1> QED
  BY <1>5, <1>8, <1>10, <1>11, <1>12, <1>13, WorkKeeps

\* What an item that is given up on has left to do.
LEMMA AbortedIs ==
    ASSUME NEW ids, NEW last
    PROVE  TasksOK(Aborted, ids, last) /\ Aborted /= <<>> /\ Found(Aborted) /\ ~Early(Aborted)
<1> DEFINE x == Stage("flush")
<1>1. x.op = "flush"
  BY DEF Stage, Task
<1> HIDE DEF x
<1> DEFINE s == <<x>>
<1>2. IsSeq(s) /\ Len(s) = 1 /\ s[1] = x
  BY SeqOne
<1>3. s /= <<>> /\ Head(s) = x
  BY <1>2, SeqNone, SeqTail
<1> HIDE DEF s
<1>4. \A i \in 1..Len(s) : i = 1 /\ s[i].op = "flush"
  BY <1>1, <1>2
<1>5. \A i \in 1..Len(s) : TaskOK(s[i], ids, last)
  BY <1>4 DEF TaskOK, Stages, OfTrade, Calling
<1>6. TasksOK(s, ids, last)
  BY <1>2, <1>4, <1>5 DEF TasksOK
<1>7. ~Early(s)
  BY <1>4 DEF Early
<1> QED
  BY <1>1, <1>3, <1>6, <1>7 DEF Aborted, s, x, Found

\* A stop moved, refused, or left in doubt.
LEMMA MoveKeeps ==
    ASSUME IInv, mode = "up", todo /= <<>>, Found(todo),
           NEW t \in Tracked, NEW n \in Int, Head(todo).op = "settled" => Head(todo).t = t,
           NEW ok, TradeOK(ok, t, venue), ok.ticket = trades[t].ticket, ok.sl = n,
           NEW failed, TradeOK(failed, t, venue), failed.ticket = trades[t].ticket,
           failed.pending \/ (failed = trades[t] /\ Head(todo).op /= "settled"),
           NEW kept, TradeOK(kept, t, venue), kept.ticket = trades[t].ticket,
           NEW more, TasksOK(more, Tracked, entries), more /= <<>>, Found(more), Early(more) => Early(todo),
           NEW less, TasksOK(less, Tracked, entries), less /= <<>>, Found(less), Early(less) => Early(todo),
           MoveStop(t, n, ok, failed, kept, more, less)
    PROVE  IInv'
<1> DEFINE q == ModifyRequest(trades[t].ticket, n)
           sure == [ok EXCEPT !.unsure = FALSE]
           maybe == [failed EXCEPT !.unsure = failed.unsure \/ n < failed.sl]
           lost == [kept EXCEPT !.unsure = TRUE]
<1>1. UNCHANGED entries
  BY DEF MoveStop
<1>2. \/ CallOk(q) /\ Goes(With(t, sure), more) /\ journal' = Doubted(journal, t, n)
      \/ CallRefused(q) /\ Step(With(t, failed), less)
      \/ CallLost(q) /\ Goes(With(t, maybe), less) /\ journal' = Doubted(journal, t, n)
      \/ CallEscaped(q) /\ Goes(With(t, lost), Aborted) /\ journal' = Doubted(journal, t, n)
  BY DEF MoveStop, Call, CallOk, CallRefused, CallLost, CallEscaped
<1>3. q = ModifyRequest(trades[t].ticket, n)
  OBVIOUS
<1>4. failed.unsure \in BOOLEAN /\ (n < failed.sl) \in BOOLEAN /\ failed.sl \in Int
  BY DEF TradeOK
<1>5. TradeOK(sure, t, venue) /\ sure.ticket = ok.ticket /\ sure.sl = n
  <2>1. IsSure(sure, ok)
    BY DEF IsSure
  <2> HIDE DEF sure
  <2>2. /\ TradeOK(sure, t, venue) /\ sure.ticket = ok.ticket /\ sure.sl = ok.sl
        /\ sure.pending = ok.pending
    BY <2>1, SureIs
  <2> QED
    BY <2>2
<1>6. /\ TradeOK(maybe, t, venue) /\ maybe.ticket = failed.ticket /\ maybe.sl = failed.sl
      /\ maybe.pending = failed.pending
      /\ IF n < failed.sl THEN maybe.unsure = TRUE ELSE maybe.unsure = failed.unsure
  <2>1. CASE n < failed.sl
    <3>1. IsUnsure(maybe, failed)
      <4>1. (failed.unsure \/ n < failed.sl) = TRUE
        BY <2>1
      <4> QED
        BY <4>1 DEF IsUnsure
    <3> HIDE DEF maybe
    <3>2. /\ TradeOK(maybe, t, venue) /\ maybe.ticket = failed.ticket /\ maybe.sl = failed.sl
          /\ maybe.pending = failed.pending /\ maybe.unsure = TRUE
      BY <3>1, UnsureIs
    <3> QED
      BY <2>1, <3>2
  <2>2. CASE ~(n < failed.sl)
    <3>1. maybe = failed
      <4>1. (failed.unsure \/ n < failed.sl) = failed.unsure
        BY <1>4, <2>2
      <4>2. failed = [size |-> failed.size, hits |-> failed.hits, sl |-> failed.sl, ticket |-> failed.ticket,
                      free |-> failed.free, pending |-> failed.pending, unsure |-> failed.unsure]
        BY DEF TradeOK
      <4> QED
        BY <4>1, <4>2
    <3> HIDE DEF maybe
    <3> QED
      BY <2>2, <3>1
  <2> QED
    BY <2>1, <2>2
<1>7. TradeOK(lost, t, venue) /\ lost.ticket = kept.ticket /\ lost.unsure = TRUE
  <2>1. IsUnsure(lost, kept)
    BY DEF IsUnsure
  <2> HIDE DEF lost
  <2>2. /\ TradeOK(lost, t, venue) /\ lost.ticket = kept.ticket /\ lost.sl = kept.sl
        /\ lost.pending = kept.pending /\ lost.unsure = TRUE
    BY <2>1, UnsureIs
  <2> QED
    BY <2>2
<1> HIDE DEF q, sure, maybe, lost
<1>8. CASE CallOk(q) /\ Goes(With(t, sure), more) /\ journal' = Doubted(journal, t, n)
  <2>1. UNCHANGED <<setup, mode, forgotten>> /\ trades' = With(t, sure) /\ todo' = more
    BY <1>8 DEF Goes
  <2> QED
    BY <1>1, <1>3, <1>5, <1>8, <2>1, StopMade
<1>9. CASE CallRefused(q) /\ Step(With(t, failed), less)
  <2>1. UNCHANGED <<setup, mode, forgotten, journal>> /\ trades' = With(t, failed) /\ todo' = less
    BY <1>9 DEF Step, Goes
  <2>2. UNCHANGED venue
    <3>1. q.kind = "modify" /\ q.id = trades[t].ticket /\ q.n = n
      BY <1>3 DEF ModifyRequest
    <3>2. RequestOK(q, Len(venue), entries)
      BY <3>1, TradeIs DEF RequestOK
    <3> QED
      BY <1>9, <3>1, <3>2, NotMoved
  <2> QED
    BY <1>1, <1>3, <1>9, <2>1, <2>2, StopMade DEF CallBad
<1>10. CASE CallLost(q) /\ Goes(With(t, maybe), less) /\ journal' = Doubted(journal, t, n)
  <2>1. UNCHANGED <<setup, mode, forgotten>> /\ trades' = With(t, maybe) /\ todo' = less
    BY <1>10 DEF Goes
  <2>2. \/ maybe.pending
        \/ maybe.unsure
        \/ /\ Head(todo).op /= "settled" /\ maybe.sl <= n
           /\ maybe.sl = trades[t].sl /\ maybe.pending = trades[t].pending /\ maybe.unsure = trades[t].unsure
    <3>1. CASE failed.pending
      BY <1>6, <3>1
    <3>2. CASE failed = trades[t] /\ Head(todo).op /= "settled" /\ n < failed.sl
      BY <1>6, <3>2, Zenon
    <3>3. CASE failed = trades[t] /\ Head(todo).op /= "settled" /\ ~(n < failed.sl)
      <4>1. maybe.unsure = failed.unsure
        BY <1>4, <1>6, <3>3
      <4>2. failed.sl <= n
        BY <1>4, <3>3
      <4> QED
        BY <1>6, <3>3, <4>1, <4>2
    <3> QED
      BY <3>1, <3>2, <3>3
  <2>3. maybe.ticket = trades[t].ticket
    BY <1>6
  <2> QED
    BY <1>1, <1>3, <1>6, <1>10, <2>1, <2>2, <2>3, StopMade DEF CallBad
<1>11. CASE CallEscaped(q) /\ Goes(With(t, lost), Aborted) /\ journal' = Doubted(journal, t, n)
  <2>1. UNCHANGED <<setup, mode, forgotten>> /\ trades' = With(t, lost) /\ todo' = Aborted
    BY <1>11 DEF Goes
  <2>2. TasksOK(todo', Tracked, entries) /\ todo' /= <<>> /\ Found(todo') /\ (Early(todo') => Early(todo))
    BY <2>1, AbortedIs
  <2> QED
    BY <1>1, <1>3, <1>7, <1>11, <2>1, <2>2, StopMade DEF CallBad
<1> QED
  BY <1>2, <1>8, <1>9, <1>10, <1>11

\* A task of a trade, done.
LEMMA TaskAt ==
    ASSUME IInv, mode = "up", todo /= <<>>, Head(todo).op \in OfTrade
    PROVE  /\ It \in Tracked /\ Found(todo) /\ It = Head(todo).t
           /\ TasksOK(Rest, Tracked, entries) /\ Rest /= <<>> /\ Found(Rest)
           /\ Early(Rest) => Early(todo)
<1>1. TasksOK(todo, Tracked, entries)
  BY AtWork
<1>2. IsSeq(todo) /\ \A i \in 1..Len(todo) : TaskOK(todo[i], Tracked, entries)
  BY <1>1, TasksAre
<1>3. Head(todo) = todo[1] /\ 1 \in 1..Len(todo)
  <2>1. Head(todo) = todo[1] /\ Len(todo) > 0 /\ Len(todo) \in Nat
    BY <1>2, SeqTail, SeqLen
  <2> QED
    BY <2>1, OneIn
<1>4. TaskOK(Head(todo), Tracked, entries)
  BY <1>2, <1>3
<1>5. It \in Tracked /\ It = Head(todo).t
  BY <1>4 DEF It, TaskOK
<1>6. Head(todo).op /= "flush" /\ Found(todo)
  BY DEF OfTrade, Calling, Found
<1> DEFINE none == Tracked \ Tracked
<1>7. \A t \in none : Head(todo).op \in OfTrade => t = Head(todo).t
  OBVIOUS
<1>8. TasksOK(Tail(todo), Tracked, entries)
  BY <1>1, <1>6, RestOK
<1>9. Tail(todo) /= <<>>
  BY <1>1, <1>6, RestOK
<1>10. Head(Tail(todo)).op \in Stages \cup Calling
  BY <1>1, <1>6, RestOK
<1>11. Early(Tail(todo)) => Early(todo)
  BY <1>1, <1>6, RestOK
<1> QED
  BY <1>5, <1>6, <1>8, <1>9, <1>10, <1>11 DEF Rest, Found, Stages, Calling

LEMMA SyncKeeps == ASSUME IInv, mode = "up", SyncStop PROVE IInv'
<1> DEFINE r == trades[It]
           x == [r EXCEPT !.pending = FALSE]
<1>1. todo /= <<>> /\ Head(todo).op \in OfTrade /\ Head(todo).op = "sync"
  BY DEF SyncStop, Doing, OfTrade, Calling
<1>2. /\ TasksOK(Rest, Tracked, entries) /\ Rest /= <<>> /\ Found(Rest)
      /\ (Early(Rest) => Early(todo)) /\ It \in Tracked /\ Found(todo)
  BY <1>1, TaskAt
<1>3. TradeOK(r, It, venue) /\ r.sl \in Int
  BY <1>2, TradeIs
<1>4. TradeOK(x, It, venue) /\ x.ticket = r.ticket /\ x.sl = r.sl
  <2>1. IsDone(x, r)
    BY DEF IsDone
  <2> HIDE DEF r, x
  <2>2. /\ TradeOK(x, It, venue) /\ x.ticket = r.ticket /\ x.sl = r.sl
        /\ x.pending = FALSE /\ x.unsure = r.unsure
    BY <1>3, <2>1, DoneIs
  <2> QED
    BY <2>2
<1>5. MoveStop(It, r.sl, x, r, r, Rest, Rest)
  BY DEF SyncStop
<1> HIDE DEF x
<1> QED
  BY <1>1, <1>2, <1>3, <1>4, <1>5, MoveKeeps

LEMMA BreakEvenKeeps == ASSUME IInv, mode = "up", BreakEven PROVE IInv'
<1> DEFINE r == trades[It]
           x == AtEntry(r)
<1>1. todo /= <<>> /\ Head(todo).op \in OfTrade /\ Head(todo).op = "free_sl"
  BY DEF BreakEven, Doing, OfTrade, Calling
<1>2. /\ TasksOK(Rest, Tracked, entries) /\ Rest /= <<>> /\ Found(Rest)
      /\ (Early(Rest) => Early(todo)) /\ It \in Tracked /\ Found(todo)
  BY <1>1, TaskAt
<1>3. TradeOK(r, It, venue) /\ 0 \in Int
  BY <1>2, TradeIs
<1>4. TradeOK(x, It, venue) /\ x.ticket = r.ticket /\ x.sl = 0 /\ x.pending = r.pending /\ x.unsure = r.unsure
  <2> HIDE DEF r
  <2>1. /\ r = [size |-> r.size, hits |-> r.hits, sl |-> r.sl, ticket |-> r.ticket,
                free |-> r.free, pending |-> r.pending, unsure |-> r.unsure]
        /\ r.size \in Nat /\ r.hits \in Nat /\ r.pending \in BOOLEAN /\ r.unsure \in BOOLEAN
        /\ r.ticket \in 1..Len(venue) /\ venue[r.ticket].trade = It /\ venue[r.ticket].qty <= r.size
    BY <1>3 DEF TradeOK
  <2>2. x = [size |-> r.size, hits |-> r.hits, sl |-> 0, ticket |-> r.ticket,
             free |-> TRUE, pending |-> r.pending, unsure |-> r.unsure]
    <3>1. x = [[r EXCEPT !.sl = 0] EXCEPT !.free = TRUE]
      BY DEF AtEntry
    <3> HIDE DEF x
    <3>2. [r EXCEPT !.sl = 0] = [size |-> r.size, hits |-> r.hits, sl |-> 0, ticket |-> r.ticket,
                                 free |-> r.free, pending |-> r.pending, unsure |-> r.unsure]
      BY <2>1
    <3> QED
      BY <3>1, <3>2
  <2> HIDE DEF x
  <2> QED
    BY <2>1, <2>2 DEF TradeOK
<1>5. CASE r.sl = 0
  <2>1. Local(With(It, x), Rest) /\ UNCHANGED <<snap, entries>>
    BY <1>5 DEF BreakEven
  <2> HIDE DEF x
  <2>2. /\ UNCHANGED <<setup, mode, forgotten, journal, entries, venue, late, budget>>
        /\ trades' = With(It, x) /\ todo' = Rest
    BY <2>1 DEF Local, Step, Goes
  <2>3. DOMAIN trades' = Tracked /\ trades'[It] = x /\ \A u \in Tracked : u /= It => trades'[u] = trades[u]
    <3> DEFINE other == With(It, x)
    <3>1. other = With(It, x)
      OBVIOUS
    <3> HIDE DEF other
    <3>2. DOMAIN other = Tracked /\ other[It] = x
      BY <1>2, <3>1, WithIs
    <3>3. \A u \in Tracked : u /= It => other[u] = trades[u]
      BY <1>2, <3>1, WithIs
    <3> QED
      BY <2>2, <3>2, <3>3 DEF other
  <2>4. ASSUME NEW t \in DOMAIN trades'
        PROVE  /\ TradeOK(trades'[t], t, venue) /\ trades'[t].ticket = trades[t].ticket
               /\ trades'[t].sl = trades[t].sl /\ trades'[t].pending = trades[t].pending
               /\ trades'[t].unsure = trades[t].unsure
    <3>1. CASE t = It
      BY <1>4, <1>5, <2>3, <3>1
    <3>2. CASE t /= It
      BY <2>3, <3>2, TradeIs
    <3> QED
      BY <3>1, <3>2
  <2>5. Spends /\ Head(todo).op \notin {"ticket", "settled"} /\ Head(Rest).op /= "ticket" /\ Head(Rest).op /= "closing"
    BY <1>1, <1>2, <2>2, SpendNone, FoundHead
  <2> QED
    BY <1>1, <1>2, <2>2, <2>3, <2>4, <2>5, QuietKeeps
<1>6. CASE r.sl /= 0
  <2>1. MoveStop(It, 0, x, r, x, Rest, Rest)
    BY <1>6 DEF BreakEven
  <2> HIDE DEF x
  <2> QED
    BY <1>1, <1>2, <1>3, <1>4, <2>1, MoveKeeps
<1> QED
  BY <1>5, <1>6

LEMMA RaiseStopKeeps == ASSUME IInv, mode = "up", RaiseStop PROVE IInv'
<1> DEFINE r == trades[It]
           n == r.sl + 1
           x == [r EXCEPT !.sl = n]
<1>1. todo /= <<>> /\ Head(todo).op \in OfTrade /\ Head(todo).op = "raise_sl"
  BY DEF RaiseStop, Doing, OfTrade, Calling
<1>2. /\ TasksOK(Rest, Tracked, entries) /\ Rest /= <<>> /\ Found(Rest)
      /\ (Early(Rest) => Early(todo)) /\ It \in Tracked /\ Found(todo)
  BY <1>1, TaskAt
<1>3. TradeOK(r, It, venue) /\ n \in Int
  BY <1>2, TradeIs
<1>4. TradeOK(x, It, venue) /\ x.ticket = r.ticket /\ x.sl = n
  <2>1. HasStop(x, r, n)
    BY DEF HasStop
  <2> HIDE DEF n, r, x
  <2> QED
    BY <1>3, <2>1, StopIs
<1>5. MoveStop(It, n, x, r, x, Rest, Rest)
  BY DEF RaiseStop
<1> HIDE DEF x, n
<1> QED
  BY <1>1, <1>2, <1>3, <1>4, <1>5, MoveKeeps

\* A stop the ladder has fallen behind with is pending, if it cannot be moved.
LEMMA SettledKeeps == ASSUME IInv, mode = "up", SettledStop PROVE IInv'
<1> DEFINE r == trades[It]
           x == [r EXCEPT !.pending = TRUE]
<1>1. todo /= <<>> /\ Head(todo).op \in OfTrade
  BY DEF SettledStop, Doing, OfTrade
<1>2. /\ TasksOK(Rest, Tracked, entries) /\ Rest /= <<>> /\ Found(Rest)
      /\ (Early(Rest) => Early(todo)) /\ It \in Tracked /\ Found(todo) /\ It = Head(todo).t
  BY <1>1, TaskAt
<1>3. TradeOK(r, It, venue) /\ r.sl \in Int
  BY <1>2, TradeIs
<1>4. TradeOK(x, It, venue) /\ x.ticket = r.ticket /\ x.sl = r.sl /\ x.pending = TRUE
  <2>1. IsPending(x, r)
    BY DEF IsPending
  <2> HIDE DEF r, x
  <2> QED
    BY <1>3, <2>1, PendingIs
<1>5. MoveStop(It, r.sl, r, x, r, Rest, Rest)
  BY DEF SettledStop
<1> HIDE DEF x
<1> QED
  BY <1>1, <1>2, <1>3, <1>4, <1>5, MoveKeeps

-----------------------------------------------------------------------------
(* The ladder and the closes *)

AtLevel == Doing("level") /\ It \in Tracked /\ NextLevel(It) \in DOMAIN Fractions

LEMMA LevelIs ==
    ASSUME IInv, mode = "up", AtLevel
    PROVE  /\ AtStage /\ Head(todo).op = "level" /\ Found(todo) /\ It \in Tracked
           /\ TasksOK(todo, Tracked, entries) /\ trades[It].hits \in Nat
           /\ CloseSize(It) \in Nat /\ CloseSize(It) <= trades[It].size
<1>1. AtStage /\ Head(todo).op = "level" /\ Found(todo) /\ It \in Tracked
  BY DEF AtLevel, Doing, AtStage, Stages, Found
<1>2. TasksOK(todo, Tracked, entries)
  BY AtWork
<1>3. Fractions \in Seq(Nat) /\ NextLevel(It) \in DOMAIN Fractions
  BY Typed DEF AtLevel, Setup, Fractions
<1>5. trades[It].size \in Nat /\ trades[It].hits \in Nat
  BY <1>1, TradeIs
<1>7. Fractions[NextLevel(It)] \in Nat
  BY <1>3
<1>8. CloseSize(It) \in Nat /\ CloseSize(It) <= trades[It].size
  BY <1>5, <1>7 DEF CloseSize, Lower
<1> QED
  BY <1>1, <1>2, <1>5, <1>8

LEMMA AdvancedIs ==
    ASSUME NEW t, NEW v, NEW r, TradeOK(r, t, v), NEW q \in Nat, q <= r.size,
           v[r.ticket].qty <= r.size - q, NEW x, x = Advanced(r, q)
    PROVE  /\ TradeOK(x, t, v) /\ x.ticket = r.ticket /\ x.sl = r.hits
           /\ x.pending = r.pending /\ x.unsure = r.unsure
<1>1. x = [size |-> r.size - q, hits |-> r.hits + 1, sl |-> r.hits, ticket |-> r.ticket,
           free |-> r.free, pending |-> r.pending, unsure |-> r.unsure]
  BY DEF Advanced
<1>2. /\ x.size = r.size - q /\ x.hits = r.hits + 1 /\ x.sl = r.hits /\ x.ticket = r.ticket
      /\ x.free = r.free /\ x.pending = r.pending /\ x.unsure = r.unsure
  BY <1>1
<1>3. x = [size |-> x.size, hits |-> x.hits, sl |-> x.sl, ticket |-> x.ticket,
           free |-> x.free, pending |-> x.pending, unsure |-> x.unsure]
  BY <1>1
<1>4. r.size \in Nat /\ r.hits \in Nat /\ r.free \in BOOLEAN /\ r.pending \in BOOLEAN /\ r.unsure \in BOOLEAN
  BY DEF TradeOK
<1>5. x.size \in Nat /\ x.hits \in Nat /\ x.sl \in Int
  BY <1>2, <1>4
<1>6. x.free \in BOOLEAN /\ x.pending \in BOOLEAN /\ x.unsure \in BOOLEAN
  BY <1>2, <1>4
<1>7. x.ticket \in 1..Len(v) /\ v[x.ticket].trade = t /\ v[x.ticket].qty <= x.size
  BY <1>2 DEF TradeOK
<1> QED
  BY <1>2, <1>3, <1>5, <1>6, <1>7 DEF TradeOK

LEMMA AdvanceKeeps == ASSUME IInv, mode = "up", AdvanceOnly PROVE IInv'
<1> DEFINE r == trades[It]
           n == r.hits
           x == Advanced(r, 0)
<1>0. AtLevel
  BY DEF AdvanceOnly, AtLevel
<1>1. /\ AtStage /\ Head(todo).op = "level" /\ Found(todo) /\ It \in Tracked
      /\ TasksOK(todo, Tracked, entries) /\ n \in Nat
  BY <1>0, LevelIs
<1>2. todo /= <<>> /\ Head(todo).op /= "settled"
  BY <1>1 DEF AtStage
<1>3. TasksOK(Rest, Tracked, entries) /\ Rest /= <<>> /\ Found(Rest) /\ (Early(Rest) => Early(todo))
  BY <1>1, RestAt DEF Found, Stages
<1>4. /\ TradeOK(r, It, venue) /\ n \in Int
      /\ r.size \in Nat /\ venue[r.ticket].qty \in Nat /\ venue[r.ticket].qty <= r.size
  BY <1>1, TradeIs
<1>5. TradeOK(x, It, venue) /\ x.ticket = r.ticket /\ x.sl = n
  <2>1. x = Advanced(r, 0) /\ n = r.hits
    OBVIOUS
  <2>2. 0 \in Nat /\ 0 <= r.size /\ venue[r.ticket].qty <= r.size - 0
    BY <1>4
  <2> HIDE DEF n, x, r
  <2> QED
    BY <1>4, <2>1, <2>2, AdvancedIs
<1>6. MoveStop(It, n, x, r, x, todo, Rest)
  BY DEF AdvanceOnly
<1> HIDE DEF x, n
<1> QED
  BY <1>1, <1>2, <1>3, <1>4, <1>5, <1>6, MoveKeeps

\* A close of one trade: it is as before, or smaller with its stop due, or gone with its position.
LEMMA CloseKeeps ==
    ASSUME IInv, mode = "up", todo /= <<>>, Head(todo).op \notin {"ticket", "settled"},
           UNCHANGED <<setup, mode, forgotten, journal, entries>>,
           NEW t \in Tracked, NEW n \in Nat,
           NEW q, q = CloseRequest(trades[t].ticket, n), CallOk(q) \/ CallBad(q),
           DOMAIN trades' \subseteq Tracked, \A u \in DOMAIN trades' : u /= t => trades'[u] = trades[u],
           t \in DOMAIN trades' =>
               \/ trades'[t] = trades[t]
               \/ /\ trades'[t].ticket = trades[t].ticket /\ TradeOK(trades'[t], t, venue')
                  /\ \/ Owed(t, todo')
                     \/ /\ trades'[t].sl = trades[t].sl /\ trades'[t].pending = trades[t].pending
                        /\ trades'[t].unsure = trades[t].unsure,
           \A u \in Tracked \ DOMAIN trades' : u = t /\ venue'[trades[t].ticket].qty = 0,
           TasksOK(todo', DOMAIN trades', entries), todo' /= <<>>, Head(todo').op /= "ticket",
           Head(todo').op = "closing" => ClosedOK(Head(todo').arg, trades', venue'),
           Early(todo') => Early(todo)
    PROVE  IInv'
<1> DEFINE k == trades[t].ticket
<1>1. k \in 1..Len(venue)
  BY TradeIs
<1>2. q.kind = "close" /\ q.id = k /\ q.n = n
  BY DEF CloseRequest
<1>3. RequestOK(q, Len(venue), entries)
  BY <1>1, <1>2 DEF RequestOK
<1>4. SameLength /\ StopsStay
  BY <1>2, <1>3, CallMakes DEF StopsStay
<1>5. SameBook /\ (InTime => \A u \in DOMAIN journal' : Agrees(journal'[u], venue'))
  BY <1>4, JournalStays
<1>6. /\ BookOK(trades, venue, entries) /\ Tracked = DOMAIN trades /\ Tracked \subseteq 1..entries
      /\ entries \in Nat /\ VenueOK(venue, entries) /\ VenueOK(venue', entries) /\ GoesOn(venue, venue')
  BY <1>4, AtWork, Typed DEF SameLength
<1>7. ASSUME NEW u \in DOMAIN trades'
      PROVE  /\ TradeOK(trades'[u], u, venue') /\ trades'[u].ticket = trades[u].ticket
             /\ \/ Owed(u, todo')
                \/ /\ trades'[u].sl = trades[u].sl /\ trades'[u].pending = trades[u].pending
                   /\ trades'[u].unsure = trades[u].unsure
  <2>1. CASE trades'[u] = trades[u]
    <3>1. TradeOK(trades[u], u, venue)
      BY TradeIs
    <3>2. TradeOK(trades[u], u, venue')
      BY <1>6, <3>1, TradeKept
    <3> QED
      BY <2>1, <3>2
  <2> QED
    BY <2>1
<1>8. BookOK(trades', venue', entries)
  BY <1>6, <1>7 DEF BookOK
<1>9. WorkStep
  BY <1>4, <1>5, <1>7, <1>8 DEF WorkStep
<1>10. InTime' => InTime
  BY <1>4, SpentGrows DEF SameLength
<1>11. ASSUME InTime', NEW u \in DOMAIN trades' PROVE Agrees(trades'[u], venue') \/ Owed(u, todo')
  <2> SUFFICES ASSUME trades'[u].sl = trades[u].sl, trades'[u].pending = trades[u].pending,
                      trades'[u].unsure = trades[u].unsure
               PROVE  Agrees(trades'[u], venue')
    BY <1>7
  <2>1. Agrees(trades[u], venue) \/ Owed(u, todo)
    BY <1>10, <1>11 DEF IInv, UpStops
  <2>2. ~Owed(u, todo)
    BY DEF Owed
  <2>3. trades[u].ticket \in 1..Len(venue)
    BY TradeIs
  <2>4. Agrees(trades[u], venue')
    BY <1>4, <2>1, <2>2, <2>3, AgreesStill DEF StopsStay
  <2> QED
    BY <1>7, <2>4 DEF Agrees
<1> QED
  BY <1>5, <1>9, <1>10, <1>11, WorkKeeps

\* A close that changes nothing the engine knows of, refused or not known to be made.
LEMMA NotClosed ==
    ASSUME IInv, mode = "up", todo /= <<>>, Head(todo).op \notin {"ticket", "settled"},
           NEW t \in Tracked, NEW n \in Nat,
           NEW q, q = CloseRequest(trades[t].ticket, n), CallOk(q) \/ CallBad(q),
           NEW tasks, Step(trades, tasks), UNCHANGED entries,
           TasksOK(tasks, Tracked, entries), tasks /= <<>>, Head(tasks).op /= "ticket",
           Head(tasks).op = "closing" => ClosedOK(Head(tasks).arg, trades, venue'),
           Early(tasks) => Early(todo)
    PROVE  IInv'
<1>1. UNCHANGED <<setup, mode, forgotten, journal>> /\ trades' = trades /\ todo' = tasks
  BY DEF Step, Goes
<1>2. DOMAIN trades' = Tracked
  BY <1>1 DEF Tracked
<1>3. DOMAIN trades' \subseteq Tracked /\ \A u \in DOMAIN trades' : u /= t => trades'[u] = trades[u]
  BY <1>1, <1>2
<1>4. \A u \in Tracked \ DOMAIN trades' : u = t /\ venue'[trades[t].ticket].qty = 0
  BY <1>2
<1> QED
  BY <1>1, <1>2, <1>3, <1>4, CloseKeeps

\* Closed whole, a trade is gone with its position.
LEMMA WholeGone ==
    ASSUME IInv, mode = "up", NEW t \in Tracked,
           NEW q, q = CloseRequest(trades[t].ticket, trades[t].size), CallOk(q)
    PROVE  venue'[trades[t].ticket].qty = 0
<1> DEFINE k == trades[t].ticket
<1>1. k \in 1..Len(venue) /\ trades[t].size \in Nat /\ venue[k].qty \in Nat /\ venue[k].qty <= trades[t].size
  BY TradeIs
<1>2. q.kind = "close" /\ q.id = k /\ q.n = trades[t].size
  BY DEF CloseRequest
<1>3. RequestOK(q, Len(venue), entries)
  BY <1>1, <1>2 DEF RequestOK
<1>4. q.n <= venue[k].qty /\ venue'[k].qty <= venue[k].qty - q.n
  BY <1>2, <1>3, ClosedBy
<1>5. SameLength
  BY <1>2, <1>3, CallMakes
<1>6. venue'[k].qty \in Nat
  BY <1>1, <1>5, VenueFacts DEF SameLength
<1> QED
  BY <1>1, <1>2, <1>4, <1>6

LEMMA WithoutIs ==
    ASSUME NEW t \in Tracked
    PROVE  /\ DOMAIN Without(t) = Tracked \ {t}
           /\ \A u \in Tracked \ {t} : Without(t)[u] = trades[u]
  BY DEF Without, Restrict, Tracked

\* At a loop of closes: what it has left to do, and the rest of the item.
LEMMA AtClosing ==
    ASSUME IInv, mode = "up", Doing("closing")
    PROVE  /\ todo /= <<>> /\ Head(todo).op = "closing" /\ ClosedOK(Arg, trades, venue)
           /\ TasksOK(Rest, Tracked, entries) /\ Rest /= <<>> /\ Head(Rest).op \in Stages
           /\ Early(Rest) => Early(todo)
           /\ \A others : TasksOK(Rest, others, entries)
<1>1. TasksOK(todo, Tracked, entries)
  BY AtWork
<1>2. todo /= <<>> /\ Head(todo).op = "closing"
  BY DEF Doing
<1>3. Head(todo).op /= "flush" /\ Head(todo).op \notin OfTrade
  BY <1>2 DEF OfTrade, Calling
<1> DEFINE none == Tracked \ Tracked
<1>4. \A t \in none : Head(todo).op \in OfTrade => t = Head(todo).t
  OBVIOUS
<1>5. TasksOK(Tail(todo), Tracked, entries)
  BY <1>1, <1>2, <1>3, RestOK
<1>6. Tail(todo) /= <<>>
  BY <1>1, <1>2, <1>3, RestOK
<1>7. Head(Tail(todo)).op \in Stages
  BY <1>1, <1>2, <1>3, RestOK
<1>8. Early(Tail(todo)) => Early(todo)
  BY <1>1, <1>2, <1>3, RestOK
<1>9. ASSUME NEW others PROVE TasksOK(Tail(todo), others, entries)
  BY <1>5, <1>6, <1>7, StayOK
<1>10. ClosedOK(Arg, trades, venue)
  BY DEF IInv, UpInv
<1> QED
  BY <1>2, <1>5, <1>6, <1>7, <1>8, <1>9, <1>10 DEF Rest

LEMMA CloseTradeKeeps == ASSUME IInv, mode = "up", CloseTrade PROVE IInv'
<1> DEFINE t == Head(Arg.left)
           n == trades[t].size
           q == CloseRequest(trades[t].ticket, n)
           yes == <<Closing(Tail(Arg.left), Arg.done \cup {t})>> \o Rest
           no == <<Closing(Tail(Arg.left), Arg.done)>> \o Rest
<1>1. Doing("closing") /\ Arg.left /= <<>> /\ UNCHANGED entries
  BY DEF CloseTrade
<1>2. /\ todo /= <<>> /\ Head(todo).op = "closing" /\ ClosedOK(Arg, trades, venue)
      /\ TasksOK(Rest, Tracked, entries) /\ Rest /= <<>> /\ Head(Rest).op \in Stages
      /\ (Early(Rest) => Early(todo))
  BY <1>1, AtClosing
<1>3. Head(todo).op \notin {"ticket", "settled"}
  BY <1>2
<1>4. Tracked = DOMAIN trades
  BY AtWork
<1>5. /\ t \in Tracked /\ IsSeq(Tail(Arg.left))
      /\ \A i \in 1..Len(Tail(Arg.left)) : Tail(Arg.left)[i] \in Tracked
      /\ Arg.done \subseteq Tracked /\ \A u \in Arg.done : venue[trades[u].ticket].qty = 0
  <2> DEFINE l == Arg.left
  <2>1. IsSeq(l) /\ \A i \in 1..Len(l) : l[i] \in Tracked
    BY <1>2, <1>4 DEF ClosedOK
  <2>2. /\ IsSeq(Tail(l)) /\ Len(l) > 0 /\ Head(l) = l[1] /\ Len(l) \in Nat
        /\ \A i \in 1..Len(Tail(l)) : i + 1 \in 1..Len(l) /\ Tail(l)[i] = l[i + 1]
    BY <1>1, <2>1, SeqTail, SeqLen
  <2>3. 1 \in 1..Len(l)
    BY <2>2, OneIn
  <2>4. Arg.done \subseteq Tracked /\ \A u \in Arg.done : venue[trades[u].ticket].qty = 0
    BY <1>2, <1>4 DEF ClosedOK
  <2> QED
    BY <2>1, <2>2, <2>3, <2>4
<1>6. Call(q, Step(trades, yes), Step(trades, no), Step(trades, no), Step(trades, Aborted))
  BY DEF CloseTrade
<1> DEFINE left == Tail(Arg.left)
           done == Arg.done
           both == done \cup {t}
<1>7. yes = ClosingFirst(left, both, Rest) /\ no = ClosingFirst(left, done, Rest) /\ both = done \cup {t}
  BY DEF ClosingFirst
<1>9. n \in Nat
  BY <1>5, TradeIs
<1>10. q = CloseRequest(trades[t].ticket, n)
  OBVIOUS
<1> HIDE DEF q, yes, no, t, n, left, done, both
<1>20. /\ TasksOK(yes, Tracked, entries) /\ yes /= <<>> /\ Head(yes).op = "closing"
       /\ Head(yes).arg.left = left /\ Head(yes).arg.done = done \cup {t} /\ (Early(yes) => Early(Rest))
  BY <1>2, <1>7, ClosingIs
<1>8. /\ TasksOK(no, Tracked, entries) /\ no /= <<>> /\ Head(no).op = "closing"
      /\ Head(no).arg.left = left /\ Head(no).arg.done = done /\ (Early(no) => Early(Rest))
  BY <1>2, <1>7, ClosingIs
<1>11. \/ CallOk(q) /\ Step(trades, yes)
       \/ CallBad(q) /\ Step(trades, no)
       \/ CallBad(q) /\ Step(trades, Aborted)
  BY <1>6 DEF Call, CallOk, CallBad, CallRefused, CallLost, CallEscaped
<1>12. \A u \in done : venue'[trades[u].ticket].qty = 0
  <2>1. q.kind = "close" /\ q.id = trades[t].ticket /\ q.n = n
    BY <1>10 DEF CloseRequest
  <2>2. RequestOK(q, Len(venue), entries)
    BY <1>5, <1>9, <2>1, TradeIs DEF RequestOK
  <2>3. SameLength
    BY <1>11, <2>1, <2>2, CallMakes
  <2> SUFFICES ASSUME NEW u \in done PROVE venue'[trades[u].ticket].qty = 0
    OBVIOUS
  <2> DEFINE k == trades[u].ticket
  <2>4. u \in Tracked /\ venue[k].qty = 0
    BY <1>5 DEF done
  <2>5. k \in 1..Len(venue)
    BY <2>4, TradeIs
  <2>6. venue'[k].qty \in Nat /\ venue'[k].qty <= venue[k].qty
    BY <2>3, <2>5, VenueFacts DEF SameLength, GoesOn
  <2> QED
    BY <2>4, <2>6
<1>13. IsSeq(left) /\ \A i \in 1..Len(left) : left[i] \in Tracked
  BY <1>5 DEF left
<1>14. CASE CallOk(q) /\ Step(trades, yes)
  <2>1. venue'[trades[t].ticket].qty = 0
    BY <1>5, <1>10, <1>14, WholeGone DEF n
  <2>2. ClosedOK(Head(yes).arg, trades, venue')
    <3>1. done \cup {t} \subseteq Tracked
      BY <1>5 DEF done
    <3> QED
      BY <1>4, <1>20, <1>12, <1>13, <2>1, <3>1 DEF ClosedOK
  <2> QED
    BY <1>1, <1>2, <1>3, <1>5, <1>20, <1>9, <1>10, <1>14, <2>2, NotClosed
<1>15. CASE CallBad(q) /\ Step(trades, no)
  <2>1. ClosedOK(Head(no).arg, trades, venue')
    <3>1. done \subseteq Tracked
      BY <1>5 DEF done
    <3> QED
      BY <1>4, <1>8, <1>12, <1>13, <3>1 DEF ClosedOK
  <2> QED
    BY <1>1, <1>2, <1>3, <1>5, <1>8, <1>9, <1>10, <1>15, <2>1, NotClosed
<1>16. CASE CallBad(q) /\ Step(trades, Aborted)
  <2>1. /\ TasksOK(Aborted, Tracked, entries) /\ Aborted /= <<>> /\ ~Early(Aborted)
        /\ Head(Aborted).op /= "ticket" /\ Head(Aborted).op /= "closing"
    BY AbortedIs, FoundHead
  <2> QED
    BY <1>1, <1>2, <1>3, <1>5, <1>9, <1>10, <1>16, <2>1, NotClosed
<1> QED
  BY <1>11, <1>14, <1>15, <1>16

LEMMA DropKeeps == ASSUME IInv, mode = "up", DropClosed PROVE IInv'
<1>1. Doing("closing") /\ UNCHANGED entries /\ Local(Restrict(trades, Tracked \ Arg.done), Rest)
  BY DEF DropClosed
<1>2. /\ todo /= <<>> /\ Head(todo).op = "closing" /\ ClosedOK(Arg, trades, venue)
      /\ Rest /= <<>> /\ Head(Rest).op \in Stages /\ (Early(Rest) => Early(todo))
      /\ \A others : TasksOK(Rest, others, entries)
  BY <1>1, AtClosing
<1>3. /\ UNCHANGED <<setup, mode, forgotten, journal, entries, venue, late, budget>>
      /\ trades' = Restrict(trades, Tracked \ Arg.done) /\ todo' = Rest
  BY <1>1 DEF Local, Step, Goes
<1>4. DOMAIN trades' = Tracked \ Arg.done /\ \A t \in Tracked \ Arg.done : trades'[t] = trades[t]
  BY <1>3 DEF Restrict
<1>5. \A t \in Tracked \ DOMAIN trades' : venue[trades[t].ticket].qty = 0
  BY <1>2, <1>4 DEF ClosedOK
<1>6. \A t \in DOMAIN trades' : t \in Tracked /\ trades'[t] = trades[t]
  BY <1>4
<1>7. Spends /\ Head(todo).op \notin {"ticket", "settled"} /\ Head(Rest).op /= "ticket" /\ Head(Rest).op /= "closing"
  BY <1>2, <1>3, SpendNone DEF Stages
<1>8. \A t \in DOMAIN trades' :
          /\ TradeOK(trades'[t], t, venue) /\ trades'[t].ticket = trades[t].ticket
          /\ trades'[t].sl = trades[t].sl /\ trades'[t].pending = trades[t].pending
          /\ trades'[t].unsure = trades[t].unsure
  BY <1>6, TradeIs
<1> QED
  BY <1>2, <1>3, <1>4, <1>5, <1>7, <1>8, QuietKeeps

LEMMA MarketCloseKeeps == ASSUME IInv, mode = "up", MarketClose PROVE IInv'
<1> DEFINE r == trades[It]
           k == r.ticket
           n == CloseSize(It)
           q == CloseRequest(k, n)
<1>0. AtLevel
  BY DEF MarketClose, AtLevel
<1>1. /\ AtStage /\ Head(todo).op = "level" /\ Found(todo) /\ It \in Tracked
      /\ TasksOK(todo, Tracked, entries) /\ r.hits \in Nat /\ n \in Nat /\ n <= r.size
  BY <1>0, LevelIs
<1>2. todo /= <<>> /\ Head(todo).op \in Stages /\ Head(todo).op \notin {"ticket", "settled", "closing"} /\ UNCHANGED entries
  BY <1>1 DEF AtStage, MarketClose
<1>3. /\ TasksOK(Rest, Tracked, entries) /\ Rest /= <<>> /\ (Early(Rest) => Early(todo))
      /\ Head(Rest).op /= "ticket" /\ Head(Rest).op /= "closing"
  BY <1>1, RestAt DEF Stages
<1>4. /\ TradeOK(r, It, venue) /\ r.size \in Nat /\ r.sl \in Int /\ k \in 1..Len(venue)
      /\ venue[k].qty \in Nat /\ venue[k].qty <= r.size
  BY <1>1, TradeIs
<1>5. Call(q, Settled(It, n, todo), Step(trades, Rest), Step(trades, Rest), Step(trades, Aborted))
  BY DEF MarketClose
<1> HIDE DEF q
<1>6. \/ CallOk(q) /\ Settled(It, n, todo)
      \/ CallBad(q) /\ Step(trades, Rest)
      \/ CallBad(q) /\ Step(trades, Aborted)
  BY <1>5 DEF Call, CallOk, CallBad, CallRefused, CallLost, CallEscaped
<1>7. q = CloseRequest(trades[It].ticket, n)
  BY DEF q
<1>8. CASE CallBad(q) /\ Step(trades, Rest)
  <2> HIDE DEF n
  <2> QED
    BY <1>1, <1>2, <1>3, <1>7, <1>8, NotClosed
<1>9. CASE CallBad(q) /\ Step(trades, Aborted)
  <2> HIDE DEF n
  <2>1. /\ TasksOK(Aborted, Tracked, entries) /\ Aborted /= <<>> /\ ~Early(Aborted)
        /\ Head(Aborted).op /= "ticket" /\ Head(Aborted).op /= "closing"
    BY AbortedIs, FoundHead
  <2> QED
    BY <1>1, <1>2, <1>7, <1>9, <2>1, NotClosed
<1>10. CASE CallOk(q) /\ Settled(It, n, todo) /\ n >= r.size
  <2>1. n = r.size
    BY <1>1, <1>4, <1>10
  <2>2. UNCHANGED <<setup, mode, forgotten, journal>> /\ trades' = Without(It) /\ todo' = todo
    BY <1>10 DEF Settled, Step, Goes
  <2>3. DOMAIN trades' = Tracked \ {It} /\ \A u \in DOMAIN trades' : trades'[u] = trades[u]
    BY <1>1, <2>2, WithoutIs
  <2>4. q = CloseRequest(trades[It].ticket, trades[It].size)
    BY <1>7, <2>1
  <2>5. venue'[trades[It].ticket].qty = 0
    BY <1>1, <1>10, <2>4, WholeGone
  <2>6. TasksOK(todo', DOMAIN trades', entries)
    BY <1>1, <1>2, <2>2, StayOK
  <2>7. DOMAIN trades' \subseteq Tracked /\ It \notin DOMAIN trades'
    BY <2>3
  <2>8. \A u \in Tracked \ DOMAIN trades' : u = It /\ venue'[trades[It].ticket].qty = 0
    BY <2>3, <2>5
  <2> HIDE DEF n
  <2> QED
    BY <1>1, <1>2, <1>7, <1>10, <2>2, <2>3, <2>6, <2>7, <2>8, CloseKeeps
<1>11. CASE CallOk(q) /\ Settled(It, n, todo) /\ ~(n >= r.size)
  <2> DEFINE x == Advanced(r, n)
             d == Task("settled", It, 0)
             c == <<d>> \o todo
             e == (IF r.hits /= r.sl THEN <<Task("settled", It, 0)>> ELSE <<>>) \o todo
  <2>1. UNCHANGED <<setup, mode, forgotten, journal>> /\ trades' = With(It, x) /\ todo' = e
    BY <1>11 DEF Settled, Step, Goes
  <2>2. q.kind = "close" /\ q.id = k /\ q.n = n
    BY DEF q, CloseRequest
  <2>3. RequestOK(q, Len(venue), entries)
    BY <1>1, <1>4, <2>2 DEF RequestOK
  <2>4. n <= venue[k].qty /\ venue'[k].qty <= venue[k].qty - n
    BY <1>11, <2>2, <2>3, ClosedBy
  <2>5. SameLength
    BY <1>11, <2>2, <2>3, CallMakes
  <2>6. TradeOK(r, It, venue') /\ venue'[k].qty \in Nat
    <3>1. VenueOK(venue, entries) /\ VenueOK(venue', entries) /\ GoesOn(venue, venue') /\ Len(venue') = Len(venue)
      BY <2>5, Typed DEF SameLength
    <3>2. TradeOK(r, It, venue')
      BY <1>4, <3>1, TradeKept
    <3>3. venue'[k].qty \in Nat
      BY <1>4, <3>1, VenueFacts
    <3> QED
      BY <3>2, <3>3
  <2>7. /\ TradeOK(x, It, venue') /\ x.ticket = k /\ x.sl = r.hits
        /\ x.pending = r.pending /\ x.unsure = r.unsure
    <3> DEFINE w == venue'
    <3>1. x = Advanced(r, n)
      OBVIOUS
    <3>2. w[r.ticket].qty <= r.size - n
      <4>1. venue'[k].qty \in Nat /\ venue[k].qty \in Nat /\ r.size \in Nat /\ n \in Nat
        BY <1>1, <1>4, <2>6
      <4>2. venue[k].qty <= r.size /\ venue'[k].qty <= venue[k].qty - n
        BY <1>4, <2>4
      <4>3. venue'[k].qty <= r.size - n
        <5> HIDE DEF r, k, n
        <5> QED
          BY <4>1, <4>2
      <4> QED
        BY <4>3
    <3>3. TradeOK(r, It, w) /\ n \in Nat /\ n <= r.size
      BY <1>1, <2>6
    <3> HIDE DEF w, x, n, r
    <3>4. /\ TradeOK(x, It, w) /\ x.ticket = r.ticket /\ x.sl = r.hits
          /\ x.pending = r.pending /\ x.unsure = r.unsure
      BY <3>1, <3>2, <3>3, AdvancedIs
    <3> QED
      BY <3>4 DEF w
  <2> HIDE DEF x
  <2>8. DOMAIN trades' = Tracked /\ trades'[It] = x /\ \A u \in Tracked : u /= It => trades'[u] = trades[u]
    <3> DEFINE other == With(It, x)
    <3>1. other = With(It, x)
      OBVIOUS
    <3> HIDE DEF other
    <3>2. DOMAIN other = Tracked /\ other[It] = x
      BY <1>1, <3>1, WithIs
    <3>3. \A u \in Tracked : u /= It => other[u] = trades[u]
      BY <1>1, <3>1, WithIs
    <3> QED
      BY <2>1, <3>2, <3>3 DEF other
  <2>9. d.op = "settled" /\ d.t = It
    BY DEF Task
  <2>10. e = IF r.hits /= r.sl THEN c ELSE todo
    <3>1. <<>> \o todo = todo
      <4>1. IsSeq(todo)
        BY <1>1 DEF TasksOK
      <4> DEFINE X == {todo[i] : i \in 1..Len(todo)}
      <4>2. todo \in Seq(X)
        BY <4>1 DEF IsSeq
      <4> HIDE DEF X
      <4> QED
        BY <4>2
    <3> QED
      BY <3>1
  <2> HIDE DEF d, e
  <2>11. TaskOK(d, Tracked, entries)
    BY <1>1, <2>9 DEF TaskOK, OfTrade
  <2>12. TasksOK(c, Tracked, entries)
    BY <1>1, <1>2, <2>9, <2>11, OneMore
  <2>13. c /= <<>> /\ Head(c) = d
    BY <1>1, <1>2, <2>9, <2>11, OneMore
  <2>14. Early(c) => Early(todo)
    BY <1>1, <1>2, <2>9, <2>11, OneMore
  <2> HIDE DEF c
  <2>15. \/ Owed(It, todo')
         \/ /\ trades'[It].sl = trades[It].sl /\ trades'[It].pending = trades[It].pending
            /\ trades'[It].unsure = trades[It].unsure
    <3>1. CASE r.hits /= r.sl
      BY <2>1, <2>9, <2>10, <2>13, <3>1 DEF Owed
    <3>2. CASE r.hits = r.sl
      BY <2>7, <2>8, <3>2
    <3> QED
      BY <3>1, <3>2
  <2>16. \A u \in Tracked \ DOMAIN trades' : u = It /\ venue'[trades[It].ticket].qty = 0
    BY <2>8
  <2>17. DOMAIN trades' \subseteq Tracked /\ \A u \in DOMAIN trades' : u /= It => trades'[u] = trades[u]
    BY <2>8
  <2>18. /\ TasksOK(todo', DOMAIN trades', entries) /\ todo' /= <<>> /\ (Early(todo') => Early(todo))
         /\ Head(todo').op /= "ticket" /\ Head(todo').op /= "closing"
    BY <1>1, <1>2, <2>1, <2>8, <2>9, <2>10, <2>12, <2>13, <2>14
  <2>19. trades'[It].ticket = trades[It].ticket /\ TradeOK(trades'[It], It, venue')
    BY <2>7, <2>8
  <2> HIDE DEF n
  <2> QED
    BY <1>1, <1>2, <1>7, <1>11, <2>1, <2>15, <2>16, <2>17, <2>18, <2>19, CloseKeeps
<1> QED
  BY <1>6, <1>8, <1>9, <1>10, <1>11

-----------------------------------------------------------------------------
(* The position poll *)

LEMMA SmallerIs ==
    ASSUME NEW t, NEW v, NEW r, TradeOK(r, t, v), NEW n \in Nat, v[r.ticket].qty <= n,
           NEW x, x = [r EXCEPT !.size = Lower(r.size, n)]
    PROVE  /\ TradeOK(x, t, v) /\ x.ticket = r.ticket /\ x.sl = r.sl
           /\ x.pending = r.pending /\ x.unsure = r.unsure
<1>1. r = [size |-> r.size, hits |-> r.hits, sl |-> r.sl, ticket |-> r.ticket,
           free |-> r.free, pending |-> r.pending, unsure |-> r.unsure]
  BY DEF TradeOK
<1> DEFINE m == Lower(r.size, n)
<1>2. m \in Nat /\ v[r.ticket].qty <= m
  BY DEF Lower, TradeOK
<1> HIDE DEF m
<1>3. x = [size |-> m, hits |-> r.hits, sl |-> r.sl, ticket |-> r.ticket,
           free |-> r.free, pending |-> r.pending, unsure |-> r.unsure]
  BY <1>1 DEF m
<1>4. /\ x.size = m /\ x.hits = r.hits /\ x.sl = r.sl /\ x.ticket = r.ticket
      /\ x.free = r.free /\ x.pending = r.pending /\ x.unsure = r.unsure
  BY <1>3
<1>5. x = [size |-> x.size, hits |-> x.hits, sl |-> x.sl, ticket |-> x.ticket,
           free |-> x.free, pending |-> x.pending, unsure |-> x.unsure]
  BY <1>3
<1> HIDE DEF TradeOK
<1>6. TradeOK(x, t, v)
  BY <1>2, <1>4, <1>5 DEF TradeOK
<1> QED
  BY <1>4, <1>6

\* What the positions say of some of the trades.
LEMMA ComparedIs ==
    ASSUME IInv, mode = "up", NEW S \in SUBSET Tracked, NEW other, other = Compared(S)
    PROVE  /\ DOMAIN other \subseteq Tracked
           /\ \A t \in Tracked \ DOMAIN other : venue[trades[t].ticket].qty = 0
           /\ \A t \in DOMAIN other :
                  /\ TradeOK(other[t], t, venue) /\ other[t].ticket = trades[t].ticket
                  /\ other[t].sl = trades[t].sl /\ other[t].pending = trades[t].pending
                  /\ other[t].unsure = trades[t].unsure
<1>1. DOMAIN other \subseteq Tracked /\ \A t \in Tracked \ DOMAIN other : venue[trades[t].ticket].qty = 0
  BY DEF Compared, Gone
<1>2. ASSUME NEW t \in DOMAIN other
      PROVE  /\ TradeOK(other[t], t, venue) /\ other[t].ticket = trades[t].ticket
             /\ other[t].sl = trades[t].sl /\ other[t].pending = trades[t].pending
             /\ other[t].unsure = trades[t].unsure
  <2> DEFINE r == trades[t]
             n == venue[r.ticket].qty
             x == [r EXCEPT !.size = Lower(r.size, n)]
  <2>1. t \in Tracked
    BY <1>1
  <2>2. TradeOK(r, t, venue) /\ n \in Nat /\ venue[r.ticket].qty <= n
    BY <2>1, TradeIs
  <2>3. x = [r EXCEPT !.size = Lower(r.size, n)]
    OBVIOUS
  <2>4. other[t] = x \/ other[t] = r
    BY DEF Compared
  <2> HIDE DEF x, n, r
  <2>5. TradeOK(x, t, venue) /\ x.ticket = r.ticket
    BY <2>2, <2>3, SmallerIs
  <2>6. x.sl = r.sl /\ x.pending = r.pending /\ x.unsure = r.unsure
    BY <2>2, <2>3, SmallerIs
  <2>7. CASE other[t] = x
    BY <2>5, <2>6, <2>7 DEF r
  <2>8. CASE other[t] = r
    BY <2>2, <2>8 DEF r
  <2> QED
    BY <2>4, <2>7, <2>8
<1> QED
  BY <1>1, <1>2

LEMMA UnreadIs ==
    ASSUME IInv, Unread(TRUE, TRUE)
    PROVE  UNCHANGED <<venue, late>> /\ Spends
<1>1. UNCHANGED <<venue, late>> /\ (Spend("refuse") \/ Spend("lose"))
  BY DEF Unread
<1> QED
  BY <1>1, SpendIs DEF Fault

LEMMA ReconcileKeeps == ASSUME IInv, mode = "up", Reconcile PROVE IInv'
<1>1. /\ AtStage /\ todo /= <<>> /\ UNCHANGED entries
      /\ Head(todo).op \notin {"ticket", "settled"}
  BY DEF Reconcile, Doing, AtStage, Stages
<1>2. /\ Rest /= <<>> /\ Head(Rest).op \in Stages /\ (Early(Rest) => Early(todo))
      /\ TasksOK(Rest, Tracked, entries)
  BY <1>1, RestAt
<1>3. Head(Rest).op /= "ticket" /\ Head(Rest).op /= "closing"
  BY <1>2 DEF Stages
<1>4. \A others : TasksOK(Rest, others, entries)
  BY <1>2, StayOK
<1> DEFINE Same(t, other) == /\ TradeOK(other[t], t, venue) /\ other[t].ticket = trades[t].ticket
                             /\ other[t].sl = trades[t].sl /\ other[t].pending = trades[t].pending
                             /\ other[t].unsure = trades[t].unsure
<1>5. ASSUME NEW other, Step(other, Rest) \/ Step(other, Aborted), UNCHANGED <<venue, late>>, Spends,
             DOMAIN other \subseteq Tracked, \A t \in DOMAIN other : Same(t, other),
             \A t \in Tracked \ DOMAIN other : venue[trades[t].ticket].qty = 0
      PROVE  IInv'
  <2>1. /\ UNCHANGED <<setup, mode, forgotten, journal>> /\ trades' = other
        /\ todo' = Rest \/ todo' = Aborted
    BY <1>5 DEF Step, Goes
  <2>2. /\ TasksOK(todo', DOMAIN trades', entries) /\ todo' /= <<>> /\ (Early(todo') => Early(todo))
        /\ Head(todo').op /= "ticket" /\ Head(todo').op /= "closing"
    <3>1. /\ TasksOK(Aborted, DOMAIN trades', entries) /\ Aborted /= <<>> /\ ~Early(Aborted)
          /\ Head(Aborted).op /= "ticket" /\ Head(Aborted).op /= "closing"
      BY AbortedIs, FoundHead
    <3> QED
      BY <1>2, <1>3, <1>4, <2>1, <3>1
  <2>3. \A t \in DOMAIN trades' : Same(t, trades')
    BY <1>5, <2>1
  <2> QED
    BY <1>1, <1>5, <2>1, <2>2, <2>3, QuietKeeps
<1>6. ASSUME NEW S \in SUBSET Tracked, NEW other, other = Compared(S)
      PROVE  /\ DOMAIN other \subseteq Tracked /\ \A t \in DOMAIN other : Same(t, other)
             /\ \A t \in Tracked \ DOMAIN other : venue[trades[t].ticket].qty = 0
  BY <1>6, ComparedIs
<1>7. CASE Local(Compared(Tracked), Rest)
  <2> DEFINE other == Compared(Tracked)
  <2>1. Step(other, Rest) /\ UNCHANGED <<venue, late, budget>> /\ other = Compared(Tracked)
    BY <1>7 DEF Local
  <2> HIDE DEF other, Same
  <2> QED
    BY <1>5, <1>6, <2>1, SpendNone
<1>8. CASE Unread(Step(trades, Rest),
                  \E n \in 1..entries + 1 : Step(Compared({t \in Tracked : t < n}), Aborted))
  <2>1. UNCHANGED <<venue, late>> /\ Spends
    <3>1. Unread(TRUE, TRUE)
      BY <1>8 DEF Unread
    <3> QED
      BY <3>1, UnreadIs
  <2>2. \/ Step(trades, Rest)
        \/ \E n \in 1..entries + 1 : Step(Compared({t \in Tracked : t < n}), Aborted)
    BY <1>8 DEF Unread
  <2>3. CASE Step(trades, Rest)
    <3>1. Tracked = DOMAIN trades /\ \A t \in DOMAIN trades : Same(t, trades)
      BY AtWork, TradeIs
    <3> HIDE DEF Same
    <3> QED
      BY <1>5, <2>1, <2>3, <3>1
  <2>4. CASE \E n \in 1..entries + 1 : Step(Compared({t \in Tracked : t < n}), Aborted)
    <3>1. PICK n \in 1..entries + 1 : Step(Compared({t \in Tracked : t < n}), Aborted)
      BY <2>4
    <3> DEFINE S == {t \in Tracked : t < n}
               other == Compared(S)
    <3>2. S \in SUBSET Tracked /\ Step(other, Aborted) /\ other = Compared(S)
      BY <3>1
    <3> HIDE DEF S, other, Same
    <3> QED
      BY <1>5, <1>6, <2>1, <3>2
  <2> QED
    BY <2>2, <2>3, <2>4
<1> QED
  BY <1>7, <1>8 DEF Reconcile

-----------------------------------------------------------------------------
(* What any step leaves of the invariant's types and counts *)

Onward ==
    /\ entries' \in Nat /\ entries <= entries'
    /\ VenueOK(venue', entries') /\ GoesOn(venue, venue')
    /\ LateOK(late', Len(venue'), entries') /\ Len(late') <= Len(late) + (budget["late"] - budget'["late"])
    /\ Spends /\ UNCHANGED setup

LEMMA OnwardBook ==
    ASSUME IInv, Onward, NEW book, BookOK(book, venue, entries)
    PROVE  BookOK(book, venue', entries')
<1>1. VenueOK(venue, entries) /\ entries \in Nat
  BY Typed
<1> QED
  BY <1>1, BookKept DEF Onward

LEMMA OnwardType ==
    ASSUME IInv, Onward, mode' \in {"up", "down", "starting"}, BookOK(journal', venue', entries'),
           forgotten' \subseteq forgotten \cup 1..Len(venue)
    PROVE  TypeInv' /\ Len(late') \in Nat
<1>1. /\ setup \in Setup /\ budget \in [Fault -> Nat] /\ Len(late) \in Nat /\ Len(late) <= Spent("late")
      /\ \A f \in Fault : setup.faults[f] \in Nat /\ budget[f] <= setup.faults[f]
  BY Typed
<1>2. Len(late') \in Nat
  <2>1. IsSeq(late')
    BY DEF Onward, LateOK
  <2> QED
    BY <2>1, SeqLen
<1>3. budget' \in [Fault -> Nat] /\ \A f \in Fault : budget'[f] <= setup.faults[f]
  <2>1. ASSUME NEW f \in Fault PROVE budget'[f] <= setup.faults[f]
    <3>1. budget'[f] \in Nat /\ budget[f] \in Nat /\ budget'[f] <= budget[f]
      BY <1>1 DEF Onward, Spends
    <3> QED
      BY <1>1, <3>1
  <2> QED
    BY <2>1 DEF Onward, Spends
<1>4. Len(late') <= Spent("late")'
  <2>1. Spent("late") \in Nat /\ Spent("late")' = Spent("late") + (budget["late"] - budget'["late"])
    BY SpentGrows DEF Onward
  <2>2. budget["late"] \in Nat /\ budget'["late"] \in Nat
    BY <1>1, <1>3 DEF Fault
  <2>3. Len(late') <= Len(late) + (budget["late"] - budget'["late"])
    BY DEF Onward
  <2> QED
    BY <1>1, <1>2, <2>1, <2>2, <2>3
<1>5. forgotten' \subseteq 1..Len(venue')
  <2>1. VenueOK(venue, entries) /\ forgotten \subseteq 1..Len(venue) /\ Len(venue) \in Nat
    BY Typed
  <2>2. Len(venue') \in Nat /\ Len(venue) <= Len(venue')
    BY VenueFacts DEF Onward, GoesOn
  <2>3. 1..Len(venue) \subseteq 1..Len(venue')
    BY <2>1, <2>2
  <2> QED
    BY <2>1, <2>3
<1> QED
  BY <1>1, <1>2, <1>3, <1>4, <1>5 DEF TypeInv, Onward

LEMMA CountKept ==
    ASSUME IInv, UNCHANGED setup, Spends, NEW m \in Int, NEW d \in Int,
           NEW b \in Nat, b = Cardinality(OpenIn(venue') \ Held'),
           b <= Cardinality(OpenIn(venue) \ Held) + m,
           Len(late') \in Nat, m + Len(late') <= Len(late) + d, Left + d <= Left'
    PROVE  Counted'
<1> DEFINE a == Cardinality(OpenIn(venue) \ Held)
<1>1. a \in Nat /\ Len(late) \in Nat /\ a + Len(late) <= Left
  <2>1. VenueOK(venue, entries) /\ Len(late) \in Nat /\ Counted
    BY Typed
  <2>2. IsFiniteSet(OpenIn(venue) \ Held)
    BY <2>1, OpenFinite
  <2>3. a \in Nat
    BY <2>2, FS_CardinalityType
  <2> QED
    BY <2>1, <2>3 DEF Counted
<1>2. Left \in Int /\ Left' \in Int
  BY SpentGrows
<1>3. b <= a + m
  OBVIOUS
<1> HIDE DEF a
<1>4. b + Len(late') <= Left'
  BY <1>1, <1>2, <1>3
<1> QED
  BY <1>4 DEF Counted

-----------------------------------------------------------------------------
(* Entries *)

LEMMA Opens ==
    ASSUME NEW v, NEW last \in Nat, VenueOK(v, last), NEW size \in Nat, NEW q,
           q.kind = "open", q.id = last + 1, q.n = size,
           NEW m \in {0, 1, 2}, NEW w,
           w = IF m = 0 THEN v ELSE IF m = 1 THEN Do(v, q) ELSE Do(Do(v, q), q)
    PROVE  /\ VenueOK(w, last + 1) /\ GoesOn(v, w) /\ Len(w) = Len(v) + m /\ Len(v) \in Nat
           /\ \A i \in 1..Len(v) : w[i] = v[i]
           /\ \A i \in 1..Len(w) : i > Len(v) => w[i].trade = last + 1 /\ w[i].qty = size /\ w[i].sl = -1
<1> DEFINE e == last + 1
           p == [trade |-> e, qty |-> size, sl |-> -1]
<1>1. VenueOK(v, e) /\ Len(v) \in Nat
  <2>1. \A i \in 1..Len(v) : PositionOK(v[i], e)
    BY DEF VenueOK, PositionOK
  <2> QED
    BY <2>1, VenueFacts DEF VenueOK
<1>2. PositionOK(p, e) /\ p.trade = e /\ p.qty = size /\ p.sl = -1
  BY DEF PositionOK
<1>3. Do(v, q) = Append(v, p) /\ Do(Do(v, q), q) = Append(Do(v, q), p)
  BY DEF Do
<1> DEFINE x == Do(v, q)
           y == Do(x, q)
<1> HIDE DEF p, e
<1>x. x = Append(v, p)
  BY <1>3
<1> HIDE DEF x
<1>4. VenueOK(x, e) /\ Len(x) = Len(v) + 1 /\ x[Len(x)] = p /\ \A i \in 1..Len(v) : x[i] = v[i]
  <2>1. VenueOK(x, e)
    BY <1>1, <1>2, <1>x, OpenMakes
  <2>2. Len(x) = Len(v) + 1
    BY <1>1, <1>2, <1>x, OpenMakes
  <2>3. x[Len(x)] = p
    BY <1>1, <1>2, <1>x, OpenMakes
  <2>4. \A i \in 1..Len(v) : x[i] = v[i]
    BY <1>1, <1>2, <1>x, OpenMakes
  <2> QED
    BY <2>1, <2>2, <2>3, <2>4
<1>5. y = Append(x, p)
  BY <1>3 DEF x
<1> HIDE DEF y
<1>6. VenueOK(y, e) /\ Len(y) = Len(x) + 1 /\ y[Len(y)] = p /\ \A i \in 1..Len(x) : y[i] = x[i]
  <2>1. VenueOK(y, e)
    BY <1>2, <1>4, <1>5, OpenMakes
  <2>2. Len(y) = Len(x) + 1
    BY <1>2, <1>4, <1>5, OpenMakes
  <2>3. y[Len(y)] = p
    BY <1>2, <1>4, <1>5, OpenMakes
  <2>4. \A i \in 1..Len(x) : y[i] = x[i]
    BY <1>2, <1>4, <1>5, OpenMakes
  <2> QED
    BY <2>1, <2>2, <2>3, <2>4
<1>7. w = IF m = 0 THEN v ELSE IF m = 1 THEN x ELSE y
  BY DEF x, y
<1>8. VenueOK(w, e) /\ Len(w) = Len(v) + m
  BY <1>1, <1>4, <1>6, <1>7
<1>9. \A i \in 1..Len(v) : w[i] = v[i]
  BY <1>1, <1>4, <1>6, <1>7
<1>10. ASSUME NEW i \in 1..Len(w), i > Len(v) PROVE w[i] = p
  <2>1. (m = 1 /\ i = Len(x)) \/ (m = 2 /\ i = Len(x)) \/ (m = 2 /\ i = Len(y))
    BY <1>1, <1>4, <1>6, <1>8, <1>10
  <2>2. Len(x) \in 1..Len(x)
    BY <1>1, <1>4
  <2> QED
    BY <1>4, <1>6, <1>7, <2>1, <2>2
<1>11. GoesOn(v, w)
  <2>1. \A i \in 1..Len(v) : v[i].qty \in Nat
    BY <1>1, VenueFacts
  <2>2. \A i \in 1..Len(v) : w[i].qty <= v[i].qty
    BY <1>9, <2>1
  <2> QED
    BY <1>1, <1>8, <1>9, <2>2 DEF GoesOn
<1> QED
  BY <1>1, <1>2, <1>8, <1>9, <1>10, <1>11 DEF e

\* How often an entry opens a position, and what accounts for it.
LEMMA OpenCases ==
    ASSUME IInv, UNCHANGED setup, NEW q, q.kind = "open",
           NEW fine \in BOOLEAN, IF fine THEN CallOk(q) ELSE CallBad(q)
    PROVE  /\ Spends
           /\ \E m \in {0, 1, 2}, d \in {0, 1, 2} :
                 /\ venue' = IF m = 0 THEN venue ELSE IF m = 1 THEN Do(venue, q) ELSE Do(Do(venue, q), q)
                 /\ Left + d <= Left'
                 /\ \/ late' = late /\ m <= d
                    \/ late' = late /\ fine /\ m /= 0 /\ m <= d + 1
                    \/ late' = Append(late, q) /\ ~fine /\ m = 0 /\ d = 1 /\ budget'["late"] = budget["late"] - 1
                 /\ fine => m /= 0
<1>1. \A v : Can(v, q) /\ Try(v, q) = Do(v, q)
  BY DEF Can, Try
<1>2. Spends
  BY CallCases
<1>3. /\ Left \in Int /\ Left' \in Int /\ Left <= Left'
      /\ budget["resend"] \in Nat /\ budget["lose"] \in Nat /\ budget["late"] \in Nat
      /\ Left + (budget["late"] - budget'["late"]) <= Left'
      /\ Left + (budget["resend"] - budget'["resend"]) <= Left'
      /\ Left + 2 * (budget["lose"] - budget'["lose"]) <= Left'
  BY <1>2, SpentGrows, Typed DEF Fault
<1>4. CASE fine
  <2>1. CASE venue' = Do(venue, q) /\ UNCHANGED <<late, budget>>
    BY <1>2, <1>3, <1>4, <2>1
  <2>2. CASE Spend("resend") /\ UNCHANGED late /\ venue' = Do(Do(venue, q), q)
    <3>1. budget'["resend"] = budget["resend"] - 1
      BY <2>2, SpendIs DEF Fault
    <3>2. Left + 1 <= Left'
      BY <1>3, <3>1
    <3> QED
      BY <1>2, <1>4, <2>2, <3>2
  <2> QED
    BY <1>1, <1>4, <2>1, <2>2 DEF CallOk, Call
<1>5. CASE ~fine
  <2>1. CASE Spend("lose") /\ UNCHANGED late /\ venue' \in {venue, Do(venue, q), Do(Do(venue, q), q)}
    <3>1. budget'["lose"] = budget["lose"] - 1
      BY <2>1, SpendIs DEF Fault
    <3>2. Left + 2 <= Left'
      BY <1>3, <3>1
    <3> QED
      BY <1>2, <1>5, <2>1, <3>2
  <2>2. CASE Spend("late") /\ late' = Append(late, q) /\ UNCHANGED venue
    <3>1. budget'["late"] = budget["late"] - 1
      BY <2>2, SpendIs DEF Fault
    <3>2. Left + 1 <= Left'
      BY <1>3, <3>1
    <3> QED
      BY <1>2, <1>5, <2>2, <3>1, <3>2
  <2>3. CASE UNCHANGED <<venue, late>>
    BY <1>2, <1>3, <1>5, <2>3
  <2> QED
    BY <1>1, <1>5, <2>1, <2>2, <2>3 DEF CallBad, CallRefused, CallLost, CallEscaped, Call
<1> QED
  BY <1>4, <1>5


LEMMA EnterCalls ==
    ASSUME IInv, mode = "up", Doing("enter"), entries' = entries + 1,
           NEW q, q = OpenRequest(entries + 1), NEW fine \in BOOLEAN, IF fine THEN CallOk(q) ELSE CallBad(q),
           UNCHANGED <<setup, mode, journal, forgotten>>, trades' = trades,
           NEW next \in {Rest, Aborted},
           todo' = IF fine THEN <<Task("ticket", entries + 1, Len(venue'))>> \o Rest ELSE next
    PROVE  IInv'
<1> DEFINE e == entries + 1
           v == venue
           w == venue'
           x == Task("ticket", e, Len(w))
<1>1. AtStage /\ Head(todo).op = "enter" /\ Found(todo) /\ todo /= <<>> /\ Early(todo)
  <2>1. AtStage /\ Head(todo).op = "enter" /\ Found(todo) /\ todo /= <<>>
    BY DEF Doing, AtStage, Stages, Found
  <2>2. IsSeq(todo)
    BY AtWork DEF TasksOK
  <2>3. Head(todo) = todo[1] /\ Len(todo) > 0 /\ Len(todo) \in Nat
    BY <2>1, <2>2, SeqTail, SeqLen
  <2>4. Early(todo)
    BY <2>1, <2>3, OneIn DEF Early
  <2> QED
    BY <2>1, <2>4
<1>2. /\ entries \in Nat /\ VenueOK(v, entries) /\ LateOK(late, Len(v), entries) /\ Len(late) \in Nat
      /\ Size \in Nat /\ budget \in [Fault -> Nat] /\ BookOK(journal, v, entries)
  BY Typed DEF Setup, Size
<1>3. q.kind = "open" /\ q.id = e /\ q.n = Size
  BY DEF OpenRequest
<1>4. /\ Spends
      /\ \E m \in {0, 1, 2}, d \in {0, 1, 2} :
            /\ w = IF m = 0 THEN v ELSE IF m = 1 THEN Do(v, q) ELSE Do(Do(v, q), q)
            /\ Left + d <= Left'
            /\ \/ late' = late /\ m <= d
               \/ late' = late /\ fine /\ m /= 0 /\ m <= d + 1
               \/ late' = Append(late, q) /\ ~fine /\ m = 0 /\ d = 1 /\ budget'["late"] = budget["late"] - 1
            /\ fine => m /= 0
  BY <1>3, OpenCases
<1>5. PICK m \in {0, 1, 2}, d \in {0, 1, 2} :
            /\ w = IF m = 0 THEN v ELSE IF m = 1 THEN Do(v, q) ELSE Do(Do(v, q), q)
            /\ Left + d <= Left'
            /\ \/ late' = late /\ m <= d
               \/ late' = late /\ fine /\ m /= 0 /\ m <= d + 1
               \/ late' = Append(late, q) /\ ~fine /\ m = 0 /\ d = 1 /\ budget'["late"] = budget["late"] - 1
            /\ fine => m /= 0
  BY <1>4
<1> HIDE DEF w
<1>6. /\ VenueOK(w, e) /\ GoesOn(v, w) /\ Len(w) = Len(v) + m /\ Len(v) \in Nat
      /\ \A i \in 1..Len(v) : w[i] = v[i]
      /\ \A i \in 1..Len(w) : i > Len(v) => w[i].trade = e /\ w[i].qty = Size /\ w[i].sl = -1
  <2>1. w = IF m = 0 THEN v ELSE IF m = 1 THEN Do(v, q) ELSE Do(Do(v, q), q)
    BY <1>5
  <2>2. entries \in Nat /\ VenueOK(v, entries) /\ Size \in Nat
    BY <1>2
  <2>3. q.kind = "open" /\ q.id = entries + 1 /\ q.n = Size
    BY <1>3
  <2> HIDE DEF v, x
  <2> QED
    <3>1. VenueOK(w, entries + 1) /\ GoesOn(v, w)
      BY <2>1, <2>2, <2>3, Opens
    <3>2. Len(w) = Len(v) + m /\ Len(v) \in Nat
      BY <2>1, <2>2, <2>3, Opens
    <3>3. \A i \in 1..Len(v) : w[i] = v[i]
      BY <2>1, <2>2, <2>3, Opens
    <3>4. \A i \in 1..Len(w) : i > Len(v) => w[i].trade = entries + 1 /\ w[i].qty = Size /\ w[i].sl = -1
      BY <2>1, <2>2, <2>3, Opens
    <3> QED
      BY <3>1, <3>2, <3>3, <3>4
<1>7. LateOK(late, Len(w), e) /\ \A i \in 1..Len(late) : late[i].kind = "open" => late[i].id /= e
  <2>1. \A i \in 1..Len(late) : RequestOK(late[i], Len(v), entries) /\ IsSeq(late)
    BY <1>2 DEF LateOK
  <2>2. Len(w) \in Nat /\ Len(v) <= Len(w) /\ e \in Nat /\ entries <= e
    BY <1>2, <1>6
  <2>3. \A i \in 1..Len(late) : RequestOK(late[i], Len(w), e)
    BY <1>2, <1>6, <2>1, <2>2, RequestKept
  <2>4. \A i \in 1..Len(late) : late[i].kind = "open" => late[i].id \in 1..entries
    BY <2>1 DEF RequestOK
  <2>5. \A i \in 1..Len(late) : late[i].kind = "open" => late[i].id /= e
    BY <1>2, <2>4
  <2> QED
    BY <1>2, <2>3, <2>5 DEF LateOK
<1>8. /\ LateOK(late', Len(w), e) /\ Len(late') <= Len(late) + (budget["late"] - budget'["late"])
      /\ Len(late') \in Nat /\ Len(late') = Len(late) + (IF late' = late THEN 0 ELSE 1)
  <2>1. budget["late"] \in Nat /\ budget'["late"] \in Nat /\ budget'["late"] <= budget["late"]
    BY <1>2, <1>4 DEF Spends, Fault
  <2>2. CASE late' = late
    BY <1>2, <1>7, <2>1, <2>2
  <2>3. CASE late' = Append(late, q) /\ budget'["late"] = budget["late"] - 1
    <3>1. RequestOK(q, Len(w), e)
      BY <1>2, <1>3 DEF RequestOK
    <3>2. LateOK(late', Len(w), e)
      BY <1>7, <2>3, <3>1, LateMakes
    <3>3. Len(late') = Len(late) + 1
      BY <1>7, <2>3, <3>1, LateMakes
    <3> QED
      BY <1>2, <2>1, <2>3, <3>2, <3>3
  <2> QED
    BY <1>5, <2>2, <2>3
<1>9. Onward
  BY <1>2, <1>4, <1>6, <1>8 DEF Onward, w
<1>10. BookOK(journal, w, e) /\ BookOK(trades, w, e)
  BY <1>2, <1>9, AtWork, OnwardBook DEF w
<1>11. TypeInv'
  <2>1. /\ BookOK(journal', venue', entries') /\ mode' \in {"up", "down", "starting"}
        /\ forgotten' \subseteq forgotten \cup 1..Len(venue)
    BY <1>10, Typed DEF w
  <2> QED
    BY <1>9, <2>1, OnwardType
<1>12. /\ TasksOK(Rest, Tracked, e) /\ Rest /= <<>> /\ Head(Rest).op \in Stages /\ ~Early(Rest)
       /\ Tracked \subseteq DOMAIN journal /\ Tracked \subseteq 1..entries
  <2>1. TasksOK(todo, Tracked, entries) /\ todo /= <<>> /\ Head(todo).op /= "flush"
    BY <1>1, AtWork
  <2>2. Head(todo).op \notin OfTrade
    BY <1>1 DEF OfTrade, Calling
  <2>3. TasksOK(Tail(todo), Tracked, e)
    BY <2>1, <2>2, RestOK
  <2>4. Early(Tail(todo)) => Head(todo).op \notin {"enter", "ticket"}
    BY <2>1, <2>2, RestOK
  <2>5. Rest /= <<>> /\ Head(Rest).op \in Stages
    BY <1>1, RestAt
  <2> QED
    BY <1>1, <2>3, <2>4, <2>5, AtWork DEF Rest
<1>21. TasksOK(next, Tracked, e) /\ next /= <<>> /\ Head(next).op \notin {"ticket", "closing"}
  <2>1. CASE next = Rest
    BY <1>12, <2>1 DEF Stages
  <2>2. CASE next = Aborted
    <3>1. /\ TasksOK(Aborted, Tracked, e) /\ Aborted /= <<>>
          /\ Head(Aborted).op /= "ticket" /\ Head(Aborted).op /= "closing"
      BY AbortedIs, FoundHead
    <3> QED
      BY <2>2, <3>1
  <2> QED
    BY <2>1, <2>2
<1>13. x.op = "ticket" /\ x.t = e /\ x.arg = Len(w) /\ TaskOK(x, Tracked, e)
  <2>1. x.op = "ticket" /\ x.t = e /\ x.arg = Len(w)
    BY DEF Task
  <2>2. e \notin Tracked
    BY <1>2, <1>12
  <2> HIDE DEF x
  <2> QED
    BY <2>1, <2>2 DEF TaskOK, OfTrade, Calling
<1> HIDE DEF x
<1> DEFINE c == <<x>> \o Rest
<1>14. TasksOK(c, Tracked, e) /\ c /= <<>> /\ Head(c) = x
  <2>1. x.op \in {"settled", "ticket"} /\ (x.op = "ticket" => ~Early(Rest))
    BY <1>12, <1>13
  <2>2. TasksOK(c, Tracked, e)
    BY <1>12, <1>13, <2>1, OneMore
  <2>3. c /= <<>> /\ Head(c) = x
    BY <1>12, <1>13, <2>1, OneMore
  <2> QED
    BY <2>2, <2>3
<1> HIDE DEF c
<1>15. todo' = IF fine THEN c ELSE next
  BY DEF c, x, w
<1>16. Waiting(todo') = (IF fine THEN {Len(w)} ELSE {}) /\ Waiting(todo) = {}
  <2>1. Waiting(todo) = {} /\ Waiting(next) = {}
    BY <1>1, <1>21, FoundWaits
  <2> QED
    BY <1>13, <1>14, <1>15, <2>1 DEF Waiting
<1>17. /\ Held = Tickets(trades) \cup forgotten
       /\ Held' = Tickets(trades) \cup Waiting(todo') \cup forgotten
  BY <1>16 DEF Held, Books
<1>18. Counted'
  <2> DEFINE A == OpenIn(w) \ Held'
             B == OpenIn(v) \ Held
             n == IF fine THEN Len(w) - 1 ELSE Len(w)
  <2>1. IsFiniteSet(B)
    BY <1>2, OpenFinite
  <2>2. n \in Nat /\ Len(v) <= n /\ n - Len(v) = (IF fine THEN m - 1 ELSE m)
    <3>1. Len(w) = Len(v) + m /\ Len(v) \in Nat /\ m \in {0, 1, 2} /\ (fine => m /= 0)
      BY <1>5, <1>6
    <3>2. CASE fine
      <4>1. n = Len(w) - 1
        BY <3>2
      <4> HIDE DEF n, v
      <4> QED
        BY <3>1, <3>2, <4>1
    <3>3. CASE ~fine
      <4>1. n = Len(w)
        BY <3>3
      <4> HIDE DEF n, v
      <4> QED
        BY <3>1, <3>3, <4>1
    <3> QED
      BY <3>2, <3>3
  <2>3. A \subseteq B \cup (Len(v) + 1)..n
    <3> SUFFICES ASSUME NEW i \in OpenIn(w), i \notin Held' PROVE i \in B \cup (Len(v) + 1)..n
      OBVIOUS
    <3>1. i \in OpenIn(v) \/ i \in (Len(v) + 1)..Len(w)
      BY <1>2, <1>6, OpenKept
    <3>2. i \notin Held
      BY <1>17
    <3>3. fine => i /= Len(w)
      BY <1>16, <1>17
    <3>4. i \in (Len(v) + 1)..Len(w) => i \in (Len(v) + 1)..n
      BY <1>6, <3>3
    <3> QED
      BY <3>1, <3>2, <3>4
  <2>4. Cardinality(A) \in Nat /\ Cardinality(B) \in Nat /\ Cardinality(A) <= Cardinality(B) + (n - Len(v))
    <3> HIDE DEF A, B, n
    <3> QED
      BY <1>6, <2>1, <2>2, <2>3, SomeOver
  <2> DEFINE b == Cardinality(A)
             k == n - Len(v)
  <2>5. k \in Int /\ k + Len(late') <= Len(late) + d
    <3>1. k = IF fine THEN m - 1 ELSE m
      BY <2>2
    <3> HIDE DEF k
    <3>2. k \in Int
      BY <3>1
    <3> QED
      <4>1. Len(late) \in Nat /\ Len(late') \in Nat /\ Len(late') = Len(late) + (IF late' = late THEN 0 ELSE 1)
        BY <1>2, <1>8
      <4>2. CASE late' = late
        <5>1. Len(late') = Len(late) /\ k <= d
          <6>1. (fine /\ m <= d + 1) \/ m <= d
            BY <1>5, <4>2
          <6>2. k = m - 1 \/ (k = m /\ ~fine)
            BY <3>1
          <6>3. m - 1 <= d
            BY <6>1
          <6> QED
            BY <4>1, <4>2, <6>1, <6>2, <6>3
        <5> QED
          BY <3>2, <4>1, <5>1
      <4>3. CASE late' /= late
        <5>1. ~fine /\ m = 0 /\ d = 1
          BY <1>5, <4>3
        <5>2. k = 0 /\ Len(late') = Len(late) + 1
          BY <3>1, <4>1, <4>3, <5>1
        <5> QED
          BY <4>1, <5>1, <5>2
      <4> QED
        BY <3>2, <4>2, <4>3
  <2>6. b = Cardinality(OpenIn(venue') \ Held') /\ b <= Cardinality(OpenIn(venue) \ Held) + k
    BY <2>4 DEF w
  <2>7. b \in Nat /\ d \in Int /\ Left + d <= Left'
    BY <1>5, <2>4
  <2> HIDE DEF b, k
  <2> QED
    BY <1>4, <1>8, <2>5, <2>6, <2>7, CountKept
<1>19. UpInv'
  <2>1. TasksOK(todo', Tracked, e) /\ todo' /= <<>> /\ Head(todo').op /= "closing"
    BY <1>13, <1>14, <1>15, <1>21
  <2>2. Tracked' = Tracked
    BY DEF Tracked
  <2>3. \A t \in Tracked \cap DOMAIN journal : journal[t].ticket = trades[t].ticket
    BY AtWork
  <2>4. ASSUME Doing("ticket")'
        PROVE  /\ Arg' \in 1..Len(w) /\ It' = e /\ w[Arg'].trade = It' /\ It' \notin DOMAIN journal
               /\ \A i \in 1..Len(w) : w[i].trade = It' => w[i].qty <= Size
               /\ \A i \in 1..Len(late') : late'[i].kind = "open" => late'[i].id /= It'
               /\ \A i \in forgotten : w[i].trade /= It'
    <3>1. fine
      BY <1>15, <1>21, <2>4 DEF Doing
    <3>2. Arg' = Len(w) /\ It' = e
      BY <1>13, <1>14, <1>15, <3>1 DEF Arg, It
    <3>3. late' = late /\ m /= 0
      BY <1>5, <3>1
    <3>4. Len(w) \in 1..Len(w) /\ Len(w) > Len(v)
      BY <1>6, <3>3
    <3>5. ASSUME NEW i \in 1..Len(w), w[i].trade = e PROVE w[i].qty <= Size
      <4>1. CASE i \in 1..Len(v)
        <5>1. v[i].trade \in 1..entries
          BY <1>2, <4>1, VenueFacts
        <5> QED
          BY <1>2, <1>6, <3>5, <4>1, <5>1
      <4>2. CASE i \notin 1..Len(v)
        <5>1. i > Len(v)
          BY <1>6, <4>2
        <5> QED
          BY <1>2, <1>6, <5>1
      <4> QED
        BY <4>1, <4>2
    <3>6. e \notin DOMAIN journal
      <4>1. DOMAIN journal \subseteq 1..entries
        BY <1>2, BookFacts
      <4> QED
        BY <1>2, <4>1
    <3>7. ASSUME NEW i \in forgotten PROVE w[i].trade /= e
      <4>1. i \in 1..Len(v)
        BY Typed
      <4>2. v[i].trade \in 1..entries
        BY <1>2, <4>1, VenueFacts
      <4> QED
        BY <1>2, <1>6, <4>1, <4>2
    <3> QED
      BY <1>6, <1>7, <3>2, <3>3, <3>4, <3>5, <3>6, <3>7
  <2>5. Size' = Size /\ ~Doing("closing")'
    BY <2>1 DEF Size, Doing
  <2> QED
    BY <1>10, <1>11, <1>12, <2>1, <2>2, <2>3, <2>4, <2>5 DEF UpInv, w
<1>20. UpStops'
  <2> SUFFICES ASSUME InTime'
               PROVE  /\ \A t \in Tracked : Agrees(trades[t], w)
                      /\ \A t \in DOMAIN journal : Agrees(journal[t], w)
                      /\ Doing("ticket")' => \A i \in 1..Len(w) : w[i].trade = It' => -1 <= w[i].sl
    BY DEF UpStops, Tracked, w
  <2>1. InTime /\ UpStops
    BY <1>4, SpentGrows DEF IInv
  <2>2. ASSUME NEW t \in Tracked PROVE Agrees(trades[t], w)
    <3>1. Agrees(trades[t], v) \/ Owed(t, todo)
      BY <2>1 DEF UpStops
    <3>2. ~Owed(t, todo)
      BY <1>1 DEF Owed
    <3>3. w[trades[t].ticket] = v[trades[t].ticket]
      BY <1>6, TradeIs
    <3> QED
      BY <3>1, <3>2, <3>3 DEF Agrees
  <2>3. ASSUME NEW t \in DOMAIN journal PROVE Agrees(journal[t], w)
    <3>1. Agrees(journal[t], v)
      BY <2>1 DEF UpStops
    <3>2. journal[t].ticket \in 1..Len(v)
      BY <1>2, BookFacts
    <3>3. w[journal[t].ticket] = v[journal[t].ticket]
      BY <1>6, <3>2
    <3> QED
      BY <3>1, <3>3 DEF Agrees
  <2>4. ASSUME Doing("ticket")', NEW i \in 1..Len(w), w[i].trade = It' PROVE -1 <= w[i].sl
    <3>1. fine
      BY <1>15, <1>21, <2>4 DEF Doing
    <3>2. It' = e
      BY <1>13, <1>14, <1>15, <3>1 DEF It
    <3>3. i \notin 1..Len(v)
      <4>1. i \in 1..Len(v) => v[i].trade \in 1..entries
        BY <1>2, VenueFacts
      <4> QED
        BY <1>2, <1>6, <2>4, <3>2, <4>1
    <3>4. i > Len(v)
      BY <1>6, <3>3
    <3> QED
      BY <1>6, <3>4
  <2> QED
    BY <2>2, <2>3, <2>4
<1> QED
  BY <1>11, <1>18, <1>19, <1>20 DEF IInv

LEMMA EnterKeeps == ASSUME IInv, mode = "up", Enter PROVE IInv'
<1>1. CASE Local(trades, Rest) /\ UNCHANGED entries
  <2>1. AtStage
    BY DEF Enter, Doing, AtStage, Stages
  <2> QED
    BY <1>1, <2>1, RestKeeps
<1>2. CASE /\ entries' = entries + 1
           /\ Call(OpenRequest(entries + 1),
                   Step(trades, <<Task("ticket", entries + 1, Len(venue'))>> \o Rest),
                   Step(trades, Rest), Step(trades, Rest), Step(trades, Aborted))
  <2> DEFINE q == OpenRequest(entries + 1)
             c == <<Task("ticket", entries + 1, Len(venue'))>> \o Rest
  <2> HIDE DEF q, c
  <2>1. Call(q, Step(trades, c), Step(trades, Rest), Step(trades, Rest), Step(trades, Aborted))
    BY <1>2 DEF q, c
  <2>2. \/ CallOk(q) /\ Step(trades, c)
        \/ CallBad(q) /\ Step(trades, Rest)
        \/ CallBad(q) /\ Step(trades, Aborted)
    BY <2>1 DEF Call, CallOk, CallBad, CallRefused, CallLost, CallEscaped
  <2>3. q = OpenRequest(entries + 1) /\ q.kind = "open"
    BY DEF q, OpenRequest
  <2>4. Doing("enter")
    BY DEF Enter
  <2>5. CASE CallOk(q) /\ Step(trades, c)
    <3> DEFINE fine == TRUE
               next == Rest
    <3>1. fine \in BOOLEAN /\ (IF fine THEN CallOk(q) ELSE CallBad(q)) /\ next \in {Rest, Aborted}
      BY <2>5
    <3>2. UNCHANGED <<setup, mode, journal, forgotten>> /\ trades' = trades
      BY <2>5 DEF Step, Goes
    <3>3. todo' = IF fine THEN <<Task("ticket", entries + 1, Len(venue'))>> \o Rest ELSE next
      BY <2>5 DEF Step, Goes, c
    <3> HIDE DEF fine, next
    <3> QED
      BY <1>2, <2>3, <2>4, <3>1, <3>2, <3>3, EnterCalls
  <2>6. ASSUME NEW next \in {Rest, Aborted}, CallBad(q), Step(trades, next) PROVE IInv'
    <3> DEFINE fine == FALSE
    <3>1. fine \in BOOLEAN /\ (IF fine THEN CallOk(q) ELSE CallBad(q))
      BY <2>6
    <3>2. UNCHANGED <<setup, mode, journal, forgotten>> /\ trades' = trades
      BY <2>6 DEF Step, Goes
    <3>3. todo' = IF fine THEN <<Task("ticket", entries + 1, Len(venue'))>> \o Rest ELSE next
      BY <2>6 DEF Step, Goes
    <3> HIDE DEF fine
    <3> QED
      BY <1>2, <2>3, <2>4, <3>1, <3>2, <3>3, EnterCalls
  <2> QED
    BY <2>2, <2>5, <2>6
<1> QED
  BY <1>1, <1>2 DEF Enter


LEMMA AlsoIs ==
    ASSUME NEW t, NEW r, NEW other, other = Also(t, r)
    PROVE  DOMAIN other = Tracked \cup {t} /\ other[t] = r /\ \A u \in Tracked : u /= t => other[u] = trades[u]
  BY DEF Also

\* The ticket of an entry: the one it was answered, or another that was opened for it.
LEMMA TicketKeeps ==
    ASSUME IInv, mode = "up", Doing("ticket"), UNCHANGED <<setup, venue, late, mode, journal, entries, forgotten>>, Spends,
           NEW f, f = Arg \/ (f \in OpenIn(venue) /\ venue[f].trade = It),
           trades' = Also(It, Opened(f)), todo' = Rest
    PROVE  IInv'
<1> DEFINE r == Opened(f)
           ids == Tracked \cup {It}
<1>1. /\ entries \in Nat /\ VenueOK(venue, entries) /\ LateOK(late, Len(venue), entries) /\ Len(late) \in Nat
      /\ budget \in [Fault -> Nat] /\ Size \in Nat /\ Counted /\ BookOK(journal, venue, entries)
  BY Typed DEF Setup, Size
<1>2. /\ TasksOK(todo, Tracked, entries) /\ BookOK(trades, venue, entries) /\ Tracked = DOMAIN trades
      /\ \A t \in Tracked \cap DOMAIN journal : journal[t].ticket = trades[t].ticket
      /\ Tracked \subseteq 1..entries
  BY AtWork
<1>3. todo /= <<>> /\ Head(todo).op = "ticket"
  BY DEF Doing
<1>4. It = entries /\ It \notin Tracked /\ Early(todo) /\ It \in 1..entries
  <2>1. IsSeq(todo)
    BY <1>2 DEF TasksOK
  <2>2. Head(todo) = todo[1] /\ 1 \in 1..Len(todo)
    BY <1>3, <2>1, SeqTail, SeqLen, OneIn
  <2>3. TaskOK(Head(todo), Tracked, entries)
    BY <1>2, <2>2 DEF TasksOK
  <2>4. It = entries /\ It \notin Tracked
    BY <1>3, <2>3 DEF TaskOK, It
  <2>5. Early(todo)
    BY <1>3, <2>2 DEF Early
  <2>6. Arg \in 1..Len(venue) /\ venue[Arg].trade = It
    BY DEF IInv, UpInv
  <2>7. venue[Arg].trade \in 1..entries
    BY <1>1, <2>6, VenueFacts
  <2> QED
    BY <2>4, <2>5, <2>6, <2>7
<1>5. Tracked \subseteq DOMAIN journal
  BY <1>4, AtWork
<1>6. /\ f \in 1..Len(venue) /\ venue[f].trade = It /\ venue[f].qty <= Size
      /\ Arg \in 1..Len(venue) /\ venue[Arg].trade = It /\ f \notin forgotten
  BY DEF IInv, UpInv, OpenIn
<1>7. r.ticket = f /\ r.sl = -1 /\ TradeOK(r, It, venue)
  <2>1. r.ticket = f /\ r.sl = -1 /\ r.pending = FALSE /\ r.size = Size /\ r.hits = 0
    BY DEF Opened
  <2>2. /\ r = [size |-> r.size, hits |-> r.hits, sl |-> r.sl, ticket |-> r.ticket,
                free |-> r.free, pending |-> r.pending, unsure |-> r.unsure]
        /\ r.free = FALSE /\ r.unsure = FALSE
    BY DEF Opened
  <2> HIDE DEF r
  <2>3. /\ r.size \in Nat /\ r.hits \in Nat /\ r.sl \in Int
        /\ r.pending \in BOOLEAN /\ r.free \in BOOLEAN /\ r.unsure \in BOOLEAN
    <3>1. r.size \in Nat
      BY <1>1, <2>1
    <3>2. r.hits \in Nat /\ r.sl \in Int
      BY <2>1
    <3>3. r.pending \in BOOLEAN /\ r.free \in BOOLEAN /\ r.unsure \in BOOLEAN
      BY <2>1, <2>2, Zenon
    <3> QED
      BY <3>1, <3>2, <3>3
  <2>4. r.ticket \in 1..Len(venue) /\ venue[r.ticket].trade = It /\ venue[r.ticket].qty <= r.size
    BY <1>6, <2>1
  <2> QED
    BY <2>1, <2>2, <2>3, <2>4 DEF TradeOK
<1> HIDE DEF r
<1>8. DOMAIN trades' = ids /\ trades'[It] = r /\ \A u \in Tracked : trades'[u] = trades[u]
  <2> DEFINE other == Also(It, r)
  <2>1. other = Also(It, r) /\ trades' = other
    BY DEF r
  <2> HIDE DEF other
  <2> DEFINE t == It
  <2>a. other = Also(t, r)
    BY <2>1
  <2> HIDE DEF t
  <2>b. DOMAIN other = Tracked \cup {t} /\ other[t] = r /\ \A u \in Tracked : u /= t => other[u] = trades[u]
    BY <2>a, AlsoIs
  <2>2. DOMAIN other = Tracked \cup {It} /\ other[It] = r
    BY <2>b DEF t
  <2>3. \A u \in Tracked : u /= It => other[u] = trades[u]
    BY <2>b DEF t
  <2> QED
    BY <1>4, <2>1, <2>2, <2>3
<1>9. BookOK(trades', venue', entries)
  <2>1. \A t \in ids : TradeOK(trades'[t], t, venue)
    BY <1>2, <1>7, <1>8 DEF BookOK
  <2>2. ids \subseteq 1..entries
    BY <1>2, <1>4
  <2> QED
    BY <1>8, <2>1, <2>2 DEF BookOK
<1>10. TasksOK(Rest, ids, entries) /\ Rest /= <<>> /\ Found(Rest) /\ ~Early(Rest)
  <2>1. Head(todo).op /= "flush" /\ \A t \in Tracked \ ids : Head(todo).op \in OfTrade => t = Head(todo).t
    BY <1>3
  <2>2. entries \in Nat
    BY <1>1
  <2> HIDE DEF ids
  <2>3. TasksOK(Tail(todo), ids, entries)
    BY <1>2, <1>3, <2>1, RestOK
  <2>4. Tail(todo) /= <<>>
    BY <1>2, <1>3, <2>1, RestOK
  <2>5. Head(Tail(todo)).op \in Stages \cup Calling
    BY <1>2, <1>3, <2>1, RestOK
  <2>6. Early(Tail(todo)) => Head(todo).op \notin {"enter", "ticket"}
    BY <1>2, <1>3, <2>1, RestOK
  <2>7. Found(Tail(todo))
    BY <2>5 DEF Found, Stages, Calling
  <2> QED
    BY <1>3, <2>3, <2>4, <2>6, <2>7 DEF Rest
<1>11. Onward
  <2>1. SameLength /\ entries <= entries
    BY <1>1, SamePlace
  <2> QED
    BY <1>1, <2>1 DEF Onward, SameLength
<1>12. TypeInv'
  <2>1. /\ BookOK(journal', venue', entries') /\ mode' \in {"up", "down", "starting"}
        /\ forgotten' \subseteq forgotten \cup 1..Len(venue)
    BY <1>1
  <2> QED
    BY <1>11, <2>1, OnwardType
<1>13. /\ Held = Tickets(trades) \cup {Arg} \cup forgotten
       /\ Held' = Tickets(trades) \cup {f} \cup forgotten
  <2>1. Waiting(todo) = {Arg} /\ Waiting(todo') = {}
    BY <1>3, <1>10, FoundHead, FoundWaits DEF Waiting, Arg
  <2>2. Tickets(trades') = Tickets(trades) \cup {f}
    BY <1>2, <1>4, <1>7, <1>8 DEF Tickets
  <2> QED
    BY <2>1, <2>2 DEF Held, Books
<1>14. Counted'
  <2> DEFINE A == OpenIn(venue) \ (Tickets(trades) \cup {f} \cup forgotten)
             B == OpenIn(venue) \ (Tickets(trades) \cup {Arg} \cup forgotten)
             b == Cardinality(A)
  <2>1. IsFiniteSet(B)
    BY <1>1, OpenFinite
  <2>2. b \in Nat /\ b <= Cardinality(B) /\ Cardinality(B) \in Nat
    <3>1. CASE f = Arg
      <4>1. A \subseteq B
        BY <3>1
      <4> HIDE DEF A, B
      <4> QED
        BY <2>1, <4>1, Fewer
    <3>2. CASE f /= Arg
      <4>1. f \in B
        <5>1. \A t \in DOMAIN trades : venue[trades[t].ticket].trade = t
          BY <1>1, <1>2, BookFacts
        <5>2. f \notin Tickets(trades)
          BY <1>2, <1>4, <1>6, <5>1 DEF Tickets
        <5> QED
          BY <1>6, <3>2, <5>2
      <4>2. A \subseteq (B \ {f}) \cup {Arg}
        OBVIOUS
      <4> DEFINE y == Arg
      <4>3. A \subseteq (B \ {f}) \cup {y}
        BY <4>2
      <4> HIDE DEF A, B, y
      <4>4. /\ Cardinality(A) \in Nat /\ Cardinality(B) \in Nat
            /\ Cardinality(A) <= Cardinality(B)
        BY <2>1, <4>1, <4>3, Swapped, Zenon
      <4> QED
        BY <4>4
    <3> QED
      BY <3>1, <3>2
  <2>3. b = Cardinality(OpenIn(venue') \ Held') /\ b <= Cardinality(OpenIn(venue) \ Held) + 0
    <3>1. Cardinality(OpenIn(venue) \ Held) = Cardinality(B)
      BY <1>13
    <3>2. Cardinality(OpenIn(venue') \ Held') = Cardinality(A)
      BY <1>13
    <3> HIDE DEF A, B
    <3> QED
      BY <2>2, <3>1, <3>2
  <2>4. Left \in Int /\ Left' \in Int /\ Left <= Left'
    BY SpentGrows
  <2>5. 0 + Len(late') <= Len(late) + 0 /\ Len(late') \in Nat /\ Left + 0 <= Left'
    BY <1>1, <2>4
  <2>6. b \in Nat /\ 0 \in Int /\ UNCHANGED setup /\ Spends
    BY <2>2
  <2> HIDE DEF b
  <2>7. b <= Cardinality(OpenIn(venue) \ Held) + 0 /\ b = Cardinality(OpenIn(venue') \ Held')
    BY <2>3
  <2> QED
    BY <2>5, <2>6, <2>7, CountKept
<1>15. UpInv'
  <2>1. Tracked' = ids
    BY <1>8 DEF Tracked
  <2>2. ids \subseteq DOMAIN journal \cup {entries}
    BY <1>4, <1>5
  <2>3. ASSUME NEW t \in ids, t \in DOMAIN journal
        PROVE  journal[t].ticket = trades'[t].ticket
    <3>1. CASE t \in Tracked
      BY <1>2, <1>8, <2>3, <3>1
    <3>2. CASE t = It
      BY <2>3, <3>2 DEF IInv, UpInv
    <3> QED
      BY <3>1, <3>2
  <2>4. ~Doing("ticket")' /\ ~Doing("closing")'
    BY <1>10 DEF Doing, Found
  <2> QED
    BY <1>9, <1>10, <1>12, <2>1, <2>2, <2>3, <2>4 DEF UpInv
<1>16. UpStops'
  <2> SUFFICES ASSUME InTime'
               PROVE  /\ \A t \in ids : Agrees(trades'[t], venue)
                      /\ \A t \in DOMAIN journal : Agrees(journal[t], venue)
                      /\ ~Doing("ticket")'
    BY <1>8 DEF UpStops, Tracked
  <2>1. InTime /\ UpStops
    BY SpentGrows DEF IInv
  <2>2. ASSUME NEW t \in ids PROVE Agrees(trades'[t], venue)
    <3>1. CASE t \in Tracked
      <4>1. Agrees(trades[t], venue) \/ Owed(t, todo)
        BY <2>1, <3>1 DEF UpStops
      <4>2. ~Owed(t, todo)
        BY <1>3 DEF Owed
      <4> QED
        BY <1>8, <3>1, <4>1, <4>2
    <3>2. CASE t = It
      <4>1. -1 <= venue[f].sl
        BY <1>6, <2>1 DEF UpStops
      <4> QED
        BY <1>7, <1>8, <3>2, <4>1 DEF Agrees
    <3> QED
      BY <3>1, <3>2
  <2>3. \A t \in DOMAIN journal : Agrees(journal[t], venue)
    BY <2>1 DEF UpStops
  <2>4. ~Doing("ticket")'
    BY <1>10 DEF Doing, Found
  <2> QED
    BY <2>2, <2>3, <2>4
<1> QED
  BY <1>12, <1>14, <1>15, <1>16 DEF IInv

\* An entry whose ticket is never asked for: its position is left behind.
LEMMA TicketLost ==
    ASSUME IInv, mode = "up", Doing("ticket"), Spend("lose"),
           UNCHANGED <<setup, venue, late, mode, journal, entries, forgotten, trades>>, todo' = Aborted
    PROVE  IInv'
<1>1. /\ entries \in Nat /\ VenueOK(venue, entries) /\ LateOK(late, Len(venue), entries) /\ Len(late) \in Nat
      /\ budget \in [Fault -> Nat] /\ BookOK(journal, venue, entries)
  BY Typed
<1>2. /\ TasksOK(todo, Tracked, entries) /\ BookOK(trades, venue, entries) /\ Tracked = DOMAIN trades
      /\ \A t \in Tracked \cap DOMAIN journal : journal[t].ticket = trades[t].ticket
  BY AtWork
<1>3. todo /= <<>> /\ Head(todo).op = "ticket"
  BY DEF Doing
<1>4. Tracked \subseteq DOMAIN journal
  <2>1. IsSeq(todo)
    BY <1>2 DEF TasksOK
  <2>2. Head(todo) = todo[1] /\ 1 \in 1..Len(todo)
    BY <1>3, <2>1, SeqTail, SeqLen, OneIn
  <2>3. Early(todo)
    BY <1>3, <2>2 DEF Early
  <2> QED
    BY <2>3, AtWork
<1>5. Spends /\ budget'["lose"] = budget["lose"] - 1
  BY SpendIs DEF Fault
<1>6. /\ TasksOK(Aborted, Tracked, entries) /\ Aborted /= <<>> /\ ~Early(Aborted)
      /\ Head(Aborted).op /= "ticket" /\ Head(Aborted).op /= "closing"
  BY AbortedIs, FoundHead
<1>7. TypeInv'
  <2>1. Onward
    <3>1. SameLength /\ entries <= entries
      BY <1>1, <1>5, SamePlace
    <3> QED
      BY <1>1, <3>1 DEF Onward, SameLength
  <2>2. /\ BookOK(journal', venue', entries') /\ mode' \in {"up", "down", "starting"}
        /\ forgotten' \subseteq forgotten \cup 1..Len(venue)
    BY <1>1
  <2> QED
    BY <2>1, <2>2, OnwardType
<1>8. Counted'
  <2> DEFINE A == OpenIn(venue) \ (Tickets(trades) \cup forgotten)
             B == OpenIn(venue) \ (Tickets(trades) \cup {Arg} \cup forgotten)
             b == Cardinality(A)
             x == Arg
  <2>1. Cardinality(OpenIn(venue) \ Held) = Cardinality(B) /\ OpenIn(venue') \ Held' = A
    <3>1. Waiting(todo) = {Arg} /\ Waiting(todo') = {}
      BY <1>3, <1>6, FoundWaits DEF Waiting, Arg
    <3> QED
      BY <3>1 DEF Held, Books
  <2>2. IsFiniteSet(B) /\ A \subseteq B \cup {x}
    BY <1>1, OpenFinite
  <2> HIDE DEF A, B, x
  <2>3. b \in Nat /\ b <= Cardinality(OpenIn(venue) \ Held) + 1 /\ b = Cardinality(OpenIn(venue') \ Held')
    BY <2>1, <2>2, OneOver
  <2>4. Left + 2 <= Left'
    <3>1. /\ Left \in Int /\ Left' \in Int /\ budget["lose"] \in Nat
          /\ Left + 2 * (budget["lose"] - budget'["lose"]) <= Left'
      BY <1>1, <1>5, SpentGrows DEF Fault
    <3> QED
      BY <1>5, <3>1
  <2>5. 1 + Len(late') <= Len(late) + 2 /\ Len(late') \in Nat /\ 1 \in Int /\ 2 \in Int
    BY <1>1
  <2> HIDE DEF b
  <2> QED
    BY <1>5, <2>3, <2>4, <2>5, CountKept
<1>9. UpInv'
  <2>1. Tracked' = Tracked /\ ~Doing("ticket")' /\ ~Doing("closing")'
    BY <1>6 DEF Doing, Tracked
  <2> QED
    BY <1>2, <1>4, <1>6, <2>1 DEF UpInv
<1>10. UpStops'
  <2>1. InTime' => InTime
    BY <1>5, SpentGrows
  <2>2. ~Doing("ticket")' /\ \A t \in Tracked : ~Owed(t, todo)
    BY <1>3, <1>6 DEF Doing, Owed
  <2> QED
    BY <2>1, <2>2 DEF IInv, UpStops, Tracked
<1> QED
  BY <1>7, <1>8, <1>9, <1>10 DEF IInv

LEMMA FindKeeps == ASSUME IInv, mode = "up", FindTicket PROVE IInv'
<1> DEFINE ours == {i \in DOMAIN venue : venue[i].trade = It /\ venue[i].qty > 0}
           f == IF ours = {} THEN Arg ELSE CHOOSE i \in ours : \A j \in ours : i <= j
<1>1. VenueOK(venue, entries) /\ Len(venue) \in Nat /\ DOMAIN venue = 1..Len(venue)
  BY Typed, VenueFacts
<1>2. ours /= {} => f \in ours
  <2>1. IsFiniteSet(ours) /\ ours \subseteq Nat
    <3>1. IsFiniteSet(1..Len(venue))
      BY <1>1, FS_Interval
    <3> QED
      BY <1>1, <3>1, FS_Subset
  <2> SUFFICES ASSUME ours /= {} PROVE f \in ours
    OBVIOUS
  <2>2. f = CHOOSE i \in ours : \A j \in ours : i <= j
    OBVIOUS
  <2> HIDE DEF f, ours
  <2>3. \E i \in ours : \A j \in ours : i <= j
    BY <2>1, LeastIs
  <2> QED
    BY <2>2, <2>3
<1>3. f = Arg \/ (f \in OpenIn(venue) /\ venue[f].trade = It)
  BY <1>1, <1>2 DEF OpenIn
<1>4. /\ Doing("ticket") /\ UNCHANGED <<snap, entries>>
      /\ \/ Local(Also(It, Opened(f)), Rest)
         \/ Unread(Step(Also(It, Opened(Arg)), Rest), Step(trades, Aborted))
  BY DEF FindTicket
<1> HIDE DEF f
<1>5. CASE Local(Also(It, Opened(f)), Rest)
  <2>1. UNCHANGED <<setup, venue, late, mode, journal, entries, forgotten>> /\ Spends
        /\ trades' = Also(It, Opened(f)) /\ todo' = Rest
    BY <1>4, <1>5, SpendNone DEF Local, Step, Goes
  <2> QED
    BY <1>3, <1>4, <2>1, TicketKeeps
<1>6. CASE Unread(Step(Also(It, Opened(Arg)), Rest), Step(trades, Aborted))
  <2>1. UNCHANGED <<venue, late>> /\ Spends
    <3>1. Unread(TRUE, TRUE)
      BY <1>6 DEF Unread
    <3> QED
      BY <3>1, UnreadIs
  <2>2. \/ Step(Also(It, Opened(Arg)), Rest)
        \/ Spend("lose") /\ Step(trades, Aborted)
    BY <1>6 DEF Unread
  <2>3. CASE Step(Also(It, Opened(Arg)), Rest)
    <3>1. UNCHANGED <<setup, mode, journal, forgotten>> /\ trades' = Also(It, Opened(Arg)) /\ todo' = Rest
      BY <2>3 DEF Step, Goes
    <3>2. Arg = Arg
      OBVIOUS
    <3> QED
      BY <1>4, <2>1, <3>1, <3>2, TicketKeeps
  <2>4. CASE Spend("lose") /\ Step(trades, Aborted)
    <3>1. UNCHANGED <<setup, mode, journal, forgotten>> /\ trades' = trades /\ todo' = Aborted
      BY <2>4 DEF Step, Goes
    <3> QED
      BY <1>4, <2>1, <2>4, <3>1, TicketLost
  <2> QED
    BY <2>2, <2>3, <2>4
<1> QED
  BY <1>4, <1>5, <1>6


-----------------------------------------------------------------------------
(* Queue items begin and end *)

LEMMA StillOnward ==
    ASSUME IInv, UNCHANGED <<setup, venue, late, entries>>, Spends
    PROVE  Onward
<1>1. /\ entries \in Nat /\ VenueOK(venue, entries) /\ LateOK(late, Len(venue), entries) /\ Len(late) \in Nat
      /\ budget \in [Fault -> Nat]
  BY Typed
<1>2. GoesOn(venue, venue) /\ entries <= entries
  BY <1>1, GoesSame
<1>3. budget["late"] \in Nat /\ budget'["late"] \in Nat /\ budget'["late"] <= budget["late"]
  BY <1>1 DEF Spends, Fault
<1>4. Len(late) <= Len(late) + (budget["late"] - budget'["late"])
  BY <1>1, <1>3
<1> QED
  BY <1>1, <1>2, <1>4 DEF Onward

LEMMA FewerLeft ==
    ASSUME IInv, Onward, OpenIn(venue') \ Held' \subseteq OpenIn(venue) \ Held
    PROVE  Counted'
<1> DEFINE A == OpenIn(venue') \ Held'
           B == OpenIn(venue) \ Held
           b == Cardinality(A)
           d == budget["late"] - budget'["late"]
<1>1. IsFiniteSet(B) /\ Len(late) \in Nat
  BY Typed, OpenFinite
<1>2. b \in Nat /\ b <= Cardinality(B) /\ Cardinality(B) \in Nat
  <2>1. A \subseteq B
    OBVIOUS
  <2> HIDE DEF A, B
  <2> QED
    BY <1>1, <2>1, Fewer
<1>3. Left + d <= Left' /\ UNCHANGED setup /\ Spends
  BY SpentGrows DEF Onward
<1>4. d \in Int
  <2>1. budget["late"] \in Nat /\ budget'["late"] \in Nat
    BY Typed DEF Onward, Spends, Fault
  <2> QED
    BY <2>1
<1>5. Len(late') \in Nat /\ 0 + Len(late') <= Len(late) + d
  <2>1. IsSeq(late') /\ Len(late') <= Len(late) + d
    BY DEF Onward, LateOK
  <2>2. Len(late') \in Nat
    BY <2>1, SeqLen
  <2> QED
    BY <2>1, <2>2
<1>6. b \in Nat /\ 0 \in Int
  BY <1>2
<1>7. b <= Cardinality(OpenIn(venue) \ Held) + 0 /\ b = Cardinality(OpenIn(venue') \ Held')
  BY <1>2
<1> HIDE DEF b, d
<1> QED
  BY <1>3, <1>4, <1>5, <1>6, <1>7, CountKept

\* Of a process that is up: between two items every stop is as believed.
LEMMA SureNow ==
    ASSUME IInv, mode = "up", InTime, NEW t \in Tracked, todo = <<>> \/ Head(todo).op /= "settled"
    PROVE  Agrees(trades[t], venue)
<1>1. Agrees(trades[t], venue) \/ Owed(t, todo)
  BY DEF IInv, UpStops
<1> QED
  BY <1>1 DEF Owed

LEMMA ItemKeeps ==
    ASSUME IInv, NEW tasks, Item(tasks), IsSeq(tasks), tasks /= <<>>,
           \A i \in 1..Len(tasks) : tasks[i].op \in Stages,
           \A i \in 1..Len(tasks) : tasks[i].op = "flush" <=> i = Len(tasks),
           \A i, j \in 1..Len(tasks) : i < j /\ tasks[j].op = "enter" => tasks[i].op /= "enter"
    PROVE  IInv'
<1>1. /\ mode = "up" /\ todo = <<>> /\ todo' = tasks
      /\ UNCHANGED <<setup, venue, late, mode, trades, journal, snap, entries, budget, forgotten>>
  BY DEF Item
<1>2. Spends /\ Onward
  <2>1. Spends
    BY <1>1, SpendNone
  <2> QED
    BY <1>1, <2>1, StillOnward
<1>3. /\ BookOK(trades, venue, entries) /\ Tracked = DOMAIN trades /\ journal = trades
      /\ \A t \in Tracked \cap DOMAIN journal : journal[t].ticket = trades[t].ticket
  BY <1>1, AtWork
<1>4. TypeInv'
  <2>1. /\ BookOK(journal', venue', entries') /\ mode' \in {"up", "down", "starting"}
        /\ forgotten' \subseteq forgotten \cup 1..Len(venue)
    BY <1>1, <1>3
  <2> QED
    BY <1>2, <2>1, OnwardType
<1>5. Head(tasks).op \in Stages /\ Head(tasks) = tasks[1] /\ 1 \in 1..Len(tasks)
  BY SeqTail, SeqLen, OneIn
<1>6. Found(todo) /\ Found(tasks)
  BY <1>1, <1>5 DEF Found, Stages
<1>7. Counted'
  <2>1. Waiting(todo) = {} /\ Waiting(tasks) = {}
    BY <1>1, <1>6, FoundHead, FoundWaits
  <2>2. Held' = Held
    BY <1>1, <2>1 DEF Held, Books
  <2> QED
    BY <1>1, <1>2, <2>2, FewerLeft
<1>8. TasksOK(tasks, Tracked, entries)
  <2>1. \A i \in 1..Len(tasks) : tasks[i].op \notin OfTrade /\ tasks[i].op /= "ticket"
    BY DEF Stages, OfTrade, Calling
  <2>2. \A i \in 1..Len(tasks) : TaskOK(tasks[i], Tracked, entries)
    BY <2>1 DEF TaskOK
  <2> QED
    BY <2>1, <2>2 DEF TasksOK
<1>9. UpInv'
  <2>1. Tracked' = Tracked /\ DOMAIN journal' = Tracked
    BY <1>1, <1>3 DEF Tracked
  <2>2. ~Doing("ticket")' /\ ~Doing("closing")'
    BY <1>1, <1>6 DEF Doing, Found
  <2> QED
    BY <1>1, <1>3, <1>4, <1>8, <2>1, <2>2 DEF UpInv
<1>10. UpStops'
  <2> SUFFICES ASSUME InTime' PROVE (\A t \in Tracked : Agrees(trades[t], venue)) /\ ~Doing("ticket")'
    BY <1>1, <1>3 DEF UpStops, Tracked
  <2>1. InTime
    BY <1>1, <1>2, SpentGrows
  <2>2. ~Doing("ticket")'
    BY <1>1, <1>6 DEF Doing, Found
  <2> QED
    BY <1>1, <2>1, <2>2, SureNow
<1> QED
  BY <1>1, <1>4, <1>7, <1>9, <1>10 DEF IInv

LEMMA ShortItem ==
    ASSUME IInv, NEW op \in Stages \ {"flush", "enter"}, Item(<<Stage(op), Stage("flush")>>)
    PROVE  IInv'
<1> DEFINE s == <<Stage(op), Stage("flush")>>
<1>1. IsSeq(s) /\ Len(s) = 2 /\ s[1] = Stage(op) /\ s[2] = Stage("flush")
  BY SeqTwo
<1>2. s[1].op = op /\ s[2].op = "flush"
  BY DEF Stage, Task
<1>3. s /= <<>>
  OBVIOUS
<1>4. Item(s)
  OBVIOUS
<1> HIDE DEF s
<1>5. \A i \in 1..Len(s) : i = 1 \/ i = 2
  BY <1>1
<1>6. \A i \in 1..Len(s) : s[i].op \in Stages /\ (s[i].op = "flush" <=> i = Len(s)) /\ s[i].op /= "enter"
  BY <1>1, <1>2, <1>5 DEF Stages
<1> QED
  BY <1>1, <1>3, <1>4, <1>6, ItemKeeps

LEMMA FormingKeeps == ASSUME IInv, Forming PROVE IInv'
  BY ShortItem DEF Forming, Stages

LEMMA PollKeeps == ASSUME IInv, PollItem PROVE IInv'
  BY ShortItem DEF PollItem, Stages

LEMMA CandleKeeps == ASSUME IInv, Candle PROVE IInv'
<1> DEFINE s == <<Stage("retry"), Stage("free"), Stage("raise"), Stage("levels"), Stage("exit"),
                  Stage("enter"), Stage("reconcile"), Stage("flush")>>
           X == {Stage(op) : op \in Stages}
<1>1. s \in Seq(X) /\ Len(s) = 8
  <2>1. \A op \in Stages : Stage(op) \in X
    OBVIOUS
  <2> HIDE DEF X
  <2>2. /\ Stage("retry") \in X /\ Stage("free") \in X /\ Stage("raise") \in X /\ Stage("levels") \in X /\ Stage("exit") \in X
        /\ Stage("enter") \in X /\ Stage("reconcile") \in X /\ Stage("flush") \in X
    BY <2>1 DEF Stages
  <2> QED
    BY <2>2
<1>2. /\ s[1].op = "retry" /\ s[2].op = "free" /\ s[3].op = "raise" /\ s[4].op = "levels" /\ s[5].op = "exit"
      /\ s[6].op = "enter" /\ s[7].op = "reconcile" /\ s[8].op = "flush"
  BY DEF Stage, Task
<1>3. s /= <<>> /\ Item(s)
  BY DEF Candle
<1> HIDE DEF s, X
<1>4. \A i \in 1..Len(s) : i = 1 \/ i = 2 \/ i = 3 \/ i = 4 \/ i = 5 \/ i = 6 \/ i = 7 \/ i = 8
  BY <1>1
<1>5. \A i \in 1..Len(s) : s[i].op \in Stages
  BY <1>2, <1>4 DEF Stages
<1>6. \A i \in 1..Len(s) : s[i].op = "flush" <=> i = Len(s)
  BY <1>1, <1>2, <1>4
<1>7. \A i \in 1..Len(s) : s[i].op = "enter" => i = 6
  BY <1>2, <1>4
<1>8. \A i, j \in 1..Len(s) : i < j /\ s[j].op = "enter" => s[i].op /= "enter"
  BY <1>7
<1>9. IsSeq(s)
  BY <1>1, SeqIs
<1> QED
  BY <1>3, <1>5, <1>6, <1>8, <1>9, ItemKeeps


-----------------------------------------------------------------------------
(* Who is at work, and the journal *)

LEMMA AtHead ==
    ASSUME IInv, todo /= <<>>
    PROVE  /\ mode \in {"up", "starting"}
           /\ mode = "up" => Head(todo).op \in Stages \cup OfTrade \cup {"ticket", "closing"}
           /\ mode = "starting" => Head(todo).op \in {"read", "repair", "adopt", "flush"}
<1>1. mode \in {"up", "starting"}
  BY Typed DEF IInv
<1>2. ASSUME mode = "up" PROVE Head(todo).op \in Stages \cup OfTrade \cup {"ticket", "closing"}
  <2>1. TasksOK(todo, Tracked, entries)
    BY <1>2, AtWork
  <2>2. IsSeq(todo)
    BY <2>1 DEF TasksOK
  <2>3. Head(todo) = todo[1] /\ 1 \in 1..Len(todo)
    BY <2>2, SeqTail, SeqLen, OneIn
  <2> QED
    BY <2>1, <2>3 DEF TasksOK, TaskOK
<1>3. ASSUME mode = "starting" PROVE Head(todo).op \in {"read", "repair", "adopt", "flush"}
  <2>1. StartInv
    BY <1>3 DEF IInv
  <2>2. CASE todo = <<Stage("read")>>
    BY <2>2 DEF Stage, Task
  <2>3. CASE StartOK(todo, Tracked, DOMAIN journal)
    <3>1. IsSeq(todo) /\ \A i \in 1..Len(todo) : todo[i].op \in {"repair", "adopt", "flush"}
      BY <2>3 DEF StartOK
    <3>2. Head(todo) = todo[1] /\ 1 \in 1..Len(todo)
      BY <3>1, SeqTail, SeqLen, OneIn
    <3> QED
      BY <3>1, <3>2
  <2> QED
    BY <2>1, <2>2, <2>3 DEF StartInv
<1> QED
  BY <1>1, <1>2, <1>3

\* A restart that has read the positions.
LEMMA AtStart ==
    ASSUME IInv, mode = "starting", todo /= <<>>, Head(todo).op /= "read"
    PROVE  /\ StartOK(todo, Tracked, DOMAIN journal) /\ Snapped
           /\ BookOK(trades, venue, entries) /\ Tracked = DOMAIN trades
           /\ Tracked \subseteq DOMAIN journal
           /\ \A t \in Tracked : journal[t].ticket = trades[t].ticket /\ journal[t].sl = trades[t].sl
           /\ \A t \in DOMAIN journal :
                  t \in Tracked \/ Adopting(t, todo) \/ snap[journal[t].ticket].qty = 0
           /\ todo /= <<Stage("read")>> /\ Waiting(todo) = {}
           /\ InTime =>
                  /\ \A t \in DOMAIN journal : Agrees(journal[t], venue) \/ Bare(journal[t], venue)
                  /\ \A t \in Tracked : Agrees(trades[t], venue) \/ (Repaired(t, todo) /\ Bare(trades[t], venue))
                  /\ \A t \in DOMAIN journal \ Tracked :
                         venue[journal[t].ticket].sl = snap[journal[t].ticket].sl
<1>1. StartInv /\ StartStops
  BY DEF IInv
<1>2. todo /= <<Stage("read")>>
  <2>1. Head(<<Stage("read")>>).op = "read"
    BY DEF Stage, Task
  <2> QED
    BY <2>1
<1>3. Waiting(todo) = {}
  BY AtHead DEF Waiting
<1> QED
  BY <1>1, <1>2, <1>3 DEF StartInv, StartStops, Tracked

LEMMA OnlyFlush ==
    ASSUME IInv, Doing("flush")
    PROVE  Len(todo) = 1 /\ todo[1].op = "flush"
<1>1. todo /= <<>> /\ Head(todo).op = "flush"
  BY DEF Doing
<1>2. IsSeq(todo) /\ \A i \in 1..Len(todo) : todo[i].op = "flush" <=> i = Len(todo)
  <2>1. CASE mode = "up"
    BY <2>1, AtWork DEF TasksOK
  <2>2. CASE mode = "starting"
    BY <1>1, <2>2, AtStart DEF StartOK
  <2> QED
    BY <1>1, <2>1, <2>2, AtHead
<1>3. Head(todo) = todo[1] /\ 1 \in 1..Len(todo)
  BY <1>1, <1>2, SeqTail, SeqLen, OneIn
<1> QED
  BY <1>1, <1>2, <1>3

LEMMA FlushKeeps == ASSUME IInv, Flush PROVE IInv'
<1>1. /\ Doing("flush") /\ journal' = trades /\ mode' = "up" /\ todo' = <<>>
      /\ UNCHANGED <<setup, venue, late, trades, entries, budget, forgotten>>
  BY DEF Flush
<1>2. todo /= <<>> /\ Head(todo).op = "flush" /\ mode \in {"up", "starting"}
  BY <1>1, AtHead DEF Doing
<1>3. Spends /\ Onward
  <2>1. Spends
    BY <1>1, SpendNone
  <2> QED
    BY <1>1, <2>1, StillOnward
<1>4. BookOK(trades, venue, entries) /\ Tracked = DOMAIN trades /\ entries \in Nat /\ VenueOK(venue, entries)
  <2>1. CASE mode = "up"
    BY <2>1, AtWork, Typed
  <2>2. CASE mode = "starting"
    BY <1>2, <2>2, AtStart, Typed
  <2> QED
    BY <1>2, <2>1, <2>2
<1>5. TypeInv'
  <2>1. /\ BookOK(journal', venue', entries') /\ mode' \in {"up", "down", "starting"}
        /\ forgotten' \subseteq forgotten \cup 1..Len(venue)
    BY <1>1, <1>4
  <2> QED
    BY <1>3, <2>1, OnwardType
<1>6. Held' = Tickets(trades) \cup forgotten
  <2>1. Waiting(todo') = {}
    BY <1>1 DEF Waiting
  <2> QED
    BY <1>1, <2>1 DEF Held, Books
<1>7. ASSUME mode = "starting", NEW t \in DOMAIN journal, t \notin Tracked
      PROVE  venue[journal[t].ticket].qty = 0
  <2> DEFINE i == journal[t].ticket
  <2>1. ~Adopting(t, todo)
    <3>a. Len(todo) = 1 /\ todo[1].op = "flush"
      BY <1>1, OnlyFlush
    <3>b. \A k \in 1..1 : k = 1
      OBVIOUS
    <3>1. \A k \in 1..Len(todo) : todo[k].op = "flush"
      BY <3>a, <3>b
    <3> QED
      BY <3>1 DEF Adopting
  <2>2. snap[i].qty = 0 /\ Snapped
    BY <1>2, <1>7, <2>1, AtStart
  <2>3. i \in 1..Len(snap) /\ GoesOn(snap, venue) /\ Len(snap) \in Nat
    BY <2>2 DEF Snapped
  <2>4. venue[i].qty <= 0
    BY <2>2, <2>3 DEF GoesOn
  <2>5. i \in 1..Len(venue)
    BY Typed, BookFacts
  <2>6. venue[i].qty \in Nat
    BY <1>4, <2>5, VenueFacts
  <2> QED
    BY <2>4, <2>6
<1>8. Counted'
  <2>1. OpenIn(venue') \ Held' \subseteq OpenIn(venue) \ Held
    <3>1. CASE mode = "up"
      <4>1. Waiting(todo) = {}
        BY <1>2 DEF Waiting
      <4> QED
        BY <1>1, <1>6, <3>1, <4>1 DEF Held, Books
    <3>2. CASE mode = "starting"
      <4>1. Held = Tickets(journal) \cup forgotten
        BY <1>2, <3>2, AtStart DEF Held, Books
      <4> SUFFICES ASSUME NEW i \in OpenIn(venue), i \in Tickets(journal) PROVE i \in Tickets(trades)
        BY <1>1, <1>6, <4>1
      <4>2. PICK t \in DOMAIN journal : journal[t].ticket = i
        BY DEF Tickets
      <4>3. t \in Tracked
        BY <1>7, <3>2, <4>2 DEF OpenIn
      <4>4. journal[t].ticket = trades[t].ticket
        BY <1>2, <3>2, <4>3, AtStart
      <4> QED
        BY <1>4, <4>2, <4>3, <4>4 DEF Tickets
    <3> QED
      BY <1>2, <3>1, <3>2
  <2> QED
    BY <1>1, <1>3, <2>1, FewerLeft
<1>10. UpInv'
  <2>1. Tracked' = Tracked /\ DOMAIN journal' = Tracked
    BY <1>1, <1>4 DEF Tracked
  <2>2. ~Doing("ticket")' /\ ~Doing("closing")' /\ ~Early(todo')
    BY <1>1, SeqNone DEF Doing, Early
  <2>3. TasksOK(todo', Tracked, entries)
    BY <1>1, SeqNone DEF TasksOK
  <2> QED
    BY <1>1, <1>4, <1>5, <2>1, <2>2, <2>3 DEF UpInv
<1>11. UpStops'
  <2> SUFFICES ASSUME InTime' PROVE (\A t \in Tracked : Agrees(trades[t], venue)) /\ ~Doing("ticket")'
    BY <1>1, <1>4 DEF UpStops, Tracked
  <2>1. InTime
    BY <1>1, <1>3, SpentGrows
  <2>2. ~Doing("ticket")'
    BY <1>1 DEF Doing
  <2>3. ASSUME NEW t \in Tracked PROVE Agrees(trades[t], venue)
    <3>1. CASE mode = "up"
      BY <1>2, <2>1, <3>1, SureNow
    <3>2. CASE mode = "starting"
      <4>1. Agrees(trades[t], venue) \/ (Repaired(t, todo) /\ Bare(trades[t], venue))
        BY <1>2, <2>1, <3>2, AtStart
      <4> QED
        BY <1>2, <4>1 DEF Repaired
    <3> QED
      BY <1>2, <3>1, <3>2
  <2> QED
    BY <2>2, <2>3
<1> QED
  BY <1>1, <1>5, <1>8, <1>10, <1>11 DEF IInv

-----------------------------------------------------------------------------
(* Crash and restart *)

LEMMA CrashKeeps == ASSUME IInv, Crash PROVE IInv'
<1>1. /\ mode /= "down" /\ Spend("crash") /\ mode' = "down" /\ trades' = << >> /\ todo' = <<>>
      /\ UNCHANGED <<setup, venue, late, journal, entries, forgotten>>
  BY DEF Crash
<1>2. Spends /\ Onward /\ budget'["crash"] = budget["crash"] - 1
  <2>1. Spends /\ budget'["crash"] = budget["crash"] - 1
    BY <1>1, SpendIs DEF Fault
  <2> QED
    BY <1>1, <2>1, StillOnward
<1>3. /\ entries \in Nat /\ VenueOK(venue, entries) /\ BookOK(journal, venue, entries)
      /\ Len(late) \in Nat /\ budget["crash"] \in Nat
  BY Typed DEF Fault
<1>4. TypeInv'
  <2>1. /\ BookOK(journal', venue', entries') /\ mode' \in {"up", "down", "starting"}
        /\ forgotten' \subseteq forgotten \cup 1..Len(venue)
    BY <1>1, <1>3
  <2> QED
    BY <1>2, <2>1, OnwardType
<1>5. Held' = Tickets(journal) \cup forgotten
  <2>1. Waiting(todo') = {}
    BY <1>1 DEF Waiting
  <2> QED
    BY <1>1, <2>1 DEF Held, Books
<1>6. \E x : OpenIn(venue) \ (Tickets(journal) \cup forgotten) \subseteq (OpenIn(venue) \ Held) \cup {x}
  <2>1. CASE mode = "up"
    <3>1. /\ Tracked = DOMAIN trades /\ Tracked \subseteq DOMAIN journal \cup {entries}
          /\ (Early(todo) => Tracked \subseteq DOMAIN journal)
          /\ \A t \in Tracked \cap DOMAIN journal : journal[t].ticket = trades[t].ticket
      BY <2>1, AtWork
    <3>2. Tickets(trades) \subseteq Tickets(journal) \cup {trades[entries].ticket}
      BY <3>1 DEF Tickets
    <3>3. Held = Tickets(trades) \cup Waiting(todo) \cup forgotten
      BY <2>1 DEF Held, Books
    <3>4. CASE Doing("ticket")
      <4>1. IsSeq(todo) /\ todo /= <<>> /\ Head(todo).op = "ticket"
        BY <2>1, <3>4, AtWork DEF TasksOK, Doing
      <4>2. Head(todo) = todo[1] /\ 1 \in 1..Len(todo)
        BY <4>1, SeqTail, SeqLen, OneIn
      <4>3. Early(todo)
        BY <4>1, <4>2 DEF Early
      <4>4. Tickets(trades) \subseteq Tickets(journal)
        BY <3>1, <4>3 DEF Tickets
      <4>5. Waiting(todo) = {Head(todo).arg}
        BY <4>1 DEF Waiting
      <4> QED
        BY <3>3, <4>4, <4>5
    <3>5. CASE ~Doing("ticket")
      <4>1. Waiting(todo) = {}
        BY <3>5 DEF Waiting, Doing
      <4> QED
        BY <3>2, <3>3, <4>1
    <3> QED
      BY <3>4, <3>5
  <2>2. CASE mode = "starting"
    <3>1. Held = Tickets(journal) \cup Waiting(todo) \cup forgotten /\ Waiting(todo) = {}
      <4>1. todo /= <<>> => Head(todo).op /= "ticket"
        BY <2>2, AtHead
      <4> QED
        BY <2>2, <4>1 DEF Held, Books, Waiting
    <3> QED
      BY <3>1
  <2> QED
    BY <1>1, <2>1, <2>2, Typed
<1>7. PICK x : OpenIn(venue) \ (Tickets(journal) \cup forgotten) \subseteq (OpenIn(venue) \ Held) \cup {x}
  BY <1>6
<1>8. Counted'
  <2> DEFINE A == OpenIn(venue) \ (Tickets(journal) \cup forgotten)
             B == OpenIn(venue) \ Held
             b == Cardinality(A)
  <2>1. IsFiniteSet(B)
    BY <1>3, OpenFinite
  <2>2. b \in Nat /\ Cardinality(B) \in Nat /\ b <= Cardinality(B) + 1
    <3>1. A \subseteq B \cup {x}
      BY <1>7
    <3> HIDE DEF A, B
    <3> QED
      BY <2>1, <3>1, OneOver
  <2>3. Left \in Int /\ Left' \in Int /\ Left + (budget["crash"] - budget'["crash"]) <= Left'
    BY <1>1, <1>2, SpentGrows
  <2>4. Left + 1 <= Left'
    BY <1>2, <1>3, <2>3
  <2>5. b <= Cardinality(OpenIn(venue) \ Held) + 1 /\ b = Cardinality(OpenIn(venue') \ Held') /\ b \in Nat
    BY <1>1, <1>5, <2>2
  <2>6. 1 \in Int /\ 1 + Len(late') <= Len(late) + 1 /\ Len(late') \in Nat /\ UNCHANGED setup
    BY <1>1, <1>3
  <2> HIDE DEF b
  <2> QED
    BY <1>2, <2>4, <2>5, <2>6, CountKept
<1>9. StartStops'
  <2> SUFFICES ASSUME InTime', NEW t \in DOMAIN journal PROVE Agrees(journal[t], venue) \/ Bare(journal[t], venue)
    BY <1>1 DEF StartStops
  <2>1. InTime
    BY <1>1, <1>2, SpentGrows
  <2>2. CASE mode = "up"
    BY <2>1, <2>2 DEF IInv, UpStops
  <2>3. CASE mode = "starting"
    BY <2>1, <2>3 DEF IInv, StartStops
  <2> QED
    BY <1>1, <2>2, <2>3, Typed
<1>10. Tracked' = {}
  BY <1>1 DEF Tracked
<1> QED
  BY <1>1, <1>4, <1>8, <1>9, <1>10 DEF IInv

LEMMA RestartKeeps == ASSUME IInv, Restart PROVE IInv'
<1>1. /\ mode = "down" /\ mode' = "starting" /\ todo' = <<Stage("read")>>
      /\ UNCHANGED <<setup, venue, late, trades, journal, entries, budget, forgotten>>
  BY DEF Restart
<1>2. todo = <<>> /\ Tracked = {} /\ StartStops
  BY <1>1 DEF IInv
<1>3. Spends /\ Onward
  <2>1. Spends
    BY <1>1, SpendNone
  <2> QED
    BY <1>1, <2>1, StillOnward
<1>4. TypeInv'
  <2>1. /\ BookOK(journal', venue', entries') /\ mode' \in {"up", "down", "starting"}
        /\ forgotten' \subseteq forgotten \cup 1..Len(venue)
    BY <1>1, Typed
  <2> QED
    BY <1>3, <2>1, OnwardType
<1>5. Held' = Held
  <2>1. Waiting(todo') = {} /\ Waiting(todo) = {}
    BY <1>1, <1>2 DEF Waiting, Stage, Task
  <2> QED
    BY <1>1, <2>1 DEF Held, Books
<1>6. Counted'
  BY <1>1, <1>3, <1>5, FewerLeft
<1>7. StartInv'
  BY <1>1, <1>2 DEF StartInv, Tracked
<1>8. StartStops'
  <2> SUFFICES ASSUME InTime', NEW t \in DOMAIN journal PROVE Agrees(journal[t], venue) \/ Bare(journal[t], venue)
    BY <1>1 DEF StartStops
  <2>1. InTime
    BY <1>1, <1>3, SpentGrows
  <2> QED
    BY <1>2, <2>1 DEF StartStops
<1> QED
  BY <1>1, <1>4, <1>6, <1>7, <1>8 DEF IInv


\* A start that fails: what was adopted is journaled, and the rest of the journal forgotten.
LEMMA QuitKeeps ==
    ASSUME IInv, mode = "starting", Waiting(todo) = {}, NEW trs, Quit(trs), SameLength,
           BookOK(trs, venue, entries), DOMAIN trs \subseteq DOMAIN journal,
           \A t \in DOMAIN trs : trs[t].ticket = journal[t].ticket,
           InTime' => \A t \in DOMAIN trs : Agrees(trs[t], venue') \/ Bare(trs[t], venue')
    PROVE  IInv'
<1>1. /\ mode' = "down" /\ journal' = trs /\ trades' = << >> /\ todo' = <<>>
      /\ forgotten' = forgotten \cup {journal[t].ticket : t \in DOMAIN journal \ DOMAIN trs}
      /\ UNCHANGED <<setup, entries>>
  BY DEF Quit
<1>2. /\ entries \in Nat /\ VenueOK(venue, entries) /\ BookOK(journal, venue, entries)
      /\ Len(venue) \in Nat
  BY Typed
<1>3. Onward
  <2>1. entries <= entries
    BY <1>2
  <2> QED
    BY <1>1, <1>2, <2>1 DEF SameLength, Onward
<1>4. TypeInv'
  <2>1. BookOK(trs, venue', entries')
    BY <1>3, OnwardBook
  <2>2. \A t \in DOMAIN journal : journal[t].ticket \in 1..Len(venue)
    BY <1>2, BookFacts
  <2>3. forgotten' \subseteq forgotten \cup 1..Len(venue)
    BY <1>1, <2>2
  <2>4. BookOK(journal', venue', entries') /\ mode' \in {"up", "down", "starting"}
    BY <1>1, <2>1
  <2> QED
    BY <1>3, <2>3, <2>4, OnwardType
<1>5. Held \subseteq Held'
  <2>1. Held = Tickets(journal) \cup forgotten
    BY DEF Held, Books
  <2>2. Waiting(todo') = {}
    BY <1>1 DEF Waiting
  <2>3. Held' = Tickets(trs) \cup forgotten'
    BY <1>1, <2>2 DEF Held, Books
  <2>4. Tickets(journal) \subseteq Tickets(trs) \cup forgotten'
    <3> SUFFICES ASSUME NEW t \in DOMAIN journal PROVE journal[t].ticket \in Tickets(trs) \cup forgotten'
      BY DEF Tickets
    <3>1. CASE t \in DOMAIN trs
      BY <3>1 DEF Tickets
    <3>2. CASE t \notin DOMAIN trs
      BY <1>1, <3>2
    <3> QED
      BY <3>1, <3>2
  <2> QED
    BY <1>1, <2>1, <2>3, <2>4
<1>6. OpenIn(venue') \subseteq OpenIn(venue)
  <2> SUFFICES ASSUME NEW i \in OpenIn(venue') PROVE i \in OpenIn(venue)
    OBVIOUS
  <2>1. VenueOK(venue', entries) /\ GoesOn(venue, venue') /\ Len(venue') = Len(venue)
    BY DEF SameLength
  <2>2. i \in OpenIn(venue) \/ i \in (Len(venue) + 1)..Len(venue')
    BY <1>2, <2>1, OpenKept
  <2> QED
    BY <1>2, <2>1, <2>2
<1>7. Counted'
  BY <1>3, <1>5, <1>6, FewerLeft
<1>8. StartStops'
  BY <1>1 DEF StartStops
<1>9. Tracked' = {}
  BY <1>1 DEF Tracked
<1> QED
  BY <1>1, <1>4, <1>7, <1>8, <1>9 DEF IInv

\* One task of each trade of the journal.
LEMMA AdoptsOK ==
    ASSUME NEW S, IsFiniteSet(S), S \subseteq Nat, NEW c, c = PerTrade("adopt", S) \o <<Stage("flush")>>
    PROVE  StartOK(c, {}, S) /\ \A t \in S : Adopting(t, c)
<1> DEFINE n == Cardinality(S)
           a == PerTrade("adopt", S)
           b == <<Stage("flush")>>
<1>1. n \in Nat
  BY FS_CardinalityType
<1>2. /\ \A k \in 1..n : Ascending(S)[k] \in S
      /\ \A k, l \in 1..n : k /= l => Ascending(S)[k] /= Ascending(S)[l]
      /\ \A i \in S : \E k \in 1..n : Ascending(S)[k] = i
  BY RanksName
<1>3. a = [k \in 1..n |-> a[k]] /\ \A k \in 1..n : a[k] = Task("adopt", Ascending(S)[k], 0)
  BY DEF PerTrade
<1> HIDE DEF n, a
<1>4. IsSeq(a) /\ Len(a) = n
  BY <1>1, <1>3, SeqMade
<1>5. \A k \in 1..n : a[k].op = "adopt" /\ a[k].t = Ascending(S)[k]
  BY <1>3, TaskIs
<1>6. IsSeq(b) /\ Len(b) = 1 /\ b[1].op = "flush"
  <2>1. IsSeq(b) /\ Len(b) = 1 /\ b[1] = Stage("flush")
    BY SeqOne
  <2> QED
    BY <2>1 DEF Stage, Task
<1> HIDE DEF b
<1>7. c = a \o b
  BY DEF a, b
<1>8. /\ IsSeq(c) /\ Len(c) = n + 1
      /\ \A i \in 1..Len(c) : \/ i \in 1..n /\ c[i] = a[i]
                              \/ i - n \in 1..1 /\ c[i] = b[i - n]
  <2>1. IsSeq(a \o b) /\ Len(a \o b) = Len(a) + Len(b)
    BY <1>4, <1>6, SeqConcat
  <2>2. \A i \in 1..Len(a \o b) : \/ i \in 1..Len(a) /\ (a \o b)[i] = a[i]
                                  \/ i - Len(a) \in 1..Len(b) /\ (a \o b)[i] = b[i - Len(a)]
    BY <1>4, <1>6, SeqConcat
  <2> QED
    BY <1>4, <1>6, <1>7, <2>1, <2>2
<1>9. ASSUME NEW i \in 1..Len(c)
      PROVE  \/ i \in 1..n /\ i /= Len(c) /\ c[i].op = "adopt" /\ c[i].t = Ascending(S)[i]
             \/ i = Len(c) /\ c[i].op = "flush"
  <2>1. CASE i \in 1..n /\ c[i] = a[i]
    BY <1>1, <1>5, <1>8, <2>1
  <2>2. CASE i - n \in 1..1 /\ c[i] = b[i - n]
    <3>1. i - n = 1 /\ i = Len(c)
      BY <1>1, <1>8, <2>2
    <3> QED
      BY <1>6, <2>2, <3>1
  <2> QED
    BY <1>8, <2>1, <2>2
<1>10. c /= <<>>
  BY <1>1, <1>8, SeqNone
<1>11. \A i \in 1..Len(c) : /\ c[i].op \in {"repair", "adopt", "flush"}
                            /\ c[i].op /= "repair"
                            /\ c[i].op = "adopt" => c[i].t \in S \ {}
                            /\ c[i].op = "flush" <=> i = Len(c)
  BY <1>2, <1>9
<1>12. \A i, j \in 1..Len(c) : i < j /\ c[j].op = "adopt" => c[i].t /= c[j].t
  <2> SUFFICES ASSUME NEW i \in 1..Len(c), NEW j \in 1..Len(c), i < j, c[j].op = "adopt" PROVE c[i].t /= c[j].t
    OBVIOUS
  <2>1. j \in 1..n /\ c[j].t = Ascending(S)[j]
    BY <1>9
  <2>2. i \in 1..n /\ i /= j /\ i /= Len(c)
    BY <1>1, <1>8, <2>1
  <2>3. c[i].t = Ascending(S)[i]
    BY <1>9, <2>2
  <2> QED
    BY <1>2, <2>1, <2>2, <2>3
<1>13. StartOK(c, {}, S)
  BY <1>8, <1>10, <1>11, <1>12 DEF StartOK
<1>14. ASSUME NEW t \in S PROVE Adopting(t, c)
  <2>1. PICK k \in 1..n : Ascending(S)[k] = t
    BY <1>2
  <2>2. k \in 1..Len(c) /\ k /= Len(c)
    BY <1>1, <1>8
  <2>3. c[k].op = "adopt" /\ c[k].t = t
    BY <1>9, <2>1, <2>2
  <2> QED
    BY <2>2, <2>3 DEF Adopting
<1> QED
  BY <1>13, <1>14

LEMMA ReadKeeps == ASSUME IInv, ReadPositions PROVE IInv'
<1> DEFINE c == PerTrade("adopt", DOMAIN journal) \o <<Stage("flush")>>
<1>1. todo /= <<>> /\ Head(todo).op = "read" /\ mode = "starting"
  <2>1. todo /= <<>> /\ Head(todo).op = "read"
    BY DEF ReadPositions, Doing
  <2> QED
    BY <2>1, AtHead DEF Stages, OfTrade, Calling
<1>2. Waiting(todo) = {}
  BY <1>1 DEF Waiting
<1>3. Tracked = {}
  <2>1. StartInv
    BY <1>1 DEF IInv
  <2>2. ~StartOK(todo, Tracked, DOMAIN journal)
    <3> SUFFICES ASSUME StartOK(todo, Tracked, DOMAIN journal) PROVE FALSE
      OBVIOUS
    <3>1. IsSeq(todo) /\ \A i \in 1..Len(todo) : todo[i].op \in {"repair", "adopt", "flush"}
      BY DEF StartOK
    <3>2. Head(todo) = todo[1] /\ 1 \in 1..Len(todo)
      BY <1>1, <3>1, SeqTail, SeqLen, OneIn
    <3> QED
      BY <1>1, <3>1, <3>2
  <2> QED
    BY <2>1, <2>2 DEF StartInv
<1>4. /\ entries \in Nat /\ VenueOK(venue, entries) /\ BookOK(journal, venue, entries)
      /\ Len(venue) \in Nat
  BY Typed
<1>5. CASE snap' = venue /\ Local(trades, c) /\ UNCHANGED entries
  <2>1. /\ snap' = venue /\ trades' = trades /\ todo' = c
        /\ UNCHANGED <<setup, mode, journal, forgotten>> /\ UNCHANGED <<venue, late, entries, budget>>
    BY <1>5 DEF Local, Step, Goes
  <2>2. IsFiniteSet(DOMAIN journal) /\ DOMAIN journal \subseteq Nat
    BY <1>4, BookFacts
  <2>3. StartOK(c, {}, DOMAIN journal) /\ \A t \in DOMAIN journal : Adopting(t, c)
    BY <2>2, AdoptsOK
  <2>4. Spends /\ Onward
    <3>1. Spends
      BY <2>1, SpendNone
    <3> QED
      BY <2>1, <3>1, StillOnward
  <2>5. TypeInv'
    <3>1. /\ BookOK(journal', venue', entries') /\ mode' \in {"up", "down", "starting"}
          /\ forgotten' \subseteq forgotten \cup 1..Len(venue)
      BY <1>1, <1>4, <2>1
    <3> QED
      BY <2>4, <3>1, OnwardType
  <2> HIDE DEF c
  <2>6. c /= <<>> /\ Head(c).op \in {"repair", "adopt", "flush"}
    <3>1. c /= <<>> /\ IsSeq(c) /\ \A i \in 1..Len(c) : c[i].op \in {"repair", "adopt", "flush"}
      BY <2>3 DEF StartOK
    <3>2. Head(c) = c[1] /\ 1 \in 1..Len(c)
      BY <3>1, SeqTail, SeqLen, OneIn
    <3> QED
      BY <3>1, <3>2
  <2>7. Held' = Held
    <3>1. Waiting(todo') = {}
      BY <2>1, <2>6 DEF Waiting
    <3> QED
      BY <1>2, <2>1, <3>1 DEF Held, Books
  <2>8. Counted'
    BY <2>1, <2>4, <2>7, FewerLeft
  <2>9. StartInv'
    <3>1. Snapped'
      <4>1. GoesOn(venue, venue)
        BY <1>4, GoesSame
      <4>2. /\ \A t \in DOMAIN journal : journal[t].ticket \in 1..Len(venue)
            /\ \A i \in 1..Len(venue) : venue[i].qty \in Nat
        BY <1>4, BookFacts, VenueFacts
      <4> QED
        BY <1>4, <2>1, <4>1, <4>2 DEF Snapped
    <3>2. BookOK(trades', venue', entries')
      BY <1>3, <2>1 DEF BookOK, Tracked
    <3>3. Tracked' = {}
      BY <1>3, <2>1 DEF Tracked
    <3> QED
      BY <2>1, <2>3, <3>1, <3>2, <3>3 DEF StartInv
  <2>10. StartStops'
    <3> SUFFICES ASSUME InTime', NEW t \in DOMAIN journal PROVE Agrees(journal[t], venue) \/ Bare(journal[t], venue)
      BY <1>3, <2>1 DEF StartStops, Tracked
    <3>1. InTime
      BY <2>1, <2>4, SpentGrows
    <3> QED
      BY <1>1, <3>1 DEF IInv, StartStops
  <2> QED
    BY <1>1, <2>1, <2>5, <2>8, <2>9, <2>10 DEF IInv
<1>6. CASE Unread(Quit(trades), Quit(trades))
  <2>1. UNCHANGED <<venue, late>> /\ Spends /\ Quit(trades)
    <3>1. Unread(TRUE, TRUE) /\ Quit(trades)
      BY <1>6 DEF Unread
    <3> QED
      BY <3>1, UnreadIs
  <2>2. SameLength
    BY <2>1, SamePlace
  <2> DEFINE trs == trades
  <2>3. DOMAIN trs = {}
    BY <1>3 DEF Tracked
  <2>4. Quit(trs)
    BY <2>1
  <2> HIDE DEF trs
  <2>5. BookOK(trs, venue, entries)
    BY <2>3 DEF BookOK
  <2> QED
    BY <1>1, <1>2, <2>2, <2>3, <2>4, <2>5, QuitKeeps
<1> QED
  BY <1>5, <1>6 DEF ReadPositions

\* The rest of a restart: the same trades left to adopt, but the first.
LEMMA StartRest ==
    ASSUME NEW s, NEW ids, NEW old, StartOK(s, ids, old), Head(s).op /= "flush",
           NEW others, others = ids \cup (IF Head(s).op = "adopt" THEN {Head(s).t} ELSE {}) \/ others = ids
    PROVE  /\ IsSeq(s) /\ Head(s).op \in {"repair", "adopt"}
           /\ Head(s).op = "adopt" => Head(s).t \in old \ ids
           /\ Head(s).op = "repair" => Head(s).t \in ids
           /\ StartOK(Tail(s), others, old) /\ Head(Tail(s)).op \in {"adopt", "flush"}
           /\ \A t : Adopting(t, s) => Adopting(t, Tail(s)) \/ (Head(s).op = "adopt" /\ t = Head(s).t)
<1>1. /\ IsSeq(s) /\ s /= <<>>
      /\ \A i \in 1..Len(s) :
             /\ s[i].op \in {"repair", "adopt", "flush"}
             /\ s[i].op = "repair" => i = 1 /\ s[i].t \in ids
             /\ s[i].op = "adopt" => s[i].t \in old \ ids
             /\ s[i].op = "flush" <=> i = Len(s)
      /\ \A i, j \in 1..Len(s) : i < j /\ s[j].op = "adopt" => s[i].t /= s[j].t
  BY DEF StartOK
<1> DEFINE r == Tail(s)
<1>2. Len(s) \in Nat /\ 1 \in 1..Len(s) /\ Head(s) = s[1]
  BY <1>1, SeqTail, SeqLen, OneIn
<1>3. /\ IsSeq(r) /\ Len(r) = Len(s) - 1 /\ \A i \in 1..Len(r) : i + 1 \in 1..Len(s) /\ r[i] = s[i + 1]
  BY <1>1, SeqTail
<1> HIDE DEF r
<1>4. /\ Head(s).op \in {"repair", "adopt"} /\ (Head(s).op = "adopt" => Head(s).t \in old \ ids)
      /\ (Head(s).op = "repair" => Head(s).t \in ids)
  BY <1>1, <1>2
<1>5. Len(s) > 1 /\ Len(r) \in Nat /\ Len(r) > 0
  <2>1. Len(s) /= 1
    BY <1>1, <1>2
  <2> QED
    BY <1>2, <1>3, <2>1
<1>6. ASSUME NEW i \in 1..Len(r)
      PROVE  /\ r[i].op \in {"adopt", "flush"}
             /\ r[i].op = "adopt" => r[i].t \in old \ others
             /\ r[i].op = "flush" <=> i = Len(r)
  <2>1. i + 1 \in 1..Len(s) /\ r[i] = s[i + 1] /\ i + 1 /= 1 /\ 1 < i + 1
    BY <1>3, <1>5
  <2>2. s[i + 1].op \in {"adopt", "flush"} /\ (s[i + 1].op = "flush" <=> i + 1 = Len(s))
    BY <1>1, <2>1
  <2>3. s[i + 1].op = "adopt" => s[i + 1].t \in old \ ids /\ s[i + 1].t /= s[1].t
    BY <1>1, <1>2, <2>1
  <2>4. i + 1 = Len(s) <=> i = Len(r)
    BY <1>2, <1>3, <1>5
  <2> QED
    BY <1>2, <2>1, <2>2, <2>3, <2>4
<1>7. \A i, j \in 1..Len(r) : i < j /\ r[j].op = "adopt" => r[i].t /= r[j].t
  <2> SUFFICES ASSUME NEW i \in 1..Len(r), NEW j \in 1..Len(r), i < j, r[j].op = "adopt" PROVE r[i].t /= r[j].t
    OBVIOUS
  <2>1. i + 1 \in 1..Len(s) /\ j + 1 \in 1..Len(s) /\ i + 1 < j + 1 /\ r[i] = s[i + 1] /\ r[j] = s[j + 1]
    BY <1>3
  <2> QED
    BY <1>1, <2>1
<1>8. r /= <<>>
  BY <1>5, SeqNone
<1>9. StartOK(r, others, old)
  <2>1. \A i \in 1..Len(r) : r[i].op \in {"repair", "adopt", "flush"} /\ r[i].op /= "repair"
    BY <1>6
  <2> QED
    BY <1>3, <1>6, <1>7, <1>8, <2>1 DEF StartOK
<1>10. Head(r).op \in {"adopt", "flush"}
  <2>1. Head(r) = r[1] /\ 1 \in 1..Len(r)
    BY <1>3, <1>5, <1>8, SeqTail, OneIn
  <2> QED
    BY <1>6, <2>1
<1>11. ASSUME NEW t, Adopting(t, s) PROVE Adopting(t, r) \/ (Head(s).op = "adopt" /\ t = Head(s).t)
  <2>1. PICK i \in 1..Len(s) : s[i].op = "adopt" /\ s[i].t = t
    BY <1>11 DEF Adopting
  <2>2. CASE i = 1
    BY <1>2, <2>1, <2>2
  <2>3. CASE i /= 1
    <3>1. i - 1 \in 1..Len(r) /\ (i - 1) + 1 = i
      BY <1>2, <1>3, <2>3
    <3>2. r[i - 1] = s[i]
      BY <1>3, <3>1
    <3> QED
      BY <2>1, <3>1, <3>2 DEF Adopting
  <2> QED
    BY <2>2, <2>3
<1> QED
  BY <1>1, <1>4, <1>9, <1>10, <1>11 DEF r


LEMMA SeqCons ==
    ASSUME NEW s, IsSeq(s), NEW d
    PROVE  /\ IsSeq(<<d>> \o s) /\ Len(<<d>> \o s) = Len(s) + 1
           /\ \A i \in 1..Len(<<d>> \o s) :
                  \/ i \in 1..1 /\ (<<d>> \o s)[i] = d
                  \/ i - 1 \in 1..Len(s) /\ (<<d>> \o s)[i] = s[i - 1]
<1> DEFINE b == <<d>>
           e == b \o s
<1>1. IsSeq(b) /\ Len(b) = 1 /\ b[1] = d
  BY SeqOne
<1> HIDE DEF b
<1>2. /\ IsSeq(e) /\ Len(e) = Len(b) + Len(s)
      /\ \A i \in 1..Len(e) : \/ i \in 1..Len(b) /\ e[i] = b[i]
                              \/ i - Len(b) \in 1..Len(s) /\ e[i] = s[i - Len(b)]
  BY <1>1, SeqConcat
<1>3. Len(s) \in Nat
  BY SeqLen
<1> HIDE DEF e
<1>4. /\ IsSeq(e) /\ Len(e) = Len(s) + 1
      /\ \A i \in 1..Len(e) : \/ i \in 1..1 /\ e[i] = d
                              \/ i - 1 \in 1..Len(s) /\ e[i] = s[i - 1]
  BY <1>1, <1>2, <1>3
<1> QED
  BY <1>4, Zenon DEF e, b

LEMMA StartMore ==
    ASSUME NEW s, NEW ids, NEW old, StartOK(s, ids, old), Head(s).op \in {"adopt", "flush"},
           NEW d, d.op = "repair", d.t \in ids
    PROVE  /\ StartOK(<<d>> \o s, ids, old) /\ Head(<<d>> \o s) = d
           /\ \A t : Adopting(t, s) => Adopting(t, <<d>> \o s)
<1> DEFINE c == <<d>> \o s
<1>1. /\ IsSeq(s) /\ s /= <<>>
      /\ \A i \in 1..Len(s) :
             /\ s[i].op \in {"repair", "adopt", "flush"}
             /\ s[i].op = "repair" => i = 1 /\ s[i].t \in ids
             /\ s[i].op = "adopt" => s[i].t \in old \ ids
             /\ s[i].op = "flush" <=> i = Len(s)
      /\ \A i, j \in 1..Len(s) : i < j /\ s[j].op = "adopt" => s[i].t /= s[j].t
  BY DEF StartOK
<1>2. Len(s) \in Nat /\ 1 \in 1..Len(s) /\ Head(s) = s[1]
  BY <1>1, SeqTail, SeqLen, OneIn
<1>3. IsSeq(s)
  BY <1>1
<1>5. /\ IsSeq(c) /\ Len(c) = Len(s) + 1
      /\ \A i \in 1..Len(c) : \/ i \in 1..1 /\ c[i] = d
                              \/ i - 1 \in 1..Len(s) /\ c[i] = s[i - 1]
  BY <1>3, SeqCons, Zenon
<1> HIDE DEF c
<1>6. \A i \in 1..Len(c) : \/ i = 1 /\ c[i] = d
                           \/ i > 1 /\ i - 1 \in 1..Len(s) /\ c[i] = s[i - 1]
  <2> TAKE i \in 1..Len(c)
  <2>1. CASE i \in 1..1 /\ c[i] = d
    BY <2>1
  <2>2. CASE i - 1 \in 1..Len(s) /\ c[i] = s[i - 1]
    BY <1>2, <2>2
  <2> QED
    BY <1>5, <2>1, <2>2
<1>7. 1 \in 1..Len(c) /\ c[1] = d /\ c /= <<>>
  <2>1. 1 \in 1..Len(c)
    BY <1>2, <1>5
  <2>2. c /= <<>>
    BY <1>2, <1>5, SeqNone
  <2> QED
    BY <1>6, <2>1, <2>2
<1>8. ASSUME NEW i \in 1..Len(s) PROVE i + 1 \in 1..Len(c) /\ c[i + 1] = s[i]
  <2>1. i + 1 \in 1..Len(c) /\ i + 1 /= 1 /\ (i + 1) - 1 = i
    BY <1>2, <1>5
  <2> QED
    BY <1>6, <2>1
<1>9. \A i \in 1..Len(s) : s[i].op /= "repair"
  BY <1>1, <1>2
<1>10. ASSUME NEW i \in 1..Len(c)
       PROVE  /\ c[i].op \in {"repair", "adopt", "flush"}
              /\ c[i].op = "repair" => i = 1 /\ c[i].t \in ids
              /\ c[i].op = "adopt" => c[i].t \in old \ ids
              /\ c[i].op = "flush" <=> i = Len(c)
  <2>1. CASE i = 1 /\ c[i] = d
    <3>1. i /= Len(c)
      BY <1>2, <1>5, <2>1
    <3> QED
      BY <2>1, <3>1
  <2>2. CASE i > 1 /\ i - 1 \in 1..Len(s) /\ c[i] = s[i - 1]
    <3>1. i - 1 = Len(s) <=> i = Len(c)
      BY <1>2, <1>5
    <3> QED
      BY <1>1, <1>9, <2>2, <3>1
  <2> QED
    BY <1>6, <2>1, <2>2
<1>11. \A i, j \in 1..Len(c) : i < j /\ c[j].op = "adopt" => c[i].t /= c[j].t
  <2> SUFFICES ASSUME NEW i \in 1..Len(c), NEW j \in 1..Len(c), i < j, c[j].op = "adopt" PROVE c[i].t /= c[j].t
    OBVIOUS
  <2>1. j > 1
    BY <1>5
  <2>2. j - 1 \in 1..Len(s) /\ c[j] = s[j - 1]
    BY <1>6, <2>1
  <2>3. CASE i = 1
    <3>1. c[j].t \in old \ ids
      BY <1>10
    <3> QED
      BY <1>7, <2>3, <3>1
  <2>4. CASE i /= 1
    <3>1. i - 1 \in 1..Len(s) /\ c[i] = s[i - 1] /\ i - 1 < j - 1
      BY <1>6, <2>4
    <3> QED
      BY <1>1, <2>2, <3>1
  <2> QED
    BY <2>3, <2>4
<1>12. StartOK(c, ids, old)
  BY <1>5, <1>7, <1>10, <1>11 DEF StartOK
<1>13. Head(c) = d
  BY <1>5, <1>7, SeqTail
<1>14. ASSUME NEW t, Adopting(t, s) PROVE Adopting(t, c)
  BY <1>8, <1>14 DEF Adopting
<1> QED
  BY <1>12, <1>13, <1>14, Zenon DEF c

LEMMA StartOne ==
    ASSUME NEW s, NEW ids, NEW old, StartOK(s, ids, old), Head(s).op \in {"adopt", "flush"},
           NEW d, d.op = "repair", d.t \in ids, NEW c, c = <<d>> \o s
    PROVE  /\ StartOK(c, ids, old) /\ Head(c) = d
           /\ \A t : Adopting(t, s) => Adopting(t, c)
  BY StartMore

\* A step of a restart.
LEMMA StartKeeps ==
    ASSUME IInv, mode = "starting", todo /= <<>>, Head(todo).op /= "read",
           UNCHANGED <<setup, mode, journal, snap, entries, forgotten>>, Onward, OpenIn(venue') \subseteq OpenIn(venue),
           StartOK(todo', Tracked', DOMAIN journal), BookOK(trades', venue', entries),
           Tracked' \subseteq DOMAIN journal,
           \A t \in Tracked' : journal[t].ticket = trades'[t].ticket /\ journal[t].sl = trades'[t].sl,
           \A t \in DOMAIN journal :
               t \in Tracked' \/ Adopting(t, todo') \/ snap[journal[t].ticket].qty = 0,
           InTime' =>
               /\ \A t \in DOMAIN journal : Agrees(journal[t], venue') \/ Bare(journal[t], venue')
               /\ \A t \in Tracked' : Agrees(trades'[t], venue') \/ (Repaired(t, todo') /\ Bare(trades'[t], venue'))
               /\ \A t \in DOMAIN journal \ Tracked' :
                      venue'[journal[t].ticket].sl = snap[journal[t].ticket].sl
    PROVE  IInv'
<1>1. BookOK(journal, venue, entries)
  BY Typed
<1>2. TypeInv'
  <2>1. /\ BookOK(journal', venue', entries') /\ mode' \in {"up", "down", "starting"}
        /\ forgotten' \subseteq forgotten \cup 1..Len(venue)
    BY <1>1, OnwardBook
  <2> QED
    BY <2>1, OnwardType
<1>3. Held = Tickets(journal) \cup forgotten /\ Held' = Tickets(journal) \cup forgotten
  <2>1. Waiting(todo) = {}
    BY AtStart
  <2>2. IsSeq(todo') /\ todo' /= <<>> /\ \A i \in 1..Len(todo') : todo'[i].op \in {"repair", "adopt", "flush"}
    BY DEF StartOK
  <2>3. Head(todo') = todo'[1] /\ 1 \in 1..Len(todo')
    BY <2>2, SeqTail, SeqLen, OneIn
  <2>4. Waiting(todo') = {}
    BY <2>2, <2>3 DEF Waiting
  <2> QED
    BY <2>1, <2>4 DEF Held, Books
<1>4. Counted'
  <2>1. OpenIn(venue') \ Held' \subseteq OpenIn(venue) \ Held
    BY <1>3
  <2> QED
    BY <2>1, FewerLeft
<1>5. Snapped'
  <2>1. /\ GoesOn(snap, venue) /\ Len(snap) \in Nat /\ \A i \in 1..Len(snap) : snap[i].qty \in Nat
        /\ \A t \in DOMAIN journal : journal[t].ticket \in 1..Len(snap)
    BY AtStart DEF Snapped
  <2>2. GoesOn(snap, venue')
    <3>1. VenueOK(venue, entries) /\ VenueOK(venue', entries) /\ GoesOn(venue, venue')
      BY Typed DEF Onward
    <3>2. Len(venue) \in Nat /\ \A i \in 1..Len(venue) : venue[i].qty \in Nat
      BY <3>1, VenueFacts
    <3>3. Len(venue') \in Nat /\ \A i \in 1..Len(venue') : venue'[i].qty \in Nat
      BY <3>1, VenueFacts
    <3> QED
      BY <2>1, <3>1, <3>2, <3>3, GoesFurther
  <2> QED
    BY <2>1, <2>2 DEF Snapped
<1>6. StartInv'
  BY <1>2, <1>5 DEF StartInv
<1>7. StartStops'
  BY DEF StartStops
<1> QED
  BY <1>2, <1>4, <1>6, <1>7 DEF IInv


LEMMA AdoptKeeps == ASSUME IInv, Adopt PROVE IInv'
<1> DEFINE r == journal[It]
           k == r.ticket
           p == snap[k]
           x == [r EXCEPT !.size = Lower(r.size, p.qty)]
           d == Task("repair", It, p.sl)
           ids == Tracked \cup {It}
<1>1. /\ Doing("adopt") /\ UNCHANGED <<venue, late>>
      /\ \/ /\ UNCHANGED <<setup, mode, journal, snap, entries, budget, forgotten>>
            /\ \/ p.qty = 0 /\ trades' = trades /\ todo' = Rest
               \/ p.qty /= 0 /\ trades' = Also(It, x) /\ todo' = <<d>> \o Rest
         \/ Spend("lose") /\ Quit(Also(It, r))
  BY DEF Adopt, Local, Step, Goes
<1>2. todo /= <<>> /\ Head(todo).op = "adopt" /\ mode = "starting" /\ It = Head(todo).t
  <2>1. todo /= <<>> /\ Head(todo).op = "adopt"
    BY <1>1 DEF Doing
  <2> QED
    BY <2>1, AtHead DEF Stages, OfTrade, Calling, It
<1>3. /\ StartOK(todo, Tracked, DOMAIN journal) /\ Snapped
      /\ BookOK(trades, venue, entries) /\ Tracked = DOMAIN trades /\ Tracked \subseteq DOMAIN journal
      /\ \A t \in Tracked : journal[t].ticket = trades[t].ticket /\ journal[t].sl = trades[t].sl
      /\ \A t \in DOMAIN journal :
             t \in Tracked \/ Adopting(t, todo) \/ snap[journal[t].ticket].qty = 0
  BY <1>2, AtStart
<1>4. /\ InTime => /\ \A t \in DOMAIN journal : Agrees(journal[t], venue) \/ Bare(journal[t], venue)
                   /\ \A t \in Tracked : Agrees(trades[t], venue)
                   /\ \A t \in DOMAIN journal \ Tracked :
                          venue[journal[t].ticket].sl = snap[journal[t].ticket].sl
  <2>1. \A t : ~Repaired(t, todo)
    BY <1>2 DEF Repaired
  <2> QED
    BY <1>2, <2>1, AtStart
<1>5. /\ It \in DOMAIN journal \ Tracked
      /\ \A t : Adopting(t, todo) => Adopting(t, Rest) \/ t = It
      /\ Head(Rest).op \in {"adopt", "flush"}
      /\ StartOK(Rest, Tracked, DOMAIN journal) /\ StartOK(Rest, ids, DOMAIN journal)
  <2> DEFINE old == DOMAIN journal
             one == Tracked
  <2>1. Head(todo).op /= "flush" /\ Head(todo).op = "adopt" /\ StartOK(todo, Tracked, old)
    BY <1>2, <1>3
  <2>2. one = Tracked /\ ids = Tracked \cup (IF Head(todo).op = "adopt" THEN {Head(todo).t} ELSE {})
    BY <1>2
  <2> HIDE DEF ids, old, one
  <2>3. Head(todo).t \in old \ Tracked
    BY <2>1, <2>2, StartRest
  <2>4. \A t : Adopting(t, todo) => Adopting(t, Tail(todo)) \/ t = Head(todo).t
    BY <2>1, <2>2, StartRest
  <2>5. Head(Tail(todo)).op \in {"adopt", "flush"}
    BY <2>1, <2>2, StartRest
  <2>6. StartOK(Tail(todo), one, old)
    BY <2>1, <2>2, StartRest
  <2>7. StartOK(Tail(todo), ids, old)
    BY <2>1, <2>2, StartRest
  <2> QED
    BY <1>2, <2>2, <2>3, <2>4, <2>5, <2>6, <2>7 DEF Rest, old
<1>6. ASSUME UNCHANGED <<setup, mode, journal, snap, entries, budget, forgotten>>
      PROVE  /\ Onward /\ (InTime' => InTime)
             /\ UNCHANGED <<setup, mode, journal, snap, entries, budget, forgotten>>
  <2>1. Spends
    BY <1>6, SpendNone
  <2> QED
    BY <1>1, <1>6, <2>1, StillOnward, SpentGrows
<1>8. CASE UNCHANGED <<setup, mode, journal, snap, entries, budget, forgotten>> /\ p.qty = 0 /\ trades' = trades /\ todo' = Rest
  <2>0. /\ Onward /\ (InTime' => InTime)
        /\ UNCHANGED <<setup, mode, journal, snap, entries, budget, forgotten>>
    BY <1>6, <1>8
  <2>1. Tracked' = Tracked
    BY <1>8 DEF Tracked
  <2>2. \A t \in DOMAIN journal : t \in Tracked \/ Adopting(t, Rest) \/ snap[journal[t].ticket].qty = 0
    BY <1>3, <1>5, <1>8
  <2>3. /\ StartOK(todo', Tracked', DOMAIN journal) /\ BookOK(trades', venue', entries)
        /\ OpenIn(venue') \subseteq OpenIn(venue) /\ Tracked' \subseteq DOMAIN journal
    BY <1>1, <1>3, <1>5, <1>8, <2>0, <2>1
  <2>4. \A t \in Tracked' : journal[t].ticket = trades'[t].ticket /\ journal[t].sl = trades'[t].sl
    BY <1>3, <1>8, <2>1
  <2>5. InTime' =>
            /\ \A t \in DOMAIN journal : Agrees(journal[t], venue') \/ Bare(journal[t], venue')
            /\ \A t \in Tracked' : Agrees(trades'[t], venue') \/ (Repaired(t, todo') /\ Bare(trades'[t], venue'))
            /\ \A t \in DOMAIN journal \ Tracked' :
                   venue'[journal[t].ticket].sl = snap[journal[t].ticket].sl
    BY <1>1, <1>4, <1>8, <2>0, <2>1
  <2>6. \A t \in DOMAIN journal : t \in Tracked' \/ Adopting(t, todo') \/ snap[journal[t].ticket].qty = 0
    BY <1>8, <2>1, <2>2
  <2> QED
    BY <1>2, <2>0, <2>3, <2>4, <2>5, <2>6, StartKeeps
<1>9. CASE UNCHANGED <<setup, mode, journal, snap, entries, budget, forgotten>> /\ p.qty /= 0 /\ trades' = Also(It, x) /\ todo' = <<d>> \o Rest
  <2>0. /\ Onward /\ (InTime' => InTime)
        /\ UNCHANGED <<setup, mode, journal, snap, entries, budget, forgotten>>
    BY <1>6, <1>9
  <2>1. /\ BookOK(journal, venue, entries) /\ entries \in Nat /\ VenueOK(venue, entries)
        /\ TradeOK(r, It, venue) /\ k \in 1..Len(venue) /\ It \in 1..entries
    <3>1. BookOK(journal, venue, entries) /\ entries \in Nat /\ VenueOK(venue, entries)
      BY Typed
    <3>2. TradeOK(r, It, venue) /\ It \in 1..entries
      BY <1>5, <3>1 DEF BookOK
    <3> QED
      BY <3>1, <3>2 DEF TradeOK
  <2>2. k \in 1..Len(snap) /\ p.qty \in Nat /\ venue[k].qty <= p.qty
    BY <1>3, <1>5 DEF Snapped, GoesOn
  <2>3. TradeOK(x, It, venue) /\ x.ticket = k /\ x.sl = r.sl /\ x.pending = r.pending /\ x.unsure = r.unsure
    <3> DEFINE n == p.qty
               t == It
    <3>1. x = [r EXCEPT !.size = Lower(r.size, n)] /\ n \in Nat /\ venue[r.ticket].qty <= n
      BY <2>2
    <3>2. TradeOK(r, t, venue)
      BY <2>1
    <3> HIDE DEF x, n, t, r
    <3>3. TradeOK(x, t, venue)
      BY <3>1, <3>2, SmallerIs
    <3>4. x.ticket = r.ticket
      BY <3>1, <3>2, SmallerIs
    <3>5. x.sl = r.sl
      BY <3>1, <3>2, SmallerIs
    <3>6. x.pending = r.pending /\ x.unsure = r.unsure
      BY <3>1, <3>2, SmallerIs
    <3> QED
      BY <3>3, <3>4, <3>5, <3>6 DEF t
  <2> HIDE DEF x
  <2>4. DOMAIN trades' = ids /\ trades'[It] = x /\ \A u \in Tracked : trades'[u] = trades[u]
    <3> DEFINE other == Also(It, x)
               t == It
    <3>1. trades' = other
      BY <1>9
    <3>2. other = Also(t, x)
      OBVIOUS
    <3> HIDE DEF other, t, r, k, p
    <3>3. DOMAIN other = Tracked \cup {t} /\ other[t] = x
      BY <3>2, AlsoIs
    <3>4. \A u \in Tracked : u /= t => other[u] = trades[u]
      BY <3>2 DEF Also
    <3> QED
      BY <1>5, <3>1, <3>3, <3>4 DEF t
  <2>5. d.op = "repair" /\ d.t = It /\ d.arg = p.sl
    BY DEF Task
  <2> HIDE DEF d
  <2> DEFINE c == <<d>> \o Rest
  <2>6. StartOK(c, ids, DOMAIN journal) /\ Head(c) = d /\ \A t : Adopting(t, Rest) => Adopting(t, c)
    <3> DEFINE s == Rest
               old == DOMAIN journal
    <3>1. StartOK(s, ids, old) /\ Head(s).op \in {"adopt", "flush"} /\ d.t \in ids /\ c = <<d>> \o s
      BY <1>5, <2>5
    <3> HIDE DEF ids, c, s, old
    <3>2. StartOK(c, ids, old)
      BY <2>5, <3>1, StartOne
    <3>3. Head(c) = d
      BY <2>5, <3>1, StartOne
    <3>4. \A t : Adopting(t, s) => Adopting(t, c)
      BY <2>5, <3>1, StartOne
    <3> QED
      BY <3>2, <3>3, <3>4 DEF s, old
  <2> HIDE DEF c
  <2>7. todo' = c /\ Tracked' = ids
    BY <1>9, <2>4 DEF c, Tracked
  <2>8. BookOK(trades', venue', entries)
    <3>1. \A t \in ids : TradeOK(trades'[t], t, venue) /\ t \in 1..entries
      BY <1>3, <2>1, <2>3, <2>4 DEF BookOK
    <3> QED
      BY <1>1, <2>4, <3>1 DEF BookOK
  <2>9. ids \subseteq DOMAIN journal
    BY <1>3, <1>5
  <2>10. \A t \in ids : journal[t].ticket = trades'[t].ticket /\ journal[t].sl = trades'[t].sl
    BY <1>3, <2>3, <2>4
  <2>11. \A t \in DOMAIN journal : t \in ids \/ Adopting(t, c) \/ snap[journal[t].ticket].qty = 0
    BY <1>3, <1>5, <2>6
  <2>12. ASSUME InTime', NEW t \in ids 
         PROVE  Agrees(trades'[t], venue) \/ (Repaired(t, c) /\ Bare(trades'[t], venue))
    <3>1. CASE t \in Tracked
      BY <1>4, <2>0, <2>4, <2>12, <3>1
    <3>2. CASE t = It
      <4>1. Agrees(r, venue) \/ Bare(r, venue)
        BY <1>4, <1>5, <2>0, <2>12
      <4>2. CASE Agrees(r, venue)
        BY <2>3, <2>4, <3>2, <4>2 DEF Agrees
      <4>3. CASE Bare(r, venue)
        <5>1. venue[k].sl = p.sl
          BY <1>4, <1>5, <2>0, <2>12
        <5>2. d.arg = NoStop
          BY <2>5, <4>3, <5>1 DEF Bare
        <5>3. c /= <<>>
          BY <2>6 DEF StartOK
        <5>4. Bare(x, venue)
          BY <2>3, <4>3 DEF Bare
        <5> QED
          BY <2>4, <2>5, <2>6, <3>2, <5>2, <5>3, <5>4 DEF Repaired
      <4> QED
        BY <4>1, <4>2, <4>3
    <3> QED
      BY <3>1, <3>2
  <2>13. InTime' =>
            /\ \A t \in DOMAIN journal : Agrees(journal[t], venue') \/ Bare(journal[t], venue')
            /\ \A t \in Tracked' : Agrees(trades'[t], venue') \/ (Repaired(t, todo') /\ Bare(trades'[t], venue'))
            /\ \A t \in DOMAIN journal \ Tracked' :
                   venue'[journal[t].ticket].sl = snap[journal[t].ticket].sl
    <3>1. venue' = venue
      BY <1>1
    <3> HIDE DEF r, k, p
    <3>2. ASSUME NEW t \in DOMAIN journal \ ids PROVE t \in DOMAIN journal \ Tracked
      OBVIOUS
    <3> QED
      BY <1>4, <2>0, <2>7, <2>12, <3>1, <3>2
  <2>14. /\ StartOK(todo', Tracked', DOMAIN journal) /\ OpenIn(venue') \subseteq OpenIn(venue)
         /\ Tracked' \subseteq DOMAIN journal
         /\ \A t \in Tracked' : journal[t].ticket = trades'[t].ticket /\ journal[t].sl = trades'[t].sl
         /\ \A t \in DOMAIN journal : t \in Tracked' \/ Adopting(t, todo') \/ snap[journal[t].ticket].qty = 0
    BY <1>1, <2>6, <2>7, <2>9, <2>10, <2>11
  <2> HIDE DEF r, k, p, ids
  <2> QED
    BY <1>2, <2>0, <2>8, <2>13, <2>14, StartKeeps
<1>10. CASE Spend("lose") /\ Quit(Also(It, r))
  <2>1. Spends /\ Waiting(todo) = {}
    BY <1>2, <1>10, SpendIs DEF Fault, Waiting
  <2>2. SameLength
    BY <1>1, <2>1, SamePlace
  <2>3. InTime' => InTime
    BY <1>10, <2>1, SpentGrows DEF Quit
  <2>4. BookOK(journal, venue, entries) /\ TradeOK(r, It, venue) /\ It \in 1..entries
    <3>1. BookOK(journal, venue, entries)
      BY Typed
    <3> QED
      BY <1>5, <3>1 DEF BookOK
  <2> DEFINE trs == Also(It, r)
             t == It
  <2>5. Quit(trs)
    BY <1>10
  <2>6. trs = Also(t, r)
    OBVIOUS
  <2>7. DOMAIN trs = Tracked \cup {t} /\ trs[t] = r /\ \A u \in Tracked : u /= t => trs[u] = trades[u]
    <3> HIDE DEF trs, t, r
    <3>1. DOMAIN trs = Tracked \cup {t} /\ trs[t] = r
      BY <2>6, AlsoIs
    <3> QED
      BY <2>6, <3>1 DEF Also
  <2>8. t \in DOMAIN journal \ Tracked /\ r = journal[t] /\ TradeOK(r, t, venue) /\ t \in 1..entries
    BY <1>5, <2>4
  <2> HIDE DEF trs, t, r, k, p
  <2>9. BookOK(trs, venue, entries) /\ DOMAIN trs \subseteq DOMAIN journal
    BY <1>3, <2>7, <2>8 DEF BookOK
  <2>10. \A u \in DOMAIN trs : trs[u].ticket = journal[u].ticket
    BY <1>3, <2>7, <2>8
  <2>11. InTime' => \A u \in DOMAIN trs : Agrees(trs[u], venue') \/ Bare(trs[u], venue')
    BY <1>1, <1>4, <2>3, <2>7, <2>8
  <2> QED
    BY <1>2, <2>1, <2>2, <2>5, <2>9, <2>10, <2>11, QuitKeeps
<1> QED
  BY <1>1, <1>8, <1>9, <1>10

LEMMA RepairKeeps == ASSUME IInv, RepairStop PROVE IInv'
<1> DEFINE r == trades[It]
           k == r.ticket
           x == [r EXCEPT !.pending = TRUE]
           q == ModifyRequest(k, r.sl)
<1>1. /\ Doing("repair")
      /\ \/ Arg = NoStop /\ Call(q, Step(trades, Rest) /\ UNCHANGED <<snap, entries>>,
                                    Step(With(It, x), Rest) /\ UNCHANGED <<snap, entries>>,
                                    Step(With(It, x), Rest) /\ UNCHANGED <<snap, entries>>,
                                    Quit(trades))
         \/ Arg /= NoStop /\ Local(trades, Rest) /\ UNCHANGED <<snap, entries>>
  BY DEF RepairStop
<1>2. todo /= <<>> /\ Head(todo).op = "repair" /\ mode = "starting" /\ It = Head(todo).t
  <2>1. todo /= <<>> /\ Head(todo).op = "repair"
    BY <1>1 DEF Doing
  <2> QED
    BY <2>1, AtHead DEF Stages, OfTrade, Calling, It
<1>3. /\ StartOK(todo, Tracked, DOMAIN journal) /\ Snapped
      /\ BookOK(trades, venue, entries) /\ Tracked = DOMAIN trades /\ Tracked \subseteq DOMAIN journal
      /\ \A t \in Tracked : journal[t].ticket = trades[t].ticket /\ journal[t].sl = trades[t].sl
      /\ \A t \in DOMAIN journal :
             t \in Tracked \/ Adopting(t, todo) \/ snap[journal[t].ticket].qty = 0
  BY <1>2, AtStart
<1>4. /\ InTime => /\ \A t \in DOMAIN journal : Agrees(journal[t], venue) \/ Bare(journal[t], venue)
                   /\ \A t \in Tracked : Agrees(trades[t], venue) \/ (t = It /\ Arg = NoStop /\ Bare(trades[t], venue))
                   /\ \A t \in DOMAIN journal \ Tracked :
                          venue[journal[t].ticket].sl = snap[journal[t].ticket].sl
  <2>1. \A t : Repaired(t, todo) => t = It /\ Arg = NoStop
    BY <1>2 DEF Repaired, Arg
  <2> QED
    BY <1>2, <2>1, AtStart
<1>5. /\ It \in Tracked
      /\ \A t : Adopting(t, todo) => Adopting(t, Rest)
      /\ StartOK(Rest, Tracked, DOMAIN journal)
  <2> DEFINE old == DOMAIN journal
             one == Tracked
  <2>1. Head(todo).op /= "flush" /\ Head(todo).op = "repair" /\ StartOK(todo, Tracked, old)
    BY <1>2, <1>3
  <2>2. one = Tracked
    OBVIOUS
  <2> HIDE DEF old, one
  <2>3. Head(todo).t \in Tracked
    BY <2>1, <2>2, StartRest
  <2>4. \A t : Adopting(t, todo) => Adopting(t, Tail(todo))
    BY <2>1, <2>2, StartRest
  <2>6. StartOK(Tail(todo), one, old)
    BY <2>1, <2>2, StartRest
  <2> QED
    BY <1>2, <2>2, <2>3, <2>4, <2>6 DEF Rest, old
<1>6. CASE Arg /= NoStop /\ Local(trades, Rest) /\ UNCHANGED <<snap, entries>>
  <2>1. /\ UNCHANGED <<setup, mode, journal, snap, entries, venue, late, budget, forgotten>>
        /\ trades' = trades /\ todo' = Rest
    BY <1>6 DEF Local, Step, Goes
  <2>2. Spends /\ Onward
    <3>1. Spends
      BY <2>1, SpendNone
    <3> QED
      BY <2>1, <3>1, StillOnward
  <2>3. Tracked' = Tracked /\ (InTime' => InTime)
    BY <2>1, <2>2, SpentGrows DEF Tracked
  <2>4. /\ StartOK(todo', Tracked', DOMAIN journal) /\ BookOK(trades', venue', entries)
        /\ OpenIn(venue') \subseteq OpenIn(venue) /\ Tracked' \subseteq DOMAIN journal
    BY <1>3, <1>5, <2>1, <2>3
  <2>5. \A t \in Tracked' : journal[t].ticket = trades'[t].ticket /\ journal[t].sl = trades'[t].sl
    BY <1>3, <2>1, <2>3
  <2>6. \A t \in DOMAIN journal : t \in Tracked' \/ Adopting(t, todo') \/ snap[journal[t].ticket].qty = 0
    BY <1>3, <1>5, <2>1, <2>3
  <2>7. InTime' =>
            /\ \A t \in DOMAIN journal : Agrees(journal[t], venue') \/ Bare(journal[t], venue')
            /\ \A t \in Tracked' : Agrees(trades'[t], venue') \/ (Repaired(t, todo') /\ Bare(trades'[t], venue'))
            /\ \A t \in DOMAIN journal \ Tracked' :
                   venue'[journal[t].ticket].sl = snap[journal[t].ticket].sl
    BY <1>4, <1>6, <2>1, <2>3
  <2> QED
    BY <1>2, <2>1, <2>2, <2>4, <2>5, <2>6, <2>7, StartKeeps
<1>7. CASE Arg = NoStop /\ Call(q, Step(trades, Rest) /\ UNCHANGED <<snap, entries>>,
                                   Step(With(It, x), Rest) /\ UNCHANGED <<snap, entries>>,
                                   Step(With(It, x), Rest) /\ UNCHANGED <<snap, entries>>,
                                   Quit(trades))
  <2>0. \/ CallOk(q) /\ Step(trades, Rest) /\ UNCHANGED <<snap, entries>>
        \/ CallBad(q) /\ Step(With(It, x), Rest) /\ UNCHANGED <<snap, entries>>
        \/ CallBad(q) /\ Quit(trades)
    <3> HIDE DEF q, x
    <3> QED
      BY <1>7 DEF Call, CallOk, CallBad, CallRefused, CallLost, CallEscaped
  <2>1. (CallOk(q) \/ CallBad(q)) /\ UNCHANGED <<setup, entries>>
    <3> HIDE DEF q, x
    <3> QED
      BY <2>0 DEF Step, Goes, Quit
  <2>2. /\ entries \in Nat /\ VenueOK(venue, entries) /\ BookOK(journal, venue, entries)
        /\ TradeOK(r, It, venue) /\ r.sl \in Int /\ k \in 1..Len(venue) /\ venue[k].trade = It
    <3>1. entries \in Nat /\ VenueOK(venue, entries) /\ BookOK(journal, venue, entries)
      BY Typed
    <3>2. TradeOK(r, It, venue)
      BY <1>3, <1>5 DEF BookOK
    <3> QED
      BY <3>1, <3>2 DEF TradeOK
  <2>3. q.kind = "modify" /\ q.id = k /\ q.n = r.sl
    BY DEF ModifyRequest
  <2> HIDE DEF q
  <2>4. RequestOK(q, Len(venue), entries) /\ q.kind /= "open"
    BY <2>2, <2>3 DEF RequestOK
  <2>5. SameLength /\ \A i \in 1..Len(venue) : venue'[i].sl = venue[i].sl \/ (i = k /\ venue'[i].sl = r.sl)
    BY <2>1, <2>3, <2>4, CallMakes
  <2>6. CallOk(q) => venue'[k].sl = r.sl
    BY <2>3, <2>4, MovedTo
  <2>7. Onward
    <3>1. entries <= entries
      BY <2>2
    <3> QED
      BY <2>1, <2>2, <2>5, <3>1 DEF SameLength, Onward
  <2>8. /\ x.ticket = k /\ x.sl = r.sl /\ x.pending = TRUE /\ TradeOK(x, It, venue)
    <3> DEFINE t == It
    <3>1. IsPending(x, r) /\ TradeOK(r, t, venue)
      BY <2>2 DEF IsPending
    <3> HIDE DEF x, r, t
    <3>2. TradeOK(x, t, venue)
      BY <3>1, PendingIs
    <3>3. x.ticket = r.ticket
      BY <3>1, PendingIs
    <3>4. x.sl = r.sl
      BY <3>1, PendingIs
    <3>5. x.pending = TRUE
      BY <3>1, PendingIs
    <3> QED
      BY <3>2, <3>3, <3>4, <3>5 DEF t
  <2> HIDE DEF x
  <2>13. OpenIn(venue') \subseteq OpenIn(venue)
    <3> SUFFICES ASSUME NEW i \in OpenIn(venue') PROVE i \in OpenIn(venue)
      OBVIOUS
    <3>1. VenueOK(venue', entries) /\ GoesOn(venue, venue') /\ Len(venue') = Len(venue) /\ Len(venue) \in Nat
      BY <2>5, Typed DEF SameLength
    <3>2. i \in OpenIn(venue) \/ i \in (Len(venue) + 1)..Len(venue')
      BY <2>2, <3>1, OpenKept
    <3> QED
      BY <3>1, <3>2
  <2>14. InTime' => InTime
    BY <2>7, SpentGrows DEF Onward
  <2>15. ASSUME NEW t \in DOMAIN journal
         PROVE  /\ journal[t].ticket \in 1..Len(venue) /\ venue[journal[t].ticket].trade = t
                /\ venue'[journal[t].ticket].qty \in Nat /\ venue[journal[t].ticket].qty \in Nat
                /\ venue'[journal[t].ticket].qty <= venue[journal[t].ticket].qty
                /\ t /= It => venue'[journal[t].ticket].sl = venue[journal[t].ticket].sl
    <3> DEFINE i == journal[t].ticket
    <3>1. i \in 1..Len(venue) /\ venue[i].trade = t
      BY <2>2, BookFacts
    <3>2. VenueOK(venue', entries) /\ GoesOn(venue, venue') /\ Len(venue') = Len(venue)
      BY <2>5 DEF SameLength
    <3> HIDE DEF i
    <3>3. venue'[i].qty \in Nat /\ venue[i].qty \in Nat /\ venue'[i].qty <= venue[i].qty
      BY <2>2, <3>1, <3>2, VenueFacts DEF GoesOn
    <3>4. t /= It => i /= k
      BY <2>2, <3>1
    <3>5. t /= It => venue'[i].sl = venue[i].sl
      BY <2>5, <3>1, <3>4
    <3> QED
      BY <3>1, <3>3, <3>5 DEF i
  <2>16. ASSUME NEW s, NEW t \in DOMAIN journal, s.ticket = journal[t].ticket, t /= It
         PROVE  /\ Agrees(s, venue) => Agrees(s, venue')
                /\ Bare(s, venue) => Bare(s, venue')
    <3>1. venue[s.ticket].qty = 0 => venue'[s.ticket].qty = 0
      BY <2>15, <2>16
    <3>2. venue'[s.ticket].sl = venue[s.ticket].sl
      BY <2>15, <2>16
    <3> QED
      BY <3>1, <3>2 DEF Agrees, Bare
  <2>17. ASSUME InTime', NEW t \in DOMAIN journal PROVE Agrees(journal[t], venue') \/ Bare(journal[t], venue')
    <3>1. Agrees(journal[t], venue) \/ Bare(journal[t], venue)
      BY <1>4, <2>14, <2>17
    <3>2. CASE t /= It
      BY <2>16, <3>1, <3>2
    <3>3. CASE t = It
      <4>1. journal[t].ticket = k /\ journal[t].sl = r.sl /\ r.sl <= r.sl
        BY <1>3, <1>5, <2>2, <3>3
      <4>2. CASE venue'[k].sl = r.sl
        BY <4>1, <4>2 DEF Agrees
      <4>3. CASE venue'[k].sl = venue[k].sl
        <5>1. venue[k].qty = 0 => venue'[k].qty = 0
          BY <2>15, <4>1
        <5> QED
          BY <3>1, <4>1, <4>3, <5>1 DEF Agrees, Bare
      <4> QED
        BY <2>2, <2>5, <4>2, <4>3
    <3> QED
      BY <3>2, <3>3
  <2>18. ASSUME NEW t \in Tracked, t /= It, InTime' PROVE Agrees(trades[t], venue')
    <3>1. Agrees(trades[t], venue) /\ trades[t].ticket = journal[t].ticket /\ t \in DOMAIN journal
      BY <1>3, <1>4, <2>14, <2>18
    <3> QED
      BY <2>16, <2>18, <3>1
  <2>19. ASSUME InTime', NEW t \in DOMAIN journal \ Tracked
         PROVE  venue'[journal[t].ticket].sl = snap[journal[t].ticket].sl
    <3>1. t /= It
      BY <1>5
    <3> QED
      BY <1>4, <2>14, <2>15, <2>19, <3>1
  <2>20. CASE CallBad(q) /\ Quit(trades)
    <3>1. InTime' => Agrees(r, venue') \/ Bare(r, venue')
      <4> SUFFICES ASSUME InTime' PROVE Agrees(r, venue') \/ Bare(r, venue')
        OBVIOUS
      <4>1. Agrees(r, venue) \/ Bare(r, venue)
        BY <1>4, <1>5, <2>14
      <4>2. CASE venue'[k].sl = r.sl
        <5>1. r.sl <= r.sl
          BY <2>2
        <5> QED
          BY <4>2, <5>1 DEF Agrees
      <4>3. CASE venue'[k].sl = venue[k].sl
        <5>1. journal[It].ticket = k /\ It \in DOMAIN journal
          BY <1>3, <1>5
        <5>2. venue[k].qty = 0 => venue'[k].qty = 0
          BY <2>15, <5>1
        <5> QED
          BY <4>1, <4>3, <5>2 DEF Agrees, Bare
      <4> QED
        BY <2>2, <2>5, <4>2, <4>3
    <3>2. \A t \in Tracked : InTime' => Agrees(trades[t], venue') \/ Bare(trades[t], venue')
      BY <2>18, <3>1
    <3>3. Waiting(todo) = {}
      BY <1>2 DEF Waiting
    <3> DEFINE trs == trades
    <3>4. BookOK(trs, venue, entries) /\ DOMAIN trs = Tracked /\ Quit(trs)
      BY <1>3, <2>20
    <3>5. \A t \in Tracked : trs[t].ticket = journal[t].ticket
      BY <1>3
    <3>6. \A t \in Tracked : InTime' => Agrees(trs[t], venue') \/ Bare(trs[t], venue')
      BY <3>2
    <3>7. /\ DOMAIN trs \subseteq DOMAIN journal /\ \A t \in DOMAIN trs : trs[t].ticket = journal[t].ticket
          /\ InTime' => \A t \in DOMAIN trs : Agrees(trs[t], venue') \/ Bare(trs[t], venue')
      BY <1>3, <3>4, <3>5, <3>6
    <3> HIDE DEF trs, r, k, x
    <3> QED
      BY <1>2, <2>5, <3>3, <3>4, <3>7, QuitKeeps
  <2>21. CASE \/ CallOk(q) /\ Step(trades, Rest) /\ UNCHANGED <<snap, entries>>
              \/ CallBad(q) /\ Step(With(It, x), Rest) /\ UNCHANGED <<snap, entries>>
    <3>1. /\ UNCHANGED <<setup, mode, journal, snap, entries, forgotten>> /\ todo' = Rest
          /\ (CallOk(q) /\ trades' = trades) \/ trades' = With(It, x)
      BY <2>21 DEF Step, Goes
    <3>2. /\ DOMAIN trades' = Tracked /\ \A u \in Tracked : u /= It => trades'[u] = trades[u]
          /\ (CallOk(q) /\ trades'[It] = r) \/ trades'[It] = x
      <4>1. CASE CallOk(q) /\ trades' = trades
        BY <1>3, <4>1
      <4>2. CASE trades' = With(It, x)
        <5> DEFINE t == It
                   other == With(t, x)
        <5>1. other = With(t, x) /\ trades' = other /\ t \in Tracked
          BY <1>5, <4>2
        <5> HIDE DEF other, t, r
        <5>2. DOMAIN other = Tracked /\ other[t] = x /\ \A u \in Tracked : u /= t => other[u] = trades[u]
          BY <5>1, WithIs
        <5> QED
          BY <5>1, <5>2 DEF t
      <4> QED
        BY <3>1, <4>1, <4>2
    <3>3. Tracked' = Tracked
      BY <3>2 DEF Tracked
    <3>4. \A u \in Tracked : TradeOK(trades'[u], u, venue) /\ trades'[u].ticket = trades[u].ticket /\ trades'[u].sl = trades[u].sl
      BY <1>3, <2>2, <2>8, <3>2 DEF BookOK
    <3>5. BookOK(trades', venue', entries)
      <4>1. BookOK(trades', venue, entries)
        BY <1>3, <3>2, <3>4 DEF BookOK
      <4> DEFINE book == trades'
      <4>2. BookOK(book, venue, entries)
        BY <4>1
      <4> HIDE DEF book
      <4>3. BookOK(book, venue', entries')
        BY <2>7, <4>2, OnwardBook
      <4> QED
        BY <2>1, <4>3 DEF book
    <3>6. ASSUME InTime', NEW t \in Tracked PROVE Agrees(trades'[t], venue')
      <4>1. CASE t /= It
        BY <2>18, <3>2, <3>6, <4>1
      <4>2. CASE t = It
        <5>1. CASE trades'[It] = x
          BY <2>8, <4>2, <5>1 DEF Agrees
        <5>2. CASE trades'[It] = r /\ CallOk(q)
          <6>1. r.sl <= r.sl
            BY <2>2
          <6> QED
            BY <2>6, <4>2, <5>2, <6>1 DEF Agrees
        <5> QED
          BY <3>2, <5>1, <5>2
      <4> QED
        BY <4>1, <4>2
    <3>7. /\ StartOK(todo', Tracked', DOMAIN journal) /\ Tracked' \subseteq DOMAIN journal
          /\ \A t \in Tracked' : journal[t].ticket = trades'[t].ticket /\ journal[t].sl = trades'[t].sl
          /\ \A t \in DOMAIN journal : t \in Tracked' \/ Adopting(t, todo') \/ snap[journal[t].ticket].qty = 0
      BY <1>3, <1>5, <3>1, <3>3, <3>4
    <3>8. InTime' =>
              /\ \A t \in DOMAIN journal : Agrees(journal[t], venue') \/ Bare(journal[t], venue')
              /\ \A t \in Tracked' : Agrees(trades'[t], venue') \/ (Repaired(t, todo') /\ Bare(trades'[t], venue'))
              /\ \A t \in DOMAIN journal \ Tracked' :
                     venue'[journal[t].ticket].sl = snap[journal[t].ticket].sl
      BY <2>17, <2>19, <3>3, <3>6
    <3> HIDE DEF r, k, x
    <3> QED
      BY <1>2, <2>7, <2>13, <3>1, <3>5, <3>7, <3>8, StartKeeps
  <2> HIDE DEF r, k, x
  <2> QED
    BY <2>0, <2>20, <2>21
<1> QED
  BY <1>1, <1>6, <1>7


-----------------------------------------------------------------------------
(* The world *)

LEMMA SnapKept ==
    ASSUME IInv, Snapped, Onward, UNCHANGED <<journal, snap>>
    PROVE  Snapped'
<1>1. /\ GoesOn(snap, venue) /\ Len(snap) \in Nat /\ \A i \in 1..Len(snap) : snap[i].qty \in Nat
      /\ \A t \in DOMAIN journal : journal[t].ticket \in 1..Len(snap)
  BY DEF Snapped
<1>2. VenueOK(venue, entries) /\ VenueOK(venue', entries') /\ GoesOn(venue, venue')
  BY Typed DEF Onward
<1>3. Len(venue) \in Nat /\ \A i \in 1..Len(venue) : venue[i].qty \in Nat
  BY <1>2, VenueFacts
<1>4. Len(venue') \in Nat /\ \A i \in 1..Len(venue') : venue'[i].qty \in Nat
  BY <1>2, VenueFacts
<1>5. GoesOn(snap, venue')
  BY <1>1, <1>2, <1>3, <1>4, GoesFurther
<1> QED
  BY <1>1, <1>5 DEF Snapped

LEMMA BelievedKept ==
    ASSUME IInv, VenueOK(venue', entries), GoesOn(venue, venue'), Len(venue') = Len(venue),
           NEW s, s.ticket \in 1..Len(venue), venue'[s.ticket].sl = venue[s.ticket].sl
    PROVE  /\ Agrees(s, venue) => Agrees(s, venue')
           /\ Bare(s, venue) => Bare(s, venue')
<1> DEFINE i == s.ticket
<1>1. venue'[i].qty <= venue[i].qty
  BY DEF GoesOn
<1>2. venue[i].qty \in Nat /\ venue'[i].qty \in Nat
  BY Typed, VenueFacts
<1>3. venue[i].qty = 0 => venue'[i].qty = 0
  BY <1>1, <1>2
<1> QED
  BY <1>3 DEF Agrees, Bare

\* What happens at the terminal by itself, whatever the process is at.
WorldStep ==
    /\ UNCHANGED <<setup, mode, trades, journal, snap, todo, entries, forgotten>> /\ Spends
    /\ VenueOK(venue', entries) /\ GoesOn(venue, venue') /\ LateOK(late', Len(venue'), entries)
    /\ Len(late') + (Len(venue') - Len(venue)) <= Len(late)
    /\ \A i \in 1..Len(late') : \E j \in 1..Len(late) : late'[i] = late[j]
    /\ \A i \in 1..Len(venue') : i > Len(venue) =>
           \E j \in 1..Len(late) : late[j].kind = "open" /\ late[j].id = venue'[i].trade
    /\ InTime' =>
           /\ Len(venue') = Len(venue)
           /\ \A i \in 1..Len(venue) : venue'[i].sl = venue[i].sl \/ (mode = "down" /\ venue'[i].sl = NoStop)

LEMMA WorldKeeps == ASSUME IInv, WorldStep PROVE IInv'
<1>1. /\ UNCHANGED <<setup, mode, trades, journal, snap, todo, entries, forgotten>> /\ Spends
      /\ VenueOK(venue', entries) /\ GoesOn(venue, venue') /\ LateOK(late', Len(venue'), entries)
      /\ Len(late') + (Len(venue') - Len(venue)) <= Len(late)
      /\ \A i \in 1..Len(late') : \E j \in 1..Len(late) : late'[i] = late[j]
      /\ \A i \in 1..Len(venue') : i > Len(venue) =>
             \E j \in 1..Len(late) : late[j].kind = "open" /\ late[j].id = venue'[i].trade
      /\ InTime' =>
             /\ Len(venue') = Len(venue)
             /\ \A i \in 1..Len(venue) : venue'[i].sl = venue[i].sl \/ (mode = "down" /\ venue'[i].sl = NoStop)
  BY DEF WorldStep
<1>2. /\ entries \in Nat /\ VenueOK(venue, entries) /\ BookOK(journal, venue, entries)
      /\ Len(late) \in Nat /\ Len(venue) \in Nat /\ Len(venue') \in Nat /\ Len(venue) <= Len(venue')
      /\ budget["late"] \in Nat /\ budget'["late"] \in Nat /\ budget'["late"] <= budget["late"]
  <2>1. Len(venue') \in Nat /\ Len(venue) <= Len(venue')
    BY <1>1, VenueFacts DEF GoesOn
  <2>2. budget["late"] \in Nat /\ budget'["late"] \in Nat /\ budget'["late"] <= budget["late"]
    BY <1>1, Typed DEF Spends, Fault
  <2> QED
    BY <2>1, <2>2, Typed
<1>3. Len(late') \in Nat
  <2>1. IsSeq(late')
    BY <1>1 DEF LateOK
  <2> QED
    BY <2>1, SeqLen
<1>4. Onward
  <2>1. Len(late') <= Len(late) + (budget["late"] - budget'["late"])
    BY <1>1, <1>2, <1>3
  <2>2. entries <= entries
    BY <1>2
  <2> QED
    BY <1>1, <1>2, <2>1, <2>2 DEF Onward
<1>5. TypeInv'
  <2>1. /\ BookOK(journal', venue', entries') /\ mode' \in {"up", "down", "starting"}
        /\ forgotten' \subseteq forgotten \cup 1..Len(venue)
    BY <1>1, <1>2, <1>4, OnwardBook, Typed
  <2> QED
    BY <1>4, <2>1, OnwardType
<1>6. Held' = Held
  BY <1>1 DEF Held, Books
<1>7. Counted'
  <2> DEFINE A == OpenIn(venue') \ Held
             B == OpenIn(venue) \ Held
             b == Cardinality(A)
             m == Len(venue') - Len(venue)
  <2>1. IsFiniteSet(B)
    BY <1>2, OpenFinite
  <2>2. A \subseteq B \cup (Len(venue) + 1)..Len(venue')
    <3> SUFFICES ASSUME NEW i \in OpenIn(venue'), i \notin Held
                 PROVE  i \in OpenIn(venue) \/ i \in (Len(venue) + 1)..Len(venue')
      OBVIOUS
    <3> QED
      BY <1>1, <1>2, OpenKept
  <2>3. b \in Nat /\ Cardinality(B) \in Nat /\ b <= Cardinality(B) + m
    <3> DEFINE x == Len(venue)
               y == Len(venue')
    <3>1. x \in Nat /\ y \in Nat /\ x <= y /\ A \subseteq B \cup (x + 1)..y
      BY <1>2, <2>2
    <3> HIDE DEF A, B, x, y
    <3>2. Cardinality(A) \in Nat /\ Cardinality(B) \in Nat /\ Cardinality(A) <= Cardinality(B) + (y - x)
      BY <2>1, <3>1, SomeOver
    <3> QED
      BY <3>2 DEF x, y
  <2>4. b <= Cardinality(OpenIn(venue) \ Held) + m /\ b = Cardinality(OpenIn(venue') \ Held') /\ b \in Nat
    BY <1>6, <2>3
  <2>5. Left \in Int /\ Left' \in Int /\ Left <= Left'
    BY <1>1, SpentGrows
  <2>6. m \in Int /\ 0 \in Int /\ UNCHANGED setup /\ Spends
    BY <1>1, <1>2
  <2>7. m + Len(late') <= Len(late) + 0 /\ Left + 0 <= Left'
    BY <1>1, <1>2, <1>3, <2>5
  <2> HIDE DEF b, m
  <2> QED
    BY <1>3, <2>4, <2>6, <2>7, CountKept
<1>8. InTime' => InTime
  BY <1>1, SpentGrows
<1>9. ASSUME InTime', mode /= "down", NEW s, s.ticket \in 1..Len(venue)
      PROVE  /\ Agrees(s, venue) => Agrees(s, venue')
             /\ Bare(s, venue) => Bare(s, venue')
  BY <1>1, <1>9, BelievedKept
<1>10. \A t \in DOMAIN journal : journal[t].ticket \in 1..Len(venue)
  BY <1>2, BookFacts
<1>11. ASSUME mode = "up" PROVE UpInv'
  <2>1. /\ TasksOK(todo, Tracked, entries) /\ BookOK(trades, venue, entries)
        /\ (todo = <<>> => journal = trades)
        /\ Tracked \subseteq DOMAIN journal \cup {entries}
        /\ (Early(todo) => Tracked \subseteq DOMAIN journal)
        /\ \A t \in Tracked \cap DOMAIN journal : journal[t].ticket = trades[t].ticket
    BY <1>11, AtWork
  <2>2. BookOK(trades, venue', entries')
    BY <1>4, <2>1, OnwardBook
  <2>3. ASSUME Doing("ticket")
        PROVE  /\ Arg \in 1..Len(venue') /\ venue'[Arg].trade = It /\ It \notin DOMAIN journal
               /\ \A i \in 1..Len(venue') : venue'[i].trade = It => venue'[i].qty <= Size
               /\ \A i \in 1..Len(late') : late'[i].kind = "open" => late'[i].id /= It
               /\ \A i \in forgotten : venue'[i].trade /= It
    <3>1. /\ Arg \in 1..Len(venue) /\ venue[Arg].trade = It /\ It \notin DOMAIN journal
          /\ \A i \in 1..Len(venue) : venue[i].trade = It => venue[i].qty <= Size
          /\ \A i \in 1..Len(late) : late[i].kind = "open" => late[i].id /= It
          /\ \A i \in forgotten : venue[i].trade /= It
      BY <1>11, <2>3 DEF IInv, UpInv
    <3>2. Arg \in 1..Len(venue') /\ venue'[Arg].trade = It
      BY <1>1, <1>2, <3>1 DEF GoesOn
    <3>3. ASSUME NEW i \in 1..Len(venue'), venue'[i].trade = It PROVE venue'[i].qty <= Size
      <4>1. i \in 1..Len(venue)
        <5>1. ~(i > Len(venue))
          BY <1>1, <3>1, <3>3
        <5> QED
          BY <1>2, <5>1
      <4>2. venue[i].trade = It /\ venue'[i].qty <= venue[i].qty
        BY <1>1, <3>3, <4>1 DEF GoesOn
      <4>3. venue[i].qty \in Nat /\ venue'[i].qty \in Nat /\ Size \in Nat
        <5>1. venue[i].qty \in Nat /\ venue'[i].qty \in Nat
          BY <1>1, <1>2, <4>1, VenueFacts
        <5>2. Size \in Nat
          BY Typed DEF Setup, Size
        <5> QED
          BY <5>1, <5>2
      <4>4. venue[i].qty <= Size
        BY <3>1, <4>1, <4>2
      <4> QED
        BY <4>2, <4>3, <4>4
    <3>4. ASSUME NEW i \in 1..Len(late'), late'[i].kind = "open" PROVE late'[i].id /= It
      <4>1. PICK j \in 1..Len(late) : late'[i] = late[j]
        BY <1>1
      <4> QED
        BY <3>1, <3>4, <4>1
    <3>5. ASSUME NEW i \in forgotten PROVE venue'[i].trade /= It
      <4>1. i \in 1..Len(venue)
        BY Typed
      <4> QED
        BY <1>1, <3>1, <4>1 DEF GoesOn
    <3> QED
      BY <3>1, <3>2, <3>3, <3>4, <3>5
  <2>5. ASSUME Doing("closing") PROVE ClosedOK(Arg, trades, venue')
    <3>1. ClosedOK(Arg, trades, venue)
      BY <1>11, <2>5 DEF IInv, UpInv
    <3>2. ASSUME NEW t \in DOMAIN trades, venue[trades[t].ticket].qty = 0
          PROVE  venue'[trades[t].ticket].qty = 0
      <4> DEFINE i == trades[t].ticket
      <4>1. i \in 1..Len(venue)
        BY <2>1 DEF BookOK, TradeOK
      <4> HIDE DEF i
      <4>2. VenueOK(venue', entries) /\ i \in 1..Len(venue') /\ venue'[i].qty <= venue[i].qty
        BY <1>1, <1>2, <4>1 DEF GoesOn
      <4>3. venue'[i].qty \in Nat
        BY <4>2, VenueFacts
      <4>4. venue[i].qty = 0
        BY <3>2 DEF i
      <4>5. venue'[i].qty = 0
        BY <4>2, <4>3, <4>4
      <4> QED
        BY <4>5 DEF i
    <3> QED
      BY <3>1, <3>2 DEF ClosedOK
  <2>4. Tracked' = Tracked /\ Early(todo') = Early(todo) /\ Doing("ticket")' = Doing("ticket") /\ Arg' = Arg /\ It' = It
        /\ Size' = Size /\ Doing("closing")' = Doing("closing")
    BY <1>1 DEF Tracked, Doing, Arg, It, Size
  <2> QED
    BY <1>1, <1>5, <2>1, <2>2, <2>3, <2>4, <2>5 DEF UpInv
<1>12. ASSUME mode = "up" PROVE UpStops'
  <2> SUFFICES ASSUME InTime'
               PROVE  /\ \A t \in Tracked : Agrees(trades[t], venue') \/ Owed(t, todo)
                      /\ \A t \in DOMAIN journal : Agrees(journal[t], venue')
                      /\ Doing("ticket")' => \A i \in 1..Len(venue') : venue'[i].trade = It => -1 <= venue'[i].sl
    BY <1>1 DEF UpStops, Tracked, It
  <2>1. UpStops /\ InTime
    BY <1>8, <1>12 DEF IInv
  <2>2. ASSUME NEW t \in Tracked PROVE Agrees(trades[t], venue') \/ Owed(t, todo)
    <3>1. trades[t].ticket \in 1..Len(venue)
      BY <1>12, TradeIs
    <3> QED
      BY <1>9, <1>12, <2>1, <3>1 DEF UpStops
  <2>3. ASSUME NEW t \in DOMAIN journal PROVE Agrees(journal[t], venue')
    BY <1>9, <1>10, <1>12, <2>1 DEF UpStops
  <2>4. ASSUME Doing("ticket")', NEW i \in 1..Len(venue'), venue'[i].trade = It PROVE -1 <= venue'[i].sl
    <3>1. Doing("ticket")
      BY <1>1, <2>4 DEF Doing
    <3>2. i \in 1..Len(venue) /\ venue'[i].sl = venue[i].sl
      BY <1>1, <1>12
    <3>3. venue[i].trade = It
      BY <1>1, <2>4, <3>2 DEF GoesOn
    <3> QED
      BY <2>1, <3>1, <3>2, <3>3 DEF UpStops
  <2> QED
    BY <2>2, <2>3, <2>4
<1>13. ASSUME mode = "starting" PROVE StartInv'
  <2>1. StartInv /\ Tracked' = Tracked
    BY <1>1, <1>13 DEF IInv, Tracked
  <2>2. CASE todo = <<Stage("read")>> /\ Tracked = {}
    BY <1>1, <2>1, <2>2 DEF StartInv
  <2>3. CASE ~(todo = <<Stage("read")>> /\ Tracked = {})
    <3>1. /\ StartOK(todo, Tracked, DOMAIN journal) /\ Snapped /\ BookOK(trades, venue, entries)
          /\ Tracked \subseteq DOMAIN journal
          /\ \A t \in Tracked : journal[t].ticket = trades[t].ticket /\ journal[t].sl = trades[t].sl
          /\ \A t \in DOMAIN journal :
                 t \in Tracked \/ Adopting(t, todo) \/ snap[journal[t].ticket].qty = 0
      BY <2>1, <2>3 DEF StartInv
    <3>2. Snapped' /\ BookOK(trades, venue', entries')
      BY <1>1, <1>4, <3>1, SnapKept, OnwardBook
    <3> QED
      BY <1>1, <1>5, <2>1, <3>1, <3>2 DEF StartInv
  <2> QED
    BY <2>2, <2>3
<1>14. ASSUME mode /= "up" PROVE StartStops'
  <2> SUFFICES ASSUME InTime'
               PROVE  /\ \A t \in DOMAIN journal : Agrees(journal[t], venue') \/ Bare(journal[t], venue')
                      /\ mode = "starting" /\ todo /= <<Stage("read")>> =>
                             /\ \A t \in Tracked : Agrees(trades[t], venue') \/ (Repaired(t, todo) /\ Bare(trades[t], venue'))
                             /\ \A t \in DOMAIN journal \ Tracked :
                                    venue'[journal[t].ticket].sl = snap[journal[t].ticket].sl
    BY <1>1 DEF StartStops, Tracked
  <2>1. StartStops /\ InTime
    BY <1>8, <1>14 DEF IInv
  <2>2. ASSUME NEW t \in DOMAIN journal PROVE Agrees(journal[t], venue') \/ Bare(journal[t], venue')
    <3>1. Agrees(journal[t], venue) \/ Bare(journal[t], venue)
      BY <2>1 DEF StartStops
    <3>2. journal[t].ticket \in 1..Len(venue)
      BY <1>10
    <3>3. CASE venue'[journal[t].ticket].sl = venue[journal[t].ticket].sl
      BY <1>1, <3>1, <3>2, <3>3, BelievedKept
    <3>4. CASE venue'[journal[t].ticket].sl = NoStop
      BY <3>4 DEF Bare
    <3> QED
      BY <1>1, <3>2, <3>3, <3>4
  <2>3. ASSUME mode = "starting", todo /= <<Stage("read")>>
        PROVE  /\ \A t \in Tracked : Agrees(trades[t], venue') \/ (Repaired(t, todo) /\ Bare(trades[t], venue'))
               /\ \A t \in DOMAIN journal \ Tracked :
                      venue'[journal[t].ticket].sl = snap[journal[t].ticket].sl
    <3>1. /\ \A t \in Tracked : Agrees(trades[t], venue) \/ (Repaired(t, todo) /\ Bare(trades[t], venue))
          /\ \A t \in DOMAIN journal \ Tracked :
                 venue[journal[t].ticket].sl = snap[journal[t].ticket].sl
      BY <2>1, <2>3 DEF StartStops
    <3>2. \A t \in Tracked : trades[t].ticket \in 1..Len(venue)
      <4>1. \A t \in Tracked : t \in DOMAIN journal /\ journal[t].ticket = trades[t].ticket
        BY <2>3 DEF IInv, StartInv
      <4> QED
        BY <1>10, <4>1
    <3>3. ASSUME NEW t \in Tracked
          PROVE  Agrees(trades[t], venue') \/ (Repaired(t, todo) /\ Bare(trades[t], venue'))
      BY <1>9, <2>3, <3>1, <3>2
    <3>4. ASSUME NEW t \in DOMAIN journal PROVE venue'[journal[t].ticket].sl = venue[journal[t].ticket].sl
      BY <1>1, <1>10, <2>3
    <3> QED
      BY <3>1, <3>3, <3>4
  <2> QED
    BY <2>2, <2>3
<1>15. mode = "down" => todo' = <<>> /\ Tracked' = {}
  BY <1>1 DEF IInv, Tracked
<1> QED
  BY <1>1, <1>5, <1>7, <1>11, <1>12, <1>13, <1>14, <1>15 DEF IInv


\* A position that its stop closes, or that is reduced by hand.
LEMMA ReducedKeeps ==
    ASSUME IInv, Spends, NEW i \in Open, NEW n \in Nat, n <= venue[i].qty, World(Do(venue, CloseRequest(i, n)))
    PROVE  IInv'
<1> DEFINE q == CloseRequest(i, n)
           w == Do(venue, q)
<1>1. /\ VenueOK(venue, entries) /\ LateOK(late, Len(venue), entries) /\ Len(late) \in Nat /\ Len(venue) \in Nat
      /\ DOMAIN venue = 1..Len(venue)
  BY Typed, VenueFacts
<1>2. i \in 1..Len(venue)
  BY <1>1 DEF Open
<1>3. q.kind = "close" /\ q.id = i /\ q.n = n
  BY DEF CloseRequest
<1>4. venue' = w /\ UNCHANGED <<setup, late, mode, trades, journal, snap, todo, entries, forgotten>>
  BY DEF World
<1> HIDE DEF q
<1>5. RequestOK(q, Len(venue), entries) /\ Can(venue, q)
  BY <1>2, <1>3 DEF RequestOK, Can
<1>6. VenueOK(w, entries) /\ Makes(venue, w, q)
  BY <1>1, <1>3, <1>5, CloseMakes
<1> HIDE DEF w
<1>7. GoesOn(venue, w) /\ Len(w) = Len(venue) /\ \A j \in 1..Len(venue) : w[j].sl = venue[j].sl
  BY <1>3, <1>6 DEF Makes
<1>8. Len(late') + (Len(venue') - Len(venue)) <= Len(late)
  BY <1>1, <1>4, <1>7
<1>9. \A j \in 1..Len(venue') : ~(j > Len(venue))
  BY <1>1, <1>4, <1>7
<1> QED
  BY <1>1, <1>4, <1>6, <1>7, <1>8, <1>9, WorldKeeps DEF WorldStep

LEMMA StopHitKeeps == ASSUME IInv, StopHit PROVE IInv'
<1>1. PICK i \in Open : World(Do(venue, CloseRequest(i, venue[i].qty))) /\ UNCHANGED budget
  BY DEF StopHit
<1>2. VenueOK(venue, entries) /\ DOMAIN venue = 1..Len(venue)
  BY Typed, VenueFacts
<1>3. venue[i].qty \in Nat
  BY <1>2, VenueFacts DEF Open
<1> DEFINE n == venue[i].qty
<1>4. n \in Nat /\ n <= venue[i].qty /\ World(Do(venue, CloseRequest(i, n))) /\ Spends
  BY <1>1, <1>3, SpendNone
<1> HIDE DEF n
<1> QED
  BY <1>4, ReducedKeeps

LEMMA ManualKeeps == ASSUME IInv, ManualReduce PROVE IInv'
<1>1. PICK i \in Open : World(Do(venue, CloseRequest(i, 1)))
  BY DEF ManualReduce
<1>2. VenueOK(venue, entries) /\ DOMAIN venue = 1..Len(venue)
  BY Typed, VenueFacts
<1>3. venue[i].qty \in Nat /\ venue[i].qty > 0
  BY <1>2, VenueFacts DEF Open
<1>4. Spends
  BY SpendIs DEF ManualReduce, Fault
<1>5. 1 \in Nat /\ 1 <= venue[i].qty
  BY <1>3
<1> QED
  BY <1>1, <1>4, <1>5, ReducedKeeps

LEMMA StripKeeps == ASSUME IInv, StripStop PROVE IInv'
<1>1. PICK i \in Open : World(Do(venue, ModifyRequest(i, NoStop)))
  BY DEF StripStop
<1> DEFINE q == ModifyRequest(i, NoStop)
           w == Do(venue, q)
<1>2. /\ VenueOK(venue, entries) /\ LateOK(late, Len(venue), entries) /\ Len(late) \in Nat /\ Len(venue) \in Nat
      /\ DOMAIN venue = 1..Len(venue)
  BY Typed, VenueFacts
<1>3. i \in 1..Len(venue)
  BY <1>2 DEF Open
<1>4. q.kind = "modify" /\ q.id = i /\ q.n = NoStop
  BY DEF ModifyRequest
<1>5. venue' = w /\ UNCHANGED <<setup, late, mode, trades, journal, snap, todo, entries, forgotten>> /\ mode = "down"
  BY <1>1 DEF World, StripStop
<1>6. Spends
  BY SpendIs DEF StripStop, Fault
<1> HIDE DEF q
<1>7. RequestOK(q, Len(venue), entries)
  BY <1>3, <1>4 DEF RequestOK, NoStop
<1>8. VenueOK(w, entries) /\ Makes(venue, w, q)
  BY <1>2, <1>4, <1>7, ModifyMakes
<1> HIDE DEF w
<1>9. /\ GoesOn(venue, w) /\ Len(w) = Len(venue)
      /\ \A j \in 1..Len(venue) : w[j].sl = venue[j].sl \/ w[j].sl = NoStop
  BY <1>4, <1>8 DEF Makes
<1>10. Len(late') + (Len(venue') - Len(venue)) <= Len(late)
  BY <1>2, <1>5, <1>9
<1>11. \A j \in 1..Len(venue') : ~(j > Len(venue))
  BY <1>2, <1>5, <1>9
<1> QED
  BY <1>2, <1>5, <1>6, <1>8, <1>9, <1>10, <1>11, WorldKeeps DEF WorldStep

LEMMA LateKeeps == ASSUME IInv, LateRequest PROVE IInv'
<1> DEFINE q == Head(late)
           w == Try(venue, q)
           l == Tail(late)
<1>1. /\ late /= <<>> /\ venue' = w /\ late' = l
      /\ UNCHANGED <<setup, mode, trades, journal, snap, todo, entries, budget, forgotten>>
  BY DEF LateRequest
<1>2. /\ VenueOK(venue, entries) /\ LateOK(late, Len(venue), entries) /\ Len(late) \in Nat /\ Len(venue) \in Nat
      /\ Len(late) <= Spent("late") /\ entries \in Nat
  BY Typed
<1>3. IsSeq(late) /\ \A i \in 1..Len(late) : RequestOK(late[i], Len(venue), entries)
  BY <1>2 DEF LateOK
<1>4. /\ IsSeq(l) /\ Len(l) = Len(late) - 1 /\ Len(late) > 0 /\ q = late[1]
      /\ \A i \in 1..Len(l) : i + 1 \in 1..Len(late) /\ l[i] = late[i + 1]
  BY <1>1, <1>3, SeqTail
<1> HIDE DEF q, l
<1>5. 1 \in 1..Len(late) /\ RequestOK(q, Len(venue), entries)
  BY <1>2, <1>3, <1>4, OneIn
<1>6. VenueOK(w, entries) /\ Makes(venue, w, q)
  BY <1>2, <1>5, TryMakes
<1> HIDE DEF w
<1>7. /\ GoesOn(venue, w) /\ Len(w) \in Nat /\ Len(venue) <= Len(w)
      /\ Len(w) <= Len(venue) + 1
      /\ \A i \in 1..Len(w) : i > Len(venue) => q.kind = "open" /\ w[i].trade = q.id
  <2>1. CASE q.kind = "open"
    BY <1>6, <2>1 DEF Makes, GoesOn
  <2>2. CASE q.kind /= "open"
    <3>1. GoesOn(venue, w) /\ Len(w) = Len(venue)
      BY <1>6, <2>2 DEF Makes
    <3>2. \A i \in 1..Len(w) : ~(i > Len(venue))
      BY <1>2, <3>1
    <3> QED
      BY <1>2, <3>1, <3>2
  <2> QED
    BY <2>1, <2>2
<1>8. LateOK(l, Len(w), entries)
  <2>1. ASSUME NEW i \in 1..Len(l) PROVE RequestOK(l[i], Len(w), entries)
    <3>1. RequestOK(l[i], Len(venue), entries)
      BY <1>3, <1>4
    <3>2. entries <= entries
      BY <1>2
    <3> QED
      BY <1>2, <1>7, <3>1, <3>2, RequestKept
  <2> QED
    BY <1>4, <2>1 DEF LateOK
<1>9. Len(late') + (Len(venue') - Len(venue)) <= Len(late)
  <2>1. Len(l) + (Len(w) - Len(venue)) <= Len(late)
    BY <1>2, <1>4, <1>7
  <2> QED
    BY <1>1, <2>1
<1>10. ~InTime'
  <2>1. Spent("late") /= 0
    <3>1. Spent("late") \in Int
      BY Typed DEF Spent, Fault
    <3> QED
      BY <1>2, <1>4, <3>1
  <2>2. Spent("late")' = Spent("late")
    BY <1>1 DEF Spent
  <2> QED
    BY <2>1, <2>2 DEF InTime
<1>11. \A i \in 1..Len(l) : \E j \in 1..Len(late) : l[i] = late[j]
  BY <1>4
<1>12. \A i \in 1..Len(w) : i > Len(venue) => \E j \in 1..Len(late) : late[j].kind = "open" /\ late[j].id = w[i].trade
  BY <1>4, <1>5, <1>7
<1>13. Spends
  BY <1>1, SpendNone
<1>14. WorldStep
  BY <1>1, <1>6, <1>7, <1>8, <1>9, <1>10, <1>11, <1>12, <1>13 DEF WorldStep
<1> QED
  BY <1>14, WorldKeeps

-----------------------------------------------------------------------------
(* The theorem *)

LEMMA InitHolds == ASSUME Setups \subseteq Setup, Init PROVE IInv
<1>1. /\ setup \in Setup /\ budget = setup.faults /\ venue = <<>> /\ late = <<>>
      /\ mode = "up" /\ trades = << >> /\ journal = << >> /\ todo = <<>> /\ entries = 0
      /\ forgotten = {}
  BY DEF Init
<1>2. setup.faults \in [Fault -> Nat]
  BY <1>1 DEF Setup
<1>3. /\ IsSeq(<<>>) /\ Len(<<>>) = 0 /\ \A i \in 1..Len(<<>>) : FALSE
  BY SeqNone
<1>4. VenueOK(venue, entries) /\ LateOK(late, Len(venue), entries)
  BY <1>1, <1>3 DEF VenueOK, LateOK
<1>5. DOMAIN trades = {} /\ DOMAIN journal = {} /\ Tracked = {}
  BY <1>1 DEF Tracked
<1>6. BookOK(trades, venue, entries) /\ BookOK(journal, venue, entries)
  BY <1>5 DEF BookOK
<1>7. \A f \in Fault : Spent(f) = 0
  BY <1>1, <1>2 DEF Spent
<1>8. TypeInv
  <2>1. \A f \in Fault : budget[f] <= setup.faults[f]
    BY <1>1, <1>2
  <2>2. Len(late) <= Spent("late")
    BY <1>1, <1>3, <1>7 DEF Fault
  <2> QED
    BY <1>1, <1>2, <1>4, <1>6, <2>1, <2>2 DEF TypeInv
<1>9. Counted
  <2>1. OpenIn(venue) \ Held = {}
    BY <1>1, <1>3 DEF OpenIn
  <2>2. Cardinality(OpenIn(venue) \ Held) = 0
    BY <2>1, FS_EmptySet
  <2>3. Left = 0
    BY <1>7 DEF Left, Fault
  <2> QED
    BY <1>1, <1>3, <2>2, <2>3 DEF Counted
<1>10. UpInv
  <2>1. TasksOK(todo, Tracked, entries) /\ ~Early(todo) /\ ~Doing("ticket") /\ ~Doing("closing")
    BY <1>1, <1>3 DEF TasksOK, Early, Doing
  <2> QED
    BY <1>1, <1>5, <1>6, <2>1 DEF UpInv
<1>11. UpStops
  <2>1. ~Doing("ticket")
    BY <1>1 DEF Doing
  <2> QED
    BY <1>5, <2>1 DEF UpStops
<1> QED
  BY <1>1, <1>8, <1>9, <1>10, <1>11 DEF IInv

LEMMA StutterKeeps == ASSUME IInv, UNCHANGED vars PROVE IInv'
<1>1. UNCHANGED <<setup, venue, late, mode, trades, journal, snap, todo, entries, budget, forgotten>>
  BY DEF vars
<1>2. Spends
  BY <1>1, SpendNone
<1>3. /\ VenueOK(venue, entries) /\ LateOK(late, Len(venue), entries) /\ Len(late) \in Nat /\ Len(venue) \in Nat
  BY Typed
<1>4. GoesOn(venue, venue)
  BY <1>3, GoesSame
<1>5. Len(late') + (Len(venue') - Len(venue)) <= Len(late) /\ \A j \in 1..Len(venue') : ~(j > Len(venue))
  BY <1>1, <1>3
<1> QED
  BY <1>1, <1>2, <1>3, <1>4, <1>5, WorldKeeps DEF WorldStep

\* What the worker does, it does of a process that is up, but for the restart's own tasks.
LEMMA WorksUp ==
    ASSUME IInv, NEW op, Doing(op), op \notin {"read", "repair", "adopt", "flush"}
    PROVE  mode = "up"
<1>1. todo /= <<>> /\ Head(todo).op = op
  BY DEF Doing
<1> QED
  BY <1>1, AtHead

LEMMA StepKeeps == ASSUME IInv, [Next]_vars PROVE IInv'
<1>1. CASE Enter
  BY <1>1, WorksUp, EnterKeeps DEF Enter
<1>2. CASE FindTicket
  BY <1>2, WorksUp, FindKeeps DEF FindTicket
<1>3. CASE RetryPending
  BY <1>3, WorksUp, RetryKeeps DEF RetryPending
<1>4. CASE SyncStop
  BY <1>4, WorksUp, SyncKeeps DEF SyncStop
<1>5. CASE RaiseStops
  BY <1>5, WorksUp, RaiseKeeps DEF RaiseStops
<1>6. CASE RaiseStop
  BY <1>6, WorksUp, RaiseStopKeeps DEF RaiseStop
<1>7. CASE CheckLevels
  BY <1>7, WorksUp, LevelsKeep DEF CheckLevels
<1>8. CASE LevelDone
  BY <1>8, WorksUp, LevelDoneKeeps DEF LevelDone
<1>9. CASE AdvanceOnly
  BY <1>9, WorksUp, AdvanceKeeps DEF AdvanceOnly
<1>10. CASE MarketClose
  BY <1>10, WorksUp, MarketCloseKeeps DEF MarketClose
<1>11. CASE SettledStop
  BY <1>11, WorksUp, SettledKeeps DEF SettledStop
<1>12. CASE ForceClose
  BY <1>12, WorksUp, ForceCloseKeeps DEF ForceClose
<1>13. CASE CloseTrade
  BY <1>13, WorksUp, CloseTradeKeeps DEF CloseTrade
<1>14. CASE Reconcile
  BY <1>14, WorksUp, ReconcileKeeps DEF Reconcile
<1>15. CASE BreakEvens
  BY <1>15, WorksUp, BreakEvensKeep DEF BreakEvens
<1>16. CASE BreakEven
  BY <1>16, WorksUp, BreakEvenKeeps DEF BreakEven
<1>17. CASE DropClosed
  BY <1>17, WorksUp, DropKeeps DEF DropClosed
<1>18. CASE UNCHANGED vars
  BY <1>18, StutterKeeps
<1> QED
  BY <1>1, <1>2, <1>3, <1>4, <1>5, <1>6, <1>7, <1>8, <1>9, <1>10, <1>11, <1>12, <1>13, <1>14, <1>15,
     <1>16, <1>17, <1>18,
     FlushKeeps, ReadKeeps, AdoptKeeps, RepairKeeps, CandleKeeps, FormingKeeps, PollKeeps,
     CrashKeeps, RestartKeeps, StopHitKeeps, ManualKeeps, StripKeeps, LateKeeps DEF Next, Work

\* What the invariant says between two items.
LEMMA InvariantSays == ASSUME IInv PROVE VenueAgrees
<1> SUFFICES ASSUME Idle
             PROVE  /\ StopNeverLooser
                    /\ Cardinality(Strangers) <= Spent("resend") + 2 * Spent("lose") + Spent("late") + Spent("crash")
  BY DEF VenueAgrees
<1>1. mode = "up" /\ todo = <<>>
  BY DEF Idle
<1>2. VenueOK(venue, entries) /\ DOMAIN venue = 1..Len(venue) /\ Len(late) \in Nat
  BY Typed, VenueFacts
<1>3. Open = OpenIn(venue)
  BY <1>2 DEF Open, OpenIn
<1>4. StopNeverLooser
  <2> SUFFICES ASSUME InTime, NEW t \in Tracked
               PROVE  \/ trades[t].pending \/ trades[t].unsure \/ trades[t].ticket \notin Open
                      \/ venue[trades[t].ticket].sl >= trades[t].sl
    BY DEF StopNeverLooser, InTime
  <2>1. Agrees(trades[t], venue)
    BY <1>1, SureNow
  <2>2. /\ trades[t].ticket \in 1..Len(venue) /\ trades[t].sl \in Int
        /\ venue[trades[t].ticket].sl \in Int
    BY <1>1, TradeIs
  <2>3. venue[trades[t].ticket].qty = 0 => trades[t].ticket \notin Open
    BY DEF Open
  <2>4. trades[t].sl <= venue[trades[t].ticket].sl => venue[trades[t].ticket].sl >= trades[t].sl
    BY <2>2
  <2> QED
    BY <2>1, <2>3, <2>4 DEF Agrees
<1>5. Strangers = OpenIn(venue) \ Held
  <2>1. Waiting(todo) = {}
    BY <1>1 DEF Waiting
  <2>2. Held = {trades[t].ticket : t \in DOMAIN trades} \cup forgotten
    BY <1>1, <2>1 DEF Held, Books, Tickets
  <2> QED
    BY <1>3, <2>2 DEF Strangers, Tracked
<1>6. Cardinality(Strangers) <= Left
  <2> DEFINE a == Cardinality(Strangers)
  <2>1. Counted /\ a \in Nat
    <3>1. IsFiniteSet(OpenIn(venue) \ Held)
      BY <1>2, OpenFinite
    <3> QED
      BY <1>5, <3>1, Typed, FS_CardinalityType
  <2>2. a + Len(late) <= Left
    BY <1>5, <2>1 DEF Counted
  <2>3. Left \in Int
    <3>1. \A f \in Fault : setup.faults[f] \in Nat /\ budget[f] \in Nat
      BY Typed
    <3> QED
      BY <3>1 DEF Left, Spent, Fault
  <2> HIDE DEF a
  <2>4. a <= Left
    BY <1>2, <2>1, <2>2, <2>3
  <2> QED
    BY <2>4 DEF a
<1> QED
  BY <1>4, <1>6 DEF Left

\* For every scenario, whatever the bridge loses or repeats: between two items the stop of
\* a tracked position stands at least where the engine believes it, unless it is pending or
\* left unsure by a move whose failure escaped or whose answer was lost or never journaled;
\* and no position is left without a trade that the faults or a failed start do not account
\* for (_execution.py, _state.py, _bridge_client.py).
THEOREM MetaInvariant == Setups \subseteq Setup => (Spec => [](IInv /\ VenueAgrees))
<1> SUFFICES ASSUME Setups \subseteq Setup PROVE Spec => [](IInv /\ VenueAgrees)
  OBVIOUS
<1>1. Init => IInv
  BY InitHolds
<1>2. IInv /\ [Next]_vars => IInv'
  BY StepKeeps
<1>3. IInv => VenueAgrees
  BY InvariantSays
<1> QED
  BY <1>1, <1>2, <1>3, PTL DEF Spec
=============================================================================
