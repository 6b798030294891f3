--------------------------- MODULE SpotPairProofs ---------------------------
(***************************************************************************)
(* The holdings of a spot pair, for every scenario that stops between two  *)
(* items: what is held is locked by an order, or the user was told; and a  *)
(* trade stands for it.                                                    *)
(***************************************************************************)
EXTENDS SpotPair, FiniteSetTheorems, SequenceTheorems, TLAPS

IsSeq(s) == s \in Seq({s[i] : i \in 1..Len(s)})

\* The orders, and the trades of a book.
OrderOK(o) == o = [rung |-> o.rung, st |-> o.st]
OrdersOK(os) == IsSeq(os) /\ \A i \in 1..Len(os) : OrderOK(os[i])
LiveIn(os) == {i \in 1..Len(os) : os[i].st = "live"}
FilledIn(os) == {i \in 1..Len(os) : os[i].st = "filled"}

TradeOK(r, n) == r = [sl |-> r.sl, id |-> r.id, riskFree |-> r.riskFree, due |-> r.due] /\ r.id \in 0..n
BookOK(book, n, last) ==
    /\ IsFiniteSet(DOMAIN book) /\ DOMAIN book \subseteq 1..last
    /\ \A t \in DOMAIN book : TradeOK(book[t], n)
    /\ \A t, u \in DOMAIN book : t /= u => book[t].id /= book[u].id \/ book[t].id = 0

\* The trades whose order has not filled.
Standing(book, os) == {t \in DOMAIN book : book[t].id \notin FilledIn(os)}

\* The calls that leave a unit without an order, before they are followed by the next.
Entering == {"protect", "emergency"}
Replacing == {"place", "restore", "sell_out", "sell"}
Hand(tasks, ops) == IF tasks /= <<>> /\ Head(tasks).op \in ops THEN 1 ELSE 0
Handled(t, tasks) == tasks /= <<>> /\ Head(tasks).op \in Replacing /\ Head(tasks).t = t

\* The order of a trade works or has filled, or is about to be replaced.
CoveredBy(r, t, os, tasks) == r.id \in LiveIn(os) \cup FilledIn(os) \/ Handled(t, tasks)

\* What is left to do: first what concerns a trade, no two of one trade; of the calls that
\* leave a holding naked the next one comes at once.
Stages == {"peak", "risk_free", "trail", "exit", "enter", "poll", "flush"}
OfTrade == {"unlock", "release"} \cup Replacing
Ahead == {"unlock", "release"} \cup Stages
TaskOK(x, ids, exits, some, last) ==
    /\ x.op \in Stages \cup OfTrade \cup Entering \cup {"fill"}
    /\ x.op \in OfTrade => x.t \in ids
    /\ x.op \in {"release", "sell"} => exits
    /\ x.op = "protect" => x.t \in 1..last \ ids
    /\ x.op = "fill" => some
TasksOK(s, ids, exits, some, last) ==
    /\ IsSeq(s)
    /\ \A i \in 1..Len(s) : /\ TaskOK(s[i], ids, exits, some, last)
                            /\ i > 1 => s[i].op \in Ahead
                            /\ s[i].op = "flush" <=> i = Len(s)
    /\ \A i, j \in 1..Len(s) : i < j /\ s[j].op \in OfTrade => s[i].op \in OfTrade /\ s[i].t /= s[j].t
StartTasks == {<<Stage("read"), Stage("adopt"), Stage("flush")>>, <<Stage("adopt"), Stage("flush")>>,
               <<Stage("flush")>>}

-----------------------------------------------------------------------------
\* The trades that count: of a process that is down, those of its journal.
Books == IF mode = "up" \/ Doing("flush") THEN trades ELSE journal

TypeInv ==
    /\ setup \in Setup /\ ~setup.anywhere
    /\ hold \in Int /\ entries \in Nat /\ OrdersOK(orders)
    /\ IsSeq(feed) /\ \A i \in 1..Len(feed) : feed[i] \in FilledIn(orders)
    /\ budget \in [Fault -> Nat] /\ \A f \in Fault : budget[f] <= setup.faults[f]

ModeInv ==
    /\ mode \in {"up", "down", "starting"}
    /\ mode = "up" => TasksOK(todo, Tracked, setup.exits, feed /= <<>>, entries)
    /\ mode = "up" /\ todo = <<>> => journal = trades
    /\ mode = "down" => todo = <<>>
    /\ mode = "starting" => todo \in StartTasks
    /\ mode /= "up" => setup.faults["crash"] > 0
    /\ Doing("adopt") => LiveIn(orders) \subseteq open
    /\ "close failed" \in told => setup.exits

Covered == SaidNaked \/ \A t \in DOMAIN Books : CoveredBy(Books[t], t, orders, todo)
Locked == SaidNaked \/ hold - Cardinality(LiveIn(orders)) <= Hand(todo, Entering \cup Replacing)
Accounted == SaidGone \/ hold - Cardinality(Standing(Books, orders)) <= Hand(todo, Entering)

IInv == TypeInv /\ ModeInv /\ BookOK(Books, Len(orders), entries) /\ Covered /\ Locked /\ Accounted

LEMMA SameNumber == ASSUME NEW n \in Nat, NEW m, m = n PROVE n <= m
  OBVIOUS

-----------------------------------------------------------------------------
(* Sequences of anything *)

LEMMA SeqIs == ASSUME NEW X, NEW s \in Seq(X) PROVE IsSeq(s)
<1>1. Len(s) \in Nat /\ s = [i \in 1..Len(s) |-> s[i]]
  OBVIOUS
<1> QED
  BY <1>1 DEF IsSeq

LEMMA SeqLen == ASSUME NEW s, IsSeq(s) PROVE Len(s) \in Nat /\ DOMAIN s = 1..Len(s)
  BY DEF IsSeq

LEMMA SeqMade ==
    ASSUME NEW s, NEW n \in Nat, s = [i \in 1..n |-> s[i]]
    PROVE  IsSeq(s) /\ Len(s) = n
<1>1. s \in Seq({s[i] : i \in 1..n})
  <2>1. s \in [1..n -> {s[i] : i \in 1..n}]
    OBVIOUS
  <2> QED
    BY <2>1
<1>2. Len(s) = n
  OBVIOUS
<1> QED
  BY <1>1, <1>2 DEF IsSeq

LEMMA SeqConcat ==
    ASSUME NEW s, NEW t, IsSeq(s), IsSeq(t)
    PROVE  /\ IsSeq(s \o t) /\ Len(s \o t) = Len(s) + Len(t)
           /\ \A i \in 1..Len(s \o t) :
                 \/ i \in 1..Len(s) /\ (s \o t)[i] = s[i]
                 \/ i - Len(s) \in 1..Len(t) /\ (s \o t)[i] = t[i - Len(s)]
<1> DEFINE X == {s[i] : i \in 1..Len(s)} \cup {t[i] : i \in 1..Len(t)}
<1>1. s \in Seq(X) /\ t \in Seq(X)
  <2>1. s = [i \in 1..Len(s) |-> s[i]] /\ Len(s) \in Nat
    BY DEF IsSeq
  <2>2. t = [i \in 1..Len(t) |-> t[i]] /\ Len(t) \in Nat
    BY DEF IsSeq
  <2> QED
    BY <2>1, <2>2
<1> HIDE DEF X
<1>2. s \o t \in Seq(X) /\ Len(s \o t) = Len(s) + Len(t)
  BY <1>1
<1>3. \A i \in 1..Len(s) : (s \o t)[i] = s[i]
  BY <1>1
<1>4. \A i \in 1..Len(s \o t) : i \notin 1..Len(s) =>
          i - Len(s) \in 1..Len(t) /\ (s \o t)[i] = t[i - Len(s)]
  BY <1>1
<1> QED
  BY <1>2, <1>3, <1>4, SeqIs

LEMMA SeqTail ==
    ASSUME NEW s, IsSeq(s), s /= <<>>
    PROVE  /\ IsSeq(Tail(s)) /\ Len(Tail(s)) = Len(s) - 1 /\ Len(s) > 0 /\ Head(s) = s[1]
           /\ \A i \in 1..Len(Tail(s)) : i + 1 \in 1..Len(s) /\ Tail(s)[i] = s[i + 1]
<1> DEFINE X == {s[i] : i \in 1..Len(s)}
<1>1. s \in Seq(X)
  BY DEF IsSeq
<1> HIDE DEF X
<1>2. /\ Tail(s) \in Seq(X) /\ Len(Tail(s)) = Len(s) - 1 /\ Len(s) \in Nat /\ Len(s) > 0 /\ Head(s) = s[1]
      /\ \A i \in 1..Len(Tail(s)) : Tail(s)[i] = s[i + 1]
  BY <1>1
<1>3. \A i \in 1..Len(Tail(s)) : i + 1 \in 1..Len(s)
  BY <1>2
<1> QED
  BY <1>2, <1>3, SeqIs

LEMMA SeqAppend ==
    ASSUME NEW s, IsSeq(s), NEW x
    PROVE  /\ IsSeq(Append(s, x)) /\ Len(Append(s, x)) = Len(s) + 1 /\ Append(s, x)[Len(s) + 1] = x
           /\ \A i \in 1..Len(s) : Append(s, x)[i] = s[i]
<1> DEFINE X == {s[i] : i \in 1..Len(s)} \cup {x}
<1>1. s \in Seq(X) /\ x \in X
  <2>1. s = [i \in 1..Len(s) |-> s[i]] /\ Len(s) \in Nat
    BY DEF IsSeq
  <2> QED
    BY <2>1
<1> HIDE DEF X
<1>2. /\ Append(s, x) \in Seq(X) /\ Len(Append(s, x)) = Len(s) + 1 /\ Append(s, x)[Len(s) + 1] = x
      /\ \A i \in 1..Len(s) : Append(s, x)[i] = s[i]
  BY <1>1
<1> QED
  BY <1>2, SeqIs

LEMMA SeqOne == ASSUME NEW x PROVE IsSeq(<<x>>) /\ Len(<<x>>) = 1 /\ <<x>>[1] = x
<1>1. <<x>> \in Seq({x}) /\ Len(<<x>>) = 1 /\ <<x>>[1] = x
  OBVIOUS
<1> QED
  BY <1>1, SeqIs

LEMMA SeqTwo == ASSUME NEW x, NEW y PROVE IsSeq(<<x, y>>) /\ Len(<<x, y>>) = 2 /\ <<x, y>>[1] = x /\ <<x, y>>[2] = y
<1>1. <<x, y>> \in Seq({x, y}) /\ Len(<<x, y>>) = 2 /\ <<x, y>>[1] = x /\ <<x, y>>[2] = y
  OBVIOUS
<1> QED
  BY <1>1, SeqIs

LEMMA SeqNone == IsSeq(<<>>) /\ Len(<<>>) = 0
<1>1. <<>> \in Seq({}) /\ Len(<<>>) = 0
  OBVIOUS
<1> QED
  BY <1>1, SeqIs

\* Ranking a finite set of numbers names its elements, and nothing else.
LEMMA RanksName ==
    ASSUME NEW S, IsFiniteSet(S), S \subseteq Nat
    PROVE  /\ \A k \in 1..Cardinality(S) : Ascending(S)[k] \in S
           /\ \A k, l \in 1..Cardinality(S) : k /= l => Ascending(S)[k] /= Ascending(S)[l]
<1> DEFINE n == Cardinality(S)
           Upto(i) == {j \in S : j <= i}
           R == [i \in S |-> Cardinality(Upto(i))]
<1>1. n \in Nat
  BY FS_CardinalityType
<1>2. \A i \in S : IsFiniteSet(Upto(i)) /\ Cardinality(Upto(i)) \in 1..n
  <2> TAKE i \in S
  <2>1. Upto(i) \in SUBSET S /\ i \in Upto(i)
    OBVIOUS
  <2>2. IsFiniteSet(Upto(i)) /\ Cardinality(Upto(i)) <= n
    BY <2>1, FS_Subset
  <2>3. Cardinality(Upto(i)) \in Nat /\ Cardinality(Upto(i)) /= 0
    BY <2>1, <2>2, FS_CardinalityType, FS_EmptySet
  <2> HIDE DEF Upto
  <2> QED
    BY <1>1, <2>2, <2>3
<1>3. \A i, j \in S : i < j => Cardinality(Upto(i)) /= Cardinality(Upto(j))
  <2> SUFFICES ASSUME NEW i \in S, NEW j \in S, i < j
               PROVE  Cardinality(Upto(i)) /= Cardinality(Upto(j))
    OBVIOUS
  <2>0. i \in Nat /\ j \in Nat
    OBVIOUS
  <2>1. Upto(i) \in SUBSET Upto(j) /\ j \in Upto(j) /\ j \notin Upto(i)
    <3>1. \A x \in S : x <= i => x <= j
      BY <2>0
    <3>2. j <= j /\ ~(j <= i)
      BY <2>0
    <3> QED
      BY <3>1, <3>2
  <2>2. Upto(i) /= Upto(j)
    BY <2>1
  <2> QED
    BY <1>2, <2>1, <2>2, FS_Subset
<1>4. R \in [S -> 1..n]
  BY <1>2
<1>5. \A i, j \in S : R[i] = R[j] => i = j
  <2> SUFFICES ASSUME NEW i \in S, NEW j \in S, i /= j PROVE R[i] /= R[j]
    OBVIOUS
  <2>1. i < j \/ j < i
    OBVIOUS
  <2> HIDE DEF Upto
  <2> QED
    BY <1>3, <2>1
<1>6. R \in Injection(S, 1..n)
  <2> HIDE DEF R
  <2> QED
    BY <1>4, <1>5 DEF Injection, IsInjective
<1>7. R \in Surjection(S, 1..n)
  <2> HIDE DEF R
  <2>1. IsFiniteSet(1..n) /\ Cardinality(1..n) = n
    BY <1>1, FS_Interval
  <2> QED
    BY <1>6, <2>1, FS_Injection
<1>8. ASSUME NEW k \in 1..n
      PROVE  Ascending(S)[k] \in S /\ Cardinality(Upto(Ascending(S)[k])) = k
  <2>1. \E i \in S : Cardinality(Upto(i)) = k
    <3>1. \E i \in S : R[i] = k
      <4> HIDE DEF R
      <4> QED
        BY <1>7 DEF Surjection
    <3> HIDE DEF Upto
    <3> QED
      BY <3>1
  <2>2. Ascending(S)[k] = CHOOSE i \in S : Cardinality(Upto(i)) = k
    BY DEF Ascending
  <2> HIDE DEF Upto
  <2> QED
    BY <2>1, <2>2
<1> HIDE DEF Upto
<1> QED
  BY <1>8 DEF n

-----------------------------------------------------------------------------
(* What is left to do *)

\* The next of what is left; what is known of the trades may change meanwhile.
LEMMA TasksAre ==
    ASSUME NEW s, NEW ids, NEW exits, NEW some, NEW last, TasksOK(s, ids, exits, some, last)
    PROVE  /\ IsSeq(s) /\ Len(s) \in Nat
           /\ \A i \in 1..Len(s) : TaskOK(s[i], ids, exits, some, last)
           /\ \A i \in 1..Len(s) : i > 1 => s[i].op \in Ahead
           /\ \A i \in 1..Len(s) : s[i].op = "flush" <=> i = Len(s)
           /\ \A i, j \in 1..Len(s) : i < j /\ s[j].op \in OfTrade => s[i].op \in OfTrade /\ s[i].t /= s[j].t
<1>1. IsSeq(s)
  BY DEF TasksOK
<1>2. Len(s) \in Nat
  BY <1>1, SeqLen
<1>3. \A i \in 1..Len(s) : TaskOK(s[i], ids, exits, some, last)
  BY DEF TasksOK
<1>4. \A i \in 1..Len(s) : i > 1 => s[i].op \in Ahead
  BY DEF TasksOK
<1>5. \A i \in 1..Len(s) : s[i].op = "flush" <=> i = Len(s)
  BY DEF TasksOK
<1>6. \A i, j \in 1..Len(s) : i < j /\ s[j].op \in OfTrade => s[i].op \in OfTrade /\ s[i].t /= s[j].t
  BY DEF TasksOK
<1> QED
  BY <1>1, <1>2, <1>3, <1>4, <1>5, <1>6

LEMMA RestOK ==
    ASSUME NEW s, NEW ids, NEW exits, NEW some, NEW last, TasksOK(s, ids, exits, some, last),
           s /= <<>>, Head(s).op /= "flush",
           NEW others, NEW more, NEW top, \A t \in ids \ others : Head(s).op \in OfTrade => t = Head(s).t
    PROVE  TasksOK(Tail(s), others, exits, more, top) /\ Tail(s) /= <<>> /\ Head(Tail(s)).op \in Ahead
<1>1. /\ IsSeq(s) /\ Len(s) \in Nat
      /\ \A i \in 1..Len(s) : TaskOK(s[i], ids, exits, some, last)
      /\ \A i \in 1..Len(s) : i > 1 => s[i].op \in Ahead
      /\ \A i \in 1..Len(s) : s[i].op = "flush" <=> i = Len(s)
      /\ \A i, j \in 1..Len(s) : i < j /\ s[j].op \in OfTrade => s[i].op \in OfTrade /\ s[i].t /= s[j].t
  BY TasksAre
<1> DEFINE r == Tail(s)
<1>2. IsSeq(r) /\ Len(r) = Len(s) - 1 /\ Len(s) > 0 /\ Head(s) = s[1]
  BY <1>1, SeqTail
<1>3. \A i \in 1..Len(r) : i + 1 \in 1..Len(s) /\ r[i] = s[i + 1]
  BY <1>1, SeqTail
<1> HIDE DEF r
<1>4. Len(s) > 1
  BY <1>1, <1>2
<1>5. Len(r) \in Nat /\ Len(r) > 0 /\ r /= <<>>
  BY <1>1, <1>2, <1>4, SeqNone
<1>6. Head(r) = s[2] /\ s[2].op \in Ahead
  <2>1. Head(r) = r[1] /\ r[1] = s[2]
    BY <1>2, <1>3, <1>5, SeqTail
  <2>2. s[2].op \in Ahead
    BY <1>1, <1>4
  <2> QED
    BY <2>1, <2>2
<1>7. ASSUME NEW i \in 1..Len(r)
      PROVE  /\ TaskOK(r[i], others, exits, more, top)
             /\ i > 1 => r[i].op \in Ahead
             /\ r[i].op = "flush" <=> i = Len(r)
  <2>1. r[i] = s[i + 1] /\ i + 1 \in 1..Len(s) /\ 1 < i + 1 /\ 1 \in 1..Len(s) /\ i \in Nat
    BY <1>1, <1>2, <1>3
  <2>2. TaskOK(r[i], ids, exits, some, last) /\ r[i].op \in Ahead
    BY <1>1, <2>1
  <2>3. r[i].op = "flush" <=> i = Len(r)
    BY <1>1, <1>2, <2>1
  <2>4. r[i].op \in OfTrade => s[1].op \in OfTrade /\ s[1].t /= r[i].t
    BY <1>1, <2>1
  <2>5. TaskOK(r[i], others, exits, more, top)
    BY <1>2, <2>2, <2>4 DEF TaskOK, Ahead, Stages, Entering
  <2> QED
    BY <2>2, <2>3, <2>5
<1>8. ASSUME NEW i \in 1..Len(r), NEW j \in 1..Len(r), i < j, r[j].op \in OfTrade
      PROVE  r[i].op \in OfTrade /\ r[i].t /= r[j].t
  <2>1. i + 1 < j + 1 /\ i + 1 \in 1..Len(s) /\ j + 1 \in 1..Len(s) /\ r[i] = s[i + 1] /\ r[j] = s[j + 1]
    BY <1>3, <1>8
  <2> QED
    BY <1>1, <1>8, <2>1
<1>9. TasksOK(r, others, exits, more, top)
  BY <1>2, <1>7, <1>8 DEF TasksOK
<1> QED
  BY <1>5, <1>6, <1>9 DEF r

\* Tasks that come before the rest.
LEMMA MoreOK ==
    ASSUME NEW s, NEW ids, NEW exits, NEW some, NEW last, TasksOK(s, ids, exits, some, last), s /= <<>>,
           Head(s).op \in Ahead,
           NEW a, IsSeq(a), \A i \in 1..Len(a) : TaskOK(a[i], ids, exits, some, last) /\ a[i].op /= "flush",
           \A i \in 1..Len(a) : i > 1 => a[i].op \in Ahead,
           \A i, j \in 1..Len(a) : i < j => a[i].op \in OfTrade /\ a[i].t /= a[j].t,
           \A j \in 1..Len(s) : s[j].op \in OfTrade =>
               \A i \in 1..Len(a) : a[i].op \in OfTrade /\ a[i].t /= s[j].t,
           NEW c, c = a \o s
    PROVE  /\ TasksOK(c, ids, exits, some, last) /\ c /= <<>>
           /\ Head(c) = IF a = <<>> THEN Head(s) ELSE a[1]
<1>0. IsSeq(s)
  BY DEF TasksOK
<1>1. /\ Len(a) \in Nat /\ Len(s) \in Nat /\ Len(s) > 0 /\ IsSeq(s) /\ Head(s) = s[1]
  BY <1>0, SeqTail, SeqLen
<1>2. /\ IsSeq(c) /\ Len(c) = Len(a) + Len(s)
      /\ \A i \in 1..Len(c) :
            \/ i \in 1..Len(a) /\ c[i] = a[i]
            \/ i - Len(a) \in 1..Len(s) /\ c[i] = s[i - Len(a)]
  BY <1>1, SeqConcat
<1>3. ASSUME NEW i \in 1..Len(c) PROVE TaskOK(c[i], ids, exits, some, last)
  BY <1>2 DEF TasksOK
<1>4. ASSUME NEW i \in 1..Len(c), i > 1 PROVE c[i].op \in Ahead
  <2>1. CASE i \in 1..Len(a) /\ c[i] = a[i]
    BY <1>4, <2>1
  <2>2. CASE i - Len(a) \in 1..Len(s) /\ c[i] = s[i - Len(a)]
    <3>1. i - Len(a) = 1 \/ i - Len(a) > 1
      BY <1>1, <2>2
    <3> QED
      BY <1>1, <2>2, <3>1 DEF TasksOK
  <2> QED
    BY <1>2, <2>1, <2>2
<1>5. ASSUME NEW i \in 1..Len(c) PROVE c[i].op = "flush" <=> i = Len(c)
  <2>1. CASE i \in 1..Len(a) /\ c[i] = a[i]
    BY <1>1, <1>2, <2>1
  <2>2. CASE i - Len(a) \in 1..Len(s) /\ c[i] = s[i - Len(a)]
    <3>1. c[i].op = "flush" <=> i - Len(a) = Len(s)
      BY <2>2 DEF TasksOK
    <3> QED
      BY <1>1, <1>2, <3>1
  <2> QED
    BY <1>2, <2>1, <2>2
<1>6. ASSUME NEW i \in 1..Len(c), NEW j \in 1..Len(c), i < j, c[j].op \in OfTrade
      PROVE  c[i].op \in OfTrade /\ c[i].t /= c[j].t
  <2>1. CASE j \in 1..Len(a) /\ c[j] = a[j]
    <3>1. i \in 1..Len(a)
      BY <1>1, <1>6, <2>1
    <3>2. c[i] = a[i]
      BY <1>1, <1>2, <3>1
    <3> QED
      BY <1>6, <2>1, <3>1, <3>2
  <2>2. CASE j - Len(a) \in 1..Len(s) /\ c[j] = s[j - Len(a)] /\ i \in 1..Len(a) /\ c[i] = a[i]
    BY <1>6, <2>2
  <2>3. CASE /\ j - Len(a) \in 1..Len(s) /\ c[j] = s[j - Len(a)]
             /\ i - Len(a) \in 1..Len(s) /\ c[i] = s[i - Len(a)]
    <3>1. i - Len(a) < j - Len(a)
      BY <1>1, <1>6
    <3> QED
      BY <1>6, <2>3, <3>1 DEF TasksOK
  <2> QED
    BY <1>2, <2>1, <2>2, <2>3
<1>7. IsSeq(c) /\ Len(c) > 0 /\ Len(c) \in Nat
  BY <1>1, <1>2
<1>8. c /= <<>> /\ Head(c) = c[1]
  BY <1>7, SeqNone, SeqTail
<1>9. c[1] = IF a = <<>> THEN Head(s) ELSE a[1]
  <2>1. CASE a = <<>>
    <3>1. Len(a) = 0
      BY <2>1, SeqNone
    <3> QED
      BY <1>1, <1>2, <1>7, <2>1, <3>1
  <2>2. CASE a /= <<>>
    <3>1. Len(a) > 0
      BY <2>2, SeqTail
    <3> QED
      BY <1>1, <1>2, <1>7, <2>2, <3>1
  <2> QED
    BY <2>1, <2>2
<1>10. TasksOK(c, ids, exits, some, last)
  BY <1>3, <1>4, <1>5, <1>6, <1>7 DEF TasksOK
<1> QED
  BY <1>8, <1>9, <1>10

-----------------------------------------------------------------------------
(* The orders *)

LEMMA OrdersFacts ==
    ASSUME NEW os, OrdersOK(os)
    PROVE  /\ IsSeq(os) /\ Len(os) \in Nat /\ DOMAIN os = 1..Len(os)
           /\ IsFiniteSet(LiveIn(os)) /\ Cardinality(LiveIn(os)) \in Nat
           /\ LiveIn(os) \subseteq 1..Len(os) /\ FilledIn(os) \subseteq 1..Len(os)
           /\ LiveIn(os) \cap FilledIn(os) = {}
<1>1. IsSeq(os)
  BY DEF OrdersOK
<1>2. Len(os) \in Nat /\ DOMAIN os = 1..Len(os)
  BY <1>1, SeqLen
<1>3. LiveIn(os) \subseteq 1..Len(os) /\ FilledIn(os) \subseteq 1..Len(os) /\ LiveIn(os) \cap FilledIn(os) = {}
  BY DEF LiveIn, FilledIn
<1>4. IsFiniteSet(1..Len(os))
  BY <1>2, FS_Interval
<1>5. IsFiniteSet(LiveIn(os)) /\ Cardinality(LiveIn(os)) \in Nat
  BY <1>3, <1>4, FS_Subset, FS_CardinalityType
<1> QED
  BY <1>1, <1>2, <1>3, <1>5

LEMMA PlaceMakes ==
    ASSUME NEW os, OrdersOK(os), NEW rung, NEW ot, ot = Append(os, [rung |-> rung, st |-> "live"])
    PROVE  /\ OrdersOK(ot) /\ Len(ot) = Len(os) + 1
           /\ LiveIn(ot) = LiveIn(os) \cup {Len(os) + 1} /\ FilledIn(ot) = FilledIn(os)
           /\ Cardinality(LiveIn(ot)) = Cardinality(LiveIn(os)) + 1
<1>1. /\ IsSeq(os) /\ Len(os) \in Nat /\ IsFiniteSet(LiveIn(os)) /\ LiveIn(os) \subseteq 1..Len(os)
  BY OrdersFacts
<1> DEFINE o == [rung |-> rung, st |-> "live"]
<1>2. /\ IsSeq(ot) /\ Len(ot) = Len(os) + 1 /\ ot[Len(os) + 1] = o
      /\ \A i \in 1..Len(os) : ot[i] = os[i]
  BY <1>1, SeqAppend
<1>3. OrderOK(o) /\ o.st = "live"
  BY DEF OrderOK
<1> HIDE DEF o
<1>4. \A i \in 1..Len(ot) : i \in 1..Len(os) \/ i = Len(os) + 1
  BY <1>1, <1>2
<1>5. 1..Len(os) \subseteq 1..Len(ot) /\ Len(os) + 1 \in 1..Len(ot) /\ Len(os) + 1 \notin 1..Len(os)
  BY <1>1, <1>2
<1>6. \A i \in 1..Len(ot) : OrderOK(ot[i])
  BY <1>2, <1>3, <1>4 DEF OrdersOK
<1>7. LiveIn(ot) = LiveIn(os) \cup {Len(os) + 1}
  BY <1>2, <1>3, <1>4, <1>5 DEF LiveIn
<1>8. FilledIn(ot) = FilledIn(os)
  BY <1>2, <1>3, <1>4, <1>5 DEF FilledIn
<1>9. Cardinality(LiveIn(ot)) = Cardinality(LiveIn(os)) + 1
  BY <1>1, <1>5, <1>7, FS_AddElement
<1> QED
  BY <1>2, <1>6, <1>7, <1>8, <1>9 DEF OrdersOK

\* A working order ends: it was cancelled, or it filled.
LEMMA EndMakes ==
    ASSUME NEW os, OrdersOK(os), NEW i \in LiveIn(os), NEW st \in {"cancelled", "filled"},
           NEW ot, ot = [os EXCEPT ![i].st = st]
    PROVE  /\ OrdersOK(ot) /\ Len(ot) = Len(os)
           /\ LiveIn(ot) = LiveIn(os) \ {i}
           /\ FilledIn(ot) = FilledIn(os) \cup (IF st = "filled" THEN {i} ELSE {})
           /\ Cardinality(LiveIn(ot)) = Cardinality(LiveIn(os)) - 1
<1>1. /\ IsSeq(os) /\ Len(os) \in Nat /\ IsFiniteSet(LiveIn(os)) /\ LiveIn(os) \subseteq 1..Len(os)
      /\ DOMAIN os = 1..Len(os)
  BY OrdersFacts
<1>2. ot = [k \in 1..Len(os) |-> ot[k]] /\ \A k \in 1..Len(os) : ot[k] = IF k = i THEN [os[i] EXCEPT !.st = st] ELSE os[k]
  BY <1>1
<1>3. IsSeq(ot) /\ Len(ot) = Len(os)
  BY <1>1, <1>2, SeqMade
<1>4. os[i] = [rung |-> os[i].rung, st |-> os[i].st]
  BY <1>1 DEF OrdersOK, OrderOK
<1>5. OrderOK(ot[i]) /\ ot[i].st = st
  <2>1. ot[i] = [os[i] EXCEPT !.st = st]
    BY <1>1, <1>2
  <2>2. ot[i] = [rung |-> os[i].rung, st |-> st]
    BY <1>4, <2>1
  <2> QED
    BY <2>2 DEF OrderOK
<1>6. \A k \in 1..Len(ot) : OrderOK(ot[k])
  BY <1>2, <1>3, <1>5 DEF OrdersOK
<1>7. LiveIn(ot) = LiveIn(os) \ {i}
  BY <1>1, <1>2, <1>3, <1>5 DEF LiveIn
<1>8. FilledIn(ot) = FilledIn(os) \cup (IF st = "filled" THEN {i} ELSE {})
  <2>1. os[i].st = "live"
    BY DEF LiveIn
  <2> QED
    BY <1>1, <1>2, <1>3, <1>5, <2>1 DEF FilledIn
<1>9. Cardinality(LiveIn(ot)) = Cardinality(LiveIn(os)) - 1
  BY <1>1, <1>7, FS_RemoveElement
<1> QED
  BY <1>3, <1>6, <1>7, <1>8, <1>9 DEF OrdersOK

LEMMA CancelMakes ==
    ASSUME NEW os, OrdersOK(os), NEW i \in LiveIn(os), NEW ot, ot = [os EXCEPT ![i].st = "cancelled"]
    PROVE  /\ OrdersOK(ot) /\ Len(ot) = Len(os)
           /\ LiveIn(ot) = LiveIn(os) \ {i} /\ FilledIn(ot) = FilledIn(os)
           /\ Cardinality(LiveIn(ot)) = Cardinality(LiveIn(os)) - 1
<1> DEFINE st == "cancelled"
<1>1. st \in {"cancelled", "filled"} /\ st /= "filled" /\ ot = [os EXCEPT ![i].st = st]
  OBVIOUS
<1> HIDE DEF st
<1>2. OrdersOK(ot) /\ Len(ot) = Len(os)
  BY <1>1, EndMakes
<1>3. LiveIn(ot) = LiveIn(os) \ {i}
  BY <1>1, EndMakes
<1>4. FilledIn(ot) = FilledIn(os) \cup (IF st = "filled" THEN {i} ELSE {})
  BY <1>1, EndMakes
<1>5. Cardinality(LiveIn(ot)) = Cardinality(LiveIn(os)) - 1
  BY <1>1, EndMakes
<1> QED
  BY <1>1, <1>2, <1>3, <1>4, <1>5

LEMMA FillMakes ==
    ASSUME NEW os, OrdersOK(os), NEW i \in LiveIn(os), NEW ot, ot = [os EXCEPT ![i].st = "filled"]
    PROVE  /\ OrdersOK(ot) /\ Len(ot) = Len(os)
           /\ LiveIn(ot) = LiveIn(os) \ {i} /\ FilledIn(ot) = FilledIn(os) \cup {i}
           /\ Cardinality(LiveIn(ot)) = Cardinality(LiveIn(os)) - 1
<1> DEFINE st == "filled"
<1>1. st \in {"cancelled", "filled"} /\ st = "filled" /\ ot = [os EXCEPT ![i].st = st]
  OBVIOUS
<1> HIDE DEF st
<1>2. OrdersOK(ot) /\ Len(ot) = Len(os)
  BY <1>1, EndMakes
<1>3. LiveIn(ot) = LiveIn(os) \ {i}
  BY <1>1, EndMakes
<1>4. FilledIn(ot) = FilledIn(os) \cup (IF st = "filled" THEN {i} ELSE {})
  BY <1>1, EndMakes
<1>5. Cardinality(LiveIn(ot)) = Cardinality(LiveIn(os)) - 1
  BY <1>1, EndMakes
<1> QED
  BY <1>1, <1>2, <1>3, <1>4, <1>5

-----------------------------------------------------------------------------
(* The trades of a book *)

LEMMA StandingFacts ==
    ASSUME NEW book, NEW os, IsFiniteSet(DOMAIN book)
    PROVE  /\ IsFiniteSet(Standing(book, os)) /\ Cardinality(Standing(book, os)) \in Nat
           /\ Cardinality(Standing(book, os)) <= Cardinality(DOMAIN book)
<1>1. Standing(book, os) \in SUBSET DOMAIN book
  BY DEF Standing
<1> QED
  BY <1>1, FS_Subset, FS_CardinalityType

\* What stands of one book stands of another, but for at most one trade.
LEMMA StandingKept ==
    ASSUME NEW book, NEW os, NEW other, NEW ot, IsFiniteSet(DOMAIN book), IsFiniteSet(DOMAIN other)
    PROVE  /\ Standing(book, os) \subseteq Standing(other, ot) =>
                 Cardinality(Standing(book, os)) <= Cardinality(Standing(other, ot))
           /\ \A t : Standing(book, os) \subseteq Standing(other, ot) \cup {t} =>
                 Cardinality(Standing(book, os)) <= Cardinality(Standing(other, ot)) + 1
           /\ \A t : Standing(book, os) \cup {t} \subseteq Standing(other, ot) /\ t \notin DOMAIN book =>
                 Cardinality(Standing(book, os)) + 1 <= Cardinality(Standing(other, ot))
<1> DEFINE A == Standing(book, os)
           B == Standing(other, ot)
<1>1. IsFiniteSet(A) /\ IsFiniteSet(B) /\ Cardinality(A) \in Nat /\ Cardinality(B) \in Nat /\ A \subseteq DOMAIN book
  BY StandingFacts DEF Standing
<1> HIDE DEF A, B
<1>2. A \subseteq B => Cardinality(A) <= Cardinality(B)
  BY <1>1, FS_Subset
<1>3. ASSUME NEW t, A \subseteq B \cup {t} PROVE Cardinality(A) <= Cardinality(B) + 1
  <2>1. IsFiniteSet(B \cup {t}) /\ Cardinality(B \cup {t}) <= Cardinality(B) + 1
    BY <1>1, FS_AddElement
  <2>2. Cardinality(A) <= Cardinality(B \cup {t})
    BY <1>3, <2>1, FS_Subset
  <2>3. Cardinality(B \cup {t}) \in Nat
    BY <2>1, FS_CardinalityType
  <2> QED
    BY <1>1, <2>1, <2>2, <2>3
<1>4. ASSUME NEW t, A \cup {t} \subseteq B, t \notin A PROVE Cardinality(A) + 1 <= Cardinality(B)
  <2>1. Cardinality(A \cup {t}) = Cardinality(A) + 1
    BY <1>1, <1>4, FS_AddElement
  <2>2. Cardinality(A \cup {t}) <= Cardinality(B)
    BY <1>1, <1>4, FS_Subset
  <2> QED
    BY <2>1, <2>2
<1> QED
  BY <1>1, <1>2, <1>3, <1>4 DEF A, B

LEMMA BookFacts ==
    ASSUME NEW book, NEW n, NEW last, BookOK(book, n, last)
    PROVE  /\ IsFiniteSet(DOMAIN book) /\ DOMAIN book \subseteq 1..last
           /\ \A t \in DOMAIN book : TradeOK(book[t], n)
           /\ \A t \in DOMAIN book : book[t].id \in 0..n
           /\ \A t, u \in DOMAIN book : t /= u => book[t].id /= book[u].id \/ book[t].id = 0
<1>1. IsFiniteSet(DOMAIN book) /\ DOMAIN book \subseteq 1..last
  BY DEF BookOK
<1>2. \A t \in DOMAIN book : TradeOK(book[t], n)
  BY DEF BookOK
<1>3. \A t \in DOMAIN book : book[t].id \in 0..n
  BY <1>2 DEF TradeOK
<1>4. \A t, u \in DOMAIN book : t /= u => book[t].id /= book[u].id \/ book[t].id = 0
  BY DEF BookOK
<1> QED
  BY <1>1, <1>2, <1>3, <1>4

\* Some trades of a book, under the ids they have.
LEMMA BookPart ==
    ASSUME NEW book, NEW n \in Nat, NEW last \in Nat, BookOK(book, n, last),
           NEW m \in Nat, NEW l \in Nat, n <= m, last <= l,
           NEW other, DOMAIN other \subseteq DOMAIN book,
           \A t \in DOMAIN other : TradeOK(other[t], n) /\ other[t].id = book[t].id
    PROVE  BookOK(other, m, l)
<1>1. /\ IsFiniteSet(DOMAIN book) /\ DOMAIN book \subseteq 1..last
      /\ \A t, u \in DOMAIN book : t /= u => book[t].id /= book[u].id \/ book[t].id = 0
  BY BookFacts
<1>2. IsFiniteSet(DOMAIN other) /\ DOMAIN other \subseteq 1..l
  BY <1>1, FS_Subset
<1>3. ASSUME NEW t \in DOMAIN other PROVE TradeOK(other[t], m)
  BY DEF TradeOK
<1>4. \A t, u \in DOMAIN other : t /= u => other[t].id /= other[u].id \/ other[t].id = 0
  BY <1>1
<1> QED
  BY <1>2, <1>3, <1>4 DEF BookOK

\* A trade is added to a book, or changed in it.
LEMMA BookWith ==
    ASSUME NEW book, NEW n \in Nat, NEW last \in Nat, BookOK(book, n, last),
           NEW m \in Nat, NEW l \in Nat, n <= m, last <= l,
           NEW t \in 1..l, NEW r, TradeOK(r, m),
           r.id = 0 \/ r.id > n \/ (t \in DOMAIN book /\ r.id = book[t].id),
           NEW other, DOMAIN other = DOMAIN book \cup {t}, other[t] = r,
           \A u \in DOMAIN book : u /= t => other[u] = book[u]
    PROVE  BookOK(other, m, l)
<1>1. /\ IsFiniteSet(DOMAIN book) /\ DOMAIN book \subseteq 1..last
      /\ \A u \in DOMAIN book : TradeOK(book[u], n) /\ book[u].id \in 0..n
      /\ \A u, v \in DOMAIN book : u /= v => book[u].id /= book[v].id \/ book[u].id = 0
  BY BookFacts
<1>2. IsFiniteSet(DOMAIN other) /\ DOMAIN other = DOMAIN book \cup {t} /\ DOMAIN other \subseteq 1..l
  <2>1. IsFiniteSet(DOMAIN book \cup {t})
    BY <1>1, FS_AddElement
  <2>2. 1..last \subseteq 1..l
    OBVIOUS
  <2> QED
    BY <1>1, <2>1, <2>2
<1>3. other[t] = r /\ \A u \in DOMAIN book : u /= t => other[u] = book[u]
  OBVIOUS
<1>4. ASSUME NEW u \in DOMAIN other PROVE TradeOK(other[u], m)
  <2>1. CASE u = t
    BY <1>3, <2>1
  <2>2. CASE u /= t
    BY <1>1, <1>2, <1>3, <2>2 DEF TradeOK
  <2> QED
    BY <2>1, <2>2
<1>5. r.id \in 0..m
  BY DEF TradeOK
<1>6. ASSUME NEW u \in DOMAIN other, NEW v \in DOMAIN other, u /= v
      PROVE  other[u].id /= other[v].id \/ other[u].id = 0
  <2>1. CASE u /= t /\ v /= t
    BY <1>1, <1>2, <1>3, <1>6, <2>1
  <2>2. CASE u = t
    <3>1. v \in DOMAIN book /\ other[v] = book[v] /\ other[u] = r /\ book[v].id \in 0..n
      BY <1>1, <1>2, <1>3, <1>6, <2>2
    <3> QED
      BY <1>1, <1>5, <1>6, <2>2, <3>1
  <2>3. CASE v = t /\ u /= t
    <3>1. u \in DOMAIN book /\ other[u] = book[u] /\ other[v] = r /\ book[u].id \in 0..n
      BY <1>1, <1>2, <1>3, <1>6, <2>3
    <3> QED
      BY <1>1, <1>5, <1>6, <2>3, <3>1
  <2> QED
    BY <2>1, <2>2, <2>3
<1> QED
  BY <1>2, <1>4, <1>6 DEF BookOK

\* A trade takes the order placed last.
LEMMA BookPlaced ==
    ASSUME NEW book, NEW n \in Nat, NEW last \in Nat, BookOK(book, n, last), NEW m, m = n + 1,
           NEW t \in 1..last, NEW r, TradeOK(r, m), r.id = m,
           NEW other, DOMAIN other = DOMAIN book \cup {t}, other[t] = r,
           \A u \in DOMAIN book : u /= t => other[u] = book[u]
    PROVE  BookOK(other, m, last)
<1>1. m \in Nat /\ n <= m /\ r.id > n
  OBVIOUS
<1>2. last <= last
  OBVIOUS
<1> QED
  BY <1>1, <1>2, BookWith

LEMMA OneMore ==
    ASSUME NEW s, NEW ids, NEW exits, NEW some, NEW last, TasksOK(s, ids, exits, some, last), s /= <<>>,
           Head(s).op \in Ahead,
           NEW x, TaskOK(x, ids, exits, some, last), x.op /= "flush",
           \A j \in 1..Len(s) : s[j].op \in OfTrade => x.op \in OfTrade /\ x.t /= s[j].t
    PROVE  /\ TasksOK(<<x>> \o s, ids, exits, some, last)
           /\ <<x>> \o s /= <<>> /\ Head(<<x>> \o s) = x
<1> DEFINE a == <<x>>
<1>1. IsSeq(a) /\ Len(a) = 1 /\ a[1] = x
  BY SeqOne
<1>2. a /= <<>>
  BY <1>1, SeqNone
<1> HIDE DEF a
<1>3. \A i \in 1..Len(a) : i = 1
  BY <1>1
<1>4. \A i \in 1..Len(a) : TaskOK(a[i], ids, exits, some, last) /\ a[i].op /= "flush"
  BY <1>1, <1>3
<1>5. \A i \in 1..Len(a) : i > 1 => a[i].op \in Ahead
  BY <1>3
<1>6. \A i, j \in 1..Len(a) : i < j => a[i].op \in OfTrade /\ a[i].t /= a[j].t
  BY <1>3
<1>7. \A j \in 1..Len(s) : s[j].op \in OfTrade => \A i \in 1..Len(a) : a[i].op \in OfTrade /\ a[i].t /= s[j].t
  BY <1>1, <1>3
<1> DEFINE c == a \o s
<1> HIDE DEF c
<1>8. TasksOK(c, ids, exits, some, last)
  BY <1>1, <1>4, <1>5, <1>6, <1>7, MoreOK DEF c
<1>9. c /= <<>>
  BY <1>1, <1>4, <1>5, <1>6, <1>7, MoreOK DEF c
<1>10. Head(c) = IF a = <<>> THEN Head(s) ELSE a[1]
  BY <1>1, <1>4, <1>5, <1>6, <1>7, MoreOK DEF c
<1>11. Head(c) = x
  BY <1>1, <1>2, <1>10
<1> QED
  BY <1>8, <1>9, <1>11 DEF a, c

\* The call that comes next instead of the rest.
LEMMA NextTask ==
    ASSUME NEW s, NEW ids, NEW exits, NEW some, NEW last, TasksOK(s, ids, exits, some, last),
           s /= <<>>, Head(s).op /= "flush",
           NEW others, NEW more, NEW top, \A t \in ids \ others : Head(s).op \in OfTrade => t = Head(s).t,
           NEW x, TaskOK(x, others, exits, more, top), x.op /= "flush",
           Head(s).op \in OfTrade => x.op \in OfTrade /\ x.t = Head(s).t
    PROVE  /\ TasksOK(<<x>> \o Tail(s), others, exits, more, top)
           /\ <<x>> \o Tail(s) /= <<>> /\ Head(<<x>> \o Tail(s)) = x
<1> DEFINE r == Tail(s)
<1>1. TasksOK(r, others, exits, more, top) /\ r /= <<>> /\ Head(r).op \in Ahead
  BY RestOK
<1>2. IsSeq(s)
  BY DEF TasksOK
<1>3. /\ Len(s) \in Nat /\ Len(s) > 0 /\ Head(s) = s[1]
      /\ \A i \in 1..Len(r) : i + 1 \in 1..Len(s) /\ r[i] = s[i + 1]
  BY <1>2, SeqTail, SeqLen
<1>4. ASSUME NEW j \in 1..Len(r), r[j].op \in OfTrade PROVE x.op \in OfTrade /\ x.t /= r[j].t
  <2>1. 1 \in 1..Len(s) /\ j + 1 \in 1..Len(s) /\ 1 < j + 1 /\ r[j] = s[j + 1]
    BY <1>3
  <2>2. s[1].op \in OfTrade /\ s[1].t /= s[j + 1].t
    BY <1>4, <2>1, TasksAre
  <2> QED
    BY <1>3, <2>1, <2>2
<1> HIDE DEF r
<1>5. /\ TasksOK(<<x>> \o r, others, exits, more, top)
      /\ <<x>> \o r /= <<>> /\ Head(<<x>> \o r) = x
  BY <1>1, <1>4, OneMore
<1> QED
  BY <1>5 DEF r

-----------------------------------------------------------------------------
(* The worker *)

LEMMA SaidKept ==
    ASSUME TypeInv, setup' = setup, told \subseteq told', budget'["lose"] \in Nat, budget'["lose"] <= budget["lose"]
    PROVE  (SaidNaked => SaidNaked') /\ (SaidGone => SaidGone') /\ (Lost => Lost')
<1>1. budget["lose"] \in Nat /\ setup.faults["lose"] \in Nat
  BY DEF TypeInv, Setup, Fault
<1>2. Lost => Lost'
  BY <1>1 DEF Lost
<1>3. Forgets => Forgets'
  BY DEF Forgets
<1>4. SaidNaked => SaidNaked'
  BY <1>2 DEF SaidNaked
<1>5. SaidGone => SaidGone'
  BY <1>2, <1>3 DEF SaidGone
<1> QED
  BY <1>2, <1>4, <1>5

LEMMA AtHead ==
    ASSUME NEW s, NEW ids, NEW exits, NEW some, NEW last, TasksOK(s, ids, exits, some, last), s /= <<>>
    PROVE  TaskOK(Head(s), ids, exits, some, last)
<1>1. IsSeq(s)
  BY DEF TasksOK
<1>2. Len(s) \in Nat /\ Len(s) > 0 /\ Head(s) = s[1]
  BY <1>1, SeqLen, SeqTail
<1>3. 1 \in 1..Len(s)
  BY <1>2
<1> QED
  BY <1>2, <1>3, TasksAre

LEMMA AtWork ==
    ASSUME IInv, mode = "up", todo /= <<>>
    PROVE  /\ TypeInv /\ setup \in Setup /\ hold \in Int /\ entries \in Nat /\ OrdersOK(orders)
           /\ TasksOK(todo, Tracked, setup.exits, feed /= <<>>, entries)
           /\ TaskOK(Head(todo), Tracked, setup.exits, feed /= <<>>, entries)
           /\ BookOK(trades, Len(orders), entries)
           /\ SaidNaked \/ \A t \in Tracked : CoveredBy(trades[t], t, orders, todo)
           /\ SaidNaked \/ hold - Cardinality(LiveIn(orders)) <= Hand(todo, Entering \cup Replacing)
           /\ SaidGone \/ hold - Cardinality(Standing(trades, orders)) <= Hand(todo, Entering)
           /\ "close failed" \in told => setup.exits
<1>1. Books = trades
  BY DEF Books
<1>2. TasksOK(todo, Tracked, setup.exits, feed /= <<>>, entries)
  BY DEF IInv, ModeInv
<1>3. TaskOK(Head(todo), Tracked, setup.exits, feed /= <<>>, entries)
  BY <1>2, AtHead
<1>4. TypeInv /\ setup \in Setup /\ hold \in Int /\ entries \in Nat /\ OrdersOK(orders)
  BY DEF IInv, TypeInv
<1>5. BookOK(trades, Len(orders), entries)
  BY <1>1 DEF IInv
<1>6. /\ SaidNaked \/ \A t \in Tracked : CoveredBy(trades[t], t, orders, todo)
      /\ SaidNaked \/ hold - Cardinality(LiveIn(orders)) <= Hand(todo, Entering \cup Replacing)
      /\ SaidGone \/ hold - Cardinality(Standing(trades, orders)) <= Hand(todo, Entering)
  BY <1>1 DEF IInv, Covered, Locked, Accounted, Tracked
<1>7. "close failed" \in told => setup.exits
  BY DEF IInv, ModeInv
<1> QED
  BY <1>2, <1>3, <1>4, <1>5, <1>6, <1>7

\* What a step of the worker has to show.
WorkerKeeps ==
    /\ mode' = "up" /\ setup' = setup /\ todo' /= <<>>
    /\ budget' \in [Fault -> Nat] /\ \A f \in Fault : budget'[f] <= budget[f]
    /\ "close failed" \in told' => setup.exits
    /\ hold' \in Int /\ entries' \in Nat /\ OrdersOK(orders')
    /\ IsSeq(feed') /\ \A i \in 1..Len(feed') : feed'[i] \in FilledIn(orders')
    /\ TasksOK(todo', DOMAIN trades', setup.exits, feed' /= <<>>, entries')
    /\ BookOK(trades', Len(orders'), entries')
    /\ SaidNaked' \/ \A t \in DOMAIN trades' : CoveredBy(trades'[t], t, orders', todo')
    /\ SaidNaked' \/ hold' - Cardinality(LiveIn(orders')) <= Hand(todo', Entering \cup Replacing)
    /\ SaidGone' \/ hold' - Cardinality(Standing(trades', orders')) <= Hand(todo', Entering)

LEMMA UpKeeps == ASSUME IInv, mode = "up", WorkerKeeps PROVE IInv'
<1>0. mode' = "up" /\ setup' = setup
  BY DEF WorkerKeeps
<1>1. Books' = trades'
  BY <1>0 DEF Books
<1>2. TypeInv'
  <2>1. setup \in Setup /\ ~setup.anywhere /\ setup.faults \in [Fault -> Nat] /\ budget \in [Fault -> Nat]
        /\ \A f \in Fault : budget[f] <= setup.faults[f]
    BY DEF IInv, TypeInv, Setup
  <2>2. budget' \in [Fault -> Nat] /\ \A f \in Fault : budget'[f] <= budget[f]
    BY DEF WorkerKeeps
  <2>3. \A f \in Fault : budget'[f] <= setup.faults[f]
    BY <2>1, <2>2
  <2> QED
    BY <1>0, <2>1, <2>2, <2>3 DEF TypeInv, WorkerKeeps
<1>3. ~Doing("adopt")'
  <2>1. TasksOK(todo', DOMAIN trades', setup.exits, feed' /= <<>>, entries') /\ todo' /= <<>>
    BY DEF WorkerKeeps
  <2>2. TaskOK(Head(todo'), DOMAIN trades', setup.exits, feed' /= <<>>, entries')
    BY <2>1, AtHead
  <2>3. Head(todo').op /= "adopt"
    BY <2>2 DEF TaskOK, Stages, OfTrade, Replacing, Entering
  <2> QED
    BY <2>3 DEF Doing
<1>4. ModeInv'
  BY <1>0, <1>3 DEF ModeInv, Tracked, WorkerKeeps
<1>5. Covered' /\ Locked' /\ Accounted'
  BY <1>1 DEF Covered, Locked, Accounted, WorkerKeeps
<1>6. BookOK(Books', Len(orders'), entries')
  BY <1>1 DEF WorkerKeeps
<1> QED
  BY <1>2, <1>4, <1>5, <1>6 DEF IInv

LEMMA HandIs == ASSUME NEW s, NEW ops PROVE Hand(s, ops) \in {0, 1} /\ 0 <= Hand(s, ops)
<1>1. Hand(s, ops) \in {0, 1}
  BY DEF Hand
<1> QED
  BY <1>1

\* A step of the worker, the venue calls in it apart.
WorkStep ==
    /\ mode' = "up" /\ setup' = setup /\ feed' = feed
    /\ budget' \in [Fault -> Nat] /\ \A f \in Fault : budget'[f] <= budget[f]
    /\ told \subseteq told' /\ ("close failed" \in told' => setup.exits)
    /\ entries' \in Nat /\ todo' /= <<>>

NakedKept ==
    \/ SaidNaked'
    \/ /\ \A t \in DOMAIN trades' : (t \in Tracked => CoveredBy(trades[t], t, orders, todo))
                                        => CoveredBy(trades'[t], t, orders', todo')
       /\ hold' - Cardinality(LiveIn(orders')) - Hand(todo', Entering \cup Replacing)
              <= hold - Cardinality(LiveIn(orders)) - Hand(todo, Entering \cup Replacing)
GoneKept ==
    \/ SaidGone'
    \/ hold' - Cardinality(Standing(trades', orders')) - Hand(todo', Entering)
           <= hold - Cardinality(Standing(trades, orders)) - Hand(todo, Entering)

LEMMA SaidKeptUp == ASSUME IInv, WorkStep PROVE (SaidNaked => SaidNaked') /\ (SaidGone => SaidGone') /\ (Lost => Lost')
<1>1. TypeInv
  BY DEF IInv
<1>2. setup' = setup /\ told \subseteq told' /\ budget'["lose"] \in Nat /\ budget'["lose"] <= budget["lose"]
  BY DEF WorkStep, Fault
<1> QED
  BY <1>1, <1>2, SaidKept

LEMMA NewBook ==
    ASSUME IInv, mode = "up", todo /= <<>>, WorkStep, hold' \in Int,
           OrdersOK(orders'), FilledIn(orders') = FilledIn(orders),
           TasksOK(todo', DOMAIN trades', setup.exits, feed' /= <<>>, entries'),
           BookOK(trades', Len(orders'), entries'), NakedKept, GoneKept
    PROVE  IInv'
<1>1. /\ TypeInv /\ hold \in Int /\ OrdersOK(orders) /\ BookOK(trades, Len(orders), entries)
      /\ SaidNaked \/ \A t \in Tracked : CoveredBy(trades[t], t, orders, todo)
      /\ SaidNaked \/ hold - Cardinality(LiveIn(orders)) <= Hand(todo, Entering \cup Replacing)
      /\ SaidGone \/ hold - Cardinality(Standing(trades, orders)) <= Hand(todo, Entering)
  BY AtWork
<1>2. (SaidNaked => SaidNaked') /\ (SaidGone => SaidGone')
  BY SaidKeptUp
<1>3. SaidNaked' \/ \A t \in DOMAIN trades' : CoveredBy(trades'[t], t, orders', todo')
  BY <1>1, <1>2 DEF NakedKept
<1>4. SaidNaked' \/ hold' - Cardinality(LiveIn(orders')) <= Hand(todo', Entering \cup Replacing)
  <2>1. Cardinality(LiveIn(orders)) \in Nat /\ Cardinality(LiveIn(orders')) \in Nat
    BY <1>1, OrdersFacts
  <2>2. Hand(todo, Entering \cup Replacing) \in {0, 1} /\ Hand(todo', Entering \cup Replacing) \in {0, 1}
    BY HandIs
  <2>3. \/ SaidNaked'
        \/ hold' - Cardinality(LiveIn(orders')) - Hand(todo', Entering \cup Replacing)
              <= hold - Cardinality(LiveIn(orders)) - Hand(todo, Entering \cup Replacing)
    BY DEF NakedKept
  <2>4. SaidNaked' \/ hold - Cardinality(LiveIn(orders)) <= Hand(todo, Entering \cup Replacing)
    BY <1>1, <1>2
  <2> QED
    BY <1>1, <2>1, <2>2, <2>3, <2>4
<1>5. SaidGone' \/ hold' - Cardinality(Standing(trades', orders')) <= Hand(todo', Entering)
  <2>1. IsFiniteSet(DOMAIN trades) /\ IsFiniteSet(DOMAIN trades')
    BY <1>1, BookFacts
  <2>2. Cardinality(Standing(trades, orders)) \in Nat /\ Cardinality(Standing(trades', orders')) \in Nat
    BY <2>1, StandingFacts
  <2>3. Hand(todo, Entering) \in {0, 1} /\ Hand(todo', Entering) \in {0, 1}
    BY HandIs
  <2>4. \/ SaidGone'
        \/ hold' - Cardinality(Standing(trades', orders')) - Hand(todo', Entering)
              <= hold - Cardinality(Standing(trades, orders)) - Hand(todo, Entering)
    BY DEF GoneKept
  <2>5. SaidGone' \/ hold - Cardinality(Standing(trades, orders)) <= Hand(todo, Entering)
    BY <1>1, <1>2
  <2> QED
    BY <1>1, <2>2, <2>3, <2>4, <2>5
<1>6. IsSeq(feed) /\ \A i \in 1..Len(feed) : feed[i] \in FilledIn(orders)
  BY <1>1 DEF TypeInv
<1>7. WorkerKeeps
  BY <1>3, <1>4, <1>5, <1>6 DEF WorkerKeeps, WorkStep
<1> QED
  BY <1>7, UpKeeps

\* The venue and the ids of the trades stay as they are.
AsNaked ==
    \/ SaidNaked'
    \/ /\ Hand(todo, Entering \cup Replacing) <= Hand(todo', Entering \cup Replacing)
       /\ \A t \in Tracked : Handled(t, todo) => Handled(t, todo')
AsGone == SaidGone' \/ Hand(todo, Entering) <= Hand(todo', Entering)
SameIds ==
    /\ DOMAIN trades' = Tracked
    /\ \A t \in Tracked : trades'[t].id = trades[t].id /\ TradeOK(trades'[t], Len(orders))

LEMMA SameBook ==
    ASSUME IInv, mode = "up", todo /= <<>>, WorkStep, hold' = hold, orders' = orders, entries <= entries',
           SameIds, TasksOK(todo', Tracked, setup.exits, feed /= <<>>, entries'), AsNaked, AsGone
    PROVE  IInv'
<1>1. /\ hold \in Int /\ entries \in Nat /\ OrdersOK(orders) /\ BookOK(trades, Len(orders), entries)
  BY AtWork
<1>2. DOMAIN trades' = Tracked /\ DOMAIN trades = Tracked
  BY DEF SameIds, Tracked
<1>3. \A t \in Tracked : trades'[t].id = trades[t].id /\ TradeOK(trades'[t], Len(orders))
  BY DEF SameIds
<1>4. Len(orders) \in Nat /\ Cardinality(LiveIn(orders)) \in Nat
  BY <1>1, OrdersFacts
<1>5. BookOK(trades', Len(orders), entries')
  <2>1. entries' \in Nat
    BY DEF WorkStep
  <2>2. Len(orders) <= Len(orders)
    BY <1>4
  <2> QED
    BY <1>1, <1>2, <1>3, <1>4, <2>1, <2>2, BookPart
<1>6. Standing(trades', orders) = Standing(trades, orders)
  BY <1>2, <1>3 DEF Standing
<1>7. feed' = feed
  BY DEF WorkStep
<1>8. NakedKept
  <2>1. CASE SaidNaked'
    BY <2>1 DEF NakedKept
  <2>2. CASE /\ Hand(todo, Entering \cup Replacing) <= Hand(todo', Entering \cup Replacing)
             /\ \A t \in Tracked : Handled(t, todo) => Handled(t, todo')
    <3>1. \A t \in DOMAIN trades' : (t \in Tracked => CoveredBy(trades[t], t, orders, todo))
                                        => CoveredBy(trades'[t], t, orders, todo')
      BY <1>2, <1>3, <2>2 DEF CoveredBy
    <3>2. Hand(todo, Entering \cup Replacing) \in {0, 1} /\ Hand(todo', Entering \cup Replacing) \in {0, 1}
      BY HandIs
    <3>3. hold - Cardinality(LiveIn(orders)) - Hand(todo', Entering \cup Replacing)
              <= hold - Cardinality(LiveIn(orders)) - Hand(todo, Entering \cup Replacing)
      BY <1>1, <1>4, <2>2, <3>2
    <3> QED
      BY <3>1, <3>3 DEF NakedKept
  <2> QED
    BY <2>1, <2>2 DEF AsNaked
<1>9. GoneKept
  <2>1. CASE SaidGone'
    BY <2>1 DEF GoneKept
  <2>2. CASE Hand(todo, Entering) <= Hand(todo', Entering)
    <3>1. Cardinality(Standing(trades, orders)) \in Nat
      BY <1>1, BookFacts, StandingFacts
    <3>2. Hand(todo, Entering) \in {0, 1} /\ Hand(todo', Entering) \in {0, 1}
      BY HandIs
    <3>3. hold - Cardinality(Standing(trades, orders)) - Hand(todo', Entering)
              <= hold - Cardinality(Standing(trades, orders)) - Hand(todo, Entering)
      BY <1>1, <2>2, <3>1, <3>2
    <3> QED
      BY <1>6, <3>3 DEF GoneKept
  <2> QED
    BY <2>1, <2>2 DEF AsGone
<1>10. /\ hold' \in Int /\ OrdersOK(orders') /\ FilledIn(orders') = FilledIn(orders)
       /\ TasksOK(todo', DOMAIN trades', setup.exits, feed' /= <<>>, entries')
       /\ BookOK(trades', Len(orders'), entries')
  BY <1>1, <1>2, <1>5, <1>7
<1> QED
  BY <1>8, <1>9, <1>10, NewBook

LEMMA FreeHead ==
    ASSUME todo /= <<>>, Head(todo).op \notin Entering \cup Replacing
    PROVE  Hand(todo, Entering) = 0 /\ Hand(todo, Entering \cup Replacing) = 0 /\ AsNaked /\ AsGone
<1>1. Hand(todo, Entering) = 0 /\ Hand(todo, Entering \cup Replacing) = 0
  BY DEF Hand
<1>2. \A t : ~Handled(t, todo)
  BY DEF Handled
<1>3. Hand(todo', Entering) \in {0, 1} /\ Hand(todo', Entering \cup Replacing) \in {0, 1}
  BY HandIs
<1>4. 0 <= Hand(todo', Entering) /\ 0 <= Hand(todo', Entering \cup Replacing)
  BY <1>3
<1> QED
  BY <1>1, <1>2, <1>4 DEF AsNaked, AsGone

LEMMA SameTrades == ASSUME IInv, mode = "up", todo /= <<>>, trades' = trades PROVE SameIds
<1>1. BookOK(trades, Len(orders), entries)
  BY AtWork
<1>2. \A t \in Tracked : TradeOK(trades[t], Len(orders))
  BY <1>1, BookFacts DEF Tracked
<1> QED
  BY <1>2 DEF SameIds, Tracked

LEMMA Budgets ==
    ASSUME TypeInv, UNCHANGED budget \/ \E f \in Fault : Spend(f)
    PROVE  budget' \in [Fault -> Nat] /\ \A f \in Fault : budget'[f] <= budget[f]
<1>1. budget \in [Fault -> Nat]
  BY DEF TypeInv
<1>2. CASE UNCHANGED budget
  <2>1. \A f \in Fault : budget[f] \in Nat
    BY <1>1
  <2>2. \A f \in Fault : budget[f] <= budget[f]
    BY <2>1
  <2> QED
    BY <1>1, <1>2, <2>2
<1>3. ASSUME NEW f \in Fault, Spend(f)
      PROVE  budget' \in [Fault -> Nat] /\ \A g \in Fault : budget'[g] <= budget[g]
  <2>1. budget[f] \in Nat /\ budget[f] > 0 /\ budget' = [budget EXCEPT ![f] = @ - 1]
    BY <1>1, <1>3 DEF Spend
  <2>2. budget[f] - 1 \in Nat /\ budget[f] - 1 <= budget[f]
    BY <2>1
  <2>3. budget' \in [Fault -> Nat]
    BY <1>1, <2>1, <2>2
  <2>4. ASSUME NEW g \in Fault PROVE budget'[g] <= budget[g]
    <3>1. budget[g] \in Nat /\ budget'[g] = IF g = f THEN budget[f] - 1 ELSE budget[g]
      BY <1>1, <2>1
    <3> QED
      BY <2>2, <3>1
  <2> QED
    BY <2>3, <2>4
<1> QED
  BY <1>2, <1>3

\* The worker goes on to something else, and says what went wrong.
LEMMA GoesOn ==
    ASSUME IInv, mode = "up", todo /= <<>>, UNCHANGED budget \/ \E f \in Fault : Spend(f),
           NEW errors, told' = told \cup errors, "close failed" \in errors => setup.exits,
           UNCHANGED <<setup, mode, feed>>, entries' \in Nat, todo' /= <<>>
    PROVE  WorkStep
<1>1. TypeInv /\ ("close failed" \in told => setup.exits)
  BY AtWork
<1>2. budget' \in [Fault -> Nat] /\ \A f \in Fault : budget'[f] <= budget[f]
  BY <1>1, Budgets
<1> QED
  BY <1>1, <1>2 DEF WorkStep

\* After a lost reply any error says it.
LEMMA LostSaid ==
    ASSUME IInv, WorkStep, Spend("lose"), told' /= {}
    PROVE  SaidNaked' /\ SaidGone'
<1>1. /\ budget["lose"] \in Nat /\ setup.faults["lose"] \in Nat /\ budget["lose"] <= setup.faults["lose"]
      /\ setup' = setup /\ budget \in [Fault -> Nat]
  BY DEF IInv, TypeInv, Setup, Fault, WorkStep
<1>2. budget'["lose"] = budget["lose"] - 1
  BY <1>1 DEF Spend, Fault
<1>3. Lost'
  BY <1>1, <1>2 DEF Lost
<1> QED
  BY <1>3 DEF SaidNaked, SaidGone

\* The rest of the item, with the trades there are.
LEMMA Goes ==
    ASSUME IInv, mode = "up", todo /= <<>>, Head(todo).op /= "flush", NEW last
    PROVE  TasksOK(Rest, Tracked, setup.exits, feed /= <<>>, last) /\ Rest /= <<>> /\ Head(Rest).op \in Ahead
<1>1. TasksOK(todo, Tracked, setup.exits, feed /= <<>>, entries)
  BY AtWork
<1> QED
  BY <1>1, RestOK DEF Rest

LEMMA AheadFree == ASSUME NEW s, s /= <<>>, Head(s).op \in Ahead
                   PROVE  /\ Hand(s, Entering) = 0 /\ Hand(s, Entering \cup Replacing) = 0
                          /\ \A t : ~Handled(t, s)
  BY DEF Hand, Handled, Ahead, Stages, Entering, Replacing

LEMMA EnterKeeps == ASSUME IInv, mode = "up", Enter PROVE IInv'
<1>1. todo /= <<>> /\ Head(todo).op = "enter"
  BY DEF Enter, Doing
<1>2. /\ hold \in Int /\ entries \in Nat /\ OrdersOK(orders) /\ BookOK(trades, Len(orders), entries)
      /\ TypeInv /\ TasksOK(todo, Tracked, setup.exits, feed /= <<>>, entries)
  BY <1>1, AtWork
<1>3. Head(todo).op \notin Entering \cup Replacing /\ Head(todo).op /= "flush" /\ Head(todo).op \notin OfTrade
  BY <1>1 DEF Entering, Replacing, OfTrade
<1>4. Hand(todo, Entering) = 0 /\ Hand(todo, Entering \cup Replacing) = 0 /\ AsNaked /\ AsGone
  BY <1>1, <1>3, FreeHead
<1>5. /\ TasksOK(Rest, Tracked, setup.exits, feed /= <<>>, entries) /\ Rest /= <<>>
      /\ TasksOK(Rest, Tracked, setup.exits, feed /= <<>>, entries + 1)
  BY <1>1, <1>3, Goes
<1>6. entries + 1 \in Nat /\ entries <= entries /\ entries <= entries + 1 /\ hold + 1 \in Int
  BY <1>2
<1>7. Len(orders) \in Nat /\ Cardinality(LiveIn(orders)) \in Nat /\ Len(orders) <= Len(orders)
  BY <1>2, OrdersFacts
<1>8. trades' = trades /\ orders' = orders /\ UNCHANGED <<setup, mode, feed>>
  BY DEF Enter, Call, Local, Step, Buy, venueVars
<1>9. SameIds
  BY <1>1, <1>8, SameTrades
<1>10. CASE Local(trades, Rest) /\ UNCHANGED entries
  <2>1. UNCHANGED budget /\ told' = told \cup {} /\ todo' = Rest /\ hold' = hold /\ entries' = entries
    BY <1>10 DEF Local, Step, venueVars
  <2>2. WorkStep
    BY <1>1, <1>2, <1>5, <1>8, <2>1, GoesOn
  <2> QED
    BY <1>1, <1>4, <1>5, <1>6, <1>8, <1>9, <2>1, <2>2, SameBook
<1>11. ASSUME entries' = entries + 1, UNCHANGED venueVars, Step(trades, Rest, {"entry failed"}),
              UNCHANGED budget \/ Spend("refuse")
       PROVE  IInv'
  <2>1. told' = told \cup {"entry failed"} /\ todo' = Rest /\ hold' = hold /\ entries' = entries + 1
    BY <1>11 DEF Step, venueVars
  <2>2. UNCHANGED budget \/ \E f \in Fault : Spend(f)
    BY <1>11 DEF Fault
  <2>3. WorkStep
    BY <1>1, <1>5, <1>6, <1>8, <2>1, <2>2, GoesOn
  <2> QED
    BY <1>1, <1>4, <1>5, <1>6, <1>8, <1>9, <2>1, <2>3, SameBook
<1>12. BookOK(trades, Len(orders), entries + 1)
  <2>1. DOMAIN trades \subseteq DOMAIN trades
    OBVIOUS
  <2>2. \A t \in DOMAIN trades : TradeOK(trades[t], Len(orders)) /\ trades[t].id = trades[t].id
    BY <1>2, BookFacts
  <2> QED
    BY <1>2, <1>6, <1>7, <2>1, <2>2, BookPart
<1>13. ASSUME entries' = entries + 1, UNCHANGED budget, Buy,
              Step(trades, <<Task("protect", entries + 1, -1)>> \o Rest, {})
       PROVE  IInv'
  <2> DEFINE x == Task("protect", entries + 1, -1)
  <2>1. told' = told \cup {} /\ todo' = <<x>> \o Rest /\ hold' = hold + 1
    BY <1>13 DEF Step, Buy
  <2>2. TaskOK(x, Tracked, setup.exits, feed /= <<>>, entries + 1) /\ x.op = "protect" /\ x.op /= "flush"
    <3>1. Tracked \subseteq 1..entries
      BY <1>2, BookFacts DEF Tracked
    <3>2. entries + 1 \in 1..(entries + 1) \ Tracked
      BY <1>2, <3>1
    <3> QED
      BY <3>2 DEF TaskOK, Task, Stages, OfTrade, Replacing, Entering
  <2> HIDE DEF x
  <2>3. /\ TasksOK(todo', Tracked, setup.exits, feed /= <<>>, entries + 1)
        /\ todo' /= <<>> /\ Head(todo') = x
    BY <1>1, <1>2, <1>3, <2>1, <2>2, NextTask DEF Rest
  <2>4. WorkStep
    BY <1>1, <1>6, <1>8, <1>13, <2>1, <2>3, GoesOn
  <2>5. Hand(todo', Entering) = 1 /\ Hand(todo', Entering \cup Replacing) = 1
    BY <2>2, <2>3 DEF Hand, Entering
  <2>6. NakedKept
    <3>1. \A t \in DOMAIN trades' : (t \in Tracked => CoveredBy(trades[t], t, orders, todo))
                                        => CoveredBy(trades'[t], t, orders', todo')
      BY <1>3, <1>8 DEF CoveredBy, Handled, Tracked
    <3>2. hold' - Cardinality(LiveIn(orders')) - 1 <= hold - Cardinality(LiveIn(orders)) - 0
      BY <1>2, <1>7, <1>8, <2>1
    <3> QED
      BY <1>4, <2>5, <3>1, <3>2 DEF NakedKept
  <2>7. GoneKept
    <3>1. Cardinality(Standing(trades, orders)) \in Nat
      BY <1>2, BookFacts, StandingFacts
    <3>2. hold' - Cardinality(Standing(trades', orders')) - 1 <= hold - Cardinality(Standing(trades, orders)) - 0
      BY <1>2, <1>8, <2>1, <3>1
    <3> QED
      BY <1>4, <2>5, <3>2 DEF GoneKept
  <2>8. hold' \in Int /\ feed' = feed /\ DOMAIN trades' = Tracked
    BY <1>2, <1>8, <2>1 DEF Tracked
  <2> QED
    BY <1>1, <1>2, <1>8, <1>12, <1>13, <2>3, <2>4, <2>6, <2>7, <2>8, NewBook
<1>14. ASSUME entries' = entries + 1, Spend("lose"), Buy, Step(trades, Rest, {"entry failed"})
       PROVE  IInv'
  <2>1. told' = told \cup {"entry failed"} /\ todo' = Rest /\ hold' = hold + 1
    BY <1>14 DEF Step, Buy
  <2>2. WorkStep
    BY <1>1, <1>5, <1>6, <1>8, <1>14, <2>1, GoesOn DEF Fault
  <2>3. SaidNaked' /\ SaidGone'
    BY <1>14, <2>1, <2>2, LostSaid
  <2>4. hold' \in Int
    BY <1>6, <2>1
  <2>5. feed' = feed /\ DOMAIN trades' = Tracked
    BY <1>8 DEF Tracked
  <2> QED
    BY <1>1, <1>2, <1>5, <2>5, <1>8, <1>12, <1>14, <2>1, <2>2, <2>3, <2>4, NewBook DEF NakedKept, GoneKept
<1> QED
  BY <1>10, <1>11, <1>13, <1>14 DEF Enter, Call

LEMMA ProtectKeeps == ASSUME IInv, mode = "up", Protect PROVE IInv'
<1>1. todo /= <<>> /\ Head(todo).op = "protect"
  BY DEF Protect, Doing
<1>2. /\ hold \in Int /\ entries \in Nat /\ OrdersOK(orders) /\ BookOK(trades, Len(orders), entries)
      /\ TypeInv /\ TasksOK(todo, Tracked, setup.exits, feed /= <<>>, entries)
      /\ TaskOK(Head(todo), Tracked, setup.exits, feed /= <<>>, entries)
  BY <1>1, AtWork
<1>3. Head(todo).op /= "flush" /\ Head(todo).op \notin OfTrade
  BY <1>1 DEF Replacing, OfTrade
<1>4. Hand(todo, Entering) = 1 /\ Hand(todo, Entering \cup Replacing) = 1 /\ \A t : ~Handled(t, todo)
  BY <1>1 DEF Hand, Handled, Entering, Replacing
<1>5. It \in 1..entries /\ It \notin Tracked
  BY <1>1, <1>2 DEF TaskOK, It
<1>6. UNCHANGED <<setup, mode, feed, hold, entries>>
  BY DEF Protect, Call, Step, Place, venueVars
<1>7. Len(orders) \in Nat /\ Cardinality(LiveIn(orders)) \in Nat /\ LiveIn(orders) \subseteq 1..Len(orders)
      /\ FilledIn(orders) \subseteq 1..Len(orders)
  BY <1>2, OrdersFacts
<1>8. entries \in Nat /\ entries <= entries /\ Len(orders) <= Len(orders)
  BY <1>2, <1>7
<1> DEFINE n == Len(orders)
           x == Task("emergency", It, None)
<1>9. TaskOK(x, Tracked, setup.exits, feed /= <<>>, entries) /\ x.op = "emergency" /\ x.op /= "flush"
  BY DEF TaskOK, Task, Stages, OfTrade, Replacing, Entering
<1> HIDE DEF x
<1>10. /\ TasksOK(<<x>> \o Rest, Tracked, setup.exits, feed /= <<>>, entries)
       /\ <<x>> \o Rest /= <<>> /\ Head(<<x>> \o Rest) = x
  BY <1>1, <1>2, <1>3, <1>9, NextTask DEF Rest
<1>11. ASSUME UNCHANGED venueVars, Step(trades, <<x>> \o Rest, {}), UNCHANGED budget \/ Spend("refuse")
       PROVE  IInv'
  <2>1. told' = told \cup {} /\ todo' = <<x>> \o Rest /\ trades' = trades /\ orders' = orders
    BY <1>11 DEF Step, venueVars
  <2>2. WorkStep
    BY <1>1, <1>2, <1>6, <1>10, <1>11, <2>1, GoesOn DEF Fault
  <2>3. AsNaked /\ AsGone
    <3>1. Hand(todo', Entering) = 1 /\ Hand(todo', Entering \cup Replacing) = 1
      BY <1>9, <1>10, <2>1 DEF Hand, Entering
    <3> QED
      BY <1>4, <3>1 DEF AsNaked, AsGone
  <2>4. SameIds
    BY <1>1, <2>1, SameTrades
  <2> QED
    BY <1>1, <1>6, <1>8, <1>10, <2>1, <2>2, <2>3, <2>4, SameBook
<1>12. ASSUME Place(-1)
       PROVE  /\ OrdersOK(orders') /\ Len(orders') = n + 1 /\ LiveIn(orders') = LiveIn(orders) \cup {n + 1}
              /\ FilledIn(orders') = FilledIn(orders)
              /\ Cardinality(LiveIn(orders')) = Cardinality(LiveIn(orders)) + 1
  <2>1. orders' = Append(orders, [rung |-> -1, st |-> "live"])
    BY <1>12 DEF Place
  <2> QED
    BY <1>2, <2>1, PlaceMakes
<1>13. n + 1 \in Nat /\ n <= n + 1 /\ n + 1 > n /\ n + 1 \in 0..(n + 1)
  BY <1>7
<1>14. ASSUME Place(-1), UNCHANGED budget, Step(Also(It, Trade(-1, n + 1)), Rest, {})
       PROVE  IInv'
  <2> DEFINE r == Trade(-1, n + 1)
  <2>1. told' = told \cup {} /\ todo' = Rest /\ trades' = Also(It, r)
    BY <1>14 DEF Step
  <2>2. TasksOK(Rest, Tracked \cup {It}, setup.exits, feed /= <<>>, entries) /\ Rest /= <<>> /\ Head(Rest).op \in Ahead
    BY <1>1, <1>2, <1>3, RestOK DEF Rest
  <2>3. WorkStep
    BY <1>1, <1>2, <1>6, <1>14, <2>1, <2>2, GoesOn
  <2>4. r.id = n + 1 /\ TradeOK(r, n + 1) /\ r.id > n
    BY <1>13 DEF TradeOK, Trade
  <2> HIDE DEF r
  <2>5. trades' = [u \in DOMAIN trades \cup {It} |-> IF u = It THEN r ELSE trades[u]]
    BY <2>1 DEF Also, Tracked
  <2>6. DOMAIN trades' = DOMAIN trades \cup {It} /\ trades'[It] = r
        /\ \A u \in DOMAIN trades : u /= It => trades'[u] = trades[u]
    BY <2>5
  <2>12. BookOK(trades', n + 1, entries)
    <3> DEFINE m == n + 1
    <3>1. m = n + 1 /\ TradeOK(r, m) /\ r.id = m /\ n \in Nat
      BY <1>7, <2>4
    <3>2. BookOK(trades, n, entries) /\ entries \in Nat /\ It \in 1..entries
      BY <1>2, <1>5
    <3> HIDE DEF m, n
    <3>3. BookOK(trades', m, entries)
      BY <2>6, <3>1, <3>2, BookPlaced
    <3> QED
      BY <3>3 DEF m
  <2>7. DOMAIN trades' = Tracked \cup {It} /\ trades'[It] = r /\ \A t \in Tracked : trades'[t] = trades[t]
    BY <1>5, <2>6 DEF Tracked
  <2>8. Hand(todo', Entering) = 0 /\ Hand(todo', Entering \cup Replacing) = 0
    BY <2>1, <2>2, AheadFree
  <2>9. NakedKept
    <3>1. \A t \in DOMAIN trades' : (t \in Tracked => CoveredBy(trades[t], t, orders, todo))
                                        => CoveredBy(trades'[t], t, orders', todo')
      BY <1>4, <1>12, <1>14, <2>4, <2>7 DEF CoveredBy
    <3>2. hold' - Cardinality(LiveIn(orders')) - 0 <= hold - Cardinality(LiveIn(orders)) - 1
      BY <1>2, <1>6, <1>7, <1>12, <1>14
    <3> QED
      BY <1>4, <2>8, <3>1, <3>2 DEF NakedKept
  <2>10. GoneKept
    <3>1. IsFiniteSet(DOMAIN trades) /\ IsFiniteSet(DOMAIN trades')
      BY <1>2, <2>12, BookFacts
    <3>2. Cardinality(Standing(trades, orders)) \in Nat /\ Cardinality(Standing(trades', orders')) \in Nat
      BY <3>1, StandingFacts
    <3>3. n + 1 \notin FilledIn(orders)
      BY <1>7
    <3>4. Standing(trades, orders) \cup {It} \subseteq Standing(trades', orders') /\ It \notin DOMAIN trades
      BY <1>5, <1>12, <1>14, <2>4, <2>7, <3>3 DEF Standing, Tracked
    <3>5. Cardinality(Standing(trades, orders)) + 1 <= Cardinality(Standing(trades', orders'))
      BY <3>1, <3>4, StandingKept
    <3>6. hold' - Cardinality(Standing(trades', orders')) - 0 <= hold - Cardinality(Standing(trades, orders)) - 1
      BY <1>2, <1>6, <3>2, <3>5
    <3> QED
      BY <1>4, <2>8, <3>6 DEF GoneKept
  <2>11. /\ hold' \in Int /\ feed' = feed /\ entries' = entries
         /\ OrdersOK(orders') /\ FilledIn(orders') = FilledIn(orders) /\ Len(orders') = n + 1
    BY <1>2, <1>6, <1>12, <1>14
  <2> QED
    BY <1>1, <2>1, <2>2, <2>3, <2>12, <2>7, <2>9, <2>10, <2>11, NewBook
<1>15. ASSUME Place(-1), Spend("lose"), Step(trades, <<x>> \o Rest, {})
       PROVE  IInv'
  <2>1. told' = told \cup {} /\ todo' = <<x>> \o Rest /\ trades' = trades
    BY <1>15 DEF Step
  <2>2. WorkStep
    BY <1>1, <1>2, <1>6, <1>10, <1>15, <2>1, GoesOn DEF Fault
  <2>3. Hand(todo', Entering) = 1 /\ Hand(todo', Entering \cup Replacing) = 1
    BY <1>9, <1>10, <2>1 DEF Hand, Entering
  <2>4. BookOK(trades, n + 1, entries)
    <3>1. \A t \in DOMAIN trades : TradeOK(trades[t], n) /\ trades[t].id = trades[t].id
      BY <1>2, BookFacts
    <3> QED
      BY <1>2, <1>7, <1>8, <1>13, <3>1, BookPart
  <2>5. NakedKept
    <3>1. \A t \in DOMAIN trades' : (t \in Tracked => CoveredBy(trades[t], t, orders, todo))
                                        => CoveredBy(trades'[t], t, orders', todo')
      BY <1>4, <1>12, <1>15, <2>1 DEF CoveredBy, Tracked
    <3>2. hold' - Cardinality(LiveIn(orders')) - 1 <= hold - Cardinality(LiveIn(orders)) - 1
      BY <1>2, <1>6, <1>7, <1>12, <1>15
    <3> QED
      BY <1>4, <2>3, <3>1, <3>2 DEF NakedKept
  <2>6. GoneKept
    <3>1. Cardinality(Standing(trades, orders)) \in Nat
      BY <1>2, BookFacts, StandingFacts
    <3>2. Standing(trades', orders') = Standing(trades, orders)
      BY <1>12, <1>15, <2>1 DEF Standing
    <3>3. hold' - Cardinality(Standing(trades', orders')) - 1 <= hold - Cardinality(Standing(trades, orders)) - 1
      BY <1>2, <1>6, <3>1, <3>2
    <3> QED
      BY <1>4, <2>3, <3>3 DEF GoneKept
  <2>7. /\ hold' \in Int /\ feed' = feed /\ entries' = entries /\ DOMAIN trades' = Tracked
        /\ OrdersOK(orders') /\ FilledIn(orders') = FilledIn(orders) /\ Len(orders') = n + 1
    BY <1>2, <1>6, <1>12, <1>15, <2>1 DEF Tracked
  <2> QED
    BY <1>1, <1>10, <2>1, <2>2, <2>4, <2>5, <2>6, <2>7, NewBook
<1> QED
  BY <1>11, <1>14, <1>15 DEF Protect, Call, x

-----------------------------------------------------------------------------
(* A unit is sold *)

LEMMA SellWas ==
    ASSUME IInv, mode = "up", todo /= <<>>, Head(todo).op \in {"emergency", "sell_out", "sell"}
    PROVE  /\ hold \in Int /\ hold - 1 \in Int /\ entries \in Nat /\ OrdersOK(orders)
           /\ BookOK(trades, Len(orders), entries) /\ Len(orders) \in Nat
           /\ Cardinality(LiveIn(orders)) \in Nat
           /\ Hand(todo, Entering) = (IF Head(todo).op = "emergency" THEN 1 ELSE 0)
           /\ Hand(todo, Entering \cup Replacing) = 1
           /\ \A t : Handled(t, todo) => t = It /\ Head(todo).op /= "emergency"
           /\ Head(todo).op /= "emergency" => It \in Tracked
           /\ TasksOK(Rest, Tracked, setup.exits, feed /= <<>>, entries) /\ Rest /= <<>>
           /\ Head(todo).op /= "emergency" => TasksOK(Rest, Tracked \ {It}, setup.exits, feed /= <<>>, entries)
           /\ Hand(Rest, Entering) = 0 /\ Hand(Rest, Entering \cup Replacing) = 0
<1>1. /\ hold \in Int /\ entries \in Nat /\ OrdersOK(orders) /\ BookOK(trades, Len(orders), entries)
      /\ TasksOK(todo, Tracked, setup.exits, feed /= <<>>, entries)
      /\ TaskOK(Head(todo), Tracked, setup.exits, feed /= <<>>, entries)
  BY AtWork
<1>2. Len(orders) \in Nat /\ Cardinality(LiveIn(orders)) \in Nat
  BY <1>1, OrdersFacts
<1>3. Hand(todo, Entering) = (IF Head(todo).op = "emergency" THEN 1 ELSE 0) /\ Hand(todo, Entering \cup Replacing) = 1
  BY DEF Hand, Entering, Replacing
<1>4. \A t : Handled(t, todo) => t = It /\ Head(todo).op /= "emergency"
  BY DEF Handled, Replacing, It
<1>5. Head(todo).op /= "emergency" => It \in Tracked /\ Head(todo).op \in OfTrade
  BY <1>1 DEF TaskOK, OfTrade, Replacing, It
<1>6. Head(todo).op /= "flush"
  OBVIOUS
<1>7. TasksOK(Rest, Tracked, setup.exits, feed /= <<>>, entries) /\ Rest /= <<>> /\ Head(Rest).op \in Ahead
  BY <1>6, Goes
<1>8. ASSUME Head(todo).op /= "emergency" PROVE TasksOK(Rest, Tracked \ {It}, setup.exits, feed /= <<>>, entries)
  <2>1. \A t \in Tracked \ (Tracked \ {It}) : Head(todo).op \in OfTrade => t = Head(todo).t
    BY DEF It
  <2> QED
    BY <1>1, <1>6, <2>1, RestOK DEF Rest
<1>9. Hand(Rest, Entering) = 0 /\ Hand(Rest, Entering \cup Replacing) = 0
  BY <1>7, AheadFree
<1>10. hold - 1 \in Int
  BY <1>1
<1> QED
  BY <1>1, <1>2, <1>3, <1>4, <1>5, <1>7, <1>8, <1>9, <1>10

LEMMA SellsOne ==
    ASSUME IInv, mode = "up", todo /= <<>>, Head(todo).op \in {"emergency", "sell_out", "sell"},
           Sell, WorkStep, todo' = Rest, entries' = entries,
           trades' = IF Head(todo).op = "emergency" THEN trades ELSE Without(It)
    PROVE  IInv'
<1> DEFINE E == Head(todo).op = "emergency"
<1>1. /\ hold \in Int /\ hold - 1 \in Int /\ entries \in Nat /\ OrdersOK(orders)
      /\ BookOK(trades, Len(orders), entries) /\ Len(orders) \in Nat
      /\ Cardinality(LiveIn(orders)) \in Nat
      /\ Hand(todo, Entering) = (IF E THEN 1 ELSE 0)
      /\ Hand(todo, Entering \cup Replacing) = 1
      /\ \A t : Handled(t, todo) => t = It /\ ~E
      /\ ~E => It \in Tracked
      /\ TasksOK(Rest, Tracked, setup.exits, feed /= <<>>, entries) /\ Rest /= <<>>
      /\ ~E => TasksOK(Rest, Tracked \ {It}, setup.exits, feed /= <<>>, entries)
      /\ Hand(Rest, Entering) = 0 /\ Hand(Rest, Entering \cup Replacing) = 0
  BY SellWas
<1>2. hold' = hold - 1 /\ orders' = orders /\ feed' = feed
  BY DEF Sell
<1> HIDE DEF E
<1>3. E => trades' = trades
  BY DEF E
<1>4. ~E => DOMAIN trades' = Tracked \ {It} /\ \A t \in DOMAIN trades' : trades'[t] = trades[t]
  BY DEF E, Without, Restrict
<1>5. DOMAIN trades' \subseteq Tracked /\ \A t \in DOMAIN trades' : trades'[t] = trades[t]
  BY <1>3, <1>4 DEF Tracked
<1>6. TasksOK(Rest, DOMAIN trades', setup.exits, feed /= <<>>, entries)
  BY <1>1, <1>3, <1>4 DEF Tracked
<1>7. BookOK(trades', Len(orders), entries)
  <2>1. \A t \in DOMAIN trades' : TradeOK(trades'[t], Len(orders)) /\ trades'[t].id = trades[t].id
    BY <1>1, <1>5, BookFacts DEF Tracked
  <2>2. Len(orders) <= Len(orders) /\ entries <= entries /\ DOMAIN trades' \subseteq DOMAIN trades
    BY <1>1, <1>5 DEF Tracked
  <2> QED
    BY <1>1, <2>1, <2>2, BookPart
<1>8. NakedKept
  <2>1. \A t \in DOMAIN trades' : (t \in Tracked => CoveredBy(trades[t], t, orders, todo))
                                      => CoveredBy(trades'[t], t, orders', todo')
    <3> SUFFICES ASSUME NEW t \in DOMAIN trades', CoveredBy(trades[t], t, orders, todo)
                 PROVE  CoveredBy(trades'[t], t, orders, todo')
      BY <1>2, <1>5
    <3>1. ~Handled(t, todo)
      BY <1>1, <1>4
    <3> QED
      BY <1>5, <3>1 DEF CoveredBy
  <2>2. hold' - Cardinality(LiveIn(orders')) - 0 <= hold - Cardinality(LiveIn(orders)) - 1
    BY <1>1, <1>2
  <2> QED
    BY <1>1, <2>1, <2>2 DEF NakedKept
<1>9. GoneKept
  <2>1. IsFiniteSet(DOMAIN trades) /\ IsFiniteSet(DOMAIN trades')
    BY <1>1, <1>7, BookFacts
  <2>2. Cardinality(Standing(trades, orders)) \in Nat /\ Cardinality(Standing(trades', orders)) \in Nat
    BY <2>1, StandingFacts
  <2>3. CASE E
    <3>1. Standing(trades', orders) = Standing(trades, orders)
      BY <1>3, <2>3
    <3>2. hold' - Cardinality(Standing(trades', orders)) - 0 <= hold - Cardinality(Standing(trades, orders)) - 1
      BY <1>1, <1>2, <2>2, <3>1
    <3> QED
      BY <1>1, <1>2, <2>3, <3>2 DEF GoneKept
  <2>4. CASE ~E
    <3>1. Standing(trades, orders) \subseteq Standing(trades', orders) \cup {It}
      BY <1>4, <2>4 DEF Standing, Tracked
    <3>2. Cardinality(Standing(trades, orders)) <= Cardinality(Standing(trades', orders)) + 1
      BY <2>1, <3>1, StandingKept
    <3>3. hold' - Cardinality(Standing(trades', orders)) - 0 <= hold - Cardinality(Standing(trades, orders)) - 0
      BY <1>1, <1>2, <2>2, <3>2
    <3> QED
      BY <1>1, <1>2, <2>4, <3>3 DEF GoneKept
  <2> QED
    BY <2>3, <2>4
<1> QED
  BY <1>1, <1>2, <1>6, <1>7, <1>8, <1>9, NewBook

LEMMA SellLost ==
    ASSUME IInv, mode = "up", todo /= <<>>, Head(todo).op \in {"emergency", "sell_out", "sell"},
           Sell, WorkStep, todo' = Rest, entries' = entries, trades' = trades, Spend("lose"), told' /= {}
    PROVE  IInv'
<1>1. /\ hold - 1 \in Int /\ OrdersOK(orders) /\ BookOK(trades, Len(orders), entries)
      /\ TasksOK(Rest, Tracked, setup.exits, feed /= <<>>, entries)
  BY SellWas
<1>2. hold' = hold - 1 /\ orders' = orders /\ feed' = feed
  BY DEF Sell
<1>3. NakedKept /\ GoneKept
  BY LostSaid DEF NakedKept, GoneKept
<1> QED
  BY <1>1, <1>2, <1>3, NewBook DEF Tracked

LEMMA SellRefused ==
    ASSUME IInv, mode = "up", todo /= <<>>, Head(todo).op \in {"emergency", "sell_out", "sell"},
           UNCHANGED venueVars, WorkStep, todo' = Rest, entries' = entries, trades' = trades,
           told' \cap {"unprotected", "not sold"} /= {} \/ ("close failed" \in told' /\ Head(todo).op = "sell")
    PROVE  IInv'
<1>1. /\ TasksOK(Rest, Tracked, setup.exits, feed /= <<>>, entries) /\ entries \in Nat
      /\ Hand(todo, Entering) = (IF Head(todo).op = "emergency" THEN 1 ELSE 0)
  BY SellWas
<1>2. AsNaked
  BY DEF AsNaked, SaidNaked
<1>3. AsGone
  <2>1. CASE told' \cap {"unprotected", "not sold"} /= {}
    BY <2>1 DEF AsGone, SaidGone
  <2>2. CASE Head(todo).op = "sell"
    <3>1. Hand(todo, Entering) = 0
      BY <1>1, <2>2
    <3>2. 0 <= Hand(todo', Entering)
      BY HandIs
    <3> QED
      BY <3>1, <3>2 DEF AsGone
  <2> QED
    BY <2>1, <2>2
<1>4. SameIds
  BY SameTrades
<1>5. hold' = hold /\ orders' = orders
  BY DEF venueVars
<1>6. entries <= entries'
  BY <1>1, SameNumber
<1> QED
  BY <1>1, <1>2, <1>3, <1>4, <1>5, <1>6, SameBook

LEMMA EmergencyKeeps == ASSUME IInv, mode = "up", EmergencySell PROVE IInv'
<1>1. todo /= <<>> /\ Head(todo).op = "emergency"
  BY DEF EmergencySell, Doing
<1>2. entries \in Nat /\ Rest /= <<>>
  BY <1>1, SellWas
<1>3. UNCHANGED <<setup, mode, feed, entries>> /\ trades' = trades /\ todo' = Rest
  BY DEF EmergencySell, Call, Step, Sell, venueVars
<1>4. ASSUME UNCHANGED budget, Sell, Step(trades, Rest, {"sold"}) PROVE IInv'
  <2>1. told' = told \cup {"sold"}
    BY <1>4 DEF Step
  <2>2. WorkStep
    BY <1>1, <1>2, <1>3, <1>4, <2>1, GoesOn
  <2> QED
    BY <1>1, <1>3, <1>4, <2>2, SellsOne
<1>5. ASSUME UNCHANGED venueVars, Step(trades, Rest, {"unprotected"}), UNCHANGED budget \/ Spend("refuse")
      PROVE  IInv'
  <2>1. told' = told \cup {"unprotected"}
    BY <1>5 DEF Step
  <2>2. WorkStep
    BY <1>1, <1>2, <1>3, <1>5, <2>1, GoesOn DEF Fault
  <2> QED
    BY <1>1, <1>3, <1>5, <2>1, <2>2, SellRefused
<1>6. ASSUME Spend("lose"), Sell, Step(trades, Rest, {"unprotected"}) PROVE IInv'
  <2>1. told' = told \cup {"unprotected"}
    BY <1>6 DEF Step
  <2>2. WorkStep
    BY <1>1, <1>2, <1>3, <1>6, <2>1, GoesOn DEF Fault
  <2> QED
    BY <1>1, <1>3, <1>6, <2>1, <2>2, SellLost
<1>7. ASSUME Spend("reject"), UNCHANGED venueVars, Step(trades, Rest, {"not sold"}) PROVE IInv'
  <2>1. told' = told \cup {"not sold"}
    BY <1>7 DEF Step
  <2>2. WorkStep
    BY <1>1, <1>2, <1>3, <1>7, <2>1, GoesOn DEF Fault
  <2> QED
    BY <1>1, <1>3, <1>7, <2>1, <2>2, SellRefused
<1> QED
  BY <1>4, <1>5, <1>6, <1>7 DEF EmergencySell, Call

LEMMA SellOutKeeps == ASSUME IInv, mode = "up", SellOut PROVE IInv'
<1>1. todo /= <<>> /\ Head(todo).op = "sell_out"
  BY DEF SellOut, Doing
<1>2. entries \in Nat /\ Rest /= <<>>
  BY <1>1, SellWas
<1>3. UNCHANGED <<setup, mode, feed, entries>> /\ todo' = Rest
  BY DEF SellOut, Call, Step, Sell, venueVars
<1>4. ASSUME UNCHANGED budget, Sell, Step(Without(It), Rest, {"sold"}) PROVE IInv'
  <2>1. told' = told \cup {"sold"} /\ trades' = Without(It)
    BY <1>4 DEF Step
  <2>2. WorkStep
    BY <1>1, <1>2, <1>3, <1>4, <2>1, GoesOn
  <2> QED
    BY <1>1, <1>3, <1>4, <2>1, <2>2, SellsOne
<1>5. ASSUME UNCHANGED venueVars, Step(trades, Rest, {"unprotected"}), UNCHANGED budget \/ Spend("refuse")
      PROVE  IInv'
  <2>1. told' = told \cup {"unprotected"} /\ trades' = trades
    BY <1>5 DEF Step
  <2>2. WorkStep
    BY <1>1, <1>2, <1>3, <1>5, <2>1, GoesOn DEF Fault
  <2> QED
    BY <1>1, <1>3, <1>5, <2>1, <2>2, SellRefused
<1>6. ASSUME Spend("lose"), Sell, Step(trades, Rest, {"unprotected"}) PROVE IInv'
  <2>1. told' = told \cup {"unprotected"} /\ trades' = trades
    BY <1>6 DEF Step
  <2>2. WorkStep
    BY <1>1, <1>2, <1>3, <1>6, <2>1, GoesOn DEF Fault
  <2> QED
    BY <1>1, <1>3, <1>6, <2>1, <2>2, SellLost
<1> QED
  BY <1>4, <1>5, <1>6 DEF SellOut, Call

LEMMA CloseTradeKeeps == ASSUME IInv, mode = "up", CloseTrade PROVE IInv'
<1>1. todo /= <<>> /\ Head(todo).op = "sell"
  BY DEF CloseTrade, Doing
<1>2. entries \in Nat /\ Rest /= <<>>
  BY <1>1, SellWas
<1>3. UNCHANGED <<setup, mode, feed, entries>> /\ todo' = Rest
  BY DEF CloseTrade, Call, Step, Sell, venueVars
<1>4. setup.exits
  <2>1. TaskOK(Head(todo), Tracked, setup.exits, feed /= <<>>, entries)
    BY <1>1, AtWork
  <2> QED
    BY <1>1, <2>1 DEF TaskOK
<1>5. ASSUME UNCHANGED budget, Sell, Step(Without(It), Rest, {}) PROVE IInv'
  <2>1. told' = told \cup {} /\ trades' = Without(It)
    BY <1>5 DEF Step
  <2>2. WorkStep
    BY <1>1, <1>2, <1>3, <1>5, <2>1, GoesOn
  <2> QED
    BY <1>1, <1>3, <1>5, <2>1, <2>2, SellsOne
<1>6. ASSUME UNCHANGED venueVars, Step(trades, Rest, {"close failed"}), UNCHANGED budget \/ Spend("refuse")
      PROVE  IInv'
  <2>1. told' = told \cup {"close failed"} /\ trades' = trades
    BY <1>6 DEF Step
  <2>2. WorkStep
    BY <1>1, <1>2, <1>3, <1>4, <1>6, <2>1, GoesOn DEF Fault
  <2> QED
    BY <1>1, <1>3, <1>6, <2>1, <2>2, SellRefused
<1>7. ASSUME Spend("lose"), Sell, Step(trades, Rest, {"close failed"}) PROVE IInv'
  <2>1. told' = told \cup {"close failed"} /\ trades' = trades
    BY <1>7 DEF Step
  <2>2. WorkStep
    BY <1>1, <1>2, <1>3, <1>4, <1>7, <2>1, GoesOn DEF Fault
  <2> QED
    BY <1>1, <1>3, <1>7, <2>1, <2>2, SellLost
<1> QED
  BY <1>5, <1>6, <1>7 DEF CloseTrade, Call

-----------------------------------------------------------------------------
(* An order is placed or cancelled for a trade *)

Placing == {"place", "restore"}

LEMMA PlaceWas ==
    ASSUME IInv, mode = "up", todo /= <<>>, Head(todo).op \in Placing
    PROVE  /\ hold \in Int /\ entries \in Nat /\ OrdersOK(orders)
           /\ BookOK(trades, Len(orders), entries) /\ Len(orders) \in Nat
           /\ Cardinality(LiveIn(orders)) \in Nat /\ FilledIn(orders) \subseteq 1..Len(orders)
           /\ Hand(todo, Entering) = 0 /\ Hand(todo, Entering \cup Replacing) = 1
           /\ \A t : Handled(t, todo) => t = It
           /\ It \in Tracked /\ It \in 1..entries
           /\ TasksOK(Rest, Tracked, setup.exits, feed /= <<>>, entries) /\ Rest /= <<>>
           /\ Hand(Rest, Entering) = 0 /\ Hand(Rest, Entering \cup Replacing) = 0
<1>1. /\ hold \in Int /\ entries \in Nat /\ OrdersOK(orders) /\ BookOK(trades, Len(orders), entries)
      /\ TaskOK(Head(todo), Tracked, setup.exits, feed /= <<>>, entries)
  BY AtWork
<1>2. Len(orders) \in Nat /\ Cardinality(LiveIn(orders)) \in Nat /\ FilledIn(orders) \subseteq 1..Len(orders)
  BY <1>1, OrdersFacts
<1>3. Hand(todo, Entering) = 0 /\ Hand(todo, Entering \cup Replacing) = 1
  BY DEF Hand, Entering, Replacing, Placing
<1>4. \A t : Handled(t, todo) => t = It
  BY DEF Handled, It
<1>5. It \in Tracked
  BY <1>1 DEF TaskOK, OfTrade, Replacing, Placing, It
<1>6. It \in 1..entries
  BY <1>1, <1>5, BookFacts DEF Tracked
<1>7. Head(todo).op /= "flush"
  BY DEF Placing
<1>8. TasksOK(Rest, Tracked, setup.exits, feed /= <<>>, entries) /\ Rest /= <<>> /\ Head(Rest).op \in Ahead
  BY <1>7, Goes
<1>9. Hand(Rest, Entering) = 0 /\ Hand(Rest, Entering \cup Replacing) = 0
  BY <1>8, AheadFree
<1> QED
  BY <1>1, <1>2, <1>3, <1>4, <1>5, <1>6, <1>8, <1>9

\* The trade takes the new order.
LEMMA PlacesOne ==
    ASSUME IInv, mode = "up", todo /= <<>>, Head(todo).op \in Placing,
           NEW rung, Place(rung), WorkStep, todo' = Rest, entries' = entries,
           NEW r, trades' = With(It, r), TradeOK(r, Len(orders) + 1), r.id = Len(orders) + 1
    PROVE  IInv'
<1>1. /\ hold \in Int /\ entries \in Nat /\ OrdersOK(orders)
      /\ BookOK(trades, Len(orders), entries) /\ Len(orders) \in Nat
      /\ Cardinality(LiveIn(orders)) \in Nat /\ FilledIn(orders) \subseteq 1..Len(orders)
      /\ Hand(todo, Entering) = 0 /\ Hand(todo, Entering \cup Replacing) = 1
      /\ \A t : Handled(t, todo) => t = It
      /\ It \in Tracked /\ It \in 1..entries
      /\ TasksOK(Rest, Tracked, setup.exits, feed /= <<>>, entries) /\ Rest /= <<>>
      /\ Hand(Rest, Entering) = 0 /\ Hand(Rest, Entering \cup Replacing) = 0
  BY PlaceWas
<1>2. hold' = hold /\ feed' = feed /\ orders' = Append(orders, [rung |-> rung, st |-> "live"])
  BY DEF Place
<1>3. /\ OrdersOK(orders') /\ Len(orders') = Len(orders) + 1
      /\ LiveIn(orders') = LiveIn(orders) \cup {Len(orders) + 1}
      /\ FilledIn(orders') = FilledIn(orders)
      /\ Cardinality(LiveIn(orders')) = Cardinality(LiveIn(orders)) + 1
  BY <1>1, <1>2, PlaceMakes
<1>4. DOMAIN trades' = Tracked /\ trades'[It] = r /\ \A t \in Tracked : t /= It => trades'[t] = trades[t]
  BY <1>1 DEF With, Tracked
<1>5. BookOK(trades', Len(orders'), entries)
  <2> DEFINE n == Len(orders)
             m == Len(orders')
  <2>1. n \in Nat /\ m = n + 1 /\ TradeOK(r, m) /\ r.id = m /\ entries \in Nat /\ It \in 1..entries
    BY <1>1, <1>3
  <2>2. BookOK(trades, n, entries) /\ DOMAIN trades' = DOMAIN trades \cup {It} /\ trades'[It] = r
        /\ \A u \in DOMAIN trades : u /= It => trades'[u] = trades[u]
    BY <1>1, <1>4 DEF Tracked
  <2> HIDE DEF n, m
  <2>3. BookOK(trades', m, entries)
    BY <2>1, <2>2, BookPlaced
  <2> QED
    BY <2>3 DEF m
<1>6. NakedKept
  <2>1. \A t \in DOMAIN trades' : (t \in Tracked => CoveredBy(trades[t], t, orders, todo))
                                      => CoveredBy(trades'[t], t, orders', todo')
    BY <1>1, <1>3, <1>4 DEF CoveredBy
  <2>2. hold' - Cardinality(LiveIn(orders')) - 0 <= hold - Cardinality(LiveIn(orders)) - 1
    BY <1>1, <1>2, <1>3
  <2> QED
    BY <1>1, <2>1, <2>2 DEF NakedKept
<1>7. GoneKept
  <2>1. IsFiniteSet(DOMAIN trades) /\ IsFiniteSet(DOMAIN trades')
    BY <1>1, <1>5, BookFacts
  <2>2. Cardinality(Standing(trades, orders)) \in Nat /\ Cardinality(Standing(trades', orders')) \in Nat
    BY <2>1, StandingFacts
  <2>3. Len(orders) + 1 \notin FilledIn(orders)
    BY <1>1
  <2>4. Standing(trades, orders) \subseteq Standing(trades', orders')
    BY <1>3, <1>4, <2>3 DEF Standing, Tracked
  <2>5. Cardinality(Standing(trades, orders)) <= Cardinality(Standing(trades', orders'))
    BY <2>1, <2>4, StandingKept
  <2>6. hold' - Cardinality(Standing(trades', orders')) - 0 <= hold - Cardinality(Standing(trades, orders)) - 0
    BY <1>1, <1>2, <2>2, <2>5
  <2> QED
    BY <1>1, <2>6 DEF GoneKept
<1>8. hold' \in Int /\ TasksOK(todo', DOMAIN trades', setup.exits, feed' /= <<>>, entries')
  BY <1>1, <1>2, <1>4
<1> QED
  BY <1>3, <1>5, <1>6, <1>7, <1>8, NewBook

InHand(s, t) == Hand(s, Entering) = 0 /\ Hand(s, Entering \cup Replacing) = 1 /\ Handled(t, s)

\* A placement that did not work, as far as the worker knows: the next call is tried.
LEMMA Fallback ==
    ASSUME IInv, mode = "up", todo /= <<>>, Head(todo).op \in Placing,
           NEW x, x.op \in {"restore", "sell_out"}, x.t = It
    PROVE  /\ TasksOK(<<x>> \o Rest, Tracked, setup.exits, feed /= <<>>, entries)
           /\ <<x>> \o Rest /= <<>> /\ InHand(<<x>> \o Rest, It)
<1>1. It \in Tracked
  BY PlaceWas
<1>2. TasksOK(todo, Tracked, setup.exits, feed /= <<>>, entries)
  BY AtWork
<1>3. TaskOK(x, Tracked, setup.exits, feed /= <<>>, entries) /\ x.op /= "flush" /\ x.op \in OfTrade /\ x.op \in Replacing
  BY <1>1 DEF TaskOK, OfTrade, Replacing, Stages, Entering
<1>4. x.t = Head(todo).t /\ Head(todo).op /= "flush"
  BY DEF It, Placing
<1>5. /\ TasksOK(<<x>> \o Rest, Tracked, setup.exits, feed /= <<>>, entries)
      /\ <<x>> \o Rest /= <<>> /\ Head(<<x>> \o Rest) = x
  BY <1>2, <1>3, <1>4, NextTask DEF Rest
<1>6. x.op \notin Entering
  BY DEF Entering
<1> QED
  BY <1>3, <1>5, <1>6 DEF Hand, Handled, InHand

FellBack ==
    /\ TasksOK(todo', Tracked, setup.exits, feed /= <<>>, entries)
    /\ Hand(todo', Entering) = 0 /\ Hand(todo', Entering \cup Replacing) = 1
    /\ Handled(It, todo')

LEMMA PlaceRefused ==
    ASSUME IInv, mode = "up", todo /= <<>>, Head(todo).op \in Placing,
           UNCHANGED venueVars, WorkStep, entries' = entries, trades' = trades,
           FellBack
    PROVE  IInv'
<1>1. /\ entries \in Nat /\ Hand(todo, Entering) = 0 /\ Hand(todo, Entering \cup Replacing) = 1
      /\ \A t : Handled(t, todo) => t = It
  BY PlaceWas
<1>2. /\ TasksOK(todo', Tracked, setup.exits, feed /= <<>>, entries')
      /\ Hand(todo', Entering) = 0 /\ Hand(todo', Entering \cup Replacing) = 1
      /\ Handled(It, todo')
  BY DEF FellBack
<1>3. AsNaked /\ AsGone
  BY <1>1, <1>2 DEF AsNaked, AsGone
<1>4. SameIds
  BY SameTrades
<1>5. hold' = hold /\ orders' = orders
  BY DEF venueVars
<1>6. entries <= entries'
  BY <1>1, SameNumber
<1> QED
  BY <1>2, <1>3, <1>4, <1>5, <1>6, SameBook

LEMMA PlaceLost ==
    ASSUME IInv, mode = "up", todo /= <<>>, Head(todo).op \in Placing,
           NEW rung, Place(rung), WorkStep, entries' = entries, trades' = trades,
           FellBack
    PROVE  IInv'
<1>1. /\ hold \in Int /\ entries \in Nat /\ OrdersOK(orders)
      /\ BookOK(trades, Len(orders), entries) /\ Len(orders) \in Nat
      /\ Cardinality(LiveIn(orders)) \in Nat
      /\ Hand(todo, Entering) = 0 /\ Hand(todo, Entering \cup Replacing) = 1
      /\ \A t : Handled(t, todo) => t = It
  BY PlaceWas
<1>2. hold' = hold /\ feed' = feed /\ orders' = Append(orders, [rung |-> rung, st |-> "live"])
  BY DEF Place
<1>3. /\ OrdersOK(orders') /\ Len(orders') = Len(orders) + 1
      /\ LiveIn(orders') = LiveIn(orders) \cup {Len(orders) + 1}
      /\ FilledIn(orders') = FilledIn(orders)
      /\ Cardinality(LiveIn(orders')) = Cardinality(LiveIn(orders)) + 1
  BY <1>1, <1>2, PlaceMakes
<1>4. /\ TasksOK(todo', Tracked, setup.exits, feed /= <<>>, entries)
      /\ Hand(todo', Entering) = 0 /\ Hand(todo', Entering \cup Replacing) = 1
      /\ Handled(It, todo')
  BY DEF FellBack
<1>5. BookOK(trades', Len(orders'), entries')
  <2>1. \A t \in DOMAIN trades : TradeOK(trades[t], Len(orders)) /\ trades[t].id = trades[t].id
    BY <1>1, BookFacts
  <2>2. Len(orders') \in Nat /\ Len(orders) <= Len(orders') /\ entries <= entries
    BY <1>1, <1>3
  <2> QED
    BY <1>1, <2>1, <2>2, BookPart
<1>6. NakedKept
  <2>1. \A t \in DOMAIN trades' : (t \in Tracked => CoveredBy(trades[t], t, orders, todo))
                                      => CoveredBy(trades'[t], t, orders', todo')
    BY <1>1, <1>3, <1>4 DEF CoveredBy, Tracked
  <2>2. hold' - Cardinality(LiveIn(orders')) - 1 <= hold - Cardinality(LiveIn(orders)) - 1
    BY <1>1, <1>2, <1>3
  <2> QED
    BY <1>1, <1>4, <2>1, <2>2 DEF NakedKept
<1>7. GoneKept
  <2>1. Cardinality(Standing(trades, orders)) \in Nat
    BY <1>1, BookFacts, StandingFacts
  <2>2. Standing(trades', orders') = Standing(trades, orders)
    BY <1>3 DEF Standing
  <2>3. hold' - Cardinality(Standing(trades', orders')) - 0 <= hold - Cardinality(Standing(trades, orders)) - 0
    BY <1>1, <1>2, <2>1, <2>2
  <2> QED
    BY <1>1, <1>4, <2>3 DEF GoneKept
<1>8. hold' \in Int /\ TasksOK(todo', DOMAIN trades', setup.exits, feed' /= <<>>, entries')
  BY <1>1, <1>2, <1>4 DEF Tracked
<1> QED
  BY <1>3, <1>5, <1>6, <1>7, <1>8, NewBook

LEMMA PlaceNewKeeps == ASSUME IInv, mode = "up", PlaceNew PROVE IInv'
<1> DEFINE x == Task("restore", It, Arg)
           r == Moved
<1>1. todo /= <<>> /\ Head(todo).op \in Placing
  BY DEF PlaceNew, Doing, Placing
<1>2. /\ entries \in Nat /\ Rest /= <<>> /\ It \in Tracked /\ BookOK(trades, Len(orders), entries)
      /\ Len(orders) \in Nat
  BY <1>1, PlaceWas
<1>3. UNCHANGED <<setup, mode, feed, entries>>
  BY DEF PlaceNew, Call, Step, Place, venueVars
<1>4. x.op \in {"restore", "sell_out"} /\ x.t = It
  BY DEF Task
<1>5. TradeOK(r, Len(orders) + 1) /\ r.id = Len(orders) + 1
  <2>1. Len(orders) + 1 \in 0..(Len(orders) + 1)
    BY <1>2
  <2> QED
    BY <2>1 DEF TradeOK, Moved
<1> HIDE DEF x, r
<1>6. /\ TasksOK(<<x>> \o Rest, Tracked, setup.exits, feed /= <<>>, entries)
      /\ <<x>> \o Rest /= <<>> /\ InHand(<<x>> \o Rest, It)
  <2>1. TasksOK(<<x>> \o Rest, Tracked, setup.exits, feed /= <<>>, entries)
    BY <1>1, <1>4, Fallback
  <2>2. <<x>> \o Rest /= <<>>
    BY <1>1, <1>4, Fallback
  <2>3. InHand(<<x>> \o Rest, It)
    BY <1>1, <1>4, Fallback
  <2> QED
    BY <2>1, <2>2, <2>3
<1>7. ASSUME UNCHANGED budget, Place(Arg), Step(With(It, r), Rest, {}) PROVE IInv'
  <2>1. told' = told \cup {} /\ trades' = With(It, r) /\ todo' = Rest
    BY <1>7 DEF Step
  <2>2. WorkStep
    BY <1>1, <1>2, <1>3, <1>7, <2>1, GoesOn
  <2> QED
    BY <1>1, <1>3, <1>5, <1>7, <2>1, <2>2, PlacesOne
<1>8. ASSUME UNCHANGED venueVars, Step(trades, <<x>> \o Rest, {}), UNCHANGED budget \/ Spend("refuse")
      PROVE  IInv'
  <2>1. told' = told \cup {} /\ trades' = trades /\ todo' = <<x>> \o Rest
    BY <1>8 DEF Step
  <2>2. WorkStep
    BY <1>1, <1>2, <1>3, <1>6, <1>8, <2>1, GoesOn DEF Fault
  <2>3. FellBack
    BY <1>6, <2>1 DEF FellBack, InHand
  <2> QED
    BY <1>1, <1>3, <1>8, <2>1, <2>2, <2>3, PlaceRefused
<1>9. ASSUME Spend("lose"), Place(Arg), Step(trades, <<x>> \o Rest, {}) PROVE IInv'
  <2>1. told' = told \cup {} /\ trades' = trades /\ todo' = <<x>> \o Rest
    BY <1>9 DEF Step
  <2>2. WorkStep
    BY <1>1, <1>2, <1>3, <1>6, <1>9, <2>1, GoesOn DEF Fault
  <2>3. FellBack
    BY <1>6, <2>1 DEF FellBack, InHand
  <2> QED
    BY <1>1, <1>3, <1>9, <2>1, <2>2, <2>3, PlaceLost
<1> QED
  BY <1>7, <1>8, <1>9 DEF PlaceNew, Call, x, r

LEMMA RestoreKeeps == ASSUME IInv, mode = "up", Restore PROVE IInv'
<1> DEFINE x == Task("sell_out", It, None)
           r == [trades[It] EXCEPT !.id = Len(orders) + 1]
<1>1. todo /= <<>> /\ Head(todo).op \in Placing
  BY DEF Restore, Doing, Placing
<1>2. /\ entries \in Nat /\ Rest /= <<>> /\ It \in Tracked /\ BookOK(trades, Len(orders), entries)
      /\ Len(orders) \in Nat
  BY <1>1, PlaceWas
<1>3. UNCHANGED <<setup, mode, feed, entries>>
  BY DEF Restore, Call, Step, Place, venueVars
<1>4. x.op \in {"restore", "sell_out"} /\ x.t = It
  BY DEF Task
<1>5. TradeOK(r, Len(orders) + 1) /\ r.id = Len(orders) + 1
  <2>1. TradeOK(trades[It], Len(orders))
    BY <1>2, BookFacts DEF Tracked
  <2>2. trades[It] = [sl |-> trades[It].sl, id |-> trades[It].id, riskFree |-> trades[It].riskFree, due |-> trades[It].due]
    BY <2>1 DEF TradeOK
  <2>3. r = [sl |-> trades[It].sl, id |-> Len(orders) + 1, riskFree |-> trades[It].riskFree, due |-> trades[It].due]
    BY <2>2
  <2>4. Len(orders) + 1 \in 0..(Len(orders) + 1)
    BY <1>2
  <2> QED
    BY <2>3, <2>4 DEF TradeOK
<1> HIDE DEF x, r
<1>6. /\ TasksOK(<<x>> \o Rest, Tracked, setup.exits, feed /= <<>>, entries)
      /\ <<x>> \o Rest /= <<>> /\ InHand(<<x>> \o Rest, It)
  <2>1. TasksOK(<<x>> \o Rest, Tracked, setup.exits, feed /= <<>>, entries)
    BY <1>1, <1>4, Fallback
  <2>2. <<x>> \o Rest /= <<>>
    BY <1>1, <1>4, Fallback
  <2>3. InHand(<<x>> \o Rest, It)
    BY <1>1, <1>4, Fallback
  <2> QED
    BY <2>1, <2>2, <2>3
<1>7. ASSUME UNCHANGED budget, Place(trades[It].sl), Step(With(It, r), Rest, {"move failed"}) PROVE IInv'
  <2>1. told' = told \cup {"move failed"} /\ trades' = With(It, r) /\ todo' = Rest
    BY <1>7 DEF Step
  <2>2. WorkStep
    BY <1>1, <1>2, <1>3, <1>7, <2>1, GoesOn
  <2> QED
    BY <1>1, <1>3, <1>5, <1>7, <2>1, <2>2, PlacesOne
<1>8. ASSUME UNCHANGED venueVars, Step(trades, <<x>> \o Rest, {}), UNCHANGED budget \/ Spend("refuse")
      PROVE  IInv'
  <2>1. told' = told \cup {} /\ trades' = trades /\ todo' = <<x>> \o Rest
    BY <1>8 DEF Step
  <2>2. WorkStep
    BY <1>1, <1>2, <1>3, <1>6, <1>8, <2>1, GoesOn DEF Fault
  <2>3. FellBack
    BY <1>6, <2>1 DEF FellBack, InHand
  <2> QED
    BY <1>1, <1>3, <1>8, <2>1, <2>2, <2>3, PlaceRefused
<1>9. ASSUME Spend("lose"), Place(trades[It].sl), Step(trades, <<x>> \o Rest, {}) PROVE IInv'
  <2>1. told' = told \cup {} /\ trades' = trades /\ todo' = <<x>> \o Rest
    BY <1>9 DEF Step
  <2>2. WorkStep
    BY <1>1, <1>2, <1>3, <1>6, <1>9, <2>1, GoesOn DEF Fault
  <2>3. FellBack
    BY <1>6, <2>1 DEF FellBack, InHand
  <2> QED
    BY <1>1, <1>3, <1>9, <2>1, <2>2, <2>3, PlaceLost
<1> QED
  BY <1>7, <1>8, <1>9 DEF Restore, Call, x, r

Cancelling == {"unlock", "release"}

LEMMA CancelWas ==
    ASSUME IInv, mode = "up", todo /= <<>>, Head(todo).op \in Cancelling
    PROVE  /\ hold \in Int /\ entries \in Nat /\ OrdersOK(orders)
           /\ BookOK(trades, Len(orders), entries) /\ Len(orders) \in Nat
           /\ Cardinality(LiveIn(orders)) \in Nat
           /\ Hand(todo, Entering) = 0 /\ Hand(todo, Entering \cup Replacing) = 0 /\ AsNaked /\ AsGone
           /\ It \in Tracked /\ TradeOK(trades[It], Len(orders))
           /\ TasksOK(Rest, Tracked, setup.exits, feed /= <<>>, entries) /\ Rest /= <<>>
           /\ Head(todo).op = "release" => setup.exits
           /\ DOMAIN orders = 1..Len(orders)
<1>1. /\ hold \in Int /\ entries \in Nat /\ OrdersOK(orders) /\ BookOK(trades, Len(orders), entries)
      /\ TaskOK(Head(todo), Tracked, setup.exits, feed /= <<>>, entries)
  BY AtWork
<1>2. Len(orders) \in Nat /\ Cardinality(LiveIn(orders)) \in Nat /\ DOMAIN orders = 1..Len(orders)
  BY <1>1, OrdersFacts
<1>3. Head(todo).op \notin Entering \cup Replacing /\ Head(todo).op /= "flush"
  BY DEF Cancelling, Entering, Replacing
<1>4. Hand(todo, Entering) = 0 /\ Hand(todo, Entering \cup Replacing) = 0 /\ AsNaked /\ AsGone
  BY <1>3, FreeHead
<1>5. It \in Tracked /\ (Head(todo).op = "release" => setup.exits)
  BY <1>1 DEF TaskOK, OfTrade, Cancelling, It
<1>6. TradeOK(trades[It], Len(orders))
  BY <1>1, <1>5, BookFacts DEF Tracked
<1>7. TasksOK(Rest, Tracked, setup.exits, feed /= <<>>, entries) /\ Rest /= <<>> /\ Head(Rest).op \in Ahead
  BY <1>3, Goes
<1> QED
  BY <1>1, <1>2, <1>4, <1>5, <1>6, <1>7

\* What follows the cancel of a trade's order.
LEMMA Follow ==
    ASSUME IInv, mode = "up", todo /= <<>>, Head(todo).op \in Cancelling,
           NEW x, x.op \in {"place", "sell"}, x.t = It, x.op = "sell" => setup.exits
    PROVE  /\ TasksOK(<<x>> \o Rest, Tracked, setup.exits, feed /= <<>>, entries)
           /\ <<x>> \o Rest /= <<>> /\ InHand(<<x>> \o Rest, It)
<1>1. It \in Tracked
  BY CancelWas
<1>2. TasksOK(todo, Tracked, setup.exits, feed /= <<>>, entries)
  BY AtWork
<1>3. TaskOK(x, Tracked, setup.exits, feed /= <<>>, entries) /\ x.op /= "flush" /\ x.op \in OfTrade /\ x.op \in Replacing
  BY <1>1 DEF TaskOK, OfTrade, Replacing, Stages, Entering
<1>4. x.t = Head(todo).t /\ Head(todo).op /= "flush"
  BY DEF It, Cancelling
<1>5. /\ TasksOK(<<x>> \o Rest, Tracked, setup.exits, feed /= <<>>, entries)
      /\ <<x>> \o Rest /= <<>> /\ Head(<<x>> \o Rest) = x
  BY <1>2, <1>3, <1>4, NextTask DEF Rest
<1>6. x.op \notin Entering
  BY DEF Entering
<1> QED
  BY <1>3, <1>5, <1>6 DEF Hand, Handled, InHand

\* Nothing was cancelled, as far as the venue is concerned.
LEMMA CancelsNothing ==
    ASSUME IInv, mode = "up", todo /= <<>>, Head(todo).op \in Cancelling,
           UNCHANGED venueVars, WorkStep, entries' = entries, SameIds,
           TasksOK(todo', Tracked, setup.exits, feed /= <<>>, entries)
    PROVE  IInv'
<1>1. entries \in Nat /\ AsNaked /\ AsGone
  BY CancelWas
<1>2. hold' = hold /\ orders' = orders
  BY DEF venueVars
<1>3. entries <= entries'
  BY <1>1, SameNumber
<1> QED
  BY <1>1, <1>2, <1>3, SameBook

LEMMA CancelsNone ==
    ASSUME IInv, mode = "up", todo /= <<>>, Head(todo).op \in Cancelling,
           UNCHANGED venueVars, WorkStep, entries' = entries, trades' = trades,
           TasksOK(todo', Tracked, setup.exits, feed /= <<>>, entries)
    PROVE  IInv'
<1>1. SameIds
  BY SameTrades
<1> QED
  BY <1>1, CancelsNothing

\* The trade's order is gone, and the trade is in hand or the user knows.
LEMMA CancelsOne ==
    ASSUME IInv, mode = "up", todo /= <<>>, Head(todo).op \in Cancelling,
           trades[It].id \in Live, Cancel(trades[It].id), WorkStep, entries' = entries,
           NEW r, DOMAIN trades' = Tracked, trades'[It] = r, \A t \in Tracked : t /= It => trades'[t] = trades[t],
           TradeOK(r, Len(orders)), r.id \in {trades[It].id, 0},
           TasksOK(todo', Tracked, setup.exits, feed /= <<>>, entries),
           InHand(todo', It) \/ (SaidNaked' /\ SaidGone')
    PROVE  IInv'
<1>1. /\ hold \in Int /\ entries \in Nat /\ OrdersOK(orders)
      /\ BookOK(trades, Len(orders), entries) /\ Len(orders) \in Nat
      /\ Cardinality(LiveIn(orders)) \in Nat
      /\ Hand(todo, Entering) = 0 /\ Hand(todo, Entering \cup Replacing) = 0
      /\ It \in Tracked /\ DOMAIN orders = 1..Len(orders)
  BY CancelWas
<1> DEFINE i == trades[It].id
<1>2. i \in LiveIn(orders) /\ hold' = hold /\ feed' = feed /\ orders' = [orders EXCEPT ![i].st = "cancelled"]
  BY <1>1 DEF Cancel, Live, LiveIn
<1>3. /\ OrdersOK(orders') /\ Len(orders') = Len(orders)
      /\ LiveIn(orders') = LiveIn(orders) \ {i} /\ FilledIn(orders') = FilledIn(orders)
      /\ Cardinality(LiveIn(orders')) = Cardinality(LiveIn(orders)) - 1
  <2> HIDE DEF i
  <2> QED
    BY <1>1, <1>2, CancelMakes
<1>4. DOMAIN trades' = Tracked /\ trades'[It] = r /\ \A t \in Tracked : t /= It => trades'[t] = trades[t]
  OBVIOUS
<1>5. BookOK(trades', Len(orders), entries)
  <2> DEFINE n == Len(orders)
  <2>1. It \in DOMAIN trades /\ It \in 1..entries
    BY <1>1, BookFacts DEF Tracked
  <2>2. r.id = 0 \/ r.id > n \/ (It \in DOMAIN trades /\ r.id = trades[It].id)
    BY <2>1
  <2>3. DOMAIN trades' = DOMAIN trades \cup {It} /\ trades'[It] = r
        /\ \A u \in DOMAIN trades : u /= It => trades'[u] = trades[u]
    BY <1>4, <2>1 DEF Tracked
  <2>4. n \in Nat /\ n <= n /\ entries \in Nat /\ entries <= entries
    BY <1>1
  <2>5. BookOK(trades, n, entries) /\ TradeOK(r, n)
    BY <1>1
  <2> HIDE DEF n
  <2>6. BookOK(trades', n, entries)
    BY <2>1, <2>2, <2>3, <2>4, <2>5, BookWith
  <2> QED
    BY <2>6 DEF n
<1>6. NakedKept
  <2>1. CASE SaidNaked'
    BY <2>1 DEF NakedKept
  <2>2. CASE InHand(todo', It)
    <3>1. ASSUME NEW t \in DOMAIN trades', t \in Tracked => CoveredBy(trades[t], t, orders, todo)
          PROVE  CoveredBy(trades'[t], t, orders', todo')
      <4>1. CASE t = It
        BY <2>2, <4>1 DEF CoveredBy, InHand
      <4>2. CASE t /= It
        <5>1. trades'[t] = trades[t] /\ t \in Tracked /\ ~Handled(t, todo)
          BY <1>1, <1>4, <3>1, <4>2 DEF Handled, Cancelling, Replacing
        <5>2. trades[t].id \in LiveIn(orders) \cup FilledIn(orders)
          BY <3>1, <5>1 DEF CoveredBy
        <5>3. trades[t].id /= i
          <6>1. trades[t].id /= i \/ trades[t].id = 0
            BY <1>1, <4>2, <5>1, BookFacts DEF Tracked
          <6>2. 0 \notin LiveIn(orders)
            BY <1>1 DEF LiveIn
          <6> QED
            BY <1>2, <6>1, <6>2
        <5> QED
          BY <1>3, <5>1, <5>2, <5>3 DEF CoveredBy
      <4> QED
        BY <4>1, <4>2
    <3>2. hold' - Cardinality(LiveIn(orders')) - 1 <= hold - Cardinality(LiveIn(orders)) - 0
      BY <1>1, <1>2, <1>3
    <3>3. Hand(todo', Entering \cup Replacing) = 1
      BY <2>2 DEF InHand
    <3> QED
      BY <1>1, <3>1, <3>2, <3>3 DEF NakedKept
  <2> QED
    BY <2>1, <2>2
<1>7. GoneKept
  <2>1. CASE SaidGone'
    BY <2>1 DEF GoneKept
  <2>2. CASE InHand(todo', It)
    <3>1. Cardinality(Standing(trades, orders)) \in Nat
      BY <1>1, BookFacts, StandingFacts
    <3>2. i \notin FilledIn(orders) /\ 0 \notin FilledIn(orders)
      BY <1>1, <1>2 DEF LiveIn, FilledIn
    <3>3. Standing(trades', orders') = Standing(trades, orders)
      BY <1>1, <1>3, <1>4, <3>2 DEF Standing, Tracked
    <3>4. hold' - Cardinality(Standing(trades', orders')) - 0 <= hold - Cardinality(Standing(trades, orders)) - 0
      BY <1>1, <1>2, <3>1, <3>3
    <3>5. Hand(todo', Entering) = 0
      BY <2>2 DEF InHand
    <3> QED
      BY <1>1, <3>4, <3>5 DEF GoneKept
  <2> QED
    BY <2>1, <2>2
<1>8. hold' \in Int /\ TasksOK(todo', DOMAIN trades', setup.exits, feed' /= <<>>, entries')
  BY <1>1, <1>2, <1>4
<1>9. BookOK(trades', Len(orders'), entries')
  BY <1>3, <1>5
<1> QED
  BY <1>3, <1>6, <1>7, <1>8, <1>9, NewBook

LEMMA UnlockKeeps == ASSUME IInv, mode = "up", Unlock PROVE IInv'
<1> DEFINE x == Task("place", It, Arg)
           r == trades[It]
           q == [r EXCEPT !.id = None]
           f == AtEntry(r)
<1>1. todo /= <<>> /\ Head(todo).op \in Cancelling
  BY DEF Unlock, Doing, Cancelling
<1>2. /\ entries \in Nat /\ Rest /= <<>> /\ It \in Tracked /\ TradeOK(r, Len(orders)) /\ Len(orders) \in Nat
      /\ TasksOK(Rest, Tracked, setup.exits, feed /= <<>>, entries)
  BY <1>1, CancelWas
<1>3. UNCHANGED <<setup, mode, feed, entries>>
  BY DEF Unlock, Call, Local, Step, Cancel, venueVars
<1>4. x.op \in {"place", "sell"} /\ x.t = It /\ (x.op = "sell" => setup.exits)
  BY DEF Task
<1>5. TradeOK(q, Len(orders)) /\ q.id = 0
  <2>1. r = [sl |-> r.sl, id |-> r.id, riskFree |-> r.riskFree, due |-> r.due]
    BY <1>2 DEF TradeOK
  <2>2. q = [sl |-> r.sl, id |-> 0, riskFree |-> r.riskFree, due |-> r.due]
    BY <2>1 DEF None
  <2> QED
    BY <1>2, <2>2 DEF TradeOK
<1>6. /\ DOMAIN With(It, q) = Tracked /\ With(It, q)[It] = q
      /\ \A t \in Tracked : t /= It => With(It, q)[t] = trades[t]
  BY <1>2 DEF With, Tracked
<1>12. TradeOK(f, Len(orders)) /\ f.id = r.id
  <2>1. r = [sl |-> r.sl, id |-> r.id, riskFree |-> r.riskFree, due |-> r.due]
    BY <1>2 DEF TradeOK
  <2>2. f = [r EXCEPT !.riskFree = TRUE]
    BY DEF AtEntry
  <2> HIDE DEF f
  <2>3. f = [sl |-> r.sl, id |-> r.id, riskFree |-> TRUE, due |-> r.due]
    BY <2>1, <2>2
  <2> QED
    BY <1>2, <2>3 DEF TradeOK
<1>13. /\ DOMAIN With(It, f) = Tracked /\ With(It, f)[It] = f
       /\ \A t \in Tracked : t /= It => With(It, f)[t] = trades[t]
  BY <1>2 DEF With, Tracked
<1> HIDE DEF x, f
<1>7. /\ TasksOK(<<x>> \o Rest, Tracked, setup.exits, feed /= <<>>, entries)
      /\ <<x>> \o Rest /= <<>> /\ InHand(<<x>> \o Rest, It)
  <2>1. TasksOK(<<x>> \o Rest, Tracked, setup.exits, feed /= <<>>, entries)
    BY <1>1, <1>4, Follow
  <2>2. <<x>> \o Rest /= <<>>
    BY <1>1, <1>4, Follow
  <2>3. InHand(<<x>> \o Rest, It)
    BY <1>1, <1>4, Follow
  <2> QED
    BY <2>1, <2>2, <2>3
<1>8. CASE Local(trades, <<x>> \o Rest)
  <2>1. /\ told' = told \cup {} /\ trades' = trades /\ todo' = <<x>> \o Rest
        /\ UNCHANGED venueVars /\ UNCHANGED budget
    BY <1>8 DEF Local, Step
  <2>2. WorkStep
    BY <1>1, <1>2, <1>3, <1>7, <2>1, GoesOn
  <2> QED
    BY <1>1, <1>3, <1>7, <2>1, <2>2, CancelsNone
<1>9. ASSUME UNCHANGED venueVars, Step(trades, Rest, {"move failed"}), UNCHANGED budget \/ Spend("refuse")
      PROVE  IInv'
  <2>1. told' = told \cup {"move failed"} /\ trades' = trades /\ todo' = Rest
    BY <1>9 DEF Step
  <2>2. WorkStep
    BY <1>1, <1>2, <1>3, <1>9, <2>1, GoesOn DEF Fault
  <2> QED
    BY <1>1, <1>2, <1>3, <1>9, <2>1, <2>2, CancelsNone
<1>10. ASSUME r.id \in Live, UNCHANGED budget, Cancel(r.id), Step(With(It, q), <<x>> \o Rest, {}) PROVE IInv'
  <2>1. told' = told \cup {} /\ trades' = With(It, q) /\ todo' = <<x>> \o Rest
    BY <1>10 DEF Step
  <2>2. WorkStep
    BY <1>1, <1>2, <1>3, <1>7, <1>10, <2>1, GoesOn
  <2>4. /\ DOMAIN trades' = Tracked /\ trades'[It] = q
        /\ \A t \in Tracked : t /= It => trades'[t] = trades[t]
    BY <1>6, <2>1
  <2>5. q.id \in {r.id, 0}
    BY <1>5
  <2> HIDE DEF q
  <2>3. InHand(todo', It) /\ TasksOK(todo', Tracked, setup.exits, feed /= <<>>, entries)
    BY <1>7, <2>1
  <2> QED
    BY <1>1, <1>3, <1>5, <1>10, <2>2, <2>3, <2>4, <2>5, CancelsOne
<1>11. ASSUME r.id \in Live, Spend("lose"), Cancel(r.id), Step(trades, Rest, {"move failed"}) PROVE IInv'
  <2>1. told' = told \cup {"move failed"} /\ trades' = trades /\ todo' = Rest
    BY <1>11 DEF Step
  <2>2. WorkStep
    BY <1>1, <1>2, <1>3, <1>11, <2>1, GoesOn DEF Fault
  <2>3. SaidNaked' /\ SaidGone'
    BY <1>11, <2>1, <2>2, LostSaid
  <2>4. /\ DOMAIN trades' = Tracked /\ trades'[It] = r /\ r.id \in {r.id, 0}
        /\ \A t \in Tracked : t /= It => trades'[t] = trades[t]
    BY <2>1 DEF Tracked
  <2>5. TasksOK(todo', Tracked, setup.exits, feed /= <<>>, entries)
    BY <1>2, <2>1
  <2> QED
    BY <1>1, <1>2, <1>3, <1>11, <2>2, <2>3, <2>4, <2>5, CancelsOne
<1>14. CASE Local(With(It, f), Rest)
  <2>1. /\ told' = told \cup {} /\ trades' = With(It, f) /\ todo' = Rest
        /\ UNCHANGED venueVars /\ UNCHANGED budget
    BY <1>14 DEF Local, Step
  <2>2. WorkStep
    BY <1>1, <1>2, <1>3, <2>1, GoesOn
  <2>3. SameIds
    <3>1. BookOK(trades, Len(orders), entries)
      BY <1>1, CancelWas
    <3>2. \A t \in Tracked : TradeOK(trades[t], Len(orders))
      BY <3>1, BookFacts DEF Tracked
    <3>3. DOMAIN trades' = Tracked
      BY <1>13, <2>1
    <3>4. ASSUME NEW t \in Tracked PROVE trades'[t].id = trades[t].id /\ TradeOK(trades'[t], Len(orders))
      BY <1>12, <1>13, <2>1, <3>2
    <3> QED
      BY <3>3, <3>4 DEF SameIds
  <2> QED
    BY <1>1, <1>2, <1>3, <2>1, <2>2, <2>3, CancelsNothing
<1> QED
  BY <1>8, <1>9, <1>10, <1>11, <1>14 DEF Unlock, Call, x, f

LEMMA ReleaseKeeps == ASSUME IInv, mode = "up", Release PROVE IInv'
<1> DEFINE x == Task("sell", It, None)
           r == trades[It]
           q == [r EXCEPT !.id = None]
<1>1. todo /= <<>> /\ Head(todo).op \in Cancelling
  BY DEF Release, Doing, Cancelling
<1>2. /\ entries \in Nat /\ It \in Tracked /\ TradeOK(r, Len(orders)) /\ Len(orders) \in Nat
      /\ (Head(todo).op = "release" => setup.exits)
  BY <1>1, CancelWas
<1>3. UNCHANGED <<setup, mode, feed, entries>>
  BY DEF Release, Call, Local, Step, Cancel, venueVars
<1>4. x.op \in {"place", "sell"} /\ x.t = It /\ (x.op = "sell" => setup.exits)
  BY <1>2 DEF Task, Release, Doing
<1>5. TradeOK(q, Len(orders)) /\ q.id = 0
  <2>1. r = [sl |-> r.sl, id |-> r.id, riskFree |-> r.riskFree, due |-> r.due]
    BY <1>2 DEF TradeOK
  <2>2. q = [sl |-> r.sl, id |-> 0, riskFree |-> r.riskFree, due |-> r.due]
    BY <2>1 DEF None
  <2> QED
    BY <1>2, <2>2 DEF TradeOK
<1>6. /\ DOMAIN With(It, q) = Tracked /\ With(It, q)[It] = q
      /\ \A t \in Tracked : t /= It => With(It, q)[t] = trades[t]
  BY <1>2 DEF With, Tracked
<1> HIDE DEF x
<1> DEFINE todos == <<x>> \o Rest
<1>7. TasksOK(todos, Tracked, setup.exits, feed /= <<>>, entries) /\ todos /= <<>> /\ InHand(todos, It)
  <2>1. TasksOK(todos, Tracked, setup.exits, feed /= <<>>, entries)
    BY <1>1, <1>4, Follow
  <2>2. todos /= <<>>
    BY <1>1, <1>4, Follow
  <2>3. InHand(todos, It)
    BY <1>1, <1>4, Follow
  <2> QED
    BY <2>1, <2>2, <2>3
<1> HIDE DEF todos
<1>8. ASSUME UNCHANGED venueVars, Step(trades, todos, {}), UNCHANGED budget \/ Spend("refuse")
      PROVE  IInv'
  <2>1. told' = told \cup {} /\ trades' = trades /\ todo' = todos
    BY <1>8 DEF Step
  <2>2. WorkStep
    BY <1>1, <1>2, <1>3, <1>7, <1>8, <2>1, GoesOn DEF Fault
  <2> QED
    BY <1>1, <1>3, <1>7, <1>8, <2>1, <2>2, CancelsNone
<1>9. ASSUME r.id \in Live, UNCHANGED budget, Cancel(r.id), Step(With(It, q), todos, {}) PROVE IInv'
  <2>1. told' = told \cup {} /\ trades' = With(It, q) /\ todo' = todos
    BY <1>9 DEF Step
  <2>2. WorkStep
    BY <1>1, <1>2, <1>3, <1>7, <1>9, <2>1, GoesOn
  <2>3. /\ DOMAIN trades' = Tracked /\ trades'[It] = q
        /\ \A t \in Tracked : t /= It => trades'[t] = trades[t]
    BY <1>6, <2>1
  <2>4. q.id \in {r.id, 0}
    BY <1>5
  <2> HIDE DEF q
  <2>5. InHand(todo', It) /\ TasksOK(todo', Tracked, setup.exits, feed /= <<>>, entries)
    BY <1>7, <2>1
  <2> QED
    BY <1>1, <1>3, <1>5, <1>9, <2>2, <2>3, <2>4, <2>5, CancelsOne
<1>10. ASSUME r.id \in Live, Spend("lose"), Cancel(r.id), Step(trades, todos, {}) PROVE IInv'
  <2>1. told' = told \cup {} /\ trades' = trades /\ todo' = todos
    BY <1>10 DEF Step
  <2>2. WorkStep
    BY <1>1, <1>2, <1>3, <1>7, <1>10, <2>1, GoesOn DEF Fault
  <2>3. /\ DOMAIN trades' = Tracked /\ trades'[It] = r /\ r.id \in {r.id, 0}
        /\ \A t \in Tracked : t /= It => trades'[t] = trades[t]
    BY <2>1 DEF Tracked
  <2>4. InHand(todo', It) /\ TasksOK(todo', Tracked, setup.exits, feed /= <<>>, entries)
    BY <1>7, <2>1
  <2> QED
    BY <1>1, <1>2, <1>3, <1>10, <2>2, <2>3, <2>4, CancelsOne
<1> QED
  BY <1>8, <1>9, <1>10 DEF Release, Call, Local, x, todos

-----------------------------------------------------------------------------
(* Stages that only change the trades or what is left to do *)

LEMMA OneIn == ASSUME NEW n \in Nat, n > 0 PROVE 1 \in 1..n
  OBVIOUS

LEMMA TaskIs == ASSUME NEW op, NEW t, NEW arg, NEW x, x = Task(op, t, arg) PROVE x.op = op /\ x.t = t
  BY DEF Task

\* One task of each of some trades.
EachOf(a, S, exits) ==
    /\ a = [k \in 1..Cardinality(S) |-> a[k]]
    /\ \A k \in 1..Cardinality(S) : a[k].op \in {"unlock", "release"} /\ a[k].t = Ascending(S)[k]
    /\ \A k \in 1..Cardinality(S) : a[k].op = "release" => exits
    /\ S \subseteq Nat

\* They come before a rest that concerns none.
LEMMA EachOK ==
    ASSUME NEW s, NEW ids, NEW exits, NEW some, NEW last, TasksOK(s, ids, exits, some, last), s /= <<>>,
           Head(s).op \in Stages,
           NEW S, IsFiniteSet(S), S \subseteq ids, NEW a, EachOf(a, S, exits), NEW c, c = a \o s
    PROVE  TasksOK(c, ids, exits, some, last) /\ c /= <<>> /\ Head(c).op \in Ahead
<1> DEFINE n == Cardinality(S)
<1>1. n \in Nat
  BY FS_CardinalityType
<1>2. /\ \A k \in 1..n : Ascending(S)[k] \in S
      /\ \A k, l \in 1..n : k /= l => Ascending(S)[k] /= Ascending(S)[l]
  BY RanksName DEF EachOf
<1>3. IsSeq(a) /\ Len(a) = n
  BY <1>1, SeqMade DEF EachOf
<1> HIDE DEF n
<1>16. \A k \in 1..n : a[k].op \in {"unlock", "release"} /\ a[k].t = Ascending(S)[k] /\ (a[k].op = "release" => exits)
  BY DEF n, EachOf
<1>4. \A i \in 1..Len(a) : TaskOK(a[i], ids, exits, some, last) /\ a[i].op /= "flush"
  BY <1>2, <1>3, <1>16 DEF TaskOK, OfTrade, Stages, Replacing, Entering
<1>5. \A i \in 1..Len(a) : a[i].op \in Ahead /\ a[i].op \in OfTrade
  BY <1>3, <1>16 DEF Ahead, OfTrade
<1>6. \A i, j \in 1..Len(a) : i < j => a[i].op \in OfTrade /\ a[i].t /= a[j].t
  <2> SUFFICES ASSUME NEW i \in 1..Len(a), NEW j \in 1..Len(a), i < j
               PROVE  a[i].op \in OfTrade /\ a[i].t /= a[j].t
    OBVIOUS
  <2>1. i /= j
    BY <1>1, <1>3
  <2> QED
    BY <1>2, <1>3, <1>5, <1>16, <2>1
<1>7. IsSeq(s) /\ Len(s) \in Nat /\ Head(s) = s[1] /\ Len(s) > 0
  <2>1. IsSeq(s)
    BY DEF TasksOK
  <2> QED
    BY <2>1, SeqTail, SeqLen
<1>8. \A j \in 1..Len(s) : s[j].op \notin OfTrade
  <2> SUFFICES ASSUME NEW j \in 1..Len(s), s[j].op \in OfTrade PROVE FALSE
    OBVIOUS
  <2>1. s[1].op \notin OfTrade
    BY <1>7 DEF Stages, OfTrade, Replacing
  <2>2. 1 \in 1..Len(s) /\ 1 < j
    BY <1>7, <2>1
  <2>3. s[1].op \in OfTrade
    BY <2>2, TasksAre
  <2> QED
    BY <2>1, <2>3
<1>9. Head(s).op \in Ahead
  BY DEF Ahead
<1>13. \A j \in 1..Len(s) : s[j].op \in OfTrade =>
           \A i \in 1..Len(a) : a[i].op \in OfTrade /\ a[i].t /= s[j].t
  BY <1>8
<1>14. \A i \in 1..Len(a) : i > 1 => a[i].op \in Ahead
  BY <1>5
<1>10. TasksOK(c, ids, exits, some, last)
  BY <1>3, <1>4, <1>14, <1>6, <1>13, <1>9, MoreOK
<1>15. c /= <<>>
  <2>1. Len(c) = Len(a) + Len(s)
    BY <1>3, <1>7, SeqConcat
  <2>2. Len(a) + Len(s) > 0
    BY <1>1, <1>3, <1>7
  <2> QED
    BY <2>1, <2>2, SeqNone
<1>11. Head(c) = IF a = <<>> THEN Head(s) ELSE a[1]
  BY <1>3, <1>4, <1>14, <1>6, <1>13, <1>9, MoreOK
<1>12. a /= <<>> => 1 \in 1..Len(a)
  <2> SUFFICES ASSUME a /= <<>> PROVE 1 \in 1..Len(a)
    OBVIOUS
  <2>1. Len(a) > 0
    BY <1>3, SeqTail
  <2>2. Len(a) \in Nat
    BY <1>1, <1>3
  <2> QED
    BY <2>1, <2>2, OneIn
<1> QED
  BY <1>5, <1>9, <1>10, <1>15, <1>11, <1>12

\* A stage done: the rest of the item concerns no trade yet.
LEMMA StageWas ==
    ASSUME IInv, mode = "up", todo /= <<>>, Head(todo).op \in {"peak", "risk_free", "trail", "exit"}
    PROVE  /\ TasksOK(Rest, Tracked, setup.exits, feed /= <<>>, entries)
           /\ Rest /= <<>> /\ Head(Rest).op \in Ahead
           /\ AsNaked /\ AsGone /\ entries \in Nat /\ entries <= entries
           /\ IsFiniteSet(Tracked) /\ Tracked \subseteq Nat
           /\ \A t \in Tracked : TradeOK(trades[t], Len(orders))
<1>1. entries \in Nat /\ BookOK(trades, Len(orders), entries)
  BY AtWork
<1>2. Head(todo).op \notin Entering \cup Replacing /\ Head(todo).op /= "flush"
  BY DEF Entering, Replacing
<1>3. AsNaked /\ AsGone
  BY <1>2, FreeHead
<1>4. TasksOK(Rest, Tracked, setup.exits, feed /= <<>>, entries) /\ Rest /= <<>> /\ Head(Rest).op \in Ahead
  BY <1>2, Goes
<1>5. IsFiniteSet(Tracked) /\ Tracked \subseteq 1..entries /\ \A t \in Tracked : TradeOK(trades[t], Len(orders))
  BY <1>1, BookFacts DEF Tracked
<1>6. entries <= entries /\ 1..entries \subseteq Nat
  BY <1>1
<1> QED
  BY <1>1, <1>3, <1>4, <1>5, <1>6

\* A local step of a stage that leaves the trades their ids.
LEMMA StageKeeps ==
    ASSUME IInv, mode = "up", todo /= <<>>, Head(todo).op \in {"peak", "risk_free", "trail", "exit"},
           UNCHANGED <<venueVars, budget, setup, mode, entries>>, told' = told \cup {}, SameIds,
           TasksOK(todo', Tracked, setup.exits, feed /= <<>>, entries), todo' /= <<>>
    PROVE  IInv'
<1>1. AsNaked /\ AsGone /\ entries \in Nat /\ entries <= entries
  BY StageWas
<1>2. UNCHANGED <<setup, mode, feed, entries, hold, orders>> /\ UNCHANGED budget
  BY DEF venueVars
<1>3. WorkStep
  BY <1>1, <1>2, GoesOn
<1> QED
  BY <1>1, <1>2, <1>3, SameBook

LEMMA StagesLeft ==
    ASSUME IInv, mode = "up", todo /= <<>>, Head(todo).op \in {"peak", "risk_free", "trail", "exit"}
    PROVE  Head(Rest).op \in Stages
<1>1. TasksOK(todo, Tracked, setup.exits, feed /= <<>>, entries)
  BY AtWork
<1>2. IsSeq(todo)
  BY <1>1 DEF TasksOK
<1>3. Rest /= <<>> /\ Head(Rest).op \in Ahead
  BY StageWas
<1>4. /\ IsSeq(Rest) /\ Len(Rest) = Len(todo) - 1 /\ Len(todo) > 0 /\ Head(todo) = todo[1]
      /\ \A i \in 1..Len(Rest) : i + 1 \in 1..Len(todo) /\ Rest[i] = todo[i + 1]
  BY <1>2, SeqTail DEF Rest
<1>5. Len(todo) \in Nat
  BY <1>2, SeqLen
<1>6. Len(Rest) > 0 /\ Head(Rest) = Rest[1]
  BY <1>3, <1>4, SeqTail
<1>7. 1 \in 1..Len(todo) /\ 2 \in 1..Len(todo) /\ Head(Rest) = todo[2]
  BY <1>4, <1>5, <1>6
<1>8. todo[2].op \in OfTrade => todo[1].op \in OfTrade
  BY <1>1, <1>7, TasksAre
<1>9. todo[1].op \notin OfTrade
  BY <1>4 DEF OfTrade, Replacing
<1> QED
  BY <1>3, <1>7, <1>8, <1>9 DEF Ahead, OfTrade

LEMMA TrackPeaksKeeps == ASSUME IInv, mode = "up", TrackPeaks PROVE IInv'
<1>1. todo /= <<>> /\ Head(todo).op \in {"peak", "risk_free", "trail", "exit"}
  BY DEF TrackPeaks, Doing
<1>2. PICK peak \in [Tracked -> -1..setup.top] :
          Local([t \in Tracked |-> [trades[t] EXCEPT !.due = peak[t]]], Rest)
  BY DEF TrackPeaks
<1>3. UNCHANGED <<venueVars, budget, setup, mode, entries>>
  BY <1>2 DEF TrackPeaks, Local, Step
<1>4. told' = told \cup {} /\ todo' = Rest /\ trades' = [t \in Tracked |-> [trades[t] EXCEPT !.due = peak[t]]]
  BY <1>2 DEF Local, Step
<1>5. DOMAIN trades' = Tracked
  BY <1>4
<1>6. ASSUME NEW t \in Tracked PROVE trades'[t].id = trades[t].id /\ TradeOK(trades'[t], Len(orders))
  <2> DEFINE r == trades[t]
             q == [r EXCEPT !.due = peak[t]]
  <2>1. TradeOK(r, Len(orders))
    BY <1>1, StageWas
  <2>2. r = [sl |-> r.sl, id |-> r.id, riskFree |-> r.riskFree, due |-> r.due]
    BY <2>1 DEF TradeOK
  <2>3. q = [sl |-> r.sl, id |-> r.id, riskFree |-> r.riskFree, due |-> peak[t]]
    BY <2>2
  <2>4. q.id = r.id /\ TradeOK(q, Len(orders))
    BY <2>1, <2>3 DEF TradeOK
  <2>5. trades'[t] = q
    BY <1>4
  <2> QED
    BY <2>4, <2>5
<1>7. SameIds
  BY <1>5, <1>6 DEF SameIds
<1>8. TasksOK(todo', Tracked, setup.exits, feed /= <<>>, entries) /\ todo' /= <<>>
  BY <1>1, <1>4, StageWas
<1> QED
  BY <1>1, <1>3, <1>4, <1>7, <1>8, StageKeeps

\* A local step that puts one task of each of some trades first.
LEMMA EachKeeps ==
    ASSUME IInv, mode = "up", todo /= <<>>, Head(todo).op \in {"peak", "risk_free", "trail", "exit"},
           UNCHANGED entries,
           NEW S, S \subseteq Tracked, NEW a, EachOf(a, S, setup.exits), Local(trades, a \o Rest)
    PROVE  IInv'
<1> DEFINE c == a \o Rest
<1>1. /\ TasksOK(Rest, Tracked, setup.exits, feed /= <<>>, entries)
      /\ Rest /= <<>> /\ Head(Rest).op \in Stages
      /\ IsFiniteSet(Tracked) /\ Tracked \subseteq Nat
  BY StageWas, StagesLeft
<1>2. IsFiniteSet(S)
  BY <1>1, FS_Subset
<1>3. told' = told \cup {} /\ todo' = c /\ trades' = trades /\ UNCHANGED <<venueVars, budget, setup, mode, entries>>
  BY DEF Local, Step
<1> HIDE DEF c
<1>4. c = a \o Rest
  BY DEF c
<1>5. TasksOK(c, Tracked, setup.exits, feed /= <<>>, entries)
  BY <1>1, <1>2, <1>4, EachOK
<1>6. c /= <<>>
  BY <1>1, <1>2, <1>4, EachOK
<1>7. SameIds
  BY <1>3, SameTrades
<1> QED
  BY <1>3, <1>5, <1>6, <1>7, StageKeeps

LEMMA UnlocksKeep ==
    ASSUME IInv, mode = "up", todo /= <<>>, Head(todo).op \in {"peak", "risk_free", "trail", "exit"},
           UNCHANGED entries,
           NEW S, S \subseteq Tracked, NEW rung, Local(trades, UnlockTasks(S, rung) \o Rest)
    PROVE  IInv'
<1> DEFINE a == UnlockTasks(S, rung)
<1>1. a = [k \in 1..Cardinality(S) |-> a[k]]
  BY DEF UnlockTasks
<1>2. \A k \in 1..Cardinality(S) : a[k] = Task("unlock", Ascending(S)[k], rung[Ascending(S)[k]])
  BY DEF UnlockTasks
<1> HIDE DEF a
<1>3. \A k \in 1..Cardinality(S) : a[k].op = "unlock" /\ a[k].t = Ascending(S)[k]
  BY <1>2, TaskIs
<1>4. Local(trades, a \o Rest)
  BY DEF a
<1>5. \A k \in 1..Cardinality(S) : a[k].op \in {"unlock", "release"} /\ a[k].t = Ascending(S)[k]
  BY <1>3
<1>6. \A k \in 1..Cardinality(S) : a[k].op = "release" => setup.exits
  BY <1>3
<1>7. S \subseteq Nat
  BY StageWas
<1>8. EachOf(a, S, setup.exits)
  BY <1>1, <1>5, <1>6, <1>7 DEF EachOf
<1> QED
  BY <1>4, <1>8, EachKeeps

LEMMA RiskFreeKeeps == ASSUME IInv, mode = "up", RiskFree PROVE IInv'
<1>1. todo /= <<>> /\ Head(todo).op \in {"peak", "risk_free", "trail", "exit"} /\ UNCHANGED entries
  BY DEF RiskFree, Doing
<1>2. PICK S \in SUBSET {t \in Tracked : setup.riskFree /\ ~trades[t].riskFree} :
          Local(trades, UnlockTasks(S, [t \in S |-> 0]) \o Rest)
  BY DEF RiskFree
<1>3. S \subseteq Tracked
  OBVIOUS
<1> QED
  BY <1>1, <1>2, <1>3, UnlocksKeep

LEMMA TrailKeeps == ASSUME IInv, mode = "up", Trail PROVE IInv'
<1>1. todo /= <<>> /\ Head(todo).op \in {"peak", "risk_free", "trail", "exit"} /\ UNCHANGED entries
  BY DEF Trail, Doing
<1> DEFINE S == {t \in Tracked : trades[t].sl < trades[t].due}
           rung == [t \in S |-> trades[t].due]
<1>2. S \subseteq Tracked /\ Local(trades, UnlockTasks(S, rung) \o Rest)
  BY DEF Trail
<1> HIDE DEF S, rung
<1> QED
  BY <1>1, <1>2, UnlocksKeep

LEMMA ForceCloseKeeps == ASSUME IInv, mode = "up", ForceClose PROVE IInv'
<1>1. todo /= <<>> /\ Head(todo).op \in {"peak", "risk_free", "trail", "exit"} /\ UNCHANGED entries
  BY DEF ForceClose, Doing
<1>2. CASE Local(trades, Rest)
  <2>1. told' = told \cup {} /\ todo' = Rest /\ trades' = trades /\ UNCHANGED <<venueVars, budget, setup, mode, entries>>
    BY <1>1, <1>2 DEF Local, Step
  <2>2. SameIds
    BY <1>1, <2>1, SameTrades
  <2>3. TasksOK(todo', Tracked, setup.exits, feed /= <<>>, entries) /\ todo' /= <<>>
    BY <1>1, <2>1, StageWas
  <2> QED
    BY <1>1, <2>1, <2>2, <2>3, StageKeeps
<1>3. CASE setup.exits /\ Local(trades, PerTrade("release", Tracked) \o Rest)
  <2> DEFINE a == PerTrade("release", Tracked)
  <2>1. a = [k \in 1..Cardinality(Tracked) |-> a[k]]
    BY DEF PerTrade
  <2>2. \A k \in 1..Cardinality(Tracked) : a[k] = Task("release", Ascending(Tracked)[k], None)
    BY DEF PerTrade
  <2> HIDE DEF a
  <2>3. \A k \in 1..Cardinality(Tracked) : a[k].op \in {"unlock", "release"} /\ a[k].t = Ascending(Tracked)[k]
    BY <2>2, TaskIs
  <2>4. \A k \in 1..Cardinality(Tracked) : a[k].op = "release" => setup.exits
    BY <1>3
  <2>5. Local(trades, a \o Rest) /\ Tracked \subseteq Tracked
    BY <1>3 DEF a
  <2>6. Tracked \subseteq Nat
    BY <1>1, StageWas
  <2>7. EachOf(a, Tracked, setup.exits)
    BY <2>1, <2>3, <2>4, <2>6 DEF EachOf
  <2> QED
    BY <1>1, <2>5, <2>7, EachKeeps
<1> QED
  BY <1>2, <1>3 DEF ForceClose

-----------------------------------------------------------------------------
(* Fills and the degraded poll *)

\* Some trades are taken for closed.
LEMMA FewerKeeps ==
    ASSUME IInv, mode = "up", todo /= <<>>, Head(todo).op \in {"fill", "poll"},
           UNCHANGED <<setup, mode, hold, orders, entries, told>>,
           UNCHANGED budget \/ \E f \in Fault : Spend(f), todo' = Rest,
           IsSeq(feed'), \A i \in 1..Len(feed') : feed'[i] \in FilledIn(orders),
           NEW K, K \subseteq Tracked, DOMAIN trades' = K, \A t \in K : trades'[t] = trades[t],
           SaidGone' \/ \A t \in Tracked \ K : trades[t].id \in FilledIn(orders)
    PROVE  IInv'
<1>1. /\ TypeInv /\ hold \in Int /\ entries \in Nat /\ OrdersOK(orders) /\ BookOK(trades, Len(orders), entries)
      /\ TasksOK(todo, Tracked, setup.exits, feed /= <<>>, entries)
      /\ SaidNaked \/ \A t \in Tracked : CoveredBy(trades[t], t, orders, todo)
      /\ SaidNaked \/ hold - Cardinality(LiveIn(orders)) <= Hand(todo, Entering \cup Replacing)
      /\ SaidGone \/ hold - Cardinality(Standing(trades, orders)) <= Hand(todo, Entering)
      /\ "close failed" \in told => setup.exits
  BY AtWork
<1>2. Head(todo).op \notin Entering \cup Replacing /\ Head(todo).op /= "flush" /\ Head(todo).op \notin OfTrade
  BY DEF Entering, Replacing, OfTrade
<1>3. budget' \in [Fault -> Nat] /\ \A f \in Fault : budget'[f] <= budget[f]
  BY <1>1, Budgets
<1>4. (SaidNaked => SaidNaked') /\ (SaidGone => SaidGone')
  BY <1>1, <1>3, SaidKept DEF Fault
<1>5. TasksOK(Rest, K, setup.exits, feed' /= <<>>, entries) /\ Rest /= <<>> /\ Head(Rest).op \in Ahead
  BY <1>1, <1>2, RestOK DEF Rest
<1>6. /\ Hand(todo', Entering) = 0 /\ Hand(todo', Entering \cup Replacing) = 0
      /\ Hand(todo, Entering) = 0 /\ Hand(todo, Entering \cup Replacing) = 0
      /\ \A t : ~Handled(t, todo)
  <2>1. Hand(todo', Entering) = 0 /\ Hand(todo', Entering \cup Replacing) = 0
    BY <1>5, AheadFree
  <2>2. Hand(todo, Entering) = 0 /\ Hand(todo, Entering \cup Replacing) = 0
    BY <1>2, FreeHead
  <2>3. \A t : ~Handled(t, todo)
    BY <1>2 DEF Handled
  <2> QED
    BY <2>1, <2>2, <2>3
<1>7. BookOK(trades', Len(orders), entries)
  <2>1. \A t \in DOMAIN trades : TradeOK(trades[t], Len(orders))
    BY <1>1, BookFacts
  <2>2. \A t \in DOMAIN trades' : TradeOK(trades'[t], Len(orders)) /\ trades'[t].id = trades[t].id
    BY <2>1 DEF Tracked
  <2>3. Len(orders) \in Nat
    BY <1>1, OrdersFacts
  <2>4. Len(orders) <= Len(orders) /\ entries <= entries
    BY <1>1, <2>3, SameNumber
  <2>5. DOMAIN trades' \subseteq DOMAIN trades
    BY DEF Tracked
  <2> QED
    BY <1>1, <2>2, <2>3, <2>4, <2>5, BookPart
<1>8. SaidNaked' \/ \A t \in DOMAIN trades' : CoveredBy(trades'[t], t, orders', todo')
  BY <1>1, <1>4, <1>6 DEF CoveredBy
<1>9. SaidNaked' \/ hold' - Cardinality(LiveIn(orders')) <= Hand(todo', Entering \cup Replacing)
  BY <1>1, <1>4, <1>6
<1>10. SaidGone' \/ hold' - Cardinality(Standing(trades', orders')) <= Hand(todo', Entering)
  <2>1. CASE \A t \in Tracked \ K : trades[t].id \in FilledIn(orders)
    <3>1. Standing(trades', orders') = Standing(trades, orders)
      BY <2>1 DEF Standing, Tracked
    <3> QED
      BY <1>1, <1>4, <1>6, <3>1
  <2> QED
    BY <2>1
<1>11. mode' = "up" /\ setup' = setup /\ todo' /= <<>> /\ ("close failed" \in told' => setup.exits)
  BY <1>1, <1>5
<1>12. hold' \in Int /\ entries' \in Nat /\ OrdersOK(orders')
  BY <1>1
<1>13. IsSeq(feed') /\ \A i \in 1..Len(feed') : feed'[i] \in FilledIn(orders')
  OBVIOUS
<1>14. /\ TasksOK(todo', DOMAIN trades', setup.exits, feed' /= <<>>, entries')
       /\ BookOK(trades', Len(orders'), entries')
  BY <1>5, <1>7
<1>15. WorkerKeeps
  BY <1>3, <1>8, <1>9, <1>10, <1>11, <1>12, <1>13, <1>14 DEF WorkerKeeps
<1> QED
  BY <1>15, UpKeeps

LEMMA ProcessFillKeeps == ASSUME IInv, mode = "up", ProcessFill PROVE IInv'
<1> DEFINE K == {t \in Tracked : trades[t].id /= Head(feed)}
<1>1. todo /= <<>> /\ Head(todo).op = "fill"
  BY DEF ProcessFill, Doing
<1>2. UNCHANGED <<setup, mode, hold, orders, entries, told, budget>> /\ todo' = Rest /\ feed' = Tail(feed)
  BY DEF ProcessFill
<1>3. trades' = Restrict(trades, K)
  BY DEF ProcessFill
<1>4. K \subseteq Tracked /\ DOMAIN trades' = K /\ \A t \in K : trades'[t] = trades[t]
  BY <1>3 DEF Restrict
<1>5. feed /= <<>>
  <2>1. TaskOK(Head(todo), Tracked, setup.exits, feed /= <<>>, entries)
    BY <1>1, AtWork
  <2> QED
    BY <1>1, <2>1 DEF TaskOK
<1>6. IsSeq(feed) /\ \A i \in 1..Len(feed) : feed[i] \in FilledIn(orders)
  BY DEF IInv, TypeInv
<1>7. /\ IsSeq(Tail(feed)) /\ Len(feed) > 0 /\ Head(feed) = feed[1] /\ Len(feed) \in Nat
      /\ \A i \in 1..Len(Tail(feed)) : i + 1 \in 1..Len(feed) /\ Tail(feed)[i] = feed[i + 1]
  BY <1>5, <1>6, SeqTail, SeqLen
<1>8. IsSeq(feed') /\ \A i \in 1..Len(feed') : feed'[i] \in FilledIn(orders)
  BY <1>2, <1>6, <1>7
<1>9. Head(feed) \in FilledIn(orders)
  BY <1>6, <1>7, OneIn
<1>10. \A t \in Tracked \ K : trades[t].id \in FilledIn(orders)
  BY <1>9
<1> HIDE DEF K
<1>11. Head(todo).op \in {"fill", "poll"}
  BY <1>1
<1> QED
  BY <1>1, <1>2, <1>4, <1>8, <1>10, <1>11, FewerKeeps

\* An order that neither works nor has filled is what the user was told of.
LEMMA NakedForgotten == ASSUME SaidNaked, "close failed" \in told => Forgets PROVE SaidGone
  BY DEF SaidNaked, SaidGone

LEMMA PollKeeps == ASSUME IInv, mode = "up", Poll PROVE IInv'
<1>1. todo /= <<>> /\ Head(todo).op = "poll"
  BY DEF Poll, Doing
<1>2. UNCHANGED <<setup, mode, hold, orders, entries, told, feed>> /\ todo' = Rest
  BY DEF Poll
<1>3. Head(todo).op \in {"fill", "poll"}
  BY <1>1
<1>4. /\ TypeInv
      /\ SaidNaked \/ \A t \in Tracked : CoveredBy(trades[t], t, orders, todo)
      /\ "close failed" \in told => setup.exits
  BY <1>1, AtWork
<1>5. IsSeq(feed') /\ \A i \in 1..Len(feed') : feed'[i] \in FilledIn(orders)
  BY <1>2, <1>4 DEF TypeInv
<1>6. UNCHANGED budget \/ \E f \in Fault : Spend(f)
  BY DEF Poll, Fault
<1>7. CASE trades' = trades
  <2>1. Tracked \subseteq Tracked /\ DOMAIN trades' = Tracked /\ \A t \in Tracked : trades'[t] = trades[t]
    BY <1>7 DEF Tracked
  <2>2. \A t \in Tracked \ Tracked : trades[t].id \in FilledIn(orders)
    OBVIOUS
  <2> QED
    BY <1>1, <1>2, <1>3, <1>5, <1>6, <2>1, <2>2, FewerKeeps
<1>8. CASE ~setup.stream /\ trades' = Restrict(trades, {t \in Tracked : trades[t].id \in Live})
  <2> DEFINE K == {t \in Tracked : trades[t].id \in Live}
  <2>1. K \subseteq Tracked /\ DOMAIN trades' = K /\ \A t \in K : trades'[t] = trades[t]
    BY <1>8 DEF Restrict
  <2>2. SaidNaked => SaidGone'
    <3>1. (SaidGone => SaidGone')
      <4>1. budget' \in [Fault -> Nat] /\ \A f \in Fault : budget'[f] <= budget[f]
        BY <1>4, <1>6, Budgets
      <4> QED
        BY <1>2, <1>4, <4>1, SaidKept DEF Fault
    <3>2. "close failed" \in told => Forgets
      BY <1>4, <1>8 DEF Forgets
    <3> QED
      BY <3>1, <3>2, NakedForgotten
  <2>3. ASSUME ~SaidNaked, NEW t \in Tracked \ K PROVE trades[t].id \in FilledIn(orders)
    <3>1. CoveredBy(trades[t], t, orders, todo)
      BY <1>4, <2>3
    <3>2. ~Handled(t, todo)
      BY <1>1 DEF Handled, Replacing
    <3>3. trades[t].id \notin LiveIn(orders)
      <4>1. DOMAIN orders = 1..Len(orders)
        BY <1>4, OrdersFacts DEF TypeInv
      <4> QED
        BY <2>3, <4>1 DEF Live, LiveIn
    <3> QED
      BY <3>1, <3>2, <3>3 DEF CoveredBy
  <2>4. SaidGone' \/ \A t \in Tracked \ K : trades[t].id \in FilledIn(orders)
    BY <2>2, <2>3
  <2> HIDE DEF K
  <2> QED
    BY <1>1, <1>2, <1>3, <1>5, <1>6, <2>1, <2>4, FewerKeeps
<1> QED
  BY <1>7, <1>8 DEF Poll

-----------------------------------------------------------------------------
(* Between two items: the journal, the restart *)

LEMMA BudgetKept ==
    ASSUME TypeInv, setup' = setup, UNCHANGED budget \/ \E f \in Fault : Spend(f)
    PROVE  /\ budget' \in [Fault -> Nat] /\ \A f \in Fault : budget'[f] <= setup.faults[f]
           /\ budget'["lose"] \in Nat /\ budget'["lose"] <= budget["lose"]
<1>1. budget' \in [Fault -> Nat] /\ \A f \in Fault : budget'[f] <= budget[f]
  BY Budgets
<1>2. budget \in [Fault -> Nat] /\ setup.faults \in [Fault -> Nat] /\ \A f \in Fault : budget[f] <= setup.faults[f]
  BY DEF TypeInv, Setup
<1>3. ASSUME NEW f \in Fault PROVE budget'[f] <= setup.faults[f]
  BY <1>1, <1>2
<1>4. "lose" \in Fault
  BY DEF Fault
<1> QED
  BY <1>1, <1>3, <1>4

\* The venue and the trades that count stay as they are.
LEMMA StillKeeps ==
    ASSUME IInv, UNCHANGED <<setup, hold, orders, told, entries>>,
           UNCHANGED budget \/ \E f \in Fault : Spend(f),
           IsSeq(feed'), \A i \in 1..Len(feed') : feed'[i] \in FilledIn(orders),
           ModeInv', Books' = Books,
           todo = <<>> \/ Head(todo).op \notin Entering \cup Replacing
    PROVE  IInv'
<1>1. TypeInv
  BY DEF IInv
<1>2. /\ budget' \in [Fault -> Nat] /\ \A f \in Fault : budget'[f] <= setup.faults[f]
      /\ budget'["lose"] \in Nat /\ budget'["lose"] <= budget["lose"]
  BY <1>1, BudgetKept
<1>3. (SaidNaked => SaidNaked') /\ (SaidGone => SaidGone')
  BY <1>1, <1>2, SaidKept
<1>4. TypeInv'
  BY <1>1, <1>2 DEF TypeInv
<1>5. Hand(todo, Entering) = 0 /\ Hand(todo, Entering \cup Replacing) = 0 /\ \A t : ~Handled(t, todo)
  BY DEF Hand, Handled
<1>6. 0 <= Hand(todo', Entering) /\ Hand(todo', Entering) \in Nat
  BY HandIs
<1>7. 0 <= Hand(todo', Entering \cup Replacing) /\ Hand(todo', Entering \cup Replacing) \in Nat
  BY HandIs
<1>8. OrdersOK(orders) /\ hold \in Int
  BY <1>1 DEF TypeInv
<1>9. BookOK(Books, Len(orders), entries) /\ Covered /\ Locked /\ Accounted
  BY DEF IInv
<1>10. Covered'
  BY <1>3, <1>5, <1>9 DEF Covered, CoveredBy
<1>11. Locked'
  <2>1. Cardinality(LiveIn(orders)) \in Nat
    BY <1>8, OrdersFacts
  <2>2. SaidNaked' \/ hold - Cardinality(LiveIn(orders)) <= 0
    BY <1>3, <1>5, <1>9 DEF Locked
  <2>3. SaidNaked' \/ hold - Cardinality(LiveIn(orders)) <= Hand(todo', Entering \cup Replacing)
    BY <1>7, <1>8, <2>1, <2>2
  <2> QED
    BY <2>3 DEF Locked
<1>12. Accounted'
  <2> DEFINE n == Cardinality(Standing(Books, orders))
  <2>1. n \in Nat
    BY <1>9, BookFacts, StandingFacts
  <2>2. SaidGone' \/ hold - n <= 0
    BY <1>3, <1>5, <1>9 DEF Accounted
  <2>3. SaidGone' \/ hold - n <= Hand(todo', Entering)
    <3> HIDE DEF n
    <3> QED
      BY <1>6, <1>8, <2>1, <2>2
  <2> QED
    BY <2>3 DEF Accounted
<1>13. BookOK(Books', Len(orders'), entries')
  BY <1>9
<1> QED
  BY <1>4, <1>10, <1>11, <1>12, <1>13 DEF IInv

LEMMA NothingToDo == ASSUME NEW ids, NEW exits, NEW some, NEW last PROVE TasksOK(<<>>, ids, exits, some, last)
<1> DEFINE s == <<>>
<1>1. IsSeq(s) /\ \A i : i \notin 1..Len(s)
  BY SeqNone
<1> HIDE DEF s
<1>2. TasksOK(s, ids, exits, some, last)
  BY <1>1 DEF TasksOK
<1> QED
  BY <1>2 DEF s

\* What the worker does up to an end: one of its own tasks.
LEMMA UpTask ==
    ASSUME IInv, mode = "up", todo /= <<>>
    PROVE  Head(todo).op \in Stages \cup OfTrade \cup Entering \cup {"fill"}
  BY AtWork DEF TaskOK

LEMMA StartTask ==
    ASSUME IInv, mode /= "up", todo /= <<>>
    PROVE  /\ mode = "starting" /\ todo \in StartTasks /\ setup.faults["crash"] > 0
           /\ Head(todo).op \in {"read", "adopt", "flush"}
           /\ Doing("read") => Rest = <<Stage("adopt"), Stage("flush")>>
           /\ Doing("adopt") => Rest = <<Stage("flush")>>
<1>1. mode = "starting" /\ todo \in StartTasks /\ setup.faults["crash"] > 0
  BY DEF IInv, ModeInv
<1>2. CASE todo = <<Stage("read"), Stage("adopt"), Stage("flush")>>
  <2>1. Head(todo) = Stage("read") /\ Rest = <<Stage("adopt"), Stage("flush")>>
    BY <1>2 DEF Rest
  <2> QED
    BY <1>1, <2>1 DEF Doing, Stage, Task
<1>3. CASE todo = <<Stage("adopt"), Stage("flush")>>
  <2>1. Head(todo) = Stage("adopt") /\ Rest = <<Stage("flush")>>
    BY <1>3 DEF Rest
  <2> QED
    BY <1>1, <2>1 DEF Doing, Stage, Task
<1>4. CASE todo = <<Stage("flush")>>
  <2>1. Head(todo) = Stage("flush")
    BY <1>4
  <2> QED
    BY <1>1, <2>1 DEF Doing, Stage, Task
<1> QED
  BY <1>1, <1>2, <1>3, <1>4 DEF StartTasks

LEMMA FlushKeeps == ASSUME IInv, Flush PROVE IInv'
<1>1. todo /= <<>> /\ Head(todo).op = "flush"
  BY DEF Flush, Doing
<1>2. /\ UNCHANGED <<setup, hold, orders, feed, told, entries, budget>> /\ trades' = trades
      /\ mode' = "up" /\ todo' = <<>> /\ journal' = trades
  BY DEF Flush, venueVars
<1>3. Books = trades /\ Books' = trades
  BY <1>1, <1>2 DEF Books, Doing
<1>4. IsSeq(feed') /\ \A i \in 1..Len(feed') : feed'[i] \in FilledIn(orders)
  BY <1>2 DEF IInv, TypeInv
<1>5. Head(todo).op \notin Entering \cup Replacing
  BY <1>1 DEF Entering, Replacing
<1>6. ModeInv'
  <2>1. TasksOK(todo', DOMAIN trades', setup'.exits, feed' /= <<>>, entries')
    BY <1>2, NothingToDo
  <2>2. "close failed" \in told' => setup'.exits
    BY <1>2 DEF IInv, ModeInv
  <2>3. ~Doing("adopt")'
    BY <1>2 DEF Doing
  <2> QED
    BY <1>2, <2>1, <2>2, <2>3 DEF ModeInv, Tracked
<1> QED
  BY <1>2, <1>3, <1>4, <1>5, <1>6, StillKeeps

LEMMA ReadOrdersKeeps == ASSUME IInv, ReadOrders PROVE IInv'
<1>1. todo /= <<>> /\ Head(todo).op = "read" /\ Doing("read")
  BY DEF ReadOrders, Doing
<1>2. UNCHANGED <<setup, hold, orders, feed, told, entries, budget, mode, trades, journal>> /\ open' = Live /\ todo' = Rest
  BY DEF ReadOrders
<1>3. mode /= "up"
  BY <1>1, UpTask DEF Stages, OfTrade, Replacing, Entering
<1>4. mode = "starting" /\ Rest = <<Stage("adopt"), Stage("flush")>> /\ setup.faults["crash"] > 0
  BY <1>1, <1>3, StartTask
<1>5. todo' \in StartTasks /\ Head(todo') = Stage("adopt")
  BY <1>2, <1>4 DEF StartTasks
<1>6. Books = journal /\ Books' = journal
  BY <1>1, <1>2, <1>3, <1>5 DEF Books, Doing, Stage, Task
<1>7. IsSeq(feed') /\ \A i \in 1..Len(feed') : feed'[i] \in FilledIn(orders)
  BY <1>2 DEF IInv, TypeInv
<1>8. Head(todo).op \notin Entering \cup Replacing
  BY <1>1 DEF Entering, Replacing
<1>9. LiveIn(orders') \subseteq open'
  <2>1. DOMAIN orders = 1..Len(orders)
    BY OrdersFacts DEF IInv, TypeInv
  <2> QED
    BY <1>2, <2>1 DEF Live, LiveIn
<1>10. ModeInv'
  <2>1. "close failed" \in told' => setup'.exits
    BY <1>2 DEF IInv, ModeInv
  <2> QED
    BY <1>2, <1>4, <1>5, <1>9, <2>1 DEF ModeInv
<1> QED
  BY <1>2, <1>6, <1>7, <1>8, <1>10, StillKeeps

LEMMA RestartKeeps == ASSUME IInv, Restart PROVE IInv'
<1>1. mode = "down" /\ todo = <<>>
  BY DEF Restart, IInv, ModeInv
<1>2. /\ UNCHANGED <<setup, hold, orders, feed, told, entries, budget, trades, journal>> /\ mode' = "starting"
      /\ todo' = <<Stage("read"), Stage("adopt"), Stage("flush")>>
  BY DEF Restart, venueVars
<1>3. Head(todo') = Stage("read") /\ todo' \in StartTasks
  BY <1>2 DEF StartTasks
<1>4. Books = journal /\ Books' = journal
  BY <1>1, <1>2, <1>3 DEF Books, Doing, Stage, Task
<1>5. IsSeq(feed') /\ \A i \in 1..Len(feed') : feed'[i] \in FilledIn(orders)
  BY <1>2 DEF IInv, TypeInv
<1>6. ModeInv'
  <2>1. ("close failed" \in told' => setup'.exits) /\ setup'.faults["crash"] > 0
    BY <1>1, <1>2 DEF IInv, ModeInv
  <2>2. ~Doing("adopt")'
    BY <1>3 DEF Doing, Stage, Task
  <2> QED
    BY <1>2, <1>3, <2>1, <2>2 DEF ModeInv
<1> QED
  BY <1>1, <1>2, <1>4, <1>5, <1>6, StillKeeps

LEMMA CrashKeeps == ASSUME IInv, Crash PROVE IInv'
<1>1. todo = <<>> /\ mode /= "down" /\ Spend("crash")
  BY DEF Crash, IInv, TypeInv
<1>2. mode = "up" /\ journal = trades
  <2>1. <<>> \notin StartTasks
    BY DEF StartTasks
  <2> QED
    BY <1>1, <2>1 DEF IInv, ModeInv
<1>3. /\ UNCHANGED <<setup, hold, orders, told, entries, journal>> /\ mode' = "down"
      /\ todo' = <<>> /\ feed' = <<>>
  BY DEF Crash
<1>4. Books = journal /\ Books' = journal
  BY <1>2, <1>3 DEF Books, Doing
<1>5. IsSeq(feed') /\ \A i \in 1..Len(feed') : feed'[i] \in FilledIn(orders)
  <2>1. IsSeq(feed') /\ Len(feed') = 0
    BY <1>3, SeqNone
  <2> QED
    BY <2>1
<1>6. ModeInv'
  <2>1. "close failed" \in told' => setup'.exits
    BY <1>3 DEF IInv, ModeInv
  <2>2. setup.faults["crash"] > 0
    <3>1. /\ budget["crash"] \in Nat /\ setup.faults["crash"] \in Nat /\ budget["crash"] <= setup.faults["crash"]
          /\ budget["crash"] > 0
      BY <1>1 DEF IInv, TypeInv, Setup, Fault, Spend
    <3> QED
      BY <3>1
  <2>3. ~Doing("adopt")'
    BY <1>3 DEF Doing
  <2> QED
    BY <1>3, <2>1, <2>2, <2>3 DEF ModeInv
<1>7. \E f \in Fault : Spend(f)
  BY <1>1 DEF Fault
<1> QED
  BY <1>1, <1>3, <1>4, <1>5, <1>6, <1>7, StillKeeps

\* An item taken from the queue.
LEMMA ItemKeeps ==
    ASSUME IInv, NEW s, Item(s), IsSeq(s), s /= <<>>,
           \A i \in 1..Len(s) : i > 1 => s[i].op \in Stages,
           s[1].op \in Stages \/ (s[1].op = "fill" /\ feed /= <<>>),
           \A i \in 1..Len(s) : s[i].op = "flush" <=> i = Len(s)
    PROVE  IInv'
<1>1. mode = "up" /\ todo = <<>> /\ todo' = s /\ UNCHANGED <<setup, hold, orders, feed, mode, trades, journal, told, entries, budget>>
  BY DEF Item, venueVars
<1>2. Books = trades /\ Books' = trades
  BY <1>1 DEF Books
<1>3. IsSeq(feed') /\ \A i \in 1..Len(feed') : feed'[i] \in FilledIn(orders)
  BY <1>1 DEF IInv, TypeInv
<1>4. Len(s) \in Nat /\ Len(s) > 0 /\ Head(s) = s[1]
  BY SeqLen, SeqTail
<1>5. ASSUME NEW i \in 1..Len(s) PROVE s[i].op \in Stages \/ (i = 1 /\ s[i].op = "fill" /\ feed /= <<>>)
  <2>1. i = 1 \/ i > 1
    OBVIOUS
  <2> QED
    BY <2>1
<1>6. \A i \in 1..Len(s) : s[i].op \notin OfTrade
  BY <1>5 DEF Stages, OfTrade, Replacing
<1>7. TasksOK(s, Tracked, setup.exits, feed /= <<>>, entries)
  <2>1. \A i \in 1..Len(s) : TaskOK(s[i], Tracked, setup.exits, feed /= <<>>, entries)
    BY <1>5, <1>6 DEF TaskOK, Stages
  <2>2. \A i \in 1..Len(s) : i > 1 => s[i].op \in Ahead
    BY DEF Ahead
  <2> QED
    BY <1>6, <2>1, <2>2 DEF TasksOK
<1>8. ~Doing("adopt")'
  <2>1. 1 \in 1..Len(s)
    BY <1>4, OneIn
  <2>2. s[1].op /= "adopt"
    BY <1>5, <2>1 DEF Stages
  <2> QED
    BY <1>1, <1>4, <2>2 DEF Doing
<1>9. ModeInv'
  <2>1. "close failed" \in told' => setup'.exits
    BY <1>1 DEF IInv, ModeInv
  <2> QED
    BY <1>1, <1>7, <1>8, <2>1 DEF ModeInv, Tracked
<1> QED
  BY <1>1, <1>2, <1>3, <1>9, StillKeeps

LEMMA PollItemKeeps == ASSUME IInv, PollItem PROVE IInv'
<1> DEFINE s == <<Stage("poll"), Stage("flush")>>
<1>1. IsSeq(s) /\ Len(s) = 2 /\ s[1] = Stage("poll") /\ s[2] = Stage("flush")
  BY SeqTwo
<1>2. Item(s)
  BY DEF PollItem
<1> HIDE DEF s
<1>3. s[1].op = "poll" /\ s[2].op = "flush"
  BY <1>1 DEF Stage, Task
<1>4. \A i \in 1..Len(s) : i = 1 \/ i = 2
  BY <1>1
<1>5. \A i \in 1..Len(s) : i > 1 => s[i].op \in Stages
  BY <1>3, <1>4 DEF Stages
<1>6. \A i \in 1..Len(s) : s[i].op = "flush" <=> i = Len(s)
  BY <1>1, <1>3, <1>4
<1>7. s[1].op \in Stages /\ s /= <<>>
  BY <1>1, <1>3, SeqNone DEF Stages
<1> QED
  BY <1>1, <1>2, <1>5, <1>6, <1>7, ItemKeeps

LEMMA UserDataKeeps == ASSUME IInv, UserData PROVE IInv'
<1> DEFINE s == <<Stage("fill"), Stage("flush")>>
<1>1. IsSeq(s) /\ Len(s) = 2 /\ s[1] = Stage("fill") /\ s[2] = Stage("flush")
  BY SeqTwo
<1>2. Item(s) /\ feed /= <<>>
  BY DEF UserData
<1> HIDE DEF s
<1>3. s[1].op = "fill" /\ s[2].op = "flush"
  BY <1>1 DEF Stage, Task
<1>4. \A i \in 1..Len(s) : i = 1 \/ i = 2
  BY <1>1
<1>5. \A i \in 1..Len(s) : i > 1 => s[i].op \in Stages
  BY <1>3, <1>4 DEF Stages
<1>6. \A i \in 1..Len(s) : s[i].op = "flush" <=> i = Len(s)
  BY <1>1, <1>3, <1>4
<1>7. s /= <<>>
  BY <1>1, SeqNone
<1> QED
  BY <1>1, <1>2, <1>3, <1>5, <1>6, <1>7, ItemKeeps

LEMMA CandleKeeps == ASSUME IInv, Candle PROVE IInv'
<1> DEFINE s == <<Stage("peak"), Stage("risk_free"), Stage("trail"), Stage("exit"),
                  Stage("enter"), Stage("poll"), Stage("flush")>>
<1>1. IsSeq(s) /\ Len(s) = 7
  <2> DEFINE X == {Stage("peak"), Stage("risk_free"), Stage("trail"), Stage("exit"),
                   Stage("enter"), Stage("poll"), Stage("flush")}
  <2>1. /\ Stage("peak") \in X /\ Stage("risk_free") \in X /\ Stage("trail") \in X /\ Stage("exit") \in X
        /\ Stage("enter") \in X /\ Stage("poll") \in X /\ Stage("flush") \in X
    OBVIOUS
  <2> HIDE DEF X
  <2>2. s \in Seq(X) /\ Len(s) = 7
    BY <2>1
  <2> QED
    BY <2>2, SeqIs
<1>2. /\ s[1] = Stage("peak") /\ s[2] = Stage("risk_free") /\ s[3] = Stage("trail") /\ s[4] = Stage("exit")
      /\ s[5] = Stage("enter") /\ s[6] = Stage("poll") /\ s[7] = Stage("flush")
  OBVIOUS
<1>3. Item(s)
  BY DEF Candle
<1> HIDE DEF s
<1>4. /\ s[1].op = "peak" /\ s[2].op = "risk_free" /\ s[3].op = "trail" /\ s[4].op = "exit"
      /\ s[5].op = "enter" /\ s[6].op = "poll" /\ s[7].op = "flush"
  BY <1>2 DEF Stage, Task
<1>5. \A i \in 1..Len(s) : i \in {1, 2, 3, 4, 5, 6, 7}
  BY <1>1
<1>6. \A i \in 1..Len(s) : i > 1 => s[i].op \in Stages
  BY <1>4, <1>5 DEF Stages
<1>7. \A i \in 1..Len(s) : s[i].op = "flush" <=> i = Len(s)
  BY <1>1, <1>4, <1>5
<1>8. s[1].op \in Stages /\ s /= <<>>
  BY <1>1, <1>4, SeqNone DEF Stages
<1> QED
  BY <1>1, <1>3, <1>6, <1>7, <1>8, ItemKeeps

\* _reconcile_spot of a restart: a trade whose order no longer works is taken for closed.
LEMMA AdoptKeeps == ASSUME IInv, Adopt PROVE IInv'
<1> DEFINE K == {t \in DOMAIN journal : journal[t].id \in open}
<1>1. todo /= <<>> /\ Head(todo).op = "adopt" /\ Doing("adopt")
  BY DEF Adopt, Doing
<1>2. /\ UNCHANGED <<setup, hold, orders, feed, told, entries, budget, mode, journal>> /\ todo' = Rest
      /\ trades' = Restrict(journal, K)
  BY DEF Adopt, Local, Step, venueVars
<1>3. mode /= "up"
  BY <1>1, UpTask DEF Stages, OfTrade, Replacing, Entering
<1>4. mode = "starting" /\ Rest = <<Stage("flush")>> /\ setup.faults["crash"] > 0
  BY <1>1, <1>3, StartTask
<1>5. todo' \in StartTasks /\ todo' /= <<>> /\ Head(todo') = Stage("flush")
  BY <1>2, <1>4 DEF StartTasks
<1>6. Books = journal /\ Books' = trades'
  BY <1>1, <1>3, <1>5 DEF Books, Doing, Stage, Task
<1>7. DOMAIN trades' = K /\ K \subseteq DOMAIN journal /\ \A t \in K : trades'[t] = journal[t]
  BY <1>2 DEF Restrict
<1>8. /\ TypeInv /\ OrdersOK(orders) /\ hold \in Int /\ entries \in Nat /\ Len(orders) \in Nat
      /\ BookOK(journal, Len(orders), entries)
      /\ SaidNaked \/ \A t \in DOMAIN journal : CoveredBy(journal[t], t, orders, todo)
      /\ SaidNaked \/ hold - Cardinality(LiveIn(orders)) <= Hand(todo, Entering \cup Replacing)
      /\ SaidGone \/ hold - Cardinality(Standing(journal, orders)) <= Hand(todo, Entering)
      /\ "close failed" \in told => setup.exits
      /\ LiveIn(orders) \subseteq open
  <2>1. TypeInv /\ OrdersOK(orders) /\ hold \in Int /\ entries \in Nat
    BY DEF IInv, TypeInv
  <2>2. Len(orders) \in Nat
    BY <2>1, OrdersFacts
  <2>3. BookOK(journal, Len(orders), entries)
    BY <1>6 DEF IInv
  <2>4. Covered /\ Locked /\ Accounted
    BY DEF IInv
  <2>5. ("close failed" \in told => setup.exits) /\ LiveIn(orders) \subseteq open
    BY <1>1 DEF IInv, ModeInv
  <2> QED
    BY <1>6, <2>1, <2>2, <2>3, <2>4, <2>5 DEF Covered, Locked, Accounted
<1> HIDE DEF K
<1>9. TypeInv' /\ (SaidNaked => SaidNaked') /\ (SaidGone => SaidGone') /\ (SaidNaked => SaidGone)
  <2>1. TypeInv'
    BY <1>2, <1>8 DEF TypeInv
  <2>2. "close failed" \in told => Forgets
    BY <1>4, <1>8 DEF Forgets
  <2>3. SaidNaked => SaidGone
    BY <2>2, NakedForgotten
  <2>4. (SaidNaked => SaidNaked') /\ (SaidGone => SaidGone')
    BY <1>2 DEF SaidNaked, SaidGone, Lost, Forgets
  <2> QED
    BY <2>1, <2>3, <2>4
<1>10. /\ Hand(todo, Entering) = 0 /\ Hand(todo, Entering \cup Replacing) = 0 /\ \A t : ~Handled(t, todo)
       /\ Hand(todo', Entering) = 0 /\ Hand(todo', Entering \cup Replacing) = 0 /\ \A t : ~Handled(t, todo')
  <2>1. Head(todo').op = "flush"
    BY <1>5 DEF Stage, Task
  <2> QED
    BY <1>1, <1>5, <2>1 DEF Hand, Handled, Entering, Replacing
<1>11. ModeInv'
  <2>1. ~Doing("adopt")'
    BY <1>5 DEF Doing, Stage, Task
  <2>2. ("close failed" \in told' => setup'.exits) /\ setup'.faults["crash"] > 0 /\ mode' = "starting"
    BY <1>2, <1>4, <1>8
  <2> QED
    BY <1>5, <2>1, <2>2 DEF ModeInv
<1>12. BookOK(trades', Len(orders), entries)
  <2>1. \A t \in DOMAIN journal : TradeOK(journal[t], Len(orders))
    BY <1>8, BookFacts
  <2>2. \A t \in DOMAIN trades' : TradeOK(trades'[t], Len(orders)) /\ trades'[t].id = journal[t].id
    BY <1>7, <2>1
  <2>3. Len(orders) <= Len(orders) /\ entries <= entries
    BY <1>8, SameNumber
  <2>4. DOMAIN trades' \subseteq DOMAIN journal
    BY <1>7
  <2> QED
    BY <1>8, <2>2, <2>3, <2>4, BookPart
<1>13. SaidGone \/ \A t \in DOMAIN journal \ K : journal[t].id \in FilledIn(orders)
  <2>1. ASSUME ~SaidGone, NEW t \in DOMAIN journal \ K PROVE journal[t].id \in FilledIn(orders)
    <3>1. CoveredBy(journal[t], t, orders, todo)
      BY <1>8, <1>9, <2>1
    <3>2. journal[t].id \notin LiveIn(orders)
      BY <1>8, <2>1 DEF K
    <3> QED
      BY <1>10, <3>1, <3>2 DEF CoveredBy
  <2> QED
    BY <2>1
<1>14. Covered'
  <2>1. SaidNaked' \/ \A t \in DOMAIN trades' : CoveredBy(trades'[t], t, orders', todo')
    BY <1>2, <1>7, <1>8, <1>9, <1>10 DEF CoveredBy
  <2> QED
    BY <1>6, <2>1 DEF Covered
<1>15. Locked'
  BY <1>2, <1>8, <1>9, <1>10 DEF Locked
<1>16. Accounted'
  <2>1. CASE SaidGone
    BY <1>9, <2>1 DEF Accounted
  <2>2. CASE \A t \in DOMAIN journal \ K : journal[t].id \in FilledIn(orders)
    <3>1. Standing(trades', orders') = Standing(journal, orders)
      BY <1>2, <1>7, <2>2 DEF Standing
    <3>2. SaidGone' \/ hold' - Cardinality(Standing(trades', orders')) <= Hand(todo', Entering)
      BY <1>2, <1>8, <1>9, <1>10, <3>1
    <3> QED
      BY <1>6, <3>2 DEF Accounted
  <2> QED
    BY <1>13, <2>1, <2>2
<1>17. BookOK(Books', Len(orders'), entries')
  BY <1>2, <1>6, <1>12
<1> QED
  BY <1>9, <1>11, <1>14, <1>15, <1>16, <1>17 DEF IInv

-----------------------------------------------------------------------------
(* The venue *)

LEMMA FeedTasks ==
    ASSUME NEW s, NEW ids, NEW exits, NEW some, NEW last, TasksOK(s, ids, exits, some, last),
           NEW more, some => more
    PROVE  TasksOK(s, ids, exits, more, last)
<1>1. \A i \in 1..Len(s) : TaskOK(s[i], ids, exits, more, last)
  BY TasksAre DEF TaskOK
<1> QED
  BY <1>1 DEF TasksOK

LEMMA VenueFillKeeps == ASSUME IInv, VenueFill PROVE IInv'
<1>1. PICK i \in Live, seen \in BOOLEAN :
          /\ orders' = [orders EXCEPT ![i].st = "filled"]
          /\ UNCHANGED budget \/ Spend("drop")
          /\ feed' = IF seen THEN Append(feed, i) ELSE feed
  <2> USE DEF VenueFill
  <2> QED
    OBVIOUS
<1>2. hold' = hold - 1 /\ UNCHANGED <<setup, mode, trades, journal, open, todo, told, entries>>
  BY DEF VenueFill
<1>3. /\ TypeInv /\ OrdersOK(orders) /\ hold \in Int /\ entries \in Nat
      /\ IsSeq(feed) /\ \A k \in 1..Len(feed) : feed[k] \in FilledIn(orders)
  BY DEF IInv, TypeInv
<1>4. Len(orders) \in Nat /\ DOMAIN orders = 1..Len(orders) /\ Cardinality(LiveIn(orders)) \in Nat
  BY <1>3, OrdersFacts
<1>5. i \in LiveIn(orders)
  BY <1>4 DEF Live, LiveIn
<1>6. /\ OrdersOK(orders') /\ Len(orders') = Len(orders)
      /\ LiveIn(orders') = LiveIn(orders) \ {i} /\ FilledIn(orders') = FilledIn(orders) \cup {i}
      /\ Cardinality(LiveIn(orders')) = Cardinality(LiveIn(orders)) - 1
  BY <1>1, <1>3, <1>5, FillMakes
<1>7. IsSeq(feed') /\ (\A k \in 1..Len(feed') : feed'[k] \in FilledIn(orders')) /\ (feed /= <<>> => feed' /= <<>>)
  <2>1. CASE feed' = feed
    BY <1>3, <1>6, <2>1
  <2>2. CASE feed' = Append(feed, i)
    <3>1. /\ IsSeq(feed') /\ Len(feed') = Len(feed) + 1 /\ feed'[Len(feed) + 1] = i
          /\ \A k \in 1..Len(feed) : feed'[k] = feed[k]
      BY <1>3, <2>2, SeqAppend
    <3>2. Len(feed) \in Nat
      BY <1>3, SeqLen
    <3>3. \A k \in 1..Len(feed') : k \in 1..Len(feed) \/ k = Len(feed) + 1
      BY <3>1, <3>2
    <3>4. \A k \in 1..Len(feed') : feed'[k] \in FilledIn(orders')
      BY <1>3, <1>6, <3>1, <3>3
    <3>5. feed' /= <<>>
      BY <3>1, <3>2, SeqNone
    <3> QED
      BY <3>1, <3>4, <3>5
  <2> QED
    BY <1>1, <2>1, <2>2
<1>8. /\ budget' \in [Fault -> Nat] /\ \A f \in Fault : budget'[f] <= setup.faults[f]
      /\ budget'["lose"] \in Nat /\ budget'["lose"] <= budget["lose"]
  BY <1>1, <1>2, <1>3, BudgetKept DEF Fault
<1>9. (SaidNaked => SaidNaked') /\ (SaidGone => SaidGone')
  BY <1>2, <1>3, <1>8, SaidKept
<1>10. TypeInv'
  <2>1. hold' \in Int
    BY <1>2, <1>3
  <2> QED
    BY <1>2, <1>3, <1>6, <1>7, <1>8, <2>1 DEF TypeInv
<1>11. Books' = Books
  BY <1>2 DEF Books, Doing
<1>12. ModeInv'
  <2>1. ModeInv
    BY DEF IInv
  <2>2. mode = "up" => TasksOK(todo', DOMAIN trades', setup'.exits, feed' /= <<>>, entries')
    <3> SUFFICES ASSUME mode = "up" PROVE TasksOK(todo, Tracked, setup.exits, feed' /= <<>>, entries)
      BY <1>2 DEF Tracked
    <3>1. TasksOK(todo, Tracked, setup.exits, feed /= <<>>, entries)
      BY <2>1 DEF ModeInv
    <3> QED
      BY <1>7, <3>1, FeedTasks
  <2>3. Doing("adopt")' => LiveIn(orders') \subseteq open'
    BY <1>2, <1>6, <2>1 DEF ModeInv, Doing
  <2> QED
    BY <1>2, <2>1, <2>2, <2>3 DEF ModeInv, Tracked
<1>13. BookOK(Books, Len(orders), entries) /\ Covered /\ Locked /\ Accounted
  BY DEF IInv
<1>14. BookOK(Books', Len(orders'), entries')
  BY <1>2, <1>6, <1>11, <1>13
<1>15. Covered'
  <2>1. LiveIn(orders) \cup FilledIn(orders) \subseteq LiveIn(orders') \cup FilledIn(orders')
    BY <1>6
  <2> QED
    BY <1>2, <1>9, <1>11, <1>13, <2>1 DEF Covered, CoveredBy
<1>16. Locked'
  <2> DEFINE n == Cardinality(LiveIn(orders))
             h == Hand(todo, Entering \cup Replacing)
  <2>1. h \in {0, 1}
    BY HandIs
  <2>2. SaidNaked' \/ hold - n <= h
    BY <1>9, <1>13 DEF Locked
  <2>3. hold - n = hold' - (n - 1)
    BY <1>2, <1>3, <1>4
  <2>4. hold' - Cardinality(LiveIn(orders')) = hold - n
    BY <1>6, <2>3
  <2>5. Hand(todo', Entering \cup Replacing) = h
    BY <1>2
  <2> QED
    BY <2>2, <2>4, <2>5 DEF Locked
<1>17. Accounted'
  <2> DEFINE n == Cardinality(Standing(Books, orders))
             m == Cardinality(Standing(Books, orders'))
             h == Hand(todo, Entering)
  <2>1. h \in {0, 1}
    BY HandIs
  <2>2. IsFiniteSet(DOMAIN Books)
    BY <1>13, BookFacts
  <2>3. n \in Nat
    BY <2>2, StandingFacts
  <2>4. m \in Nat
    BY <2>2, StandingFacts
  <2>5. \E t : Standing(Books, orders) \subseteq Standing(Books, orders') \cup {t}
    <3>1. i /= 0
      BY <1>5 DEF LiveIn
    <3>2. \A t, u \in DOMAIN Books : Books[t].id = i /\ Books[u].id = i => t = u
      BY <1>13, <3>1, BookFacts
    <3>3. CASE \E t \in DOMAIN Books : Books[t].id = i
      <4>1. PICK t \in DOMAIN Books : Books[t].id = i
        BY <3>3
      <4>2. Standing(Books, orders) \subseteq Standing(Books, orders') \cup {t}
        BY <1>6, <3>2, <4>1 DEF Standing
      <4> QED
        BY <4>2
    <3>4. CASE \A t \in DOMAIN Books : Books[t].id /= i
      <4>1. Standing(Books, orders) \subseteq Standing(Books, orders') \cup {0}
        BY <1>6, <3>4 DEF Standing
      <4> QED
        BY <4>1
    <3> QED
      BY <3>3, <3>4
  <2>6. n <= m + 1
    BY <2>2, <2>5, StandingKept
  <2>7. SaidGone' \/ hold - n <= h
    BY <1>9, <1>13 DEF Accounted
  <2>8. Hand(todo', Entering) = h /\ Cardinality(Standing(Books', orders')) = m
    BY <1>2, <1>11
  <2>9. SaidGone' \/ hold' - m <= h
    <3> HIDE DEF n, m, h
    <3>1. hold - n <= h => hold' - m <= h
      BY <1>2, <1>3, <2>1, <2>3, <2>4, <2>6
    <3> QED
      BY <2>7, <3>1
  <2> QED
    BY <2>8, <2>9 DEF Accounted
<1> QED
  BY <1>10, <1>12, <1>14, <1>15, <1>16, <1>17 DEF IInv

-----------------------------------------------------------------------------
(* The theorem *)

\* The scenarios the theorem is about: the process only stops between two items.
BetweenItems == \A s \in Setups : s \in Setup /\ ~s.anywhere

LEMMA InitHolds == ASSUME BetweenItems, Init PROVE IInv
<1>1. /\ setup \in Setup /\ ~setup.anywhere /\ budget = setup.faults /\ hold = 0 /\ orders = <<>> /\ feed = <<>>
      /\ mode = "up" /\ trades = <<>> /\ journal = <<>> /\ todo = <<>> /\ told = {} /\ entries = 0
  BY DEF BetweenItems, Init
<1>2. IsSeq(orders) /\ Len(orders) = 0 /\ IsSeq(feed) /\ Len(feed) = 0
  BY <1>1, SeqNone
<1>3. OrdersOK(orders) /\ LiveIn(orders) = {} /\ FilledIn(orders) = {}
  BY <1>2 DEF OrdersOK, LiveIn, FilledIn
<1>4. TypeInv
  <2>1. budget \in [Fault -> Nat]
    BY <1>1 DEF Setup
  <2>2. \A f \in Fault : budget[f] <= setup.faults[f]
    <3> TAKE f \in Fault
    <3>1. budget[f] \in Nat /\ budget[f] = setup.faults[f]
      BY <1>1, <2>1
    <3> QED
      BY <3>1
  <2> QED
    BY <1>1, <1>2, <1>3, <2>1, <2>2 DEF TypeInv
<1>5. ModeInv
  BY <1>1, NothingToDo DEF ModeInv, Doing
<1>6. Books = <<>> /\ DOMAIN Books = {}
  BY <1>1 DEF Books
<1>7. BookOK(Books, Len(orders), entries)
  BY <1>6, FS_EmptySet DEF BookOK
<1>8. Covered
  BY <1>6 DEF Covered
<1>9. Hand(todo, Entering) = 0 /\ Hand(todo, Entering \cup Replacing) = 0
  BY <1>1 DEF Hand
<1>10. Locked
  <2>1. Cardinality(LiveIn(orders)) = 0
    BY <1>3, FS_EmptySet
  <2> QED
    BY <1>1, <1>9, <2>1 DEF Locked
<1>11. Accounted
  <2>1. Standing(Books, orders) = {}
    BY <1>6 DEF Standing
  <2>2. Cardinality(Standing(Books, orders)) = 0
    BY <2>1, FS_EmptySet
  <2> QED
    BY <1>1, <1>9, <2>2 DEF Accounted
<1> QED
  BY <1>4, <1>5, <1>7, <1>8, <1>10, <1>11 DEF IInv

LEMMA WorkKeeps == ASSUME IInv, Work PROVE IInv'
<1>1. CASE mode = "up"
  BY <1>1, EnterKeeps, ProtectKeeps, EmergencyKeeps, TrackPeaksKeeps, RiskFreeKeeps, TrailKeeps, UnlockKeeps,
     PlaceNewKeeps, RestoreKeeps, SellOutKeeps, ForceCloseKeeps, ReleaseKeeps, CloseTradeKeeps,
     ProcessFillKeeps, PollKeeps, FlushKeeps, ReadOrdersKeeps, AdoptKeeps DEF Work
<1>2. CASE mode /= "up"
  <2>1. ASSUME todo /= <<>> PROVE Head(todo).op \in {"read", "adopt", "flush"}
    BY <1>2, <2>1, StartTask
  <2>2. Flush \/ ReadOrders \/ Adopt
    BY <2>1 DEF Work, Doing, Enter, Protect, EmergencySell, TrackPeaks, RiskFree, Trail, Unlock, PlaceNew,
                Restore, SellOut, ForceClose, Release, CloseTrade, ProcessFill, Poll
  <2> QED
    BY <2>2, FlushKeeps, ReadOrdersKeeps, AdoptKeeps
<1> QED
  BY <1>1, <1>2

LEMMA StutterKeeps == ASSUME IInv, UNCHANGED vars PROVE IInv'
<1>1. /\ UNCHANGED <<setup, hold, orders, feed, mode, trades, journal, open, todo, told, entries, budget>>
  BY DEF vars
<1>2. TypeInv' /\ ModeInv' /\ BookOK(Books', Len(orders'), entries')
  BY <1>1 DEF IInv, TypeInv, ModeInv, Books, Doing, Tracked
<1>3. Covered' /\ Locked' /\ Accounted'
  BY <1>1 DEF IInv, Covered, Locked, Accounted, Books, Doing, SaidNaked, SaidGone, Lost, Forgets
<1> QED
  BY <1>2, <1>3 DEF IInv

LEMMA StepKeeps == ASSUME IInv, [Next]_vars PROVE IInv'
  BY WorkKeeps, CandleKeeps, UserDataKeeps, PollItemKeeps, CrashKeeps, RestartKeeps, VenueFillKeeps, StutterKeeps
     DEF Next

LEMMA InvariantSays == ASSUME IInv PROVE NeverNakedUnsaid
<1> SUFFICES ASSUME Idle PROVE (Free > 0 => SaidNaked) /\ (hold > Cardinality(Tracked) => SaidGone)
  BY DEF NeverNakedUnsaid
<1>1. mode = "up" /\ todo = <<>> /\ Books = trades
  BY DEF Idle, Books
<1>2. Hand(todo, Entering) = 0 /\ Hand(todo, Entering \cup Replacing) = 0
  BY <1>1 DEF Hand
<1>3. hold \in Int /\ OrdersOK(orders) /\ BookOK(trades, Len(orders), entries)
  BY <1>1 DEF IInv, TypeInv
<1>4. Cardinality(LiveIn(orders)) \in Nat /\ Live = LiveIn(orders)
  <2>1. DOMAIN orders = 1..Len(orders) /\ Cardinality(LiveIn(orders)) \in Nat
    BY <1>3, OrdersFacts
  <2> QED
    BY <2>1 DEF Live, LiveIn
<1>5. Free > 0 => SaidNaked
  <2>1. SaidNaked \/ hold - Cardinality(LiveIn(orders)) <= 0
    BY <1>2 DEF IInv, Locked
  <2>2. Free = hold - Cardinality(LiveIn(orders))
    BY <1>4 DEF Free
  <2>3. hold - Cardinality(LiveIn(orders)) <= 0 => ~(hold - Cardinality(LiveIn(orders)) > 0)
    BY <1>3, <1>4
  <2> QED
    BY <2>1, <2>2, <2>3
<1>6. hold > Cardinality(Tracked) => SaidGone
  <2> DEFINE n == Cardinality(Standing(trades, orders))
             m == Cardinality(Tracked)
  <2>1. IsFiniteSet(Tracked)
    BY <1>3, BookFacts DEF Tracked
  <2>2. n \in Nat /\ n <= m
    BY <2>1, StandingFacts DEF Tracked
  <2>3. m \in Nat
    BY <2>1, FS_CardinalityType
  <2>4. SaidGone \/ hold - n <= 0
    BY <1>1, <1>2 DEF IInv, Accounted
  <2> HIDE DEF n, m
  <2>5. hold > m => ~(hold - n <= 0)
    BY <1>3, <2>2, <2>3
  <2> QED
    BY <2>4, <2>5 DEF m
<1> QED
  BY <1>5, <1>6

\* Whatever fills, fails, is lost or restarts, the holdings of a spot pair that no order
\* protects, or that no trade stands for, are ones the user was told of.
THEOREM SpotInvariant == BetweenItems => (Spec => [](IInv /\ NeverNakedUnsaid))
<1> SUFFICES ASSUME BetweenItems PROVE Spec => [](IInv /\ NeverNakedUnsaid)
  OBVIOUS
<1>1. Init => IInv
  BY InitHolds
<1>2. IInv /\ [Next]_vars => IInv'
  BY StepKeeps
<1>3. IInv => NeverNakedUnsaid
  BY InvariantSays
<1> QED
  BY <1>1, <1>2, <1>3, PTL DEF Spec
=============================================================================
