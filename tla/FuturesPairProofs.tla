-------------------------- MODULE FuturesPairProofs --------------------------
(***************************************************************************)
(* Where the stops of a futures pair stand, for every size, ladder, number *)
(* of trades and faults, and a crash at any moment: what works at the      *)
(* venue is the stop the engine believes in.                               *)
(***************************************************************************)
EXTENDS FuturesPair, FiniteSetTheorems, SequenceTheorems, WellFoundedInduction, TLAPS

\* A sequence, of whatever it is of.
IsSeq(s) == s \in Seq({s[i] : i \in 1..Len(s)})

\* What the venue accepted keeps its rung for ever.
OrdersOK(os) ==
    /\ IsSeq(os)
    /\ \A i \in 1..Len(os) :
          os[i] = [trade |-> os[i].trade, kind |-> os[i].kind, rung |-> os[i].rung,
                   qty |-> os[i].qty, done |-> os[i].done, st |-> os[i].st]
Extends(os, more) ==
    /\ OrdersOK(more) /\ Len(os) <= Len(more)
    /\ \A i \in 1..Len(os) : more[i].rung = os[i].rung

StopAt(id, rung, os) == id \in 1..Len(os) /\ os[id].rung = rung

\* A trade, and the stop it believes in.
TradeOK(r) ==
    /\ r = [size |-> r.size, hits |-> r.hits, sl |-> r.sl, slId |-> r.slId, tpId |-> r.tpId,
            ladder |-> r.ladder, free |-> r.free, pending |-> r.pending]
    /\ r.pending \in BOOLEAN /\ IsFiniteSet(r.ladder)
Believed(r, os) == TradeOK(r) /\ (~r.pending => StopAt(r.slId, r.sl, os))
BookOK(book) == IsFiniteSet(DOMAIN book) /\ DOMAIN book \subseteq Nat
AllBelieved(book, os) == BookOK(book) /\ \A t \in DOMAIN book : Believed(book[t], os)

\* The stop of this trade is the first thing the worker has to do.
InHand(t, tasks) == tasks /= <<>> /\ Head(tasks).op \in {"settled", "resync"} /\ Head(tasks).t = t
BelievedOrInHand(book, tasks, os) ==
    /\ BookOK(book)
    /\ \A t \in DOMAIN book : TradeOK(book[t]) /\ (Believed(book[t], os) \/ InHand(t, tasks))

\* An entry whose stop is placed is tracked with it; only journaled trades are adopted.
TaskOK(x, ids, os) ==
    /\ x.op \in {"attach_sl", "attach_tp"} => x.t \in Nat
    /\ x.op = "attach_tp" => StopAt(Head(x.arg), -1, os)
    /\ x.op = "adopt" => x.t \in ids
TasksOK(tasks, ids, os) == IsSeq(tasks) /\ \A i \in 1..Len(tasks) : TaskOK(tasks[i], ids, os)

IInv == /\ setup \in Setups /\ entries \in Nat /\ OrdersOK(orders)
        /\ AllBelieved(journal, orders)
        /\ BelievedOrInHand(trades, todo, orders)
        /\ TasksOK(todo, DOMAIN journal, orders)

-----------------------------------------------------------------------------
(* Sequences of anything *)

LEMMA SeqIs == ASSUME NEW X, NEW s \in Seq(X) PROVE IsSeq(s)
<1>1. Len(s) \in Nat /\ s = [i \in 1..Len(s) |-> s[i]]
  OBVIOUS
<1> QED
  BY <1>1 DEF IsSeq

LEMMA SeqLen == ASSUME NEW s, IsSeq(s) PROVE Len(s) \in Nat /\ DOMAIN s = 1..Len(s)
  BY DEF IsSeq

LEMMA SeqMade ==
    ASSUME NEW s, NEW n \in Nat, s = [i \in 1..n |-> s[i]]
    PROVE  IsSeq(s) /\ Len(s) = n
<1>1. s \in Seq({s[i] : i \in 1..n})
  <2>1. s \in [1..n -> {s[i] : i \in 1..n}]
    OBVIOUS
  <2> QED
    BY <2>1
<1>2. Len(s) = n
  OBVIOUS
<1> QED
  BY <1>1, <1>2 DEF IsSeq

LEMMA SeqConcat ==
    ASSUME NEW s, NEW t, IsSeq(s), IsSeq(t)
    PROVE  /\ IsSeq(s \o t) /\ Len(s \o t) = Len(s) + Len(t)
           /\ \A i \in 1..Len(s \o t) :
                 \/ i \in 1..Len(s) /\ (s \o t)[i] = s[i]
                 \/ i - Len(s) \in 1..Len(t) /\ (s \o t)[i] = t[i - Len(s)]
<1> DEFINE X == {s[i] : i \in 1..Len(s)} \cup {t[i] : i \in 1..Len(t)}
<1>1. s \in Seq(X) /\ t \in Seq(X)
  <2>1. s = [i \in 1..Len(s) |-> s[i]] /\ Len(s) \in Nat
    BY DEF IsSeq
  <2>2. t = [i \in 1..Len(t) |-> t[i]] /\ Len(t) \in Nat
    BY DEF IsSeq
  <2> QED
    BY <2>1, <2>2
<1> HIDE DEF X
<1>2. s \o t \in Seq(X) /\ Len(s \o t) = Len(s) + Len(t)
  BY <1>1
<1>3. \A i \in 1..Len(s) : (s \o t)[i] = s[i]
  BY <1>1
<1>4. \A i \in 1..Len(s \o t) : i \notin 1..Len(s) =>
          i - Len(s) \in 1..Len(t) /\ (s \o t)[i] = t[i - Len(s)]
  BY <1>1
<1> QED
  BY <1>2, <1>3, <1>4, SeqIs

LEMMA SeqTail ==
    ASSUME NEW s, IsSeq(s), s /= <<>>
    PROVE  /\ IsSeq(Tail(s)) /\ Len(Tail(s)) = Len(s) - 1 /\ Len(s) > 0 /\ Head(s) = s[1]
           /\ \A i \in 1..Len(Tail(s)) : i + 1 \in 1..Len(s) /\ Tail(s)[i] = s[i + 1]
<1> DEFINE X == {s[i] : i \in 1..Len(s)}
<1>1. s \in Seq(X)
  BY DEF IsSeq
<1> HIDE DEF X
<1>2. /\ Tail(s) \in Seq(X) /\ Len(Tail(s)) = Len(s) - 1 /\ Len(s) \in Nat /\ Len(s) > 0 /\ Head(s) = s[1]
      /\ \A i \in 1..Len(Tail(s)) : Tail(s)[i] = s[i + 1]
  BY <1>1
<1>3. \A i \in 1..Len(Tail(s)) : i + 1 \in 1..Len(s)
  BY <1>2
<1> QED
  BY <1>2, <1>3, SeqIs

LEMMA SeqAppend ==
    ASSUME NEW s, IsSeq(s), NEW x
    PROVE  /\ IsSeq(Append(s, x)) /\ Len(Append(s, x)) = Len(s) + 1 /\ Append(s, x)[Len(s) + 1] = x
           /\ \A i \in 1..Len(s) : Append(s, x)[i] = s[i]
<1> DEFINE X == {s[i] : i \in 1..Len(s)} \cup {x}
<1>1. s \in Seq(X) /\ x \in X
  <2>1. s = [i \in 1..Len(s) |-> s[i]] /\ Len(s) \in Nat
    BY DEF IsSeq
  <2> QED
    BY <2>1
<1> HIDE DEF X
<1>2. /\ Append(s, x) \in Seq(X) /\ Len(Append(s, x)) = Len(s) + 1 /\ Append(s, x)[Len(s) + 1] = x
      /\ \A i \in 1..Len(s) : Append(s, x)[i] = s[i]
  BY <1>1
<1> QED
  BY <1>2, SeqIs

LEMMA SeqOne == ASSUME NEW x PROVE IsSeq(<<x>>) /\ Len(<<x>>) = 1 /\ <<x>>[1] = x
<1>1. <<x>> \in Seq({x}) /\ Len(<<x>>) = 1 /\ <<x>>[1] = x
  OBVIOUS
<1> QED
  BY <1>1, SeqIs

LEMMA SeqNone == IsSeq(<<>>) /\ Len(<<>>) = 0
<1>1. <<>> \in Seq({}) /\ Len(<<>>) = 0
  OBVIOUS
<1> QED
  BY <1>1, SeqIs

-----------------------------------------------------------------------------
(* The orders: they only grow, and keep their rungs *)

LEMMA OrdersSame == ASSUME NEW os, OrdersOK(os) PROVE Extends(os, os)
<1>1. Len(os) \in Nat
  BY SeqLen DEF OrdersOK
<1> QED
  BY <1>1 DEF Extends

LEMMA OrdersPlaced ==
    ASSUME NEW os, OrdersOK(os), NEW trade, NEW kind, NEW rung, NEW qty
    PROVE  LET more == Append(os, Order(trade, kind, rung, qty))
           IN  Extends(os, more) /\ StopAt(Len(os) + 1, rung, more)
<1> DEFINE o == Order(trade, kind, rung, qty)
           more == Append(os, o)
<1>1. IsSeq(os) /\ Len(os) \in Nat
  BY SeqLen DEF OrdersOK
<1>2. /\ IsSeq(more) /\ Len(more) = Len(os) + 1 /\ more[Len(os) + 1] = o
      /\ \A i \in 1..Len(os) : more[i] = os[i]
  BY <1>1, SeqAppend
<1>3. /\ o.rung = rung
      /\ o = [trade |-> o.trade, kind |-> o.kind, rung |-> o.rung, qty |-> o.qty,
              done |-> o.done, st |-> o.st]
  BY DEF Order
<1> HIDE DEF o, more
<1> DEFINE OK(x) == x = [trade |-> x.trade, kind |-> x.kind, rung |-> x.rung, qty |-> x.qty,
                         done |-> x.done, st |-> x.st]
<1>4. OrdersOK(more)
  <2>1. \A i \in 1..Len(os) : OK(os[i])
    BY DEF OrdersOK
  <2>2. OK(o)
    BY <1>3
  <2> HIDE DEF OK
  <2>3. \A i \in 1..Len(more) : OK(more[i])
    <3>1. \A i \in 1..Len(more) : i \in 1..Len(os) \/ i = Len(os) + 1
      BY <1>1, <1>2
    <3> QED
      BY <1>2, <2>1, <2>2, <3>1
  <2> USE DEF OK
  <2> QED
    BY <1>2, <2>3 DEF OrdersOK
<1>5. Extends(os, more) /\ StopAt(Len(os) + 1, rung, more)
  BY <1>1, <1>2, <1>3, <1>4 DEF Extends, StopAt
<1> QED
  BY <1>5 DEF more, o

LEMMA OrdersCancelled ==
    ASSUME NEW os, OrdersOK(os), NEW i
    PROVE  Extends(os, [os EXCEPT ![i].st = "cancelled"])
<1> DEFINE more == [os EXCEPT ![i].st = "cancelled"]
<1>1. IsSeq(os) /\ Len(os) \in Nat /\ DOMAIN os = 1..Len(os)
  BY SeqLen DEF OrdersOK
<1>2. more = [j \in 1..Len(os) |-> more[j]]
  BY <1>1
<1>3. IsSeq(more) /\ Len(more) = Len(os)
  <2> HIDE DEF more
  <2> QED
    BY <1>1, <1>2, SeqMade
<1>4. \A j \in 1..Len(os) :
          /\ more[j].rung = os[j].rung
          /\ more[j] = [trade |-> more[j].trade, kind |-> more[j].kind, rung |-> more[j].rung,
                        qty |-> more[j].qty, done |-> more[j].done, st |-> more[j].st]
  BY <1>1 DEF OrdersOK
<1> HIDE DEF more
<1>5. OrdersOK(more)
  BY <1>3, <1>4 DEF OrdersOK
<1>6. Extends(os, more)
  <2>1. Len(os) <= Len(more)
    BY <1>1, <1>3
  <2>2. \A j \in 1..Len(os) : more[j].rung = os[j].rung
    BY <1>4
  <2> QED
    BY <1>5, <2>1, <2>2 DEF Extends
<1> QED
  BY <1>6 DEF more

LEMMA OrdersFilled ==
    ASSUME NEW os, OrdersOK(os), NEW i, NEW q, NEW st
    PROVE  Extends(os, [os EXCEPT ![i].st = st, ![i].done = q])
<1> DEFINE more == [os EXCEPT ![i].st = st, ![i].done = q]
<1>1. IsSeq(os) /\ Len(os) \in Nat /\ DOMAIN os = 1..Len(os)
  BY SeqLen DEF OrdersOK
<1>2. more = [j \in 1..Len(os) |-> more[j]]
  BY <1>1
<1>3. IsSeq(more) /\ Len(more) = Len(os)
  <2> HIDE DEF more
  <2> QED
    BY <1>1, <1>2, SeqMade
<1>4. \A j \in 1..Len(os) :
          /\ more[j].rung = os[j].rung
          /\ more[j] = [trade |-> more[j].trade, kind |-> more[j].kind, rung |-> more[j].rung,
                        qty |-> more[j].qty, done |-> more[j].done, st |-> more[j].st]
  BY <1>1 DEF OrdersOK
<1> HIDE DEF more
<1>5. OrdersOK(more)
  BY <1>3, <1>4 DEF OrdersOK
<1>6. Extends(os, more)
  <2>1. Len(os) <= Len(more)
    BY <1>1, <1>3
  <2>2. \A j \in 1..Len(os) : more[j].rung = os[j].rung
    BY <1>4
  <2> QED
    BY <1>5, <2>1, <2>2 DEF Extends
<1> QED
  BY <1>6 DEF more

-----------------------------------------------------------------------------
(* The engine's books, and the journal's *)

LEMMA StopStays ==
    ASSUME NEW os, NEW more, Extends(os, more), IsSeq(os), NEW id, NEW rung, StopAt(id, rung, os)
    PROVE  StopAt(id, rung, more)
<1>1. Len(os) \in Nat /\ Len(more) \in Nat
  BY SeqLen DEF Extends, OrdersOK
<1> QED
  BY <1>1 DEF StopAt, Extends

LEMMA BookGrows ==
    ASSUME NEW os, NEW more, Extends(os, more), IsSeq(os), NEW book, AllBelieved(book, os)
    PROVE  AllBelieved(book, more)
BY StopStays DEF AllBelieved, Believed

LEMMA BookWhole ==
    ASSUME NEW book, NEW tasks, NEW os, AllBelieved(book, os)
    PROVE  BelievedOrInHand(book, tasks, os)
BY DEF AllBelieved, BelievedOrInHand, Believed

LEMMA BookCalm ==
    ASSUME NEW book, NEW tasks, NEW os, BelievedOrInHand(book, tasks, os),
           tasks /= <<>> => Head(tasks).op \notin {"settled", "resync"}
    PROVE  AllBelieved(book, os)
BY DEF AllBelieved, BelievedOrInHand, InHand

LEMMA BookWith ==
    ASSUME NEW book, NEW os, AllBelieved(book, os), NEW t, NEW r,
           t \in DOMAIN book => Believed(r, os)
    PROVE  AllBelieved([book EXCEPT ![t] = r], os)
BY DEF AllBelieved, BookOK

LEMMA BookWithInHand ==
    ASSUME NEW book, NEW os, AllBelieved(book, os), NEW t, NEW r, NEW tasks,
           t \in DOMAIN book => TradeOK(r), InHand(t, tasks)
    PROVE  BelievedOrInHand([book EXCEPT ![t] = r], tasks, os)
BY DEF AllBelieved, BookOK, BelievedOrInHand, Believed

\* What was in hand is put right.
LEMMA BookPutRight ==
    ASSUME NEW book, NEW tasks, NEW os, BelievedOrInHand(book, tasks, os),
           NEW r, Head(tasks).t \in DOMAIN book => Believed(r, os)
    PROVE  AllBelieved([book EXCEPT ![Head(tasks).t] = r], os)
BY DEF AllBelieved, BookOK, BelievedOrInHand, InHand

LEMMA BookWithout ==
    ASSUME NEW book, NEW os, AllBelieved(book, os), NEW t
    PROVE  AllBelieved(Restrict(book, DOMAIN book \ {t}), os)
<1>1. IsFiniteSet(DOMAIN book \ {t})
  BY FS_Subset DEF AllBelieved, BookOK
<1> QED
  BY <1>1 DEF AllBelieved, BookOK, Restrict

LEMMA BookAlso ==
    ASSUME NEW book, NEW os, AllBelieved(book, os), NEW t \in Nat, NEW r, Believed(r, os)
    PROVE  AllBelieved([u \in DOMAIN book \cup {t} |-> IF u = t THEN r ELSE book[u]], os)
<1>1. IsFiniteSet(DOMAIN book \cup {t})
  BY FS_AddElement DEF AllBelieved, BookOK
<1> QED
  BY <1>1 DEF AllBelieved, BookOK

-----------------------------------------------------------------------------
(* The tasks of an item *)

Plain(x) == x.op \notin {"attach_sl", "attach_tp", "adopt"}

LEMMA TasksNone == ASSUME NEW ids, NEW os PROVE TasksOK(<<>>, ids, os)
BY SeqNone DEF TasksOK

LEMMA TasksOne ==
    ASSUME NEW x, NEW ids, NEW os, TaskOK(x, ids, os) PROVE TasksOK(<<x>>, ids, os)
<1>1. IsSeq(<<x>>) /\ Len(<<x>>) = 1 /\ <<x>>[1] = x
  BY SeqOne
<1> QED
  BY <1>1 DEF TasksOK

LEMMA TasksPlain == ASSUME NEW x, Plain(x), NEW ids, NEW os PROVE TasksOK(<<x>>, ids, os)
BY TasksOne DEF TaskOK, Plain

LEMMA TasksConcat ==
    ASSUME NEW a, NEW b, NEW ids, NEW os, TasksOK(a, ids, os), TasksOK(b, ids, os)
    PROVE  TasksOK(a \o b, ids, os)
BY SeqConcat DEF TasksOK

LEMMA TasksTail ==
    ASSUME NEW a, NEW ids, NEW os, TasksOK(a, ids, os), a /= <<>>
    PROVE  TasksOK(Tail(a), ids, os) /\ TaskOK(Head(a), ids, os)
<1>1. /\ IsSeq(Tail(a)) /\ Len(Tail(a)) = Len(a) - 1 /\ Len(a) > 0 /\ Head(a) = a[1]
      /\ \A i \in 1..Len(Tail(a)) : i + 1 \in 1..Len(a) /\ Tail(a)[i] = a[i + 1]
  BY SeqTail DEF TasksOK
<1>2. Len(a) \in Nat
  BY SeqLen DEF TasksOK
<1> QED
  BY <1>1, <1>2 DEF TasksOK

LEMMA TasksGrow ==
    ASSUME NEW tasks, NEW ids, NEW os, NEW more, TasksOK(tasks, ids, os), Extends(os, more), IsSeq(os)
    PROVE  TasksOK(tasks, ids, more)
BY StopStays DEF TasksOK, TaskOK

LEMMA TasksMade ==
    ASSUME NEW a, NEW n \in Nat, a = [k \in 1..n |-> a[k]], NEW ids, NEW os,
           \A k \in 1..n : TaskOK(a[k], ids, os)
    PROVE  TasksOK(a, ids, os)
<1>1. IsSeq(a) /\ Len(a) = n
  BY SeqMade
<1> QED
  BY <1>1 DEF TasksOK

\* Ranking a finite set of numbers names its elements, and nothing else.
LEMMA RanksName ==
    ASSUME NEW S, IsFiniteSet(S), S \subseteq Nat
    PROVE  \A k \in 1..Cardinality(S) : Ascending(S)[k] \in S
<1> DEFINE n == Cardinality(S)
           Upto(i) == {j \in S : j <= i}
           R == [i \in S |-> Cardinality(Upto(i))]
<1>1. n \in Nat
  BY FS_CardinalityType
<1>2. \A i \in S : IsFiniteSet(Upto(i)) /\ Cardinality(Upto(i)) \in 1..n
  <2> TAKE i \in S
  <2>1. Upto(i) \in SUBSET S /\ i \in Upto(i)
    OBVIOUS
  <2>2. IsFiniteSet(Upto(i)) /\ Cardinality(Upto(i)) <= n
    BY <2>1, FS_Subset
  <2>3. Cardinality(Upto(i)) \in Nat /\ Cardinality(Upto(i)) /= 0
    BY <2>1, <2>2, FS_CardinalityType, FS_EmptySet
  <2> HIDE DEF Upto
  <2> QED
    BY <1>1, <2>2, <2>3
<1>3. \A i, j \in S : i < j => Cardinality(Upto(i)) /= Cardinality(Upto(j))
  <2> SUFFICES ASSUME NEW i \in S, NEW j \in S, i < j
               PROVE  Cardinality(Upto(i)) /= Cardinality(Upto(j))
    OBVIOUS
  <2>0. i \in Nat /\ j \in Nat
    OBVIOUS
  <2>1. Upto(i) \in SUBSET Upto(j) /\ j \in Upto(j) /\ j \notin Upto(i)
    <3>1. \A x \in S : x <= i => x <= j
      BY <2>0
    <3>2. j <= j /\ ~(j <= i)
      BY <2>0
    <3> QED
      BY <3>1, <3>2
  <2>2. Upto(i) /= Upto(j)
    BY <2>1
  <2> QED
    BY <1>2, <2>1, <2>2, FS_Subset
<1>4. R \in [S -> 1..n]
  BY <1>2
<1>5. \A i, j \in S : R[i] = R[j] => i = j
  <2> SUFFICES ASSUME NEW i \in S, NEW j \in S, i /= j PROVE R[i] /= R[j]
    OBVIOUS
  <2>1. i < j \/ j < i
    OBVIOUS
  <2> HIDE DEF Upto
  <2> QED
    BY <1>3, <2>1
<1>6. R \in Injection(S, 1..n)
  <2> HIDE DEF R
  <2> QED
    BY <1>4, <1>5 DEF Injection, IsInjective
<1>7. R \in Surjection(S, 1..n)
  <2> HIDE DEF R
  <2>1. IsFiniteSet(1..n) /\ Cardinality(1..n) = n
    BY <1>1, FS_Interval
  <2> QED
    BY <1>6, <2>1, FS_Injection
<1> SUFFICES ASSUME NEW k \in 1..n PROVE Ascending(S)[k] \in S
  BY DEF n
<1>8. \E i \in S : Cardinality(Upto(i)) = k
  <2>1. \E i \in S : R[i] = k
    <3> HIDE DEF R
    <3> QED
      BY <1>7 DEF Surjection
  <2> HIDE DEF Upto
  <2> QED
    BY <2>1
<1>9. Ascending(S)[k] = CHOOSE i \in S : Cardinality(Upto(i)) = k
  BY DEF Ascending
<1> HIDE DEF Upto
<1> QED
  BY <1>8, <1>9

LEMMA TasksPerTrade ==
    ASSUME NEW op, op \notin {"attach_sl", "attach_tp", "adopt"}, NEW S, IsFiniteSet(S), NEW ids, NEW os
    PROVE  TasksOK(PerTrade(op, S), ids, os)
<1> DEFINE a == PerTrade(op, S)
<1>1. Cardinality(S) \in Nat
  BY FS_CardinalityType
<1>2. a = [k \in 1..Cardinality(S) |-> a[k]]
  BY DEF PerTrade
<1>3. \A k \in 1..Cardinality(S) : TaskOK(a[k], ids, os)
  BY DEF PerTrade, Task, TaskOK
<1> HIDE DEF a
<1>4. TasksOK(a, ids, os)
  BY <1>1, <1>2, <1>3, TasksMade
<1> QED
  BY <1>4 DEF a

LEMMA TasksAdopt ==
    ASSUME NEW S, IsFiniteSet(S), S \subseteq Nat, NEW os
    PROVE  TasksOK(PerTrade("adopt", S), S, os)
<1> DEFINE a == PerTrade("adopt", S)
<1>1. Cardinality(S) \in Nat
  BY FS_CardinalityType
<1>2. a = [k \in 1..Cardinality(S) |-> a[k]]
  BY DEF PerTrade
<1>3. \A k \in 1..Cardinality(S) : TaskOK(a[k], S, os)
  BY RanksName DEF PerTrade, Task, TaskOK
<1> HIDE DEF a
<1>4. TasksOK(a, S, os)
  BY <1>1, <1>2, <1>3, TasksMade
<1> QED
  BY <1>4 DEF a

LEMMA TasksPlace ==
    ASSUME NEW t, NEW S, IsFiniteSet(S), NEW ids, NEW os
    PROVE  TasksOK(PlaceTasks(t, S), ids, os)
<1> DEFINE a == PlaceTasks(t, S)
<1>1. Cardinality(S) \in Nat
  BY FS_CardinalityType
<1>2. a = [k \in 1..Cardinality(S) |-> a[k]]
  BY DEF PlaceTasks
<1>3. \A k \in 1..Cardinality(S) : TaskOK(a[k], ids, os)
  BY DEF PlaceTasks, Task, TaskOK
<1> HIDE DEF a
<1>4. TasksOK(a, ids, os)
  BY <1>1, <1>2, <1>3, TasksMade
<1> QED
  BY <1>4 DEF a

LEMMA TasksCancel ==
    ASSUME NEW r, TradeOK(r), NEW ids, NEW os
    PROVE  TasksOK(CancelTasks(r), ids, os)
<1> DEFINE a == CancelTasks(r)
<1>1. Len(Protective(r)) \in Nat
  <2>1. IsSeq(Placed(r.slId)) /\ IsSeq(Placed(r.tpId))
    BY SeqOne, SeqNone DEF Placed
  <2>2. IsSeq(Ascending(r.ladder))
    <3>1. Cardinality(r.ladder) \in Nat
      BY FS_CardinalityType DEF TradeOK
    <3> DEFINE s == Ascending(r.ladder)
               Nth(k) == CHOOSE i \in r.ladder : Cardinality({j \in r.ladder : j <= i}) = k
    <3>2. s = [k \in 1..Cardinality(r.ladder) |-> s[k]]
      <4>1. s = [k \in 1..Cardinality(r.ladder) |-> Nth(k)]
        BY DEF Ascending
      <4> HIDE DEF s, Nth
      <4> QED
        BY <4>1
    <3> HIDE DEF s
    <3>3. IsSeq(s)
      BY <3>1, <3>2, SeqMade
    <3> QED
      BY <3>3 DEF s
  <2>3. IsSeq(Placed(r.slId) \o Placed(r.tpId))
    BY <2>1, SeqConcat
  <2>4. IsSeq(Protective(r))
    BY <2>2, <2>3, SeqConcat DEF Protective
  <2> QED
    BY <2>4, SeqLen
<1>2. a = [k \in 1..Len(Protective(r)) |-> a[k]]
  BY DEF CancelTasks
<1>3. \A k \in 1..Len(Protective(r)) : TaskOK(a[k], ids, os)
  BY DEF CancelTasks, Task, TaskOK
<1> HIDE DEF a
<1>4. TasksOK(a, ids, os)
  BY <1>1, <1>2, <1>3, TasksMade
<1> QED
  BY <1>4 DEF a

-----------------------------------------------------------------------------
(* What a call does to the orders *)

LEMMA PlacedExtends ==
    ASSUME OrdersOK(orders), NEW trade, NEW kind, NEW rung, NEW qty,
           PlaceOrder(Order(trade, kind, rung, qty))
    PROVE  Extends(orders, orders') /\ StopAt(NextOrderId, rung, orders')
BY OrdersPlaced DEF PlaceOrder, NextOrderId

LEMMA CancelExtends ==
    ASSUME OrdersOK(orders), NEW i, CancelOrder(i) PROVE Extends(orders, orders')
BY OrdersCancelled DEF CancelOrder

LEMMA SameExtends ==
    ASSUME OrdersOK(orders), orders' = orders PROVE Extends(orders, orders')
BY OrdersSame

-----------------------------------------------------------------------------
(* A step of the worker *)

Calm == todo /= <<>> /\ Head(todo).op \notin {"settled", "resync"}

\* What a step finds: what it believed and had to do still holds of the grown orders.
LEMMA StepFinds ==
    ASSUME IInv, todo /= <<>>, Extends(orders, orders')
    PROVE  /\ TasksOK(Rest, DOMAIN journal, orders') /\ TasksOK(todo, DOMAIN journal, orders')
           /\ TaskOK(Head(todo), DOMAIN journal, orders')
           /\ AllBelieved(journal, orders')
           /\ Head(todo).op \notin {"settled", "resync"} => AllBelieved(trades, orders')
<1>1. IsSeq(orders)
  BY DEF IInv, OrdersOK
<1>2. TasksOK(todo, DOMAIN journal, orders')
  BY <1>1, TasksGrow DEF IInv
<1>3. AllBelieved(journal, orders')
  BY <1>1, BookGrows DEF IInv
<1>4. ASSUME Head(todo).op \notin {"settled", "resync"} PROVE AllBelieved(trades, orders')
  BY <1>1, <1>4, BookGrows, BookCalm DEF IInv
<1> QED
  BY <1>2, <1>3, <1>4, TasksTail DEF Rest

\* What a step has to leave.
LEMMA StepLeaves ==
    ASSUME IInv, Extends(orders, orders'), setup' = setup, journal' = journal, entries' \in Nat,
           BelievedOrInHand(trades', todo', orders'), TasksOK(todo', DOMAIN journal, orders')
    PROVE  IInv'
<1>1. IsSeq(orders)
  BY DEF IInv, OrdersOK
<1>2. AllBelieved(journal, orders')
  BY <1>1, BookGrows DEF IInv
<1>3. OrdersOK(orders')
  BY DEF Extends
<1> QED
  BY <1>2, <1>3 DEF IInv

\* The trades as they were, and tasks that are in order.
LEMMA OnlyTasks ==
    ASSUME IInv, Calm, Extends(orders, orders'), setup' = setup, journal' = journal,
           entries' \in Nat, trades' = trades, TasksOK(todo', DOMAIN journal, orders')
    PROVE  IInv'
BY StepFinds, StepLeaves, BookWhole DEF Calm

LEMMA EnterStep == ASSUME IInv, Enter PROVE IInv'
<1>1. Calm /\ entries \in Nat /\ OrdersOK(orders)
  BY DEF Enter, Doing, Calm, IInv
<1>2. Extends(orders, orders')
  BY <1>1, SameExtends DEF Enter, Local, Call, MarketBuy, venueVars
<1>3. /\ setup' = setup /\ journal' = journal /\ trades' = trades
      /\ entries' \in {entries, entries + 1}
      /\ todo' = Rest \/ todo' = <<Task("attach_sl", entries + 1, <<>>)>> \o Rest
  BY DEF Enter, Local, Call, Step
<1>4. TasksOK(Rest, DOMAIN journal, orders')
  BY <1>1, <1>2, StepFinds DEF Calm
<1>5. TaskOK(Task("attach_sl", entries + 1, <<>>), DOMAIN journal, orders')
  BY <1>1 DEF Task, TaskOK
<1>6. TasksOK(todo', DOMAIN journal, orders')
  BY <1>3, <1>4, <1>5, TasksOne, TasksConcat
<1> QED
  BY <1>1, <1>2, <1>3, <1>6, OnlyTasks

LEMMA AttachStopStep == ASSUME IInv, AttachStop PROVE IInv'
<1>1. Calm /\ entries \in Nat /\ OrdersOK(orders)
  BY DEF AttachStop, Doing, Calm, IInv
<1>2. /\ setup' = setup /\ journal' = journal /\ trades' = trades /\ entries' = entries
      /\ \/ /\ PlaceOrder(Order(It, "sl", -1, Size))
            /\ todo' = <<Task("attach_tp", It, <<NextOrderId>>)>> \o Rest
         \/ /\ PlaceOrder(Order(It, "sl", -1, Size)) \/ orders' = orders
            /\ todo' = <<Task("emergency", It, <<>>)>> \o Rest
  BY DEF AttachStop, Call, Step, venueVars
<1>3. Extends(orders, orders')
  BY <1>1, <1>2, PlacedExtends, SameExtends
<1>4. TasksOK(Rest, DOMAIN journal, orders') /\ TaskOK(Head(todo), DOMAIN journal, orders')
  BY <1>1, <1>3, StepFinds DEF Calm
<1>5. It \in Nat
  BY <1>4 DEF TaskOK, AttachStop, Doing, It
<1>6. Plain(Task("emergency", It, <<>>))
  BY DEF Plain, Task
<1>7. TasksOK(todo', DOMAIN journal, orders')
  <2>1. CASE PlaceOrder(Order(It, "sl", -1, Size)) /\ todo' = <<Task("attach_tp", It, <<NextOrderId>>)>> \o Rest
    <3>1. StopAt(NextOrderId, -1, orders')
      BY <1>1, <2>1, PlacedExtends
    <3>2. TaskOK(Task("attach_tp", It, <<NextOrderId>>), DOMAIN journal, orders')
      BY <1>5, <3>1 DEF Task, TaskOK
    <3> QED
      BY <1>4, <2>1, <3>2, TasksOne, TasksConcat
  <2>2. CASE todo' = <<Task("emergency", It, <<>>)>> \o Rest
    BY <1>4, <1>6, <2>2, TasksPlain, TasksConcat
  <2> QED
    BY <1>2, <2>1, <2>2
<1> QED
  BY <1>1, <1>2, <1>3, <1>7, OnlyTasks

LEMMA EmergencyStep == ASSUME IInv, EmergencyClose PROVE IInv'
<1>1. Calm /\ entries \in Nat /\ OrdersOK(orders)
  BY DEF EmergencyClose, Doing, Calm, IInv
<1>2. /\ setup' = setup /\ journal' = journal /\ trades' = trades /\ entries' = entries
      /\ todo' = Rest /\ orders' = orders
  BY DEF EmergencyClose, Call, Step, MarketReduce, venueVars
<1>3. Extends(orders, orders')
  BY <1>1, <1>2, SameExtends
<1>4. TasksOK(todo', DOMAIN journal, orders')
  BY <1>1, <1>2, <1>3, StepFinds DEF Calm
<1> QED
  BY <1>1, <1>2, <1>3, <1>4, OnlyTasks

LEMMA CancelOneStep == ASSUME IInv, CancelOne PROVE IInv'
<1>1. Calm /\ entries \in Nat /\ OrdersOK(orders)
  BY DEF CancelOne, Doing, Calm, IInv
<1>2. /\ setup' = setup /\ journal' = journal /\ trades' = trades /\ entries' = entries
      /\ todo' = Rest /\ (CancelOrder(Head(Arg)) \/ orders' = orders)
  BY DEF CancelOne, Call, Step, venueVars
<1>3. Extends(orders, orders')
  BY <1>1, <1>2, SameExtends, CancelExtends
<1>4. TasksOK(todo', DOMAIN journal, orders')
  BY <1>1, <1>2, <1>3, StepFinds DEF Calm
<1> QED
  BY <1>1, <1>2, <1>3, <1>4, OnlyTasks

LEMMA CancelLeftoverStep == ASSUME IInv, CancelLeftover PROVE IInv'
<1>1. Calm /\ entries \in Nat /\ OrdersOK(orders)
  BY DEF CancelLeftover, Doing, Calm, IInv
<1>2. /\ setup' = setup /\ journal' = journal /\ trades' = trades /\ entries' = entries
      /\ todo' = Rest \/ todo' = <<Leftover(Tail(Arg))>> \o Rest
      /\ CancelOrder(Head(Arg)) \/ orders' = orders
  BY DEF CancelLeftover, Call, Step, Local, venueVars
<1>3. Extends(orders, orders')
  BY <1>1, <1>2, SameExtends, CancelExtends
<1>4. TasksOK(Rest, DOMAIN journal, orders')
  BY <1>1, <1>3, StepFinds DEF Calm
<1>5. Plain(Leftover(Tail(Arg)))
  BY DEF Plain, Leftover, Task
<1>6. TasksOK(todo', DOMAIN journal, orders')
  BY <1>2, <1>4, <1>5, TasksPlain, TasksConcat
<1> QED
  BY <1>1, <1>2, <1>3, <1>6, OnlyTasks

LEMMA BooksFinite ==
    ASSUME IInv
    PROVE  /\ \A S \in SUBSET Tracked : IsFiniteSet(S)
           /\ IsFiniteSet(DOMAIN journal) /\ DOMAIN journal \subseteq Nat
<1>1. IsFiniteSet(Tracked) /\ IsFiniteSet(DOMAIN journal) /\ DOMAIN journal \subseteq Nat
  BY DEF IInv, AllBelieved, BelievedOrInHand, BookOK, Tracked
<1> QED
  BY <1>1, FS_Subset

\* Nothing is called, and nothing is left but the rest of the item.
LEMMA OnlyRest ==
    ASSUME IInv, Calm, orders' = orders, setup' = setup, journal' = journal, entries' = entries,
           trades' = trades, todo' = Rest
    PROVE  IInv'
<1>1. Extends(orders, orders') /\ entries' \in Nat
  BY SameExtends DEF IInv
<1>2. TasksOK(todo', DOMAIN journal, orders')
  BY <1>1, StepFinds DEF Calm
<1> QED
  BY <1>1, <1>2, OnlyTasks

\* Nothing is called, and the tasks are those of some of the trades, or none.
LEMMA TasksOfTrades ==
    ASSUME IInv, Calm, orders' = orders, setup' = setup, journal' = journal, entries' = entries,
           trades' = trades, NEW op, op \notin {"attach_sl", "attach_tp", "adopt"},
           \/ todo' = Rest
           \/ \E S \in SUBSET Tracked : todo' = PerTrade(op, S) \o Rest
    PROVE  IInv'
<1>1. Extends(orders, orders') /\ entries' \in Nat
  BY SameExtends DEF IInv
<1>2. TasksOK(Rest, DOMAIN journal, orders')
  BY <1>1, StepFinds DEF Calm
<1>3. \A S \in SUBSET Tracked : TasksOK(PerTrade(op, S), DOMAIN journal, orders')
  BY BooksFinite, TasksPerTrade
<1>4. TasksOK(todo', DOMAIN journal, orders')
  BY <1>2, <1>3, TasksConcat
<1> QED
  BY <1>1, <1>4, OnlyTasks

LEMMA RetryStep == ASSUME IInv, RetryPending PROVE IInv'
<1>1. Calm
  BY DEF RetryPending, Doing, Calm
<1>2. /\ orders' = orders /\ setup' = setup /\ journal' = journal /\ entries' = entries /\ trades' = trades
      /\ todo' = PerTrade("sync", {t \in Tracked : trades[t].pending}) \o Rest
  BY DEF RetryPending, Local, Step, venueVars
<1>3. \E S \in SUBSET Tracked : todo' = PerTrade("sync", S) \o Rest
  BY <1>2
<1> QED
  BY <1>1, <1>2, <1>3, TasksOfTrades

LEMMA BreakEvensStep == ASSUME IInv, BreakEvens PROVE IInv'
<1>1. Calm
  BY DEF BreakEvens, Doing, Calm
<1>2. /\ orders' = orders /\ setup' = setup /\ journal' = journal /\ entries' = entries /\ trades' = trades
      /\ \E S \in SUBSET Tracked : todo' = PerTrade("free_sl", S) \o Rest
  BY DEF BreakEvens, Local, Step, venueVars
<1> QED
  BY <1>1, <1>2, TasksOfTrades

LEMMA RaiseStopsStep == ASSUME IInv, RaiseStops PROVE IInv'
<1>1. Calm
  BY DEF RaiseStops, Doing, Calm
<1>2. /\ orders' = orders /\ setup' = setup /\ journal' = journal /\ entries' = entries /\ trades' = trades
      /\ \E S \in SUBSET Tracked : todo' = PerTrade("raise_sl", S) \o Rest
  BY DEF RaiseStops, Local, Step, venueVars
<1> QED
  BY <1>1, <1>2, TasksOfTrades

LEMMA CheckLevelsStep == ASSUME IInv, CheckLevels PROVE IInv'
<1>1. Calm
  BY DEF CheckLevels, Doing, Calm
<1>2. /\ orders' = orders /\ setup' = setup /\ journal' = journal /\ entries' = entries /\ trades' = trades
      /\ todo' = PerTrade("level", Tracked) \o Rest \/ todo' = <<>> \o Rest
  BY DEF CheckLevels, Local, Step, venueVars
<1>3. <<>> \o Rest = Rest
  <2>1. IsSeq(Rest)
    BY <1>1, SeqTail DEF Calm, IInv, TasksOK, Rest
  <2> QED
    BY <2>1 DEF IsSeq
<1>4. todo' = Rest \/ \E S \in SUBSET Tracked : todo' = PerTrade("level", S) \o Rest
  BY <1>2, <1>3
<1> QED
  BY <1>1, <1>2, <1>4, TasksOfTrades

LEMMA LevelDoneStep == ASSUME IInv, LevelDone PROVE IInv'
<1>1. Calm
  BY DEF LevelDone, Doing, Calm
<1>2. /\ orders' = orders /\ setup' = setup /\ journal' = journal /\ entries' = entries /\ trades' = trades
      /\ todo' = Rest
  BY DEF LevelDone, Local, Step, venueVars
<1> QED
  BY <1>1, <1>2, OnlyRest

LEMMA ForceCloseStep == ASSUME IInv, ForceClose PROVE IInv'
<1>1. Calm
  BY DEF ForceClose, Doing, Calm
<1>2. /\ orders' = orders /\ setup' = setup /\ journal' = journal /\ entries' = entries /\ trades' = trades
      /\ todo' = Rest \/ todo' = PerTrade("close", Tracked) \o Rest
  BY DEF ForceClose, Local, Step, venueVars
<1>3. todo' = Rest \/ \E S \in SUBSET Tracked : todo' = PerTrade("close", S) \o Rest
  BY <1>2
<1> QED
  BY <1>1, <1>2, <1>3, TasksOfTrades

LEMMA ReadNetStep == ASSUME IInv, ReadNet PROVE IInv'
<1>1. Calm
  BY DEF ReadNet, Doing, Calm
<1>2. /\ orders' = orders /\ setup' = setup /\ journal' = journal /\ entries' = entries /\ trades' = trades
      /\ todo' = Rest
  BY DEF ReadNet, Local, Step, venueVars
<1> QED
  BY <1>1, <1>2, OnlyRest

LEMMA ReadOrdersStep == ASSUME IInv, ReadOrders PROVE IInv'
<1>1. Calm
  BY DEF ReadOrders, Doing, Calm
<1>2. /\ orders' = orders /\ setup' = setup /\ journal' = journal /\ entries' = entries /\ trades' = trades
      /\ todo' = Rest
  BY DEF ReadOrders, Local, Step, venueVars
<1> QED
  BY <1>1, <1>2, OnlyRest

LEMMA SkipClosedStep == ASSUME IInv, SkipClosed PROVE IInv'
<1>1. Calm
  BY DEF SkipClosed, Doing, Calm
<1>2. /\ orders' = orders /\ setup' = setup /\ journal' = journal /\ entries' = entries /\ trades' = trades
      /\ todo' = Rest
  BY DEF SkipClosed, Local, Step, venueVars
<1> QED
  BY <1>1, <1>2, OnlyRest

LEMMA ReadFillsStep == ASSUME IInv, ReadFills PROVE IInv'
<1>1. Calm
  BY DEF ReadFills, Doing, Calm
<1>2. /\ orders' = orders /\ setup' = setup /\ journal' = journal /\ entries' = entries /\ trades' = trades
      /\ todo' = PerTrade("adopt", DOMAIN journal) \o <<Stage("flush")>>
  BY DEF ReadFills, Step, venueVars
<1>3. Extends(orders, orders') /\ entries' \in Nat
  BY <1>2, SameExtends DEF IInv
<1>4. TasksOK(PerTrade("adopt", DOMAIN journal), DOMAIN journal, orders')
  BY BooksFinite, TasksAdopt
<1>5. Plain(Stage("flush"))
  BY DEF Plain, Stage, Task
<1>6. TasksOK(todo', DOMAIN journal, orders')
  BY <1>2, <1>4, <1>5, TasksPlain, TasksConcat
<1> QED
  BY <1>1, <1>2, <1>3, <1>6, OnlyTasks

-----------------------------------------------------------------------------
(* A stop is moved *)

\* The books after the stop of t was settled one way or the other.
PutRight(t, book, os) == \A r : (t \in DOMAIN book => Believed(r, os)) => AllBelieved([book EXCEPT ![t] = r], os)

LEMMA CalmPutRight ==
    ASSUME IInv, Calm, Extends(orders, orders'), NEW t PROVE PutRight(t, trades, orders')
<1>1. AllBelieved(trades, orders')
  BY StepFinds DEF Calm
<1> QED
  BY <1>1, BookWith DEF PutRight

LEMMA BeliefGrows ==
    ASSUME NEW os, NEW more, Extends(os, more), IsSeq(os), NEW r, Believed(r, os)
    PROVE  Believed(r, more)
BY StopStays DEF Believed

LEMMA InHandPutRight ==
    ASSUME IInv, todo /= <<>>, Extends(orders, orders') PROVE PutRight(It, trades, orders')
<1>1. IsSeq(orders)
  BY DEF IInv, OrdersOK
<1>2. BelievedOrInHand(trades, todo, orders')
  BY <1>1, BeliefGrows DEF IInv, BelievedOrInHand
<1> QED
  BY <1>2, BookPutRight DEF PutRight, It

LEMMA MoveStopKeeps ==
    ASSUME IInv, todo /= <<>>, entries' = entries,
           NEW t, NEW rung, NEW ok, NEW failed, NEW more, NEW less,
           MoveStop(t, rung, ok, failed, more, less),
           Extends(orders, orders') => PutRight(t, trades, orders'),
           t \in Tracked => TradeOK(ok) /\ ok.sl = rung /\ Believed(failed, orders),
           Extends(orders, orders') => TasksOK(more, DOMAIN journal, orders'),
           Extends(orders, orders') => TasksOK(less, DOMAIN journal, orders')
    PROVE  IInv'
<1> DEFINE moved == [ok EXCEPT !.slId = NextOrderId]
           old == IF trades[t].slId = None THEN <<>> ELSE <<Task("cancel", t, <<trades[t].slId>>)>>
<1>1. OrdersOK(orders) /\ IsSeq(orders) /\ entries' \in Nat
  BY DEF IInv, OrdersOK
<1>2. /\ setup' = setup /\ journal' = journal
      /\ \/ /\ PlaceOrder(Order(t, "sl", rung, trades[t].size))
            /\ trades' = With(t, moved) /\ todo' = old \o more
         \/ /\ PlaceOrder(Order(t, "sl", rung, trades[t].size)) \/ orders' = orders
            /\ trades' = With(t, failed) /\ todo' = less
  BY DEF MoveStop, Call, Step, venueVars
<1> HIDE DEF moved, old
<1>3. Extends(orders, orders')
  BY <1>1, <1>2, PlacedExtends, SameExtends
<1>4. CASE /\ PlaceOrder(Order(t, "sl", rung, trades[t].size))
           /\ trades' = With(t, moved) /\ todo' = old \o more
  <2>1. StopAt(NextOrderId, rung, orders')
    BY <1>1, <1>4, PlacedExtends
  <2>2. t \in Tracked => Believed(moved, orders')
    BY <2>1 DEF moved, Believed, TradeOK
  <2>3. AllBelieved(trades', orders')
    BY <1>3, <1>4, <2>2 DEF PutRight, With, Tracked
  <2>4. TasksOK(old, DOMAIN journal, orders')
    <3>1. Plain(Task("cancel", t, <<trades[t].slId>>))
      BY DEF Plain, Task
    <3> QED
      BY <3>1, TasksPlain, TasksNone DEF old
  <2>5. TasksOK(todo', DOMAIN journal, orders')
    BY <1>3, <1>4, <2>4, TasksConcat
  <2> QED
    BY <1>1, <1>2, <1>3, <2>3, <2>5, BookWhole, StepLeaves
<1>5. CASE trades' = With(t, failed) /\ todo' = less
  <2>1. t \in Tracked => Believed(failed, orders')
    BY <1>1, <1>3, BeliefGrows
  <2>2. AllBelieved(trades', orders')
    BY <1>3, <1>5, <2>1 DEF PutRight, With, Tracked
  <2>3. TasksOK(todo', DOMAIN journal, orders')
    BY <1>3, <1>5
  <2> QED
    BY <1>1, <1>2, <1>3, <2>2, <2>3, BookWhole, StepLeaves
<1> QED
  BY <1>2, <1>4, <1>5

LEMMA FoundBelieved == ASSUME IInv, Calm, NEW t \in Tracked PROVE Believed(trades[t], orders)
<1>1. AllBelieved(trades, orders)
  BY BookCalm DEF IInv, Calm
<1> QED
  BY <1>1 DEF AllBelieved, Tracked

LEMMA FoundTrade == ASSUME IInv, NEW t \in Tracked PROVE TradeOK(trades[t])
BY DEF IInv, BelievedOrInHand, Tracked

LEMMA RestFound ==
    ASSUME IInv, todo /= <<>>
    PROVE  Extends(orders, orders') => TasksOK(Rest, DOMAIN journal, orders') /\ TasksOK(todo, DOMAIN journal, orders')
BY StepFinds

LEMMA TradePending ==
    ASSUME NEW r, TradeOK(r), NEW b \in BOOLEAN
    PROVE  LET set == [r EXCEPT !.pending = b]
           IN  TradeOK(set) /\ set.sl = r.sl /\ set.pending = b
<1> DEFINE set == [r EXCEPT !.pending = b]
<1>1. /\ r = [size |-> r.size, hits |-> r.hits, sl |-> r.sl, slId |-> r.slId, tpId |-> r.tpId,
              ladder |-> r.ladder, free |-> r.free, pending |-> r.pending]
      /\ IsFiniteSet(r.ladder)
  BY DEF TradeOK
<1>2. set = [size |-> r.size, hits |-> r.hits, sl |-> r.sl, slId |-> r.slId, tpId |-> r.tpId,
             ladder |-> r.ladder, free |-> r.free, pending |-> b]
  BY <1>1
<1> HIDE DEF set
<1>3. /\ set = [size |-> set.size, hits |-> set.hits, sl |-> set.sl, slId |-> set.slId, tpId |-> set.tpId,
               ladder |-> set.ladder, free |-> set.free, pending |-> set.pending]
      /\ set.sl = r.sl /\ set.ladder = r.ladder
  BY <1>2
<1>4. set.pending = b
  BY <1>2
<1>5. TradeOK(set) /\ set.sl = r.sl /\ set.pending = b
  BY <1>1, <1>3, <1>4 DEF TradeOK
<1> QED
  BY <1>5 DEF set

LEMMA SyncStopStep == ASSUME IInv, SyncStop PROVE IInv'
<1> DEFINE r == trades[It]
           ok == [r EXCEPT !.pending = FALSE]
<1>1. Calm /\ todo /= <<>>
  BY DEF SyncStop, Doing, Calm
<1>2. MoveStop(It, r.sl, ok, r, Rest, Rest) /\ entries' = entries
  BY DEF SyncStop
<1>3. It \in Tracked => TradeOK(ok) /\ ok.sl = r.sl /\ Believed(r, orders)
  <2> SUFFICES ASSUME It \in Tracked PROVE TradeOK(ok) /\ ok.sl = r.sl /\ Believed(r, orders)
    OBVIOUS
  <2>1. Believed(r, orders)
    BY <1>1, FoundBelieved
  <2>2. TradeOK(r)
    BY <2>1 DEF Believed
  <2> HIDE DEF r
  <2> QED
    BY <2>1, <2>2, TradePending
<1> HIDE DEF r, ok
<1> QED
  BY <1>1, <1>2, <1>3, RestFound, CalmPutRight, MoveStopKeeps

LEMMA RaiseStopStep == ASSUME IInv, RaiseStop PROVE IInv'
<1> DEFINE r == trades[It]
           ok == [r EXCEPT !.sl = @ + 1]
           rung == r.sl + 1
<1>1. Calm /\ todo /= <<>>
  BY DEF RaiseStop, Doing, Calm
<1>2. MoveStop(It, rung, ok, r, Rest, Rest) /\ entries' = entries
  BY DEF RaiseStop
<1>3. It \in Tracked => TradeOK(ok) /\ ok.sl = rung /\ Believed(r, orders)
  <2> SUFFICES ASSUME It \in Tracked PROVE TradeOK(ok) /\ ok.sl = rung /\ Believed(r, orders)
    OBVIOUS
  <2>1. Believed(r, orders)
    BY <1>1, FoundBelieved
  <2>2. TradeOK(r)
    BY <2>1 DEF Believed
  <2> HIDE DEF r
  <2> QED
    BY <2>1, <2>2 DEF TradeOK
<1> HIDE DEF r, ok, rung
<1> QED
  BY <1>1, <1>2, <1>3, RestFound, CalmPutRight, MoveStopKeeps

LEMMA SettledStopStep == ASSUME IInv, SettledStop PROVE IInv'
<1> DEFINE r == trades[It]
           failed == [r EXCEPT !.pending = TRUE]
<1>1. todo /= <<>>
  BY DEF SettledStop, Doing
<1>2. MoveStop(It, r.sl, r, failed, Rest, Rest) /\ entries' = entries
  BY DEF SettledStop
<1>3. It \in Tracked => TradeOK(r) /\ r.sl = r.sl /\ Believed(failed, orders)
  <2> SUFFICES ASSUME It \in Tracked PROVE TradeOK(r) /\ Believed(failed, orders)
    OBVIOUS
  <2>1. TradeOK(r)
    BY FoundTrade
  <2> HIDE DEF r
  <2>2. TradeOK(failed) /\ failed.pending = TRUE
    BY <2>1, TradePending
  <2> HIDE DEF failed
  <2>3. Believed(failed, orders)
    BY <2>2 DEF Believed
  <2> QED
    BY <2>1, <2>3
<1> HIDE DEF r, failed
<1> QED
  BY <1>1, <1>2, <1>3, RestFound, InHandPutRight, MoveStopKeeps

LEMMA ResyncStopStep == ASSUME IInv, ResyncStop PROVE IInv'
<1> DEFINE r == trades[It]
           ok == [r EXCEPT !.pending = FALSE]
           failed == [r EXCEPT !.pending = TRUE]
<1>1. todo /= <<>>
  BY DEF ResyncStop, Doing
<1>2. MoveStop(It, r.sl, ok, failed, Rest, Rest) /\ entries' = entries
  BY DEF ResyncStop
<1>3. It \in Tracked => TradeOK(ok) /\ ok.sl = r.sl /\ Believed(failed, orders)
  <2> SUFFICES ASSUME It \in Tracked PROVE TradeOK(ok) /\ ok.sl = r.sl /\ Believed(failed, orders)
    OBVIOUS
  <2>1. TradeOK(r)
    BY FoundTrade
  <2> HIDE DEF r
  <2>2. TradeOK(failed) /\ failed.pending = TRUE
    BY <2>1, TradePending
  <2> HIDE DEF failed
  <2>3. Believed(failed, orders)
    BY <2>2 DEF Believed
  <2>4. TradeOK(ok) /\ ok.sl = r.sl
    BY <2>1, TradePending
  <2> QED
    BY <2>3, <2>4
<1> HIDE DEF r, ok, failed
<1> QED
  BY <1>1, <1>2, <1>3, RestFound, InHandPutRight, MoveStopKeeps

-----------------------------------------------------------------------------
(* A trade's size, ladder or take-profit is changed, not its stop *)

LEMMA TradeSize ==
    ASSUME NEW r, NEW os, NEW x
    PROVE  /\ TradeOK(r) => TradeOK([r EXCEPT !.size = x])
           /\ Believed(r, os) => Believed([r EXCEPT !.size = x], os)
BY DEF TradeOK, Believed

LEMMA TradeLadder ==
    ASSUME NEW r, NEW os, NEW S, IsFiniteSet(S), Believed(r, os)
    PROVE  Believed([r EXCEPT !.ladder = S], os)
BY DEF TradeOK, Believed

LEMMA TradeTp ==
    ASSUME NEW r, NEW os, NEW x, Believed(r, os)
    PROVE  Believed([r EXCEPT !.tpId = x], os)
BY DEF TradeOK, Believed

CursorSet(at, r, h, s) == at = [r EXCEPT !.hits = h, !.sl = s]

LEMMA TradeCursor ==
    ASSUME NEW r, TradeOK(r), NEW h, NEW s, NEW at, CursorSet(at, r, h, s)
    PROVE  TradeOK(at) /\ at.sl = s /\ at.slId = r.slId /\ at.pending = r.pending
<1>1. /\ r = [size |-> r.size, hits |-> r.hits, sl |-> r.sl, slId |-> r.slId, tpId |-> r.tpId,
              ladder |-> r.ladder, free |-> r.free, pending |-> r.pending]
      /\ IsFiniteSet(r.ladder)
  BY DEF TradeOK
<1>2. r.pending \in BOOLEAN
  BY DEF TradeOK
<1>3. at = [size |-> r.size, hits |-> h, sl |-> s, slId |-> r.slId, tpId |-> r.tpId,
            ladder |-> r.ladder, free |-> r.free, pending |-> r.pending]
  <2>1. DOMAIN r = {"size", "hits", "sl", "slId", "tpId", "ladder", "free", "pending"}
    BY <1>1
  <2>2. at = [f \in {"size", "hits", "sl", "slId", "tpId", "ladder", "free", "pending"} |->
                 IF f = "sl" THEN s ELSE IF f = "hits" THEN h ELSE r[f]]
    BY <2>1 DEF CursorSet
  <2> QED
    BY <2>2
<1>4. /\ at = [size |-> at.size, hits |-> at.hits, sl |-> at.sl, slId |-> at.slId, tpId |-> at.tpId,
              ladder |-> at.ladder, free |-> at.free, pending |-> at.pending]
      /\ at.sl = s /\ at.slId = r.slId /\ at.ladder = r.ladder
  BY <1>3
<1>5. at.pending = r.pending
  BY <1>3
<1>6. TradeOK(at)
  BY <1>1, <1>2, <1>4, <1>5 DEF TradeOK
<1> QED
  BY <1>4, <1>5, <1>6

LEMMA FirstTask ==
    ASSUME NEW x, NEW rest, IsSeq(rest)
    PROVE  <<x>> \o rest /= <<>> /\ Head(<<x>> \o rest) = x
<1>1. IsSeq(<<x>>) /\ Len(<<x>>) = 1 /\ <<x>>[1] = x
  BY SeqOne
<1>2. /\ IsSeq(<<x>> \o rest) /\ Len(<<x>> \o rest) = 1 + Len(rest)
      /\ \A i \in 1..Len(<<x>> \o rest) :
            \/ i \in 1..1 /\ (<<x>> \o rest)[i] = <<x>>[i]
            \/ i - 1 \in 1..Len(rest) /\ (<<x>> \o rest)[i] = rest[i - 1]
  BY <1>1, SeqConcat
<1>3. Len(rest) \in Nat
  BY SeqLen
<1>4. (<<x>> \o rest)[1] = x
  BY <1>1, <1>2, <1>3
<1>5. <<x>> \o rest /= <<>>
  BY <1>2, <1>3, SeqNone
<1> QED
  BY <1>2, <1>4, <1>5, SeqTail

LEMMA SettleKeeps ==
    ASSUME IInv, Calm, entries' = entries, Extends(orders, orders'),
           NEW t, NEW r, NEW k, NEW q, NEW rest, Settle(t, r, k, q, rest),
           Believed(r, orders), TasksOK(rest, DOMAIN journal, orders')
    PROVE  IInv'
<1> DEFINE at == [r EXCEPT !.hits = IF @ < k THEN k ELSE @, !.sl = IF r.hits < k THEN k - 1 ELSE @]
           left == [at EXCEPT !.size = @ - q]
           first == IF at.sl /= r.sl THEN <<Task("settled", t, <<>>)>> ELSE <<>>
<1>1. /\ setup' = setup /\ journal' = journal
      /\ \/ trades' = Without(t) /\ todo' = CancelTasks(r) \o rest
         \/ trades' = With(t, left) /\ todo' = first \o rest
  BY DEF Settle, Step
<1>2. AllBelieved(trades, orders') /\ entries' \in Nat /\ IsSeq(orders)
  BY StepFinds DEF Calm, IInv, OrdersOK
<1>3. Believed(r, orders') /\ TradeOK(r)
  BY <1>2, BeliefGrows DEF Believed
<1>4. TradeOK(left) /\ left.slId = r.slId /\ left.pending = r.pending /\ left.sl = at.sl
  <2>1. TradeOK(at) /\ at.slId = r.slId /\ at.pending = r.pending
    <3> DEFINE h == IF r.hits < k THEN k ELSE r.hits
               s == IF r.hits < k THEN k - 1 ELSE r.sl
    <3>1. CursorSet(at, r, h, s)
      BY DEF CursorSet
    <3> HIDE DEF at, h, s
    <3> QED
      BY <1>3, <3>1, TradeCursor
  <2> HIDE DEF at
  <2> QED
    BY <2>1 DEF TradeOK
<1> HIDE DEF at, left
<1>5. CASE trades' = Without(t) /\ todo' = CancelTasks(r) \o rest
  <2>1. AllBelieved(trades', orders')
    BY <1>2, <1>5, BookWithout DEF Without, Tracked
  <2>2. TasksOK(CancelTasks(r), DOMAIN journal, orders')
    BY <1>3, TasksCancel
  <2>3. TasksOK(todo', DOMAIN journal, orders')
    BY <1>5, <2>2, TasksConcat
  <2> QED
    BY <1>1, <1>2, <2>1, <2>3, BookWhole, StepLeaves
<1>6. CASE trades' = With(t, left) /\ todo' = first \o rest /\ at.sl /= r.sl
  <2>1. todo' = <<Task("settled", t, <<>>)>> \o rest
    BY <1>6
  <2>2. Plain(Task("settled", t, <<>>)) /\ Task("settled", t, <<>>).op = "settled"
        /\ Task("settled", t, <<>>).t = t
    BY DEF Plain, Task
  <2>3. TasksOK(todo', DOMAIN journal, orders')
    BY <2>1, <2>2, TasksPlain, TasksConcat
  <2>4. InHand(t, todo')
    BY <2>1, <2>2, FirstTask DEF InHand, TasksOK
  <2>5. BelievedOrInHand(trades', todo', orders')
    BY <1>2, <1>4, <1>6, <2>4, BookWithInHand DEF With
  <2> QED
    BY <1>1, <1>2, <2>3, <2>5, StepLeaves
<1>7. CASE trades' = With(t, left) /\ todo' = first \o rest /\ at.sl = r.sl
  <2>1. todo' = <<>> \o rest
    BY <1>7
  <2>2. TasksOK(todo', DOMAIN journal, orders')
    BY <2>1, TasksNone, TasksConcat
  <2>3. Believed(left, orders')
    BY <1>3, <1>4, <1>7 DEF Believed
  <2>4. AllBelieved(trades', orders')
    BY <1>2, <1>7, <2>3, BookWith DEF With
  <2> QED
    BY <1>1, <1>2, <2>2, <2>4, BookWhole, StepLeaves
<1> QED
  BY <1>1, <1>5, <1>6, <1>7

LEMMA LevelTouchedStep == ASSUME IInv, LevelTouched PROVE IInv'
<1> DEFINE r == trades[It]
           k == r.hits + 1
           q == Least(Fractions[k], r.size)
           ok == [r EXCEPT !.hits = k, !.sl = r.hits]
<1>1. Calm /\ todo /= <<>> /\ It \in Tracked /\ entries' = entries /\ OrdersOK(orders)
  BY DEF LevelTouched, Doing, Calm, IInv
<1>2. \/ MoveStop(It, r.hits, ok, r, todo, Rest)
      \/ MarketReduce(q) /\ Settle(It, r, k, q, todo)
      \/ (UNCHANGED venueVars \/ MarketReduce(q)) /\ Step(trades, Rest)
  BY DEF LevelTouched, Call
<1>3. Believed(r, orders) /\ TradeOK(r)
  BY <1>1, FoundBelieved DEF Believed
<1>4. TradeOK(ok) /\ ok.sl = r.hits
  <2>1. CursorSet(ok, r, k, r.hits)
    BY DEF CursorSet
  <2> HIDE DEF r, k, ok
  <2> QED
    BY <1>3, <2>1, TradeCursor
<1> HIDE DEF r, k, q, ok
<1>5. CASE MoveStop(It, r.hits, ok, r, todo, Rest)
  BY <1>1, <1>3, <1>4, <1>5, RestFound, CalmPutRight, MoveStopKeeps
<1>6. CASE MarketReduce(q) /\ Settle(It, r, k, q, todo)
  <2>1. Extends(orders, orders')
    BY <1>1, <1>6, SameExtends DEF MarketReduce
  <2>2. TasksOK(todo, DOMAIN journal, orders')
    BY <1>1, <2>1, RestFound
  <2> QED
    BY <1>1, <1>3, <1>6, <2>1, <2>2, SettleKeeps
<1>7. CASE (UNCHANGED venueVars \/ MarketReduce(q)) /\ Step(trades, Rest)
  BY <1>1, <1>7, OnlyRest DEF venueVars, MarketReduce, Step
<1> QED
  BY <1>2, <1>5, <1>6, <1>7

-----------------------------------------------------------------------------
(* A trade is replaced, dropped or taken in *)

LEMMA WithStep ==
    ASSUME IInv, Calm, Extends(orders, orders'), setup' = setup, journal' = journal, entries' = entries,
           NEW t, NEW r, t \in Tracked => Believed(r, orders), trades' = With(t, r),
           TasksOK(todo', DOMAIN journal, orders')
    PROVE  IInv'
<1>1. AllBelieved(trades, orders') /\ entries' \in Nat /\ IsSeq(orders)
  BY StepFinds DEF Calm, IInv, OrdersOK
<1>2. t \in Tracked => Believed(r, orders')
  BY <1>1, BeliefGrows
<1>3. AllBelieved(trades', orders')
  BY <1>1, <1>2, BookWith DEF With, Tracked
<1> QED
  BY <1>1, <1>3, BookWhole, StepLeaves

LEMMA WithoutStep ==
    ASSUME IInv, Calm, Extends(orders, orders'), setup' = setup, journal' = journal, entries' = entries,
           NEW t, trades' = Without(t), TasksOK(todo', DOMAIN journal, orders')
    PROVE  IInv'
<1>1. AllBelieved(trades, orders') /\ entries' \in Nat
  BY StepFinds DEF Calm, IInv
<1>2. AllBelieved(trades', orders')
  BY <1>1, BookWithout DEF Without, Tracked
<1> QED
  BY <1>1, <1>2, BookWhole, StepLeaves

LEMMA AlsoStep ==
    ASSUME IInv, Calm, Extends(orders, orders'), setup' = setup, journal' = journal, entries' = entries,
           NEW t \in Nat, NEW r, Believed(r, orders'), trades' = Also(t, r),
           TasksOK(todo', DOMAIN journal, orders')
    PROVE  IInv'
<1>1. AllBelieved(trades, orders') /\ entries' \in Nat
  BY StepFinds DEF Calm, IInv
<1>2. AllBelieved(trades', orders')
  BY <1>1, BookAlso DEF Also, Tracked
<1> QED
  BY <1>1, <1>2, BookWhole, StepLeaves

\* The stop of a trade set to the entry price.
LEMMA TradeFree ==
    ASSUME NEW r, TradeOK(r), NEW ok, ok = [r EXCEPT !.sl = 0, !.free = TRUE]
    PROVE  TradeOK(ok) /\ ok.sl = 0 /\ ok.slId = r.slId /\ ok.pending = r.pending
<1>1. /\ r = [size |-> r.size, hits |-> r.hits, sl |-> r.sl, slId |-> r.slId, tpId |-> r.tpId,
              ladder |-> r.ladder, free |-> r.free, pending |-> r.pending]
      /\ IsFiniteSet(r.ladder) /\ r.pending \in BOOLEAN
  BY DEF TradeOK
<1>2. ok = [size |-> r.size, hits |-> r.hits, sl |-> 0, slId |-> r.slId, tpId |-> r.tpId,
            ladder |-> r.ladder, free |-> TRUE, pending |-> r.pending]
  BY <1>1
<1>3. /\ ok = [size |-> ok.size, hits |-> ok.hits, sl |-> ok.sl, slId |-> ok.slId, tpId |-> ok.tpId,
               ladder |-> ok.ladder, free |-> ok.free, pending |-> ok.pending]
      /\ ok.sl = 0 /\ ok.slId = r.slId /\ ok.ladder = r.ladder
  BY <1>2
<1>4. ok.pending = r.pending
  BY <1>2
<1> QED
  BY <1>1, <1>3, <1>4 DEF TradeOK

LEMMA BreakEvenStep == ASSUME IInv, BreakEven PROVE IInv'
<1> DEFINE r == trades[It]
           ok == [r EXCEPT !.sl = 0, !.free = TRUE]
<1>1. Calm /\ todo /= <<>> /\ OrdersOK(orders)
  BY DEF BreakEven, Doing, Calm, IInv
<1>2. /\ entries' = entries
      /\ \/ r.sl = 0 /\ Local(With(It, ok), Rest)
         \/ MoveStop(It, 0, ok, r, Rest, Rest)
  BY DEF BreakEven
<1>3. It \in Tracked => /\ TradeOK(ok) /\ ok.sl = 0 /\ Believed(r, orders)
                        /\ r.sl = 0 => Believed(ok, orders)
  <2> SUFFICES ASSUME It \in Tracked
               PROVE  /\ TradeOK(ok) /\ ok.sl = 0 /\ Believed(r, orders)
                      /\ r.sl = 0 => Believed(ok, orders)
    OBVIOUS
  <2>1. Believed(r, orders)
    BY <1>1, FoundBelieved
  <2>2. TradeOK(r)
    BY <2>1 DEF Believed
  <2> HIDE DEF r
  <2>3. TradeOK(ok) /\ ok.sl = 0 /\ ok.slId = r.slId /\ ok.pending = r.pending
    BY <2>2, TradeFree
  <2> HIDE DEF ok
  <2> QED
    BY <2>1, <2>3 DEF Believed
<1> HIDE DEF r, ok
<1>4. CASE r.sl = 0 /\ Local(With(It, ok), Rest)
  <2>1. /\ orders' = orders /\ setup' = setup /\ journal' = journal
        /\ trades' = With(It, ok) /\ todo' = Rest
    BY <1>4 DEF Local, Step, venueVars
  <2>2. Extends(orders, orders')
    BY <1>1, <2>1, SameExtends
  <2>3. TasksOK(todo', DOMAIN journal, orders')
    BY <1>1, <2>1, <2>2, RestFound
  <2> QED
    BY <1>1, <1>2, <1>3, <1>4, <2>1, <2>2, <2>3, WithStep
<1>5. CASE MoveStop(It, 0, ok, r, Rest, Rest)
  BY <1>1, <1>2, <1>3, <1>5, RestFound, CalmPutRight, MoveStopKeeps
<1> QED
  BY <1>2, <1>4, <1>5

LEMMA PlaceLevelStep == ASSUME IInv, PlaceLevel PROVE IInv'
<1> DEFINE r == trades[It]
           S == r.ladder \cup {NextOrderId}
           o == Order(It, "ladder", Head(Arg), Least(Fractions[Head(Arg)], r.size))
<1>1. Calm /\ OrdersOK(orders) /\ todo /= <<>>
  BY DEF PlaceLevel, Doing, Calm, IInv
<1>2. /\ setup' = setup /\ journal' = journal /\ entries' = entries /\ todo' = Rest
      /\ PlaceOrder(o) \/ orders' = orders
      /\ trades' = With(It, [r EXCEPT !.ladder = S]) \/ trades' = trades
  BY DEF PlaceLevel, Call, Step, venueVars
<1>3. Extends(orders, orders')
  BY <1>1, <1>2, PlacedExtends, SameExtends
<1>4. TasksOK(todo', DOMAIN journal, orders')
  BY <1>1, <1>2, <1>3, RestFound
<1>5. It \in Tracked => Believed([r EXCEPT !.ladder = S], orders)
  <2> SUFFICES ASSUME It \in Tracked PROVE Believed([r EXCEPT !.ladder = S], orders)
    OBVIOUS
  <2>1. Believed(r, orders)
    BY <1>1, FoundBelieved
  <2>2. IsFiniteSet(S)
    BY <2>1, FS_AddElement DEF Believed, TradeOK
  <2> HIDE DEF r, S
  <2> QED
    BY <2>1, <2>2, TradeLadder
<1> HIDE DEF r, S, o
<1> QED
  BY <1>1, <1>2, <1>3, <1>4, <1>5, WithStep, OnlyTasks DEF IInv

LEMMA RearmStep == ASSUME IInv, RearmTakeProfit PROVE IInv'
<1> DEFINE r == trades[It]
           o == Order(It, "tp", 0, r.size)
<1>1. Calm /\ OrdersOK(orders) /\ todo /= <<>> /\ It \in Tracked
  BY DEF RearmTakeProfit, Adopting, Doing, Calm, IInv
<1>2. /\ setup' = setup /\ journal' = journal /\ entries' = entries /\ todo' = Rest
      /\ PlaceOrder(o) \/ orders' = orders
      /\ trades' = trades \/ \E id : trades' = With(It, [r EXCEPT !.tpId = id])
  BY DEF RearmTakeProfit, Call, Step, Local, venueVars
<1>3. Extends(orders, orders')
  BY <1>1, <1>2, PlacedExtends, SameExtends
<1>4. TasksOK(todo', DOMAIN journal, orders')
  BY <1>1, <1>2, <1>3, RestFound
<1>5. \A id : Believed([r EXCEPT !.tpId = id], orders)
  BY <1>1, FoundBelieved, TradeTp
<1>6. CASE trades' = trades
  BY <1>1, <1>2, <1>3, <1>4, <1>6, OnlyTasks DEF IInv
<1>7. ASSUME NEW id, trades' = With(It, [r EXCEPT !.tpId = id]) PROVE IInv'
  <2> DEFINE s == [r EXCEPT !.tpId = id]
  <2>1. Believed(s, orders)
    BY <1>5
  <2> HIDE DEF s
  <2>2. trades' = With(It, s)
    BY <1>7 DEF s
  <2> QED
    BY <1>1, <1>2, <1>3, <1>4, <2>1, <2>2, WithStep
<1> QED
  BY <1>2, <1>6, <1>7

LEMMA ReplaceStep == ASSUME IInv, ReplaceLadder PROVE IInv'
<1> DEFINE r == trades[It]
           missing == {i \in r.ladder : Gone(i) /\ ~InFills(i)}
           again == {orders[i].rung : i \in missing} \ 1..r.hits
           S == r.ladder \ missing
<1>1. Calm /\ OrdersOK(orders) /\ todo /= <<>> /\ It \in Tracked
  BY DEF ReplaceLadder, Adopting, Doing, Calm, IInv
<1>2. /\ setup' = setup /\ journal' = journal /\ entries' = entries /\ orders' = orders
      /\ trades' = With(It, [r EXCEPT !.ladder = S])
      /\ todo' = PlaceTasks(It, again) \o Rest
  BY DEF ReplaceLadder, Step, Local, venueVars
<1>3. Extends(orders, orders')
  BY <1>1, <1>2, SameExtends
<1>4. Believed(r, orders) /\ IsFiniteSet(r.ladder)
  BY <1>1, FoundBelieved DEF Believed, TradeOK
<1>5. IsFiniteSet(missing) /\ IsFiniteSet(S)
  <2>1. missing \in SUBSET r.ladder /\ S \in SUBSET r.ladder
    OBVIOUS
  <2> HIDE DEF missing, S
  <2> QED
    BY <1>4, <2>1, FS_Subset
<1>6. IsFiniteSet(again)
  <2>1. IsFiniteSet({orders[i].rung : i \in missing})
    <3> DEFINE rung == [i \in missing |-> orders[i].rung]
               T == {orders[i].rung : i \in missing}
    <3> HIDE DEF missing
    <3>1. rung \in Surjection(missing, T)
      BY DEF Surjection
    <3> HIDE DEF rung
    <3> QED
      BY <1>5, <3>1, FS_Surjection
  <2> DEFINE all == {orders[i].rung : i \in missing}
  <2>2. again \in SUBSET all
    OBVIOUS
  <2> HIDE DEF again
  <2> QED
    BY <2>1, <2>2, FS_Subset
<1>7. Believed([r EXCEPT !.ladder = S], orders)
  <2> HIDE DEF S, r
  <2> QED
    BY <1>4, <1>5, TradeLadder
<1> DEFINE s == [r EXCEPT !.ladder = S]
<1>8. trades' = With(It, s) /\ Believed(s, orders)
  BY <1>2, <1>7
<1> HIDE DEF s, r, missing, again, S
<1>9. TasksOK(todo', DOMAIN journal, orders')
  BY <1>1, <1>2, <1>3, <1>6, RestFound, TasksPlace, TasksConcat
<1> QED
  BY <1>1, <1>2, <1>3, <1>8, <1>9, WithStep

-----------------------------------------------------------------------------
(* Closes and fills *)

LEMMA LeastNumber ==
    ASSUME NEW T, T \subseteq Nat, T /= {}
    PROVE  Min(T) \in T
<1> DEFINE Smaller == {pair \in Nat \X Nat : pair[1] < pair[2]}
<1>1. IsWellFoundedOn(Smaller, Nat)
  BY NatLessThanWellFounded, Zenon DEF OpToRel
<1> HIDE DEF Smaller
<1>2. PICK x \in T : \A y \in T : ~(<<y, x>> \in Smaller)
  BY <1>1, WFMin
<1>3. \A y \in T : x <= y
  <2> SUFFICES ASSUME NEW y \in T PROVE x <= y
    OBVIOUS
  <2>1. ~(<<y, x>> \in Smaller)
    BY <1>2
  <2> QED BY <2>1 DEF Smaller
<1> QED BY <1>3 DEF Min

LEMMA LeftoverOK ==
    ASSUME IInv, todo /= <<>>, NEW ids
    PROVE  Extends(orders, orders') => TasksOK(<<Leftover(ids)>> \o Rest, DOMAIN journal, orders')
<1>1. Plain(Leftover(ids))
  BY DEF Plain, Leftover, Task
<1> QED
  BY <1>1, RestFound, TasksPlain, TasksConcat

LEMMA RecordFillKeeps ==
    ASSUME IInv, Calm, entries' = entries, orders' = orders, NEW t \in Tracked, NEW id, NEW q,
           RecordFill(t, id, q)
    PROVE  IInv'
<1> DEFINE r == trades[t]
           s == [r EXCEPT !.size = @ - q]
<1>1. OrdersOK(orders) /\ todo /= <<>>
  BY DEF IInv, Calm
<1>2. /\ setup' = setup /\ journal' = journal
      /\ \/ trades' = With(t, s) /\ todo' = Rest
         \/ trades' = Without(t) /\ todo' = <<Leftover(OthersThan(id, r))>> \o Rest
  BY DEF RecordFill, Step
<1>3. Extends(orders, orders')
  BY <1>1, SameExtends
<1>4. Believed(s, orders)
  <2>1. Believed(r, orders)
    BY FoundBelieved
  <2> HIDE DEF r
  <2> QED
    BY <2>1, TradeSize
<1> HIDE DEF s, r
<1>5. TasksOK(todo', DOMAIN journal, orders')
  BY <1>1, <1>2, <1>3, RestFound, LeftoverOK
<1> QED
  BY <1>2, <1>3, <1>4, <1>5, WithStep, WithoutStep

LEMMA CloseTradeStep == ASSUME IInv, CloseTrade PROVE IInv'
<1>1. Calm /\ OrdersOK(orders) /\ todo /= <<>> /\ It \in Tracked
  BY DEF CloseTrade, Doing, Calm, IInv
<1>2. /\ setup' = setup /\ journal' = journal /\ entries' = entries /\ orders' = orders
      /\ \/ trades' = Without(It) /\ todo' = CancelTasks(trades[It]) \o Rest
         \/ trades' = trades /\ todo' = Rest
  BY DEF CloseTrade, Call, Step, MarketReduce, venueVars
<1>3. Extends(orders, orders')
  BY <1>1, <1>2, SameExtends
<1>4. TasksOK(CancelTasks(trades[It]), DOMAIN journal, orders') /\ TasksOK(Rest, DOMAIN journal, orders')
  BY <1>1, <1>3, RestFound, FoundTrade, TasksCancel
<1>5. CASE trades' = Without(It) /\ todo' = CancelTasks(trades[It]) \o Rest
  BY <1>1, <1>2, <1>3, <1>4, <1>5, TasksConcat, WithoutStep
<1>6. CASE trades' = trades /\ todo' = Rest
  BY <1>1, <1>2, <1>6, OnlyRest
<1> QED
  BY <1>2, <1>5, <1>6

LEMMA OfflineFillStep == ASSUME IInv, SettleOfflineFill PROVE IInv'
<1>1. Calm /\ It \in Tracked
  BY DEF SettleOfflineFill, Adopting, Doing, Calm
<1>2. /\ orders' = orders /\ entries' = entries
      /\ (\E id, q : RecordFill(It, id, q)) \/ Step(trades, Rest)
  <2> DEFINE id == IF Doing("old_sl") THEN trades[It].slId ELSE trades[It].tpId
  <2>1. RecordFill(It, id, snap.done[id]) \/ Step(trades, Rest)
    BY DEF SettleOfflineFill
  <2> HIDE DEF id
  <2> QED
    BY <2>1 DEF SettleOfflineFill, venueVars
<1>3. CASE Step(trades, Rest)
  BY <1>1, <1>2, <1>3, OnlyRest DEF Step
<1> QED
  BY <1>1, <1>2, <1>3, RecordFillKeeps

LEMMA ThinnerLadder ==
    ASSUME NEW r, Believed(r, orders), NEW id
    PROVE  Believed([r EXCEPT !.ladder = r.ladder \ {id}], orders)
<1> DEFINE S == r.ladder \ {id}
<1>1. S \in SUBSET r.ladder /\ IsFiniteSet(r.ladder)
  BY DEF Believed, TradeOK
<1> HIDE DEF S
<1>2. IsFiniteSet(S)
  BY <1>1, FS_Subset
<1>3. Believed([r EXCEPT !.ladder = S], orders)
  BY <1>2, TradeLadder
<1> QED
  BY <1>3 DEF S

LEMMA OfflineLadderStep == ASSUME IInv, SettleOfflineLadder PROVE IInv'
<1> DEFINE r == trades[It]
           i == Head(Arg)
           more == <<Task("old_ladder", It, Tail(Arg))>> \o Rest
           s == [r EXCEPT !.ladder = r.ladder \ {i}]
<1>1. Calm /\ It \in Tracked /\ todo /= <<>> /\ OrdersOK(orders)
  BY DEF SettleOfflineLadder, Adopting, Doing, Calm, IInv
<1>2. /\ orders' = orders /\ entries' = entries
      /\ \/ Step(trades, Rest)
         \/ Settle(It, s, orders[i].rung, snap.done[i], more)
         \/ Step(trades, more)
  BY DEF SettleOfflineLadder, venueVars
<1>3. Extends(orders, orders')
  BY <1>1, <1>2, SameExtends
<1>4. Plain(Task("old_ladder", It, Tail(Arg)))
  BY DEF Plain, Task
<1>5. TasksOK(more, DOMAIN journal, orders')
  BY <1>1, <1>3, <1>4, RestFound, TasksPlain, TasksConcat
<1>6. Believed(s, orders)
  <2>1. Believed(r, orders)
    BY <1>1, FoundBelieved
  <2> HIDE DEF r, i
  <2> QED
    BY <2>1, ThinnerLadder
<1> HIDE DEF r, i, more, s
<1>7. CASE Step(trades, Rest)
  BY <1>1, <1>2, <1>7, OnlyRest DEF Step
<1>8. CASE Step(trades, more)
  BY <1>1, <1>2, <1>3, <1>5, <1>8, OnlyTasks DEF Step, IInv
<1>9. CASE Settle(It, s, orders[i].rung, snap.done[i], more)
  BY <1>1, <1>2, <1>3, <1>5, <1>6, <1>9, SettleKeeps
<1> QED
  BY <1>2, <1>7, <1>8, <1>9

LEMMA FillStep == ASSUME IInv, ProcessFill PROVE IInv'
<1> DEFINE id == Head(feed).id
           q == Head(feed).qty
           owners == {t \in Tracked : id \in ToSet(Protective(trades[t]))}
           t == Min(owners)
           r == trades[t]
           s == [r EXCEPT !.ladder = r.ladder \ {id}]
<1>1. Calm /\ todo /= <<>> /\ OrdersOK(orders)
  BY DEF ProcessFill, Doing, Calm, IInv
<1>2. /\ orders' = orders /\ entries' = entries
      /\ \/ Step(trades, Rest)
         \/ owners /= {} /\ (Settle(t, s, orders[id].rung, q, Rest) \/ RecordFill(t, id, q))
  BY DEF ProcessFill
<1>3. CASE Step(trades, Rest)
  BY <1>1, <1>2, <1>3, OnlyRest DEF Step
<1>4. CASE owners /= {} /\ (Settle(t, s, orders[id].rung, q, Rest) \/ RecordFill(t, id, q))
  <2>1. t \in Tracked
    <3>1. owners \subseteq Tracked /\ Tracked \subseteq Nat
      BY DEF IInv, BelievedOrInHand, BookOK, Tracked
    <3> HIDE DEF owners
    <3>2. t \in owners
      BY <1>4, <3>1, LeastNumber
    <3> QED
      BY <3>1, <3>2
  <2>2. Believed(s, orders)
    <3> HIDE DEF t, id
    <3>1. Believed(r, orders)
      BY <1>1, <2>1, FoundBelieved
    <3> HIDE DEF r
    <3> QED
      BY <3>1, ThinnerLadder
  <2>3. Extends(orders, orders')
    BY <1>1, <1>2, SameExtends
  <2>4. TasksOK(Rest, DOMAIN journal, orders')
    BY <1>1, <2>3, RestFound
  <2> HIDE DEF t, s, id, q, owners
  <2>5. CASE Settle(t, s, orders[id].rung, q, Rest)
    BY <1>1, <1>2, <2>2, <2>3, <2>4, <2>5, SettleKeeps
  <2>6. CASE RecordFill(t, id, q)
    BY <1>1, <1>2, <2>1, <2>6, RecordFillKeeps
  <2> QED
    BY <1>4, <2>5, <2>6
<1> QED
  BY <1>2, <1>3, <1>4

LEMMA CoverStep == ASSUME IInv, CoverByNet PROVE IInv'
<1> DEFINE r == trades[It]
           take == Least(r.size, snap.net)
           s == [r EXCEPT !.size = take]
<1>1. Calm /\ OrdersOK(orders) /\ todo /= <<>> /\ It \in Tracked
  BY DEF CoverByNet, Adopting, Doing, Calm, IInv
<1>2. /\ setup' = setup /\ journal' = journal /\ entries' = entries /\ orders' = orders
      /\ \/ trades' = Without(It) /\ todo' = <<Leftover(Protective(r))>> \o Rest
         \/ trades' = With(It, s) /\ todo' = Rest
  BY DEF CoverByNet, Step, venueVars
<1>3. Extends(orders, orders')
  BY <1>1, <1>2, SameExtends
<1>4. Believed(s, orders)
  <2>1. Believed(r, orders)
    BY <1>1, FoundBelieved
  <2> HIDE DEF r, take
  <2> QED
    BY <2>1, TradeSize
<1> HIDE DEF s, r, take
<1>5. TasksOK(todo', DOMAIN journal, orders')
  BY <1>1, <1>2, <1>3, RestFound, LeftoverOK
<1> QED
  BY <1>1, <1>2, <1>3, <1>4, <1>5, WithStep, WithoutStep

LEMMA RepairStep == ASSUME IInv, RepairStop PROVE IInv'
<1> DEFINE r == trades[It]
           s == [r EXCEPT !.slId = None]
<1>1. Calm /\ OrdersOK(orders) /\ todo /= <<>> /\ It \in Tracked
  BY DEF RepairStop, Adopting, Doing, Calm, IInv
<1>2. /\ setup' = setup /\ journal' = journal /\ entries' = entries /\ orders' = orders
      /\ \/ trades' = With(It, s) /\ todo' = <<Task("resync", It, <<>>)>> \o Rest
         \/ trades' = trades /\ todo' = Rest
  BY DEF RepairStop, Step, venueVars
<1>3. CASE trades' = With(It, s) /\ todo' = <<Task("resync", It, <<>>)>> \o Rest
  <2>1. Extends(orders, orders') /\ entries' \in Nat
    BY <1>1, <1>2, SameExtends DEF IInv
  <2>2. AllBelieved(trades, orders') /\ TasksOK(Rest, DOMAIN journal, orders')
    BY <1>1, <2>1, StepFinds DEF Calm
  <2>3. /\ Plain(Task("resync", It, <<>>)) /\ Task("resync", It, <<>>).op = "resync"
        /\ Task("resync", It, <<>>).t = It
    BY DEF Plain, Task
  <2>4. InHand(It, todo')
    BY <1>3, <2>2, <2>3, FirstTask DEF InHand, TasksOK
  <2>5. TradeOK(s)
    <3>1. TradeOK(r)
      BY <1>1, FoundTrade
    <3> HIDE DEF r
    <3> QED
      BY <3>1 DEF TradeOK
  <2> HIDE DEF s
  <2>6. BelievedOrInHand(trades', todo', orders')
    BY <1>3, <2>2, <2>4, <2>5, BookWithInHand DEF With
  <2>7. TasksOK(todo', DOMAIN journal, orders')
    BY <1>3, <2>2, <2>3, TasksPlain, TasksConcat
  <2> QED
    BY <1>2, <2>1, <2>6, <2>7, StepLeaves
<1>4. CASE trades' = trades /\ todo' = Rest
  BY <1>1, <1>2, <1>4, OnlyRest
<1> QED
  BY <1>2, <1>3, <1>4

LEMMA TasksAllPlain ==
    ASSUME NEW X, \A x \in X : Plain(x), NEW a \in Seq(X), NEW ids, NEW os
    PROVE  TasksOK(a, ids, os)
<1>1. IsSeq(a) /\ \A i \in 1..Len(a) : a[i] \in X
  BY SeqIs
<1>2. \A i \in 1..Len(a) : TaskOK(a[i], ids, os)
  BY <1>1 DEF Plain, TaskOK
<1> QED
  BY <1>1, <1>2 DEF TasksOK

LEMMA AdoptStep == ASSUME IInv, Adopt PROVE IInv'
<1> DEFINE r == journal[It]
           a1 == Task("old_ladder", It, ByLevel(r))
           a2 == Task("old_sl", It, <<>>)
           a3 == Task("old_tp", It, <<>>)
           a4 == Task("cover", It, <<>>)
           a5 == Task("repair", It, <<>>)
           a6 == Task("rearm", It, <<>>)
           a7 == Task("replace", It, <<>>)
           first == <<a1, a2, a3, a4, a5, a6, a7>>
<1>1. Calm /\ OrdersOK(orders) /\ todo /= <<>> /\ Head(todo).op = "adopt"
  BY DEF Adopt, Doing, Calm, IInv
<1>2. /\ setup' = setup /\ journal' = journal /\ entries' = entries /\ orders' = orders
      /\ trades' = Also(It, r) /\ todo' = first \o Rest
  BY DEF Adopt, Step, Local, venueVars
<1>3. Extends(orders, orders')
  BY <1>1, <1>2, SameExtends
<1>4. It \in DOMAIN journal
  <2>1. TaskOK(Head(todo), DOMAIN journal, orders')
    BY <1>1, <1>3, StepFinds
  <2> QED
    BY <1>1, <2>1 DEF TaskOK, It
<1>5. It \in Nat /\ Believed(r, orders')
  <2>1. AllBelieved(journal, orders')
    BY <1>1, <1>3, StepFinds
  <2> QED
    BY <1>4, <2>1 DEF AllBelieved, BookOK
<1>6. \A x \in {a1, a2, a3, a4, a5, a6, a7} : Plain(x)
  <2>1. Plain(a1) /\ Plain(a2) /\ Plain(a3) /\ Plain(a4) /\ Plain(a5) /\ Plain(a6) /\ Plain(a7)
    BY DEF Plain, Task
  <2> HIDE DEF a1, a2, a3, a4, a5, a6, a7
  <2> QED
    BY <2>1
<1> HIDE DEF r, a1, a2, a3, a4, a5, a6, a7
<1>7. first \in Seq({a1, a2, a3, a4, a5, a6, a7})
  OBVIOUS
<1> HIDE DEF first
<1>8. TasksOK(first, DOMAIN journal, orders')
  BY <1>6, <1>7, TasksAllPlain
<1>9. TasksOK(todo', DOMAIN journal, orders')
  BY <1>1, <1>2, <1>3, <1>8, RestFound, TasksConcat
<1> QED
  BY <1>1, <1>2, <1>3, <1>5, <1>9, AlsoStep

LEMMA PlanFinite == ASSUME IInv PROVE IsFiniteSet(LadderPlan)
<1>1. setup.fractions \in Seq(0..setup.size)
  BY SetupsAssumption DEF IInv
<1>2. Len(Fractions) \in Nat /\ Levels = 1..Len(Fractions)
  BY <1>1 DEF Fractions, Levels
<1>3. IsFiniteSet(Levels)
  BY <1>2, FS_Interval
<1>4. LadderPlan \in SUBSET Levels
  BY DEF LadderPlan
<1> QED
  BY <1>3, <1>4, FS_Subset

LEMMA AttachTakeProfitStep == ASSUME IInv, AttachTakeProfit PROVE IInv'
<1> DEFINE o == Order(It, "tp", 0, Size)
<1>1. Calm /\ OrdersOK(orders) /\ todo /= <<>> /\ Head(todo).op = "attach_tp"
  BY DEF AttachTakeProfit, Doing, Calm, IInv
<1>2. /\ setup' = setup /\ journal' = journal /\ entries' = entries
      /\ PlaceOrder(o) \/ orders' = orders
      /\ todo' = PlaceTasks(It, LadderPlan) \o Rest
      /\ \E tpId : trades' = Also(It, Opened(Head(Arg), tpId))
  BY DEF AttachTakeProfit, Call, Step, venueVars
<1>3. Extends(orders, orders')
  BY <1>1, <1>2, PlacedExtends, SameExtends
<1>4. It \in Nat /\ StopAt(Head(Arg), -1, orders')
  <2>1. TaskOK(Head(todo), DOMAIN journal, orders')
    BY <1>1, <1>3, StepFinds
  <2> QED
    BY <1>1, <2>1 DEF TaskOK, It, Arg
<1>5. PICK tpId : trades' = Also(It, Opened(Head(Arg), tpId))
  BY <1>2
<1> DEFINE r == Opened(Head(Arg), tpId)
<1>6. Believed(r, orders')
  <2>1. /\ r = [size |-> r.size, hits |-> r.hits, sl |-> r.sl, slId |-> r.slId, tpId |-> r.tpId,
                ladder |-> r.ladder, free |-> r.free, pending |-> r.pending]
        /\ r.ladder = {} /\ r.sl = -1 /\ r.slId = Head(Arg)
    BY DEF Opened
  <2>2. r.pending \in BOOLEAN
    BY DEF Opened
  <2> HIDE DEF r
  <2> QED
    BY <1>4, <2>1, <2>2, FS_EmptySet DEF Believed, TradeOK
<1>7. TasksOK(todo', DOMAIN journal, orders')
  BY <1>1, <1>2, <1>3, PlanFinite, RestFound, TasksPlace, TasksConcat
<1> HIDE DEF r, o
<1>8. trades' = Also(It, r)
  BY <1>5 DEF r
<1> QED
  BY <1>1, <1>2, <1>3, <1>4, <1>6, <1>7, <1>8, AlsoStep

LEMMA ReconcileStep == ASSUME IInv, Reconcile PROVE IInv'
<1> DEFINE short == TrackedSize - net
           gone == {t \in Tracked : ManualTake(t, short) = trades[t].size}
           kept(t) == [trades[t] EXCEPT !.size = @ - ManualTake(t, short)]
           left(k) == Leftover(Protective(trades[Ascending(gone)[k]]))
           first == [k \in 1..Cardinality(gone) |-> left(k)]
<1>1. Calm /\ OrdersOK(orders) /\ todo /= <<>>
  BY DEF Reconcile, Doing, Calm, IInv
<1>2. /\ setup' = setup /\ journal' = journal /\ entries' = entries /\ orders' = orders
      /\ \/ trades' = [t \in Tracked \ gone |-> kept(t)] /\ todo' = first \o Rest
         \/ trades' = trades /\ todo' = Rest
  BY DEF Reconcile, venueVars
<1>3. Extends(orders, orders') /\ entries' \in Nat
  BY <1>1, <1>2, SameExtends DEF IInv
<1>4. AllBelieved(trades, orders')
  BY <1>1, <1>3, StepFinds DEF Calm
<1>5. \A t \in Tracked : Believed(kept(t), orders')
  <2> TAKE t \in Tracked
  <2>1. Believed(trades[t], orders')
    BY <1>4 DEF AllBelieved, Tracked
  <2> DEFINE x == trades[t].size - ManualTake(t, short)
  <2>2. Believed([trades[t] EXCEPT !.size = x], orders')
    <3> HIDE DEF x
    <3> QED
      BY <2>1, TradeSize
  <2> QED
    BY <2>2
<1>6. gone \in SUBSET Tracked
  OBVIOUS
<1>7. \A k : Plain(left(k))
  BY DEF Plain, Leftover, Task
<1> HIDE DEF gone, kept, left
<1>8. CASE trades' = [t \in Tracked \ gone |-> kept(t)] /\ todo' = first \o Rest
  <2>1. BookOK(trades')
    <3>1. DOMAIN trades' = Tracked \ gone
      BY <1>8
    <3>2. IsFiniteSet(Tracked) /\ Tracked \subseteq Nat
      BY <1>4 DEF AllBelieved, BookOK, Tracked
    <3>3. (Tracked \ gone) \in SUBSET Tracked
      OBVIOUS
    <3>4. IsFiniteSet(Tracked \ gone)
      BY <3>2, <3>3, FS_Subset
    <3> QED
      BY <3>1, <3>2, <3>4 DEF BookOK
  <2>2. AllBelieved(trades', orders')
    <3>1. \A t \in DOMAIN trades' : t \in Tracked /\ trades'[t] = kept(t)
      BY <1>8
    <3> QED
      BY <1>5, <2>1, <3>1 DEF AllBelieved
  <2>3. Cardinality(gone) \in Nat
    BY <1>6, BooksFinite, FS_CardinalityType
  <2>4. first = [k \in 1..Cardinality(gone) |-> first[k]]
    OBVIOUS
  <2>5. \A k \in 1..Cardinality(gone) : TaskOK(first[k], DOMAIN journal, orders')
    BY <1>7 DEF TaskOK, Plain
  <2> HIDE DEF first
  <2>6. TasksOK(first, DOMAIN journal, orders')
    BY <2>3, <2>4, <2>5, TasksMade
  <2>7. TasksOK(todo', DOMAIN journal, orders')
    BY <1>1, <1>3, <1>8, <2>6, RestFound, TasksConcat
  <2> QED
    BY <1>2, <1>3, <2>2, <2>7, BookWhole, StepLeaves
<1>9. CASE trades' = trades /\ todo' = Rest
  BY <1>1, <1>2, <1>9, OnlyRest
<1> QED
  BY <1>2, <1>8, <1>9

LEMMA FlushStep == ASSUME IInv, Flush PROVE IInv'
<1>1. Calm /\ OrdersOK(orders)
  BY DEF Flush, Doing, Calm, IInv
<1>2. /\ setup' = setup /\ journal' = trades /\ entries' = entries /\ orders' = orders
      /\ trades' = trades /\ todo' = <<>>
  BY DEF Flush, venueVars
<1>3. AllBelieved(trades, orders)
  BY <1>1, BookCalm DEF IInv, Calm
<1>4. AllBelieved(journal', orders') /\ BelievedOrInHand(trades', todo', orders')
  BY <1>2, <1>3, BookWhole
<1>5. TasksOK(todo', DOMAIN journal', orders')
  BY <1>2, TasksNone
<1> QED
  BY <1>1, <1>2, <1>4, <1>5 DEF IInv

-----------------------------------------------------------------------------
(* A new item, a restart, and the world *)

\* Nothing is in hand when an item begins: what begins is a list of plain tasks.
LEMMA Begins ==
    ASSUME IInv, todo = <<>>, setup' = setup, journal' = journal, entries' = entries,
           orders' = orders, trades' = trades, TasksOK(todo', DOMAIN journal, orders')
    PROVE  IInv'
<1>1. AllBelieved(trades, orders) /\ OrdersOK(orders) /\ entries' \in Nat
  BY BookCalm DEF IInv
<1>2. Extends(orders, orders') /\ AllBelieved(trades', orders')
  BY <1>1, SameExtends
<1> QED
  BY <1>1, <1>2, BookWhole, StepLeaves

Stages == {Stage("retry"), Stage("free"), Stage("raise"), Stage("levels"), Stage("exit"), Stage("enter"),
           Stage("reconcile"), Stage("flush"), Stage("fill"), Stage("read_net"),
           Stage("read_orders"), Stage("read_fills")}

LEMMA StagesPlain == ASSUME NEW a \in Seq(Stages), NEW ids, NEW os PROVE TasksOK(a, ids, os)
<1>1. \A x \in Stages : Plain(x)
  BY DEF Stages, Plain, Stage, Task
<1> QED
  BY <1>1, TasksAllPlain

LEMMA ItemKeeps == ASSUME IInv, NEW a \in Seq(Stages), Item(a) PROVE IInv'
<1>1. /\ todo = <<>> /\ setup' = setup /\ journal' = journal /\ entries' = entries
      /\ orders' = orders /\ trades' = trades /\ todo' = a
  BY DEF Item, venueVars
<1>2. TasksOK(todo', DOMAIN journal, orders')
  BY <1>1, StagesPlain
<1> QED
  BY <1>1, <1>2, Begins

LEMMA ItemSteps == ASSUME IInv, Candle \/ Forming \/ UserData \/ PollItem PROVE IInv'
<1>1. /\ Stage("retry") \in Stages /\ Stage("free") \in Stages /\ Stage("raise") \in Stages /\ Stage("levels") \in Stages
      /\ Stage("exit") \in Stages /\ Stage("enter") \in Stages /\ Stage("reconcile") \in Stages
      /\ Stage("flush") \in Stages /\ Stage("fill") \in Stages
  BY DEF Stages
<1> HIDE DEF Stages
<1>2. <<Stage("retry"), Stage("free"), Stage("raise"), Stage("levels"),
        Stage("exit"), Stage("enter"), Stage("reconcile"), Stage("flush")>> \in Seq(Stages)
  BY <1>1
<1>3. <<Stage("levels"), Stage("exit"), Stage("enter"), Stage("flush")>> \in Seq(Stages)
  BY <1>1
<1>4. <<Stage("fill"), Stage("flush")>> \in Seq(Stages)
  BY <1>1
<1>5. <<Stage("reconcile"), Stage("flush")>> \in Seq(Stages)
  BY <1>1
<1>6. CASE Candle
  BY <1>2, <1>6, ItemKeeps DEF Candle
<1>7. CASE Forming
  BY <1>3, <1>7, ItemKeeps DEF Forming
<1>8. CASE UserData
  BY <1>4, <1>8, ItemKeeps DEF UserData
<1>9. CASE PollItem
  BY <1>5, <1>9, ItemKeeps DEF PollItem
<1> QED
  BY <1>6, <1>7, <1>8, <1>9

\* A process that is down has nothing to do.
DownInv == mode = "down" => todo = <<>>

LEMMA RestartStep == ASSUME IInv, DownInv, Restart PROVE IInv'
<1>1. /\ todo = <<>> /\ setup' = setup /\ journal' = journal /\ entries' = entries
      /\ orders' = orders /\ trades' = trades
      /\ todo' = <<Stage("read_net"), Stage("read_orders"), Stage("read_fills")>>
  BY DEF Restart, venueVars, DownInv
<1>2. Stage("read_net") \in Stages /\ Stage("read_orders") \in Stages /\ Stage("read_fills") \in Stages
  BY DEF Stages
<1>3. todo' \in Seq(Stages)
  <2> HIDE DEF Stages
  <2> QED
    BY <1>1, <1>2
<1>4. TasksOK(todo', DOMAIN journal, orders')
  BY <1>3, StagesPlain
<1> QED
  BY <1>1, <1>4, Begins

\* The venue's side moves while the worker's stands still.
LEMMA VenueMoves ==
    ASSUME IInv, Extends(orders, orders'), setup' = setup, journal' = journal, entries' = entries,
           trades' = trades, todo' = todo
    PROVE  IInv'
<1>1. IsSeq(orders) /\ entries' \in Nat
  BY DEF IInv, OrdersOK
<1>2. BelievedOrInHand(trades, todo, orders')
  BY <1>1, BeliefGrows DEF IInv, BelievedOrInHand
<1>3. TasksOK(todo, DOMAIN journal, orders')
  BY <1>1, TasksGrow DEF IInv
<1> QED
  BY <1>1, <1>2, <1>3, StepLeaves

LEMMA FillExtends == ASSUME OrdersOK(orders), NEW i, NEW seen, FillOrder(i, seen) PROVE Extends(orders, orders')
<1> DEFINE q == Least(orders[i].qty, net)
           st == IF q = 0 THEN "expired" ELSE "filled"
<1>1. orders' = [orders EXCEPT ![i].st = st, ![i].done = q]
  BY DEF FillOrder
<1> HIDE DEF q, st
<1>2. Extends(orders, [orders EXCEPT ![i].st = st, ![i].done = q])
  BY OrdersFilled
<1> QED
  BY <1>1, <1>2

LEMMA CrashStep == ASSUME IInv, Crash PROVE IInv'
<1>1. /\ setup' = setup /\ journal' = journal /\ entries' = entries /\ orders' = orders
      /\ trades' = <<>> /\ todo' = <<>>
  BY DEF Crash
<1>2. Extends(orders, orders') /\ entries' \in Nat
  BY <1>1, SameExtends DEF IInv
<1>3. AllBelieved(trades', orders')
  <2>1. DOMAIN trades' = {}
    BY <1>1
  <2> QED
    BY <2>1, FS_EmptySet DEF AllBelieved, BookOK
<1>4. TasksOK(todo', DOMAIN journal, orders')
  BY <1>1, TasksNone
<1> QED
  BY <1>1, <1>2, <1>3, <1>4, BookWhole, StepLeaves

LEMMA WorldStep == ASSUME IInv, DownInv, World PROVE IInv'
<1>1. OrdersOK(orders)
  BY DEF IInv
<1>2. CASE VenueFill
  <2>1. /\ setup' = setup /\ journal' = journal /\ entries' = entries
        /\ trades' = trades /\ todo' = todo
    BY <1>2 DEF VenueFill
  <2>2. \E i, seen : FillOrder(i, seen)
    BY <1>2 DEF VenueFill
  <2> QED
    BY <1>1, <2>1, <2>2, FillExtends, VenueMoves
<1>3. CASE ManualReduce
  <2>1. /\ setup' = setup /\ journal' = journal /\ entries' = entries
        /\ trades' = trades /\ todo' = todo /\ orders' = orders
    BY <1>3 DEF ManualReduce, MarketReduce
  <2> QED
    BY <1>1, <2>1, SameExtends, VenueMoves
<1>4. CASE UserCancel
  <2>1. /\ setup' = setup /\ journal' = journal /\ entries' = entries
        /\ trades' = trades /\ todo' = todo
    BY <1>4 DEF UserCancel
  <2>2. \E i : CancelOrder(i)
    BY <1>4 DEF UserCancel
  <2> QED
    BY <1>1, <2>1, <2>2, CancelExtends, VenueMoves
<1> QED
  BY <1>2, <1>3, <1>4, CrashStep, RestartStep DEF World

LEMMA WorkStep == ASSUME IInv, Work PROVE IInv'
BY EnterStep, AttachStopStep, EmergencyStep, AttachTakeProfitStep, PlaceLevelStep, CancelOneStep,
   RetryStep, SyncStopStep, BreakEvensStep, BreakEvenStep, RaiseStopsStep, RaiseStopStep, CheckLevelsStep, LevelDoneStep,
   LevelTouchedStep, SettledStopStep, ForceCloseStep, CloseTradeStep, CancelLeftoverStep, FillStep,
   ReconcileStep, FlushStep, ReadNetStep, ReadOrdersStep, ReadFillsStep, AdoptStep, SkipClosedStep,
   OfflineLadderStep, OfflineFillStep, CoverStep, RepairStep, ResyncStopStep, RearmStep, ReplaceStep
DEF Work

LEMMA StepMode ==
    /\ \A trs, tasks : Step(trs, tasks) => mode' = mode
    /\ \A trs, tasks : Local(trs, tasks) => mode' = mode
    /\ \A t, r, k, q, rest : Settle(t, r, k, q, rest) => mode' = mode
    /\ \A t, id, q : RecordFill(t, id, q) => mode' = mode
    /\ \A t, rung, ok, failed, more, less : MoveStop(t, rung, ok, failed, more, less) => mode' = mode
<1>1. \A trs, tasks : Step(trs, tasks) => mode' = mode
  BY DEF Step
<1>2. \A trs, tasks : Local(trs, tasks) => mode' = mode
  BY DEF Step, Local
<1>3. \A t, r, k, q, rest : Settle(t, r, k, q, rest) => mode' = mode
  BY DEF Step, Settle
<1>4. \A t, id, q : RecordFill(t, id, q) => mode' = mode
  BY DEF Step, RecordFill
<1>5. \A t, rung, ok, failed, more, less : MoveStop(t, rung, ok, failed, more, less) => mode' = mode
  BY DEF Step, Call, MoveStop
<1> QED
  BY <1>1, <1>2, <1>3, <1>4, <1>5

LEMMA WorkMode == ASSUME Work PROVE todo /= <<>> /\ mode' \in {mode, "up"}
<1>1. CASE Enter
  BY <1>1, StepMode DEF Enter, Doing, Call
<1>2. CASE AttachStop
  BY <1>2, StepMode DEF AttachStop, Doing, Call
<1>3. CASE EmergencyClose
  BY <1>3, StepMode DEF EmergencyClose, Doing, Call
<1>4. CASE AttachTakeProfit
  BY <1>4, StepMode DEF AttachTakeProfit, Doing, Call
<1>5. CASE PlaceLevel
  BY <1>5, StepMode DEF PlaceLevel, Doing, Call
<1>6. CASE CancelOne
  BY <1>6, StepMode DEF CancelOne, Doing, Call
<1>7. CASE RetryPending \/ BreakEvens \/ RaiseStops \/ CheckLevels \/ LevelDone \/ ForceClose
  BY <1>7, StepMode DEF RetryPending, BreakEvens, RaiseStops, CheckLevels, LevelDone, ForceClose, Doing
<1>8. CASE SyncStop \/ BreakEven \/ RaiseStop \/ SettledStop \/ ResyncStop
  BY <1>8, StepMode DEF SyncStop, BreakEven, RaiseStop, SettledStop, ResyncStop, Doing
<1>9. CASE LevelTouched
  BY <1>9, StepMode DEF LevelTouched, Doing, Call
<1>10. CASE CloseTrade
  BY <1>10, StepMode DEF CloseTrade, Doing, Call
<1>11. CASE CancelLeftover
  BY <1>11, StepMode DEF CancelLeftover, Doing, Call
<1>12. CASE ProcessFill
  BY <1>12, StepMode DEF ProcessFill, Doing
<1>13. CASE Reconcile
  BY <1>13 DEF Reconcile, Doing
<1>14. CASE Flush
  BY <1>14 DEF Flush, Doing
<1>15. CASE ReadNet \/ ReadOrders \/ ReadFills \/ Adopt \/ SkipClosed
  BY <1>15, StepMode DEF ReadNet, ReadOrders, ReadFills, Adopt, SkipClosed, Doing
<1>16. CASE SettleOfflineLadder
  BY <1>16, StepMode DEF SettleOfflineLadder, Adopting, Doing
<1>17. CASE SettleOfflineFill
  <2> DEFINE id == IF Doing("old_sl") THEN trades[It].slId ELSE trades[It].tpId
  <2>1. RecordFill(It, id, snap.done[id]) \/ Step(trades, Rest)
    BY <1>17 DEF SettleOfflineFill
  <2> HIDE DEF id
  <2> QED
    BY <1>17, <2>1, StepMode DEF SettleOfflineFill, Adopting, Doing
<1>18. CASE CoverByNet \/ RepairStop
  BY <1>18, StepMode DEF CoverByNet, RepairStop, Adopting, Doing
<1>19. CASE RearmTakeProfit
  BY <1>19, StepMode DEF RearmTakeProfit, Adopting, Doing, Call
<1>20. CASE ReplaceLadder
  BY <1>20, StepMode DEF ReplaceLadder, Adopting, Doing
<1> QED
  BY <1>1, <1>2, <1>3, <1>4, <1>5, <1>6, <1>7, <1>8, <1>9, <1>10, <1>11, <1>12, <1>13, <1>14,
     <1>15, <1>16, <1>17, <1>18, <1>19, <1>20 DEF Work

LEMMA DownStep == ASSUME DownInv, Next PROVE DownInv'
<1>1. CASE Work
  BY <1>1, WorkMode DEF DownInv
<1>2. CASE Candle \/ Forming \/ UserData \/ PollItem
  BY <1>2 DEF Candle, Forming, UserData, PollItem, Item, DownInv
<1>3. CASE VenueFill \/ ManualReduce \/ UserCancel
  BY <1>3 DEF VenueFill, ManualReduce, UserCancel, DownInv
<1>4. CASE Crash \/ Restart
  BY <1>4 DEF Crash, Restart, DownInv
<1> QED
  BY <1>1, <1>2, <1>3, <1>4 DEF Next, World

LEMMA InitHolds == Init => IInv /\ DownInv
<1> SUFFICES ASSUME Init PROVE IInv /\ DownInv
  OBVIOUS
<1>1. /\ orders = <<>> /\ mode = "up" /\ trades = <<>> /\ journal = <<>> /\ todo = <<>>
      /\ entries = 0 /\ setup \in Setups
  BY DEF Init, VenueInit
<1>2. OrdersOK(orders)
  BY <1>1, SeqNone DEF OrdersOK
<1>3. AllBelieved(trades, orders)
  <2>1. DOMAIN trades = {}
    BY <1>1
  <2> QED
    BY <2>1, FS_EmptySet DEF AllBelieved, BookOK
<1>4. AllBelieved(journal, orders) /\ BelievedOrInHand(trades, todo, orders)
  BY <1>1, <1>3, BookWhole
<1>5. TasksOK(todo, DOMAIN journal, orders)
  BY <1>1, TasksNone
<1> QED
  BY <1>1, <1>2, <1>4, <1>5 DEF IInv, DownInv

LEMMA InvStep == IInv /\ DownInv /\ [Next]_vars => IInv' /\ DownInv'
<1> SUFFICES ASSUME IInv, DownInv, [Next]_vars PROVE IInv' /\ DownInv'
  OBVIOUS
<1>1. CASE Next
  <2>1. IInv'
    BY <1>1, WorkStep, ItemSteps, WorldStep DEF Next
  <2> QED
    BY <1>1, <2>1, DownStep
<1>2. CASE UNCHANGED vars
  <2>1. /\ setup' = setup /\ journal' = journal /\ entries' = entries /\ orders' = orders
        /\ trades' = trades /\ todo' = todo /\ mode' = mode
    BY <1>2 DEF vars
  <2>2. IInv'
    BY <2>1, SameExtends, VenueMoves DEF IInv
  <2> QED
    BY <2>1, <2>2 DEF DownInv
<1> QED
  BY <1>1, <1>2

LEMMA InvShows == IInv => StopWhereBelieved
<1> SUFFICES ASSUME IInv, Idle, NEW t \in Tracked, ~trades[t].pending
             PROVE  /\ trades[t].slId /= None
                    /\ trades[t].slId \in Live => orders[trades[t].slId].rung = trades[t].sl
  BY DEF StopWhereBelieved
<1>1. AllBelieved(trades, orders)
  BY BookCalm DEF IInv, Idle
<1>2. StopAt(trades[t].slId, trades[t].sl, orders)
  BY <1>1 DEF AllBelieved, Believed, Tracked
<1>3. trades[t].slId \in 1..Len(orders) /\ orders[trades[t].slId].rung = trades[t].sl
  BY <1>2 DEF StopAt
<1>4. Len(orders) \in Nat
  BY SeqLen DEF IInv, OrdersOK
<1> QED
  BY <1>3, <1>4 DEF None

\* Whatever is refused, lost, filled, reduced by hand or crashed, and whenever: between
\* two items the stop of a trade that is not waiting for a retry was accepted by the
\* venue, and stands where the engine believes (move_stop and its callers, the journal,
\* repair_stop of the restart).
THEOREM StopsWhereBelieved == Spec => []StopWhereBelieved
<1>1. Init => IInv /\ DownInv
  BY InitHolds
<1>2. IInv /\ DownInv /\ [Next]_vars => IInv' /\ DownInv'
  BY InvStep
<1>3. IInv => StopWhereBelieved
  BY InvShows
<1> QED
  BY <1>1, <1>2, <1>3, PTL DEF Spec
=============================================================================
