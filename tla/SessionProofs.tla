---------------------------- MODULE SessionProofs ----------------------------
(***************************************************************************)
(* What a live session leaves when run returns, for every number of pairs, *)
(* positions, sessions, stops and failing writes and closes: each position *)
(* it leaves open is tracked, in the journal and in its STOP.              *)
(***************************************************************************)
EXTENDS Commands, FiniteSetTheorems, SequenceTheorems, WellFoundedInduction, TLAPS

Job == [op : {"open", "build"}, p : Pairs, arg : {{}}]
       \cup [op : {"track"}, p : Pairs, arg : Nat]
       \cup [op : {"flatten", "write"}, p : Pairs, arg : SUBSET Nat]
Book == [Pairs -> SUBSET Nat]
Reasons == {"kill switch", "signal", "telegram"}
Places == {"off", "seeding", "starting", "running", "stopping", "returned"}

TraderTypeOK ==
    /\ setup \in Setups /\ where \in Places /\ at \in Nat
    /\ jobs \in [Threads -> Seq(Job)]
    /\ held \in Book /\ tracked \in Book /\ data \in Book /\ written \in Book
    /\ started \subseteq Pairs /\ foreign \subseteq Nat /\ nextId \in Nat
    /\ budget \in [Fault -> Nat] /\ \A f \in Fault : budget[f] <= setup.faults[f]
    /\ asked \in Seq(Reasons)

\* A position has one number and one pair.
HeldInv ==
    /\ \A p \in Pairs : \A t \in held[p] : t < nextId
    /\ \A t \in foreign : t < nextId
    /\ \A p, q \in Pairs : p /= q => held[p] \cap held[q] = {}
    /\ \A p \in Pairs \ started : held[p] \cap foreign = {}

\* Until a write fails the file says what the journal in memory says.
FileInv == file = written /\ (Spent("disk") = 0 => written = data)

\* The reason is the first one asked for.
ReasonInv ==
    /\ asked = <<>> => reason = None
    /\ asked /= <<>> => reason = Head(asked) /\ reason /= None

\* Main goes through the pairs.
ControlInv ==
    /\ where \in {"seeding", "starting", "running"} => how = "joined"
    /\ where = "seeding" => at = 1 /\ started = {}
    /\ where = "starting" => at >= 1 /\ at <= setup.pairs + 1 /\ started = 1..(at - 1)
    /\ where = "running" => started = Pairs
    /\ where \in {"stopping", "returned"} /\ how = "joined" => started = Pairs /\ at <= setup.pairs

\* From the start to the return of a session that main neither aborts nor is torn out of.
Orderly == where /= "off" /\ how = "joined"

Busy(a) == jobs[a] /= <<>>
Op(a) == Head(jobs[a]).op

\* Between the steps of a task on a pair, what it tracks and what is open differ by what the
\* task has still to do.
TaskInv(a) ==
    LET p == It(a)
    IN  /\ p \in started
        /\ Op(a) \in {"build", "write"} => Tail(jobs[a]) = <<>>
        /\ Op(a) \in {"open", "track", "flatten"} => Tail(jobs[a]) = FlushState(p)
        /\ Op(a) \in {"open", "build", "write"} => tracked[p] = Ours(p)
        /\ Op(a) = "write" => Arg(a) = tracked[p]
        /\ Op(a) = "track" => Ours(p) = tracked[p] \cup {Arg(a)}
        /\ Op(a) = "flatten" =>
               /\ Ours(p) = tracked[p] \cap held[p] /\ Arg(a) \subseteq Ours(p)
               /\ IsFiniteSet(Arg(a)) /\ Cardinality(Arg(a)) <= Spent("refuse")

\* Which thread may be at work on which pair, and when.
PlaceInv(a) ==
    /\ where \in {"starting", "running", "stopping"}
    /\ where = "running" => a = Consumer(It(a)) /\ It(a) \notin ended
    /\ where \in {"starting", "stopping"} => a = Main
    /\ where = "stopping" => Op(a) \notin {"open", "track"}

AtRest(p) == \A a \in Threads : Busy(a) => It(a) /= p

WorkInv ==
    Orderly =>
        /\ \A a \in Threads : Busy(a) => TaskInv(a) /\ PlaceInv(a)
        /\ \A p \in started : AtRest(p) => tracked[p] = Ours(p) /\ data[p] = tracked[p]

Flattening(p) == Busy(Main) /\ Op(Main) = "flatten" /\ It(Main) = p

FewLeft(p) == IsFiniteSet(tracked[p]) /\ Cardinality(tracked[p]) <= Spent("refuse")

\* on_stop = "close_all", for the pairs that main has been through.
CloseInv ==
    Orderly /\ where \in {"stopping", "returned"} /\ setup.closeAll =>
        \A p \in 1..at : Flattening(p) \/ FewLeft(p)

SaidInv ==
    Orderly /\ where = "returned" =>
        /\ at = setup.pairs
        /\ \A p \in Pairs : said[p] = [reason |-> IF reason = None THEN "stop()" ELSE reason,
                                       open |-> Cardinality(tracked[p])]

SInv == /\ TraderTypeOK /\ HeldInv /\ FileInv /\ ReasonInv /\ ControlInv
        /\ WorkInv /\ CloseInv /\ SaidInv

-----------------------------------------------------------------------------
(* Operators of the model *)

LEMMA SetupFacts ==
    ASSUME setup \in Setups
    PROVE  /\ setup.pairs \in Nat /\ setup.pairs >= 1 /\ setup.closeAll \in BOOLEAN
           /\ setup.faults \in [Fault -> Nat]
BY SetupsAssumption DEF Setup

LEMMA LeastNumber ==
    ASSUME NEW T, T \subseteq Nat, T /= {}
    PROVE  Min(T) \in T
<1> DEFINE Less == {pair \in Nat \X Nat : pair[1] < pair[2]}
<1>1. IsWellFoundedOn(Less, Nat)
  BY NatLessThanWellFounded, Zenon DEF OpToRel
<1> HIDE DEF Less
<1>2. PICK x \in T : \A y \in T : ~(<<y, x>> \in Less)
  BY <1>1, WFMin
<1>3. \A y \in T : x <= y
  <2> SUFFICES ASSUME NEW y \in T PROVE x <= y
    OBVIOUS
  <2>1. ~(<<y, x>> \in Less)
    BY <1>2
  <2> QED BY <2>1 DEF Less
<1> QED BY <1>3 DEF Min

\* One element before a sequence.
LEMMA InFront ==
    ASSUME NEW S, NEW x \in S, NEW r \in Seq(S)
    PROVE  /\ <<x>> \o r \in Seq(S) /\ <<x>> \o r /= <<>>
           /\ Head(<<x>> \o r) = x /\ Tail(<<x>> \o r) = r
           /\ <<>> \o r = r
<1> DEFINE s == <<x>> \o r
<1>1. <<x>> \in Seq(S) /\ Len(<<x>>) = 1 /\ <<x>>[1] = x
  OBVIOUS
<1>2. /\ s \in Seq(S) /\ Len(s) = 1 + Len(r) /\ Len(r) \in Nat
      /\ \A i \in 1..(1 + Len(r)) : s[i] = IF i <= 1 THEN <<x>>[i] ELSE r[i - 1]
  BY <1>1, ConcatProperties, LenProperties
<1> HIDE DEF s
<1>3. s /= <<>>
  BY <1>2, EmptySeq
<1>4. Head(s) = x
  <2>1. Head(s) = s[1]
    BY <1>2, <1>3
  <2> QED BY <1>1, <1>2, <2>1
<1>5. Tail(s) = r
  <2>1. /\ Tail(s) \in Seq(S) /\ Len(Tail(s)) = Len(r)
        /\ \A i \in 1..Len(Tail(s)) : Tail(s)[i] = s[i + 1]
    BY <1>2, <1>3, HeadTailProperties
  <2>2. \A i \in 1..Len(Tail(s)) : Tail(s)[i] = r[i]
    BY <1>2, <2>1
  <2> QED BY <2>1, <2>2, SeqEqual
<1> QED BY <1>2, <1>3, <1>4, <1>5, ConcatEmptySeq DEF s

LEMMA OneJob ==
    ASSUME NEW x \in Job
    PROVE  <<x>> \in Seq(Job) /\ <<x>> /= <<>> /\ Head(<<x>>) = x /\ Tail(<<x>>) = <<>>
<1>1. <<>> \in Seq(Job)
  BY EmptySeq
<1>2. <<x>> \o <<>> = <<x>>
  <2>1. <<x>> \in Seq(Job)
    OBVIOUS
  <2> QED BY <2>1, ConcatEmptySeq
<1> QED BY <1>1, <1>2, InFront

LEMMA TaskFacts ==
    ASSUME NEW p \in Pairs, NEW n \in Nat, NEW ids \in SUBSET Nat
    PROVE  /\ \A op \in {"open", "build"} : Task(op, p, {}) \in Job
           /\ Task("track", p, n) \in Job
           /\ \A op \in {"flatten", "write"} : Task(op, p, ids) \in Job
           /\ \A op, arg : /\ Task(op, p, arg).op = op /\ Task(op, p, arg).p = p
                           /\ Task(op, p, arg).arg = arg
BY DEF Task, Job

LEMMA FlushFacts ==
    ASSUME NEW p \in Pairs
    PROVE  /\ FlushState(p) \in Seq(Job) /\ FlushState(p) /= <<>>
           /\ Head(FlushState(p)) = Task("build", p, {}) /\ Tail(FlushState(p)) = <<>>
BY TaskFacts, OneJob DEF FlushState

\* The task a thread is at.
LEMMA AtTask ==
    ASSUME TraderTypeOK, NEW a \in Threads, Busy(a)
    PROVE  /\ jobs[a] \in Seq(Job) /\ Tail(jobs[a]) \in Seq(Job) /\ Head(jobs[a]) \in Job
           /\ It(a) \in Pairs /\ Op(a) \in {"open", "track", "flatten", "build", "write"}
           /\ Op(a) = "track" => Arg(a) \in Nat
           /\ Op(a) \in {"flatten", "write"} => Arg(a) \in SUBSET Nat
<1>1. jobs[a] \in Seq(Job) /\ jobs[a] /= <<>>
  BY DEF TraderTypeOK, Busy
<1>2. Tail(jobs[a]) \in Seq(Job) /\ Head(jobs[a]) \in Job
  BY <1>1, HeadTailProperties
<1> QED BY <1>1, <1>2 DEF Job, It, Op, Arg

\* What a thread has left when its task becomes another, or is done.
LEMMA ThenFacts ==
    ASSUME TraderTypeOK, NEW a \in Threads, Busy(a), NEW x \in Job
    PROVE  /\ Then(a, <<x>>) =>
                  /\ jobs' \in [Threads -> Seq(Job)] /\ jobs'[a] /= <<>>
                  /\ Head(jobs'[a]) = x /\ Tail(jobs'[a]) = Tail(jobs[a])
                  /\ \A b \in Threads : b /= a => jobs'[b] = jobs[b]
           /\ Then(a, <<>>) =>
                  /\ jobs' \in [Threads -> Seq(Job)] /\ jobs'[a] = Tail(jobs[a])
                  /\ \A b \in Threads : b /= a => jobs'[b] = jobs[b]
<1>1. jobs \in [Threads -> Seq(Job)] /\ Tail(jobs[a]) \in Seq(Job)
  BY AtTask DEF TraderTypeOK
<1>2. /\ <<x>> \o Tail(jobs[a]) \in Seq(Job) /\ <<x>> \o Tail(jobs[a]) /= <<>>
      /\ Head(<<x>> \o Tail(jobs[a])) = x /\ Tail(<<x>> \o Tail(jobs[a])) = Tail(jobs[a])
      /\ <<>> \o Tail(jobs[a]) = Tail(jobs[a])
  BY <1>1, InFront
<1> QED BY <1>1, <1>2 DEF Then

LEMMA SpentFacts ==
    ASSUME TraderTypeOK, setup' = setup,
           UNCHANGED budget \/ \E f \in Fault : Spend(f)
    PROVE  /\ budget' \in [Fault -> Nat] /\ \A f \in Fault : budget'[f] <= setup.faults[f]
           /\ \A f \in Fault : /\ Spent(f) \in Nat /\ Spent(f)' \in Nat /\ Spent(f) <= Spent(f)'
                               /\ Spend(f) => Spent(f)' = Spent(f) + 1
                               /\ UNCHANGED budget => Spent(f)' = Spent(f)
<1>1. /\ setup.faults \in [Fault -> Nat] /\ budget \in [Fault -> Nat]
      /\ \A f \in Fault : budget[f] <= setup.faults[f]
  BY SetupFacts DEF TraderTypeOK
<1>2. ASSUME NEW g \in Fault, Spend(g)
      PROVE  /\ budget' \in [Fault -> Nat]
             /\ \A f \in Fault : budget'[f] = IF f = g THEN budget[f] - 1 ELSE budget[f]
  <2>1. budget[g] \in Nat /\ budget[g] > 0 /\ budget' = [budget EXCEPT ![g] = @ - 1]
    BY <1>1, <1>2 DEF Spend
  <2>2. budget[g] - 1 \in Nat
    BY <2>1
  <2> QED BY <1>1, <2>1, <2>2
<1>3. CASE UNCHANGED budget
  <2>1. \A f \in Fault : ~Spend(f)
    BY <1>1, <1>2, <1>3
  <2> QED BY <1>1, <1>3, <2>1 DEF Spent
<1>4. CASE \E f \in Fault : Spend(f)
  <2>1. PICK g \in Fault : Spend(g)
    BY <1>4
  <2>2. /\ budget' \in [Fault -> Nat]
        /\ \A f \in Fault : budget'[f] = IF f = g THEN budget[f] - 1 ELSE budget[f]
    BY <1>2, <2>1
  <2>3. \A f \in Fault : Spend(f) => budget'[f] = budget[f] - 1
    BY <1>2
  <2>4. budget[g] > 0
    BY <2>1 DEF Spend
  <2>5. \A f \in Fault : /\ setup.faults[f] \in Nat /\ budget[f] \in Nat /\ budget'[f] \in Nat
                         /\ budget[f] <= setup.faults[f] /\ budget'[f] <= budget[f]
    BY <1>1, <2>2, <2>4
  <2>6. budget' /= budget
    BY <1>1, <2>2, <2>4
  <2> QED BY <2>2, <2>3, <2>5, <2>6 DEF Spent
<1> QED BY <1>3, <1>4

-----------------------------------------------------------------------------
(* One thread's step *)

LEMMA TaskKept ==
    ASSUME TraderTypeOK, NEW b \in Threads, Busy(b), TaskInv(b), jobs'[b] = jobs[b],
           foreign' = foreign, It(b) \in started',
           tracked'[It(b)] = tracked[It(b)], held'[It(b)] = held[It(b)],
           Spent("refuse") \in Nat, Spent("refuse")' \in Nat, Spent("refuse") <= Spent("refuse")'
    PROVE  TaskInv(b)'
<1>1. /\ It(b)' = It(b) /\ Op(b)' = Op(b) /\ Arg(b)' = Arg(b) /\ Tail(jobs[b])' = Tail(jobs[b])
  BY DEF It, Op, Arg
<1>2. Ours(It(b))' = Ours(It(b))
  BY <1>1 DEF Ours
<1>3. FlushState(It(b))' = FlushState(It(b))
  BY <1>1 DEF FlushState, Task
<1>4. ASSUME Op(b) = "flatten"
      PROVE  /\ Ours(It(b)) = tracked[It(b)] \cap held[It(b)] /\ Arg(b) \subseteq Ours(It(b))
             /\ IsFiniteSet(Arg(b)) /\ Cardinality(Arg(b)) <= Spent("refuse")'
  <2>1. Cardinality(Arg(b)) \in Nat /\ Cardinality(Arg(b)) <= Spent("refuse")
    BY <1>4, FS_CardinalityType DEF TaskInv
  <2>2. Cardinality(Arg(b)) <= Spent("refuse")'
    BY <2>1
  <2> QED BY <1>4, <2>2 DEF TaskInv
<1> QED BY <1>1, <1>2, <1>3, <1>4 DEF TaskInv

\* Two threads are never at work on one pair of an orderly session.
LEMMA OnePairEach ==
    ASSUME WorkInv, Orderly, NEW a \in Threads, NEW b \in Threads, Busy(a), Busy(b), It(a) = It(b)
    PROVE  a = b
BY DEF WorkInv, PlaceInv

\* A step of one thread's task leaves the other pairs' books alone; it is enough to know
\* what it does to its own.
LEMMA TaskStep ==
    ASSUME SInv, NEW a \in Threads, Busy(a), NEW p, p = It(a), InThread,
           UNCHANGED budget \/ \E f \in Fault : Spend(f),
           \A b \in Threads : b /= a => jobs'[b] = jobs[b],
           \A q \in Pairs : q /= p =>
               held'[q] = held[q] /\ tracked'[q] = tracked[q] /\ data'[q] = data[q],
           Orderly /\ Busy(a)' =>
               It(a)' = p /\ TaskInv(a)' /\ (where = "stopping" => Op(a)' \notin {"open", "track"}),
           Orderly /\ ~Busy(a)' => tracked'[p] = Ours(p)' /\ data'[p] = tracked'[p],
           Orderly /\ where = "stopping" /\ ~Flattening(p)' =>
               (~Flattening(p) /\ tracked'[p] = tracked[p]) \/ FewLeft(p)'
    PROVE  ReasonInv' /\ ControlInv' /\ WorkInv' /\ CloseInv' /\ SaidInv'
<1>1. /\ UNCHANGED <<setup, session, where, at, ended, halted, reason, how, said, asked,
                     started, foreign>>
      /\ Threads' = Threads /\ Pairs' = Pairs
  BY DEF InThread, Threads, Pairs
<1>2. Spent("refuse") \in Nat /\ Spent("refuse")' \in Nat /\ Spent("refuse") <= Spent("refuse")'
  BY <1>1, SpentFacts DEF SInv, Fault
<1>3. ReasonInv' /\ ControlInv'
  BY <1>1 DEF SInv, ReasonInv, ControlInv
<1>4. p \in Pairs
  BY AtTask DEF SInv
<1>5. WorkInv'
  <2> SUFFICES ASSUME Orderly PROVE WorkInv'
    BY <1>1 DEF WorkInv, Orderly
  <2>1. TaskInv(a) /\ PlaceInv(a)
    BY DEF SInv, WorkInv
  <2>2. ASSUME NEW b \in Threads, Busy(b)', b /= a
        PROVE  TaskInv(b)' /\ PlaceInv(b)' /\ Busy(b) /\ It(b)' = It(b) /\ It(b) /= p
    <3>1. jobs'[b] = jobs[b] /\ Busy(b) /\ It(b)' = It(b) /\ Op(b)' = Op(b)
      BY <2>2 DEF Busy, It, Op
    <3>2. TaskInv(b) /\ PlaceInv(b) /\ It(b) /= p /\ It(b) \in Pairs
      BY <2>2, <3>1, OnePairEach, AtTask DEF SInv, WorkInv
    <3>3. It(b) \in started'
      BY <1>1, <3>2 DEF TaskInv
    <3>4. TaskInv(b)'
      BY <1>1, <1>2, <3>1, <3>2, <3>3, TaskKept DEF SInv
    <3>5. PlaceInv(b)'
      BY <1>1, <3>1, <3>2 DEF PlaceInv, Consumer
    <3> QED BY <3>1, <3>2, <3>4, <3>5
  <2>3. ASSUME Busy(a)' PROVE TaskInv(a)' /\ PlaceInv(a)'
    <3>1. It(a)' = p /\ TaskInv(a)' /\ (where = "stopping" => Op(a)' \notin {"open", "track"})
      BY <2>3
    <3> QED BY <1>1, <2>1, <3>1 DEF PlaceInv, Consumer
  <2>4. ASSUME NEW q \in started, AtRest(q)'
        PROVE  tracked'[q] = Ours(q)' /\ data'[q] = tracked'[q]
    <3>1. q \in Pairs
      BY DEF SInv, TraderTypeOK
    <3>2. CASE q = p
      <4>1. ~Busy(a)'
        BY <1>1, <2>3, <2>4, <3>2 DEF AtRest
      <4> QED BY <3>2, <4>1
    <3>3. CASE q /= p
      <4>1. \A b \in Threads : Busy(b) => It(b) /= q
        <5> SUFFICES ASSUME NEW b \in Threads, Busy(b), b /= a PROVE It(b) /= q
          BY <3>3
        <5>1. jobs'[b] = jobs[b]
          OBVIOUS
        <5>2. Busy(b)' /\ It(b)' = It(b)
          BY <5>1 DEF Busy, It
        <5> QED BY <1>1, <2>4, <5>2 DEF AtRest
      <4>2. tracked[q] = Ours(q) /\ data[q] = tracked[q]
        BY <4>1 DEF SInv, WorkInv, AtRest
      <4> QED BY <1>1, <3>1, <3>3, <4>2 DEF Ours
    <3> QED BY <3>2, <3>3
  <2> QED BY <1>1, <2>2, <2>3, <2>4 DEF WorkInv
<1>6. CloseInv'
  <2> SUFFICES ASSUME Orderly, where = "stopping", setup.closeAll, NEW q \in 1..at
               PROVE  Flattening(q)' \/ FewLeft(q)'
    <3>1. where /= "returned" \/ ~Orderly
      BY DEF SInv, WorkInv, PlaceInv
    <3> QED BY <1>1, <3>1 DEF CloseInv, Orderly
  <2>1. Flattening(q) \/ FewLeft(q)
    BY DEF SInv, CloseInv
  <2>2. a = Main
    BY DEF SInv, WorkInv, PlaceInv
  <2>3. q \in Pairs
    <3>1. at \in Nat /\ at <= setup.pairs /\ setup.pairs \in Nat
      BY SetupFacts DEF SInv, ControlInv, Orderly, TraderTypeOK
    <3> QED BY <3>1 DEF Pairs
  <2>4. ASSUME FewLeft(q), tracked'[q] = tracked[q] PROVE FewLeft(q)'
    <3>1. IsFiniteSet(tracked[q]) /\ Cardinality(tracked[q]) <= Spent("refuse")
      BY <2>4 DEF FewLeft
    <3>2. Cardinality(tracked[q]) \in Nat
      BY <3>1, FS_CardinalityType
    <3>3. Cardinality(tracked[q]) <= Spent("refuse")'
      BY <1>2, <3>1, <3>2
    <3> QED BY <2>4, <3>1, <3>3 DEF FewLeft
  <2>5. CASE q = p
    BY <2>1, <2>4, <2>5
  <2>6. CASE q /= p
    <3>1. ~Flattening(q) /\ tracked'[q] = tracked[q]
      BY <2>2, <2>3, <2>6 DEF Flattening
    <3> QED BY <2>1, <2>4, <3>1
  <2> QED BY <2>5, <2>6
<1>7. SaidInv'
  BY <1>1 DEF SInv, SaidInv, WorkInv, PlaceInv, Orderly
<1> QED BY <1>3, <1>5, <1>6, <1>7

LEMMA TypeFrame ==
    ASSUME TraderTypeOK, setup' = setup, where' \in Places, at' \in Nat,
           jobs' \in [Threads -> Seq(Job)],
           held' \in Book, tracked' \in Book, data' \in Book, written' \in Book,
           started' \subseteq Pairs, foreign' \subseteq Nat, nextId' \in Nat,
           UNCHANGED budget \/ \E f \in Fault : Spend(f), asked' \in Seq(Reasons)
    PROVE  TraderTypeOK'
<1>1. Pairs' = Pairs /\ Threads' = Threads
  BY DEF Pairs, Threads
<1>2. Job' = Job /\ Book' = Book
  BY <1>1 DEF Job, Book
<1>3. budget' \in [Fault -> Nat] /\ \A f \in Fault : budget'[f] <= setup.faults[f]
  BY SpentFacts
<1> QED BY <1>1, <1>2, <1>3 DEF TraderTypeOK

\* The flush that ends every item.
LEMMA Flushing ==
    ASSUME NEW a \in Threads, NEW p \in Pairs, jobs'[a] = FlushState(p),
           p \in started', tracked'[p] = Ours(p)'
    PROVE  Busy(a)' /\ It(a)' = p /\ Op(a)' = "build" /\ TaskInv(a)'
<1>1. /\ jobs'[a] /= <<>> /\ Head(jobs'[a]) = Task("build", p, {}) /\ Tail(jobs'[a]) = <<>>
  BY FlushFacts
<1>2. Busy(a)' /\ It(a)' = p /\ Op(a)' = "build"
  BY <1>1 DEF Busy, It, Op, Task
<1> QED BY <1>1, <1>2 DEF TaskInv

LEMMA SameHeld ==
    ASSUME HeldInv, UNCHANGED <<setup, held, foreign, nextId, started>>
    PROVE  HeldInv'
BY DEF HeldInv, Pairs

\* While the disk does not fail.
LEMMA SameFile ==
    ASSUME TraderTypeOK, FileInv, UNCHANGED <<setup, data, written, file>>,
           UNCHANGED budget \/ \E f \in Fault : Spend(f)
    PROVE  FileInv'
<1>1. Spent("disk") \in Nat /\ Spent("disk")' \in Nat /\ Spent("disk") <= Spent("disk")'
  BY SpentFacts DEF Fault
<1>2. Spent("disk")' = 0 => Spent("disk") = 0
  BY <1>1
<1> QED BY <1>2 DEF FileInv

\* Where main is does not change with what a thread does.
LEMMA ThreadTypes ==
    ASSUME TraderTypeOK, InThread, jobs' \in [Threads -> Seq(Job)],
           held' \in Book, tracked' \in Book, data' \in Book, written' \in Book, nextId' \in Nat,
           UNCHANGED budget \/ \E f \in Fault : Spend(f)
    PROVE  TraderTypeOK'
<1>1. /\ UNCHANGED <<setup, where, at, asked, started, foreign>>
  BY DEF InThread
<1>2. /\ where' \in Places /\ at' \in Nat /\ asked' \in Seq(Reasons)
      /\ started' \subseteq Pairs /\ foreign' \subseteq Nat /\ setup' = setup
  BY <1>1 DEF TraderTypeOK
<1> QED BY <1>2, TypeFrame

LEMMA OpenStep ==
    ASSUME SInv, NEW a \in Threads, Open(a)
    PROVE  SInv'
<1>1. /\ Busy(a) /\ Op(a) = "open" /\ nextId' = nextId + 1 /\ InThread
      /\ UNCHANGED <<tracked, data, written, file>>
  BY DEF Open, Doing, Busy, Op
<1>2. /\ UNCHANGED <<setup, session, where, at, ended, halted, reason, how, said, asked,
                     started, foreign>>
  BY <1>1 DEF InThread
<1>3. /\ nextId \in Nat /\ held \in Book /\ tracked \in Book /\ data \in Book /\ written \in Book
      /\ foreign \subseteq Nat
  BY DEF SInv, TraderTypeOK
<1>4. PICK p \in Pairs : p = It(a)
  BY <1>1, AtTask DEF SInv
<1>5. Orderly => /\ p \in started /\ Tail(jobs[a]) = FlushState(p) /\ tracked[p] = Ours(p)
                 /\ where /= "stopping"
  BY <1>1, <1>4 DEF SInv, WorkInv, TaskInv, PlaceInv
<1>6. CASE /\ held' = [held EXCEPT ![p] = @ \cup {nextId}]
           /\ Then(a, <<Task("track", p, nextId)>>)
           /\ UNCHANGED budget
  <2>1. /\ jobs' \in [Threads -> Seq(Job)] /\ jobs'[a] /= <<>>
        /\ Head(jobs'[a]) = Task("track", p, nextId) /\ Tail(jobs'[a]) = Tail(jobs[a])
        /\ \A b \in Threads : b /= a => jobs'[b] = jobs[b]
    <3>1. Task("track", p, nextId) \in Job
      BY <1>3, TaskFacts
    <3> QED BY <1>1, <1>6, <3>1, ThenFacts DEF SInv
  <2>2. /\ held' \in Book /\ held'[p] = held[p] \cup {nextId}
        /\ \A q \in Pairs : q /= p => held'[q] = held[q]
    BY <1>3, <1>6 DEF Book
  <2>3. TraderTypeOK'
    BY <1>1, <1>3, <1>6, <2>1, <2>2, ThreadTypes DEF SInv
  <2>4. nextId \notin foreign /\ \A q \in Pairs : nextId \notin held[q]
    BY <1>3 DEF SInv, HeldInv
  <2>5. HeldInv'
    <3>1. Pairs' = Pairs
      BY <1>2 DEF Pairs
    <3>2. \A q \in Pairs : \A t \in held[q] : t \in Nat /\ t < nextId
      BY <1>3 DEF SInv, HeldInv, Book
    <3>3. \A q \in Pairs : \A t \in held'[q] : t < nextId + 1
      BY <1>3, <2>2, <3>2
    <3>4. \A t \in foreign : t < nextId + 1
      BY <1>3 DEF SInv, HeldInv
    <3>5. \A q, r \in Pairs : q /= r => held'[q] \cap held'[r] = {}
      BY <2>2, <2>4 DEF SInv, HeldInv
    <3>6. \A q \in Pairs \ started : held'[q] \cap foreign = {}
      BY <2>2, <2>4 DEF SInv, HeldInv
    <3> QED BY <1>1, <1>2, <3>1, <3>3, <3>4, <3>5, <3>6 DEF HeldInv
  <2>6. Busy(a)' /\ It(a)' = p /\ Op(a)' = "track" /\ Arg(a)' = nextId
    BY <2>1 DEF Busy, It, Op, Arg, Task
  <2>7. Orderly => TaskInv(a)'
    <3> SUFFICES ASSUME Orderly PROVE TaskInv(a)'
      OBVIOUS
    <3>1. held'[p] \ foreign' = (held[p] \ foreign) \cup {nextId}
      BY <1>2, <2>2, <2>4
    <3>2. Ours(p)' = tracked'[p] \cup {nextId}
      BY <1>1, <1>5, <3>1 DEF Ours
    <3>3. Tail(jobs'[a]) = FlushState(p) /\ FlushState(p)' = FlushState(p) /\ p \in started'
      BY <1>2, <1>5, <2>1 DEF FlushState, Task
    <3> QED BY <2>6, <3>2, <3>3 DEF TaskInv
  <2>8. ReasonInv' /\ ControlInv' /\ WorkInv' /\ CloseInv' /\ SaidInv'
    BY <1>1, <1>4, <1>5, <1>6, <2>1, <2>2, <2>6, <2>7, TaskStep
  <2> QED BY <1>1, <1>2, <1>6, <2>3, <2>5, <2>8, SameFile DEF SInv
<1>7. CASE Spend("refuse") /\ Then(a, <<>>) /\ UNCHANGED held
  <2>1. /\ jobs' \in [Threads -> Seq(Job)] /\ jobs'[a] = Tail(jobs[a])
        /\ \A b \in Threads : b /= a => jobs'[b] = jobs[b]
    <3>1. Task("track", p, nextId) \in Job
      BY <1>3, TaskFacts
    <3> QED BY <1>1, <1>7, <3>1, ThenFacts DEF SInv
  <2>2. \E f \in Fault : Spend(f)
    BY <1>7 DEF Fault
  <2>3. TraderTypeOK'
    <3>1. nextId' \in Nat
      BY <1>1, <1>3
    <3> QED BY <1>1, <1>3, <1>7, <2>1, <2>2, <3>1, ThreadTypes DEF SInv
  <2>4. HeldInv'
    <3>1. Pairs' = Pairs
      BY <1>2 DEF Pairs
    <3>2. \A q \in Pairs : \A t \in held[q] : t \in Nat /\ t < nextId
      BY <1>3 DEF SInv, HeldInv, Book
    <3>3. \A t \in foreign : t \in Nat /\ t < nextId
      BY <1>3 DEF SInv, HeldInv
    <3>4. \A t \in Nat : t < nextId => t < nextId'
      BY <1>1, <1>3
    <3> QED BY <1>2, <1>7, <3>1, <3>2, <3>3, <3>4 DEF SInv, HeldInv
  <2>5. Orderly => Busy(a)' /\ It(a)' = p /\ Op(a)' = "build" /\ TaskInv(a)'
    <3> SUFFICES ASSUME Orderly PROVE Busy(a)' /\ It(a)' = p /\ Op(a)' = "build" /\ TaskInv(a)'
      OBVIOUS
    <3>1. jobs'[a] = FlushState(p) /\ p \in started' /\ tracked'[p] = Ours(p)'
      BY <1>1, <1>2, <1>5, <1>7, <2>1 DEF Ours
    <3> QED BY <3>1, Flushing
  <2>6. ReasonInv' /\ ControlInv' /\ WorkInv' /\ CloseInv' /\ SaidInv'
    BY <1>1, <1>4, <1>5, <1>7, <2>1, <2>2, <2>5, TaskStep
  <2> QED BY <1>1, <1>2, <2>2, <2>3, <2>4, <2>6, SameFile DEF SInv
<1> QED BY <1>4, <1>6, <1>7 DEF Open

LEMMA TrackStep ==
    ASSUME SInv, NEW a \in Threads, Track(a)
    PROVE  SInv'
<1>1. /\ Busy(a) /\ Op(a) = "track" /\ InThread /\ Then(a, <<>>)
      /\ UNCHANGED <<held, data, written, file, nextId, budget>>
  BY DEF Track, Doing, Busy, Op
<1>2. UNCHANGED <<setup, session, where, at, ended, halted, reason, how, said, asked,
                  started, foreign>>
  BY <1>1 DEF InThread
<1>3. /\ nextId \in Nat /\ held \in Book /\ tracked \in Book /\ data \in Book /\ written \in Book
  BY DEF SInv, TraderTypeOK
<1>4. PICK p \in Pairs : p = It(a)
  BY <1>1, AtTask DEF SInv
<1>5. PICK t \in Nat : t = Arg(a)
  BY <1>1, AtTask DEF SInv
<1>6. Orderly => /\ p \in started /\ Tail(jobs[a]) = FlushState(p)
                 /\ Ours(p) = tracked[p] \cup {t} /\ where /= "stopping"
  BY <1>1, <1>4, <1>5 DEF SInv, WorkInv, TaskInv, PlaceInv
<1>7. /\ jobs' \in [Threads -> Seq(Job)] /\ jobs'[a] = Tail(jobs[a])
      /\ \A b \in Threads : b /= a => jobs'[b] = jobs[b]
  <2>1. Task("track", p, t) \in Job
    BY TaskFacts
  <2> QED BY <1>1, <2>1, ThenFacts DEF SInv
<1>8. /\ tracked' \in Book /\ tracked'[p] = tracked[p] \cup {t}
      /\ \A q \in Pairs : q /= p => tracked'[q] = tracked[q]
  <2>1. tracked' = [tracked EXCEPT ![p] = @ \cup {t}]
    BY <1>4, <1>5 DEF Track
  <2> QED BY <1>3, <2>1 DEF Book
<1>9. TraderTypeOK'
  BY <1>1, <1>3, <1>7, <1>8, ThreadTypes DEF SInv
<1>10. Orderly => Busy(a)' /\ It(a)' = p /\ Op(a)' = "build" /\ TaskInv(a)'
  <2> SUFFICES ASSUME Orderly PROVE Busy(a)' /\ It(a)' = p /\ Op(a)' = "build" /\ TaskInv(a)'
    OBVIOUS
  <2>1. jobs'[a] = FlushState(p) /\ p \in started' /\ tracked'[p] = Ours(p)'
    BY <1>1, <1>2, <1>6, <1>7, <1>8 DEF Ours
  <2> QED BY <2>1, Flushing
<1>11. ReasonInv' /\ ControlInv' /\ WorkInv' /\ CloseInv' /\ SaidInv'
  BY <1>1, <1>4, <1>6, <1>7, <1>8, <1>10, TaskStep
<1> QED BY <1>1, <1>2, <1>9, <1>11, SameFile, SameHeld DEF SInv

\* force_close: what is still to be visited is open, tracked and not kept.
LEMMA CloseOneStep ==
    ASSUME SInv, NEW a \in Threads, CloseOne(a)
    PROVE  SInv'
<1>1. /\ Busy(a) /\ Op(a) = "flatten" /\ InThread /\ Unvisited(a) /= {}
      /\ UNCHANGED <<tracked, data, written, file, nextId>>
  BY DEF CloseOne, Doing, Busy, Op
<1>2. UNCHANGED <<setup, session, where, at, ended, halted, reason, how, said, asked,
                  started, foreign>>
  BY <1>1 DEF InThread
<1>3. /\ nextId \in Nat /\ held \in Book /\ tracked \in Book /\ data \in Book /\ written \in Book
  BY DEF SInv, TraderTypeOK
<1>4. PICK p \in Pairs : p = It(a)
  BY <1>1, AtTask DEF SInv
<1>5. PICK kept \in SUBSET Nat : kept = Arg(a)
  BY <1>1, AtTask DEF SInv
<1>6. PICK t \in Nat : t = Min(Unvisited(a)) /\ t \in tracked[p] /\ t \in held[p] /\ t \notin kept
  <2>1. Unvisited(a) = tracked[p] \ (kept \cup {t \in tracked[p] : t \notin held[p]})
    BY <1>4, <1>5 DEF Unvisited, Kept
  <2>2. tracked[p] \subseteq Nat
    BY <1>3 DEF Book
  <2>3. Unvisited(a) \subseteq Nat
    BY <2>1, <2>2
  <2>4. Min(Unvisited(a)) \in Unvisited(a)
    BY <1>1, <2>3, LeastNumber
  <2> QED BY <2>1, <2>3, <2>4
<1>7. Orderly => /\ p \in started /\ Tail(jobs[a]) = FlushState(p)
                 /\ Ours(p) = tracked[p] \cap held[p] /\ kept \subseteq Ours(p)
                 /\ IsFiniteSet(kept) /\ Cardinality(kept) <= Spent("refuse")
                 /\ where = "stopping" => a = Main
  BY <1>1, <1>4, <1>5 DEF SInv, WorkInv, TaskInv, PlaceInv
<1>8. CASE held' = [held EXCEPT ![p] = @ \ {t}] /\ UNCHANGED <<jobs, budget>>
  <2>1. /\ held' \in Book /\ held'[p] = held[p] \ {t}
        /\ \A q \in Pairs : q /= p => held'[q] = held[q]
    BY <1>3, <1>8 DEF Book
  <2>2. jobs' \in [Threads -> Seq(Job)] /\ jobs' = jobs
    BY <1>8 DEF SInv, TraderTypeOK
  <2>3. TraderTypeOK'
    BY <1>1, <1>3, <1>8, <2>1, <2>2, ThreadTypes DEF SInv
  <2>4. HeldInv'
    <3>1. Pairs' = Pairs
      BY <1>2 DEF Pairs
    <3>2. \A q \in Pairs : held'[q] \subseteq held[q]
      BY <2>1
    <3> QED BY <1>1, <1>2, <3>1, <3>2 DEF SInv, HeldInv
  <2>5. /\ Busy(a)' /\ It(a)' = p /\ Op(a)' = "flatten" /\ Arg(a)' = kept
        /\ Tail(jobs[a])' = Tail(jobs[a]) /\ Spent("refuse")' = Spent("refuse")
    BY <1>1, <1>2, <1>4, <1>5, <1>8 DEF Busy, It, Op, Arg, Spent
  <2>6. Orderly => TaskInv(a)'
    <3> SUFFICES ASSUME Orderly PROVE TaskInv(a)'
      OBVIOUS
    <3>1. Ours(p)' = Ours(p) \ {t}
      BY <1>2, <2>1 DEF Ours
    <3>2. Ours(p)' = tracked'[p] \cap held'[p] /\ kept \subseteq Ours(p)'
      BY <1>1, <1>6, <1>7, <2>1, <3>1
    <3>3. Tail(jobs[a])' = FlushState(p) /\ FlushState(p)' = FlushState(p) /\ p \in started'
      BY <1>2, <1>7, <2>5 DEF FlushState, Task
    <3>4. IsFiniteSet(kept) /\ Cardinality(kept) <= Spent("refuse")'
      BY <1>7, <2>5
    <3> QED BY <2>5, <3>2, <3>3, <3>4 DEF TaskInv
  <2>7. Orderly /\ where = "stopping" => Flattening(p)'
    BY <1>7, <2>5 DEF Flattening
  <2>8. ReasonInv' /\ ControlInv' /\ WorkInv' /\ CloseInv' /\ SaidInv'
    BY <1>1, <1>4, <1>8, <2>1, <2>5, <2>6, <2>7, TaskStep
  <2> QED BY <1>1, <1>2, <1>8, <2>3, <2>4, <2>8, SameFile DEF SInv
<1>9. CASE Spend("refuse") /\ Then(a, <<Task("flatten", p, kept \cup {t})>>) /\ UNCHANGED held
  <2> DEFINE more == kept \cup {t}
  <2>1. /\ jobs' \in [Threads -> Seq(Job)] /\ jobs'[a] /= <<>>
        /\ Head(jobs'[a]) = Task("flatten", p, more) /\ Tail(jobs'[a]) = Tail(jobs[a])
        /\ \A b \in Threads : b /= a => jobs'[b] = jobs[b]
    <3>1. Task("flatten", p, more) \in Job
      BY TaskFacts
    <3> QED BY <1>1, <1>9, <3>1, ThenFacts DEF SInv
  <2>2. \E f \in Fault : Spend(f)
    BY <1>9 DEF Fault
  <2>3. TraderTypeOK'
    BY <1>1, <1>3, <1>9, <2>1, <2>2, ThreadTypes DEF SInv
  <2>4. /\ Busy(a)' /\ It(a)' = p /\ Op(a)' = "flatten" /\ Arg(a)' = more
    BY <2>1 DEF Busy, It, Op, Arg, Task
  <2>5. Orderly => TaskInv(a)'
    <3> SUFFICES ASSUME Orderly PROVE TaskInv(a)'
      OBVIOUS
    <3>1. Ours(p)' = Ours(p)
      BY <1>2, <1>9 DEF Ours
    <3>2. Ours(p)' = tracked'[p] \cap held'[p] /\ more \subseteq Ours(p)'
      BY <1>1, <1>6, <1>7, <1>9, <3>1
    <3>3. Tail(jobs'[a]) = FlushState(p) /\ FlushState(p)' = FlushState(p) /\ p \in started'
      BY <1>2, <1>7, <2>1 DEF FlushState, Task
    <3>4. IsFiniteSet(more) /\ Cardinality(more) <= Spent("refuse")'
      <4>1. IsFiniteSet(kept) /\ Cardinality(kept) \in Nat /\ Cardinality(kept) <= Spent("refuse")
        BY <1>7, FS_CardinalityType
      <4>2. IsFiniteSet(more) /\ Cardinality(more) = Cardinality(kept) + 1
        BY <1>6, <4>1, FS_AddElement
      <4>3. Spent("refuse")' = Spent("refuse") + 1 /\ Spent("refuse") \in Nat
        BY <1>2, <1>9, <2>2, SpentFacts DEF SInv, Fault
      <4> QED BY <4>1, <4>2, <4>3
    <3> HIDE DEF more
    <3> QED BY <2>4, <3>2, <3>3, <3>4 DEF TaskInv
  <2>6. Orderly /\ where = "stopping" => Flattening(p)'
    BY <1>7, <2>4 DEF Flattening
  <2>7. ReasonInv' /\ ControlInv' /\ WorkInv' /\ CloseInv' /\ SaidInv'
    BY <1>1, <1>4, <1>9, <2>1, <2>2, <2>4, <2>5, <2>6, TaskStep
  <2> QED BY <1>1, <1>2, <1>9, <2>2, <2>3, <2>7, SameFile, SameHeld DEF SInv
<1> QED BY <1>4, <1>5, <1>6, <1>8, <1>9 DEF CloseOne, Kept

LEMMA FlattenedStep ==
    ASSUME SInv, NEW a \in Threads, Flattened(a)
    PROVE  SInv'
<1>1. /\ Busy(a) /\ Op(a) = "flatten" /\ InThread /\ Unvisited(a) = {} /\ Then(a, <<>>)
      /\ UNCHANGED <<held, data, written, file, nextId, budget>>
  BY DEF Flattened, Doing, Busy, Op
<1>2. UNCHANGED <<setup, session, where, at, ended, halted, reason, how, said, asked,
                  started, foreign>>
  BY <1>1 DEF InThread
<1>3. /\ nextId \in Nat /\ held \in Book /\ tracked \in Book /\ data \in Book /\ written \in Book
  BY DEF SInv, TraderTypeOK
<1>4. PICK p \in Pairs : p = It(a)
  BY <1>1, AtTask DEF SInv
<1>5. PICK kept \in SUBSET Nat : kept = Arg(a)
  BY <1>1, AtTask DEF SInv
<1>6. Orderly => /\ p \in started /\ Tail(jobs[a]) = FlushState(p)
                 /\ Ours(p) = tracked[p] \cap held[p] /\ kept \subseteq Ours(p)
                 /\ IsFiniteSet(kept) /\ Cardinality(kept) <= Spent("refuse")
  BY <1>1, <1>4, <1>5 DEF SInv, WorkInv, TaskInv
<1>7. /\ jobs' \in [Threads -> Seq(Job)] /\ jobs'[a] = Tail(jobs[a])
      /\ \A b \in Threads : b /= a => jobs'[b] = jobs[b]
  <2>1. Task("flatten", p, kept) \in Job
    BY TaskFacts
  <2> QED BY <1>1, <2>1, ThenFacts DEF SInv
<1>8. /\ tracked' \in Book /\ tracked'[p] = kept
      /\ \A q \in Pairs : q /= p => tracked'[q] = tracked[q]
  <2>1. tracked' = [tracked EXCEPT ![p] = kept]
    BY <1>4, <1>5 DEF Flattened, Kept
  <2> QED BY <1>3, <2>1 DEF Book
<1>9. TraderTypeOK'
  BY <1>1, <1>3, <1>7, <1>8, ThreadTypes DEF SInv
<1>10. Orderly => kept = Ours(p)
  <2>1. tracked[p] \ (kept \cup {t \in tracked[p] : t \notin held[p]}) = {}
    BY <1>1, <1>4, <1>5 DEF Unvisited, Kept
  <2> QED BY <1>6, <2>1
<1>11. Orderly => Busy(a)' /\ It(a)' = p /\ Op(a)' = "build" /\ TaskInv(a)'
  <2> SUFFICES ASSUME Orderly PROVE Busy(a)' /\ It(a)' = p /\ Op(a)' = "build" /\ TaskInv(a)'
    OBVIOUS
  <2>1. jobs'[a] = FlushState(p) /\ p \in started' /\ tracked'[p] = Ours(p)'
    BY <1>1, <1>2, <1>6, <1>7, <1>8, <1>10 DEF Ours
  <2> QED BY <2>1, Flushing
<1>12. Orderly => FewLeft(p)'
  <2>1. Spent("refuse")' = Spent("refuse")
    BY <1>1, <1>2 DEF Spent
  <2> QED BY <1>6, <1>8, <2>1 DEF FewLeft
<1>13. ReasonInv' /\ ControlInv' /\ WorkInv' /\ CloseInv' /\ SaidInv'
  BY <1>1, <1>4, <1>7, <1>8, <1>11, <1>12, TaskStep
<1> QED BY <1>1, <1>2, <1>9, <1>13, SameFile, SameHeld DEF SInv

LEMMA BuildStep ==
    ASSUME SInv, NEW a \in Threads, Build(a)
    PROVE  SInv'
<1>1. /\ Busy(a) /\ Op(a) = "build" /\ InThread
      /\ UNCHANGED <<held, tracked, data, written, file, nextId, budget>>
  BY DEF Build, Doing, Busy, Op
<1>2. UNCHANGED <<setup, session, where, at, ended, halted, reason, how, said, asked,
                  started, foreign>>
  BY <1>1 DEF InThread
<1>3. /\ nextId \in Nat /\ held \in Book /\ tracked \in Book /\ data \in Book /\ written \in Book
  BY DEF SInv, TraderTypeOK
<1>4. PICK p \in Pairs : p = It(a)
  BY <1>1, AtTask DEF SInv
<1>5. Orderly => p \in started /\ Tail(jobs[a]) = <<>> /\ tracked[p] = Ours(p)
  BY <1>1, <1>4 DEF SInv, WorkInv, TaskInv
<1>6. /\ jobs' \in [Threads -> Seq(Job)] /\ jobs'[a] /= <<>>
      /\ Head(jobs'[a]) = Task("write", p, tracked[p]) /\ Tail(jobs'[a]) = Tail(jobs[a])
      /\ \A b \in Threads : b /= a => jobs'[b] = jobs[b]
  <2>1. tracked[p] \in SUBSET Nat
    BY <1>3 DEF Book
  <2>2. Task("write", p, tracked[p]) \in Job
    BY <2>1, TaskFacts
  <2>3. Then(a, <<Task("write", p, tracked[p])>>)
    BY <1>4 DEF Build
  <2> QED BY <1>1, <2>2, <2>3, ThenFacts DEF SInv
<1>7. TraderTypeOK'
  BY <1>1, <1>3, <1>6, ThreadTypes DEF SInv
<1>8. Busy(a)' /\ It(a)' = p /\ Op(a)' = "write" /\ Arg(a)' = tracked[p]
  BY <1>6 DEF Busy, It, Op, Arg, Task
<1>9. Orderly => TaskInv(a)'
  <2> SUFFICES ASSUME Orderly PROVE TaskInv(a)'
    OBVIOUS
  <2>1. Ours(p)' = tracked'[p] /\ tracked'[p] = tracked[p] /\ p \in started'
    BY <1>1, <1>2, <1>5 DEF Ours
  <2>2. Tail(jobs'[a]) = <<>>
    BY <1>5, <1>6
  <2> QED BY <1>8, <2>1, <2>2 DEF TaskInv
<1>10. ~Flattening(p) \/ a /= Main
  BY <1>1 DEF Flattening
<1>11. Orderly /\ where = "stopping" => a = Main
  BY <1>1 DEF SInv, WorkInv, PlaceInv
<1>12. ReasonInv' /\ ControlInv' /\ WorkInv' /\ CloseInv' /\ SaidInv'
  BY <1>1, <1>4, <1>6, <1>8, <1>9, <1>10, <1>11, TaskStep
<1> QED BY <1>1, <1>2, <1>7, <1>12, SameFile, SameHeld DEF SInv

\* write_pair: the journal in memory takes the pair's record, the file follows or not.
LEMMA WriteStep ==
    ASSUME SInv, NEW a \in Threads, Write(a)
    PROVE  SInv'
<1>1. /\ Busy(a) /\ Op(a) = "write" /\ InThread /\ Then(a, <<>>)
      /\ UNCHANGED <<held, tracked, nextId>>
  BY DEF Write, Doing, Busy, Op
<1>2. UNCHANGED <<setup, session, where, at, ended, halted, reason, how, said, asked,
                  started, foreign>>
  BY <1>1 DEF InThread
<1>3. /\ nextId \in Nat /\ held \in Book /\ tracked \in Book /\ data \in Book /\ written \in Book
  BY DEF SInv, TraderTypeOK
<1>4. PICK p \in Pairs : p = It(a)
  BY <1>1, AtTask DEF SInv
<1>5. PICK record \in SUBSET Nat : record = Arg(a)
  BY <1>1, AtTask DEF SInv
<1>6. Orderly => /\ p \in started /\ Tail(jobs[a]) = <<>> /\ tracked[p] = Ours(p)
                 /\ record = tracked[p] /\ (where = "stopping" => a = Main)
  BY <1>1, <1>4, <1>5 DEF SInv, WorkInv, TaskInv, PlaceInv
<1>7. /\ jobs' \in [Threads -> Seq(Job)] /\ jobs'[a] = Tail(jobs[a])
      /\ \A b \in Threads : b /= a => jobs'[b] = jobs[b]
  <2>1. Task("write", p, record) \in Job
    BY TaskFacts
  <2> QED BY <1>1, <2>1, ThenFacts DEF SInv
<1>8. /\ data' \in Book /\ data'[p] = record
      /\ \A q \in Pairs : q /= p => data'[q] = data[q]
  <2>1. data' = [data EXCEPT ![p] = record]
    BY <1>4, <1>5 DEF Write
  <2> QED BY <1>3, <2>1 DEF Book
<1>9. \/ data' = written /\ UNCHANGED <<written, file, budget>>
      \/ written' = data' /\ file' = data' /\ UNCHANGED budget
      \/ Spend("disk") /\ UNCHANGED <<written, file>>
  BY DEF Write
<1>10. UNCHANGED budget \/ \E f \in Fault : Spend(f)
  BY <1>9 DEF Fault
<1>11. TraderTypeOK'
  <2>1. written' \in Book /\ nextId' \in Nat /\ held' \in Book /\ tracked' \in Book
    BY <1>1, <1>3, <1>8, <1>9
  <2> QED BY <1>1, <1>7, <1>8, <1>10, <2>1, ThreadTypes DEF SInv
<1>12. FileInv'
  <2>1. /\ Spent("disk") \in Nat
        /\ Spend("disk") => Spent("disk")' = Spent("disk") + 1
    BY <1>2, <1>10, SpentFacts DEF SInv, Fault
  <2>2. file = written
    BY DEF SInv, FileInv
  <2>3. CASE Spend("disk") /\ UNCHANGED <<written, file>>
    <3>1. Spent("disk")' /= 0
      BY <2>1, <2>3
    <3> QED BY <2>2, <2>3, <3>1 DEF FileInv
  <2> QED BY <1>9, <2>2, <2>3 DEF FileInv
<1>13. ~Busy(a)' \/ ~Orderly
  BY <1>6, <1>7 DEF Busy
<1>14. Orderly => tracked'[p] = Ours(p)' /\ data'[p] = tracked'[p]
  BY <1>1, <1>2, <1>6, <1>8 DEF Ours
<1>15. ~Flattening(p) \/ a /= Main
  BY <1>1 DEF Flattening
<1>16. ReasonInv' /\ ControlInv' /\ WorkInv' /\ CloseInv' /\ SaidInv'
  BY <1>1, <1>4, <1>6, <1>7, <1>8, <1>10, <1>13, <1>14, <1>15, TaskStep
<1> QED BY <1>1, <1>2, <1>11, <1>12, <1>16, SameHeld DEF SInv

-----------------------------------------------------------------------------
(* Steps that give a thread work, or move main on *)

\* A thread that had nothing to do takes up a task on a pair that nobody works on.
LEMMA TaskBegins ==
    ASSUME SInv, Orderly, NEW a \in Threads, ~Busy(a), NEW p, p \in started, AtRest(p),
           UNCHANGED <<setup, where, how, ended, held, tracked, data, started, foreign, budget>>,
           \A b \in Threads : b /= a => jobs'[b] = jobs[b],
           Busy(a)', It(a)' = p, TaskInv(a)', PlaceInv(a)'
    PROVE  WorkInv'
<1>1. Threads' = Threads
  BY DEF Threads, Pairs
<1>2. Spent("refuse") \in Nat /\ Spent("refuse")' \in Nat /\ Spent("refuse") <= Spent("refuse")'
  BY SpentFacts DEF SInv, Fault
<1>3. ASSUME NEW b \in Threads, Busy(b)', b /= a
      PROVE  TaskInv(b)' /\ PlaceInv(b)'
  <2>1. jobs'[b] = jobs[b] /\ Busy(b) /\ It(b)' = It(b) /\ Op(b)' = Op(b)
    BY <1>3 DEF Busy, It, Op
  <2>2. TaskInv(b) /\ PlaceInv(b)
    BY <2>1 DEF SInv, WorkInv
  <2>3. TaskInv(b)'
    BY <1>2, <2>1, <2>2, TaskKept DEF SInv, TaskInv
  <2>4. PlaceInv(b)'
    BY <2>1, <2>2 DEF PlaceInv, Consumer
  <2> QED BY <2>3, <2>4
<1>4. ASSUME NEW q \in started, AtRest(q)'
      PROVE  tracked'[q] = Ours(q)' /\ data'[q] = tracked'[q]
  <2>1. \A b \in Threads : Busy(b) => It(b) /= q
    <3> SUFFICES ASSUME NEW b \in Threads, Busy(b), b /= a PROVE It(b) /= q
      OBVIOUS
    <3>1. jobs'[b] = jobs[b]
      OBVIOUS
    <3>2. Busy(b)' /\ It(b)' = It(b)
      BY <3>1 DEF Busy, It
    <3> QED BY <1>1, <1>4, <3>2 DEF AtRest
  <2>2. tracked[q] = Ours(q) /\ data[q] = tracked[q]
    BY <2>1 DEF SInv, WorkInv, AtRest
  <2> QED BY <2>2 DEF Ours
<1> QED BY <1>1, <1>3, <1>4 DEF WorkInv

\* Nobody is at work, and main moves on.
LEMMA MovesOn ==
    ASSUME SInv, Orderly, \A a \in Threads : ~Busy(a),
           UNCHANGED <<setup, jobs, held, tracked, data, started, foreign>>
    PROVE  WorkInv'
<1>1. Threads' = Threads /\ \A a \in Threads : ~Busy(a)'
  BY DEF Threads, Pairs, Busy
<1>2. \A p \in started : tracked'[p] = Ours(p)' /\ data'[p] = tracked'[p]
  BY DEF SInv, WorkInv, AtRest, Ours
<1> QED BY <1>1, <1>2 DEF WorkInv

\* Faults and reasons come and go while the books stay.
LEMMA SameBooks ==
    ASSUME SInv,
           UNCHANGED <<setup, where, at, jobs, ended, how, held, tracked, data, written, file, said,
                       started, foreign, nextId>>,
           UNCHANGED budget \/ \E f \in Fault : Spend(f),
           asked' \in Seq(Reasons), ReasonInv', where = "returned" => reason' = reason
    PROVE  SInv'
<1>1. Threads' = Threads /\ Pairs' = Pairs
  BY DEF Threads, Pairs
<1>2. Spent("refuse") \in Nat /\ Spent("refuse")' \in Nat /\ Spent("refuse") <= Spent("refuse")'
  BY SpentFacts DEF SInv, Fault
<1>3. TraderTypeOK'
  <2>1. /\ where' \in Places /\ at' \in Nat /\ jobs' \in [Threads -> Seq(Job)]
        /\ held' \in Book /\ tracked' \in Book /\ data' \in Book /\ written' \in Book
        /\ started' \subseteq Pairs /\ foreign' \subseteq Nat /\ nextId' \in Nat
    BY DEF SInv, TraderTypeOK
  <2> QED BY <2>1, TypeFrame DEF SInv
<1>4. HeldInv' /\ FileInv' /\ ControlInv'
  BY <1>1, SameHeld, SameFile DEF SInv, ControlInv
<1>5. WorkInv'
  <2> SUFFICES ASSUME Orderly PROVE WorkInv'
    BY DEF WorkInv, Orderly
  <2>1. ASSUME NEW b \in Threads, Busy(b)' PROVE TaskInv(b)' /\ PlaceInv(b)'
    <3>1. Busy(b) /\ It(b)' = It(b) /\ Op(b)' = Op(b) /\ jobs'[b] = jobs[b]
      BY <2>1 DEF Busy, It, Op
    <3>2. TaskInv(b) /\ PlaceInv(b)
      BY <3>1 DEF SInv, WorkInv
    <3>3. TaskInv(b)'
      BY <1>2, <3>1, <3>2, TaskKept DEF SInv, TaskInv
    <3> QED BY <3>1, <3>2, <3>3 DEF PlaceInv, Consumer
  <2>2. ASSUME NEW q \in started, AtRest(q)'
        PROVE  tracked'[q] = Ours(q)' /\ data'[q] = tracked'[q]
    <3>1. AtRest(q)
      BY <1>1, <2>2 DEF AtRest, Busy, It
    <3>2. tracked[q] = Ours(q) /\ data[q] = tracked[q]
      BY <3>1 DEF SInv, WorkInv
    <3> QED BY <3>2 DEF Ours
  <2> QED BY <1>1, <2>1, <2>2 DEF WorkInv
<1>6. CloseInv'
  <2>1. ASSUME NEW q, FewLeft(q) PROVE FewLeft(q)'
    <3>1. IsFiniteSet(tracked[q]) /\ Cardinality(tracked[q]) <= Spent("refuse")
          /\ Cardinality(tracked[q]) \in Nat
      BY <2>1, FS_CardinalityType DEF FewLeft
    <3>2. Cardinality(tracked[q]) <= Spent("refuse")'
      BY <1>2, <3>1
    <3> QED BY <3>1, <3>2 DEF FewLeft
  <2>2. \A q : Flattening(q) => Flattening(q)'
    BY DEF Flattening, Busy, Op, It
  <2> QED BY <2>1, <2>2 DEF SInv, CloseInv, Orderly
<1>7. SaidInv'
  BY <1>1 DEF SInv, SaidInv, Orderly
<1> QED BY <1>3, <1>4, <1>5, <1>6, <1>7 DEF SInv

\* A stop: the first reason stays.
LEMMA Requested ==
    ASSUME SInv, NEW why \in Reasons, RequestStop(why)
    PROVE  asked' \in Seq(Reasons) /\ ReasonInv'
<1>0. why /= None
  BY DEF None, Reasons
<1>1. /\ reason' = IF reason = None THEN why ELSE reason
      /\ asked' = Append(asked, why) /\ asked \in Seq(Reasons)
  BY DEF RequestStop, SInv, TraderTypeOK
<1>2. /\ asked' \in Seq(Reasons) /\ asked' /= <<>>
      /\ Head(asked') = IF asked = <<>> THEN why ELSE Head(asked)
  BY <1>0, <1>1, AppendProperties, HeadTailAppend
<1> QED BY <1>0, <1>1, <1>2 DEF SInv, ReasonInv

LEMMA KillSwitchStep == ASSUME SInv, KillSwitch PROVE SInv'
<1>1. /\ RequestStop("kill switch") /\ Spend("kill") /\ where = "running"
      /\ UNCHANGED <<setup, session, where, at, jobs, ended, how, held, tracked, data, written,
                     file, said, started, foreign, nextId>>
  BY DEF KillSwitch
<1>2. asked' \in Seq(Reasons) /\ ReasonInv'
  BY <1>1, Requested DEF Reasons
<1> QED BY <1>1, <1>2, SameBooks DEF Fault

LEMMA SignalStep == ASSUME SInv, Signal PROVE SInv'
<1>1. /\ RequestStop("signal") /\ Spend("signal") /\ where = "running"
      /\ UNCHANGED <<setup, session, where, at, jobs, ended, how, held, tracked, data, written,
                     file, said, started, foreign, nextId>>
  BY DEF Signal
<1>2. asked' \in Seq(Reasons) /\ ReasonInv'
  BY <1>1, Requested DEF Reasons
<1> QED BY <1>1, <1>2, SameBooks DEF Fault

\* A second Ctrl+C breaks out of main: the session is no longer orderly.
LEMMA InterruptStep == ASSUME SInv, Interrupt PROVE SInv'
<1>1. /\ where' = "stopping" /\ at' = 0 /\ jobs' = [jobs EXCEPT ![Main] = <<>>]
      /\ how' = "interrupted" /\ Spend("signal")
      /\ UNCHANGED <<setup, session, ended, reason, held, tracked, data, written, file,
                     said, asked, started, foreign, nextId>>
  BY DEF Interrupt
<1>2. \E f \in Fault : Spend(f)
  BY <1>1 DEF Fault
<1>3. TraderTypeOK'
  <2>1. jobs' \in [Threads -> Seq(Job)]
    <3>1. <<>> \in Seq(Job) /\ jobs \in [Threads -> Seq(Job)]
      BY EmptySeq DEF SInv, TraderTypeOK
    <3> QED BY <1>1, <3>1
  <2>2. /\ held' \in Book /\ tracked' \in Book /\ data' \in Book /\ written' \in Book
        /\ started' \subseteq Pairs /\ foreign' \subseteq Nat /\ nextId' \in Nat
        /\ asked' \in Seq(Reasons)
    BY <1>1 DEF SInv, TraderTypeOK
  <2>3. where' \in Places /\ at' \in Nat
    BY <1>1 DEF Places
  <2> QED BY <1>1, <1>2, <2>1, <2>2, <2>3, TypeFrame DEF SInv
<1>4. HeldInv' /\ FileInv' /\ ReasonInv'
  BY <1>1, <1>2, SameHeld, SameFile DEF SInv, ReasonInv
<1>5. ControlInv' /\ WorkInv' /\ CloseInv' /\ SaidInv'
  BY <1>1 DEF ControlInv, WorkInv, CloseInv, SaidInv, Orderly
<1> QED BY <1>3, <1>4, <1>5 DEF SInv

LEMMA StartFailsStep == ASSUME SInv, StartFails PROVE SInv'
<1>1. /\ where \in {"seeding", "starting"}
      /\ where' = "stopping" /\ at' = 0 /\ how' = "aborted" /\ Spend("start")
      /\ started' = IF where = "starting" /\ at <= setup.pairs THEN started \cup {at} ELSE started
      /\ UNCHANGED <<setup, session, jobs, ended, halted, reason, held, tracked, data, written,
                     file, said, asked, foreign, nextId>>
  BY DEF StartFails
<1>2. \E f \in Fault : Spend(f)
  BY <1>1 DEF Fault
<1>3. started' \subseteq Pairs /\ started \subseteq started' /\ Pairs' = Pairs
  BY <1>1 DEF SInv, TraderTypeOK, ControlInv, Pairs
<1>4. TraderTypeOK'
  <2>1. /\ held' \in Book /\ tracked' \in Book /\ data' \in Book /\ written' \in Book
        /\ foreign' \subseteq Nat /\ nextId' \in Nat /\ jobs' \in [Threads -> Seq(Job)]
        /\ asked' \in Seq(Reasons)
    BY <1>1 DEF SInv, TraderTypeOK
  <2>2. where' \in Places /\ at' \in Nat
    BY <1>1 DEF Places
  <2> QED BY <1>1, <1>2, <1>3, <2>1, <2>2, TypeFrame DEF SInv
<1>5. FileInv' /\ ReasonInv'
  BY <1>1, <1>2, SameFile DEF SInv, ReasonInv
<1>6. HeldInv'
  BY <1>1, <1>3 DEF SInv, HeldInv
<1>7. ControlInv' /\ WorkInv' /\ CloseInv' /\ SaidInv'
  BY <1>1 DEF ControlInv, WorkInv, CloseInv, SaidInv, Orderly
<1> QED BY <1>4, <1>5, <1>6, <1>7 DEF SInv

-----------------------------------------------------------------------------
(* Main, from the seeds to the return *)

LEMMA NobodyBusy ==
    ASSUME SInv, Orderly, ~Busy(Main) \/ where \in {"seeding", "returned"},
           where \in {"seeding", "starting", "stopping", "returned"}
    PROVE  \A a \in Threads : ~Busy(a)
BY DEF SInv, WorkInv, PlaceInv

LEMMA SeedStep == ASSUME SInv, Seed PROVE SInv'
<1>1. /\ where = "seeding" /\ where' = "starting"
      /\ UNCHANGED <<setup, session, at, jobs, ended, halted, reason, how, held, tracked, data,
                     written, file, said, asked, started, foreign, nextId, budget>>
  BY DEF Seed
<1>2. at = 1 /\ started = {} /\ how = "joined" /\ setup.pairs \in Nat /\ setup.pairs >= 1
  BY <1>1, SetupFacts DEF SInv, ControlInv, TraderTypeOK
<1>3. TraderTypeOK'
  <2>1. where' \in Places
    BY <1>1 DEF Places
  <2> QED BY <1>1, <2>1, TypeFrame DEF SInv, TraderTypeOK
<1>4. HeldInv' /\ FileInv' /\ ReasonInv'
  BY <1>1, SameHeld, SameFile DEF SInv, ReasonInv
<1>5. ControlInv'
  <2>1. 1..(at - 1) = {}
    BY <1>2
  <2> QED BY <1>1, <1>2, <2>1 DEF ControlInv
<1>6. WorkInv'
  BY <1>1, <1>2, NobodyBusy, MovesOn DEF Orderly
<1>7. CloseInv' /\ SaidInv'
  BY <1>1 DEF CloseInv, SaidInv
<1> QED BY <1>3, <1>4, <1>5, <1>6, <1>7 DEF SInv

LEMMA AllStartedStep == ASSUME SInv, AllStarted PROVE SInv'
<1>1. /\ where = "starting" /\ where' = "running" /\ ~Busy(Main) /\ at > setup.pairs
      /\ UNCHANGED <<setup, session, at, jobs, ended, halted, reason, how, held, tracked, data,
                     written, file, said, asked, started, foreign, nextId, budget>>
  BY DEF AllStarted, Busy
<1>2. /\ at <= setup.pairs + 1 /\ started = 1..(at - 1) /\ how = "joined" /\ at \in Nat
      /\ setup.pairs \in Nat
  BY <1>1, SetupFacts DEF SInv, ControlInv, TraderTypeOK
<1>3. TraderTypeOK'
  <2>1. where' \in Places
    BY <1>1 DEF Places
  <2> QED BY <1>1, <2>1, TypeFrame DEF SInv, TraderTypeOK
<1>4. HeldInv' /\ FileInv' /\ ReasonInv'
  BY <1>1, SameHeld, SameFile DEF SInv, ReasonInv
<1>5. ControlInv'
  <2>1. at - 1 = setup.pairs
    BY <1>1, <1>2
  <2>2. started' = Pairs'
    BY <1>1, <1>2, <2>1 DEF Pairs
  <2> QED BY <1>1, <1>2, <2>2 DEF ControlInv
<1>6. WorkInv'
  BY <1>1, <1>2, NobodyBusy, MovesOn DEF Orderly
<1>7. CloseInv' /\ SaidInv'
  BY <1>1 DEF CloseInv, SaidInv
<1> QED BY <1>3, <1>4, <1>5, <1>6, <1>7 DEF SInv

\* worker.start: what is adopted is what the journal and the venue both know, and what the
\* venue alone knows is nobody's.
LEMMA StartWorkerStep == ASSUME SInv, StartWorker PROVE SInv'
<1>1. /\ where = "starting" /\ ~Busy(Main) /\ at <= setup.pairs
      /\ started' = started \cup {at}
      /\ tracked' = [tracked EXCEPT ![at] = data[at] \cap held[at]]
      /\ foreign' = foreign \cup (held[at] \ data[at])
      /\ jobs' = [jobs EXCEPT ![Main] = FlushState(at)]
      /\ at' = at + 1
      /\ UNCHANGED <<setup, session, where, ended, halted, reason, how, held, data, written,
                     file, said, asked, nextId, budget>>
  BY DEF StartWorker, Busy
<1>2. /\ at >= 1 /\ at \in Nat /\ setup.pairs \in Nat /\ started = 1..(at - 1) /\ how = "joined"
      /\ held \in Book /\ data \in Book /\ tracked \in Book /\ foreign \subseteq Nat
      /\ nextId \in Nat /\ jobs \in [Threads -> Seq(Job)]
  BY <1>1, SetupFacts DEF SInv, ControlInv, TraderTypeOK
<1>3. PICK p \in Pairs : p = at
  BY <1>1, <1>2 DEF Pairs
<1>4. p \notin started /\ Pairs' = Pairs /\ Threads' = Threads /\ started \subseteq Pairs
      /\ Main \in Threads
  BY <1>1, <1>2, <1>3 DEF Pairs, Threads, SInv, TraderTypeOK
<1>5. /\ tracked' \in Book /\ tracked'[p] = data[p] \cap held[p]
      /\ \A q \in Pairs : q /= p => tracked'[q] = tracked[q]
      /\ held[p] \subseteq Nat
  BY <1>1, <1>2, <1>3 DEF Book
<1>6. /\ jobs' \in [Threads -> Seq(Job)] /\ jobs'[Main] = FlushState(p)
      /\ \A b \in Threads : b /= Main => jobs'[b] = jobs[b]
  BY <1>1, <1>2, <1>3, <1>4, FlushFacts
<1>7. foreign' = foreign \cup (held[p] \ data[p])
  BY <1>1, <1>3
<1>8. TraderTypeOK'
  <2>1. at' \in Nat
    BY <1>1, <1>2
  <2>2. started' \subseteq Pairs
    BY <1>1, <1>3, <1>4
  <2>3. foreign' \subseteq Nat
    BY <1>2, <1>5, <1>7
  <2> QED BY <1>1, <1>5, <1>6, <2>1, <2>2, <2>3, TypeFrame DEF SInv, TraderTypeOK
<1>9. HeldInv'
  <2>1. \A q \in Pairs : q /= p => held[p] \cap held[q] = {}
    BY DEF SInv, HeldInv
  <2>2. \A q \in Pairs \ started' : held[q] \cap foreign' = {}
    BY <1>1, <1>3, <1>4, <1>7, <2>1 DEF SInv, HeldInv
  <2>3. \A t \in foreign' : t < nextId
    BY <1>7 DEF SInv, HeldInv
  <2> QED BY <1>1, <1>4, <2>2, <2>3 DEF SInv, HeldInv
<1>10. FileInv' /\ ReasonInv'
  BY <1>1, SameFile DEF SInv, ReasonInv
<1>11. ControlInv'
  <2>1. started' = 1..(at' - 1) /\ at' >= 1 /\ at' <= setup.pairs + 1
    BY <1>1, <1>2
  <2> QED BY <1>1, <1>2, <2>1 DEF ControlInv
<1>12. WorkInv'
  <2>1. \A a \in Threads : ~Busy(a)
    BY <1>1, <1>2, NobodyBusy DEF Orderly
  <2>2. Ours(p)' = tracked'[p]
    <3>1. held[p] \cap foreign = {}
      BY <1>4 DEF SInv, HeldInv
    <3> QED BY <1>1, <1>5, <1>7, <3>1 DEF Ours
  <2>3. Busy(Main)' /\ It(Main)' = p /\ Op(Main)' = "build" /\ TaskInv(Main)'
    <3>1. p \in started'
      BY <1>1, <1>3
    <3> QED BY <1>4, <1>6, <2>2, <3>1, Flushing
  <2>4. PlaceInv(Main)'
    BY <1>1 DEF PlaceInv
  <2>5. \A a \in Threads : a /= Main => ~Busy(a)'
    BY <1>6, <2>1 DEF Busy
  <2>6. ASSUME NEW q \in started PROVE tracked'[q] = Ours(q)' /\ data'[q] = tracked'[q]
    <3>1. tracked[q] = Ours(q) /\ data[q] = tracked[q] /\ q \in Pairs /\ q /= p
      BY <1>1, <1>2, <1>4, <2>1 DEF SInv, WorkInv, AtRest, Orderly
    <3>2. held[p] \cap held[q] = {}
      BY <3>1 DEF SInv, HeldInv
    <3> QED BY <1>1, <1>5, <1>7, <3>1, <3>2 DEF Ours
  <2>7. ~AtRest(p)'
    BY <1>4, <2>3 DEF AtRest
  <2> QED BY <1>1, <1>3, <1>4, <2>3, <2>4, <2>5, <2>6, <2>7 DEF WorkInv
<1>13. CloseInv' /\ SaidInv'
  BY <1>1 DEF CloseInv, SaidInv
<1> QED BY <1>8, <1>9, <1>10, <1>11, <1>12, <1>13 DEF SInv

\* Every loop has returned: no thread has a task left.
LEMMA JoinedStep == ASSUME SInv, Joined PROVE SInv'
<1>1. /\ where = "running" /\ ended = Pairs /\ where' = "stopping" /\ at' = 0
      /\ UNCHANGED <<setup, session, jobs, ended, halted, reason, how, held, tracked, data,
                     written, file, said, asked, started, foreign, nextId, budget>>
  BY DEF Joined
<1>2. started = Pairs /\ how = "joined" /\ setup.pairs \in Nat
  BY <1>1, SetupFacts DEF SInv, ControlInv, TraderTypeOK
<1>3. TraderTypeOK'
  <2>1. where' \in Places /\ at' \in Nat
    BY <1>1 DEF Places
  <2> QED BY <1>1, <2>1, TypeFrame DEF SInv, TraderTypeOK
<1>4. HeldInv' /\ FileInv' /\ ReasonInv'
  BY <1>1, SameHeld, SameFile DEF SInv, ReasonInv
<1>5. ControlInv'
  BY <1>1, <1>2 DEF ControlInv, Pairs
<1>6. \A a \in Threads : ~Busy(a)
  BY <1>1, <1>2 DEF SInv, WorkInv, TaskInv, PlaceInv, Orderly
<1>7. WorkInv'
  BY <1>1, <1>2, <1>6, MovesOn DEF Orderly
<1>8. CloseInv' /\ SaidInv'
  <2>1. 1..at' = {}
    BY <1>1
  <2> QED BY <1>1, <2>1 DEF CloseInv, SaidInv
<1> QED BY <1>3, <1>4, <1>5, <1>7, <1>8 DEF SInv

LEMMA ShutDownStep == ASSUME SInv, ShutDown PROVE SInv'
<1> DEFINE closes == setup.closeAll /\ how /= "aborted"
<1>1. /\ where = "stopping" /\ ~Busy(Main) /\ at < Cardinality(started) /\ at' = at + 1
      /\ jobs' = [jobs EXCEPT ![Main] =
                      (IF closes THEN <<Task("flatten", at', {})>> ELSE <<>>) \o FlushState(at')]
      /\ UNCHANGED <<setup, session, where, ended, reason, how, held, tracked, data, written,
                     file, said, asked, started, foreign, nextId, budget>>
  BY DEF ShutDown, Busy
<1>2. /\ at \in Nat /\ setup.pairs \in Nat /\ jobs \in [Threads -> Seq(Job)]
      /\ started \subseteq Pairs /\ Pairs' = Pairs /\ Threads' = Threads /\ Main \in Threads
  BY <1>1, SetupFacts DEF SInv, TraderTypeOK, Pairs, Threads
<1>3. IsFiniteSet(Pairs) /\ Cardinality(Pairs) = setup.pairs
  BY <1>2, FS_Interval DEF Pairs
<1>4. Cardinality(started) \in Nat /\ Cardinality(started) <= setup.pairs
  BY <1>2, <1>3, FS_Subset, FS_CardinalityType
<1>5. PICK p \in Pairs : p = at'
  <2>1. at + 1 >= 1 /\ at + 1 <= setup.pairs
    BY <1>1, <1>2, <1>4
  <2> QED BY <1>1, <1>2, <2>1 DEF Pairs
<1>6. /\ FlushState(p) \in Seq(Job) /\ Task("flatten", p, {}) \in Job
      /\ Task("flatten", p, {}).op = "flatten" /\ Task("flatten", p, {}).p = p
      /\ Task("flatten", p, {}).arg = {}
  <2>1. {} \in SUBSET Nat /\ 0 \in Nat
    OBVIOUS
  <2> QED BY <2>1, FlushFacts, TaskFacts
<1>7. /\ jobs' \in [Threads -> Seq(Job)]
      /\ \A b \in Threads : b /= Main => jobs'[b] = jobs[b]
      /\ closes => /\ jobs'[Main] /= <<>> /\ Head(jobs'[Main]) = Task("flatten", p, {})
                   /\ Tail(jobs'[Main]) = FlushState(p)
      /\ ~closes => jobs'[Main] = FlushState(p)
  <2>1. /\ <<Task("flatten", p, {})>> \o FlushState(p) \in Seq(Job)
        /\ <<Task("flatten", p, {})>> \o FlushState(p) /= <<>>
        /\ Head(<<Task("flatten", p, {})>> \o FlushState(p)) = Task("flatten", p, {})
        /\ Tail(<<Task("flatten", p, {})>> \o FlushState(p)) = FlushState(p)
        /\ <<>> \o FlushState(p) = FlushState(p)
    BY <1>6, InFront
  <2>2. CASE closes
    <3>1. jobs' = [jobs EXCEPT ![Main] = <<Task("flatten", p, {})>> \o FlushState(p)]
      BY <1>1, <1>5, <2>2
    <3> QED BY <1>2, <2>1, <2>2, <3>1
  <2>3. CASE ~closes
    <3>1. jobs' = [jobs EXCEPT ![Main] = FlushState(p)]
      BY <1>1, <1>5, <2>1, <2>3
    <3> QED BY <1>2, <1>6, <2>3, <3>1
  <2> QED BY <2>2, <2>3
<1>8. TraderTypeOK'
  <2>1. at' \in Nat
    BY <1>1, <1>2
  <2> QED BY <1>1, <1>7, <2>1, TypeFrame DEF SInv, TraderTypeOK
<1>9. HeldInv' /\ FileInv' /\ ReasonInv'
  BY <1>1, SameHeld, SameFile DEF SInv, ReasonInv
<1>10. ControlInv'
  <2>1. at' <= setup.pairs
    BY <1>2, <1>5 DEF Pairs
  <2> QED BY <1>1, <1>2, <2>1 DEF SInv, ControlInv
<1>11. WorkInv'
  <2> SUFFICES ASSUME Orderly PROVE WorkInv'
    BY <1>1 DEF WorkInv, Orderly
  <2>1. p \in started /\ \A a \in Threads : ~Busy(a)
    BY <1>1, NobodyBusy DEF SInv, ControlInv, Orderly
  <2>2. AtRest(p) /\ tracked[p] = Ours(p) /\ Ours(p)' = Ours(p) /\ p \in started'
    BY <1>1, <2>1 DEF AtRest, SInv, WorkInv, Ours
  <2>3. Busy(Main)' /\ It(Main)' = p /\ TaskInv(Main)' /\ Op(Main)' \in {"flatten", "build"}
    <3>1. CASE closes
      <4>1. /\ Busy(Main)' /\ It(Main)' = p /\ Op(Main)' = "flatten" /\ Arg(Main)' = {}
            /\ Tail(jobs[Main])' = FlushState(p) /\ FlushState(p)' = FlushState(p)
        BY <1>6, <1>7, <3>1 DEF Busy, It, Op, Arg, FlushState, Task
      <4>2. Spent("refuse") \in Nat /\ Spent("refuse")' = Spent("refuse")
        BY <1>1, SpentFacts DEF SInv, Fault
      <4>3. IsFiniteSet({}) /\ Cardinality({}) <= Spent("refuse")'
        BY <4>2, FS_EmptySet
      <4>4. Ours(p)' = tracked'[p] \cap held'[p]
        BY <1>1, <2>2 DEF Ours
      <4> QED BY <2>2, <4>1, <4>3, <4>4 DEF TaskInv
    <3>2. CASE ~closes
      <4>1. jobs'[Main] = FlushState(p) /\ tracked'[p] = Ours(p)'
        BY <1>1, <1>7, <2>2, <3>2
      <4> QED BY <1>2, <2>2, <4>1, Flushing
    <3> QED BY <3>1, <3>2
  <2>4. PlaceInv(Main)'
    BY <1>1, <2>3 DEF PlaceInv
  <2> QED BY <1>1, <1>2, <1>7, <2>1, <2>2, <2>3, <2>4, TaskBegins
<1>12. CloseInv'
  <2> SUFFICES ASSUME Orderly, setup.closeAll, NEW q \in 1..at'
               PROVE  Flattening(q)' \/ FewLeft(q)'
    BY <1>1 DEF CloseInv, Orderly
  <2>1. CASE q = p
    <3>1. closes
      BY DEF Orderly
    <3>2. Flattening(p)'
      BY <1>6, <1>7, <3>1 DEF Flattening, Busy, Op, It
    <3> QED BY <2>1, <3>2
  <2>2. CASE q /= p
    <3>1. q \in 1..at
      BY <1>1, <1>2, <1>5, <2>2
    <3>2. FewLeft(q)
      BY <1>1, <3>1 DEF SInv, CloseInv, Flattening
    <3> QED BY <1>1, <3>2 DEF FewLeft, Spent
  <2> QED BY <2>1, <2>2
<1>13. SaidInv'
  BY <1>1 DEF SaidInv
<1> QED BY <1>8, <1>9, <1>10, <1>11, <1>12, <1>13 DEF SInv

\* run_loop takes up an item, while the session runs.
LEMMA ItemStep ==
    ASSUME SInv, NEW p \in Pairs, Item(p)
    PROVE  SInv'
<1> DEFINE c == Consumer(p)
<1>1. /\ where = "running" /\ p \notin ended /\ ~Busy(c)
      /\ UNCHANGED <<setup, session, where, at, ended, halted, reason, how, held, tracked,
                     data, written, file, said, asked, started, foreign, nextId, budget>>
  BY DEF Item, Idle, Busy
<1>2. /\ started = Pairs /\ how = "joined" /\ Orderly /\ setup.pairs \in Nat
      /\ jobs \in [Threads -> Seq(Job)]
  BY <1>1, SetupFacts DEF SInv, ControlInv, TraderTypeOK, Orderly
<1>3. c \in Threads /\ Threads' = Threads
  BY <1>1 DEF Consumer, Threads, Pairs
<1>4. PICK work \in {<<>>, <<Task("flatten", p, {})>>, <<Task("open", p, {})>>} :
          jobs' = [jobs EXCEPT ![c] = work \o FlushState(p)]
  BY DEF Item
<1>5. AtRest(p)
  BY <1>1 DEF SInv, WorkInv, PlaceInv, AtRest, Orderly, ControlInv
<1>6. /\ tracked[p] = Ours(p) /\ tracked'[p] = tracked[p] /\ held'[p] = held[p]
      /\ Ours(p)' = Ours(p) /\ p \in started'
  BY <1>1, <1>2, <1>5 DEF SInv, WorkInv, Ours
<1>7. /\ FlushState(p) \in Seq(Job) /\ FlushState(p)' = FlushState(p)
      /\ \A op \in {"flatten", "open"} :
             /\ Task(op, p, {}) \in Job /\ Task(op, p, {}).op = op
             /\ Task(op, p, {}).p = p /\ Task(op, p, {}).arg = {}
  <2>1. {} \in SUBSET Nat /\ 0 \in Nat
    OBVIOUS
  <2>2. FlushState(p)' = FlushState(p)
    BY DEF FlushState, Task
  <2>3. FlushState(p) \in Seq(Job)
    BY FlushFacts
  <2>4. Task("flatten", p, {}) \in Job /\ Task("open", p, {}) \in Job
    BY <2>1, TaskFacts
  <2>5. \A op \in {"flatten", "open"} :
            Task(op, p, {}).op = op /\ Task(op, p, {}).p = p /\ Task(op, p, {}).arg = {}
    BY DEF Task
  <2> QED BY <2>2, <2>3, <2>4, <2>5
<1>8. /\ jobs' \in [Threads -> Seq(Job)]
      /\ \A b \in Threads : b /= c => jobs'[b] = jobs[b]
      /\ Busy(c)' /\ It(c)' = p /\ TaskInv(c)'
  <2>1. CASE work = <<>>
    <3>1. <<>> \o FlushState(p) = FlushState(p)
      BY <1>7, ConcatEmptySeq
    <3>2. jobs' = [jobs EXCEPT ![c] = FlushState(p)]
      BY <1>4, <2>1, <3>1
    <3>3. /\ jobs' \in [Threads -> Seq(Job)] /\ jobs'[c] = FlushState(p)
          /\ \A b \in Threads : b /= c => jobs'[b] = jobs[b]
      BY <1>2, <1>3, <1>7, <3>2
    <3>4. PICK a \in Threads : a = c
      BY <1>3
    <3>5. Busy(a)' /\ It(a)' = p /\ TaskInv(a)'
      BY <1>6, <3>3, <3>4, Flushing
    <3>6. c' = c
      BY <1>1 DEF Consumer
    <3> QED BY <3>3, <3>4, <3>5, <3>6
  <2>2. CASE work /= <<>>
    <3>1. PICK op \in {"flatten", "open"} : work = <<Task(op, p, {})>>
      BY <2>2
    <3>2. /\ work \o FlushState(p) \in Seq(Job) /\ work \o FlushState(p) /= <<>>
          /\ Head(work \o FlushState(p)) = Task(op, p, {})
          /\ Tail(work \o FlushState(p)) = FlushState(p)
      BY <1>7, <3>1, InFront
    <3>3. /\ jobs' \in [Threads -> Seq(Job)] /\ jobs'[c] = work \o FlushState(p)
          /\ \A b \in Threads : b /= c => jobs'[b] = jobs[b]
      BY <1>2, <1>3, <1>4, <3>2
    <3>4. PICK a \in Threads : a = c
      BY <1>3
    <3>5. /\ Busy(a)' /\ It(a)' = p /\ Op(a)' = op /\ Arg(a)' = {}
          /\ Tail(jobs[a])' = FlushState(p)
      BY <1>7, <3>2, <3>3, <3>4 DEF Busy, It, Op, Arg
    <3>6. Spent("refuse") \in Nat /\ Spent("refuse")' = Spent("refuse")
      BY <1>1, SpentFacts DEF SInv, Fault
    <3>7. IsFiniteSet({}) /\ Cardinality({}) <= Spent("refuse")'
      BY <3>6, FS_EmptySet
    <3>8. tracked'[p] = Ours(p)' /\ Ours(p)' = tracked'[p] \cap held'[p]
      BY <1>6 DEF Ours
    <3>9. TaskInv(a)'
      <4>1. CASE op = "flatten"
        BY <1>6, <1>7, <3>5, <3>7, <3>8, <4>1 DEF TaskInv
      <4>2. CASE op = "open"
        BY <1>6, <1>7, <3>5, <3>8, <4>2 DEF TaskInv
      <4> QED BY <4>1, <4>2
    <3>10. c' = c
      BY <1>1 DEF Consumer
    <3> QED BY <3>3, <3>4, <3>5, <3>9, <3>10
  <2> QED BY <2>1, <2>2
<1>9. TraderTypeOK'
  BY <1>1, <1>8, TypeFrame DEF SInv, TraderTypeOK
<1>10. HeldInv' /\ FileInv' /\ ReasonInv' /\ ControlInv'
  BY <1>1, SameHeld, SameFile DEF SInv, ReasonInv, ControlInv, Pairs
<1>11. WorkInv'
  <2>1. PICK a \in Threads : a = c
    BY <1>3
  <2>2. c' = c
    BY <1>1 DEF Consumer
  <2>3. Busy(a)' /\ It(a)' = p /\ TaskInv(a)' /\ ~Busy(a)
    BY <1>1, <1>8, <2>1, <2>2
  <2>4. PlaceInv(a)'
    BY <1>1, <2>1, <2>2, <2>3 DEF PlaceInv
  <2>5. \A b \in Threads : b /= a => jobs'[b] = jobs[b]
    BY <1>8, <2>1
  <2> QED BY <1>1, <1>2, <1>5, <2>3, <2>4, <2>5, TaskBegins
<1>12. CloseInv' /\ SaidInv'
  BY <1>1 DEF CloseInv, SaidInv
<1> QED BY <1>9, <1>10, <1>11, <1>12 DEF SInv

LEMMA LoopEndsStep ==
    ASSUME SInv, NEW p \in Pairs, LoopEnds(p)
    PROVE  SInv'
<1>1. /\ where = "running" /\ ~Busy(Consumer(p)) /\ ended' = ended \cup {p}
      /\ UNCHANGED <<setup, session, where, at, jobs, halted, reason, how, held, tracked,
                     data, written, file, said, asked, started, foreign, nextId, budget>>
  BY DEF LoopEnds, Idle, Busy
<1>2. TraderTypeOK'
  BY <1>1, TypeFrame DEF SInv, TraderTypeOK
<1>3. HeldInv' /\ FileInv' /\ ReasonInv' /\ ControlInv'
  BY <1>1, SameHeld, SameFile DEF SInv, ReasonInv, ControlInv, Pairs
<1>4. Orderly
  BY <1>1 DEF SInv, ControlInv, Orderly
<1>5. Spent("refuse") \in Nat /\ Spent("refuse")' = Spent("refuse")
  BY <1>1, SpentFacts DEF SInv, Fault
<1>6. ASSUME NEW b \in Threads, Busy(b)
      PROVE  TaskInv(b)' /\ PlaceInv(b)'
  <2>1. TaskInv(b) /\ PlaceInv(b)
    BY <1>4, <1>6 DEF SInv, WorkInv
  <2>2. It(b) /= p
    BY <1>1, <1>6, <2>1 DEF PlaceInv
  <2>3. jobs'[b] = jobs[b] /\ It(b)' = It(b) /\ Op(b)' = Op(b)
    BY <1>1 DEF It, Op
  <2>4. TaskInv(b)'
    BY <1>1, <1>5, <1>6, <2>1, TaskKept DEF SInv, TaskInv
  <2>5. PlaceInv(b)'
    BY <1>1, <2>1, <2>2, <2>3 DEF PlaceInv, Consumer
  <2> QED BY <2>4, <2>5
<1>7. WorkInv'
  <2>1. Threads' = Threads /\ \A b \in Threads : Busy(b)' <=> Busy(b)
    BY <1>1 DEF Threads, Pairs, Busy
  <2>2. ASSUME NEW q \in started, AtRest(q)'
        PROVE  tracked'[q] = Ours(q)' /\ data'[q] = tracked'[q]
    <3>1. AtRest(q)
      BY <1>1, <2>1, <2>2 DEF AtRest, It
    <3> QED BY <1>1, <1>4, <3>1 DEF SInv, WorkInv, Ours
  <2> QED BY <1>1, <1>6, <2>1, <2>2 DEF WorkInv
<1>8. CloseInv' /\ SaidInv'
  BY <1>1 DEF CloseInv, SaidInv
<1> QED BY <1>2, <1>3, <1>7, <1>8 DEF SInv

\* A session begins with what the file says.
LEMMA RunStep == ASSUME SInv, Run PROVE SInv'
<1>1. /\ where' = "seeding" /\ at' = 1 /\ how' = "joined" /\ reason' = None /\ asked' = <<>>
      /\ started' = {} /\ foreign' = {} /\ tracked' = Empty /\ data' = file /\ written' = file
      /\ UNCHANGED <<setup, jobs, held, file, nextId, budget>>
      /\ \A a \in Threads : jobs[a] = <<>>
  BY DEF Run
<1>2. Threads' = Threads /\ Pairs' = Pairs
  BY <1>1 DEF Threads, Pairs
<1>3. TraderTypeOK'
  <2>1. file \in Book /\ held \in Book /\ jobs \in [Threads -> Seq(Job)] /\ nextId \in Nat
    BY DEF SInv, FileInv, TraderTypeOK
  <2>2. Empty \in Book
    BY DEF Empty, Book
  <2>3. where' \in Places /\ at' \in Nat
    BY <1>1 DEF Places
  <2>4. asked' \in Seq(Reasons)
    BY <1>1, EmptySeq
  <2> QED BY <1>1, <2>1, <2>2, <2>3, <2>4, TypeFrame DEF SInv
<1>4. HeldInv'
  BY <1>1, <1>2 DEF SInv, HeldInv
<1>5. FileInv' /\ ReasonInv'
  BY <1>1 DEF FileInv, ReasonInv
<1>6. ControlInv'
  BY <1>1 DEF ControlInv
<1>7. WorkInv'
  BY <1>1, <1>2 DEF WorkInv, Busy
<1>8. CloseInv' /\ SaidInv'
  BY <1>1 DEF CloseInv, SaidInv
<1> QED BY <1>3, <1>4, <1>5, <1>6, <1>7, <1>8 DEF SInv

LEMMA ReturnStep == ASSUME SInv, Return PROVE SInv'
<1>1. /\ where = "stopping" /\ ~Busy(Main) /\ at = Cardinality(started) /\ where' = "returned"
      /\ said' = [p \in Pairs |-> [reason |-> Why, open |-> Cardinality(tracked[p])]]
      /\ UNCHANGED <<setup, session, at, jobs, ended, halted, reason, how, held, tracked, data,
                     written, file, asked, started, foreign, nextId, budget>>
  BY DEF Return, Busy
<1>2. TraderTypeOK'
  <2>1. where' \in Places
    BY <1>1 DEF Places
  <2> QED BY <1>1, <2>1, TypeFrame DEF SInv, TraderTypeOK
<1>3. HeldInv' /\ FileInv' /\ ReasonInv'
  BY <1>1, SameHeld, SameFile DEF SInv, ReasonInv
<1>4. ControlInv' /\ Pairs' = Pairs
  BY <1>1 DEF SInv, ControlInv, Pairs
<1>5. WorkInv'
  <2>1. Orderly' <=> Orderly
    BY <1>1 DEF Orderly
  <2>2. CASE Orderly
    BY <1>1, <2>2, NobodyBusy, MovesOn
  <2> QED BY <2>1, <2>2 DEF WorkInv
<1>6. CloseInv'
  <2> SUFFICES ASSUME Orderly, setup.closeAll, NEW p \in 1..at
               PROVE  Flattening(p)' \/ FewLeft(p)'
    BY <1>1 DEF CloseInv, Orderly
  <2>1. FewLeft(p)
    BY <1>1 DEF SInv, CloseInv, Flattening
  <2> QED BY <1>1, <2>1 DEF FewLeft, Spent
<1>7. SaidInv'
  <2> SUFFICES ASSUME how = "joined"
               PROVE  /\ at = setup.pairs
                      /\ \A p \in Pairs :
                             said'[p] = [reason |-> IF reason = None THEN "stop()" ELSE reason,
                                         open |-> Cardinality(tracked[p])]
    BY <1>1, <1>4 DEF SaidInv, Orderly
  <2>1. started = Pairs /\ setup.pairs \in Nat
    BY <1>1, SetupFacts DEF SInv, ControlInv, TraderTypeOK
  <2>2. Cardinality(started) = setup.pairs
    BY <2>1, FS_Interval DEF Pairs
  <2>3. Why = IF reason = None THEN "stop()" ELSE reason
    BY DEF Why
  <2> QED BY <1>1, <2>2, <2>3
<1> QED BY <1>2, <1>3, <1>4, <1>5, <1>6, <1>7 DEF SInv

\* The program dies: only the venue and the file stay.
LEMMA ProgramEndsStep == ASSUME SInv, Crash \/ ForceQuit PROVE SInv'
<1>1. /\ where' = "off" /\ jobs' = [a \in Threads |-> <<>>]
      /\ UNCHANGED <<setup, session, at, ended, halted, reason, how, held, tracked, data,
                     written, file, said, asked, started, foreign, nextId>>
      /\ \E f \in Fault : Spend(f)
  BY DEF Crash, ForceQuit, Fault
<1>2. TraderTypeOK'
  <2>1. where' \in Places
    BY <1>1 DEF Places
  <2>2. jobs' \in [Threads -> Seq(Job)]
    BY <1>1, EmptySeq
  <2> QED BY <1>1, <2>1, <2>2, TypeFrame DEF SInv, TraderTypeOK
<1>3. HeldInv' /\ FileInv' /\ ReasonInv'
  BY <1>1, SameHeld, SameFile DEF SInv, ReasonInv
<1>4. ControlInv' /\ WorkInv' /\ CloseInv' /\ SaidInv'
  BY <1>1 DEF ControlInv, WorkInv, CloseInv, SaidInv, Orderly
<1> QED BY <1>2, <1>3, <1>4 DEF SInv

-----------------------------------------------------------------------------
(* The listener beside the session *)

\* A command that is read stops the session, or leaves it as it is.
LEMMA ReadStep ==
    ASSUME SInv, NEW g, Read(g)
    PROVE  SInv'
<1>1. CASE UNCHANGED traderVars
  <2>1. asked' \in Seq(Reasons) /\ ReasonInv'
    BY <1>1 DEF traderVars, SInv, TraderTypeOK, ReasonInv
  <2> QED BY <1>1, <2>1, SameBooks DEF traderVars
<1>2. CASE ~UNCHANGED traderVars
  <2>1. PICK u : ConfirmStop(u)
    BY <1>2 DEF Read, AskStop, Other
  <2>2. /\ RequestStop("telegram") /\ Listed
        /\ UNCHANGED <<setup, session, where, at, jobs, ended, how, held, tracked, data,
                       written, file, said, started, foreign, nextId, budget>>
    BY <1>2, <2>1 DEF ConfirmStop
  <2>3. asked' \in Seq(Reasons) /\ ReasonInv'
    BY <2>2, Requested DEF Reasons
  <2>4. where /= "returned"
    BY <2>2 DEF Listed
  <2> QED BY <2>2, <2>3, <2>4, SameBooks
<1> QED BY <1>1, <1>2

LEMMA ListenerStep ==
    ASSUME SInv, NEW g, Listener(g)
    PROVE  SInv'
<1>1. CASE Ask(g) \/ Leave(g) \/ Answer(g) \/ ReadAll(g)
  <2>1. UNCHANGED traderVars
    BY <1>1 DEF Ask, Leave, Answer, ReadAll
  <2>2. asked' \in Seq(Reasons) /\ ReasonInv'
    BY <2>1 DEF traderVars, SInv, TraderTypeOK, ReasonInv
  <2> QED BY <2>1, <2>2, SameBooks DEF traderVars
<1>2. CASE NoAnswer(g) \/ Rejected(g)
  <2>1. NothingElse /\ \E f \in Fault : Spend(f)
    BY <1>2 DEF NoAnswer, Rejected, Fault
  <2>2. asked' \in Seq(Reasons) /\ ReasonInv'
    BY <2>1 DEF NothingElse, SInv, TraderTypeOK, ReasonInv
  <2> QED BY <2>1, <2>2, SameBooks DEF NothingElse
<1> QED BY <1>1, <1>2, ReadStep DEF Listener

-----------------------------------------------------------------------------
(* The theorems *)

LEMMA InitSInv == Init => SInv
<1> SUFFICES ASSUME Init PROVE SInv
  OBVIOUS
<1>1. /\ setup \in Setups /\ budget = setup.faults /\ where = "off" /\ at = 0
      /\ jobs = [a \in Threads |-> <<>>] /\ reason = None /\ how = "joined"
      /\ held = Empty /\ tracked = Empty /\ data = Empty /\ written = Empty /\ file = Empty
      /\ asked = <<>> /\ started = {} /\ foreign = {} /\ nextId = 1
  BY DEF Init, TraderInit
<1>2. setup.faults \in [Fault -> Nat]
  BY <1>1, SetupFacts
<1>3. Empty \in Book /\ \A p \in Pairs : Empty[p] = {}
  BY DEF Empty, Book
<1>4. TraderTypeOK
  <2>1. jobs \in [Threads -> Seq(Job)] /\ asked \in Seq(Reasons)
    BY <1>1, EmptySeq
  <2>2. where \in Places /\ at \in Nat /\ nextId \in Nat
    BY <1>1 DEF Places
  <2>3. budget \in [Fault -> Nat] /\ \A f \in Fault : budget[f] <= setup.faults[f]
    BY <1>1, <1>2
  <2> QED BY <1>1, <1>3, <2>1, <2>2, <2>3 DEF TraderTypeOK
<1>5. HeldInv
  BY <1>1, <1>3 DEF HeldInv
<1>6. FileInv /\ ReasonInv /\ ControlInv
  BY <1>1 DEF FileInv, ReasonInv, ControlInv
<1>7. WorkInv /\ CloseInv /\ SaidInv
  BY <1>1 DEF WorkInv, CloseInv, SaidInv, Orderly
<1> QED BY <1>4, <1>5, <1>6, <1>7 DEF SInv

LEMMA NextSInv == SInv /\ [Next]_vars => SInv'
<1> SUFFICES ASSUME SInv, [Next]_vars PROVE SInv'
  OBVIOUS
<1>1. CASE UNCHANGED traderVars
  <2>1. asked' \in Seq(Reasons) /\ ReasonInv'
    BY <1>1 DEF traderVars, SInv, TraderTypeOK, ReasonInv
  <2> QED BY <1>1, <2>1, SameBooks DEF traderVars
<1>2. CASE \E a \in Threads : Work(a)
  BY <1>2, OpenStep, TrackStep, CloseOneStep, FlattenedStep, BuildStep, WriteStep DEF Work
<1>3. CASE \E p \in Pairs : Item(p) \/ LoopEnds(p)
  BY <1>3, ItemStep, LoopEndsStep
<1>4. CASE MainSteps
  BY <1>4, SeedStep, StartWorkerStep, AllStartedStep, JoinedStep, ShutDownStep DEF MainSteps
<1>5. CASE StartFails \/ KillSwitch \/ Signal \/ Interrupt
  BY <1>5, StartFailsStep, KillSwitchStep, SignalStep, InterruptStep
<1>6. CASE Begin \/ Finish \/ ProgramEnds
  BY <1>6, RunStep, ReturnStep, ProgramEndsStep DEF Begin, Finish, ProgramEnds
<1>7. CASE \E g \in DOMAIN threads : Listener(g)
  BY <1>7, ListenerStep
<1>8. CASE Message \/ Minute \/ UNCHANGED vars
  BY <1>1, <1>8 DEF Message, Minute, vars
<1> QED BY <1>2, <1>3, <1>4, <1>5, <1>6, <1>7, <1>8 DEF Next, TraderStep

\* The books, the journal, the file, the reason and what every thread has still to do agree,
\* whoever works, stops, fails or dies.
THEOREM InductiveInvariant == Spec => []SInv
<1>1. Init => SInv
  BY InitSInv
<1>2. SInv /\ [Next]_vars => SInv'
  BY NextSInv
<1> QED BY <1>1, <1>2, PTL DEF Spec

LEMMA ReturnedAccounted == SInv => Accounted
<1> SUFFICES ASSUME SInv, where = "returned", how = "joined", NEW p \in Pairs
             PROVE  /\ tracked[p] = Ours(p) /\ data[p] = tracked[p]
                    /\ Spent("disk") = 0 => file[p] = tracked[p]
                    /\ setup.closeAll => Cardinality(tracked[p]) <= Spent("refuse")
                    /\ said[p] = [reason |-> IF asked = <<>> THEN "stop()" ELSE Head(asked),
                                  open |-> Cardinality(Ours(p))]
  BY DEF Accounted
<1>1. Orderly /\ started = Pairs /\ at = setup.pairs
  BY DEF SInv, ControlInv, SaidInv, Orderly
<1>2. \A a \in Threads : ~Busy(a)
  BY <1>1, NobodyBusy
<1>3. tracked[p] = Ours(p) /\ data[p] = tracked[p]
  BY <1>1, <1>2 DEF SInv, WorkInv, AtRest
<1>4. Spent("disk") = 0 => file[p] = tracked[p]
  BY <1>3 DEF SInv, FileInv
<1>5. setup.closeAll => Cardinality(tracked[p]) <= Spent("refuse")
  <2>1. p \in 1..at /\ Main \in Threads
    BY <1>1 DEF Pairs, Threads
  <2> QED BY <1>1, <1>2, <2>1 DEF SInv, CloseInv, Flattening, FewLeft
<1>6. said[p] = [reason |-> IF asked = <<>> THEN "stop()" ELSE Head(asked),
                 open |-> Cardinality(Ours(p))]
  <2>1. (IF reason = None THEN "stop()" ELSE reason)
            = (IF asked = <<>> THEN "stop()" ELSE Head(asked))
    BY DEF SInv, ReasonInv
  <2>2. said[p] = [reason |-> IF reason = None THEN "stop()" ELSE reason,
                   open |-> Cardinality(tracked[p])]
    BY <1>1 DEF SInv, SaidInv
  <2> QED BY <1>3, <2>1, <2>2
<1> QED BY <1>3, <1>4, <1>5, <1>6

\* When run returns after an orderly stop, every position it leaves is tracked, in the
\* journal, in the file unless a write failed, and told with the first reason asked for.
THEOREM LeavesAccounted == Spec => []Accounted
<1>1. Spec => []SInv
  BY InductiveInvariant
<1>2. SInv => Accounted
  BY ReturnedAccounted
<1> QED BY <1>1, <1>2, PTL

------------------------------------------------------------------------------
(* Chat commands: no update is handled twice, and what stops a session was confirmed, in
   time, by who asked for it. *)

Update == [id : Nat, person : STRING, what : STRING, date : Nat]
Thread == [at : {"asking", "out", "reading", "gone"}, batch : Seq(Update), since : Nat]
Record == [id : Nat, what : STRING, person : STRING, at : Nat, session : Nat, stops : BOOLEAN]

CmdTypeOK ==
    /\ setup \in Setups /\ session \in Nat
    /\ clock \in Nat /\ sent \in Nat /\ offset \in Nat /\ crashed \in Nat
    /\ generation \in Nat /\ listening \in BOOLEAN
    /\ inbox \in Seq(Update) /\ handled \in Seq(Record)
    /\ threads \in Seq(Thread) /\ Len(threads) = generation

Ascending(s) == \A i, j \in 1..Len(s) : i < j => s[i].id < s[j].id
From(s, n) == \A i \in 1..Len(s) : s[i].id >= n
Below(s, n) == \A i \in 1..Len(s) : s[i].id < n
SentBy(s, time) == \A i \in 1..Len(s) : s[i].date <= time
\* What was handled of these updates was handled after it was sent, ...
SinceSent(s) ==
    \A k \in 1..Len(handled) : \A i \in 1..Len(s) :
        handled[k].id = s[i].id => s[i].date <= handled[k].at
\* ... or was handled by a program that has ended since.
LongAgo(s) ==
    \A k \in 1..Len(handled) : \A i \in 1..Len(s) :
        handled[k].id = s[i].id => handled[k].at <= crashed

\* Telegram numbers the updates, and none is lost that was not yet read.
InboxInv ==
    /\ Ascending(inbox) /\ Below(inbox, sent + 1) /\ SentBy(inbox, clock) /\ SinceSent(inbox)
    /\ offset <= sent + 1 /\ crashed <= clock

Current == threads[generation]

\* The thread that is alive has out, or reads, nothing that this program has handled.
CurrentInv ==
    listening =>
        /\ generation > 0 /\ crashed < Current.since
        /\ Current.at = "out" => From(inbox, offset)
        /\ Current.at = "reading" =>
               /\ Ascending(Current.batch) /\ Below(Current.batch, offset)
               /\ SentBy(Current.batch, clock) /\ SinceSent(Current.batch)
               /\ LongAgo(Current.batch)

\* What this program has handled lies before its offset; nothing is handled twice.
HandledInv ==
    /\ \A k \in 1..Len(handled) :
           /\ handled[k].at <= clock /\ handled[k].id <= sent
           /\ handled[k].id < offset \/ handled[k].at <= crashed
    /\ \A i, k \in 1..Len(handled) : i < k => handled[i].id /= handled[k].id

\* The /stop of entry i is still the newest that counts.
LastStop(i) ==
    /\ handled[i].what = "stop" /\ handled[i].person \in Commanders
    /\ handled[i].session = session
    /\ \A j \in (i + 1)..Len(handled) :
           /\ ~handled[j].stops
           /\ handled[j].person \in Commanders => handled[j].what /= "stop"

\* What waits to be confirmed is the newest /stop of a session that can still be stopped.
PendingInv ==
    pending /= Nobody =>
        /\ Listed
        /\ pending.until \in Nat
        /\ \E i \in 1..Len(handled) :
               /\ LastStop(i)
               /\ handled[i].person = pending.person /\ handled[i].at + Confirm = pending.until

\* Each stop was confirmed.
Stopped(k) ==
    handled[k].stops =>
        /\ handled[k].person \in Commanders
        /\ \E i \in 1..(k - 1) :
               /\ handled[i].what = "stop" /\ handled[i].at >= handled[k].at - Confirm
               /\ handled[i].person = handled[k].person
               /\ handled[i].session = handled[k].session
               /\ \A j \in (i + 1)..(k - 1) :
                      /\ ~handled[j].stops
                      /\ handled[j].person \in Commanders => handled[j].what /= "stop"

StoppedInv == \A k \in 1..Len(handled) : Stopped(k)

IInv == CmdTypeOK /\ InboxInv /\ CurrentInv /\ HandledInv /\ PendingInv /\ StoppedInv

-----------------------------------------------------------------------------
(* Operators of the model *)

LEMMA CommandsSetupFacts ==
    ASSUME setup \in Setups
    PROVE  /\ setup.writes \subseteq STRING \X STRING
           /\ setup.messages \in Nat /\ setup.clock \in Nat
BY SetupsAssumption DEF Setup

LEMMA UpdateFacts ==
    ASSUME NEW s \in Seq(Update)
    PROVE  /\ Len(s) \in Nat /\ (s = <<>> <=> Len(s) = 0)
           /\ \A i \in 1..Len(s) :
                  /\ s[i] \in Update /\ s[i].id \in Nat /\ s[i].date \in Nat
                  /\ s[i].person \in STRING /\ s[i].what \in STRING
<1>1. Len(s) \in Nat /\ (s = <<>> <=> Len(s) = 0)
  BY EmptySeq, LenProperties
<1>2. \A i \in 1..Len(s) : s[i] \in Update
  BY ElementOfSeq
<1> QED BY <1>1, <1>2 DEF Update

LEMMA RecordFacts ==
    ASSUME NEW s \in Seq(Record)
    PROVE  /\ Len(s) \in Nat
           /\ \A k \in 1..Len(s) :
                  /\ s[k].id \in Nat /\ s[k].at \in Nat /\ s[k].session \in Nat
                  /\ s[k].stops \in BOOLEAN
<1>1. Len(s) \in Nat /\ \A k \in 1..Len(s) : s[k] \in Record
  BY ElementOfSeq, LenProperties
<1> QED BY <1>1 DEF Record

LEMMA GoneFacts == Gone \in Thread /\ Gone.at = "gone"
<1>1. <<>> \in Seq(Update)
  BY EmptySeq
<1> QED BY <1>1 DEF Gone, Thread

\* What is left of a sequence of updates after its first keeps what all of them have.
LEMMA TailFacts ==
    ASSUME NEW s \in Seq(Update), s /= <<>>
    PROVE  /\ Tail(s) \in Seq(Update) /\ Len(Tail(s)) \in Nat /\ Len(Tail(s)) = Len(s) - 1
           /\ \A i \in 1..Len(Tail(s)) : i + 1 \in 1..Len(s) /\ Tail(s)[i] = s[i + 1]
           /\ Head(s) = s[1] /\ Head(s) \in Update /\ 1 \in 1..Len(s)
<1>1. Len(s) \in Nat /\ Len(s) > 0
  BY UpdateFacts
<1>2. /\ Tail(s) \in Seq(Update) /\ Len(Tail(s)) = Len(s) - 1
      /\ \A i \in 1..Len(Tail(s)) : Tail(s)[i] = s[i + 1]
      /\ Head(s) \in Update
  BY HeadTailProperties
<1>3. Head(s) = s[1]
  BY <1>1
<1> QED BY <1>1, <1>2, <1>3

\* The newest of the updates carries the greatest number.
LEMMA NewestNumber ==
    ASSUME inbox \in Seq(Update), inbox /= <<>>, Ascending(inbox)
    PROVE  /\ Max(Numbers) \in Nat
           /\ \A i \in 1..Len(inbox) : inbox[i].id <= Max(Numbers)
           /\ \E i \in 1..Len(inbox) : Max(Numbers) = inbox[i].id
<1>1. /\ Len(inbox) \in Nat /\ Len(inbox) \in 1..Len(inbox)
      /\ \A i \in 1..Len(inbox) : inbox[i].id \in Nat
  BY UpdateFacts
<1>2. DOMAIN inbox = 1..Len(inbox)
  BY LenProperties
<1>3. Numbers = {inbox[i].id : i \in 1..Len(inbox)}
  BY <1>2 DEF Numbers, Range
<1> DEFINE last == inbox[Len(inbox)].id
<1>4. last \in Numbers /\ \A n \in Numbers : last >= n
  BY <1>1, <1>3 DEF Ascending
<1>5. Max(Numbers) \in Numbers /\ \A n \in Numbers : Max(Numbers) >= n
  BY <1>4 DEF Max
<1> QED BY <1>1, <1>3, <1>5

LEMMA PutFacts ==
    ASSUME CmdTypeOK, NEW g \in 1..Len(threads), NEW t \in Thread, Put(g, t)
    PROVE  /\ threads' \in Seq(Thread) /\ Len(threads') = Len(threads)
           /\ threads'[g] = t
           /\ \A h \in 1..Len(threads) : h /= g => threads'[h] = threads[h]
BY ExceptSeq DEF Put, CmdTypeOK

LEMMA ThreadFacts ==
    ASSUME CmdTypeOK, NEW g \in 1..Len(threads)
    PROVE  /\ threads[g] \in Thread /\ threads[g].batch \in Seq(Update) /\ threads[g].since \in Nat
           /\ generation \in Nat /\ g \in 1..generation
<1>1. threads \in Seq(Thread) /\ Len(threads) = generation /\ generation \in Nat
  BY DEF CmdTypeOK
<1>2. threads[g] \in Thread
  BY <1>1, ElementOfSeq
<1> QED BY <1>1, <1>2 DEF Thread

-----------------------------------------------------------------------------
(* Steps that leave the updates and what was handled alone *)

LEMMA CurrentKept ==
    ASSUME CurrentInv,
           UNCHANGED <<listening, generation, offset, crashed, clock, inbox, handled>>,
           listening => Current' = Current
    PROVE  CurrentInv'
<1> SUFFICES ASSUME listening, Current' = Current PROVE CurrentInv'
  BY DEF CurrentInv
<1>1. generation > 0 /\ crashed < Current.since
  BY DEF CurrentInv
<1>2. ASSUME Current.at = "out" PROVE From(inbox, offset)'
  BY <1>2 DEF CurrentInv, From
<1>3. ASSUME Current.at = "reading"
      PROVE  /\ Ascending(Current.batch)' /\ Below(Current.batch, offset)'
             /\ SentBy(Current.batch, clock)' /\ SinceSent(Current.batch)'
             /\ LongAgo(Current.batch)'
  <2>1. /\ Ascending(Current.batch) /\ Below(Current.batch, offset)
        /\ SentBy(Current.batch, clock) /\ SinceSent(Current.batch) /\ LongAgo(Current.batch)
    BY <1>3 DEF CurrentInv
  <2> QED BY <2>1 DEF Below, Ascending, SentBy, SinceSent, LongAgo
<1> QED BY <1>1, <1>2, <1>3 DEF CurrentInv

LEMMA QuietStep ==
    ASSUME IInv, Listed => Listed', pending' = pending \/ pending' = Nobody,
           UNCHANGED <<setup, session, clock, sent, offset, crashed, inbox, handled>>,
           generation' \in Nat, listening' \in BOOLEAN,
           threads' \in Seq(Thread), Len(threads') = generation', CurrentInv'
    PROVE  IInv'
<1>1. CmdTypeOK'
  BY DEF IInv, CmdTypeOK
<1>2. InboxInv'
  BY DEF IInv, InboxInv, Below, Ascending, SentBy, SinceSent
<1>3. HandledInv'
  BY DEF IInv, HandledInv
<1>4. PendingInv'
  BY DEF IInv, PendingInv, LastStop
<1>5. StoppedInv'
  BY DEF IInv, StoppedInv, Stopped
<1> QED BY <1>1, <1>2, <1>3, <1>4, <1>5 DEF IInv

LEMMA PutStep ==
    ASSUME IInv, NEW g \in 1..Len(threads), NEW t \in Thread, Put(g, t),
           Listed => Listed',
           UNCHANGED <<setup, session, clock, sent, offset, crashed, inbox, handled, pending,
                       generation, listening>>,
           AliveThread(g) =>
               /\ t.since = Current.since
               /\ t.at /= "out"
               /\ t.at = "reading" =>
                      /\ Ascending(t.batch) /\ Below(t.batch, offset)
                      /\ SentBy(t.batch, clock) /\ SinceSent(t.batch) /\ LongAgo(t.batch)
    PROVE  IInv'
<1>1. /\ threads' \in Seq(Thread) /\ Len(threads') = Len(threads) /\ threads'[g] = t
      /\ \A h \in 1..Len(threads) : h /= g => threads'[h] = threads[h]
  BY PutFacts DEF IInv
<1>2. generation \in Nat /\ Len(threads) = generation /\ listening \in BOOLEAN
  BY DEF IInv, CmdTypeOK
<1>3. CASE AliveThread(g)
  <2>1. Current' = t
    BY <1>1, <1>3 DEF AliveThread, Current
  <2>2. crashed < Current.since /\ generation > 0
    BY <1>3 DEF IInv, CurrentInv, AliveThread
  <2>3. t.since = Current.since /\ t.at /= "out"
    BY <1>3
  <2>4. ASSUME t.at = "reading"
        PROVE  /\ Ascending(Current.batch)' /\ Below(Current.batch, offset)'
               /\ SentBy(Current.batch, clock)' /\ SinceSent(Current.batch)'
               /\ LongAgo(Current.batch)'
    <3>1. /\ Ascending(t.batch) /\ Below(t.batch, offset)
          /\ SentBy(t.batch, clock) /\ SinceSent(t.batch) /\ LongAgo(t.batch)
      BY <1>3, <2>4
    <3> QED BY <2>1, <3>1 DEF Ascending, Below, SentBy, SinceSent, LongAgo
  <2>5. CurrentInv'
    BY <2>1, <2>2, <2>3, <2>4 DEF CurrentInv
  <2> QED BY <1>1, <1>2, <2>5, QuietStep
<1>4. CASE ~AliveThread(g)
  <2>1. listening => Current' = Current
    <3> SUFFICES ASSUME listening PROVE Current' = Current
      OBVIOUS
    <3>1. g /= generation /\ generation > 0
      BY <1>4 DEF AliveThread, IInv, CurrentInv
    <3> QED BY <1>1, <1>2, <3>1 DEF Current
  <2>2. CurrentInv'
    BY <2>1, CurrentKept DEF IInv
  <2> QED BY <1>1, <1>2, <2>2, QuietStep
<1> QED BY <1>3, <1>4

-----------------------------------------------------------------------------
(* The trader's steps and the lifetime of the listener *)

\* The trader's own steps stay in the session.
LEMMA TraderFrame ==
    ASSUME TraderStep
    PROVE  UNCHANGED <<setup, session>> /\ (Listed => Listed')
<1>1. ASSUME NEW a, Work(a) PROVE UNCHANGED <<setup, session, where>>
  <2>1. CASE Open(a)
    BY <2>1 DEF Open, InThread
  <2>2. CASE Track(a)
    BY <2>2 DEF Track, InThread
  <2>3. CASE CloseOne(a)
    BY <2>3 DEF CloseOne, InThread
  <2>4. CASE Flattened(a)
    BY <2>4 DEF Flattened, InThread
  <2>5. CASE Build(a)
    BY <2>5 DEF Build, InThread
  <2>6. CASE Write(a)
    BY <2>6 DEF Write, InThread
  <2> QED BY <1>1, <2>1, <2>2, <2>3, <2>4, <2>5, <2>6 DEF Work
<1>2. ASSUME NEW p, Item(p) \/ LoopEnds(p) PROVE UNCHANGED <<setup, session, where>>
  BY <1>2 DEF Item, LoopEnds
<1>3. ASSUME MainSteps PROVE UNCHANGED <<setup, session>> /\ Listed'
  BY <1>3 DEF MainSteps, Seed, StartWorker, AllStarted, Joined, ShutDown, Listed
<1>4. ASSUME StartFails PROVE UNCHANGED <<setup, session>> /\ Listed'
  BY <1>4 DEF StartFails, Listed
<1>5. ASSUME KillSwitch \/ Signal PROVE UNCHANGED <<setup, session, where>>
  BY <1>5 DEF KillSwitch, Signal
<1>6. ASSUME Interrupt PROVE UNCHANGED <<setup, session>> /\ Listed'
  BY <1>6 DEF Interrupt, Listed
<1> QED BY <1>1, <1>2, <1>3, <1>4, <1>5, <1>6 DEF TraderStep, Listed

LEMMA TraderStepKeeps == ASSUME IInv, TraderStep PROVE IInv'
<1>1. UNCHANGED <<setup, session>> /\ (Listed => Listed') /\ UNCHANGED cmdVars
  BY TraderFrame DEF TraderStep
<1>2. CurrentInv'
  BY <1>1, CurrentKept DEF IInv, cmdVars, Current
<1> QED BY <1>1, <1>2, QuietStep DEF IInv, CmdTypeOK, cmdVars

\* A session begins with nothing to confirm, and its thread after every crash.
LEMMA BeginStep == ASSUME IInv, Begin PROVE IInv'
<1>1. /\ setup' = setup /\ session' = session + 1
      /\ where \in {"off", "returned"}
      /\ UNCHANGED <<clock, inbox, offset, pending, off, handled, crashed, sent>>
      /\ clock > crashed
  BY DEF Begin, Run
<1>2. pending = Nobody
  BY <1>1 DEF IInv, PendingInv, Listed
<1> DEFINE fresh == [at |-> "asking", batch |-> <<>>, since |-> clock]
<1>3. \/ UNCHANGED <<generation, listening, threads>>
      \/ /\ generation' = generation + 1 /\ listening' = TRUE
         /\ threads' = Append(threads, fresh)
  BY DEF Begin
<1>4. /\ threads \in Seq(Thread) /\ Len(threads) = generation /\ generation \in Nat
      /\ clock \in Nat /\ crashed \in Nat /\ session \in Nat
  BY DEF IInv, CmdTypeOK
<1>5. fresh \in Thread
  BY <1>4, EmptySeq DEF Thread
<1>6. CASE UNCHANGED <<generation, listening, threads>>
  <2>1. CurrentInv'
    BY <1>1, <1>6, CurrentKept DEF IInv, Current
  <2>2. CmdTypeOK'
    BY <1>1, <1>4, <1>6 DEF IInv, CmdTypeOK
  <2> QED BY <1>1, <1>2, <2>1, <2>2 DEF IInv, InboxInv, HandledInv, PendingInv, StoppedInv,
             Below, Ascending, SentBy, SinceSent, Stopped
<1>7. CASE /\ generation' = generation + 1 /\ listening' = TRUE
           /\ threads' = Append(threads, fresh)
  <2>1. /\ threads' \in Seq(Thread) /\ Len(threads') = generation'
        /\ threads'[generation'] = fresh
    BY <1>4, <1>5, <1>7, AppendProperties
  <2>2. CurrentInv'
    BY <1>1, <1>4, <1>7, <2>1 DEF CurrentInv, Current
  <2>3. CmdTypeOK'
    BY <1>1, <1>4, <1>7, <2>1 DEF IInv, CmdTypeOK
  <2> QED BY <1>1, <1>2, <2>2, <2>3 DEF IInv, InboxInv, HandledInv, PendingInv, StoppedInv,
             Below, Ascending, SentBy, SinceSent, Stopped
<1> QED BY <1>3, <1>6, <1>7

LEMMA FinishStep == ASSUME IInv, Finish PROVE IInv'
<1>1. /\ UNCHANGED <<setup, session, clock, inbox, offset, off, handled, crashed, sent>>
      /\ listening' = FALSE /\ generation' = generation + 1 /\ pending' = Nobody
      /\ threads' = Append(threads, Gone)
  BY DEF Finish, Return, Pause
<1>2. threads \in Seq(Thread) /\ Len(threads) = generation /\ generation \in Nat
  BY DEF IInv, CmdTypeOK
<1>3. threads' \in Seq(Thread) /\ Len(threads') = generation' /\ generation' \in Nat
  BY <1>1, <1>2, GoneFacts, AppendProperties
<1>4. CmdTypeOK'
  BY <1>1, <1>3 DEF IInv, CmdTypeOK
<1>5. CurrentInv' /\ PendingInv'
  BY <1>1 DEF CurrentInv, PendingInv
<1> QED BY <1>1, <1>4, <1>5 DEF IInv, InboxInv, HandledInv, StoppedInv,
           Below, Ascending, SentBy, SinceSent, Stopped

\* What was handled until now belongs to a program that has ended.
LEMMA ProgramEndsKeeps == ASSUME IInv, ProgramEnds PROVE IInv'
<1>1. /\ UNCHANGED <<setup, session, clock, inbox, handled, sent>>
      /\ listening' = FALSE /\ generation' = generation + 1 /\ pending' = Nobody
      /\ offset' = 0 /\ crashed' = clock
      /\ threads' = [g \in 1..(generation + 1) |-> Gone]
  BY DEF ProgramEnds, Crash, ForceQuit, Pause
<1>2. clock \in Nat /\ generation \in Nat /\ sent \in Nat
  BY DEF IInv, CmdTypeOK
<1>3. threads' \in Seq(Thread) /\ Len(threads') = generation + 1
  <2>1. threads' \in [1..(generation + 1) -> Thread] /\ generation + 1 \in Nat
    BY <1>1, <1>2, GoneFacts
  <2> QED BY <2>1, SeqDef
<1>4. CmdTypeOK'
  <2>1. /\ UNCHANGED <<setup, session, clock, inbox, handled, sent>>
        /\ listening' = FALSE /\ generation' = generation + 1
        /\ offset' = 0 /\ crashed' = clock
    BY <1>1
  <2>2. generation' \in Nat /\ Len(threads') = generation'
    BY <2>1, <1>2, <1>3
  <2> QED BY <2>1, <2>2, <1>2, <1>3 DEF IInv, CmdTypeOK
<1>5. CurrentInv' /\ PendingInv'
  BY <1>1 DEF CurrentInv, PendingInv
<1>6. HandledInv'
  BY <1>1 DEF IInv, HandledInv
<1>7. InboxInv'
  BY <1>1, <1>2 DEF IInv, InboxInv, Below, Ascending, SentBy, SinceSent
<1> QED BY <1>1, <1>4, <1>5, <1>6, <1>7 DEF IInv, StoppedInv, Stopped

LEMMA MinuteStep == ASSUME IInv, Minute PROVE IInv'
<1>1. /\ clock' = clock + 1
      /\ UNCHANGED <<traderVars, inbox, offset, generation, listening, pending, threads, off,
                     handled, crashed, sent>>
      /\ UNCHANGED <<setup, session, where>>
  BY DEF Minute, traderVars
<1>2. /\ clock \in Nat /\ crashed \in Nat /\ generation \in Nat
      /\ inbox \in Seq(Update) /\ handled \in Seq(Record)
  BY DEF IInv, CmdTypeOK
<1>3. CmdTypeOK'
  BY <1>1, <1>2 DEF IInv, CmdTypeOK
<1>4. ASSUME NEW s \in Seq(Update), SentBy(s, clock) PROVE SentBy(s, clock')
  BY <1>1, <1>2, <1>4, UpdateFacts DEF SentBy
<1>5. InboxInv'
  <2>1. SentBy(inbox, clock)'
    BY <1>1, <1>2, <1>4 DEF IInv, InboxInv, SentBy
  <2> QED BY <1>1, <1>2, <2>1 DEF IInv, InboxInv, Below, Ascending, SinceSent
<1>6. HandledInv'
  BY <1>1, <1>2, RecordFacts DEF IInv, HandledInv
<1>7. CurrentInv'
  <2> SUFFICES ASSUME listening PROVE CurrentInv'
    BY <1>1 DEF CurrentInv
  <2>1. generation > 0 /\ crashed < Current.since /\ Current' = Current
    BY <1>1 DEF IInv, CurrentInv, Current
  <2>2. ASSUME Current.at = "out" PROVE From(inbox, offset)'
    BY <1>1, <2>2 DEF IInv, CurrentInv, From
  <2>3. ASSUME Current.at = "reading"
        PROVE  /\ Ascending(Current.batch)' /\ Below(Current.batch, offset)'
               /\ SentBy(Current.batch, clock)' /\ SinceSent(Current.batch)'
               /\ LongAgo(Current.batch)'
    <3>1. /\ Ascending(Current.batch) /\ Below(Current.batch, offset)
          /\ SentBy(Current.batch, clock) /\ SinceSent(Current.batch) /\ LongAgo(Current.batch)
      BY <2>3 DEF IInv, CurrentInv
    <3>2. Current.batch \in Seq(Update)
      BY <1>2, <2>1, ThreadFacts DEF IInv, CmdTypeOK, Current
    <3>3. SentBy(Current.batch, clock')
      BY <1>4, <3>1, <3>2
    <3> QED BY <1>1, <2>1, <3>1, <3>3 DEF Below, Ascending, SentBy, SinceSent, LongAgo
  <2> QED BY <1>1, <2>1, <2>2, <2>3 DEF CurrentInv
<1>8. PendingInv' /\ StoppedInv'
  BY <1>1 DEF IInv, PendingInv, StoppedInv, Stopped, LastStop, Listed
<1> QED BY <1>3, <1>5, <1>6, <1>7, <1>8 DEF IInv

\* A new update comes after all the others.
LEMMA MessageStep == ASSUME IInv, Message PROVE IInv'
<1>1. /\ sent' = sent + 1
      /\ UNCHANGED <<traderVars, clock, offset, generation, listening, pending, threads, off,
                     handled, crashed>>
      /\ UNCHANGED <<setup, session, where>>
  BY DEF Message, traderVars
<1>2. /\ clock \in Nat /\ sent \in Nat /\ generation \in Nat /\ offset \in Nat
      /\ inbox \in Seq(Update) /\ handled \in Seq(Record) /\ setup \in Setups
  BY DEF IInv, CmdTypeOK
<1>3. PICK u \in Update : inbox' = Append(inbox, u) /\ u.id = sent + 1 /\ u.date = clock
  <2>1. PICK w \in setup.writes :
            inbox' = Append(inbox, [id |-> sent + 1, person |-> w[1], what |-> w[2],
                                    date |-> clock])
    BY DEF Message
  <2>2. w[1] \in STRING /\ w[2] \in STRING
    BY <1>2, CommandsSetupFacts
  <2> DEFINE u == [id |-> sent + 1, person |-> w[1], what |-> w[2], date |-> clock]
  <2>3. u \in Update /\ u.id = sent + 1 /\ u.date = clock
    BY <1>2, <2>2 DEF Update
  <2> QED BY <2>1, <2>3
<1>4. /\ inbox' \in Seq(Update) /\ Len(inbox) \in Nat /\ Len(inbox') = Len(inbox) + 1
      /\ \A i \in 1..Len(inbox) : inbox'[i] = inbox[i]
      /\ inbox'[Len(inbox) + 1] = u
  BY <1>2, <1>3, AppendProperties, LenProperties
<1>5. \A i \in 1..Len(inbox) : inbox[i].id \in Nat /\ inbox[i].id < sent + 1
  BY <1>2, UpdateFacts DEF IInv, InboxInv, Below
<1>6. CmdTypeOK'
  BY <1>1, <1>2, <1>4 DEF IInv, CmdTypeOK
<1>7. \A i \in 1..Len(inbox') : i \in 1..Len(inbox) \/ i = Len(inbox) + 1
  BY <1>4
<1>8. InboxInv'
  <2>1. Ascending(inbox)'
    BY <1>2, <1>3, <1>4, <1>5, <1>7 DEF IInv, InboxInv, Ascending
  <2>2. Below(inbox, sent + 1)'
    BY <1>1, <1>2, <1>3, <1>4, <1>5, <1>7 DEF Below
  <2>3. SentBy(inbox, clock)'
    BY <1>1, <1>2, <1>3, <1>4, <1>7 DEF IInv, InboxInv, SentBy
  <2>4. SinceSent(inbox)'
    <3>1. \A k \in 1..Len(handled) : handled[k].id <= sent /\ handled[k].id \in Nat
      BY <1>2, RecordFacts DEF IInv, HandledInv
    <3>2. \A k \in 1..Len(handled) : handled[k].id /= u.id
      BY <1>2, <1>3, <3>1
    <3> QED BY <1>1, <1>4, <1>7, <3>2 DEF IInv, InboxInv, SinceSent
  <2> QED BY <1>1, <1>2, <2>1, <2>2, <2>3, <2>4 DEF IInv, InboxInv, CmdTypeOK
<1>9. CurrentInv'
  <2> SUFFICES ASSUME listening PROVE CurrentInv'
    BY <1>1 DEF CurrentInv
  <2>1. generation > 0 /\ crashed < Current.since /\ Current' = Current
    BY <1>1 DEF IInv, CurrentInv, Current
  <2>2. ASSUME Current.at = "out" PROVE From(inbox, offset)'
    <3>1. From(inbox, offset) /\ offset <= sent + 1
      BY <2>2 DEF IInv, CurrentInv, InboxInv
    <3> QED BY <1>1, <1>2, <1>3, <1>4, <1>7, <3>1 DEF From
  <2>3. ASSUME Current.at = "reading"
        PROVE  /\ Ascending(Current.batch)' /\ Below(Current.batch, offset)'
               /\ SentBy(Current.batch, clock)' /\ SinceSent(Current.batch)'
               /\ LongAgo(Current.batch)'
    <3>1. /\ Ascending(Current.batch) /\ Below(Current.batch, offset)
          /\ SentBy(Current.batch, clock) /\ SinceSent(Current.batch) /\ LongAgo(Current.batch)
      BY <2>3 DEF IInv, CurrentInv
    <3> QED BY <1>1, <2>1, <3>1 DEF Below, Ascending, SentBy, SinceSent, LongAgo
  <2> QED BY <1>1, <2>1, <2>2, <2>3 DEF CurrentInv
<1>10. HandledInv'
  BY <1>1, <1>2, RecordFacts DEF IInv, HandledInv
<1>11. PendingInv' /\ StoppedInv'
  BY <1>1 DEF IInv, PendingInv, StoppedInv, Stopped, LastStop, Listed
<1> QED BY <1>6, <1>8, <1>9, <1>10, <1>11 DEF IInv

-----------------------------------------------------------------------------
(* The listener's steps *)

\* Telegram keeps what a request has not confirmed.
LEMMA AskStep ==
    ASSUME IInv, NEW g \in 1..Len(threads), Ask(g)
    PROVE  IInv'
<1> DEFINE t == [threads[g] EXCEPT !.at = "out", !.batch = <<>>]
<1>1. /\ Put(g, t) /\ AliveThread(g)
      /\ UNCHANGED <<traderVars, clock, offset, listening, generation, pending, off, handled,
                     crashed, sent>>
      /\ UNCHANGED <<setup, session, where>>
  BY DEF Ask, traderVars
<1>2. PICK n \in 0..Len(inbox) :
          /\ \A k \in 1..Len(inbox) : inbox[k].id < offset <=> k <= n
          /\ inbox' = SubSeq(inbox, n + 1, Len(inbox))
  BY DEF Ask
<1>3. /\ inbox \in Seq(Update) /\ Len(inbox) \in Nat /\ offset \in Nat
      /\ \A i \in 1..Len(inbox) : inbox[i].id \in Nat /\ inbox[i] \in Update
  BY UpdateFacts DEF IInv, CmdTypeOK
<1>4. /\ inbox' \in Seq(Update) /\ Len(inbox') = Len(inbox) - n
      /\ \A i \in 1..Len(inbox') : inbox'[i] = inbox[n + i] /\ n + i \in 1..Len(inbox)
  <2>1. /\ SubSeq(inbox, n + 1, Len(inbox)) \in Seq(Update)
        /\ Len(SubSeq(inbox, n + 1, Len(inbox))) =
               IF n + 1 <= Len(inbox) THEN Len(inbox) - (n + 1) + 1 ELSE 0
        /\ \A i \in 1..(Len(inbox) - (n + 1) + 1) :
               SubSeq(inbox, n + 1, Len(inbox))[i] = inbox[n + 1 + i - 1]
    BY <1>3, SubSeqProperties
  <2> QED BY <1>2, <1>3, <2>1
<1>5. t \in Thread /\ t.at = "out" /\ t.since = threads[g].since
  <2>1. threads[g] \in Thread /\ <<>> \in Seq(Update)
    BY ThreadFacts, EmptySeq DEF IInv
  <2> QED BY <2>1 DEF Thread
<1>6. /\ threads' \in Seq(Thread) /\ Len(threads') = Len(threads) /\ threads'[g] = t
  BY <1>1, <1>5, PutFacts DEF IInv
<1>7. CmdTypeOK'
  BY <1>1, <1>4, <1>6 DEF IInv, CmdTypeOK
<1>8. InboxInv'
  <2>1. Ascending(inbox)'
    <3> SUFFICES ASSUME NEW i \in 1..Len(inbox'), NEW j \in 1..Len(inbox'), i < j
                 PROVE  inbox'[i].id < inbox'[j].id
      BY DEF Ascending
    <3>1. /\ inbox'[i] = inbox[n + i] /\ n + i \in 1..Len(inbox)
          /\ inbox'[j] = inbox[n + j] /\ n + j \in 1..Len(inbox)
          /\ n + i < n + j
      BY <1>4
    <3> QED BY <3>1 DEF IInv, InboxInv, Ascending
  <2>2. Below(inbox, sent + 1)' /\ SentBy(inbox, clock)' /\ SinceSent(inbox)'
    BY <1>1, <1>4 DEF IInv, InboxInv, Below, SentBy, SinceSent
  <2> QED BY <1>1, <2>1, <2>2 DEF IInv, InboxInv
<1>9. CurrentInv'
  <2>1. Current' = t /\ generation > 0 /\ crashed < Current.since /\ g = generation
    BY <1>1, <1>6 DEF IInv, CurrentInv, AliveThread, Current
  <2>2. t.since = Current.since
    BY <1>5, <2>1 DEF Current
  <2>3. From(inbox, offset)'
    <3> SUFFICES ASSUME NEW i \in 1..Len(inbox') PROVE inbox'[i].id >= offset
      BY <1>1 DEF From
    <3>1. n + i \in 1..Len(inbox) /\ inbox'[i] = inbox[n + i] /\ ~(n + i <= n)
      BY <1>2, <1>3, <1>4
    <3> QED BY <1>2, <1>3, <3>1
  <2> QED BY <1>1, <1>5, <2>1, <2>2, <2>3 DEF CurrentInv
<1>10. HandledInv' /\ PendingInv' /\ StoppedInv'
  BY <1>1 DEF IInv, HandledInv, PendingInv, StoppedInv, Stopped, LastStop, Listed
<1> QED BY <1>7, <1>8, <1>9, <1>10 DEF IInv

LEMMA LeaveStep ==
    ASSUME IInv, NEW g \in 1..Len(threads), Leave(g)
    PROVE  IInv'
<1>1. /\ Put(g, Gone) /\ ~AliveThread(g)
      /\ UNCHANGED <<setup, session, where, clock, sent, offset, crashed, inbox, handled, pending,
                     generation, listening>>
  BY DEF Leave, ThreadStep, traderVars
<1> QED BY <1>1, PutStep, GoneFacts DEF Listed

LEMMA NoAnswerStep ==
    ASSUME IInv, NEW g \in 1..Len(threads), NoAnswer(g)
    PROVE  IInv'
<1> DEFINE t == [threads[g] EXCEPT !.at = "asking"]
<1>1. /\ Put(g, IF AliveThread(g) THEN t ELSE Gone)
      /\ UNCHANGED <<setup, session, where, clock, sent, offset, crashed, inbox, handled, pending,
                     generation, listening>>
  BY DEF NoAnswer, ThreadStep, NothingElse
<1>2. t \in Thread /\ t.at = "asking" /\ t.since = threads[g].since
  BY ThreadFacts DEF IInv, Thread
<1>3. CASE AliveThread(g)
  BY <1>1, <1>2, <1>3, PutStep DEF AliveThread, Current, Listed
<1>4. CASE ~AliveThread(g)
  BY <1>1, <1>4, PutStep, GoneFacts DEF Listed
<1> QED BY <1>3, <1>4

LEMMA ReadAllStep ==
    ASSUME IInv, NEW g \in 1..Len(threads), ReadAll(g)
    PROVE  IInv'
<1> DEFINE t == [threads[g] EXCEPT !.at = "asking"]
<1>1. /\ Put(g, t)
      /\ UNCHANGED <<setup, session, where, clock, sent, offset, crashed, inbox, handled, pending,
                     generation, listening>>
  BY DEF ReadAll, ThreadStep, traderVars
<1>2. t \in Thread /\ t.at = "asking" /\ t.since = threads[g].since
  BY ThreadFacts DEF IInv, Thread
<1> QED BY <1>1, <1>2, PutStep DEF AliveThread, Current, Listed

LEMMA RejectedStep ==
    ASSUME IInv, NEW g \in 1..Len(threads), Rejected(g)
    PROVE  IInv'
<1>1. UNCHANGED <<setup, session, where, clock, sent, offset, crashed, inbox, handled>>
  BY DEF Rejected, NothingElse
<1>2. CASE AliveThread(g)
  <2>1. /\ listening' = FALSE /\ generation' = generation + 1 /\ pending' = Nobody
        /\ threads' = Append([threads EXCEPT ![g] = Gone], Gone)
    BY <1>2 DEF Rejected, Pause
  <2>2. threads \in Seq(Thread) /\ Len(threads) = generation /\ generation \in Nat
    BY DEF IInv, CmdTypeOK
  <2>3. [threads EXCEPT ![g] = Gone] \in Seq(Thread) /\ Len([threads EXCEPT ![g] = Gone]) = generation
    BY <2>2, GoneFacts, ExceptSeq
  <2>4. threads' \in Seq(Thread) /\ Len(threads') = generation'
    BY <2>1, <2>2, <2>3, GoneFacts, AppendProperties
  <2>5. CurrentInv'
    BY <2>1 DEF CurrentInv
  <2>6. generation' \in Nat /\ listening' \in BOOLEAN
    <3>1. generation' = generation + 1
      BY <2>1
    <3>2. generation' \in Nat
      BY <2>2, <3>1
    <3> QED BY <2>1, <3>2
  <2>7. Listed => Listed'
    BY <1>1 DEF Listed
  <2> QED BY <1>1, <2>1, <2>4, <2>5, <2>6, <2>7, QuietStep
<1>3. CASE ~AliveThread(g)
  <2>1. Put(g, Gone) /\ UNCHANGED <<listening, generation, pending, off>>
    BY <1>3 DEF Rejected
  <2> QED BY <1>1, <1>3, <2>1, PutStep, GoneFacts DEF Listed
<1> QED BY <1>2, <1>3

\* What an answer brings is new to this program.
LEMMA AnswerStep ==
    ASSUME IInv, NEW g \in 1..Len(threads), Answer(g)
    PROVE  IInv'
<1>1. /\ UNCHANGED <<setup, session, where, clock, sent, crashed, inbox, handled, pending,
                     generation, listening>>
      /\ threads[g].at = "out" /\ inbox /= <<>>
  BY DEF Answer, ThreadStep, traderVars
<1>2. CASE ~AliveThread(g)
  <2>1. Put(g, Gone) /\ UNCHANGED offset
    BY <1>2 DEF Answer
  <2> QED BY <1>1, <1>2, <2>1, PutStep, GoneFacts DEF Listed
<1>3. CASE AliveThread(g)
  <2> DEFINE t == [threads[g] EXCEPT !.at = "reading", !.batch = inbox]
  <2>1. Put(g, t) /\ offset' = Max(Numbers) + 1
    BY <1>3 DEF Answer
  <2>2. /\ inbox \in Seq(Update) /\ Len(inbox) \in Nat /\ Len(inbox) > 0 /\ handled \in Seq(Record)
        /\ sent \in Nat /\ offset \in Nat /\ crashed \in Nat
        /\ \A i \in 1..Len(inbox) : inbox[i].id \in Nat
    BY <1>1, UpdateFacts DEF IInv, CmdTypeOK
  <2>3. /\ Max(Numbers) \in Nat
        /\ \A i \in 1..Len(inbox) : inbox[i].id <= Max(Numbers)
        /\ \E i \in 1..Len(inbox) : Max(Numbers) = inbox[i].id
    BY <1>1, <2>2, NewestNumber DEF IInv, InboxInv
  <2>4. g = generation /\ listening /\ generation > 0 /\ crashed < Current.since
        /\ Current = threads[g] /\ From(inbox, offset)
    BY <1>1, <1>3 DEF IInv, CurrentInv, AliveThread, Current
  <2>5. /\ offset' \in Nat /\ offset <= offset' /\ offset' <= sent + 1
        /\ Below(inbox, offset')
    BY <2>1, <2>2, <2>3, <2>4 DEF IInv, InboxInv, Below, From
  <2>6. t \in Thread /\ t.at = "reading" /\ t.batch = inbox /\ t.since = threads[g].since
    BY <2>2, ThreadFacts DEF IInv, Thread
  <2>7. /\ threads' \in Seq(Thread) /\ Len(threads') = Len(threads) /\ threads'[g] = t
    BY <2>1, <2>6, PutFacts DEF IInv
  <2>8. CmdTypeOK'
    BY <1>1, <2>5, <2>7 DEF IInv, CmdTypeOK
  <2>9. InboxInv'
    BY <1>1, <2>5 DEF IInv, InboxInv, Below, Ascending, SentBy, SinceSent
  <2>10. LongAgo(inbox)
    <3> SUFFICES ASSUME NEW k \in 1..Len(handled), NEW i \in 1..Len(inbox),
                        handled[k].id = inbox[i].id
                 PROVE  handled[k].at <= crashed
      BY DEF LongAgo
    <3>1. inbox[i].id >= offset
      BY <2>4 DEF From
    <3> QED BY <2>2, <3>1 DEF IInv, HandledInv
  <2>11. CurrentInv'
    <3>1. Current' = t /\ Current'.batch = inbox
      BY <1>1, <2>4, <2>6, <2>7 DEF Current
    <3>2. /\ Ascending(Current.batch)' /\ Below(Current.batch, offset)'
          /\ SentBy(Current.batch, clock)' /\ SinceSent(Current.batch)' /\ LongAgo(Current.batch)'
      BY <1>1, <2>5, <2>10, <3>1 DEF IInv, InboxInv, Below, Ascending, SentBy, SinceSent, LongAgo
    <3> QED BY <1>1, <2>4, <2>6, <3>1, <3>2 DEF CurrentInv
  <2>12. HandledInv'
    <3>1. \A k \in 1..Len(handled) : handled[k].id \in Nat
      BY <2>2, RecordFacts
    <3> QED BY <1>1, <2>2, <2>5, <3>1 DEF IInv, HandledInv
  <2>13. PendingInv' /\ StoppedInv'
    BY <1>1 DEF IInv, PendingInv, StoppedInv, Stopped, LastStop, Listed
  <2> QED BY <2>8, <2>9, <2>11, <2>12, <2>13 DEF IInv
<1> QED BY <1>2, <1>3

-----------------------------------------------------------------------------
(* Reading *)

\* What a batch has, the rest of it has.
LEMMA RestOfBatch ==
    ASSUME NEW s \in Seq(Update), s /= <<>>,
           Ascending(s), Below(s, offset), SentBy(s, clock), SinceSent(s), LongAgo(s)
    PROVE  /\ Ascending(Tail(s)) /\ Below(Tail(s), offset) /\ SentBy(Tail(s), clock)
           /\ SinceSent(Tail(s)) /\ LongAgo(Tail(s))
           /\ \A i \in 1..Len(Tail(s)) : Tail(s)[i].id /= Head(s).id
<1>1. /\ Len(Tail(s)) \in Nat
      /\ \A i \in 1..Len(Tail(s)) : i + 1 \in 1..Len(s) /\ Tail(s)[i] = s[i + 1]
      /\ Head(s) = s[1] /\ 1 \in 1..Len(s)
  BY TailFacts
<1>2. \A i \in 1..Len(s) : s[i].id \in Nat
  BY UpdateFacts
<1>3. Ascending(Tail(s))
  <2> SUFFICES ASSUME NEW i \in 1..Len(Tail(s)), NEW j \in 1..Len(Tail(s)), i < j
               PROVE  Tail(s)[i].id < Tail(s)[j].id
    BY DEF Ascending
  <2>1. /\ Tail(s)[i] = s[i + 1] /\ i + 1 \in 1..Len(s)
        /\ Tail(s)[j] = s[j + 1] /\ j + 1 \in 1..Len(s)
        /\ i + 1 < j + 1
    BY <1>1
  <2> QED BY <2>1 DEF Ascending
<1>4. \A i \in 1..Len(Tail(s)) : Tail(s)[i].id /= Head(s).id
  <2> SUFFICES ASSUME NEW i \in 1..Len(Tail(s)) PROVE Tail(s)[i].id /= Head(s).id
    OBVIOUS
  <2>1. Tail(s)[i] = s[i + 1] /\ i + 1 \in 1..Len(s) /\ 1 < i + 1
    BY <1>1
  <2>2. s[1].id < s[i + 1].id /\ s[1].id \in Nat /\ s[i + 1].id \in Nat
    BY <1>1, <1>2, <2>1 DEF Ascending
  <2> QED BY <1>1, <2>1, <2>2
<1>5. Below(Tail(s), offset) /\ SentBy(Tail(s), clock)
  BY <1>1 DEF Below, SentBy
<1>6. SinceSent(Tail(s)) /\ LongAgo(Tail(s))
  BY <1>1 DEF SinceSent, LongAgo
<1> QED BY <1>3, <1>4, <1>5, <1>6

\* The update that the thread alive handles next was not handled before.
LEMMA NextUpdate ==
    ASSUME IInv, NEW g \in 1..Len(threads), AliveThread(g),
           threads[g].at = "reading", threads[g].batch /= <<>>
    PROVE  LET u == Head(threads[g].batch)
           IN  /\ g = generation /\ generation > 0 /\ listening
               /\ u \in Update /\ u.id < offset /\ u.date <= clock
               /\ u.date >= threads[g].since =>
                      \A k \in 1..Len(handled) : handled[k].id /= u.id
<1> DEFINE s == threads[g].batch
           u == Head(s)
<1>1. /\ g = generation /\ listening /\ generation > 0 /\ crashed < threads[g].since
      /\ Ascending(s) /\ Below(s, offset) /\ SentBy(s, clock) /\ SinceSent(s) /\ LongAgo(s)
  BY DEF AliveThread, IInv, CurrentInv, Current
<1>2. s \in Seq(Update) /\ threads[g].since \in Nat
  BY ThreadFacts DEF IInv
<1>3. u = s[1] /\ u \in Update /\ 1 \in 1..Len(s) /\ u.date \in Nat
  BY <1>2, TailFacts, UpdateFacts
<1>4. u.id < offset /\ u.date <= clock
  BY <1>1, <1>3 DEF Below, SentBy
<1>5. ASSUME u.date >= threads[g].since, NEW k \in 1..Len(handled), handled[k].id = u.id
      PROVE  FALSE
  <2>1. u.date <= handled[k].at /\ handled[k].at <= crashed
    BY <1>1, <1>3, <1>5 DEF SinceSent, LongAgo
  <2>2. handled[k].at \in Nat /\ crashed \in Nat
    BY RecordFacts DEF IInv, CmdTypeOK
  <2> QED BY <1>1, <1>2, <1>3, <1>5, <2>1, <2>2
<1> QED BY <1>1, <1>3, <1>4, <1>5

Entry(u, stops) == [id |-> u.id, what |-> u.what, person |-> u.person,
                    at |-> clock, session |-> session, stops |-> stops]

LEMMA EntryFacts ==
    ASSUME NEW u, NEW stops \in BOOLEAN
    PROVE  /\ Entry(u, stops).id = u.id /\ Entry(u, stops).what = u.what
           /\ Entry(u, stops).person = u.person
           /\ Entry(u, stops).at = clock /\ Entry(u, stops).session = session
BY DEF Entry

LEMMA HandledFacts ==
    ASSUME CmdTypeOK, NEW u \in Update, NEW stops \in BOOLEAN, handled' = Handled(u, stops)
    PROVE  /\ handled' \in Seq(Record) /\ Len(handled) \in Nat
           /\ Len(handled') = Len(handled) + 1
           /\ \A k \in 1..Len(handled) : handled'[k] = handled[k]
           /\ \A k \in 1..Len(handled') : k \in 1..Len(handled) \/ k = Len(handled) + 1
           /\ handled'[Len(handled) + 1] = Entry(u, stops)
<1>1. Entry(u, stops) \in Record
  BY DEF CmdTypeOK, Record, Update, Entry
<1>2. handled' = Append(handled, Entry(u, stops)) /\ handled \in Seq(Record)
  BY DEF Handled, CmdTypeOK, Entry
<1>3. Len(handled) \in Nat
  BY <1>2, LenProperties
<1> QED BY <1>1, <1>2, <1>3, AppendProperties

\* Whatever the command: numbers and times stay in order.
LEMMA HandleStep ==
    ASSUME IInv, NEW g \in 1..Len(threads), AliveThread(g),
           threads[g].at = "reading", threads[g].batch /= <<>>,
           Head(threads[g].batch).date >= threads[g].since,
           Put(g, [threads[g] EXCEPT !.batch = Tail(@)]),
           NEW stops \in BOOLEAN, handled' = Handled(Head(threads[g].batch), stops),
           UNCHANGED <<setup, session, clock, sent, offset, crashed, inbox, generation, listening>>
    PROVE  CmdTypeOK' /\ InboxInv' /\ CurrentInv' /\ HandledInv'
<1> DEFINE s == threads[g].batch
           u == Head(s)
           t == [threads[g] EXCEPT !.batch = Tail(@)]
<1>1. /\ g = generation /\ generation > 0 /\ listening
      /\ u \in Update /\ u.id < offset /\ u.date <= clock
      /\ \A k \in 1..Len(handled) : handled[k].id /= u.id
  BY NextUpdate
<1>2. /\ handled' \in Seq(Record) /\ Len(handled) \in Nat
      /\ Len(handled') = Len(handled) + 1
      /\ \A k \in 1..Len(handled) : handled'[k] = handled[k]
      /\ \A k \in 1..Len(handled') : k \in 1..Len(handled) \/ k = Len(handled) + 1
      /\ handled'[Len(handled) + 1].id = u.id /\ handled'[Len(handled) + 1].at = clock
  <2> HIDE DEF u
  <2>1. CmdTypeOK /\ handled' = Handled(u, stops) /\ u \in Update
    BY <1>1 DEF IInv, u
  <2>2. Entry(u, stops).id = u.id /\ Entry(u, stops).at = clock
    BY EntryFacts
  <2> QED BY <2>1, <2>2, HandledFacts
<1>3. s \in Seq(Update) /\ Tail(s) \in Seq(Update) /\ threads[g] \in Thread
  BY ThreadFacts, TailFacts DEF IInv
<1>4. t \in Thread /\ t.at = "reading" /\ t.batch = Tail(s) /\ t.since = threads[g].since
  BY <1>3 DEF Thread
<1>5. threads' \in Seq(Thread) /\ Len(threads') = Len(threads) /\ threads'[g] = t
  BY <1>4, PutFacts DEF IInv
<1>6. /\ clock \in Nat /\ sent \in Nat /\ offset \in Nat /\ crashed \in Nat
      /\ inbox \in Seq(Update) /\ handled \in Seq(Record) /\ u.id \in Nat /\ clock >= u.date
      /\ u.date \in Nat
  BY <1>1 DEF IInv, CmdTypeOK, Update
<1>7. CmdTypeOK'
  BY <1>2, <1>5 DEF IInv, CmdTypeOK
<1>8. InboxInv'
  <2>1. SinceSent(inbox)'
    <3> SUFFICES ASSUME NEW k \in 1..Len(handled'), NEW i \in 1..Len(inbox),
                        handled'[k].id = inbox[i].id
                 PROVE  inbox[i].date <= handled'[k].at
      BY DEF SinceSent
    <3>1. CASE k \in 1..Len(handled)
      BY <1>2, <3>1 DEF IInv, InboxInv, SinceSent
    <3>2. CASE k = Len(handled) + 1
      BY <1>2, <3>2 DEF IInv, InboxInv, SentBy
    <3> QED BY <1>2, <3>1, <3>2
  <2> QED BY <2>1 DEF IInv, InboxInv, Below, Ascending, SentBy
<1>9. CurrentInv'
  <2>1. /\ Ascending(s) /\ Below(s, offset) /\ SentBy(s, clock) /\ SinceSent(s) /\ LongAgo(s)
        /\ crashed < threads[g].since
    BY <1>1 DEF IInv, CurrentInv, Current
  <2>2. /\ Ascending(Tail(s)) /\ Below(Tail(s), offset) /\ SentBy(Tail(s), clock)
        /\ SinceSent(Tail(s)) /\ LongAgo(Tail(s))
        /\ \A i \in 1..Len(Tail(s)) : Tail(s)[i].id /= u.id
    BY <1>3, <2>1, RestOfBatch
  <2>3. Current' = t /\ Current'.batch = Tail(s) /\ Current'.since = threads[g].since
    BY <1>1, <1>4, <1>5 DEF Current
  <2>4. /\ Ascending(Current.batch)' /\ Below(Current.batch, offset)' /\ SentBy(Current.batch, clock)'
    BY <2>2, <2>3 DEF Ascending, Below, SentBy
  <2>5. SinceSent(Current.batch)' /\ LongAgo(Current.batch)'
    <3> SUFFICES ASSUME NEW k \in 1..Len(handled'), NEW i \in 1..Len(Tail(s)),
                        handled'[k].id = Tail(s)[i].id
                 PROVE  Tail(s)[i].date <= handled'[k].at /\ handled'[k].at <= crashed
      BY <2>3 DEF SinceSent, LongAgo
    <3>1. CASE k \in 1..Len(handled)
      BY <1>2, <2>2, <3>1 DEF SinceSent, LongAgo
    <3>2. CASE k = Len(handled) + 1
      BY <1>2, <2>2, <3>2
    <3> QED BY <1>2, <3>1, <3>2
  <2> QED BY <1>1, <1>4, <2>1, <2>3, <2>4, <2>5 DEF CurrentInv
<1>10. HandledInv'
  <2>1. \A k \in 1..Len(handled) :
            /\ handled[k].at <= clock /\ handled[k].id <= sent
            /\ handled[k].id < offset \/ handled[k].at <= crashed
    BY DEF IInv, HandledInv
  <2>2. u.id <= sent
    BY <1>1, <1>6 DEF IInv, InboxInv
  <2>3. \A k \in 1..Len(handled') :
            /\ handled'[k].at <= clock /\ handled'[k].id <= sent
            /\ handled'[k].id < offset \/ handled'[k].at <= crashed
    <3> SUFFICES ASSUME NEW k \in 1..Len(handled')
                 PROVE  /\ handled'[k].at <= clock /\ handled'[k].id <= sent
                        /\ handled'[k].id < offset \/ handled'[k].at <= crashed
      OBVIOUS
    <3>1. CASE k \in 1..Len(handled)
      BY <1>2, <2>1, <3>1
    <3>2. CASE k = Len(handled) + 1
      BY <1>1, <1>2, <1>6, <2>2, <3>2
    <3> QED BY <1>2, <3>1, <3>2
  <2>4. ASSUME NEW i \in 1..Len(handled'), NEW k \in 1..Len(handled'), i < k
        PROVE  handled'[i].id /= handled'[k].id
    <3>1. i \in 1..Len(handled)
      BY <1>2, <2>4
    <3>2. CASE k \in 1..Len(handled)
      BY <1>2, <2>4, <3>1, <3>2 DEF IInv, HandledInv
    <3>3. CASE k = Len(handled) + 1
      BY <1>1, <1>2, <3>1, <3>3
    <3> QED BY <1>2, <3>2, <3>3
  <2> QED BY <2>3, <2>4 DEF HandledInv
<1> QED BY <1>7, <1>8, <1>9, <1>10

\* One more entry leaves the newest /stop that counts what it is, unless it is a stop or
\* another such /stop.
LEMMA LastStopKept ==
    ASSUME CmdTypeOK, NEW u \in Update, NEW stops \in BOOLEAN, ~stops,
           handled' = Handled(u, stops), session' = session,
           u.person \in Commanders => u.what /= "stop",
           NEW i \in 1..Len(handled), LastStop(i)
    PROVE  LastStop(i)' /\ handled'[i] = handled[i] /\ i \in 1..Len(handled')
<1>1. /\ Len(handled) \in Nat /\ Len(handled') = Len(handled) + 1
      /\ \A k \in 1..Len(handled) : handled'[k] = handled[k]
      /\ handled'[Len(handled) + 1] = Entry(u, stops)
  BY HandledFacts
<1>2. handled'[i] = handled[i] /\ i \in 1..Len(handled')
  BY <1>1
<1>3. ASSUME NEW j \in (i + 1)..Len(handled')
      PROVE  /\ ~handled'[j].stops
             /\ handled'[j].person \in Commanders => handled'[j].what /= "stop"
  <2>1. j \in (i + 1)..Len(handled) \/ j = Len(handled) + 1
    BY <1>1
  <2>2. CASE j \in (i + 1)..Len(handled)
    <3>1. j \in 1..Len(handled)
      BY <1>1, <2>2
    <3> QED BY <1>1, <2>2, <3>1 DEF LastStop
  <2>3. CASE j = Len(handled) + 1
    <3>1. handled'[j] = Entry(u, stops)
      BY <1>1, <2>3
    <3> QED BY <3>1 DEF Entry
  <2> QED BY <2>1, <2>2, <2>3
<1> QED BY <1>2, <1>3 DEF LastStop

\* An entry is judged by those before it.
LEMMA StoppedKept ==
    ASSUME CmdTypeOK, StoppedInv, NEW u \in Update, NEW stops \in BOOLEAN,
           handled' = Handled(u, stops),
           stops => \A k : k = Len(handled) + 1 => Stopped(k)'
    PROVE  StoppedInv'
<1>1. /\ Len(handled) \in Nat /\ Len(handled') = Len(handled) + 1
      /\ \A k \in 1..Len(handled) : handled'[k] = handled[k]
      /\ \A k \in 1..Len(handled') : k \in 1..Len(handled) \/ k = Len(handled) + 1
      /\ handled'[Len(handled) + 1] = Entry(u, stops)
  BY HandledFacts
<1>2. ASSUME NEW k \in 1..Len(handled) PROVE Stopped(k)'
  <2> SUFFICES ASSUME handled[k].stops PROVE Stopped(k)'
    BY <1>1 DEF Stopped
  <2>1. Stopped(k)
    BY DEF StoppedInv
  <2>2. PICK i \in 1..(k - 1) :
            /\ handled[i].what = "stop" /\ handled[i].at >= handled[k].at - Confirm
            /\ handled[i].person = handled[k].person
            /\ handled[i].session = handled[k].session
            /\ \A j \in (i + 1)..(k - 1) :
                   /\ ~handled[j].stops
                   /\ handled[j].person \in Commanders => handled[j].what /= "stop"
    BY <2>1 DEF Stopped
  <2>3. i \in 1..Len(handled) /\ \A j \in (i + 1)..(k - 1) : j \in 1..Len(handled)
    BY <1>1
  <2>4. handled'[i] = handled[i] /\ handled'[k] = handled[k]
        /\ \A j \in (i + 1)..(k - 1) : handled'[j] = handled[j]
    BY <1>1, <2>3
  <2> QED BY <2>1, <2>2, <2>4 DEF Stopped
<1> DEFINE n == Len(handled) + 1
<1>3. ASSUME NEW k, k = n PROVE Stopped(k)'
  <2>1. handled'[k].stops = stops
    BY <1>1, <1>3 DEF Entry
  <2>2. CASE stops
    BY <1>3, <2>2 DEF Stopped
  <2>3. CASE ~stops
    BY <2>1, <2>3 DEF Stopped
  <2> QED BY <2>2, <2>3
<1> QED BY <1>1, <1>2, <1>3 DEF StoppedInv

LEMMA OtherStep ==
    ASSUME CmdTypeOK, PendingInv, StoppedInv, NEW u \in Update, Other(u),
           UNCHANGED <<setup, session, where>>
    PROVE  PendingInv' /\ StoppedInv'
<1>1. /\ handled' = Handled(u, FALSE) /\ pending' = pending
      /\ u.person \in Commanders => u.what /= "stop"
  BY DEF Other
<1>2. StoppedInv'
  BY <1>1, StoppedKept
<1>3. PendingInv'
  <2> SUFFICES ASSUME pending /= Nobody
               PROVE  /\ Listed' /\ pending.until \in Nat
                      /\ \E i \in 1..Len(handled') :
                             /\ LastStop(i)'
                             /\ handled'[i].person = pending.person
                             /\ handled'[i].at + Confirm = pending.until
    BY <1>1 DEF PendingInv, Confirm
  <2>1. PICK i \in 1..Len(handled) :
            LastStop(i) /\ handled[i].person = pending.person
            /\ handled[i].at + Confirm = pending.until
    BY DEF PendingInv
  <2>2. LastStop(i)' /\ handled'[i] = handled[i] /\ i \in 1..Len(handled')
    BY <1>1, <2>1, LastStopKept
  <2> QED BY <2>1, <2>2 DEF PendingInv, Listed
<1> QED BY <1>2, <1>3

LEMMA AskStopStep ==
    ASSUME CmdTypeOK, PendingInv, StoppedInv, NEW u \in Update, AskStop(u),
           UNCHANGED <<setup, session, where, clock>>
    PROVE  PendingInv' /\ StoppedInv'
<1>1. /\ handled' = Handled(u, FALSE) /\ u.person \in Commanders /\ u.what = "stop"
      /\ pending' = IF Listed THEN [person |-> u.person, until |-> clock + Confirm] ELSE pending
  BY DEF AskStop
<1>2. StoppedInv'
  BY <1>1, StoppedKept
<1>3. PendingInv'
  <2>1. CASE ~Listed
    BY <1>1, <2>1 DEF PendingInv
  <2>2. CASE Listed
    <3> DEFINE n == Len(handled) + 1
    <3>1. /\ Len(handled) \in Nat /\ Len(handled') = n
          /\ handled'[n] = Entry(u, FALSE)
      BY <1>1, HandledFacts
    <3>2. PICK i \in 1..Len(handled') : i = n
      BY <3>1
    <3>3. /\ handled'[i].person = u.person /\ handled'[i].what = "stop"
          /\ handled'[i].at = clock /\ handled'[i].session = session
      BY <1>1, <3>1, <3>2, EntryFacts
    <3>4. LastStop(i)'
      <4>1. \A j : j \notin (i + 1)..Len(handled')
        BY <3>1, <3>2
      <4> QED BY <1>1, <3>3, <4>1 DEF LastStop
    <3>5. pending'.person = u.person /\ pending'.until = clock + Confirm /\ clock \in Nat
      BY <1>1, <2>2 DEF CmdTypeOK
    <3>6. handled'[i].person = pending'.person /\ handled'[i].at + Confirm = pending'.until
      BY <3>3, <3>5
    <3>7. pending'.until \in Nat /\ Listed'
      BY <2>2, <3>5 DEF Listed, Confirm
    <3> QED BY <3>2, <3>4, <3>6, <3>7 DEF PendingInv, Confirm
  <2> QED BY <2>1, <2>2
<1> QED BY <1>2, <1>3

\* What confirms finds the /stop that it confirms.
LEMMA ConfirmStopStep ==
    ASSUME CmdTypeOK, PendingInv, StoppedInv, NEW u \in Update, ConfirmStop(u),
           UNCHANGED clock
    PROVE  PendingInv' /\ StoppedInv' /\ UNCHANGED <<setup, session, where>>
<1>1. /\ u.person \in Commanders /\ u.what = "confirm"
      /\ pending' = Nobody \/ (pending' = pending /\ ~Confirmed(u))
  BY DEF ConfirmStop
<1>2. UNCHANGED <<setup, session, where>>
  BY DEF ConfirmStop, traderVars
<1>3. CASE Confirmed(u) /\ Listed
  <2> DEFINE n == Len(handled) + 1
  <2>1. handled' = Handled(u, TRUE) /\ pending' = Nobody
    BY <1>3 DEF ConfirmStop
  <2>2. pending /= Nobody /\ pending.person = u.person /\ clock <= pending.until
    BY <1>3 DEF Confirmed
  <2>3. PICK i \in 1..Len(handled) :
            LastStop(i) /\ handled[i].person = pending.person
            /\ handled[i].at + Confirm = pending.until
    BY <2>2 DEF PendingInv
  <2>4. /\ Len(handled) \in Nat /\ Len(handled') = n
        /\ \A k \in 1..Len(handled) : handled'[k] = handled[k]
        /\ handled'[n] = Entry(u, TRUE)
    BY <2>1, HandledFacts
  <2>5. clock \in Nat /\ handled[i].at \in Nat /\ handled'[i] = handled[i]
    BY <2>4, RecordFacts DEF CmdTypeOK
  <2>6. /\ handled'[n].at = clock /\ handled'[n].person = u.person /\ handled'[n].session = session
    BY <2>4, EntryFacts
  <2>7. handled'[i].at >= handled'[n].at - Confirm
    BY <2>2, <2>3, <2>5, <2>6 DEF Confirm
  <2>8. \A j \in (i + 1)..(n - 1) :
            /\ j \in (i + 1)..Len(handled) /\ handled'[j] = handled[j]
    BY <2>4
  <2>9. ASSUME NEW k, k = n PROVE Stopped(k)'
    <3>1. \A j \in (i + 1)..(n - 1) :
              /\ ~handled'[j].stops
              /\ handled'[j].person \in Commanders => handled'[j].what /= "stop"
      BY <2>3, <2>8 DEF LastStop
    <3>2. i \in 1..(n - 1)
      BY <2>4
    <3>3. /\ handled'[i].what = "stop" /\ handled'[i].person = handled'[n].person
          /\ handled'[i].session = handled'[n].session /\ handled'[n].person \in Commanders
      BY <1>1, <2>2, <2>3, <2>5, <2>6 DEF LastStop
    <3> HIDE DEF n
    <3> QED BY <2>7, <2>9, <3>1, <3>2, <3>3 DEF Stopped
  <2>10. StoppedInv'
    BY <2>1, <2>9, StoppedKept
  <2>11. PendingInv'
    BY <2>1 DEF PendingInv
  <2> QED BY <1>2, <2>10, <2>11
<1>4. CASE ~(Confirmed(u) /\ Listed)
  <2>1. handled' = Handled(u, FALSE)
    BY <1>4 DEF ConfirmStop
  <2>2. StoppedInv'
    BY <2>1, StoppedKept
  <2>3. PendingInv'
    <3> SUFFICES ASSUME pending /= Nobody, pending' = pending
                 PROVE  /\ Listed' /\ pending.until \in Nat
                        /\ \E i \in 1..Len(handled') :
                               /\ LastStop(i)'
                               /\ handled'[i].person = pending.person
                               /\ handled'[i].at + Confirm = pending.until
      BY <1>1 DEF PendingInv, Confirm
    <3>1. PICK i \in 1..Len(handled) :
              LastStop(i) /\ handled[i].person = pending.person
              /\ handled[i].at + Confirm = pending.until
      BY DEF PendingInv
    <3>2. LastStop(i)' /\ handled'[i] = handled[i] /\ i \in 1..Len(handled')
      BY <1>1, <1>2, <2>1, <3>1, LastStopKept
    <3> QED BY <1>2, <3>1, <3>2 DEF PendingInv, Listed
  <2> QED BY <1>2, <2>2, <2>3
<1> QED BY <1>3, <1>4

LEMMA BatchReadStep ==
    ASSUME IInv, NEW g \in 1..Len(threads), Read(g)
    PROVE  IInv'
<1> DEFINE s == threads[g].batch
           u == Head(s)
           t == [threads[g] EXCEPT !.batch = Tail(@)]
<1>1. /\ threads[g].at = "reading" /\ s /= <<>>
      /\ UNCHANGED <<clock, inbox, listening, generation, off, crashed, sent, offset>>
  BY DEF Read, ThreadStep
<1>2. s \in Seq(Update) /\ Tail(s) \in Seq(Update) /\ u \in Update /\ threads[g] \in Thread
  BY <1>1, ThreadFacts, TailFacts DEF IInv
<1>3. t \in Thread /\ t.at = "reading" /\ t.batch = Tail(s) /\ t.since = threads[g].since
  BY <1>1, <1>2 DEF Thread
<1>4. CASE u.date < threads[g].since
  <2>1. Put(g, t) /\ UNCHANGED <<traderVars, pending, handled>>
    BY <1>4 DEF Read
  <2>2. UNCHANGED <<setup, session, where>>
    BY <2>1 DEF traderVars
  <2>3. ASSUME AliveThread(g)
        PROVE  /\ t.since = Current.since
               /\ Ascending(t.batch) /\ Below(t.batch, offset)
               /\ SentBy(t.batch, clock) /\ SinceSent(t.batch) /\ LongAgo(t.batch)
    <3>1. /\ Ascending(s) /\ Below(s, offset) /\ SentBy(s, clock) /\ SinceSent(s) /\ LongAgo(s)
          /\ Current = threads[g]
      BY <1>1, <2>3 DEF IInv, CurrentInv, AliveThread, Current
    <3>2. /\ Ascending(Tail(s)) /\ Below(Tail(s), offset) /\ SentBy(Tail(s), clock)
          /\ SinceSent(Tail(s)) /\ LongAgo(Tail(s))
      BY <1>1, <1>2, <3>1, RestOfBatch
    <3> QED BY <1>3, <3>1, <3>2
  <2> HIDE DEF t
  <2> QED BY <1>1, <1>3, <2>1, <2>2, <2>3, PutStep DEF Listed
<1>5. CASE ~(u.date < threads[g].since) /\ ~AliveThread(g)
  <2>1. Put(g, Gone) /\ UNCHANGED <<traderVars, pending, handled>>
    BY <1>5 DEF Read
  <2>2. UNCHANGED <<setup, session, where>>
    BY <2>1 DEF traderVars
  <2> QED BY <1>1, <1>5, <2>1, <2>2, PutStep, GoneFacts DEF Listed
<1>6. CASE ~(u.date < threads[g].since) /\ AliveThread(g)
  <2>1. Put(g, t) /\ (ConfirmStop(u) \/ AskStop(u) \/ Other(u))
    BY <1>6 DEF Read
  <2>2. PendingInv' /\ StoppedInv' /\ UNCHANGED <<setup, session, where>>
    <3>1. CASE ConfirmStop(u)
      BY <1>1, <1>2, <3>1, ConfirmStopStep DEF IInv
    <3>2. CASE AskStop(u)
      <4>1. UNCHANGED <<setup, session, where>>
        BY <3>2 DEF AskStop, traderVars
      <4> QED BY <1>1, <1>2, <3>2, <4>1, AskStopStep DEF IInv
    <3>3. CASE Other(u)
      <4>1. UNCHANGED <<setup, session, where>>
        BY <3>3 DEF Other, traderVars
      <4> QED BY <1>1, <1>2, <3>3, <4>1, OtherStep DEF IInv
    <3> QED BY <2>1, <3>1, <3>2, <3>3
  <2>3. PICK stops \in BOOLEAN : handled' = Handled(u, stops)
    BY <2>1 DEF ConfirmStop, AskStop, Other
  <2>4. u.date >= threads[g].since
    <3>1. u.date \in Nat /\ threads[g].since \in Nat
      BY <1>2 DEF Update, Thread
    <3> QED BY <1>6, <3>1
  <2>5. CmdTypeOK' /\ InboxInv' /\ CurrentInv' /\ HandledInv'
    BY <1>1, <1>6, <2>1, <2>2, <2>3, <2>4, HandleStep
  <2> QED BY <2>2, <2>5 DEF IInv
<1> QED BY <1>4, <1>5, <1>6

-----------------------------------------------------------------------------
(* The theorem *)

LEMMA InitIInv == Init => IInv
<1> SUFFICES ASSUME Init PROVE IInv
  OBVIOUS
<1>1. /\ setup \in Setups /\ session = 0 /\ clock = 1 /\ inbox = <<>> /\ offset = 0
      /\ generation = 0 /\ listening = FALSE /\ pending = Nobody /\ threads = <<>>
      /\ handled = <<>> /\ crashed = 0 /\ sent = 0
  BY DEF Init, TraderInit
<1>2. Len(<<>>) = 0 /\ <<>> \in Seq(Update) /\ <<>> \in Seq(Record) /\ <<>> \in Seq(Thread)
  BY EmptySeq
<1>3. CmdTypeOK
  BY <1>1, <1>2 DEF CmdTypeOK
<1>4. InboxInv
  BY <1>1, <1>2 DEF InboxInv, Ascending, Below, SentBy, SinceSent
<1>5. CurrentInv /\ PendingInv
  BY <1>1 DEF CurrentInv, PendingInv
<1>6. HandledInv /\ StoppedInv
  BY <1>1, <1>2 DEF HandledInv, StoppedInv
<1> QED BY <1>3, <1>4, <1>5, <1>6 DEF IInv

LEMMA StutterIInv == ASSUME IInv, UNCHANGED vars PROVE IInv'
<1>1. UNCHANGED cmdVars /\ UNCHANGED <<setup, session, where>>
  BY DEF vars, traderVars
<1>2. CurrentInv'
  BY <1>1, CurrentKept DEF IInv, cmdVars, Current
<1> QED BY <1>1, <1>2, QuietStep DEF IInv, CmdTypeOK, cmdVars, Listed

LEMMA NextIInv == ASSUME IInv, Next PROVE IInv'
<1>1. ASSUME NEW g \in DOMAIN threads, Listener(g) PROVE IInv'
  <2>1. g \in 1..Len(threads)
    BY LenProperties DEF IInv, CmdTypeOK
  <2> QED BY <1>1, <2>1, AskStep, LeaveStep, AnswerStep, NoAnswerStep, RejectedStep, BatchReadStep,
             ReadAllStep DEF Listener
<1> QED BY <1>1, TraderStepKeeps, BeginStep, FinishStep, ProgramEndsKeeps, MessageStep, MinuteStep
        DEF Next

\* For every instance: Telegram's numbers, the listener's offset and generations and the
\* /stop that waits stay in step.
THEOREM CommandsInvariant == Spec => []IInv
<1>1. IInv /\ [Next]_vars => IInv'
  BY NextIInv, StutterIInv
<1> QED BY InitIInv, <1>1, PTL DEF Spec

\* A command is handled once, however requests fail, answers come late and sessions follow
\* one another, and a session is stopped from a chat only as its own commander confirmed,
\* in time (Listener._read, Listener._stop).
THEOREM StoppedAsConfirmed == Spec => []ConfirmedOnce
<1>1. IInv => ConfirmedOnce
  <2> SUFFICES ASSUME IInv PROVE ConfirmedOnce
    OBVIOUS
  <2>1. DOMAIN handled = 1..Len(handled) /\ Len(handled) \in Nat
    BY LenProperties DEF IInv, CmdTypeOK
  <2> SUFFICES ASSUME NEW k \in 1..Len(handled)
               PROVE  /\ \A i \in 1..(k - 1) : handled[i].id /= handled[k].id
                      /\ Stopped(k)
    BY <2>1 DEF ConfirmedOnce, Stopped
  <2>2. \A i \in 1..(k - 1) : handled[i].id /= handled[k].id
    BY <2>1 DEF IInv, HandledInv
  <2> QED BY <2>2 DEF IInv, StoppedInv
<1> QED BY CommandsInvariant, <1>1, PTL
=============================================================================
