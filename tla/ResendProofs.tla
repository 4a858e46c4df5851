---------------------------- MODULE ResendProofs ----------------------------
(***************************************************************************)
(* Theorems of Resend: no repetition of an update is forgotten, entries    *)
(* are repeated with backoff and not too often, and a request that can be  *)
(* answered is being answered.                                             *)
(*                                                                         *)
(* The queue is walked by recursive functions.  What they compute is shown *)
(* by induction: the numbers for which a statement holds are a set, and a  *)
(* number that is not in it would have a smallest (InductionFact).         *)
(***************************************************************************)
EXTENDS Resend, TLAPS, SequenceTheorems, WellFoundedInduction

\* Newer is transitive on S.
Linear(S) ==
  \A a, b, c \in S :
    seqno_compare(a, b) > 0 /\ seqno_compare(b, c) > 0 => seqno_compare(a, c) > 0

\* The seqnos of a source that neighbours ask for and announce.
Numbers(id) ==
  {a.seqno : a \in {x \in Asked : x.id = id}} \cup
  {r.seqno : r \in {x \in Found : x.id = id}}

\* They lie within half of the circle.
Orderly == \A id \in Ids : Linear(Numbers(id))

Shape ==
  [to_resend : Seq(Keys), entry : [Keys -> Entry], wake : 0 .. Never,
   repeats : [Keys -> Nat], route : [Dests -> Found \cup {NoRoute}],
   own : SUBSET Dests, src : [Dests -> [Ids -> Source \cup {NoSource}]],
   buffer : [Ifaces -> SUBSET Dests]]

\* The wake-up time is not later than that of a pending update.
Armed(s) ==
  \A k \in Keys :
    k[1] = "update" /\ k \in InQueue(s) /\ Pending(k, s.entry[k])
    => s.wake <= TimeLeft(s.entry[k])

\* Entry e of key k, which was repeated n times, has waited for that, and will
\* wait longer for the next time; it has as many left as it has not used, unless
\* it has expired anyway.
PacedEntry(k, e, n) ==
  /\ n <= RESEND_MAX
  /\ e.delay > 0 => Interval[n] <= e.delay
  /\ n > 0 => Interval[n - 1] <= e.age
  /\ e.max + n <= RESEND_MAX \/ (k[1] = "request" /\ e.age >= REQUEST_TIMEOUT)

Paced(s) == \A k \in InQueue(s) : PacedEntry(k, s.entry[k], s.repeats[k])

\* The sources of installed routes are known, and we export what we do not route.
RoutesOK(s) ==
  \A d \in Dests : s.route[d] # NoRoute =>
    d \notin s.own /\ s.src[d][s.route[d].id] # NoSource

\* What is kept for one interface is what a neighbour on it asked for.
AskedOK(s) ==
  \A d \in Dests :
    LET e == s.entry[Request(d)]
    IN  e.ifp # NoIf => e.id \in Ids /\ e.seqno \in Numbers(e.id)

\* The installed route answers the request of a neighbour that is recorded for d.
Answerable(s, d) ==
  LET e == s.entry[Request(d)]
      r == s.route[d]
  IN  /\ Request(d) \in InQueue(s) /\ e.age < REQUEST_TIMEOUT /\ e.ifp # NoIf
      /\ r # NoRoute /\ r.finite /\ Answers(e, r.seqno, r.id)

\* Then the answer is buffered, unless d is in D.
Answering(s, D) ==
  \A d \in Dests \ D : Answerable(s, d) => d \in s.buffer[s.entry[Request(d)].ifp]

Good(s, D) ==
  /\ s \in Shape /\ Armed(s) /\ Paced(s) /\ RoutesOK(s) /\ AskedOK(s)
  /\ Orderly => Answering(s, D)

-----------------------------------------------------------------------------
(* Numbers. *)

\* A set of numbers that is not empty has a smallest one.
LEMMA SmallestFact ==
  ASSUME NEW T \in SUBSET Nat, T # {}
  PROVE  \E x \in T : \A y \in T : x <= y
  <1>1. PICK x \in T : \A y \in T : ~(<<y, x>> \in OpToRel(<, Nat))
    BY NatLessThanWellFounded, WFMin
  <1>2. \A y \in T : ~(y < x)
    BY <1>1 DEF OpToRel
  <1> QED
    BY <1>2

\* A set of numbers with 0, and with the successor of each of its members that
\* is less than N, has all numbers up to N.
LEMMA InductionFact ==
  ASSUME NEW N \in Nat, NEW S, 0 \in S, \A n \in S : n \in Nat /\ n < N => n + 1 \in S
  PROVE  \A n \in 0 .. N : n \in S
  <1> DEFINE T == (0 .. N) \ S
  <1> SUFFICES ASSUME T # {} PROVE FALSE
    OBVIOUS
  <1>1. PICK x \in T : \A y \in T : x <= y
    <2>1. T \in SUBSET Nat
      OBVIOUS
    <2> QED
      BY <2>1, SmallestFact
  <1>2. x # 0 /\ x - 1 \in 0 .. N /\ x - 1 < x /\ x \in 0 .. N
    OBVIOUS
  <1>3. x - 1 \in S
    BY <1>1, <1>2
  <1>4. x - 1 \in Nat /\ x - 1 < N /\ (x - 1) + 1 = x
    BY <1>2
  <1> QED
    BY <1>3, <1>4

LEMMA BoundsFact ==
  /\ DelayMax \in Nat \ {0} /\ Never \in Nat /\ Never > DelayMax
  /\ resend_delay \in 1 .. DelayMax
  /\ MaxAge \in Nat /\ MaxAge >= DelayMax /\ MaxAge >= REQUEST_TIMEOUT
  /\ REQUEST_TIMEOUT \in Nat \ {0} /\ RESEND_MAX \in Nat \ {0}
  /\ CharMod \in Nat /\ RESEND_MAX < CharMod
  BY ResendAssumption DEF Never, MaxAge

\* The intervals: each is twice the one before, up to DelayMax.
LEMMA IntervalFact ==
  /\ \A n \in 0 .. RESEND_MAX : /\ Interval[n] \in 1 .. DelayMax
                                /\ resend_delay <= Interval[n]
  /\ Interval[0] = resend_delay
  /\ \A n \in 0 .. RESEND_MAX - 1 : Interval[n + 1] = Least(DelayMax, 2 * Interval[n])
  <1> DEFINE Is(n, g) == g = [i \in 0 .. n |-> IF i = 0 THEN resend_delay
                                               ELSE Least(DelayMax, 2 * g[i - 1])]
             S == {n \in Nat : \E g : Is(n, g)}
             T == {n \in Nat : Interval[n] \in resend_delay .. DelayMax}
  <1>1. 0 \in S
    <2> DEFINE g == [i \in 0 .. 0 |-> resend_delay]
    <2>1. Is(0, g)
      OBVIOUS
    <2> QED
      BY <2>1
  <1>2. \A n \in S : n \in Nat /\ n < RESEND_MAX => n + 1 \in S
    <2> SUFFICES ASSUME NEW n \in Nat, NEW g, Is(n, g)
                 PROVE  \E h : Is(n + 1, h)
      OBVIOUS
    <2> DEFINE h == [i \in 0 .. n + 1 |-> IF i <= n THEN g[i]
                                          ELSE Least(DelayMax, 2 * g[n])]
    <2>1. \A i \in 0 .. n : h[i] = g[i]
      OBVIOUS
    <2>2. \A i \in 0 .. n + 1 : h[i] = IF i = 0 THEN resend_delay
                                       ELSE Least(DelayMax, 2 * h[i - 1])
      <3> SUFFICES ASSUME NEW i \in 0 .. n + 1
                   PROVE  h[i] = IF i = 0 THEN resend_delay
                                 ELSE Least(DelayMax, 2 * h[i - 1])
        OBVIOUS
      <3>1. CASE i \in 0 .. n
        <4>1. g[i] = IF i = 0 THEN resend_delay ELSE Least(DelayMax, 2 * g[i - 1])
          BY <3>1
        <4>2. i # 0 => i - 1 \in 0 .. n
          BY <3>1
        <4> QED
          BY <2>1, <3>1, <4>1, <4>2
      <3>2. CASE i = n + 1
        <4>1. h[n + 1] = Least(DelayMax, 2 * g[n]) /\ h[n] = g[n]
          OBVIOUS
        <4> QED
          BY <3>2, <4>1
      <3> QED
        BY <3>1, <3>2
    <2>3. Is(n + 1, h)
      BY <2>2
    <2> QED
      BY <2>3
  <1>3. RESEND_MAX \in S
    <2> HIDE DEF S
    <2> QED
      BY <1>1, <1>2, InductionFact, BoundsFact
  <1>4. Is(RESEND_MAX, Interval)
    <2>1. PICK g : Is(RESEND_MAX, g)
      BY <1>3
    <2>2. Interval = CHOOSE f : f = [i \in 0 .. RESEND_MAX |->
             IF i = 0 THEN resend_delay ELSE Least(DelayMax, 2 * f[i - 1])]
      BY DEF Interval
    <2> QED
      BY <2>1, <2>2
  <1> HIDE DEF S
  <1>5. \A i \in 0 .. RESEND_MAX :
          Interval[i] = IF i = 0 THEN resend_delay ELSE Least(DelayMax, 2 * Interval[i - 1])
    BY <1>4
  <1>6. Interval[0] = resend_delay
    BY <1>5, BoundsFact
  <1>7. \A n \in 0 .. RESEND_MAX - 1 : Interval[n + 1] = Least(DelayMax, 2 * Interval[n])
    BY <1>5, BoundsFact
  <1>8. 0 \in T
    BY <1>6, BoundsFact
  <1>9. \A n \in T : n \in Nat /\ n < RESEND_MAX => n + 1 \in T
    BY <1>7, BoundsFact DEF Least
  <1>10. \A n \in 0 .. RESEND_MAX : n \in T
    <2> HIDE DEF T
    <2> QED
      BY <1>8, <1>9, InductionFact, BoundsFact
  <1> QED
    BY <1>6, <1>7, <1>10, BoundsFact

-----------------------------------------------------------------------------
(* The state of the queue. *)

LEMMA ShapeFact ==
  ASSUME NEW s \in Shape
  PROVE  /\ s.to_resend \in Seq(Keys) /\ s.entry \in [Keys -> Entry]
         /\ s.wake \in 0 .. Never /\ s.repeats \in [Keys -> Nat]
         /\ s.route \in [Dests -> Found \cup {NoRoute}] /\ s.own \in SUBSET Dests
         /\ s.src \in [Dests -> [Ids -> Source \cup {NoSource}]]
         /\ s.buffer \in [Ifaces -> SUBSET Dests]
         /\ InQueue(s) \subseteq Keys
  <1>1. s.to_resend \in Seq(Keys)
    BY DEF Shape
  <1>2. InQueue(s) \subseteq Keys
    BY <1>1 DEF InQueue
  <1> QED
    BY <1>2 DEF Shape

\* Keys tell what they are, and for which destination.
LEMMA KeyFact ==
  /\ \A d \in Dests : /\ Request(d) \in Keys /\ Repeat(d) \in Keys
                      /\ Request(d)[1] = "request" /\ Request(d)[2] = d
                      /\ Repeat(d)[1] = "update" /\ Repeat(d)[2] = d
                      /\ \A c \in Dests : Request(d) # Repeat(c)
                      /\ \A c \in Dests : Request(d) = Request(c) => d = c
  /\ \A k \in Keys : \/ k[1] = "request" /\ k[2] \in Dests /\ k = Request(k[2])
                     \/ k[1] = "update" /\ k[2] \in Dests /\ k = Repeat(k[2])
  BY DEF Keys, Request, Repeat

LEMMA EntryFact ==
  ASSUME NEW e \in Entry
  PROVE  /\ e.delay \in 0 .. DelayMax /\ e.age \in 0 .. MaxAge
         /\ e.max \in 0 .. CharMod - 1 /\ e.id \in Ids \cup {NoId}
         /\ e.seqno \in Seqnos /\ e.ifp \in Ifaces \cup {NoIf}
         /\ TimeLeft(e) \in 0 .. DelayMax
  <1>1. /\ e.delay \in 0 .. DelayMax /\ e.age \in 0 .. MaxAge
        /\ e.max \in 0 .. CharMod - 1 /\ e.id \in Ids \cup {NoId}
        /\ e.seqno \in Seqnos /\ e.ifp \in Ifaces \cup {NoIf}
    BY DEF Entry
  <1>2. TimeLeft(e) \in 0 .. DelayMax
    BY <1>1, BoundsFact DEF TimeLeft
  <1> QED
    BY <1>1, <1>2

LEMMA NoEntryFact ==
  /\ NoEntry \in Entry
  /\ NoEntry.id = NoId /\ NoEntry.ifp = NoIf /\ NoEntry.delay = 0
  /\ NoEntry.max = 0 /\ NoEntry.age = 0
  BY BoundsFact, SeqModAssumption DEF NoEntry, Entry, Seqnos

LEMMA SatisfiedFact ==
  ASSUME NEW e \in Entry
  PROVE  /\ Satisfied(e) \in Entry
         /\ Satisfied(e).max = 0 /\ Satisfied(e).age = MaxAge
         /\ Satisfied(e).id = e.id /\ Satisfied(e).seqno = e.seqno
         /\ Satisfied(e).ifp = e.ifp /\ Satisfied(e).delay = e.delay
  <1>1. 0 \in 0 .. CharMod - 1 /\ MaxAge \in 0 .. MaxAge
    BY BoundsFact
  <1>2. Satisfied(e) \in Entry
    BY <1>1, Zenon DEF Satisfied, Entry
  <1>3. /\ Satisfied(e).max = 0 /\ Satisfied(e).age = MaxAge
        /\ Satisfied(e).id = e.id /\ Satisfied(e).seqno = e.seqno
        /\ Satisfied(e).ifp = e.ifp /\ Satisfied(e).delay = e.delay
    BY SMT DEF Satisfied, Entry
  <1> QED
    BY <1>2, <1>3

\* Nothing but the wake-up time differs.
Waked(s, t) == \E w \in 0 .. Never : t = [s EXCEPT !.wake = w]

LEMMA WakedFact ==
  ASSUME NEW s \in Shape, NEW t, Waked(s, t)
  PROVE  /\ t \in Shape /\ InQueue(t) = InQueue(s)
         /\ t.to_resend = s.to_resend /\ t.entry = s.entry
         /\ t.repeats = s.repeats /\ t.route = s.route /\ t.own = s.own
         /\ t.src = s.src /\ t.buffer = s.buffer
  <1>1. PICK w \in 0 .. Never : t = [s EXCEPT !.wake = w]
    BY DEF Waked
  <1>2. t \in Shape
    BY <1>1, Zenon DEF Shape
  <1>3. /\ t.to_resend = s.to_resend /\ t.entry = s.entry
        /\ t.repeats = s.repeats /\ t.route = s.route /\ t.own = s.own
        /\ t.src = s.src /\ t.buffer = s.buffer
    BY <1>1 DEF Shape
  <1> QED
    BY <1>2, <1>3 DEF InQueue

\* After recompute_resend_time, no pending entry is due before the wake-up time.
LEMMA RecomputeFact ==
  ASSUME NEW s \in Shape
  PROVE  Waked(s, recompute_resend_time(s)) /\ Armed(recompute_resend_time(s))
  <1> DEFINE pending == {x \in InQueue(s) : Pending(x, s.entry[x])}
             left == {TimeLeft(s.entry[k]) : k \in pending}
             w == CHOOSE t \in left \cup {Never} : \A u \in left : t <= u
             r == recompute_resend_time(s)
  <1>1. r = [s EXCEPT !.wake = w]
    BY Zenon DEF recompute_resend_time
  <1>2. left \subseteq 0 .. DelayMax
    <2> SUFFICES ASSUME NEW k \in InQueue(s)
                 PROVE  TimeLeft(s.entry[k]) \in 0 .. DelayMax
      OBVIOUS
    <2>1. s.entry[k] \in Entry
      BY ShapeFact
    <2> QED
      BY <2>1, EntryFact
  <1>3. \A k \in InQueue(s) : Pending(k, s.entry[k]) => TimeLeft(s.entry[k]) \in left
    OBVIOUS
  <1> HIDE DEF left
  <1>4. w \in left \cup {Never} /\ \A u \in left : w <= u
    <2>1. left \cup {Never} \in SUBSET Nat
      BY <1>2, BoundsFact
    <2>2. \E x \in left \cup {Never} : \A y \in left \cup {Never} : x <= y
      BY <2>1, SmallestFact
    <2>3. \E x \in left \cup {Never} : \A u \in left : x <= u
      BY <2>2
    <2> QED
      BY <2>3
  <1> HIDE DEF w
  <1>5. w \in 0 .. Never
    BY <1>2, <1>4, BoundsFact
  <1>6. Waked(s, r)
    BY <1>1, <1>5 DEF Waked
  <1>7. r.wake = w
    BY <1>1 DEF Shape
  <1>8. InQueue(r) = InQueue(s) /\ r.entry = s.entry
    BY <1>6, WakedFact
  <1>9. Armed(r)
    <2> HIDE DEF r
    <2> QED
      BY <1>3, <1>4, <1>7, <1>8 DEF Armed
  <1> QED
    BY <1>6, <1>9

-----------------------------------------------------------------------------
(* Updates that are sent. *)

\* Every source of A is a source of B.
Keeps(A, B) == \A d \in Dests, id \in Ids : A[d][id] # NoSource => B[d][id] # NoSource

\* Only the buffers, what is announced and the satisfied requests change.
Sends(s, t) ==
  /\ t.to_resend = s.to_resend /\ t.repeats = s.repeats
  /\ t.route = s.route /\ t.own = s.own
  /\ Keeps(s.src, t.src)
  /\ \A k \in Keys : \/ t.entry[k] = s.entry[k]
                     \/ k[1] = "request" /\ t.entry[k] = Satisfied(s.entry[k])

\* What holds between any two operations, and what of it concerns the entries
\* alone.
Base(s) == s \in Shape /\ Armed(s) /\ Paced(s) /\ RoutesOK(s) /\ AskedOK(s)

\* An entry that is satisfied is no less well paced.
LEMMA PacedFact ==
  ASSUME NEW s \in Shape, NEW t \in Shape, Sends(s, t), Paced(s), AskedOK(s)
  PROVE  Paced(t) /\ AskedOK(t)
  <1>1. \A k \in Keys : s.entry[k] \in Entry /\ s.repeats[k] \in Nat
    BY ShapeFact
  <1> InQueue(t) = InQueue(s) /\ InQueue(s) \subseteq Keys
    BY ShapeFact DEF Sends, InQueue
  <1>2. ASSUME NEW k \in InQueue(s)
        PROVE  PacedEntry(k, t.entry[k], t.repeats[k])
    <2>1. CASE t.entry[k] = s.entry[k]
      BY <2>1 DEF Paced, Sends
    <2>2. CASE k[1] = "request" /\ t.entry[k] = Satisfied(s.entry[k])
      <3> DEFINE e == s.entry[k]
                 f == t.entry[k]
                 n == s.repeats[k]
      <3>1. e \in Entry /\ n \in Nat /\ t.repeats[k] = n
        BY <1>1 DEF Sends, Keeps
      <3>2. f.age = MaxAge /\ f.delay = e.delay /\ f.max = 0
        BY <2>2, <3>1, SatisfiedFact
      <3>3. PacedEntry(k, e, n)
        BY DEF Paced
      <3> HIDE DEF e, f, n
      <3>4. n > 0 => Interval[n - 1] <= f.age
        <4> SUFFICES ASSUME n > 0 PROVE Interval[n - 1] <= f.age
          OBVIOUS
        <4>1. n - 1 \in 0 .. RESEND_MAX
          BY <3>1, <3>3, BoundsFact DEF PacedEntry
        <4>2. Interval[n - 1] \in 1 .. DelayMax
          BY <4>1, IntervalFact
        <4> QED
          BY <3>2, <4>2, BoundsFact
      <3>5. f.age >= REQUEST_TIMEOUT
        BY <3>2, BoundsFact
      <3>6. PacedEntry(k, f, n)
        BY <2>2, <3>2, <3>3, <3>4, <3>5 DEF PacedEntry
      <3> QED
        BY <3>1, <3>6 DEF f
    <2> QED
      BY <2>1, <2>2 DEF Sends
  <1>3. ASSUME NEW d \in Dests
        PROVE  t.entry[Request(d)].ifp # NoIf =>
                 /\ t.entry[Request(d)].id \in Ids
                 /\ t.entry[Request(d)].seqno \in Numbers(t.entry[Request(d)].id)
    <2>1. s.entry[Request(d)] \in Entry
      BY <1>1, KeyFact
    <2>2. /\ t.entry[Request(d)].ifp = s.entry[Request(d)].ifp
          /\ t.entry[Request(d)].id = s.entry[Request(d)].id
          /\ t.entry[Request(d)].seqno = s.entry[Request(d)].seqno
      BY <2>1, SatisfiedFact, KeyFact DEF Sends
    <2> QED
      BY <2>2 DEF AskedOK
  <1> QED
    BY <1>2, <1>3 DEF Paced, AskedOK

\* The wake-up time is right when it was, or was computed anew.
LEMMA ArmedFact ==
  ASSUME NEW s \in Shape, NEW t \in Shape, Sends(s, t), Armed(s),
         t.wake = s.wake
  PROVE  Armed(t)
  <1>1. InQueue(t) = InQueue(s)
    BY DEF Sends, InQueue
  <1>2. \A k \in Keys : k[1] = "update" => t.entry[k] = s.entry[k]
    BY DEF Sends
  <1> QED
    BY <1>1, <1>2 DEF Armed

LEMMA FoundFact ==
  /\ NoRoute \notin Found
  /\ \A r \in Found : r.id \in Ids /\ r.seqno \in Seqnos /\ r.finite \in BOOLEAN
  BY ResendAssumption DEF InstalledRoute

LEMMA KeepsFact ==
  ASSUME NEW A
  PROVE  Keeps(A, A)
  BY DEF Keeps

LEMMA SendsFact ==
  ASSUME NEW s, Base(s), NEW t \in Shape, Sends(s, t), Armed(t)
  PROVE  Base(t)
  <1>1. Paced(t) /\ AskedOK(t)
    BY PacedFact DEF Base
  <1>2. ASSUME NEW d \in Dests, t.route[d] # NoRoute
        PROVE  d \notin t.own /\ t.src[d][t.route[d].id] # NoSource
    <2>1. s.route[d] \in Found
      BY <1>2, ShapeFact DEF Sends, Base
    <2> QED
      BY <1>2, <2>1, FoundFact DEF Sends, Keeps, Base, RoutesOK
  <1> QED
    BY <1>1, <1>2 DEF Base, RoutesOK

LEMMA SendsTransitive ==
  ASSUME NEW s \in Shape, NEW t \in Shape, NEW u, Sends(s, t), Sends(t, u)
  PROVE  Sends(s, u)
  <1>1. \A k \in Keys : \/ u.entry[k] = s.entry[k]
                        \/ k[1] = "request" /\ u.entry[k] = Satisfied(s.entry[k])
    <2> SUFFICES ASSUME NEW k \in Keys
                 PROVE  \/ u.entry[k] = s.entry[k]
                        \/ k[1] = "request" /\ u.entry[k] = Satisfied(s.entry[k])
      OBVIOUS
    <2>1. s.entry[k] \in Entry
      BY ShapeFact
    <2>2. Satisfied(Satisfied(s.entry[k])) = Satisfied(s.entry[k])
      BY <2>1 DEF Satisfied, Entry
    <2> QED
      BY <2>2 DEF Sends
  <1> QED
    BY <1>1 DEF Sends, Keeps

\* Announcing does not forget.
LEMMA AnnounceFact ==
  ASSUME NEW source \in Source \cup {NoSource}, NEW n \in Seqnos
  PROVE  /\ Announce(source, n) \in Source \cup {NoSource}
         /\ source # NoSource => Announce(source, n) # NoSource
  <1>1. [seqno |-> n, sent |-> TRUE] \in Source
    BY DEF Source
  <1>2. Announce(source, n) \in {source, [seqno |-> n, sent |-> TRUE]}
    BY DEF Announce
  <1> QED
    BY <1>1, <1>2, ResendAssumption

\* flushupdates: the buffers of I are empty, and no request is left that could
\* be answered.
LEMMA FlushFact ==
  ASSUME NEW s, Base(s), NEW I \in SUBSET Ifaces
  PROVE  LET u == flushupdates(s, I)
         IN  /\ Base(u) /\ Sends(s, u)
             /\ u.buffer = [i \in Ifaces |-> IF i \in I THEN {} ELSE s.buffer[i]]
             /\ \A D : Answering(s, D) => Answering(u, D)
  <1> DEFINE finite(d) == d \notin s.own /\ s.route[d] # NoRoute /\ s.route[d].finite
             out == {d \in Dests : finite(d) /\ \E i \in I : d \in s.buffer[i]}
             answered == {d \in out :
                            LET e == s.entry[Request(d)]
                            IN  /\ Request(d) \in InQueue(s)
                                /\ e.ifp \in I /\ d \in s.buffer[e.ifp]
                                /\ Answers(e, s.route[d].seqno, s.route[d].id)}
             B == [i \in Ifaces |-> IF i \in I THEN {} ELSE s.buffer[i]]
             C == [d \in Dests |->
                     IF d \in out
                       THEN [s.src[d] EXCEPT ![s.route[d].id] =
                               Announce(@, s.route[d].seqno)]
                       ELSE s.src[d]]
             E == [k \in Keys |-> IF \E d \in answered : k = Request(d)
                                    THEN Satisfied(s.entry[k]) ELSE s.entry[k]]
             t == [s EXCEPT !.buffer = B, !.src = C, !.entry = E]
             u == flushupdates(s, I)
  <1>1. s \in Shape /\ Armed(s) /\ RoutesOK(s)
    BY DEF Base
  <1>2. u = IF answered = {} THEN t ELSE recompute_resend_time(t)
    BY Zenon DEF flushupdates
  <1>3. answered \subseteq out /\ out \subseteq Dests
    OBVIOUS
  <1>4. \A d \in out : finite(d)
    OBVIOUS
  <1>5. \A d \in Dests : /\ finite(d) /\ Request(d) \in InQueue(s)
                         /\ s.entry[Request(d)].ifp \in I
                         /\ d \in s.buffer[s.entry[Request(d)].ifp]
                         /\ Answers(s.entry[Request(d)], s.route[d].seqno, s.route[d].id)
                         => d \in answered
    OBVIOUS
  <1> HIDE DEF answered, out
  <1>6. B \in [Ifaces -> SUBSET Dests]
    BY <1>1, ShapeFact
  <1>7. ASSUME NEW d \in Dests
        PROVE  /\ C[d] \in [Ids -> Source \cup {NoSource}]
               /\ \A id \in Ids : s.src[d][id] # NoSource => C[d][id] # NoSource
    <2>1. s.src[d] \in [Ids -> Source \cup {NoSource}]
      BY <1>1, ShapeFact
    <2>2. CASE d \notin out
      BY <2>1, <2>2
    <2>3. CASE d \in out
      <3> DEFINE r == s.route[d]
      <3>1. r \in Found
        BY <1>1, <1>4, <2>3, ShapeFact
      <3>2. r.id \in Ids /\ r.seqno \in Seqnos
        BY <3>1, FoundFact
      <3>3. C[d] = [s.src[d] EXCEPT ![r.id] = Announce(s.src[d][r.id], r.seqno)]
        BY <2>3
      <3> HIDE DEF r, C
      <3>4. s.src[d][r.id] \in Source \cup {NoSource}
        BY <2>1, <3>2
      <3> DEFINE a == Announce(s.src[d][r.id], r.seqno)
      <3>5. a \in Source \cup {NoSource} /\ (s.src[d][r.id] # NoSource => a # NoSource)
        BY <3>2, <3>4, AnnounceFact
      <3> HIDE DEF a
      <3>6. C[d] = [s.src[d] EXCEPT ![r.id] = a]
        BY <3>3 DEF a
      <3> QED
        BY <2>1, <3>2, <3>5, <3>6
    <2> QED
      BY <2>2, <2>3
  <1>8. \A k \in Keys : s.entry[k] \in Entry /\ Satisfied(s.entry[k]) \in Entry
    BY <1>1, ShapeFact, SatisfiedFact
  <1>9. E \in [Keys -> Entry]
    BY <1>8
  <1>10. \A k \in Keys : \/ E[k] = s.entry[k]
                         \/ k[1] = "request" /\ E[k] = Satisfied(s.entry[k])
    BY <1>3, KeyFact
  <1>11. \A d \in answered : E[Request(d)] = Satisfied(s.entry[Request(d)])
    BY <1>3, KeyFact
  <1>12. C \in [Dests -> [Ids -> Source \cup {NoSource}]]
    <2>1. C = [d \in Dests |-> C[d]]
      OBVIOUS
    <2> HIDE DEF C
    <2> QED
      BY <1>7, <2>1
  <1>13. \A i \in Ifaces : i \notin I => B[i] = s.buffer[i]
    OBVIOUS
  <1> HIDE DEF B, C, E
  <1>14. t \in Shape
    BY <1>1, <1>6, <1>9, <1>12, Zenon DEF Shape
  <1>15. /\ t.to_resend = s.to_resend /\ t.repeats = s.repeats /\ t.wake = s.wake
         /\ t.route = s.route /\ t.own = s.own
         /\ t.entry = E /\ t.src = C /\ t.buffer = B
    BY <1>1 DEF Shape
  <1> HIDE DEF t
  <1>16. Sends(s, t)
    BY <1>7, <1>10, <1>15 DEF Sends, Keeps
  <1>17. u \in Shape /\ Armed(u) /\ Sends(s, u) /\ u.entry = E /\ u.buffer = B
    <2>1. CASE answered = {}
      BY <1>1, <1>2, <1>14, <1>15, <1>16, <2>1, ArmedFact
    <2>2. CASE answered # {}
      <3>1. u = recompute_resend_time(t)
        BY <1>2, <2>2
      <3>2. Armed(u) /\ Waked(t, u)
        BY <1>14, <3>1, RecomputeFact
      <3> HIDE DEF u
      <3>3. /\ u \in Shape /\ u.to_resend = t.to_resend /\ u.entry = t.entry
            /\ u.repeats = t.repeats /\ u.route = t.route /\ u.own = t.own
            /\ u.src = t.src /\ u.buffer = t.buffer
        BY <1>14, <3>2, WakedFact
      <3>4. Sends(s, u)
        BY <1>16, <3>3 DEF Sends
      <3> QED
        BY <1>15, <3>2, <3>3, <3>4
    <2> QED
      BY <2>1, <2>2
  <1> HIDE DEF u
  <1>18. Base(u)
    BY <1>17, SendsFact
  <1>19. ASSUME NEW D, Answering(s, D), NEW d \in Dests \ D, Answerable(u, d)
         PROVE  d \in u.buffer[u.entry[Request(d)].ifp]
    <2> DEFINE e == s.entry[Request(d)]
    <2>1. e \in Entry
      BY <1>1, ShapeFact, KeyFact
    <2>2. u.entry[Request(d)] = e
      <3>1. Satisfied(e).age >= REQUEST_TIMEOUT
        BY <2>1, SatisfiedFact, BoundsFact
      <3>2. ~(Satisfied(e).age < REQUEST_TIMEOUT)
        <4>1. Satisfied(e).age \in Int
          BY <2>1, SatisfiedFact, BoundsFact
        <4> QED
          BY <3>1, <4>1, BoundsFact
      <3> QED
        BY <1>10, <1>17, <1>19, <3>2, KeyFact DEF Answerable
    <2>3. InQueue(u) = InQueue(s) /\ u.route = s.route
      BY <1>17 DEF Sends, InQueue
    <2>4. Answerable(s, d)
      BY <1>19, <2>2, <2>3 DEF Answerable
    <2>5. d \in s.buffer[e.ifp] /\ e.ifp # NoIf /\ e.ifp \in Ifaces
      BY <1>19, <2>1, <2>4, EntryFact DEF Answering, Answerable
    <2>6. finite(d)
      BY <1>1, <2>4 DEF Answerable, RoutesOK
    <2>7. e.ifp \notin I
      <3> SUFFICES ASSUME e.ifp \in I PROVE FALSE
        OBVIOUS
      <3>1. d \in answered
        BY <1>5, <2>4, <2>5, <2>6 DEF Answerable
      <3>2. e = Satisfied(e)
        BY <1>11, <1>17, <2>2, <3>1
      <3>3. e.age = MaxAge
        BY <2>1, <3>2, SatisfiedFact
      <3> QED
        BY <2>4, <3>3, BoundsFact DEF Answerable
    <2> QED
      BY <1>13, <1>17, <2>2, <2>5, <2>7
  <1> QED
    BY <1>17, <1>18, <1>19 DEF Answering, u, B

\* Sending leaves alone what could be answered, and adds to the buffers or sends
\* what is in them.
LEMMA AnswerableFact ==
  ASSUME NEW s \in Shape, NEW t \in Shape, Sends(s, t), NEW d \in Dests,
         Answerable(t, d)
  PROVE  /\ Answerable(s, d) /\ t.entry[Request(d)] = s.entry[Request(d)]
         /\ s.entry[Request(d)].ifp \in Ifaces
  <1> DEFINE e == s.entry[Request(d)]
  <1>1. e \in Entry
    BY ShapeFact, KeyFact
  <1>2. ~(Satisfied(e).age < REQUEST_TIMEOUT)
    BY <1>1, SatisfiedFact, BoundsFact
  <1>3. t.entry[Request(d)] = e
    BY <1>2, KeyFact DEF Sends, Answerable
  <1>4. InQueue(t) = InQueue(s) /\ t.route = s.route
    BY DEF Sends, InQueue
  <1>5. Answerable(s, d)
    BY <1>3, <1>4 DEF Answerable
  <1> QED
    BY <1>1, <1>3, <1>5, EntryFact DEF Answerable

LEMMA FullerFact ==
  ASSUME NEW s \in Shape, NEW t \in Shape, Sends(s, t),
         \A i \in Ifaces : s.buffer[i] \subseteq t.buffer[i], NEW D, Answering(s, D)
  PROVE  Answering(t, D)
  BY AnswerableFact DEF Answering

\* SendUpdateOn: what is sent is buffered.
LEMMA SendOnFact ==
  ASSUME NEW s, Base(s), NEW I \in SUBSET Ifaces, NEW D \in SUBSET Dests, NEW full
  PROVE  LET u == SendUpdateOn(s, I, D, full)
         IN  /\ Base(u) /\ Sends(s, u)
             /\ \A i \in I : D \subseteq u.buffer[i]
             /\ \A X : Answering(s, X) => Answering(u, X)
  <1> DEFINE t == flushupdates(s, I \cap full)
             B == [i \in Ifaces |-> IF i \in I THEN t.buffer[i] \cup D ELSE t.buffer[i]]
             u == SendUpdateOn(s, I, D, full)
  <1>1. u = [t EXCEPT !.buffer = B]
    BY Zenon DEF SendUpdateOn
  <1>2. I \cap full \in SUBSET Ifaces
    OBVIOUS
  <1>3. Base(t) /\ Sends(s, t) /\ \A X : Answering(s, X) => Answering(t, X)
    BY <1>2, FlushFact
  <1> HIDE DEF t, u
  <1>4. t \in Shape /\ s \in Shape
    BY <1>3 DEF Base
  <1>5. B \in [Ifaces -> SUBSET Dests]
    BY <1>4, ShapeFact
  <1>6. /\ \A i \in I : D \subseteq B[i]
        /\ \A i \in Ifaces : t.buffer[i] \subseteq B[i]
    OBVIOUS
  <1> HIDE DEF B
  <1>7. u \in Shape
    BY <1>1, <1>4, <1>5, Zenon DEF Shape
  <1>8. /\ u.to_resend = t.to_resend /\ u.entry = t.entry /\ u.wake = t.wake
        /\ u.repeats = t.repeats /\ u.route = t.route /\ u.own = t.own
        /\ u.src = t.src /\ u.buffer = B
    BY <1>1, <1>4 DEF Shape
  <1>9. Sends(t, u)
    BY <1>8 DEF Sends, Keeps
  <1>10. Armed(u)
    BY <1>3, <1>4, <1>7, <1>8, <1>9, ArmedFact DEF Base
  <1>11. Base(u)
    BY <1>3, <1>7, <1>9, <1>10, SendsFact
  <1>12. Sends(s, u)
    BY <1>3, <1>4, <1>9, SendsTransitive
  <1>13. \A X : Answering(t, X) => Answering(u, X)
    BY <1>4, <1>6, <1>7, <1>8, <1>9, FullerFact
  <1> QED
    BY <1>3, <1>6, <1>8, <1>11, <1>12, <1>13 DEF u

LEMMA SatisfyFact ==
  ASSUME NEW s, Base(s), NEW d \in Dests, NEW seqno, NEW id, NEW ifp
  PROVE  LET u == satisfy_request(s, d, seqno, id, ifp)
         IN  Base(u) /\ Sends(s, u) /\ u.buffer = s.buffer
  <1> DEFINE e == s.entry[Request(d)]
             E == [s.entry EXCEPT ![Request(d)] = Satisfied(e)]
             t == [s EXCEPT !.entry = E]
             u == satisfy_request(s, d, seqno, id, ifp)
  <1>1. u \in {recompute_resend_time(t), s}
    <2>1. [s EXCEPT !.entry[Request(d)] = Satisfied(e)] = t
      BY Zenon
    <2>2. u \in {recompute_resend_time([s EXCEPT !.entry[Request(d)] = Satisfied(e)]), s}
      BY Zenon DEF satisfy_request
    <2> QED
      BY <2>1, <2>2
  <1>2. s \in Shape /\ Request(d) \in Keys
    BY KeyFact DEF Base
  <1>3. e \in Entry /\ s.entry \in [Keys -> Entry]
    BY <1>2, ShapeFact
  <1>4. Satisfied(e) \in Entry
    BY <1>3, SatisfiedFact
  <1>5. E \in [Keys -> Entry] /\ E[Request(d)] = Satisfied(e)
        /\ \A k \in Keys : k # Request(d) => E[k] = s.entry[k]
    BY <1>2, <1>3, <1>4
  <1> HIDE DEF E, u
  <1>6. t \in Shape
    BY <1>2, <1>5, Zenon DEF Shape
  <1>7. /\ t.to_resend = s.to_resend /\ t.entry = E /\ t.repeats = s.repeats
        /\ t.route = s.route /\ t.own = s.own /\ t.src = s.src
        /\ t.buffer = s.buffer
    BY <1>2 DEF Shape
  <1> HIDE DEF t
  <1>8. Sends(s, t)
    BY <1>5, <1>7, KeyFact DEF Sends, Keeps
  <1>9. CASE u = recompute_resend_time(t)
    <2>1. Waked(t, u) /\ Armed(u)
      BY <1>6, <1>9, RecomputeFact
    <2>2. /\ u \in Shape /\ u.to_resend = t.to_resend /\ u.entry = t.entry
          /\ u.repeats = t.repeats /\ u.route = t.route /\ u.own = t.own
          /\ u.src = t.src /\ u.buffer = t.buffer
      BY <1>6, <2>1, WakedFact
    <2>3. Sends(s, u)
      BY <1>8, <2>2 DEF Sends
    <2> QED
      BY <1>7, <2>1, <2>2, <2>3, SendsFact DEF u
  <1>10. CASE u = s
    BY <1>10 DEF Sends, Keeps, u
  <1> QED
    BY <1>1, <1>9, <1>10

\* send_update: then d is answered on every interface.
LEMMA SendUpdateFact ==
  ASSUME NEW s, Base(s), NEW d \in Dests, NEW full
  PROVE  LET u == send_update(s, d, full)
         IN  /\ Base(u) /\ Sends(s, u)
             /\ \A X : Answering(s, X) => Answering(u, X)
             /\ Answering(s, {d}) => Answering(u, {})
  <1> DEFINE t == SendUpdateOn(s, Ifaces, {d}, full)
             r == t.route[d]
             u == send_update(s, d, full)
  <1>1. /\ Base(t) /\ Sends(s, t) /\ \A i \in Ifaces : d \in t.buffer[i]
        /\ \A X : Answering(s, X) => Answering(t, X)
    BY SendOnFact, Zenon
  <1>2. u \in {t, satisfy_request(t, d, t.src[d][r.id].seqno, r.id, NoIf)}
    BY Zenon DEF send_update
  <1> HIDE DEF t, u
  <1>3. Base(u) /\ Sends(t, u) /\ u.buffer = t.buffer
    <2>1. CASE u = t
      BY <1>1, <2>1 DEF Sends, Keeps
    <2>2. CASE u = satisfy_request(t, d, t.src[d][r.id].seqno, r.id, NoIf)
      <3> DEFINE n == t.src[d][r.id].seqno
                 id == r.id
      <3>1. u = satisfy_request(t, d, n, id, NoIf)
        BY <2>2
      <3> HIDE DEF n, id
      <3> QED
        BY <1>1, <3>1, SatisfyFact
    <2> QED
      BY <1>2, <2>1, <2>2
  <1>4. s \in Shape /\ t \in Shape /\ u \in Shape
    BY <1>1, <1>3 DEF Base
  <1>5. Sends(s, u)
    BY <1>1, <1>3, <1>4, SendsTransitive
  <1>6. \A X : Answering(s, X) => Answering(u, X)
    BY <1>1, <1>3, <1>4, FullerFact
  <1>7. ASSUME Answering(s, {d}), NEW c \in Dests, Answerable(u, c)
        PROVE  c \in u.buffer[u.entry[Request(c)].ifp]
    <2>1. CASE c = d
      <3>1. u.entry[Request(d)].ifp \in Ifaces
        BY <1>4, <1>5, <1>7, <2>1, AnswerableFact
      <3> QED
        BY <1>1, <1>3, <2>1, <3>1
    <2>2. CASE c # d
      <3>1. Answering(u, {d})
        BY <1>6, <1>7
      <3> QED
        BY <1>7, <2>2, <3>1 DEF Answering
    <2> QED
      BY <2>1, <2>2
  <1> QED
    BY <1>3, <1>5, <1>6, <1>7 DEF u, Answering

LEMMA MultihopFact ==
  ASSUME NEW s, Base(s), NEW ifp \in Ifaces \cup {NoIf}
  PROVE  LET u == send_multihop_request(s, ifp)
         IN  Base(u) /\ Sends(s, u) /\ \A X : Answering(s, X) => Answering(u, X)
  <1> DEFINE I == IF ifp = NoIf THEN Ifaces ELSE {ifp}
  <1>1. I \in SUBSET Ifaces
    OBVIOUS
  <1>2. send_multihop_request(s, ifp) = flushupdates(s, I)
    BY DEF send_multihop_request
  <1> DEFINE u == flushupdates(s, I)
  <1>3. Base(u) /\ Sends(s, u) /\ \A X : Answering(s, X) => Answering(u, X)
    BY <1>1, FlushFact, Zenon
  <1> HIDE DEF u
  <1> QED
    BY <1>2, <1>3 DEF u

-----------------------------------------------------------------------------
(* Entries that are recorded. *)

\* Only the queue, the entries and the wake-up time change.
Records(s, t) ==
  /\ t.route = s.route /\ t.own = s.own /\ t.src = s.src /\ t.buffer = s.buffer

\* What is asked for d is not what the installed route, if any, provides.
Unanswered(s, d, seqno, id) ==
  s.route[d] # NoRoute =>
    /\ id = s.route[d].id /\ seqno \in Numbers(id)
    /\ seqno_compare(seqno, s.route[d].seqno) > 0

LEMMA CompareFact ==
  ASSUME NEW a \in Seqnos, NEW b \in Seqnos
  PROVE  /\ seqno_compare(a, b) \in {-1, 0, 1}
         /\ ~(seqno_compare(a, b) <= 0) <=> seqno_compare(a, b) > 0
  <1>1. seqno_compare(a, b) \in {-1, 0, 1}
    BY DEF seqno_compare
  <1> QED
    BY <1>1

LEMMA NumbersFact ==
  ASSUME NEW id
  PROVE  /\ Numbers(id) \subseteq Seqnos
         /\ \A a \in Asked : a.seqno \in Numbers(a.id)
         /\ \A r \in Found : r.seqno \in Numbers(r.id)
  BY ResendAssumption DEF Numbers, AskedRequest, InstalledRoute

\* record_resend: the entry starts anew, and the wake-up time is right for it.
LEMMA RecordFact ==
  ASSUME NEW s, Base(s), NEW key \in Keys, NEW seqno \in Seqnos,
         NEW id \in Ids \cup {NoId}, NEW ifp \in Ifaces \cup {NoIf},
         NEW delay \in {0, resend_delay},
         key[1] = "update" => id = NoId,
         ifp # NoIf => id \in Ids /\ seqno \in Numbers(id),
         key[1] = "request" => Unanswered(s, key[2], seqno, id)
  PROVE  LET u == record_resend(s, key, seqno, id, ifp, delay)
         IN  /\ Base(u) /\ Records(s, u)
             /\ Orderly => \A X : Answering(s, X) => Answering(u, X)
  <1> DEFINE e == s.entry[key]
             wait == IF e.delay > 0 /\ delay > 0 THEN Least(e.delay, delay)
                     ELSE IF delay > 0 THEN delay ELSE e.delay
             renewed == [e EXCEPT !.delay = wait, !.age = 0, !.max = RESEND_MAX]
             older == id # NoId /\ e.id = id /\ seqno_compare(e.seqno, seqno) > 0
             replaced == [renewed EXCEPT !.id = id, !.seqno = seqno,
                            !.ifp = IF e.ifp = ifp THEN ifp ELSE NoIf]
             fresh == [id |-> id, seqno |-> seqno, ifp |-> ifp, delay |-> delay,
                       max |-> RESEND_MAX, age |-> 0]
             listed == key \in InQueue(s)
             new == IF ~listed THEN fresh ELSE IF older THEN renewed ELSE replaced
             q == IF listed THEN s.to_resend ELSE <<key>> \o s.to_resend
             w == IF new.delay > 0 /\ ~(listed /\ older)
                    THEN Least(s.wake, new.delay) ELSE s.wake
             t == [s EXCEPT !.to_resend = q, !.entry[key] = new, !.repeats[key] = 0,
                            !.wake = w]
             u == record_resend(s, key, seqno, id, ifp, delay)
  <1>1. u = IF key \in Refused THEN s ELSE t
    BY Zenon DEF record_resend
  <1>2. s \in Shape /\ e \in Entry
    BY ShapeFact DEF Base
  <1> HIDE DEF e, wait
  <1>3. /\ renewed.id = e.id /\ renewed.seqno = e.seqno /\ renewed.ifp = e.ifp
        /\ renewed.delay = wait /\ renewed.max = RESEND_MAX /\ renewed.age = 0
    BY <1>2 DEF Entry
  <1>4. /\ replaced.id = id /\ replaced.seqno = seqno
        /\ replaced.ifp = (IF e.ifp = ifp THEN ifp ELSE NoIf)
        /\ replaced.delay = wait /\ replaced.max = RESEND_MAX /\ replaced.age = 0
    BY <1>2 DEF Entry
  <1>5. /\ e.delay \in 0 .. DelayMax /\ e.id \in Ids \cup {NoId}
        /\ e.seqno \in Seqnos /\ e.ifp \in Ifaces \cup {NoIf}
    BY <1>2, EntryFact
  <1>6. /\ wait \in 0 .. DelayMax
        /\ wait > 0 => e.delay > 0 \/ wait = resend_delay
        /\ e.delay >= resend_delay /\ wait > 0 => wait >= resend_delay
    BY <1>5, BoundsFact DEF wait, Least
  <1>7. delay \in 0 .. DelayMax /\ (delay > 0 => delay >= resend_delay)
    BY BoundsFact
  <1>8. /\ new \in Entry /\ new.max = RESEND_MAX /\ new.age = 0
        /\ new.delay = IF listed THEN wait ELSE delay
        /\ listed /\ older => new.id = e.id /\ new.seqno = e.seqno /\ new.ifp = e.ifp
        /\ ~(listed /\ older) => /\ new.id = id /\ new.seqno = seqno
                                 /\ new.ifp \in {ifp, NoIf}
    <2>0. RESEND_MAX \in 0 .. CharMod - 1 /\ 0 \in 0 .. MaxAge
      BY BoundsFact
    <2>01. renewed \in Entry
      BY <1>2, <1>6, <2>0, Zenon DEF Entry
    <2>02. replaced \in Entry
      <3>1. (IF e.ifp = ifp THEN ifp ELSE NoIf) \in Ifaces \cup {NoIf}
        OBVIOUS
      <3> QED
        BY <2>01, <3>1, Zenon DEF Entry
    <2>1. CASE ~listed
      <3>1. new = fresh
        BY <2>1
      <3> QED
        BY <2>0, <2>1, <3>1, <1>7 DEF Entry
    <2>2. CASE listed /\ older
      <3>1. new = renewed
        BY <2>2
      <3> QED
        BY <2>01, <2>2, <3>1, <1>3
    <2>3. CASE listed /\ ~older
      <3>1. new = replaced
        BY <2>3
      <3> QED
        BY <2>02, <2>3, <3>1, <1>4
    <2> QED
      BY <2>1, <2>2, <2>3
  <1> DEFINE E == [s.entry EXCEPT ![key] = new]
             R == [s.repeats EXCEPT ![key] = 0]
             v == [s EXCEPT !.to_resend = q, !.entry = E, !.repeats = R, !.wake = w]
  <1>9. t = v
    BY Zenon
  <1>10. u = IF key \in Refused THEN s ELSE v
    BY <1>1, <1>9
  <1>11. q \in Seq(Keys) /\ {q[i] : i \in DOMAIN q} = InQueue(s) \cup {key}
    <2>0. s.to_resend \in Seq(Keys)
      BY <1>2, ShapeFact
    <2>1. CASE listed
      BY <2>0, <2>1 DEF InQueue
    <2>2. CASE ~listed
      <3>1. q = <<key>> \o s.to_resend
        BY <2>2
      <3>2. q \in Seq(Keys) /\ Len(q) = Len(s.to_resend) + 1
            /\ q[1] = key /\ \A i \in 1 .. Len(s.to_resend) : q[i + 1] = s.to_resend[i]
        BY <2>0, <3>1
      <3> HIDE DEF q
      <3>3. \A i \in DOMAIN q : i = 1 \/ (i - 1 \in 1 .. Len(s.to_resend)
                                          /\ q[i] = s.to_resend[i - 1])
        BY <2>0, <3>2
      <3>4. \A x \in InQueue(s) : \E i \in DOMAIN q : q[i] = x
        <4> SUFFICES ASSUME NEW j \in 1 .. Len(s.to_resend)
                     PROVE  \E i \in DOMAIN q : q[i] = s.to_resend[j]
          BY <2>0 DEF InQueue
        <4>1. j + 1 \in DOMAIN q
          BY <2>0, <3>2
        <4> QED
          BY <3>2, <4>1
      <3>5. \A i \in DOMAIN q : q[i] \in InQueue(s) \cup {key}
        <4> SUFFICES ASSUME NEW i \in DOMAIN q, i # 1
                     PROVE  q[i] \in InQueue(s)
          BY <3>2
        <4>1. i - 1 \in DOMAIN s.to_resend /\ q[i] = s.to_resend[i - 1]
          BY <2>0, <3>3
        <4> QED
          BY <4>1 DEF InQueue
      <3>6. 1 \in DOMAIN q
        BY <2>0, <3>2
      <3> QED
        BY <3>2, <3>4, <3>5, <3>6
    <2> QED
      BY <2>1, <2>2
  <1>12. /\ E \in [Keys -> Entry] /\ E[key] = new
         /\ \A k \in Keys : k # key => E[k] = s.entry[k]
    BY <1>2, <1>8, ShapeFact
  <1>13. /\ R \in [Keys -> Nat] /\ R[key] = 0
         /\ \A k \in Keys : k # key => R[k] = s.repeats[k]
    BY <1>2, ShapeFact
  <1>14. /\ w \in 0 .. Never /\ w <= s.wake
         /\ new.delay > 0 /\ ~(listed /\ older) => w <= new.delay
    <2>1. s.wake \in 0 .. Never
      BY <1>2, ShapeFact
    <2>2. new.delay \in 0 .. DelayMax
      BY <1>8, EntryFact
    <2> HIDE DEF new
    <2> QED
      BY <2>1, <2>2, BoundsFact DEF Least
  <1> HIDE DEF new, q, E, R, w, u
  <1>15. v \in Shape
    BY <1>2, <1>11, <1>12, <1>13, <1>14, Zenon DEF Shape
  <1>16. /\ v.to_resend = q /\ v.entry = E /\ v.repeats = R /\ v.wake = w
         /\ v.route = s.route /\ v.own = s.own /\ v.src = s.src /\ v.buffer = s.buffer
    BY <1>2 DEF Shape
  <1>17. InQueue(v) = InQueue(s) \cup {key}
    BY <1>11, <1>16 DEF InQueue
  <1> HIDE DEF v
  <1>18. Armed(v)
    <2> SUFFICES ASSUME NEW k \in Keys, k[1] = "update", k \in InQueue(v),
                        Pending(k, v.entry[k])
                 PROVE  v.wake <= TimeLeft(v.entry[k])
      BY DEF Armed
    <2>1. CASE k = key
      <3>1. id = NoId /\ v.entry[k] = new
        BY <1>12, <1>16, <2>1
      <3>2. new.delay > 0 /\ new.delay \in Nat
        BY <1>8, <3>1, EntryFact DEF Pending
      <3>3. w <= new.delay
        BY <1>14, <3>1, <3>2
      <3> QED
        BY <1>8, <1>16, <3>1, <3>2, <3>3 DEF TimeLeft
    <2>2. CASE k # key
      <3>1. k \in InQueue(s) /\ v.entry[k] = s.entry[k]
        BY <1>12, <1>16, <1>17, <2>2
      <3>2. s.wake <= TimeLeft(s.entry[k])
        BY <3>1 DEF Base, Armed
      <3>3. s.entry[k] \in Entry /\ s.wake \in Nat /\ w \in Nat
        BY <1>2, <1>14, ShapeFact, BoundsFact
      <3> QED
        BY <1>14, <1>16, <3>1, <3>2, <3>3, EntryFact
    <2> QED
      BY <2>1, <2>2
  <1>19. Paced(v)
    <2> SUFFICES ASSUME NEW k \in InQueue(v)
                 PROVE  PacedEntry(k, v.entry[k], v.repeats[k])
      BY DEF Paced
    <2>1. CASE k = key
      <3>1. v.entry[k] = new /\ v.repeats[k] = 0
        BY <1>12, <1>13, <1>16, <2>1
      <3>2. new.delay > 0 => resend_delay <= new.delay
        <4>1. CASE ~listed
          BY <1>7, <1>8, <4>1
        <4>2. CASE listed
          <5>1. PacedEntry(key, e, s.repeats[key])
            BY <4>2 DEF Base, Paced, e
          <5>2. s.repeats[key] \in Nat
            BY <1>2, ShapeFact
          <5> HIDE DEF listed
          <5>3. e.delay > 0 => resend_delay <= e.delay
            <6>1. s.repeats[key] \in 0 .. RESEND_MAX
              BY <5>1, <5>2, BoundsFact DEF PacedEntry
            <6>2. Interval[s.repeats[key]] >= resend_delay
                  /\ Interval[s.repeats[key]] \in Int
              BY <6>1, IntervalFact
            <6> QED
              BY <1>5, <5>1, <6>2, BoundsFact DEF PacedEntry
          <5> QED
            BY <1>5, <1>6, <1>8, <4>2, <5>3, BoundsFact
        <4> QED
          BY <4>1, <4>2
      <3>3. PacedEntry(key, new, 0)
        BY <1>8, <3>2, IntervalFact, BoundsFact DEF PacedEntry
      <3> QED
        BY <2>1, <3>1, <3>3
    <2>2. CASE k # key
      BY <1>2, <1>12, <1>13, <1>16, <1>17, <2>2, ShapeFact DEF Base, Paced
    <2> QED
      BY <2>1, <2>2
  <1>20. RoutesOK(v)
    BY <1>16 DEF Base, RoutesOK
  <1>21. AskedOK(v)
    <2> SUFFICES ASSUME NEW d \in Dests, v.entry[Request(d)].ifp # NoIf
                 PROVE  /\ v.entry[Request(d)].id \in Ids
                        /\ v.entry[Request(d)].seqno \in Numbers(v.entry[Request(d)].id)
      BY DEF AskedOK
    <2>0. /\ s.entry[Request(d)].ifp # NoIf =>
             /\ s.entry[Request(d)].id \in Ids
             /\ s.entry[Request(d)].seqno \in Numbers(s.entry[Request(d)].id)
      BY DEF Base, AskedOK
    <2>1. CASE Request(d) = key
      BY <1>8, <1>12, <1>16, <2>0, <2>1 DEF e
    <2>2. CASE Request(d) # key
      BY <1>12, <1>16, <2>0, <2>2, KeyFact
    <2> QED
      BY <2>1, <2>2
  <1>22. Base(v) /\ Records(s, v)
    BY <1>15, <1>16, <1>18, <1>19, <1>20, <1>21 DEF Base, Records
  <1>23. ASSUME Orderly, NEW X, Answering(s, X), NEW d \in Dests \ X, Answerable(v, d)
         PROVE  d \in v.buffer[v.entry[Request(d)].ifp]
    <2>1. CASE Request(d) = key
      <3>1. key[1] = "request" /\ key[2] = d
        BY <2>1, KeyFact
      <3>2. Unanswered(s, d, seqno, id)
        BY <3>1
      <3> DEFINE r == s.route[d]
      <3>3. v.entry[Request(d)] = new /\ v.route = s.route
        BY <1>12, <1>16, <2>1
      <3>4. r # NoRoute /\ Answers(new, r.seqno, r.id) /\ new.ifp # NoIf
        BY <1>23, <3>3 DEF Answerable
      <3>5. r \in Found
        BY <1>2, <3>4, ShapeFact
      <3>6. /\ id = r.id /\ seqno \in Numbers(id) /\ seqno_compare(seqno, r.seqno) > 0
            /\ r.seqno \in Numbers(r.id) /\ r.id \in Ids /\ r.seqno \in Seqnos
        BY <3>2, <3>4, <3>5, FoundFact, NumbersFact DEF Unanswered
      <3> HIDE DEF r, older
      <3>7. CASE ~(listed /\ older)
        <4>1. new.id = id /\ new.seqno = seqno
          BY <1>8, <3>7
        <4>2. seqno_compare(seqno, r.seqno) <= 0
          BY <3>4, <3>6, <4>1 DEF Answers
        <4> QED
          BY <3>6, <4>2, CompareFact
      <3>8. CASE listed /\ older
        <4>1. new.id = e.id /\ new.seqno = e.seqno /\ new.ifp = e.ifp
          BY <1>8, <3>8
        <4>2. e.id = id /\ seqno_compare(e.seqno, seqno) > 0
          BY <3>8 DEF older
        <4>3. e.seqno \in Numbers(id)
          BY <2>1, <3>4, <4>1, <4>2 DEF Base, AskedOK, e
        <4>4. seqno_compare(e.seqno, r.seqno) > 0
          BY <1>23, <3>6, <4>2, <4>3 DEF Orderly, Linear
        <4>5. seqno_compare(e.seqno, r.seqno) <= 0
          BY <3>4, <3>6, <4>1, <4>2 DEF Answers
        <4> QED
          BY <1>5, <3>6, <4>4, <4>5, CompareFact
      <3> QED
        BY <3>7, <3>8
    <2>2. CASE Request(d) # key
      <3>1. v.entry[Request(d)] = s.entry[Request(d)]
        BY <1>12, <1>16, <2>2, KeyFact
      <3>2. Answerable(s, d)
        BY <1>16, <1>17, <1>23, <2>2, <3>1 DEF Answerable
      <3> QED
        BY <1>16, <1>23, <3>1, <3>2 DEF Answering
    <2> QED
      BY <2>1, <2>2
  <1>24. CASE key \in Refused
    <2>1. u = s
      BY <1>10, <1>24
    <2> QED
      BY <2>1 DEF Records, u
  <1>25. CASE key \notin Refused
    <2>1. u = v
      BY <1>10, <1>25
    <2> QED
      BY <1>22, <1>23, <2>1 DEF Answering, u
  <1> QED
    BY <1>24, <1>25

-----------------------------------------------------------------------------
(* The walks of the queue. *)

\* Entry e of key k, repeated n times, that is due is repeated: f.
LEMMA RepeatedFact ==
  ASSUME NEW k \in Keys, NEW e \in Entry, NEW n \in Nat, PacedEntry(k, e, n),
         Pending(k, e), e.age >= e.delay, NEW f \in Entry,
         f.delay = Doubled(e.delay),
         \/ f.max = (e.max - 1) % CharMod /\ f.age = e.age
         \/ k[1] = "request" /\ f.age = MaxAge
  PROVE  PacedEntry(k, f, n + 1)
  <1>1. /\ e.delay \in 1 .. DelayMax /\ e.max \in 1 .. CharMod - 1
        /\ e.age \in 0 .. MaxAge /\ ~resend_expired(k, e)
    BY EntryFact, BoundsFact DEF Pending
  <1>2. e.max + n <= RESEND_MAX
    BY <1>1, BoundsFact DEF PacedEntry, resend_expired
  <1>3. n \in 0 .. RESEND_MAX - 1
    BY <1>1, <1>2, BoundsFact
  <1>4. /\ Interval[n] \in 1 .. DelayMax /\ Interval[n] <= e.delay
        /\ Interval[n + 1] = Least(DelayMax, 2 * Interval[n])
    BY <1>1, <1>3, IntervalFact, BoundsFact DEF PacedEntry
  <1>5. Interval[n + 1] <= f.delay
    BY <1>1, <1>4, BoundsFact DEF Doubled, Least
  <1>6. Interval[n] <= f.age
    BY <1>1, <1>4, BoundsFact
  <1>7. f.max + (n + 1) <= RESEND_MAX \/ (k[1] = "request" /\ f.age >= REQUEST_TIMEOUT)
    <2>1. (e.max - 1) % CharMod = e.max - 1
      <3>1. e.max - 1 \in 0 .. CharMod - 1 /\ CharMod \in Nat \ {0}
        BY <1>1, BoundsFact
      <3>2. \A x \in Int, m \in Nat \ {0} : x \in 0 .. m - 1 => x % m = x
        OBVIOUS
      <3> QED
        BY <3>1, <3>2
    <2> QED
      BY <1>1, <1>2, <2>1, BoundsFact
  <1>8. (n + 1) - 1 = n /\ n + 1 <= RESEND_MAX
    BY <1>3, BoundsFact
  <1> QED
    BY <1>5, <1>6, <1>7, <1>8 DEF PacedEntry

LEMMA ResendOneFact ==
  ASSUME NEW s, Base(s), NEW k \in InQueue(s), NEW full
  PROVE  LET u == ResendOne(s, k, full)
         IN  /\ Base(u) /\ u.to_resend = s.to_resend
             /\ \A X : Answering(s, X) => Answering(u, X)
  <1> DEFINE e == s.entry[k]
             t == IF k[1] = "request" THEN send_multihop_request(s, e.ifp)
                  ELSE send_update(s, k[2], full)
             f == t.entry[k]
             g == [f EXCEPT !.delay = Doubled(f.delay), !.max = (f.max - 1) % CharMod]
             E == [t.entry EXCEPT ![k] = g]
             R == [t.repeats EXCEPT ![k] = t.repeats[k] + 1]
             v == [t EXCEPT !.entry = E, !.repeats = R]
             u == ResendOne(s, k, full)
             due == Pending(k, e) /\ e.age >= e.delay
  <1>1. u = IF due THEN v ELSE s
    <2> DEFINE w == [t EXCEPT !.entry[k] = g, !.repeats[k] = t.repeats[k] + 1]
    <2>1. u = IF due THEN w ELSE s
      BY Zenon DEF ResendOne
    <2>2. w = v
      BY Zenon
    <2> QED
      BY <2>1, <2>2
  <1>2. s \in Shape /\ k \in Keys /\ e \in Entry
    BY ShapeFact DEF Base
  <1>3. Base(t) /\ Sends(s, t) /\ \A X : Answering(s, X) => Answering(t, X)
    <2>1. CASE k[1] = "request"
      <3>1. t = send_multihop_request(s, e.ifp)
        BY <2>1
      <3>2. e.ifp \in Ifaces \cup {NoIf}
        BY <1>2, EntryFact
      <3> HIDE DEF e
      <3> QED
        BY <3>1, <3>2, MultihopFact
    <2>2. CASE k[1] # "request"
      <3>1. t = send_update(s, k[2], full) /\ k[2] \in Dests
        BY <1>2, <2>2, KeyFact
      <3> QED
        BY <3>1, SendUpdateFact
    <2> QED
      BY <2>1, <2>2
  <1> HIDE DEF t
  <1>4. /\ t \in Shape /\ InQueue(t) = InQueue(s) /\ f \in Entry
        /\ t.repeats[k] = s.repeats[k] /\ t.repeats[k] \in Nat
        /\ f = e \/ (k[1] = "request" /\ f = Satisfied(e))
    BY <1>2, <1>3, ShapeFact DEF Base, Sends, InQueue
  <1> HIDE DEF e, f
  <1>5. /\ f.delay = e.delay /\ f.delay \in 0 .. DelayMax
        /\ f = e \/ (k[1] = "request" /\ f.age = MaxAge)
        /\ f.max \in 0 .. CharMod - 1
    BY <1>2, <1>4, EntryFact, SatisfiedFact
  <1>6. Doubled(f.delay) \in 0 .. DelayMax /\ Doubled(f.delay) >= f.delay
    BY <1>5, BoundsFact DEF Doubled, Least
  <1>7. (f.max - 1) % CharMod \in 0 .. CharMod - 1
    <2>1. f.max - 1 \in Int /\ CharMod \in Nat \ {0}
      BY <1>5, BoundsFact
    <2>2. \A x \in Int, m \in Nat \ {0} : x % m \in 0 .. m - 1
      OBVIOUS
    <2> QED
      BY <2>1, <2>2
  <1>8. g \in Entry
    BY <1>4, <1>6, <1>7, Zenon DEF Entry
  <1>9. /\ g.delay = Doubled(f.delay) /\ g.max = (f.max - 1) % CharMod
        /\ g.age = f.age /\ g.id = f.id /\ g.seqno = f.seqno /\ g.ifp = f.ifp
    BY <1>4 DEF Entry
  <1> HIDE DEF g
  <1>10. /\ E \in [Keys -> Entry] /\ E[k] = g
         /\ \A x \in Keys : x # k => E[x] = t.entry[x]
    BY <1>2, <1>4, <1>8, ShapeFact
  <1>11. /\ R \in [Keys -> Nat] /\ R[k] = s.repeats[k] + 1
         /\ \A x \in Keys : x # k => R[x] = t.repeats[x]
    BY <1>2, <1>4, ShapeFact
  <1> HIDE DEF E, R
  <1>12. v \in Shape
    BY <1>4, <1>10, <1>11, Zenon DEF Shape
  <1>13. /\ v.to_resend = t.to_resend /\ v.entry = E /\ v.repeats = R
         /\ v.wake = t.wake /\ v.route = t.route /\ v.own = t.own
         /\ v.src = t.src /\ v.buffer = t.buffer /\ InQueue(v) = InQueue(t)
    <2>1. /\ v.to_resend = t.to_resend /\ v.entry = E /\ v.repeats = R
          /\ v.wake = t.wake /\ v.route = t.route /\ v.own = t.own
          /\ v.src = t.src /\ v.buffer = t.buffer
      BY <1>4 DEF Shape
    <2> QED
      BY <2>1 DEF InQueue
  <1> HIDE DEF v, u
  <1>14. ASSUME due PROVE Paced(v)
    <2> SUFFICES ASSUME NEW x \in InQueue(v)
                 PROVE  PacedEntry(x, v.entry[x], v.repeats[x])
      BY DEF Paced
    <2>1. CASE x = k
      <3>1. PacedEntry(k, e, s.repeats[k])
        BY DEF Base, Paced, e
      <3> HIDE DEF due
      <3>2. PacedEntry(k, g, s.repeats[k] + 1)
        <4> DEFINE n == s.repeats[k]
        <4>1. n \in Nat /\ PacedEntry(k, e, n) /\ Pending(k, e) /\ e.age >= e.delay
          BY <1>4, <1>14, <3>1 DEF due
        <4>2. g.delay = Doubled(e.delay)
          BY <1>5, <1>9
        <4>3. \/ g.max = (e.max - 1) % CharMod /\ g.age = e.age
              \/ k[1] = "request" /\ g.age = MaxAge
          BY <1>5, <1>9
        <4> HIDE DEF n
        <4>4. PacedEntry(k, g, n + 1)
          BY <1>2, <1>8, <4>1, <4>2, <4>3, RepeatedFact
        <4> QED
          BY <4>4 DEF n
      <3> QED
        BY <1>10, <1>11, <1>13, <2>1, <3>2
    <2>2. CASE x # k
      BY <1>3, <1>4, <1>10, <1>11, <1>13, <2>2, ShapeFact DEF Base, Paced
    <2> QED
      BY <2>1, <2>2
  <1>15. ASSUME due PROVE Armed(v)
    <2> SUFFICES ASSUME NEW x \in Keys, x[1] = "update", x \in InQueue(v),
                        Pending(x, v.entry[x])
                 PROVE  v.wake <= TimeLeft(v.entry[x])
      BY DEF Armed
    <2>1. CASE x = k
      <3>1. v.entry[x] = g /\ f = e
        BY <1>4, <1>10, <1>13, <2>1
      <3>2. Pending(k, f)
        BY <1>15, <3>1
      <3>3. t.wake <= TimeLeft(f)
        BY <1>3, <1>4, <2>1, <3>2 DEF Base, Armed, f
      <3>4. t.wake \in Nat /\ f.age \in Nat /\ g.delay \in Nat /\ f.delay \in Nat
        BY <1>4, <1>6, <1>9, ShapeFact, EntryFact, BoundsFact
      <3>5. TimeLeft(f) <= TimeLeft(g)
        BY <1>6, <1>9, <3>4 DEF TimeLeft
      <3>6. TimeLeft(f) \in Nat /\ TimeLeft(g) \in Nat
        BY <1>9, <3>4 DEF TimeLeft
      <3> QED
        BY <1>13, <3>1, <3>3, <3>4, <3>5, <3>6
    <2>2. CASE x # k
      BY <1>3, <1>10, <1>13, <2>2 DEF Base, Armed
    <2> QED
      BY <2>1, <2>2
  <1>16. RoutesOK(v)
    BY <1>3, <1>13 DEF Base, RoutesOK
  <1>17. AskedOK(v)
    <2> SUFFICES ASSUME NEW d \in Dests, v.entry[Request(d)].ifp # NoIf
                 PROVE  /\ v.entry[Request(d)].id \in Ids
                        /\ v.entry[Request(d)].seqno \in Numbers(v.entry[Request(d)].id)
      BY DEF AskedOK
    <2>1. /\ v.entry[Request(d)].ifp = t.entry[Request(d)].ifp
          /\ v.entry[Request(d)].id = t.entry[Request(d)].id
          /\ v.entry[Request(d)].seqno = t.entry[Request(d)].seqno
      BY <1>9, <1>10, <1>13, KeyFact DEF f
    <2> QED
      BY <1>3, <2>1 DEF Base, AskedOK
  <1>18. ASSUME due PROVE Base(v)
    BY <1>12, <1>14, <1>15, <1>16, <1>17, <1>18 DEF Base
  <1>19. ASSUME NEW X, Answering(t, X)
         PROVE  Answering(v, X)
    <2> SUFFICES ASSUME NEW d \in Dests \ X, Answerable(v, d)
                 PROVE  d \in v.buffer[v.entry[Request(d)].ifp]
      BY DEF Answering
    <2>1. /\ v.entry[Request(d)].ifp = t.entry[Request(d)].ifp
          /\ v.entry[Request(d)].id = t.entry[Request(d)].id
          /\ v.entry[Request(d)].seqno = t.entry[Request(d)].seqno
          /\ v.entry[Request(d)].age = t.entry[Request(d)].age
      BY <1>9, <1>10, <1>13, KeyFact DEF f
    <2>2. Answerable(t, d)
      BY <1>13, <2>1 DEF Answerable, Answers
    <2> QED
      BY <1>13, <1>19, <2>1, <2>2 DEF Answering
  <1>20. CASE due
    <2>1. u = v
      BY <1>1, <1>20
    <2>2. v.to_resend = s.to_resend
      BY <1>3, <1>13 DEF Sends
    <2> QED
      BY <1>3, <1>18, <1>19, <1>20, <2>1, <2>2 DEF u
  <1>21. CASE ~due
    <2>1. u = s
      BY <1>1, <1>21
    <2> QED
      BY <2>1 DEF u
  <1> QED
    BY <1>20, <1>21

\* do_resend: one entry after the other; sending may satisfy those that follow.
LEMMA DoResendFact ==
  ASSUME NEW s, Base(s), NEW full
  PROVE  LET u == do_resend(s, full)
         IN  Base(u) /\ \A X : Answering(s, X) => Answering(u, X)
  <1> DEFINE N == Len(s.to_resend)
             Is(n, g) == g = [i \in 0 .. n |->
                               IF i = 0 THEN s
                               ELSE ResendOne(g[i - 1], s.to_resend[i], full)]
             walk == CHOOSE g : Is(N, g)
             S == {n \in Nat : \E g : Is(n, g)}
             Ok(t) == /\ Base(t) /\ t.to_resend = s.to_resend
                      /\ \A X : Answering(s, X) => Answering(t, X)
             T == {n \in Nat : Ok(walk[n])}
  <1>1. do_resend(s, full) = recompute_resend_time(walk[N])
    BY Zenon DEF do_resend
  <1>2. N \in Nat /\ \A i \in 1 .. N : s.to_resend[i] \in InQueue(s)
    BY ShapeFact DEF Base, InQueue
  <1> HIDE DEF N
  <1>3. 0 \in S
    <2> DEFINE g == [i \in 0 .. 0 |-> s]
    <2>1. Is(0, g)
      OBVIOUS
    <2> QED
      BY <2>1
  <1>4. \A n \in S : n \in Nat /\ n < N => n + 1 \in S
    <2> SUFFICES ASSUME NEW n \in Nat, NEW g, Is(n, g)
                 PROVE  \E h : Is(n + 1, h)
      OBVIOUS
    <2> DEFINE h == [i \in 0 .. n + 1 |-> IF i <= n THEN g[i]
                                          ELSE ResendOne(g[n], s.to_resend[n + 1], full)]
    <2>1. \A i \in 0 .. n : h[i] = g[i]
      OBVIOUS
    <2>2. \A i \in 0 .. n + 1 : h[i] = IF i = 0 THEN s
                                       ELSE ResendOne(h[i - 1], s.to_resend[i], full)
      <3> SUFFICES ASSUME NEW i \in 0 .. n + 1
                   PROVE  h[i] = IF i = 0 THEN s
                                 ELSE ResendOne(h[i - 1], s.to_resend[i], full)
        OBVIOUS
      <3>1. CASE i \in 0 .. n
        <4>1. g[i] = IF i = 0 THEN s ELSE ResendOne(g[i - 1], s.to_resend[i], full)
          BY <3>1
        <4>2. i # 0 => i - 1 \in 0 .. n
          BY <3>1
        <4> QED
          BY <2>1, <3>1, <4>1, <4>2
      <3>2. CASE i = n + 1
        <4>1. /\ h[n + 1] = ResendOne(g[n], s.to_resend[n + 1], full)
              /\ h[n] = g[n] /\ (n + 1) - 1 = n /\ n + 1 # 0
          OBVIOUS
        <4> QED
          BY <3>2, <4>1
      <3> QED
        BY <3>1, <3>2
    <2> HIDE DEF h
    <2>3. h = [i \in 0 .. n + 1 |-> h[i]]
      BY DEF h
    <2>4. Is(n + 1, h)
      BY <2>2, <2>3
    <2> QED
      BY <2>4
  <1>5. N \in S
    <2> HIDE DEF S
    <2> QED
      BY <1>2, <1>3, <1>4, InductionFact
  <1>6. Is(N, walk)
    <2>1. PICK g : Is(N, g)
      BY <1>5
    <2> HIDE DEF Is
    <2> QED
      BY <2>1
  <1> HIDE DEF walk, S
  <1>7. /\ walk[0] = s
        /\ \A n \in Nat : n < N => walk[n + 1] = ResendOne(walk[n], s.to_resend[n + 1], full)
    <2>1. \A i \in 0 .. N : walk[i] = IF i = 0 THEN s
                                      ELSE ResendOne(walk[i - 1], s.to_resend[i], full)
      BY <1>6
    <2> HIDE DEF Is
    <2> QED
      BY <1>2, <2>1
  <1> HIDE DEF Is
  <1>8. 0 \in T
    BY <1>7
  <1>9. \A n \in T : n \in Nat /\ n < N => n + 1 \in T
    <2> SUFFICES ASSUME NEW n \in Nat, Ok(walk[n]), n < N
                 PROVE  Ok(walk[n + 1])
      OBVIOUS
    <2> DEFINE t == walk[n]
               k == s.to_resend[n + 1]
    <2>1. n + 1 \in 1 .. N
      BY <1>2
    <2>2. Base(t) /\ k \in InQueue(t)
      BY <1>2, <2>1 DEF InQueue
    <2>3. walk[n + 1] = ResendOne(t, k, full) /\ Ok(t)
      BY <1>7
    <2> HIDE DEF t, k
    <2> QED
      BY <2>2, <2>3, ResendOneFact
  <1>10. N \in T
    <2> HIDE DEF T
    <2> QED
      BY <1>2, <1>8, <1>9, InductionFact
  <1> DEFINE t == walk[N]
             u == do_resend(s, full)
  <1>11. Base(t) /\ \A X : Answering(s, X) => Answering(t, X)
    BY <1>10
  <1>12. u = recompute_resend_time(t)
    BY <1>1
  <1> HIDE DEF t, u
  <1>13. t \in Shape
    BY <1>11 DEF Base
  <1>14. Waked(t, u) /\ Armed(u)
    BY <1>12, <1>13, RecomputeFact
  <1>15. /\ u \in Shape /\ u.to_resend = t.to_resend /\ u.entry = t.entry
         /\ u.repeats = t.repeats /\ u.route = t.route /\ u.own = t.own
         /\ u.src = t.src /\ u.buffer = t.buffer
    BY <1>13, <1>14, WakedFact
  <1>16. Sends(t, u)
    BY <1>15 DEF Sends, Keeps
  <1>17. Base(u)
    BY <1>11, <1>14, <1>15, <1>16, SendsFact
  <1>18. \A X : Answering(t, X) => Answering(u, X)
    BY <1>13, <1>15, <1>16, FullerFact
  <1> QED
    BY <1>11, <1>17, <1>18 DEF u

\* expire_resend: what is left of the queue are entries of it.
LEMMA ExpireFact ==
  ASSUME NEW s, Base(s)
  PROVE  LET u == expire_resend(s)
         IN  Base(u) /\ \A X : Answering(s, X) => Answering(u, X)
  <1> DEFINE N == Len(s.to_resend)
             live(k) == ~resend_expired(k, s.entry[k])
             Is(n, g) == g = [i \in 0 .. n |->
                               IF i = 0 THEN << >>
                               ELSE IF live(s.to_resend[i])
                                 THEN Append(g[i - 1], s.to_resend[i])
                               ELSE g[i - 1]]
             kept == CHOOSE g : Is(N, g)
             S == {n \in Nat : \E g : Is(n, g)}
             T == {n \in Nat : kept[n] \in Seq(Keys)}
             E == [k \in Keys |-> IF k \in InQueue(s) /\ live(k)
                                    THEN s.entry[k] ELSE NoEntry]
             R == [k \in Keys |-> IF k \in InQueue(s) /\ live(k)
                                    THEN s.repeats[k] ELSE 0]
             t == [s EXCEPT !.to_resend = kept[N], !.entry = E, !.repeats = R]
             u == expire_resend(s)
  <1>1. u = IF t.to_resend = s.to_resend THEN s ELSE recompute_resend_time(t)
    BY Zenon DEF expire_resend
  <1>2. /\ s \in Shape /\ N \in Nat
        /\ \A i \in 1 .. N : s.to_resend[i] \in Keys
    BY ShapeFact DEF Base
  <1> HIDE DEF N, live, u
  <1>3. 0 \in S
    <2> DEFINE g == [i \in 0 .. 0 |-> << >>]
    <2>1. Is(0, g)
      OBVIOUS
    <2> QED
      BY <2>1
  <1>4. \A n \in S : n \in Nat /\ n < N => n + 1 \in S
    <2> SUFFICES ASSUME NEW n \in Nat, NEW g, Is(n, g)
                 PROVE  \E h : Is(n + 1, h)
      <3> HIDE DEF Is
      <3> QED
        OBVIOUS
    <2> DEFINE last == IF live(s.to_resend[n + 1])
                         THEN Append(g[n], s.to_resend[n + 1]) ELSE g[n]
               h == [i \in 0 .. n + 1 |-> IF i <= n THEN g[i] ELSE last]
    <2>1. \A i \in 0 .. n : h[i] = g[i]
      OBVIOUS
    <2>2. \A i \in 0 .. n + 1 :
            h[i] = IF i = 0 THEN << >>
                   ELSE IF live(s.to_resend[i]) THEN Append(h[i - 1], s.to_resend[i])
                   ELSE h[i - 1]
      <3> SUFFICES ASSUME NEW i \in 0 .. n + 1
                   PROVE  h[i] = IF i = 0 THEN << >>
                                 ELSE IF live(s.to_resend[i])
                                   THEN Append(h[i - 1], s.to_resend[i])
                                 ELSE h[i - 1]
        OBVIOUS
      <3>1. CASE i \in 0 .. n
        <4>1. g[i] = IF i = 0 THEN << >>
                     ELSE IF live(s.to_resend[i]) THEN Append(g[i - 1], s.to_resend[i])
                     ELSE g[i - 1]
          BY <3>1
        <4>2. i # 0 => i - 1 \in 0 .. n
          BY <3>1
        <4> HIDE DEF h, Is
        <4> QED
          BY <2>1, <3>1, <4>1, <4>2
      <3>2. CASE i = n + 1
        <4>1. h[n + 1] = last /\ h[n] = g[n] /\ (n + 1) - 1 = n /\ n + 1 # 0
          OBVIOUS
        <4> HIDE DEF h, Is
        <4> QED
          BY <3>2, <4>1
      <3> QED
        BY <3>1, <3>2
    <2> HIDE DEF h
    <2>3. h = [i \in 0 .. n + 1 |-> h[i]]
      BY DEF h
    <2>4. Is(n + 1, h)
      BY <2>2, <2>3
    <2> QED
      BY <2>4
  <1>5. N \in S
    <2> HIDE DEF S
    <2> QED
      BY <1>2, <1>3, <1>4, InductionFact
  <1>6. Is(N, kept)
    <2>1. PICK g : Is(N, g)
      BY <1>5
    <2> HIDE DEF Is
    <2> QED
      BY <2>1
  <1> HIDE DEF kept, S
  <1>7. \A i \in 0 .. N :
          kept[i] = IF i = 0 THEN << >>
                    ELSE IF live(s.to_resend[i]) THEN Append(kept[i - 1], s.to_resend[i])
                    ELSE kept[i - 1]
    BY <1>6
  <1> HIDE DEF Is
  <1>8. 0 \in T
    <2>1. kept[0] = << >>
      BY <1>2, <1>7
    <2>2. << >> \in Seq(Keys)
      OBVIOUS
    <2> QED
      BY <2>1, <2>2
  <1>9. \A n \in T : n \in Nat /\ n < N => n + 1 \in T
    <2> SUFFICES ASSUME NEW n \in Nat, kept[n] \in Seq(Keys), n < N
                 PROVE  kept[n + 1] \in Seq(Keys)
      OBVIOUS
    <2>1. n + 1 \in 1 .. N /\ n + 1 \in 0 .. N /\ (n + 1) - 1 = n /\ n + 1 # 0
      BY <1>2
    <2>2. kept[n + 1] \in {Append(kept[n], s.to_resend[n + 1]), kept[n]}
      BY <1>7, <2>1
    <2>3. s.to_resend[n + 1] \in Keys
      BY <1>2, <2>1
    <2>4. Append(kept[n], s.to_resend[n + 1]) \in Seq(Keys)
      BY <2>3, AppendProperties
    <2> QED
      BY <2>2, <2>4
  <1>10. kept[N] \in Seq(Keys)
    <2>1. N \in T
      <3> HIDE DEF T
      <3> QED
        BY <1>2, <1>8, <1>9, InductionFact
    <2> QED
      BY <2>1
  <1> DEFINE q == kept[N]
  <1>11. /\ E \in [Keys -> Entry] /\ R \in [Keys -> Nat]
         /\ \A k \in Keys : \/ E[k] = s.entry[k] /\ R[k] = s.repeats[k] /\ k \in InQueue(s)
                            \/ E[k] = NoEntry /\ R[k] = 0
    BY <1>2, ShapeFact, NoEntryFact
  <1> HIDE DEF E, R, q
  <1>12. t \in Shape
    <2>1. t = [s EXCEPT !.to_resend = q, !.entry = E, !.repeats = R]
      BY DEF q
    <2>2. q \in Seq(Keys)
      BY <1>10 DEF q
    <2> QED
      BY <1>2, <1>11, <2>1, <2>2, Zenon DEF Shape
  <1>13. /\ t.to_resend = q /\ t.entry = E /\ t.repeats = R
         /\ t.wake = s.wake /\ t.route = s.route /\ t.own = s.own
         /\ t.src = s.src /\ t.buffer = s.buffer
    BY <1>2 DEF Shape, q
  <1> HIDE DEF t
  <1> DEFINE r == recompute_resend_time(t)
  <1>14. Waked(t, r) /\ Armed(r)
    BY <1>12, RecomputeFact
  <1> HIDE DEF r
  <1>15. /\ r \in Shape /\ r.entry = E /\ r.repeats = R
         /\ r.route = s.route /\ r.own = s.own
         /\ r.src = s.src /\ r.buffer = s.buffer
    BY <1>12, <1>13, <1>14, WakedFact
  <1>16. Paced(r)
    <2> SUFFICES ASSUME NEW k \in InQueue(r)
                 PROVE  PacedEntry(k, r.entry[k], r.repeats[k])
      BY DEF Paced
    <2>1. k \in Keys
      BY <1>15, ShapeFact
    <2>2. PacedEntry(k, NoEntry, 0)
      BY NoEntryFact, BoundsFact DEF PacedEntry
    <2> QED
      BY <1>11, <1>15, <2>1, <2>2 DEF Base, Paced
  <1>17. RoutesOK(r)
    BY <1>15 DEF Base, RoutesOK
  <1>18. AskedOK(r)
    BY <1>11, <1>15, KeyFact, NoEntryFact DEF Base, AskedOK
  <1>19. Base(r)
    BY <1>14, <1>15, <1>16, <1>17, <1>18 DEF Base
  <1>20. ASSUME NEW X, Answering(s, X), NEW d \in Dests \ X, Answerable(r, d)
         PROVE  d \in r.buffer[r.entry[Request(d)].ifp]
    <2>1. r.entry[Request(d)] = s.entry[Request(d)] /\ Request(d) \in InQueue(s)
      BY <1>11, <1>15, <1>20, KeyFact, NoEntryFact DEF Answerable
    <2>2. Answerable(s, d)
      BY <1>15, <1>20, <2>1 DEF Answerable
    <2> QED
      BY <1>15, <1>20, <2>1, <2>2 DEF Answering
  <1>21. u \in {s, r}
    BY <1>1 DEF r
  <1>22. CASE u = s
    BY <1>22 DEF u
  <1>23. CASE u = r
    BY <1>19, <1>20, <1>23 DEF Answering, u
  <1> QED
    BY <1>21, <1>22, <1>23

-----------------------------------------------------------------------------
(* The handlers. *)

\* send_update_resend and send_request_resend.
LEMMA UpdateResendFact ==
  ASSUME NEW s, Base(s), NEW d \in Dests, NEW full
  PROVE  LET u == send_update_resend(s, d, full)
         IN  /\ Base(u) /\ u.route = s.route
             /\ Keeps(s.src, u.src)
             /\ Orderly => \A X : Answering(s, X) => Answering(u, X)
             /\ Orderly => (Answering(s, {d}) => Answering(u, {}))
  <1> DEFINE t == send_update(s, d, full)
             u == send_update_resend(s, d, full)
  <1>1. /\ Base(t) /\ Sends(s, t)
        /\ \A X : Answering(s, X) => Answering(t, X)
        /\ Answering(s, {d}) => Answering(t, {})
    BY SendUpdateFact
  <1>2. u = record_resend(t, Repeat(d), 0, NoId, NoIf, resend_delay)
    BY DEF send_update_resend
  <1> HIDE DEF t, u
  <1>3. /\ Repeat(d) \in Keys /\ Repeat(d)[1] = "update" /\ 0 \in Seqnos
        /\ ~(Repeat(d)[1] = "request")
    BY KeyFact, SeqModAssumption DEF Seqnos
  <1>4. /\ Base(u) /\ Records(t, u)
        /\ Orderly => \A X : Answering(t, X) => Answering(u, X)
    BY <1>1, <1>2, <1>3, RecordFact
  <1> QED
    BY <1>1, <1>4 DEF Sends, Records, u

LEMMA WantedFact ==
  ASSUME NEW source \in Source
  PROVE  WantedSeqno(source) \in Seqnos
  <1>1. source.seqno \in Seqnos
    BY DEF Source
  <1>2. seqno_plus(source.seqno, 1) \in Seqnos
    <2>1. source.seqno + 1 \in Int /\ SeqMod \in Nat \ {0}
      BY <1>1, SeqModAssumption DEF Seqnos
    <2>2. \A x \in Int, m \in Nat \ {0} : x % m \in 0 .. m - 1
      OBVIOUS
    <2> QED
      BY <2>1, <2>2 DEF Seqnos, seqno_plus
  <1> QED
    BY <1>1, <1>2 DEF WantedSeqno

LEMMA RequestResendFact ==
  ASSUME NEW s, Base(s), NEW d \in Dests, s.route[d] = NoRoute,
         NEW seqno \in Seqnos, NEW id \in Ids
  PROVE  LET u == send_request_resend(s, d, seqno, id)
         IN  Base(u) /\ (Orderly => (Answering(s, {}) => Answering(u, {})))
  <1> DEFINE t == send_multihop_request(s, NoIf)
             u == send_request_resend(s, d, seqno, id)
  <1>1. Base(t) /\ Sends(s, t) /\ \A X : Answering(s, X) => Answering(t, X)
    BY MultihopFact
  <1>2. u = record_resend(t, Request(d), seqno, id, NoIf, resend_delay)
    BY DEF send_request_resend
  <1> HIDE DEF t, u
  <1>3. Request(d) \in Keys /\ Request(d)[1] = "request" /\ Request(d)[2] = d
    BY KeyFact
  <1>4. Unanswered(t, d, seqno, id)
    BY <1>1 DEF Unanswered, Sends
  <1>5. ~(Request(d)[1] = "update")
    BY <1>3
  <1>6. /\ Base(u) /\ Records(t, u)
        /\ Orderly => \A X : Answering(t, X) => Answering(u, X)
    BY <1>1, <1>2, <1>3, <1>4, <1>5, RecordFact
  <1> QED
    BY <1>1, <1>6 DEF u

\* Another route, of a known source or none, for d: its request may be answerable
\* then.
LEMMA InstallFact ==
  ASSUME NEW s, Base(s), Orderly => Answering(s, {}), NEW d \in Dests,
         NEW t \in Shape, t.to_resend = s.to_resend, t.entry = s.entry,
         t.wake = s.wake, t.repeats = s.repeats, t.buffer = s.buffer,
         \A x \in Dests : x # d => /\ t.route[x] = s.route[x]
                                   /\ x \in t.own <=> x \in s.own,
         Keeps(s.src, t.src),
         t.route[d] # NoRoute =>
           d \notin t.own /\ t.src[d][t.route[d].id] # NoSource
  PROVE  /\ Base(t) /\ (Orderly => Answering(t, {d}))
         /\ ~Answerable(t, d) => (Orderly => Answering(t, {}))
  <1>1. InQueue(t) = InQueue(s)
    BY DEF InQueue
  <1>2. Armed(t) /\ Paced(t) /\ AskedOK(t)
    BY <1>1 DEF Base, Armed, Paced, AskedOK
  <1>3. ASSUME NEW x \in Dests, t.route[x] # NoRoute
        PROVE  x \notin t.own /\ t.src[x][t.route[x].id] # NoSource
    <2>1. CASE x = d
      BY <1>3, <2>1
    <2>2. CASE x # d
      <3>1. s.route[x] \in Found
        BY <1>3, <2>2, ShapeFact DEF Base
      <3> QED
        BY <1>3, <2>2, <3>1, FoundFact DEF Base, RoutesOK, Keeps
    <2> QED
      BY <2>1, <2>2
  <1>4. ASSUME Orderly, NEW x \in Dests, x # d, Answerable(t, x)
        PROVE  x \in t.buffer[t.entry[Request(x)].ifp]
    BY <1>1, <1>4 DEF Answerable, Answering
  <1> QED
    BY <1>2, <1>3, <1>4 DEF Base, RoutesOK, Answering

LEMMA RouteBecomesFact ==
  ASSUME NEW s, Good(s, {}), NEW d \in Dests, d \notin s.own, NEW new \in Found,
         NEW old, NEW quiet, NEW full
  PROVE  Good(RouteBecomes(s, d, old, new, quiet, full), {})
  <1> DEFINE known == s.src[d][new.id]
             source == IF known # NoSource THEN known
                       ELSE [seqno |-> new.seqno, sent |-> FALSE]
             G == [s.route EXCEPT ![d] = new]
             C == [s.src EXCEPT ![d] = [s.src[d] EXCEPT ![new.id] = source]]
             t == [s EXCEPT !.route = G, !.src = C]
             u == RouteBecomes(s, d, old, new, quiet, full)
             again == old # NoRoute
                      /\ (old.id # new.id \/ (old.finite /\ ~new.finite))
             urgent == \/ old = NoRoute
                       \/ unsatisfied_request(t, d, new.seqno, new.id)
                       \/ ~old.finite /\ new.finite
  <1>1. u = IF again THEN send_update_resend(t, d, full)
            ELSE IF urgent \/ (~quiet /\ new.finite) THEN send_update(t, d, full)
            ELSE t
    <2> DEFINE w == [s EXCEPT !.route[d] = new, !.src[d][new.id] = source]
    <2>1. w = t
      BY Zenon
    <2>2. u = IF again THEN send_update_resend(w, d, full)
              ELSE IF \/ \/ old = NoRoute
                         \/ unsatisfied_request(w, d, new.seqno, new.id)
                         \/ ~old.finite /\ new.finite
                      \/ ~quiet /\ new.finite
                THEN send_update(w, d, full)
              ELSE w
      BY Zenon DEF RouteBecomes
    <2> HIDE DEF w, t, u, again
    <2> QED
      BY <2>1, <2>2
  <1>2. /\ Base(s) /\ s \in Shape /\ (Orderly => Answering(s, {}))
        /\ new.id \in Ids /\ new.seqno \in Seqnos /\ new # NoRoute
    BY FoundFact DEF Good, Base
  <1>3. /\ s.route \in [Dests -> Found \cup {NoRoute}]
        /\ s.src \in [Dests -> [Ids -> Source \cup {NoSource}]]
        /\ s.src[d] \in [Ids -> Source \cup {NoSource}]
    BY <1>2, ShapeFact
  <1>4. source \in Source
    <2>1. [seqno |-> new.seqno, sent |-> FALSE] \in Source
      BY <1>2 DEF Source
    <2>2. known \in Source \cup {NoSource}
      BY <1>2, <1>3
    <2> QED
      BY <2>1, <2>2
  <1>5. /\ G \in [Dests -> Found \cup {NoRoute}] /\ G[d] = new
        /\ \A x \in Dests : x # d => G[x] = s.route[x]
    BY <1>3
  <1>6. source # NoSource
    BY <1>4, ResendAssumption
  <1> HIDE DEF source
  <1>7. /\ C \in [Dests -> [Ids -> Source \cup {NoSource}]]
        /\ C[d][new.id] # NoSource
        /\ Keeps(s.src, C)
    <2> DEFINE F == [s.src[d] EXCEPT ![new.id] = source]
    <2>1. /\ F \in [Ids -> Source \cup {NoSource}] /\ F[new.id] = source
          /\ \A id \in Ids : id # new.id => F[id] = s.src[d][id]
      BY <1>2, <1>3, <1>4
    <2>2. C = [s.src EXCEPT ![d] = F]
      OBVIOUS
    <2> HIDE DEF F, C
    <2> QED
      BY <1>3, <1>6, <2>1, <2>2 DEF Keeps
  <1> HIDE DEF G, C
  <1>8. t \in Shape
    BY <1>2, <1>5, <1>7, Zenon DEF Shape
  <1>9. /\ t.to_resend = s.to_resend /\ t.entry = s.entry /\ t.wake = s.wake
        /\ t.repeats = s.repeats /\ t.route = G /\ t.own = s.own
        /\ t.src = C /\ t.buffer = s.buffer
    BY <1>2 DEF Shape
  <1> HIDE DEF t, u
  <1>10. /\ Base(t) /\ (Orderly => Answering(t, {d}))
         /\ ~Answerable(t, d) => (Orderly => Answering(t, {}))
    <2>1. \A x \in Dests : x # d => t.route[x] = s.route[x] /\ (x \in t.own <=> x \in s.own)
      BY <1>5, <1>9
    <2>2. Keeps(s.src, t.src)
      BY <1>7, <1>9
    <2>3. d \notin t.own /\ t.src[d][t.route[d].id] # NoSource
      BY <1>5, <1>7, <1>9
    <2> QED
      BY <1>2, <1>8, <1>9, <2>1, <2>2, <2>3, InstallFact
  <1>11. CASE again
    <2>1. u = send_update_resend(t, d, full)
      BY <1>1, <1>11
    <2>2. Base(u) /\ (Orderly => Answering(u, {}))
      BY <1>10, <2>1, UpdateResendFact
    <2> QED
      BY <2>2 DEF Good, Base, u
  <1>12. CASE ~again /\ (urgent \/ (~quiet /\ new.finite))
    <2>1. u = send_update(t, d, full)
      BY <1>1, <1>12
    <2>2. Base(u) /\ (Orderly => Answering(u, {}))
      BY <1>10, <2>1, SendUpdateFact
    <2> QED
      BY <2>2 DEF Good, Base, u
  <1>13. CASE ~again /\ ~(urgent \/ (~quiet /\ new.finite))
    <2>1. u = t /\ ~unsatisfied_request(t, d, new.seqno, new.id)
      BY <1>1, <1>13
    <2>2. ~Answerable(t, d)
      <3> SUFFICES ASSUME Answerable(t, d) PROVE FALSE
        OBVIOUS
      <3>1. t.entry[Request(d)].age < REQUEST_TIMEOUT /\ t.entry[Request(d)] \in Entry
        BY <1>8, ShapeFact, KeyFact DEF Answerable
      <3>2. ~resend_expired(Request(d), t.entry[Request(d)])
        BY <3>1, EntryFact, BoundsFact, KeyFact DEF resend_expired
      <3> QED
        BY <1>5, <1>9, <2>1, <3>2 DEF Answerable, unsatisfied_request
    <2>3. Base(t) /\ (Orderly => Answering(t, {}))
      BY <1>10, <2>2
    <2> QED
      BY <2>1, <2>3 DEF Good, Base, u
  <1> QED
    BY <1>11, <1>12, <1>13

LEMMA RouteLostFact ==
  ASSUME NEW s, Good(s, {}), NEW d \in Dests, s.route[d] # NoRoute, NEW usable,
         NEW full
  PROVE  Good(RouteLost(s, d, usable, full), {})
  <1> DEFINE r == s.route[d]
             G == [s.route EXCEPT ![d] = NoRoute]
             t == [s EXCEPT !.route = G]
             u == send_update_resend(t, d, full)
             v == RouteLost(s, d, usable, full)
             seqno == WantedSeqno(u.src[d][r.id])
  <1>1. v \in {t, u, send_request_resend(u, d, seqno, r.id)}
    <2> DEFINE w == [s EXCEPT !.route[d] = NoRoute]
               x == send_update_resend(w, d, full)
    <2>1. w = t
      BY Zenon
    <2>2. v \in {w, x, send_request_resend(x, d, WantedSeqno(x.src[d][r.id]), r.id)}
      BY Zenon DEF RouteLost
    <2> HIDE DEF w, t, v
    <2> QED
      BY <2>1, <2>2
  <1>2. Base(s) /\ s \in Shape /\ (Orderly => Answering(s, {}))
    BY DEF Good, Base
  <1>3. s.route \in [Dests -> Found \cup {NoRoute}] /\ r \in Found /\ r.id \in Ids
    BY <1>2, ShapeFact, FoundFact
  <1>4. s.src[d][r.id] # NoSource
    BY <1>2 DEF Base, RoutesOK
  <1> HIDE DEF r
  <1>5. /\ G \in [Dests -> Found \cup {NoRoute}] /\ G[d] = NoRoute
        /\ \A x \in Dests : x # d => G[x] = s.route[x]
    BY <1>3
  <1> HIDE DEF G
  <1>6. t \in Shape
    BY <1>2, <1>5, Zenon DEF Shape
  <1>7. /\ t.to_resend = s.to_resend /\ t.entry = s.entry /\ t.wake = s.wake
        /\ t.repeats = s.repeats /\ t.route = G /\ t.own = s.own
        /\ t.src = s.src /\ t.buffer = s.buffer
    BY <1>2 DEF Shape
  <1> HIDE DEF t
  <1>8. Base(t) /\ (Orderly => Answering(t, {}))
    <2>1. \A x \in Dests : x # d => t.route[x] = s.route[x] /\ (x \in t.own <=> x \in s.own)
      BY <1>5, <1>7
    <2>2. t.route[d] = NoRoute /\ ~Answerable(t, d)
      BY <1>5, <1>7 DEF Answerable
    <2> QED
      BY <1>2, <1>6, <1>7, <2>1, <2>2, KeepsFact, InstallFact
  <1>9. /\ Base(u) /\ u.route = t.route /\ (Orderly => Answering(u, {}))
        /\ u.src[d][r.id] # NoSource
    <2>1. /\ Base(u) /\ u.route = t.route
          /\ Keeps(t.src, u.src)
          /\ Orderly => \A X : Answering(t, X) => Answering(u, X)
      BY <1>8, UpdateResendFact
    <2> HIDE DEF u
    <2> QED
      BY <1>3, <1>4, <1>7, <1>8, <2>1 DEF Keeps
  <1> HIDE DEF u
  <1>10. seqno \in Seqnos
    <2>1. u.src[d][r.id] \in Source
      BY <1>3, <1>9, ShapeFact DEF Base
    <2> QED
      BY <2>1, WantedFact
  <1> HIDE DEF seqno
  <1> DEFINE w == send_request_resend(u, d, seqno, r.id)
  <1>11. Base(w) /\ (Orderly => Answering(w, {}))
    BY <1>3, <1>5, <1>7, <1>9, <1>10, RequestResendFact
  <1> HIDE DEF w, v
  <1>12. v \in {t, u, w}
    BY <1>1 DEF w
  <1>13. Base(v) /\ (Orderly => Answering(v, {}))
    BY <1>8, <1>9, <1>11, <1>12
  <1> QED
    BY <1>13 DEF Good, Base, v

LEMMA ExportFact ==
  ASSUME NEW s, Good(s, {}), NEW d \in Dests, NEW full
  PROVE  Good(send_update([s EXCEPT !.own = @ \cup {d}, !.route[d] = NoRoute], d, full), {})
  <1> DEFINE G == [s.route EXCEPT ![d] = NoRoute]
             O == s.own \cup {d}
             t == [s EXCEPT !.own = O, !.route = G]
             u == send_update(t, d, full)
  <1>1. [s EXCEPT !.own = @ \cup {d}, !.route[d] = NoRoute] = t
    BY Zenon
  <1>2. Base(s) /\ s \in Shape /\ (Orderly => Answering(s, {}))
    BY DEF Good, Base
  <1>3. /\ G \in [Dests -> Found \cup {NoRoute}] /\ G[d] = NoRoute
        /\ \A x \in Dests : x # d => G[x] = s.route[x]
        /\ O \in SUBSET Dests /\ \A x \in Dests : x # d => (x \in O <=> x \in s.own)
    BY <1>2, ShapeFact
  <1> HIDE DEF G, O
  <1>4. t \in Shape
    BY <1>2, <1>3, Zenon DEF Shape
  <1>5. /\ t.to_resend = s.to_resend /\ t.entry = s.entry /\ t.wake = s.wake
        /\ t.repeats = s.repeats /\ t.route = G /\ t.own = O
        /\ t.src = s.src /\ t.buffer = s.buffer
    BY <1>2 DEF Shape
  <1> HIDE DEF t
  <1>6. Base(t) /\ (Orderly => Answering(t, {d}))
    <2>1. \A x \in Dests : x # d => t.route[x] = s.route[x] /\ (x \in t.own <=> x \in s.own)
      BY <1>3, <1>5
    <2>2. t.route[d] = NoRoute
      BY <1>3, <1>5
    <2> QED
      BY <1>2, <1>4, <1>5, <2>1, <2>2, KeepsFact, InstallFact
  <1>7. Base(u) /\ (Orderly => Answering(u, {}))
    BY <1>6, SendUpdateFact
  <1> HIDE DEF u
  <1>8. Good(u, {})
    BY <1>7 DEF Good, Base
  <1> QED
    BY <1>1, <1>8 DEF u

LEMMA UnexportFact ==
  ASSUME NEW s, Good(s, {}), NEW d \in Dests, NEW r \in Found \cup {NoRoute},
         NEW C \in [Dests -> [Ids -> Source \cup {NoSource}]],
         Keeps(s.src, C),
         r # NoRoute => C[d][r.id] # NoSource, NEW full
  PROVE  Good(send_update_resend([s EXCEPT !.own = @ \ {d}, !.route[d] = r, !.src = C],
                                 d, full), {})
  <1> DEFINE G == [s.route EXCEPT ![d] = r]
             O == s.own \ {d}
             t == [s EXCEPT !.own = O, !.route = G, !.src = C]
             u == send_update_resend(t, d, full)
  <1>1. [s EXCEPT !.own = @ \ {d}, !.route[d] = r, !.src = C] = t
    BY Zenon
  <1>2. Base(s) /\ s \in Shape /\ (Orderly => Answering(s, {}))
    BY DEF Good, Base
  <1>3. /\ G \in [Dests -> Found \cup {NoRoute}] /\ G[d] = r
        /\ \A x \in Dests : x # d => G[x] = s.route[x]
        /\ O \in SUBSET Dests /\ \A x \in Dests : x # d => (x \in O <=> x \in s.own)
        /\ d \notin O
    BY <1>2, ShapeFact
  <1> HIDE DEF G, O
  <1>4. t \in Shape
    BY <1>2, <1>3, Zenon DEF Shape
  <1>5. /\ t.to_resend = s.to_resend /\ t.entry = s.entry /\ t.wake = s.wake
        /\ t.repeats = s.repeats /\ t.route = G /\ t.own = O
        /\ t.src = C /\ t.buffer = s.buffer
    BY <1>2 DEF Shape
  <1> HIDE DEF t
  <1>6. Base(t) /\ (Orderly => Answering(t, {d}))
    <2>1. \A x \in Dests : x # d => t.route[x] = s.route[x] /\ (x \in t.own <=> x \in s.own)
      BY <1>3, <1>5
    <2>2. t.route[d] # NoRoute => d \notin t.own /\ t.src[d][t.route[d].id] # NoSource
      BY <1>3, <1>5
    <2>3. Keeps(s.src, t.src)
      BY <1>5
    <2>4. /\ t.to_resend = s.to_resend /\ t.entry = s.entry /\ t.wake = s.wake
          /\ t.repeats = s.repeats /\ t.buffer = s.buffer
      BY <1>5
    <2> QED
      BY <1>2, <1>4, <2>1, <2>2, <2>3, <2>4, InstallFact
  <1>7. Base(u) /\ (Orderly => Answering(u, {}))
    BY <1>6, UpdateResendFact
  <1> HIDE DEF u
  <1>8. Good(u, {})
    BY <1>7 DEF Good, Base
  <1> QED
    BY <1>1, <1>8 DEF u

LEMMA HandleRequestFact ==
  ASSUME NEW s, Good(s, {}), NEW d \in Dests, NEW i \in Ifaces, NEW a \in Asked,
         NEW j \in Ifaces \cup {NoIf}, NEW full
  PROVE  Good(handle_request(s, d, i, a, j, full), {})
  <1> DEFINE r == s.route[d]
             answerable == r # NoRoute
                           /\ (a.id # r.id \/ seqno_compare(a.seqno, r.seqno) <= 0)
             u == SendUpdateOn(s, {i}, {d}, full)
             t == send_multihop_request(s, j)
             w == record_resend(t, Request(d), a.seqno, a.id, i, 0)
             v == handle_request(s, d, i, a, j, full)
  <1>1. v \in {u, s} \/ (~answerable /\ v = w)
    BY Zenon DEF handle_request
  <1>2. Base(s) /\ s \in Shape /\ (Orderly => Answering(s, {}))
    BY DEF Good, Base
  <1>3. a.seqno \in Seqnos /\ a.id \in Ids /\ a.seqno \in Numbers(a.id)
    BY NumbersFact, ResendAssumption DEF AskedRequest
  <1>4. Base(u) /\ (Orderly => Answering(u, {}))
    <2>1. {i} \in SUBSET Ifaces /\ {d} \in SUBSET Dests
      OBVIOUS
    <2> QED
      BY <1>2, <2>1, SendOnFact
  <1>5. Base(t) /\ Sends(s, t) /\ (Orderly => Answering(t, {}))
    BY <1>2, MultihopFact
  <1>6. CASE ~answerable
    <2>1. Unanswered(t, d, a.seqno, a.id)
      <3> SUFFICES ASSUME t.route[d] # NoRoute
                   PROVE  /\ a.id = t.route[d].id /\ a.seqno \in Numbers(a.id)
                          /\ seqno_compare(a.seqno, t.route[d].seqno) > 0
        BY DEF Unanswered
      <3>1. t.route[d] = r /\ r \in Found
        BY <1>2, <1>5, ShapeFact DEF Sends
      <3>2. a.id = r.id /\ ~(seqno_compare(a.seqno, r.seqno) <= 0)
        BY <1>6, <3>1
      <3>3. r.seqno \in Seqnos
        BY <3>1, FoundFact
      <3> QED
        BY <1>3, <3>1, <3>2, <3>3, CompareFact
    <2>2. /\ Request(d) \in Keys /\ Request(d)[2] = d /\ ~(Request(d)[1] = "update")
          /\ i \in Ifaces \cup {NoIf} /\ 0 \in {0, resend_delay} /\ a.id \in Ids \cup {NoId}
      BY <1>3, KeyFact
    <2> HIDE DEF t
    <2>3. Base(w) /\ (Orderly => \A X : Answering(t, X) => Answering(w, X))
      BY <1>3, <1>5, <2>1, <2>2, RecordFact
    <2> HIDE DEF u, w, v
    <2>4. Base(v) /\ (Orderly => Answering(v, {}))
      BY <1>1, <1>2, <1>4, <1>5, <2>3
    <2> QED
      BY <2>4 DEF Good, Base, v
  <1>7. CASE answerable
    <2> HIDE DEF u, w, v
    <2>1. Base(v) /\ (Orderly => Answering(v, {}))
      BY <1>1, <1>2, <1>4, <1>7
    <2> QED
      BY <2>1 DEF Good, Base, v
  <1> QED
    BY <1>6, <1>7

-----------------------------------------------------------------------------
(* The specification. *)

LEMMA StateFact ==
  /\ State.to_resend = to_resend /\ State.entry = entry /\ State.wake = wake
  /\ State.repeats = repeats /\ State.route = route /\ State.own = own
  /\ State.src = src /\ State.buffer = buffer
  BY DEF State

LEMMA BecomesFact ==
  ASSUME NEW s \in Shape, Becomes(s)
  PROVE  State' = s
  BY DEF Shape, Becomes, State

LEMMA StepFact ==
  ASSUME NEW s, Good(s, {}), Becomes(s)
  PROVE  Good(State', {})
  <1>1. s \in Shape
    BY DEF Good
  <1> QED
    BY <1>1, BecomesFact

LEMMA InitFact ==
  ASSUME Init
  PROVE  Good(State, {})
  <1>1. to_resend \in Seq(Keys) /\ InQueue(State) = {}
    BY DEF Init, InQueue, State
  <1>2. State \in Shape
    <2>1. entry \in [Keys -> Entry] /\ repeats \in [Keys -> Nat]
      BY NoEntryFact DEF Init
    <2>2. wake \in 0 .. Never
      BY BoundsFact DEF Init
    <2>3. route \in [Dests -> Found \cup {NoRoute}] /\ own \in SUBSET Dests
      BY DEF Init
    <2>4. src \in [Dests -> [Ids -> Source \cup {NoSource}]]
          /\ buffer \in [Ifaces -> SUBSET Dests]
      BY DEF Init
    <2> QED
      BY <1>1, <2>1, <2>2, <2>3, <2>4, Zenon DEF State, Shape
  <1>3. Armed(State) /\ Paced(State) /\ Answering(State, {})
    BY <1>1 DEF Armed, Paced, Answering, Answerable
  <1>4. RoutesOK(State)
    BY StateFact DEF Init, RoutesOK
  <1>5. AskedOK(State)
    BY StateFact, NoEntryFact, KeyFact DEF Init, AskedOK
  <1> QED
    BY <1>2, <1>3, <1>4, <1>5 DEF Good

\* Time passes: the entries age with the wake-up time.
LEMMA TickFact ==
  ASSUME Good(State, {}), Tick
  PROVE  Good(State', {})
  <1> DEFINE s == State
             t == State'
  <1>1. /\ s \in Shape /\ Armed(s) /\ Paced(s) /\ RoutesOK(s) /\ AskedOK(s)
        /\ Orderly => Answering(s, {})
    BY DEF Good
  <1>2. /\ t.to_resend = s.to_resend /\ t.repeats = s.repeats /\ t.route = s.route
        /\ t.own = s.own /\ t.src = s.src /\ t.buffer = s.buffer
        /\ t.wake = IF s.wake \in {0, Never} THEN s.wake ELSE s.wake - 1
        /\ t.entry = [k \in Keys |->
                        IF k \in InQueue(s)
                          THEN [s.entry[k] EXCEPT !.age = Least(s.entry[k].age + 1, MaxAge)]
                          ELSE NoEntry]
    BY DEF Tick, State
  <1>3. t = [to_resend |-> t.to_resend, entry |-> t.entry, wake |-> t.wake,
             repeats |-> t.repeats, route |-> t.route, own |-> t.own,
             src |-> t.src, buffer |-> t.buffer]
    BY DEF State
  <1> HIDE DEF s, t
  <1>4. InQueue(t) = InQueue(s) /\ InQueue(s) \subseteq Keys
    BY <1>1, <1>2, ShapeFact DEF InQueue
  <1>5. ASSUME NEW k \in Keys
        PROVE  /\ t.entry[k] \in Entry
               /\ k \notin InQueue(s) => t.entry[k] = NoEntry
               /\ k \in InQueue(s) =>
                    /\ t.entry[k].id = s.entry[k].id
                    /\ t.entry[k].seqno = s.entry[k].seqno
                    /\ t.entry[k].ifp = s.entry[k].ifp
                    /\ t.entry[k].delay = s.entry[k].delay
                    /\ t.entry[k].max = s.entry[k].max
                    /\ t.entry[k].age = Least(s.entry[k].age + 1, MaxAge)
    <2> DEFINE e == s.entry[k]
               a == Least(e.age + 1, MaxAge)
               f == [e EXCEPT !.age = a]
    <2>1. e \in Entry
      BY <1>1, ShapeFact
    <2>2. t.entry[k] = IF k \in InQueue(s) THEN f ELSE NoEntry
      BY <1>2
    <2> HIDE DEF e
    <2>3. a \in 0 .. MaxAge
      BY <2>1, EntryFact, BoundsFact DEF Least
    <2> HIDE DEF a
    <2>4. f \in Entry
      BY <2>1, <2>3, Zenon DEF Entry
    <2>5. /\ f.id = e.id /\ f.seqno = e.seqno /\ f.ifp = e.ifp
          /\ f.delay = e.delay /\ f.max = e.max /\ f.age = a
      BY <2>1 DEF Entry
    <2> HIDE DEF f
    <2> QED
      BY <2>2, <2>4, <2>5, NoEntryFact DEF e, a
  <1>6. s.wake \in 0 .. Never /\ t.wake \in 0 .. Never
    <2>1. s.wake \in 0 .. Never
      BY <1>1, ShapeFact
    <2> QED
      BY <1>2, <2>1, BoundsFact
  <1>7. t \in Shape
    <2>1. t.entry \in [Keys -> Entry]
      <3>1. t.entry = [k \in Keys |-> t.entry[k]]
        BY <1>2
      <3> QED
        BY <1>5, <3>1
    <2>2. /\ t.to_resend \in Seq(Keys) /\ t.repeats \in [Keys -> Nat]
          /\ t.route \in [Dests -> Found \cup {NoRoute}] /\ t.own \in SUBSET Dests
          /\ t.src \in [Dests -> [Ids -> Source \cup {NoSource}]]
          /\ t.buffer \in [Ifaces -> SUBSET Dests]
      BY <1>1, <1>2, ShapeFact
    <2> QED
      BY <1>3, <1>6, <2>1, <2>2, Zenon DEF Shape
  <1>8. Armed(t)
    <2> SUFFICES ASSUME NEW k \in Keys, k[1] = "update", k \in InQueue(t),
                        Pending(k, t.entry[k])
                 PROVE  t.wake <= TimeLeft(t.entry[k])
      BY DEF Armed
    <2> DEFINE e == s.entry[k]
               f == t.entry[k]
    <2>1. e \in Entry /\ f \in Entry
      BY <1>1, <1>5, ShapeFact
    <2>2. /\ f.delay = e.delay /\ f.max = e.max /\ f.age = Least(e.age + 1, MaxAge)
      BY <1>4, <1>5
    <2>3. k[1] # "request" /\ Pending(k, f)
      OBVIOUS
    <2> HIDE DEF e, f
    <2>4. Pending(k, e)
      BY <2>2, <2>3 DEF Pending, resend_expired
    <2>5. s.wake <= TimeLeft(e)
      BY <1>1, <1>4, <2>4 DEF Armed, e
    <2>6. /\ e.age \in 0 .. MaxAge /\ e.delay \in 0 .. DelayMax
          /\ TimeLeft(e) \in 0 .. DelayMax
      BY <2>1, EntryFact
    <2>7. t.wake <= TimeLeft(f)
      <3>1. CASE s.wake = 0
        <4>1. TimeLeft(f) \in 0 .. DelayMax /\ t.wake = 0
          BY <1>2, <2>1, <3>1, EntryFact
        <4> QED
          BY <4>1, BoundsFact
      <3>2. CASE s.wake # 0
        <4>1. s.wake # Never /\ e.delay > e.age /\ s.wake <= e.delay - e.age
          BY <1>6, <2>5, <2>6, <3>2, BoundsFact DEF TimeLeft
        <4>2. f.age = e.age + 1
          BY <2>2, <2>6, <4>1, BoundsFact DEF Least
        <4>3. t.wake = s.wake - 1
          BY <1>2, <3>2, <4>1
        <4> QED
          BY <1>6, <2>2, <2>6, <4>1, <4>2, <4>3, BoundsFact DEF TimeLeft
      <3> QED
        BY <3>1, <3>2
    <2> QED
      BY <2>7 DEF f
  <1>9. \A k \in InQueue(s) :
          /\ s.entry[k].age \in Nat /\ t.entry[k].age \in Nat
          /\ s.entry[k].age <= t.entry[k].age
    <2> SUFFICES ASSUME NEW k \in InQueue(s)
                 PROVE  /\ s.entry[k].age \in Nat /\ t.entry[k].age \in Nat
                        /\ s.entry[k].age <= t.entry[k].age
      OBVIOUS
    <2>1. s.entry[k].age \in 0 .. MaxAge
      BY <1>1, <1>4, ShapeFact, EntryFact
    <2>2. t.entry[k].age = Least(s.entry[k].age + 1, MaxAge)
      BY <1>4, <1>5
    <2> QED
      BY <2>1, <2>2, BoundsFact DEF Least
  <1>10. Paced(t)
    <2> SUFFICES ASSUME NEW k \in InQueue(s)
                 PROVE  PacedEntry(k, t.entry[k], t.repeats[k])
      BY <1>4 DEF Paced
    <2> DEFINE n == s.repeats[k]
               e == s.entry[k]
               f == t.entry[k]
    <2>1. PacedEntry(k, e, n) /\ n \in Nat /\ t.repeats[k] = n
      BY <1>1, <1>2, <1>4, ShapeFact DEF Paced
    <2>2. f.delay = e.delay /\ f.max = e.max /\ e.age <= f.age
          /\ e.age \in Nat /\ f.age \in Nat
      BY <1>4, <1>5, <1>9
    <2> HIDE DEF n, e, f
    <2>3. n > 0 => Interval[n - 1] <= f.age
      <3> SUFFICES ASSUME n > 0 PROVE Interval[n - 1] <= f.age
        OBVIOUS
      <3>1. n - 1 \in 0 .. RESEND_MAX
        BY <2>1, BoundsFact DEF PacedEntry
      <3>2. Interval[n - 1] \in 1 .. DelayMax
        BY <3>1, IntervalFact
      <3> QED
        BY <2>1, <2>2, <3>2, BoundsFact DEF PacedEntry
    <2>4. PacedEntry(k, f, n)
      BY <2>1, <2>2, <2>3, BoundsFact DEF PacedEntry
    <2> QED
      BY <2>1, <2>4 DEF f
  <1>11. RoutesOK(t)
    BY <1>1, <1>2 DEF RoutesOK
  <1>12. AskedOK(t)
    <2> SUFFICES ASSUME NEW d \in Dests, t.entry[Request(d)].ifp # NoIf
                 PROVE  /\ t.entry[Request(d)].id \in Ids
                        /\ t.entry[Request(d)].seqno \in Numbers(t.entry[Request(d)].id)
      BY DEF AskedOK
    <2>1. Request(d) \in Keys
      BY KeyFact
    <2>2. Request(d) \in InQueue(s)
      BY <1>5, <2>1, NoEntryFact
    <2> QED
      BY <1>1, <1>5, <2>1, <2>2 DEF AskedOK
  <1>13. ASSUME Orderly, NEW d \in Dests, Answerable(t, d)
         PROVE  d \in t.buffer[t.entry[Request(d)].ifp]
    <2>1. Request(d) \in Keys /\ Request(d) \in InQueue(s)
      BY <1>4, <1>13, KeyFact DEF Answerable
    <2>2. /\ t.entry[Request(d)].id = s.entry[Request(d)].id
          /\ t.entry[Request(d)].seqno = s.entry[Request(d)].seqno
          /\ t.entry[Request(d)].ifp = s.entry[Request(d)].ifp
      BY <1>5, <2>1
    <2>3. s.entry[Request(d)].age < REQUEST_TIMEOUT
      BY <1>9, <1>13, <2>1, BoundsFact DEF Answerable
    <2>4. Answerable(s, d)
      BY <1>2, <1>4, <1>13, <2>2, <2>3 DEF Answerable, Answers
    <2> QED
      BY <1>1, <1>2, <1>13, <2>2, <2>4 DEF Answering
  <1> QED
    BY <1>7, <1>8, <1>10, <1>11, <1>12, <1>13 DEF Good, Answering, t

LEMMA NextFact ==
  ASSUME Good(State, {}), [Next]_vars
  PROVE  Good(State', {})
  <1> USE StateFact
  <1>0. /\ State \in Shape /\ Base(State) /\ (Orderly => Answering(State, {}))
        /\ own \subseteq Dests /\ route \in [Dests -> Found \cup {NoRoute}]
        /\ src \in [Dests -> [Ids -> Source \cup {NoSource}]]
    BY ShapeFact DEF Good, Base
  <1>1. ASSUME NEW d \in Dests, LoseRoute(d)
        PROVE  Good(State', {})
    <2>1. PICK usable \in BOOLEAN, full \in Full : Becomes(RouteLost(State, d, usable, full))
      BY <1>1 DEF LoseRoute
    <2>2. State.route[d] # NoRoute
      BY <1>1 DEF LoseRoute
    <2>3. Good(RouteLost(State, d, usable, full), {})
      BY <2>2, RouteLostFact
    <2> QED
      BY <2>1, <2>3, StepFact
  <1>2. ASSUME NEW d \in Dests, Export(d)
        PROVE  Good(State', {})
    <2> DEFINE s(full) == send_update([State EXCEPT !.own = @ \cup {d},
                                                    !.route[d] = NoRoute], d, full)
    <2>1. PICK full \in Full : Becomes(s(full))
      BY <1>2 DEF Export
    <2>2. Good(s(full), {})
      BY ExportFact
    <2> HIDE DEF s
    <2> QED
      BY <2>1, <2>2, StepFact
  <1>3. ASSUME NEW d \in Dests, Unexport(d)
        PROVE  Good(State', {})
    <2> DEFINE known(r) == [s \in Dests |-> [id \in Ids |->
                              IF s = d /\ r # NoRoute /\ r.id = id /\ src[d][id] = NoSource
                                THEN [seqno |-> r.seqno, sent |-> FALSE]
                                ELSE src[s][id]]]
               u(full, r) == send_update_resend([State EXCEPT !.own = @ \ {d},
                                         !.route[d] = r, !.src = known(r)], d, full)
    <2>1. PICK full \in Full, r \in {NoRoute} \cup {f \in Found : MaySelect(d, f)} :
            Becomes(u(full, r))
      BY <1>3, Zenon DEF Unexport
    <2> DEFINE C == known(r)
    <2>2. r \in Found \cup {NoRoute}
      BY <2>1
    <2>3. ASSUME NEW x \in Dests, NEW id \in Ids
          PROVE  /\ C[x][id] \in Source \cup {NoSource}
                 /\ src[x][id] # NoSource => C[x][id] # NoSource
                 /\ x = d /\ r # NoRoute /\ id = r.id => C[x][id] # NoSource
      <3>1. C[x][id] = IF x = d /\ r # NoRoute /\ r.id = id /\ src[d][id] = NoSource
                         THEN [seqno |-> r.seqno, sent |-> FALSE]
                         ELSE src[x][id]
        OBVIOUS
      <3>2. r # NoRoute => [seqno |-> r.seqno, sent |-> FALSE] \in Source
        BY <2>2, FoundFact DEF Source
      <3>3. src[x][id] \in Source \cup {NoSource}
        BY <1>0
      <3> HIDE DEF C
      <3> QED
        BY <3>1, <3>2, <3>3, ResendAssumption
    <2>4. C = [x \in Dests |-> [id \in Ids |-> C[x][id]]]
      OBVIOUS
    <2> HIDE DEF C
    <2>5. C \in [Dests -> [Ids -> Source \cup {NoSource}]]
      BY <2>3, <2>4
    <2>6. Keeps(State.src, C)
      BY <2>3 DEF Keeps
    <2>7. r # NoRoute => C[d][r.id] # NoSource
      BY <2>2, <2>3, FoundFact
    <2> DEFINE v == send_update_resend([State EXCEPT !.own = @ \ {d}, !.route[d] = r,
                                                     !.src = C], d, full)
    <2>8. Good(v, {})
      BY <2>2, <2>5, <2>6, <2>7, UnexportFact
    <2>9. Becomes(v)
      BY <2>1 DEF C
    <2> HIDE DEF v
    <2> QED
      BY <2>8, <2>9, StepFact
  <1>4. ASSUME NEW d \in Dests, NEW r \in Found, RouteChanges(d, r)
        PROVE  Good(State', {})
    <2>1. PICK old \in {route[d], NoRoute}, quiet \in BOOLEAN, full \in Full :
            Becomes(RouteBecomes(State, d, old, r, quiet, full))
      BY <1>4 DEF RouteChanges
    <2>2. d \notin State.own
      BY <1>4 DEF RouteChanges
    <2>3. Good(RouteBecomes(State, d, old, r, quiet, full), {})
      BY <2>2, RouteBecomesFact
    <2> QED
      BY <2>1, <2>3, StepFact
  <1>5. ASSUME NEW d \in Dests, NEW i \in Ifaces, NEW a \in Asked, HandleRequest(d, i, a)
        PROVE  Good(State', {})
    <2>1. PICK j \in Ifaces \cup {NoIf}, full \in Full :
            Becomes(handle_request(State, d, i, a, j, full))
      BY <1>5 DEF HandleRequest
    <2>2. Good(handle_request(State, d, i, a, j, full), {})
      BY HandleRequestFact
    <2> QED
      BY <2>1, <2>2, StepFact
  <1>6. ASSUME NEW d \in Dests, NEW id \in Ids, ForgetSource(d, id)
        PROVE  Good(State', {})
    <2> DEFINE s == State
               t == State'
               C == [src EXCEPT ![d][id] = NoSource]
    <2>1. /\ t.to_resend = s.to_resend /\ t.entry = s.entry /\ t.wake = s.wake
          /\ t.repeats = s.repeats /\ t.route = s.route /\ t.own = s.own
          /\ t.src = C /\ t.buffer = s.buffer
      BY <1>6 DEF ForgetSource, State
    <2>2. t = [s EXCEPT !.src = C]
      BY <2>1 DEF State
    <2>3. /\ C \in [Dests -> [Ids -> Source \cup {NoSource}]]
          /\ \A x \in Dests, y \in Ids : x # d \/ y # id => C[x][y] = src[x][y]
      <3> DEFINE F == [src[d] EXCEPT ![id] = NoSource]
      <3>1. C = [src EXCEPT ![d] = F]
        OBVIOUS
      <3>2. /\ F \in [Ids -> Source \cup {NoSource}]
            /\ \A y \in Ids : y # id => F[y] = src[d][y]
        BY <1>0
      <3> HIDE DEF F, C
      <3> QED
        BY <1>0, <3>1, <3>2
    <2>4. route[d] # NoRoute => route[d].id # id
      BY <1>6 DEF ForgetSource
    <2> HIDE DEF C, t
    <2>5. s \in Shape
      BY <1>0
    <2>6. \A x \in Dests : s.route[x] # NoRoute =>
            x \notin s.own /\ s.src[x][s.route[x].id] # NoSource /\ s.route[x].id \in Ids
      BY <1>0, FoundFact DEF Base, RoutesOK
    <2>7. \A x \in Dests : s.route[x] # NoRoute => C[x][s.route[x].id] # NoSource
      BY <2>3, <2>4, <2>6
    <2> HIDE DEF s
    <2>8. t \in Shape
      BY <2>2, <2>3, <2>5, Zenon DEF Shape
    <2>9. InQueue(t) = InQueue(s)
      BY <2>1 DEF InQueue
    <2>10. Good(s, {})
      BY DEF s
    <2>11. Armed(t) /\ Paced(t) /\ AskedOK(t)
      BY <2>1, <2>9, <2>10 DEF Good, Armed, Paced, AskedOK
    <2>12. RoutesOK(t)
      BY <2>1, <2>6, <2>7 DEF RoutesOK
    <2>13. Orderly => Answering(t, {})
      BY <2>1, <2>9, <2>10 DEF Good, Answering, Answerable
    <2>14. Good(t, {})
      BY <2>8, <2>11, <2>12, <2>13 DEF Good
    <2> QED
      BY <2>14 DEF t
  <1>7. ASSUME NEW i \in Ifaces, SendUpdates(i)
        PROVE  Good(State', {})
    <2> DEFINE D == own \cup {d \in Dests : route[d] # NoRoute}
    <2>1. PICK full \in Full : Becomes(SendUpdateOn(State, {i}, D, full))
      BY <1>7 DEF SendUpdates
    <2>2. D \in SUBSET Dests /\ {i} \in SUBSET Ifaces
      BY <1>0
    <2> HIDE DEF D
    <2> DEFINE u == SendUpdateOn(State, {i}, D, full)
    <2>3. Base(u) /\ \A X : Answering(State, X) => Answering(u, X)
      BY <1>0, <2>2, SendOnFact, Zenon
    <2> HIDE DEF u
    <2>4. Good(u, {})
      BY <1>0, <2>3 DEF Good, Base
    <2>5. Becomes(u)
      BY <2>1 DEF u
    <2> QED
      BY <2>4, <2>5, StepFact
  <1>8. ASSUME NEW i \in Ifaces, FlushUpdates(i)
        PROVE  Good(State', {})
    <2> DEFINE u == flushupdates(State, {i})
    <2>1. Becomes(u)
      BY <1>8 DEF FlushUpdates
    <2>2. {i} \in SUBSET Ifaces
      OBVIOUS
    <2>3. Base(u) /\ \A X : Answering(State, X) => Answering(u, X)
      BY <1>0, <2>2, FlushFact, Zenon
    <2> HIDE DEF u
    <2>4. Good(u, {})
      BY <1>0, <2>3 DEF Good, Base
    <2> QED
      BY <2>1, <2>4, StepFact
  <1>9. ASSUME DoResend
        PROVE  Good(State', {})
    <2>1. PICK full \in Full : Becomes(do_resend(State, full))
      BY <1>9 DEF DoResend
    <2> DEFINE u == do_resend(State, full)
    <2>2. Base(u) /\ \A X : Answering(State, X) => Answering(u, X)
      BY <1>0, DoResendFact, Zenon
    <2> HIDE DEF u
    <2>3. Good(u, {})
      BY <1>0, <2>2 DEF Good, Base
    <2>4. Becomes(u)
      BY <2>1 DEF u
    <2> QED
      BY <2>3, <2>4, StepFact
  <1>10. ASSUME ExpireResend
         PROVE  Good(State', {})
    <2> DEFINE u == expire_resend(State)
    <2>1. Becomes(u)
      BY <1>10 DEF ExpireResend
    <2>2. Base(u) /\ \A X : Answering(State, X) => Answering(u, X)
      BY <1>0, ExpireFact, Zenon
    <2> HIDE DEF u
    <2>3. Good(u, {})
      BY <1>0, <2>2 DEF Good, Base
    <2> QED
      BY <2>1, <2>3, StepFact
  <1>11. CASE UNCHANGED vars
    <2>1. State' = State
      BY <1>11 DEF vars, State
    <2> QED
      BY <2>1
  <1>12. CASE \E d \in Dests : \/ LoseRoute(d) \/ Export(d) \/ Unexport(d)
                               \/ \E r \in Found : RouteChanges(d, r)
                               \/ \E i \in Ifaces, a \in Asked : HandleRequest(d, i, a)
                               \/ \E id \in Ids : ForgetSource(d, id)
    BY <1>1, <1>2, <1>3, <1>4, <1>5, <1>6, <1>12
  <1> QED
    BY <1>7, <1>8, <1>9, <1>10, <1>11, <1>12, TickFact DEF Next

LEMMA GoodAlways == Spec => []Good(State, {})
  <1>1. Init => Good(State, {})
    BY InitFact
  <1>2. Good(State, {}) /\ [Next]_vars => Good(State, {})'
    BY NextFact
  <1> QED
    BY <1>1, <1>2, PTL DEF Spec

\* For any queue, filters and buffers: whatever record_resend, satisfy_request,
\* do_resend and expire_resend do to the entries and to resend_time, no update
\* is due before the wake-up time.
THEOREM UpdatesArmed == Spec => []UpdateArmed
  <1>1. Good(State, {}) => UpdateArmed
    BY StateFact, KeyFact DEF Good, Armed, UpdateArmed
  <1> QED
    BY <1>1, GoodAlways, PTL

\* For any timeouts and limits: do_resend repeats an entry at most RESEND_MAX
\* times since it was recorded, after intervals that double, although satisfying
\* a request in the middle of the walk lets its unsigned counter wrap around.
THEOREM BacksOff == Spec => []Backoff
  <1>1. Good(State, {}) => Backoff
    <2> SUFFICES ASSUME Good(State, {}), NEW k \in InQueue(State)
                 PROVE  /\ repeats[k] <= RESEND_MAX
                        /\ repeats[k] > 0 => entry[k].age >= Interval[repeats[k] - 1]
      BY DEF Backoff
    <2>1. PacedEntry(k, entry[k], repeats[k])
      BY StateFact DEF Good, Paced
    <2>2. entry[k] \in Entry /\ repeats[k] \in Nat
      BY StateFact, ShapeFact DEF Good
    <2> DEFINE n == repeats[k]
    <2>3. n > 0 => entry[k].age >= Interval[n - 1]
      <3> SUFFICES ASSUME n > 0 PROVE entry[k].age >= Interval[n - 1]
        OBVIOUS
      <3>1. n - 1 \in 0 .. RESEND_MAX
        BY <2>1, <2>2, BoundsFact DEF PacedEntry
      <3>2. Interval[n - 1] \in 1 .. DelayMax /\ entry[k].age \in 0 .. MaxAge
        BY <2>2, <3>1, IntervalFact, EntryFact
      <3> QED
        BY <2>1, <3>2, BoundsFact DEF PacedEntry
    <2> QED
      BY <2>1, <2>3 DEF PacedEntry
  <1> QED
    BY <1>1, GoodAlways, PTL

\* When the seqnos of each source lie within half of the circle, in which case
\* older and newer are what they seem: route changes, exports, requests of several
\* neighbours and full buffers never leave the recorded request of a neighbour
\* that we can answer without the answer on its interface.
THEOREM AnswersUnderWay ==
  ASSUME Orderly
  PROVE  Spec => []AnswerUnderWay
  <1>1. Good(State, {}) => AnswerUnderWay
    <2> SUFFICES ASSUME Good(State, {}), NEW d \in Dests,
                        Request(d) \in InQueue(State),
                        ~resend_expired(Request(d), entry[Request(d)]),
                        entry[Request(d)].ifp # NoIf,
                        route[d] # NoRoute, route[d].finite,
                        Answers(entry[Request(d)], route[d].seqno, route[d].id)
                 PROVE  d \in buffer[entry[Request(d)].ifp]
      BY DEF AnswerUnderWay
    <2>1. entry[Request(d)] \in Entry
      BY StateFact, ShapeFact, KeyFact DEF Good
    <2>2. entry[Request(d)].age < REQUEST_TIMEOUT
      BY <2>1, EntryFact, BoundsFact, KeyFact DEF resend_expired
    <2>3. Answerable(State, d)
      BY <2>2, StateFact DEF Answerable
    <2> QED
      BY <2>3, StateFact DEF Good, Answering
  <1> QED
    BY <1>1, GoodAlways, PTL
=============================================================================
