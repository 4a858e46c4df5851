----------------------------- MODULE LinkProofs -----------------------------
(***************************************************************************)
(* Theorems of Link, for any intervals, any width of the history and any   *)
(* loss, delay and duplication.  The invariant says how much time may pass *)
(* until the next check (OnTime), and that the time since the last hello   *)
(* is the age of hello_time and an interval for each bit by which reach    *)
(* has been shifted (Counted).                                             *)
(***************************************************************************)
EXTENDS Link, TLAPS

Neigh ==
  [present : BOOLEAN, reach : SUBSET Bits, seqno : Int \cup {Unknown},
   hello_age : Nat, hello_interval : Intervals \cup {0},
   txcost : {ifcost, INFINITY}, ihu_age : Nat,
   ihu_interval : {3 * i : i \in Intervals} \cup {0}]

\* The next check comes d ticks from now at the latest when the interval is i.
Late(i) == (15 * i) \div 8 + 1

\* The check comes in time for the hellos and the IHUs of neighbour x.
OnTime(x, d) ==
  /\ x.hello_interval > 0 =>
       /\ d <= Late(x.hello_interval)
       /\ 10 * (x.hello_age + d) <= 17 * x.hello_interval + 10 * Late(x.hello_interval)
  /\ x.txcost < INFINITY =>
       x.ihu_interval > 0 /\ x.ihu_age + d <= Lag + IhuLimit

\* The silence s of neighbour x is accounted for.
Counted(x, s) ==
  /\ x.hello_interval = 0 => x.reach = {}
  /\ x.hello_interval > 0 =>
       /\ x.seqno \in Int
       /\ \E k \in 0 .. W - 1 :
            s = x.hello_age + k * x.hello_interval /\ x.reach \subseteq k + 1 .. W

NeighOK(x, d, s) ==
  /\ x \in Neigh /\ (x.present \/ x = Gone)
  /\ OnTime(x, d) /\ Counted(x, s)

IInv ==
  /\ NeighOK(n, due, silence)
  /\ due \in Nat /\ due <= Late(MaxCheck)
  /\ peer.interval \in Intervals
  /\ silence \in Nat

\* Hellos are frequent enough for the limit of 180 s: less than 50 s apart.
Frequent == 10 * MaxDelay > 17 * Slowest + 10 * Lag

Known == told = neighbour_cost(n)

-----------------------------------------------------------------------------
(* Times. *)

\* What is assumed of the constants, and the largest interval.
LEMMA SlowestFact ==
  /\ Slowest \in Intervals /\ Slowest \in Nat /\ Slowest >= 1
  /\ \A i \in Intervals : i \in Nat /\ i >= 1 /\ i <= Slowest
  <1>1. \E i \in Intervals : \A j \in Intervals : j <= i
    BY LinkAssumption
  <1>2. Slowest \in Intervals /\ \A j \in Intervals : j <= Slowest
    BY <1>1 DEF Slowest
  <1> QED
    BY <1>2, LinkAssumption

\* The check is later the longer the interval is.
LEMMA LateFact ==
  ASSUME NEW i \in Nat
  PROVE  /\ Late(i) \in Nat /\ Late(i) >= 1
         /\ 8 * Late(i) <= 15 * i + 8 /\ 8 * Late(i) > 15 * i
         /\ \A j \in Nat : i <= j => Late(i) <= Late(j)
         /\ \A d \in About(i) : d \in Nat /\ d <= Late(i)
         /\ About(i) # {}
  <1>1. /\ (15 * i) \div 8 \in Nat /\ 8 * ((15 * i) \div 8) <= 15 * i
        /\ 15 * i < 8 * ((15 * i) \div 8) + 8
    OBVIOUS
  <1>2. ASSUME NEW j \in Nat, i <= j PROVE Late(i) <= Late(j)
    <2>1. /\ (15 * j) \div 8 \in Nat /\ 8 * ((15 * j) \div 8) <= 15 * j
          /\ 15 * j < 8 * ((15 * j) \div 8) + 8
      OBVIOUS
    <2>2. (15 * i) \div 8 <= (15 * j) \div 8
      BY <1>1, <1>2, <2>1
    <2> QED
      BY <1>1, <2>1, <2>2 DEF Late
  <1>3. /\ (9 * i) \div 8 \in Nat /\ 8 * ((9 * i) \div 8) <= 9 * i
    OBVIOUS
  <1>4. (9 * i) \div 8 <= (15 * i) \div 8
    BY <1>1, <1>3
  <1>5. About(i) = (9 * i) \div 8 + 1 .. Late(i)
    BY DEF About, Late
  <1> QED
    BY <1>1, <1>2, <1>3, <1>4, <1>5 DEF Late

\* The bounds of the theorems.
LEMMA BoundsFact ==
  /\ Lag = Late(Slowest) /\ Lag \in Nat /\ Lag >= 1
  /\ IhuLimit \in Nat /\ IhuLimit >= 9 * Slowest
  /\ \A a \in Nat : a < MaxDelay /\ a < 30 * Slowest => a <= IhuLimit
  /\ Late(MaxCheck) <= Lag + IhuLimit \/ Late(9 * Slowest) <= Lag + IhuLimit
  <1>1. Slowest \in Nat /\ Slowest >= 1 /\ MaxDelay \in Nat /\ MaxCheck \in Nat
        /\ 2 * MaxCheck <= MaxDelay /\ MaxCheck >= 1
    BY SlowestFact, LinkAssumption
  <1>2. Lag = Late(Slowest)
    BY DEF Lag, Late
  <1>3. Lag \in Nat /\ Lag >= 1
    BY <1>1, <1>2, LateFact
  <1>4. 8 * Late(MaxCheck) <= 15 * MaxCheck + 8 /\ Late(MaxCheck) \in Nat
    BY <1>1, LateFact
  <1>5. 9 * Slowest \in Nat /\ 8 * Late(9 * Slowest) <= 15 * (9 * Slowest) + 8
        /\ Late(9 * Slowest) \in Nat
    <2>1. 9 * Slowest \in Nat
      BY <1>1
    <2> HIDE DEF Late
    <2> QED
      BY <2>1, LateFact
  <1>6. IhuLimit \in Nat /\ IhuLimit >= 9 * Slowest
        /\ \A a \in Nat : a < MaxDelay /\ a < 30 * Slowest => a <= IhuLimit
    BY <1>1 DEF IhuLimit, Earlier
  <1>7. CASE MaxDelay < 9 * Slowest
    <2>1. IhuLimit = 9 * Slowest
      BY <1>7 DEF IhuLimit
    <2> QED
      BY <1>1, <1>2, <1>3, <1>4, <1>6, <1>7, <2>1
  <1>8. CASE ~(MaxDelay < 9 * Slowest) /\ MaxDelay < 30 * Slowest
    <2>1. IhuLimit = MaxDelay
      BY <1>8 DEF IhuLimit, Earlier
    <2> QED
      BY <1>1, <1>2, <1>3, <1>4, <1>6, <1>8, <2>1
  <1>9. CASE ~(MaxDelay < 9 * Slowest) /\ ~(MaxDelay < 30 * Slowest)
    <2>1. IhuLimit = 30 * Slowest
      BY <1>9 DEF IhuLimit, Earlier
    <2> QED
      BY <1>1, <1>2, <1>3, <1>5, <1>6, <1>9, <2>1
  <1> QED
    BY <1>2, <1>3, <1>6, <1>7, <1>8, <1>9


-----------------------------------------------------------------------------
(* The operations on a neighbour. *)

\* The fields of a neighbour.
LEMMA NeighFact ==
  ASSUME NEW x \in Neigh
  PROVE  /\ x.present \in BOOLEAN /\ x.reach \in SUBSET Bits
         /\ x.seqno \in Int \cup {Unknown}
         /\ x.hello_age \in Nat /\ x.hello_interval \in Nat
         /\ x.hello_interval \in Intervals \cup {0}
         /\ x.txcost \in {ifcost, INFINITY} /\ x.txcost \in Nat
         /\ x.ihu_age \in Nat /\ x.ihu_interval \in Nat /\ x.ihu_interval <= 3 * Slowest
  <1>1. \A i \in Intervals : 3 * i \in Nat /\ 3 * i <= 3 * Slowest
    BY SlowestFact
  <1>2. /\ x.present \in BOOLEAN /\ x.reach \in SUBSET Bits
        /\ x.seqno \in Int \cup {Unknown}
        /\ x.hello_age \in Nat /\ x.hello_interval \in Intervals \cup {0}
        /\ x.txcost \in {ifcost, INFINITY}
        /\ x.ihu_age \in Nat /\ x.ihu_interval \in {3 * i : i \in Intervals} \cup {0}
    BY DEF Neigh
  <1>3. x.hello_interval \in Nat
    <2>1. x.hello_interval \in Intervals \/ x.hello_interval = 0
      BY <1>2
    <2>2. \A i \in Intervals : i \in Nat
      BY SlowestFact
    <2> QED
      BY <2>1, <2>2
  <1>5. x.txcost \in Nat
    <2>1. ifcost \in Nat /\ INFINITY \in Nat
      BY LinkAssumption
    <2> QED
      BY <1>2, <2>1
  <1>4. x.ihu_interval \in Nat /\ x.ihu_interval <= 3 * Slowest
    BY <1>1, <1>2, SlowestFact
  <1> QED
    BY <1>2, <1>3, <1>4, <1>5

\* A new neighbour.
LEMMA GoneFact ==
  /\ Gone \in Neigh
  /\ \A d \in Nat, s \in Nat : NeighOK(Gone, d, s)
  /\ neighbour_cost(Gone) = INFINITY
  /\ \A x \in Neigh : find_neighbour(x) \in Neigh /\ find_neighbour(x).present
  /\ \A x \in Neigh, d \in Nat, s \in Nat : NeighOK(x, d, s) =>
       /\ find_neighbour(x) \in Neigh /\ find_neighbour(x).present
       /\ OnTime(find_neighbour(x), d) /\ Counted(find_neighbour(x), s)
       /\ neighbour_cost(find_neighbour(x)) = neighbour_cost(x)
  <1> DEFINE g == [Gone EXCEPT !.present = TRUE]
  <1>1. Gone \in Neigh /\ g \in Neigh
    BY LinkAssumption DEF Gone, Neigh
  <1>2. /\ Gone.hello_interval = 0 /\ Gone.reach = {} /\ Gone.txcost = INFINITY
        /\ g.hello_interval = 0 /\ g.reach = {} /\ g.txcost = INFINITY /\ g.present
    BY DEF Gone
  <1>3. INFINITY \in Nat
    BY LinkAssumption
  <1> HIDE DEF g
  <1>4. \A d, s : OnTime(Gone, d) /\ Counted(Gone, s) /\ OnTime(g, d) /\ Counted(g, s)
    BY <1>2, <1>3 DEF OnTime, Counted
  <1>5. neighbour_cost(Gone) = INFINITY /\ neighbour_cost(g) = INFINITY
    BY <1>2, <1>3 DEF neighbour_cost
  <1>6. \A x : find_neighbour(x) = IF x.present THEN x ELSE g
    BY DEF find_neighbour, g
  <1> QED
    BY <1>1, <1>2, <1>4, <1>5, <1>6 DEF NeighOK

\* Counting the peer's hellos from another one.
LEMMA ShiftedFact ==
  ASSUME NEW x, NEW d \in Nat, NEW s \in Nat, NeighOK(x, d, s), NEW j \in Int
  PROVE  /\ NeighOK(Shifted(x, j), d, s)
         /\ neighbour_cost(Shifted(x, j)) = neighbour_cost(x)
         /\ Shifted(x, j).present = x.present
  <1>1. CASE x.seqno = Unknown
    BY <1>1 DEF Shifted
  <1>2. CASE x.seqno # Unknown
    <2> DEFINE y == [x EXCEPT !.seqno = @ - j]
    <2>1. x \in Neigh /\ x # Gone /\ x.seqno \in Int
      BY <1>2, NeighFact DEF NeighOK, Gone
    <2>2. y \in Neigh
      BY <2>1 DEF Neigh
    <2>3. /\ y.present = x.present /\ y.reach = x.reach /\ y.hello_age = x.hello_age
          /\ y.hello_interval = x.hello_interval /\ y.txcost = x.txcost
          /\ y.ihu_age = x.ihu_age /\ y.ihu_interval = x.ihu_interval
          /\ y.seqno \in Int
      BY <2>1 DEF Neigh
    <2>4. Shifted(x, j) = y
      BY <1>2 DEF Shifted
    <2> HIDE DEF y
    <2>5. OnTime(y, d) /\ Counted(y, s)
      BY <2>3 DEF NeighOK, OnTime, Counted
    <2>6. neighbour_cost(y) = neighbour_cost(x)
      BY <2>3 DEF neighbour_cost, neighbour_rxcost
    <2> QED
      BY <2>1, <2>2, <2>3, <2>4, <2>5, <2>6 DEF NeighOK
  <1> QED
    BY <1>1, <1>2

\* Shifts of the history.
LEMMA ShiftFact ==
  ASSUME NEW reach \in SUBSET Bits, NEW m \in Int
  PROVE  /\ ShiftRight(reach, m) \subseteq SUBSET Bits
         /\ ShiftLeft(reach, m) \subseteq Bits
         /\ m < IntWidth => ShiftRight(reach, m) = {{k + m : k \in reach} \cap Bits}
  BY DEF ShiftRight, ShiftLeft

\* The hellos that were missed.
LEMMA MissingFact ==
  ASSUME NEW x \in Neigh, NEW m \in Int, m > 0 => x.seqno \in Int, NEW y \in Missing(x, m)
  PROVE  /\ y \in Neigh
         /\ y.present = x.present /\ y.hello_age = x.hello_age
         /\ y.hello_interval = x.hello_interval /\ y.txcost = x.txcost
         /\ y.ihu_age = x.ihu_age /\ y.ihu_interval = x.ihu_interval
         /\ m <= 0 => y = x
         /\ m > 0 => y.reach \in ShiftRight(x.reach, m) /\ y.seqno \in Int
  <1>1. CASE m <= 0
    BY <1>1 DEF Missing
  <1>2. CASE m > 0
    <2>1. ~(m <= 0) /\ x.seqno + m \in Int
      BY <1>2
    <2>2. PICK r \in ShiftRight(x.reach, m) :
            y = [x EXCEPT !.reach = r, !.seqno = x.seqno + m]
      BY <2>1, Zenon DEF Missing
    <2>3. r \in SUBSET Bits
      BY ShiftFact, NeighFact
    <2> DEFINE e == x.seqno + m
    <2> HIDE DEF e
    <2>4. y = [x EXCEPT !.reach = r, !.seqno = e] /\ e \in Int
      BY <2>1, <2>2 DEF e
    <2>5. y \in Neigh
      BY <2>3, <2>4 DEF Neigh
    <2> QED
      BY <2>1, <2>2, <2>4, <2>5 DEF Neigh
  <1> QED
    BY <1>1, <1>2

\* A hello that counts.
LEMMA CountFact ==
  ASSUME NEW x \in Neigh, NEW seqno \in Int
  PROVE  /\ Count(x, seqno) \in Neigh
         /\ Count(x, seqno).present = x.present
         /\ Count(x, seqno).hello_age = x.hello_age
         /\ Count(x, seqno).hello_interval = x.hello_interval
         /\ Count(x, seqno).txcost = x.txcost
         /\ Count(x, seqno).ihu_age = x.ihu_age
         /\ Count(x, seqno).ihu_interval = x.ihu_interval
         /\ Count(x, seqno).seqno = seqno
         /\ Count(x, seqno).reach = {1} \cup ({k + 1 : k \in x.reach} \cap Bits)
  <1> DEFINE r == {1} \cup ({k + 1 : k \in x.reach} \cap Bits)
  <1>1. r \in SUBSET Bits
    BY LinkAssumption DEF Bits
  <1>2. Count(x, seqno) = [x EXCEPT !.seqno = seqno, !.reach = r]
    BY DEF Count, Neigh
  <1> HIDE DEF r
  <1>3. Count(x, seqno) \in Neigh
    BY <1>1, <1>2 DEF Neigh
  <1> QED
    BY <1>2, <1>3 DEF Neigh, r

\* Neighbour y has the times and costs of x.
Like(y, x) ==
  /\ y \in Neigh
  /\ y.present = x.present /\ y.hello_age = x.hello_age
  /\ y.hello_interval = x.hello_interval /\ y.txcost = x.txcost
  /\ y.ihu_age = x.ihu_age /\ y.ihu_interval = x.ihu_interval

\* A hello: when the routes are not told, the neighbour was heard of all the
\* time.
LEMMA HelloFact ==
  ASSUME NEW x \in Neigh, NEW seqno \in Int, NEW interval \in Intervals,
         NEW r \in update_neighbour(x, seqno, interval)
  PROVE  /\ Like(r.n, [x EXCEPT !.hello_age = 0, !.hello_interval = interval])
         /\ r.n.seqno = seqno
         /\ ~r.rc => 1 .. 6 \subseteq r.n.reach /\ 1 .. 5 \subseteq x.reach
  <1> DEFINE missed == IF x.seqno = Unknown \/ x.reach = {} THEN 0
                       ELSE seqno - x.seqno - 1
             y == [x EXCEPT !.hello_age = 0, !.hello_interval = interval]
             rebooted == missed < -8
             late == ~rebooted /\ missed < 0
             slower == late /\ interval > x.hello_interval
             base == IF rebooted THEN {[y EXCEPT !.reach = {}]}
                     ELSE IF slower THEN {[y EXCEPT !.reach = ShiftLeft(@, -missed)]}
                     ELSE Missing(y, missed)
             after == IF late /\ ~slower THEN {[y EXCEPT !.seqno = seqno]}
                      ELSE {Count(z, seqno) : z \in base}
  <1>1. missed \in Int /\ (missed > 0 => x.seqno \in Int)
    BY NeighFact
  <1>2. /\ y \in Neigh /\ y.reach = x.reach /\ y.seqno = x.seqno
        /\ y.present = x.present /\ y.txcost = x.txcost
    BY DEF Neigh
  <1>3. PICK z \in after : r = [n |-> z, rc |-> Changed(missed, z.reach)]
    BY DEF update_neighbour
  <1>4. r.n = z /\ r.rc = Changed(missed, z.reach)
    BY <1>3
  <1> HIDE DEF y, missed
  <1>5. ASSUME NEW b \in base PROVE Like(b, y) /\ (missed = 0 => b = y)
    <2>1. CASE rebooted
      <3>1. b = [y EXCEPT !.reach = {}] /\ missed # 0
        BY <1>1, <1>5, <2>1
      <3> QED
        BY <1>2, <3>1 DEF Like, Neigh
    <2>2. CASE ~rebooted /\ slower
      <3>1. missed # 0 /\ -missed \in Int
        BY <1>1, <2>2
      <3>2. ShiftLeft(y.reach, -missed) \in SUBSET Bits
        BY <1>2, <3>1, NeighFact, ShiftFact
      <3> DEFINE l == ShiftLeft(y.reach, -missed)
      <3>3. b = [y EXCEPT !.reach = l]
        BY <1>5, <2>2
      <3> HIDE DEF l
      <3> QED
        BY <1>2, <3>1, <3>2, <3>3 DEF Like, Neigh, l
    <2>3. CASE ~rebooted /\ ~slower
      <3>1. b \in Missing(y, missed)
        BY <1>5, <2>3
      <3> QED
        BY <1>1, <1>2, <3>1, MissingFact DEF Like
    <2> QED
      BY <2>1, <2>2, <2>3
  <1>6. CASE late /\ ~slower
    <2>1. z = [y EXCEPT !.seqno = seqno]
      BY <1>3, <1>6
    <2>2. Like(z, y) /\ z.seqno = seqno
      BY <1>2, <2>1 DEF Like, Neigh
    <2>3. missed # 0
      BY <1>1, <1>6
    <2> QED
      BY <1>4, <2>2, <2>3 DEF Changed, y
  <1>7. CASE ~(late /\ ~slower)
    <2>1. PICK b \in base : z = Count(b, seqno)
      BY <1>3, <1>7
    <2>2. Like(b, y) /\ (missed = 0 => b = y)
      BY <1>5
    <2>3. Like(z, y) /\ z.seqno = seqno /\ z.reach = {1} \cup ({k + 1 : k \in b.reach} \cap Bits)
      BY <2>1, <2>2, CountFact DEF Like
    <2>4. ASSUME missed = 0, 1 .. 6 \subseteq z.reach PROVE 1 .. 5 \subseteq x.reach
      <3> SUFFICES ASSUME NEW i \in 1 .. 5 PROVE i \in x.reach
        OBVIOUS
      <3>1. i + 1 \in z.reach /\ i + 1 # 1
        BY <2>4
      <3>2. PICK k \in b.reach : k + 1 = i + 1
        BY <2>3, <3>1
      <3>3. k \in Int
        BY <2>2, NeighFact, LinkAssumption DEF Like, Bits
      <3> QED
        BY <1>2, <2>2, <2>4, <3>2, <3>3
    <2> QED
      BY <1>4, <2>3, <2>4 DEF Changed, y
  <1> QED
    BY <1>6, <1>7

\* Silence: time is accounted for, and the routes are told of any change.
LEMMA ExpireFact ==
  ASSUME NEW x, NEW d \in Nat, d = 0, NEW s \in Nat, NeighOK(x, d, s), NEW r \in Expire(x)
  PROVE  /\ r.n \in Neigh /\ r.n.present = x.present
         /\ r.n.hello_interval = x.hello_interval /\ r.n.txcost = x.txcost
         /\ r.n.ihu_age = x.ihu_age /\ r.n.ihu_interval = x.ihu_interval
         /\ x.hello_interval > 0 => 10 * r.n.hello_age <= 17 * x.hello_interval
         /\ r.n.reach # {} => x.hello_interval > 0 /\ Counted(r.n, s)
         /\ ~r.rc => r.n = x
  <1> DEFINE i == x.hello_interval
             a == x.hello_age
             missed == IF i <= 0 THEN 0 ELSE (10 * a - 7 * i) \div (10 * i)
  <1>1. x \in Neigh /\ i \in Nat /\ a \in Nat /\ (i > 0 => i \in Intervals)
    BY NeighFact, SlowestFact DEF NeighOK
  <1>2. missed \in Int
        /\ (i > 0 => missed * (10 * i) <= 10 * a - 7 * i
                     /\ 10 * a - 7 * i < missed * (10 * i) + 10 * i)
    <2>1. CASE i = 0
      BY <2>1
    <2>2. CASE i > 0
      <3> DEFINE e == 10 * a - 7 * i
                 f == 10 * i
      <3>1. e \in Int /\ f \in Int /\ f > 0
        BY <1>1, <2>2
      <3>2. missed = e \div f
        BY <1>1, <2>2
      <3> HIDE DEF e, f, missed
      <3>3. e \div f \in Int /\ (e \div f) * f <= e /\ e < (e \div f) * f + f
        BY <3>1
      <3> QED
        BY <3>2, <3>3 DEF e, f
    <2> QED
      BY <1>1, <2>1, <2>2
  <1>3. CASE missed <= 0
    <2>1. r = [n |-> x, rc |-> FALSE]
      BY <1>3 DEF Expire
    <2>2. r.n = x /\ ~r.rc
      BY <2>1
    <2>3. i > 0 => 10 * a <= 17 * i
      <3> HIDE DEF missed, i, a
      <3>1. ASSUME i > 0 PROVE 10 * a <= 17 * i
        <4>1. missed * (10 * i) <= 0
          BY <1>1, <1>2, <1>3, <3>1
        <4> QED
          BY <1>1, <1>2, <3>1, <4>1
      <3> QED
        BY <3>1
    <2>4. Counted(x, s) /\ (x.reach # {} => i > 0)
      BY <1>1 DEF NeighOK, Counted
    <2> QED
      BY <1>1, <2>2, <2>3, <2>4
  <1>4. CASE missed > 0
    <2> DEFINE p == missed * i
               f == Forward(x, missed)
    <2>1. i > 0
      BY <1>1, <1>4
    <2>2. PICK y \in Missing(f, missed) : r = Expired(y)
      BY <1>1, <1>4 DEF Expire
    <2>3. r.n = y /\ r.rc
      BY <2>2 DEF Expired
    <2>4. PICK k \in 0 .. W - 1 : s = a + k * i /\ x.reach \subseteq k + 1 .. W
      BY <2>1 DEF NeighOK, Counted
    <2>5. x.seqno \in Int
      BY <2>1 DEF NeighOK, Counted
    <2>6. 10 * a <= 17 * i + 10 * Late(i) /\ Late(i) \in Nat /\ 8 * Late(i) <= 15 * i + 8
      <3>1. 10 * (a + d) <= 17 * i + 10 * Late(i)
        BY <2>1 DEF NeighOK, OnTime
      <3>2. i \in Nat
        BY <1>1
      <3> HIDE DEF i, a
      <3>3. Late(i) \in Nat /\ 8 * Late(i) <= 15 * i + 8
        BY <3>2, LateFact
      <3> QED
        BY <1>1, <3>1, <3>3
    <2> HIDE DEF i, a, missed
    <2>7. p \in Int /\ 10 * p <= 10 * a - 7 * i /\ 10 * a - 7 * i < 10 * p + 10 * i
      BY <1>1, <1>2, <2>1
    <2>8. missed <= 3
      <3> SUFFICES ASSUME missed >= 4 PROVE FALSE
        BY <1>2
      <3>1. p >= 4 * i
        BY <1>1, <1>2, <2>1
      <3> DEFINE l == Late(i)
      <3>2. 10 * a <= 17 * i + 10 * l /\ l \in Nat /\ 8 * l <= 15 * i + 8
        BY <2>6
      <3> HIDE DEF p, l
      <3> QED
        BY <1>1, <2>1, <2>7, <3>1, <3>2
    <2>9. a - p \in Nat /\ 10 * (a - p) <= 17 * i
      <3> HIDE DEF p
      <3> QED
        BY <1>1, <2>1, <2>7
    <2>10. f = [x EXCEPT !.hello_age = a - p]
      BY <1>1 DEF Forward, i, a, Neigh
    <2>11. /\ f \in Neigh /\ f.present = x.present /\ f.reach = x.reach /\ f.seqno = x.seqno
           /\ f.hello_age = a - p /\ f.hello_interval = i /\ f.txcost = x.txcost
           /\ f.ihu_age = x.ihu_age /\ f.ihu_interval = x.ihu_interval
      <3> DEFINE b == a - p
      <3>1. f = [x EXCEPT !.hello_age = b] /\ b \in Nat
        BY <2>9, <2>10
      <3> HIDE DEF b
      <3>2. f = [x EXCEPT !.hello_age = b] /\ b \in Nat
        BY <3>1
      <3>3. /\ f \in Neigh /\ f.present = x.present /\ f.reach = x.reach /\ f.seqno = x.seqno
            /\ f.hello_age = b /\ f.hello_interval = x.hello_interval /\ f.txcost = x.txcost
            /\ f.ihu_age = x.ihu_age /\ f.ihu_interval = x.ihu_interval
        <4> HIDE DEF f
        <4> QED
          BY <1>1, <3>2 DEF Neigh
      <3> QED
        BY <3>3 DEF i, b
    <2> HIDE DEF f
    <2>12. /\ y \in Neigh
           /\ y.present = x.present /\ y.hello_age = a - p /\ y.hello_interval = i
           /\ y.txcost = x.txcost
           /\ y.ihu_age = x.ihu_age /\ y.ihu_interval = x.ihu_interval
           /\ y.reach \in ShiftRight(x.reach, missed) /\ y.seqno \in Int
      BY <1>2, <1>4, <2>2, <2>5, <2>11, MissingFact
    <2>13. y.reach = {b + missed : b \in x.reach} \cap Bits
      <3>1. missed < IntWidth
        BY <1>2, <2>8, LinkAssumption
      <3>2. x.reach \in SUBSET Bits
        BY <1>1, NeighFact
      <3>3. ShiftRight(x.reach, missed) = {{b + missed : b \in x.reach} \cap Bits}
        BY <1>2, <3>1, <3>2, ShiftFact
      <3> QED
        BY <2>12, <3>3
    <2>14. ASSUME y.reach # {} PROVE Counted(y, s)
      <3>1. k + missed \in Nat /\ k \in Nat /\ W \in Nat
        BY <1>2, <1>4, LinkAssumption
      <3>2. ASSUME NEW c \in y.reach PROVE c \in k + missed + 1 .. W
        <4>1. PICK b \in x.reach : c = b + missed
          BY <2>13
        <4>2. b \in k + 1 .. W /\ c \in 1 .. W
          BY <2>4, <2>13 DEF Bits
        <4> QED
          BY <1>2, <3>1, <4>1, <4>2
      <3>3. k + missed <= W - 1
        <4>1. PICK c : c \in y.reach
          BY <2>14
        <4>2. c \in k + missed + 1 .. W
          BY <3>2, <4>1
        <4> QED
          BY <3>1, <4>2
      <3>4. s = (a - p) + (k + missed) * i
        BY <1>1, <1>2, <2>4
      <3>5. k + missed \in 0 .. W - 1
        BY <3>1, <3>3
      <3> QED
        BY <1>1, <2>1, <2>12, <3>2, <3>4, <3>5 DEF Counted
    <2> QED
      BY <2>1, <2>3, <2>9, <2>12, <2>14 DEF i
  <1> QED
    BY <1>2, <1>3, <1>4

\* The IHU's check: the cost that remains is of an IHU that is not too old.
LEMMA ResetFact ==
  ASSUME NEW x \in Neigh, x.txcost < INFINITY => x.ihu_interval > 0
  PROVE  /\ reset_txcost(x).n \in Neigh
         /\ reset_txcost(x).n.present = x.present
         /\ reset_txcost(x).n.reach = x.reach
         /\ reset_txcost(x).n.seqno = x.seqno
         /\ reset_txcost(x).n.hello_age = x.hello_age
         /\ reset_txcost(x).n.hello_interval = x.hello_interval
         /\ reset_txcost(x).n.ihu_interval = x.ihu_interval
         /\ reset_txcost(x).rc \in BOOLEAN
         /\ reset_txcost(x).rc => reset_txcost(x).n.txcost = INFINITY
         /\ ~reset_txcost(x).rc =>
              reset_txcost(x).n = x /\ (x.txcost < INFINITY => x.ihu_age <= IhuLimit)
  <1> DEFINE fresh ==
        \/ x.ihu_interval > 0 /\ x.ihu_age < 3 * x.ihu_interval
        \/ /\ x.ihu_age < MaxDelay /\ x.reach \cap Recent # {}
           /\ x.ihu_interval > 0 => x.ihu_age < 10 * x.ihu_interval
             z == [x EXCEPT !.txcost = INFINITY, !.ihu_age = 0]
  <1>1. reset_txcost(x) = IF fresh THEN [n |-> x, rc |-> FALSE] ELSE [n |-> z, rc |-> TRUE]
    BY DEF reset_txcost
  <1>2. /\ z \in Neigh /\ z.present = x.present /\ z.reach = x.reach /\ z.seqno = x.seqno
        /\ z.hello_age = x.hello_age /\ z.hello_interval = x.hello_interval
        /\ z.ihu_interval = x.ihu_interval /\ z.txcost = INFINITY
    BY DEF Neigh
  <1>3. ASSUME fresh, x.txcost < INFINITY PROVE x.ihu_age <= IhuLimit
    <2>1. /\ x.ihu_age \in Nat /\ x.ihu_interval \in Nat /\ x.ihu_interval <= 3 * Slowest
          /\ x.ihu_interval > 0
      BY <1>3, NeighFact
    <2>2. \/ x.ihu_age < 9 * Slowest
          \/ x.ihu_age < MaxDelay /\ x.ihu_age < 30 * Slowest
      BY <1>3, <2>1, SlowestFact
    <2> QED
      BY <2>1, <2>2, BoundsFact, SlowestFact
  <1> HIDE DEF fresh, z
  <1>4. CASE fresh
    BY <1>1, <1>3, <1>4
  <1>5. CASE ~fresh
    BY <1>1, <1>2, <1>5
  <1> QED
    BY <1>4, <1>5

\* The age of hello_time is never beyond the limit of 180 s.
LEMMA AgeFact ==
  ASSUME Frequent, NEW x, NEW d \in Nat, NEW s \in Nat, NeighOK(x, d, s),
         x.hello_interval > 0
  PROVE  x.hello_age + d < MaxDelay
  <1> DEFINE i == x.hello_interval
  <1>1. i \in Nat /\ i <= Slowest /\ x.hello_age \in Nat
    BY NeighFact, SlowestFact DEF NeighOK
  <1>2. 10 * (x.hello_age + d) <= 17 * i + 10 * Late(i)
    BY DEF NeighOK, OnTime
  <1> HIDE DEF i
  <1>3. Late(i) \in Nat /\ Late(i) <= Lag
    BY <1>1, LateFact, BoundsFact, SlowestFact
  <1> QED
    BY <1>1, <1>2, <1>3, BoundsFact, SlowestFact, LinkAssumption DEF Frequent

\* A finite cost is that of a neighbour heard of in the last two intervals.
LEMMA RxcostFact ==
  ASSUME NEW x \in Neigh
  PROVE  /\ neighbour_cost(x) < INFINITY =>
              x.txcost < INFINITY /\ (1 \in x.reach \/ 2 \in x.reach)
         /\ x.reach = {} => neighbour_cost(x) = INFINITY
         /\ 1 .. 5 \subseteq x.reach /\ x.hello_age < MaxDelay =>
              neighbour_rxcost(x) = ifcost
  <1>1. INFINITY \in Nat /\ ifcost \in Nat /\ x.txcost \in Nat
    BY LinkAssumption, NeighFact
  <1>2. x.reach = {} => neighbour_rxcost(x) = INFINITY
    BY DEF neighbour_rxcost
  <1>3. neighbour_rxcost(x) < INFINITY => 1 \in x.reach \/ 2 \in x.reach
    BY <1>1 DEF neighbour_rxcost
  <1>4. neighbour_rxcost(x) \in Nat
    BY <1>1 DEF neighbour_rxcost
  <1>5. ASSUME 1 .. 5 \subseteq x.reach, x.hello_age < MaxDelay
        PROVE  neighbour_rxcost(x) = ifcost
    <2>1. 1 \in x.reach /\ 2 \in x.reach
      BY <1>5
    <2>2. 1 \in Recent
      BY LinkAssumption DEF Recent
    <2> QED
      BY <1>5, <2>1, <2>2 DEF neighbour_rxcost
  <1> QED
    BY <1>1, <1>2, <1>3, <1>4, <1>5 DEF neighbour_cost

-----------------------------------------------------------------------------
(* The steps. *)

Times == due \in Nat /\ due <= Late(MaxCheck) /\ silence \in Nat

\* A hello arrives.
LEMMA HearFact ==
  ASSUME NEW x, NeighOK(x, due, silence), Times,
         NEW seqno \in Int, NEW interval \in Intervals, Hear(seqno, interval, x)
  PROVE  /\ NeighOK(n', due', silence') /\ Times'
         /\ Frequent /\ told = neighbour_cost(x) => told' = neighbour_cost(n')
  <1> DEFINE y == find_neighbour(x)
             z == [y EXCEPT !.hello_age = 0, !.hello_interval = interval]
  <1>1. PICK r \in update_neighbour(y, seqno, interval), d \in About(interval) :
          n' = r.n /\ Tell(r.n, r.rc) /\ due' = Earlier(due, d) /\ silence' = 0
    BY DEF Hear
  <1>2. /\ y \in Neigh /\ y.present /\ OnTime(y, due) /\ Counted(y, silence)
        /\ neighbour_cost(y) = neighbour_cost(x)
    <2>1. x \in Neigh /\ due \in Nat /\ silence \in Nat
      BY DEF NeighOK, Times
    <2> QED
      BY <2>1, GoneFact
  <1> HIDE DEF y
  <1>3. /\ Like(n', z) /\ n'.seqno = seqno
        /\ ~r.rc => 1 .. 6 \subseteq n'.reach /\ 1 .. 5 \subseteq y.reach
    <2>1. /\ Like(r.n, z) /\ r.n.seqno = seqno
          /\ ~r.rc => 1 .. 6 \subseteq r.n.reach /\ 1 .. 5 \subseteq y.reach
      <3>1. r \in update_neighbour(y, seqno, interval)
        BY <1>1
      <3>2. y \in Neigh
        BY <1>2
      <3> QED
        BY <3>1, <3>2, HelloFact, ZenonT(40)
    <2> HIDE DEF z
    <2> QED
      BY <1>1, <2>1
  <1>4. /\ z.present = y.present /\ z.hello_age = 0 /\ z.hello_interval = interval
        /\ z.txcost = y.txcost /\ z.ihu_age = y.ihu_age /\ z.ihu_interval = y.ihu_interval
    BY <1>2 DEF Neigh
  <1>5. /\ n' \in Neigh /\ n'.present /\ n'.hello_age = 0 /\ n'.hello_interval = interval
        /\ n'.txcost = y.txcost /\ n'.ihu_age = y.ihu_age /\ n'.ihu_interval = y.ihu_interval
        /\ n'.seqno \in Int
    BY <1>2, <1>3, <1>4 DEF Like
  <1>6. interval \in Nat /\ interval >= 1 /\ d \in Nat /\ d <= Late(interval)
        /\ Late(interval) \in Nat
    <2>1. interval \in Nat /\ interval >= 1
      BY SlowestFact
    <2> QED
      BY <2>1, LateFact
  <1>7. due' \in Nat /\ due' <= due /\ due' <= Late(interval)
    BY <1>1, <1>6 DEF Times, Earlier
  <1>8. Times'
    <2>1. Late(MaxCheck) \in Nat
      BY LateFact, LinkAssumption
    <2> QED
      BY <1>1, <1>7, <2>1 DEF Times
  <1>9. OnTime(n', due')
    <2>1. 10 * (0 + due') <= 17 * interval + 10 * Late(interval)
      BY <1>6, <1>7
    <2>2. ASSUME n'.txcost < INFINITY
          PROVE  n'.ihu_interval > 0 /\ n'.ihu_age + due' <= Lag + IhuLimit
      <3>1. y.ihu_interval > 0 /\ y.ihu_age + due <= Lag + IhuLimit
        BY <1>2, <1>5, <2>2 DEF OnTime
      <3>2. y.ihu_age \in Nat
        BY <1>2, NeighFact
      <3> QED
        BY <1>5, <1>7, <3>1, <3>2, BoundsFact DEF Times
    <2> QED
      BY <1>5, <1>7, <2>1, <2>2 DEF OnTime
  <1>10. Counted(n', 0)
    <2>1. n'.reach \subseteq 0 + 1 .. W /\ 0 \in 0 .. W - 1 /\ 0 = 0 + 0 * interval
      BY <1>5, <1>6, NeighFact, LinkAssumption DEF Bits
    <2> QED
      BY <1>5, <1>6, <2>1 DEF Counted
  <1>11. ASSUME Frequent, told = neighbour_cost(x) PROVE told' = neighbour_cost(n')
    <2>1. CASE r.rc
      BY <1>1, <2>1 DEF Tell
    <2>2. CASE ~r.rc
      <3>1. 1 .. 5 \subseteq n'.reach /\ 1 .. 5 \subseteq y.reach
        BY <1>3, <2>2
      <3>2. y.hello_interval > 0
        <4>1. y.hello_interval \in Nat
          BY <1>2, NeighFact
        <4>2. 1 \in y.reach
          BY <3>1
        <4> QED
          BY <1>2, <4>1, <4>2 DEF Counted
      <3>3. y.hello_age + due < MaxDelay
        BY <1>2, <1>11, <3>2, AgeFact DEF NeighOK, Times
      <3>4. y.hello_age < MaxDelay /\ n'.hello_age < MaxDelay
        BY <1>2, <1>5, <3>3, NeighFact, LinkAssumption DEF Times
      <3>5. neighbour_rxcost(y) = ifcost /\ neighbour_rxcost(n') = ifcost
        BY <1>2, <1>5, <3>1, <3>4, RxcostFact
      <3>6. neighbour_cost(n') = neighbour_cost(y)
        BY <1>5, <3>5 DEF neighbour_cost
      <3> QED
        BY <1>1, <1>2, <1>11, <2>2, <3>6 DEF Tell
    <2> QED
      BY <2>1, <2>2
  <1> QED
    BY <1>1, <1>5, <1>8, <1>9, <1>10, <1>11 DEF NeighOK

\* A hello that arrives late, or with another interval or sequence number, or
\* not at all.
LEMMA HelloSteps ==
  ASSUME IInv
  PROVE  /\ PeerHello => IInv' /\ (Frequent /\ Known => Known')
         /\ \A back \in 0 .. Window : LateHello(back) =>
              IInv' /\ (Frequent /\ Known => Known')
         /\ \A j \in Jumps, i \in Intervals : PeerStarts(j, i) =>
              IInv' /\ (Frequent /\ Known => Known')
  <1>1. NeighOK(n, due, silence) /\ Times /\ due \in Nat /\ silence \in Nat
        /\ peer.interval \in Intervals
    BY DEF IInv, Times
  <1>2. ASSUME NEW j \in Int, NEW seqno \in Int, NEW i \in Intervals,
               Hear(seqno, i, Shifted(n, j)), peer'.interval \in Intervals
        PROVE  IInv' /\ (Frequent /\ Known => Known')
    <2>1. NeighOK(Shifted(n, j), due, silence)
          /\ neighbour_cost(Shifted(n, j)) = neighbour_cost(n)
      BY <1>1, ShiftedFact
    <2>2. NeighOK(n', due', silence') /\ Times'
          /\ (Frequent /\ told = neighbour_cost(Shifted(n, j)) => told' = neighbour_cost(n'))
      BY <1>1, <1>2, <2>1, HearFact
    <2> QED
      BY <1>2, <2>1, <2>2 DEF IInv, Times, Known
  <1>3. ASSUME PeerHello PROVE IInv' /\ (Frequent /\ Known => Known')
    <2>1. peer'.interval \in Intervals
      <3>1. peer' = [peer EXCEPT !.age = 0]
        BY <1>3 DEF PeerHello
      <3> QED
        BY <1>1, <3>1
    <2>2. CASE Hear(0, peer.interval, Shifted(n, 1))
      BY <1>1, <1>2, <2>1, <2>2
    <2>3. CASE n' = Shifted(n, 1) /\ UNCHANGED <<told, due, silence>>
      <3>1. NeighOK(n', due, silence) /\ neighbour_cost(n') = neighbour_cost(n)
        BY <1>1, <2>3, ShiftedFact
      <3> QED
        BY <2>1, <2>3, <3>1 DEF IInv, Known
    <2> QED
      BY <1>3, <2>2, <2>3 DEF PeerHello
  <1>4. ASSUME NEW back \in 0 .. Window, LateHello(back)
        PROVE  IInv' /\ (Frequent /\ Known => Known')
    <2>1. -back \in Int /\ Hear(-back, peer.interval, n) /\ UNCHANGED peer
      BY <1>4, LinkAssumption DEF LateHello
    <2>2. NeighOK(n', due', silence') /\ Times'
          /\ (Frequent /\ told = neighbour_cost(n) => told' = neighbour_cost(n'))
      BY <1>1, <2>1, HearFact
    <2> QED
      BY <1>1, <2>1, <2>2 DEF IInv, Times, Known
  <1>5. ASSUME NEW j \in Jumps, NEW i \in Intervals, PeerStarts(j, i)
        PROVE  IInv' /\ (Frequent /\ Known => Known')
    <2>1. peer' = [interval |-> i, age |-> 0] /\ Hear(0, i, Shifted(n, j)) /\ j \in Int
      BY <1>5, LinkAssumption DEF PeerStarts
    <2>2. peer'.interval \in Intervals
      BY <2>1
    <2> QED
      BY <1>2, <2>1, <2>2
  <1> QED
    BY <1>3, <1>4, <1>5

\* An IHU arrives.
LEMMA IhuStep ==
  ASSUME IInv, NEW c \in {ifcost, INFINITY}, Ihu(c)
  PROVE  IInv' /\ (Known => Known')
  <1> DEFINE x == find_neighbour(n)
             e == 3 * peer.interval
             y == [x EXCEPT !.txcost = c, !.ihu_age = 0, !.ihu_interval = e]
  <1>1. PICK d \in About(9 * peer.interval) : due' = Earlier(due, d)
    BY DEF Ihu
  <1>2. n' = y /\ Tell(y, c # x.txcost) /\ UNCHANGED <<peer, silence>>
    BY DEF Ihu
  <1>3. peer.interval \in Nat /\ peer.interval \in Intervals /\ peer.interval >= 1
        /\ peer.interval <= Slowest
    BY SlowestFact DEF IInv
  <1>4. /\ x \in Neigh /\ x.present /\ OnTime(x, due) /\ Counted(x, silence)
        /\ neighbour_cost(x) = neighbour_cost(n)
    <2>1. n \in Neigh /\ due \in Nat /\ silence \in Nat /\ NeighOK(n, due, silence)
      BY DEF NeighOK, IInv
    <2> QED
      BY <2>1, GoneFact
  <1>5. e \in {3 * i : i \in Intervals} /\ e \in Nat /\ e > 0
    BY <1>3
  <1> HIDE DEF x, e
  <1>6. /\ y \in Neigh /\ y.present /\ y.reach = x.reach /\ y.seqno = x.seqno
        /\ y.hello_age = x.hello_age /\ y.hello_interval = x.hello_interval
        /\ y.txcost = c /\ y.ihu_age = 0 /\ y.ihu_interval = e
    BY <1>4, <1>5 DEF Neigh
  <1> HIDE DEF y
  <1>7. due' \in Nat /\ due' <= due /\ due' <= Late(9 * Slowest)
    <2> DEFINE i == 9 * peer.interval
               j == 9 * Slowest
    <2>1. i \in Nat /\ j \in Nat /\ i <= j
      BY <1>3, SlowestFact
    <2>2. d \in About(i)
      BY <1>1
    <2> HIDE DEF i, j
    <2>3. d \in Nat /\ d <= Late(i) /\ Late(i) <= Late(j) /\ Late(i) \in Nat /\ Late(j) \in Nat
      BY <2>1, <2>2, LateFact
    <2>4. due' \in Nat /\ due' <= due /\ due' <= Late(j)
      BY <1>1, <2>3 DEF IInv, Earlier
    <2> QED
      BY <2>4 DEF j
  <1>8. due' <= Late(MaxCheck) /\ Late(MaxCheck) \in Nat /\ Late(9 * Slowest) \in Nat
    <2>1. Late(MaxCheck) \in Nat
      BY LateFact, LinkAssumption
    <2>2. 9 * Slowest \in Nat
      BY SlowestFact
    <2>3. Late(9 * Slowest) \in Nat
      BY <2>2, LateFact
    <2> QED
      BY <1>7, <2>1, <2>3 DEF IInv
  <1>9. due' <= Lag + IhuLimit
    BY <1>7, <1>8, BoundsFact
  <1>10. OnTime(y, due')
    <2>1. ASSUME y.hello_interval > 0
          PROVE  /\ due' <= Late(y.hello_interval)
                 /\ 10 * (y.hello_age + due')
                      <= 17 * y.hello_interval + 10 * Late(y.hello_interval)
      <3> DEFINE i == x.hello_interval
                 l == Late(i)
      <3>1. i \in Nat /\ x.hello_age \in Nat
        BY <1>4, NeighFact
      <3>2. due <= l /\ 10 * (x.hello_age + due) <= 17 * i + 10 * l
        BY <1>4, <1>6, <2>1 DEF OnTime
      <3> HIDE DEF i
      <3>3. l \in Nat
        BY <3>1, LateFact
      <3> HIDE DEF l
      <3>4. due' <= l /\ 10 * (x.hello_age + due') <= 17 * i + 10 * l
        BY <1>7, <3>1, <3>2, <3>3 DEF IInv
      <3> QED
        BY <1>6, <3>4 DEF i, l
    <2> QED
      BY <1>5, <1>6, <1>7, <1>9, <2>1 DEF OnTime
  <1>11. Counted(y, silence)
    BY <1>4, <1>6 DEF Counted
  <1>12. ASSUME Known PROVE Known'
    <2>1. CASE c # x.txcost
      BY <1>2, <2>1 DEF Tell, Known
    <2>2. CASE c = x.txcost
      <3>1. neighbour_cost(y) = neighbour_cost(x)
        BY <1>6, <2>2 DEF neighbour_cost, neighbour_rxcost
      <3> QED
        BY <1>2, <1>4, <1>12, <2>2, <3>1 DEF Tell, Known
    <2> QED
      BY <2>1, <2>2
  <1> QED
    BY <1>2, <1>3, <1>6, <1>7, <1>8, <1>10, <1>11, <1>12 DEF IInv, NeighOK

\* Time passes.
LEMMA TickStep ==
  ASSUME IInv, Tick
  PROVE  IInv' /\ (Frequent /\ Known => Known')
  <1>1. /\ due > 0 /\ due' = due - 1 /\ peer' = [peer EXCEPT !.age = @ + 1]
        /\ n' = IF n.present THEN [n EXCEPT !.hello_age = @ + 1, !.ihu_age = @ + 1] ELSE n
        /\ silence' = IF n.hello_interval > 0 THEN silence + 1 ELSE 0
        /\ told' = told
    BY DEF Tick
  <1>2. n \in Neigh /\ due \in Nat /\ silence \in Nat /\ NeighOK(n, due, silence)
        /\ due <= Late(MaxCheck) /\ Late(MaxCheck) \in Nat
    BY LateFact, LinkAssumption DEF NeighOK, IInv
  <1>3. due' \in Nat /\ due' <= Late(MaxCheck) /\ silence' \in Nat
    BY <1>1, <1>2
  <1>4. peer'.interval \in Intervals
    <2>1. peer'.interval = peer.interval
      BY <1>1
    <2> QED
      BY <2>1 DEF IInv
  <1>5. CASE ~n.present
    <2>1. n = Gone /\ n' = n
      BY <1>1, <1>2, <1>5 DEF NeighOK
    <2> QED
      BY <1>1, <1>3, <1>4, <2>1, GoneFact DEF IInv, Known
  <1>6. CASE n.present
    <2> DEFINE h == n.hello_age
               u == n.ihu_age
               i == n.hello_interval
               l == Late(i)
    <2>1. h \in Nat /\ u \in Nat /\ i \in Nat
      BY <1>2, NeighFact
    <2>2. n' = [n EXCEPT !.hello_age = h + 1, !.ihu_age = u + 1]
      BY <1>1, <1>6
    <2>3. /\ n' \in Neigh /\ n'.present = n.present /\ n'.reach = n.reach /\ n'.seqno = n.seqno
          /\ n'.hello_interval = n.hello_interval /\ n'.txcost = n.txcost
          /\ n'.ihu_interval = n.ihu_interval /\ n'.hello_age = h + 1 /\ n'.ihu_age = u + 1
      <3> DEFINE h1 == h + 1
                 u1 == u + 1
      <3>1. n' = [n EXCEPT !.hello_age = h1, !.ihu_age = u1] /\ h1 \in Nat /\ u1 \in Nat
        BY <2>1, <2>2
      <3> HIDE DEF h1, u1
      <3>2. /\ n' \in Neigh /\ n'.present = n.present /\ n'.reach = n.reach /\ n'.seqno = n.seqno
            /\ n'.hello_interval = n.hello_interval /\ n'.txcost = n.txcost
            /\ n'.ihu_interval = n.ihu_interval /\ n'.hello_age = h1 /\ n'.ihu_age = u1
        BY <1>2, <3>1 DEF Neigh
      <3> QED
        BY <3>2 DEF h1, u1
    <2>4. i > 0 => due' <= l /\ 10 * (h + 1 + due') <= 17 * i + 10 * l
      <3>1. ASSUME i > 0 PROVE due' <= l /\ 10 * (h + 1 + due') <= 17 * i + 10 * l
        <4>1. due <= l /\ 10 * (h + due) <= 17 * i + 10 * l
          BY <1>2, <3>1 DEF NeighOK, OnTime
        <4> HIDE DEF i, h
        <4>2. l \in Nat
          BY <2>1, LateFact
        <4> HIDE DEF l
        <4> QED
          BY <1>1, <1>2, <2>1, <4>1, <4>2
      <3> QED
        BY <3>1
    <2>5. n.txcost < INFINITY => n.ihu_interval > 0 /\ u + 1 + due' <= Lag + IhuLimit
      BY <1>1, <1>2, <2>1, BoundsFact DEF NeighOK, OnTime
    <2>6. OnTime(n', due')
      BY <2>3, <2>4, <2>5 DEF OnTime
    <2>7. Counted(n', silence')
      <3>1. CASE i = 0
        BY <1>2, <2>3, <3>1 DEF NeighOK, Counted
      <3>2. CASE i > 0
        <4>1. PICK k \in 0 .. W - 1 : silence = h + k * i /\ n.reach \subseteq k + 1 .. W
          BY <1>2, <3>2 DEF NeighOK, Counted
        <4>2. silence' = (h + 1) + k * i
          BY <1>1, <2>1, <3>2, <4>1, LinkAssumption
        <4>3. n.seqno \in Int
          BY <1>2, <3>2 DEF NeighOK, Counted
        <4> QED
          BY <2>1, <2>3, <3>2, <4>1, <4>2, <4>3 DEF Counted
      <3> QED
        BY <2>1, <3>1, <3>2
    <2>8. ASSUME Frequent, Known PROVE Known'
      <3>1. CASE i = 0
        <4>1. n.reach = {}
          BY <1>2, <3>1 DEF NeighOK, Counted
        <4> QED
          BY <1>1, <1>2, <2>3, <2>8, <4>1, RxcostFact DEF Known
      <3>2. CASE i > 0
        <4>1. h + due < MaxDelay
          BY <1>2, <2>8, <3>2, AgeFact
        <4>2. h < MaxDelay /\ h + 1 < MaxDelay
          BY <1>1, <1>2, <2>1, <4>1, LinkAssumption
        <4>3. neighbour_rxcost(n') = neighbour_rxcost(n)
          BY <2>3, <4>2 DEF neighbour_rxcost
        <4>4. neighbour_cost(n') = neighbour_cost(n)
          BY <2>3, <4>3 DEF neighbour_cost
        <4> QED
          BY <1>1, <2>8, <4>4 DEF Known
      <3> QED
        BY <2>1, <3>1, <3>2
    <2> QED
      BY <1>3, <1>4, <1>6, <2>3, <2>6, <2>7, <2>8 DEF IInv, NeighOK
  <1> QED
    BY <1>5, <1>6

\* The least interval, by which the next check is scheduled.
LEMMA LeastFact ==
  ASSUME NEW a \in Nat \ {0}, NEW b \in Nat, NEW c \in Nat
  PROVE  LET m == Least({a} \cup ({b, c} \ {0}))
         IN  /\ m \in Nat /\ m <= a
             /\ b > 0 => m <= b
             /\ c > 0 => m <= c
  <1> DEFINE S == {a} \cup ({b, c} \ {0})
             m == Least(S)
  <1>1. \E e \in S : \A f \in S : e <= f
    <2>1. \A f \in S : f = a \/ (f = b /\ b # 0) \/ (f = c /\ c # 0)
      OBVIOUS
    <2>2. a \in S /\ (b # 0 => b \in S) /\ (c # 0 => c \in S)
      OBVIOUS
    <2> HIDE DEF S
    <2> QED
      BY <2>1, <2>2
  <1>2. m \in S /\ \A f \in S : m <= f
    BY <1>1 DEF Least
  <1> HIDE DEF m
  <1>3. m \in Nat /\ m <= a /\ (b > 0 => m <= b) /\ (c > 0 => m <= c)
    BY <1>2
  <1> QED
    BY <1>3 DEF m

\* The periodic check: the neighbour is flushed, or the next check is in time.
LEMMA CheckStep ==
  ASSUME IInv, Check
  PROVE  IInv' /\ (Known => Known')
  <1>1. n \in Neigh /\ due \in Nat /\ silence \in Nat /\ NeighOK(n, due, silence)
        /\ due = 0 /\ UNCHANGED peer /\ peer.interval \in Intervals
    BY DEF NeighOK, IInv, Check
  <1>2. MaxCheck \in Nat /\ MaxCheck > 0 /\ Late(MaxCheck) \in Nat
        /\ \A d \in About(MaxCheck) : d \in Nat /\ d <= Late(MaxCheck)
    <2>1. MaxCheck \in Nat /\ MaxCheck > 0
      BY LinkAssumption
    <2> QED
      BY <2>1, LateFact
  <1>3. CASE ~n.present
    <2>1. due' \in About(MaxCheck) /\ UNCHANGED <<n, told, silence>>
      BY <1>3 DEF Check
    <2>2. n = Gone
      BY <1>1, <1>3 DEF NeighOK
    <2> QED
      BY <1>1, <1>2, <2>1, <2>2, GoneFact DEF IInv, Known
  <1>4. CASE n.present
    <2> DEFINE gone(r) == r.n.reach = {} \/ r.n.hello_age > MaxSilence
    <2>1. PICK r \in Expire(n) :
            IF gone(r)
            THEN /\ n' = Gone /\ told' = INFINITY /\ silence' = 0
                 /\ due' \in About(MaxCheck)
            ELSE LET t == reset_txcost(r.n)
                 IN  /\ n' = t.n /\ Tell(t.n, r.rc \/ t.rc) /\ UNCHANGED silence
                     /\ due' \in About(Least({MaxCheck}
                          \cup ({t.n.hello_interval, t.n.ihu_interval} \ {0})))
      BY <1>4 DEF Check
    <2>2. CASE gone(r)
      <3>1. n' = Gone /\ told' = INFINITY /\ silence' = 0 /\ due' \in About(MaxCheck)
        BY <2>1, <2>2
      <3> QED
        BY <1>1, <1>2, <3>1, GoneFact DEF IInv, Known
    <2>3. CASE ~gone(r)
      <3> DEFINE t == reset_txcost(r.n)
                 i == n.hello_interval
                 m == Least({MaxCheck} \cup ({n'.hello_interval, n'.ihu_interval} \ {0}))
      <3>1. n' = t.n /\ Tell(n', r.rc \/ t.rc) /\ silence' = silence /\ due' \in About(m)
        BY <2>1, <2>3
      <3>2. /\ r.n \in Neigh /\ r.n.present = n.present
            /\ r.n.hello_interval = i /\ r.n.txcost = n.txcost
            /\ r.n.ihu_age = n.ihu_age /\ r.n.ihu_interval = n.ihu_interval
            /\ i > 0 => 10 * r.n.hello_age <= 17 * i
            /\ r.n.reach # {} => i > 0 /\ Counted(r.n, silence)
            /\ ~r.rc => r.n = n
        BY <1>1, ExpireFact
      <3>3. i > 0 /\ Counted(r.n, silence) /\ 10 * r.n.hello_age <= 17 * i
        BY <2>3, <3>2
      <3>4. n.txcost < INFINITY => n.ihu_interval > 0
        BY <1>1 DEF NeighOK, OnTime
      <3>5. /\ n' \in Neigh /\ n'.present /\ n'.reach = r.n.reach /\ n'.seqno = r.n.seqno
            /\ n'.hello_age = r.n.hello_age /\ n'.hello_interval = i
            /\ n'.ihu_interval = n.ihu_interval
            /\ t.rc => n'.txcost = INFINITY
            /\ ~t.rc => n' = r.n /\ (n.txcost < INFINITY => n.ihu_age <= IhuLimit)
        BY <1>4, <3>1, <3>2, <3>4, ResetFact
      <3> HIDE DEF t, m, i
      <3>6. i \in Nat /\ i <= Slowest /\ n'.ihu_interval \in Nat /\ n'.hello_age \in Nat
            /\ n'.ihu_age \in Nat
        <4>1. n'.ihu_interval \in Nat /\ n'.hello_age \in Nat /\ n'.ihu_age \in Nat
          BY <3>5, NeighFact
        <4>2. i \in Nat /\ i \in Intervals \cup {0}
          BY <1>1, NeighFact DEF i
        <4> QED
          BY <4>1, <4>2, SlowestFact
      <3>7. m \in Nat /\ m <= MaxCheck /\ m <= i
        BY <1>2, <3>3, <3>5, <3>6, LeastFact DEF m
      <3>8. due' \in Nat /\ due' <= Late(MaxCheck) /\ due' <= Late(i) /\ due' <= Lag
            /\ Late(i) \in Nat
        <4>1. due' \in Nat /\ due' <= Late(m) /\ Late(m) \in Nat
          BY <3>1, <3>7, LateFact
        <4>2. Late(m) <= Late(MaxCheck) /\ Late(m) <= Late(i)
          BY <1>2, <3>6, <3>7, LateFact
        <4>3. Late(i) \in Nat /\ Late(i) <= Late(Slowest)
          BY <3>6, LateFact, SlowestFact
        <4> QED
          BY <1>2, <4>1, <4>2, <4>3, BoundsFact
      <3>9. OnTime(n', due')
        <4>1. 10 * (n'.hello_age + due') <= 17 * i + 10 * Late(i)
          BY <3>3, <3>5, <3>6, <3>8
        <4>2. ASSUME n'.txcost < INFINITY
              PROVE  n'.ihu_interval > 0 /\ n'.ihu_age + due' <= Lag + IhuLimit
          <5>1. ~t.rc
            BY <3>5, <4>2, LinkAssumption
          <5>2. n'.ihu_interval > 0 /\ n'.ihu_age <= IhuLimit
            BY <3>2, <3>4, <3>5, <4>2, <5>1
          <5> QED
            BY <3>6, <3>8, <5>2, BoundsFact
        <4> QED
          BY <3>5, <3>8, <4>1, <4>2 DEF OnTime
      <3>10. Counted(n', silence')
        BY <3>1, <3>2, <3>3, <3>5 DEF Counted
      <3>11. ASSUME Known PROVE Known'
        <4>1. CASE r.rc \/ t.rc
          BY <3>1, <4>1 DEF Tell, Known
        <4>2. CASE ~(r.rc \/ t.rc)
          <5>1. n' = n
            BY <3>2, <3>5, <4>2
          <5> QED
            BY <3>1, <3>11, <4>2, <5>1 DEF Tell, Known
        <4> QED
          BY <4>1, <4>2
      <3> QED
        BY <1>1, <3>1, <3>5, <3>8, <3>9, <3>10, <3>11 DEF IInv, NeighOK
    <2> QED
      BY <2>2, <2>3
  <1> QED
    BY <1>3, <1>4

-----------------------------------------------------------------------------
(* The theorems. *)

\* At the start there is no neighbour.
LEMMA InitFact ==
  ASSUME Init
  PROVE  IInv /\ Known
  <1>1. n = Gone /\ silence = 0 /\ told = INFINITY /\ due \in About(MaxCheck)
        /\ peer \in [interval : Intervals, age : {0}]
    BY DEF Init
  <1>2. due \in Nat /\ due <= Late(MaxCheck)
    BY <1>1, LateFact, LinkAssumption
  <1> QED
    BY <1>1, <1>2, GoneFact DEF IInv, Known

\* Every step keeps the invariant, and when hellos are frequent the routes
\* know the cost.
LEMMA NextFact ==
  ASSUME IInv, [Next]_vars
  PROVE  IInv' /\ (Frequent /\ Known => Known')
  <1>1. CASE UNCHANGED vars
    BY <1>1 DEF vars, IInv, Known
  <1>2. CASE Settle
    BY <1>2 DEF Settle, IInv, Known
  <1>3. CASE PeerHello
    BY <1>3, HelloSteps
  <1>4. CASE Check
    BY <1>4, CheckStep
  <1>5. CASE Tick
    BY <1>5, TickStep
  <1>6. CASE \E back \in 0 .. Window : LateHello(back)
    BY <1>6, HelloSteps
  <1>7. CASE \E c \in {ifcost, INFINITY} : Ihu(c)
    BY <1>7, IhuStep
  <1>8. CASE \E j \in Jumps, i \in Intervals : PeerStarts(j, i)
    BY <1>8, HelloSteps
  <1> QED
    BY <1>1, <1>2, <1>3, <1>4, <1>5, <1>6, <1>7, <1>8 DEF Next

\* The invariant gives the bound on silence.
LEMMA SilenceFact ==
  ASSUME IInv, n.hello_interval > 0
  PROVE  \E k \in 0 .. W - 1 :
           /\ n.reach \subseteq k + 1 .. W
           /\ 10 * silence <= (17 + 10 * k) * Slowest + 10 * Lag
  <1> DEFINE i == n.hello_interval
             l == Late(i)
             h == n.hello_age
  <1>1. PICK k \in 0 .. W - 1 : silence = h + k * i /\ n.reach \subseteq k + 1 .. W
    BY DEF IInv, NeighOK, Counted
  <1>2. i \in Nat /\ i <= Slowest /\ h \in Nat /\ due \in Nat
    BY NeighFact, SlowestFact DEF IInv, NeighOK
  <1>3. 10 * (h + due) <= 17 * i + 10 * l
    BY DEF IInv, NeighOK, OnTime
  <1> HIDE DEF i, h
  <1>4. l \in Nat /\ l <= Lag
    BY <1>2, LateFact, BoundsFact, SlowestFact
  <1> HIDE DEF l
  <1>5. Slowest \in Nat /\ Lag \in Nat /\ k \in Nat
    BY SlowestFact, BoundsFact, LinkAssumption
  <1>6. k * i \in Nat /\ k * Slowest \in Nat /\ k * i <= k * Slowest
    BY <1>2, <1>5
  <1>7. 10 * silence <= 17 * Slowest + 10 * (k * Slowest) + 10 * Lag
    <2> DEFINE a == k * i
               b == k * Slowest
    <2>1. a \in Nat /\ b \in Nat /\ a <= b /\ silence = h + a
      BY <1>1, <1>6
    <2> HIDE DEF a, b
    <2>2. 10 * silence <= 17 * Slowest + 10 * b + 10 * Lag
      BY <1>2, <1>3, <1>4, <1>5, <2>1
    <2> QED
      BY <2>2 DEF b
  <1>8. (17 + 10 * k) * Slowest = 17 * Slowest + 10 * (k * Slowest)
    BY <1>5
  <1> QED
    BY <1>1, <1>7, <1>8

\* The state that check_neighbours, the hellos and the IHUs keep: the next check
\* is in time, and the silence is accounted for.
THEOREM NeighbourSound == Spec => []IInv
  <1>1. Init => IInv
    BY InitFact
  <1>2. IInv /\ [Next]_vars => IInv'
    BY NextFact
  <1> QED
    BY <1>1, <1>2, PTL DEF Spec

\* A neighbour that has gone silent is flushed by the check that follows its
\* last missed hello, whatever the link loses, delays and repeats.
THEOREM SilenceEnds == Spec => []SilentIsFlushed
  <1>1. IInv => SilentIsFlushed
    <2> SUFFICES ASSUME IInv, n.hello_interval > 0
                 PROVE  10 * silence <= (10 * W + 7) * Slowest + 10 * Lag
      BY DEF SilentIsFlushed
    <2>1. PICK k \in 0 .. W - 1 : 10 * silence <= (17 + 10 * k) * Slowest + 10 * Lag
      BY SilenceFact
    <2>2. k \in Nat /\ W \in Nat /\ 17 + 10 * k <= 10 * W + 7 /\ Slowest \in Nat /\ Lag \in Nat
          /\ silence \in Nat
      BY LinkAssumption, SlowestFact, BoundsFact DEF IInv
    <2>3. (17 + 10 * k) * Slowest <= (10 * W + 7) * Slowest
      BY <2>2
    <2> QED
      BY <2>1, <2>2, <2>3
  <1> QED
    BY <1>1, NeighbourSound, PTL

\* When hellos come often enough for the limit of three minutes, every
\* change of the neighbour's cost is told to the routes.
THEOREM CostIsTold ==
  ASSUME Frequent
  PROVE  Spec => []RoutesKnowCost
  <1>1. Init => IInv /\ Known
    BY InitFact
  <1>2. (IInv /\ Known) /\ [Next]_vars => (IInv /\ Known)'
    BY NextFact
  <1>3. IInv /\ Known => RoutesKnowCost
    BY DEF Known, RoutesKnowCost
  <1> QED
    BY <1>1, <1>2, <1>3, PTL DEF Spec

\* Then routes do not use the neighbour longer than its hellos and IHUs last.
THEOREM CostExpires ==
  ASSUME Frequent
  PROVE  Spec => []CostIsFresh
  <1>1. Init => IInv /\ Known
    BY InitFact
  <1>2. (IInv /\ Known) /\ [Next]_vars => (IInv /\ Known)'
    BY NextFact
  <1>3. IInv /\ Known => CostIsFresh
    <2> SUFFICES ASSUME IInv, Known, told < INFINITY
                 PROVE  /\ 10 * silence <= 27 * Slowest + 10 * Lag
                        /\ n.ihu_age <= Lag + IhuLimit
      BY DEF CostIsFresh
    <2>1. n \in Neigh /\ NeighOK(n, due, silence) /\ due \in Nat
      BY DEF IInv, NeighOK
    <2>2. n.txcost < INFINITY /\ (1 \in n.reach \/ 2 \in n.reach)
      BY <2>1, RxcostFact DEF Known
    <2>3. n.hello_interval > 0
      BY <2>1, <2>2, NeighFact DEF NeighOK, Counted
    <2>4. PICK k \in 0 .. W - 1 :
            /\ n.reach \subseteq k + 1 .. W
            /\ 10 * silence <= (17 + 10 * k) * Slowest + 10 * Lag
      BY <2>3, SilenceFact
    <2>5. k \in Nat /\ k <= 1 /\ silence \in Nat /\ Slowest \in Nat /\ Lag \in Nat
          /\ IhuLimit \in Nat
      <3>1. 1 \in k + 1 .. W \/ 2 \in k + 1 .. W
        BY <2>2, <2>4
      <3> QED
        BY <3>1, LinkAssumption, SlowestFact, BoundsFact DEF IInv
    <2>6. 10 * silence <= 27 * Slowest + 10 * Lag
      <3>1. CASE k = 0
        BY <2>4, <2>5, <3>1
      <3>2. CASE k = 1
        BY <2>4, <2>5, <3>2
      <3> QED
        BY <2>5, <3>1, <3>2
    <2>7. n.ihu_age + due <= Lag + IhuLimit /\ n.ihu_age \in Nat
      BY <2>1, <2>2, NeighFact DEF NeighOK, OnTime
    <2> QED
      BY <2>1, <2>5, <2>6, <2>7
  <1> QED
    BY <1>1, <1>2, <1>3, PTL DEF Spec

=============================================================================
