-------------------------------- MODULE Link --------------------------------
(***************************************************************************)
(* A neighbour of one interface: its history of hellos (reach), the cost   *)
(* it announces with IHUs, the periodic check, and the cost that routes    *)
(* through it are given.  Hellos may be lost, duplicated, delayed and      *)
(* reordered, the peer may reboot and change its interval.                 *)
(*                                                                         *)
(* Time is counted in ticks.  The sequence numbers of hellos are relative  *)
(* to the last one the peer sent, so seqno is hello_seqno minus that.      *)
(* reach is the set of its bits that are 1; bit 1 is the highest, of the   *)
(* latest hello.                                                           *)
(***************************************************************************)
EXTENDS Integers, FiniteSets

CONSTANTS
  W,            \* bits of reach, 16 in the code
  Low,          \* the bits of reach that 0xFFF0 leaves out, 4 in the code
  IntWidth,     \* bits of an int: shifts by more are undefined
  Intervals,    \* hello intervals of the peer, in ticks
  MaxDelay,     \* hellos older than 180 s count for nothing
  MaxSilence,   \* 300 s
  MaxCheck,     \* 50 s
  Jumps,        \* how far the peer's seqno moves when it reboots
  Window,       \* bound: how many hellos a delayed one may be behind
  ifcost,       \* ifp->cost
  INFINITY,
  Unknown       \* hello_seqno = -1

ASSUME LinkAssumption ==
  /\ W \in Nat /\ W >= 6 /\ Low \in 0 .. W - 3
  /\ IntWidth \in Nat /\ IntWidth >= W
  /\ Intervals \subseteq Nat \ {0}
  /\ \E i \in Intervals : \A j \in Intervals : j <= i
  /\ MaxDelay \in Nat /\ MaxSilence \in Nat
  /\ MaxCheck \in Nat \ {0} /\ 2 * MaxCheck <= MaxDelay
  /\ Jumps \subseteq Int /\ Window \in Nat
  /\ ifcost \in Nat /\ INFINITY \in Nat
  /\ Unknown \notin Int

VARIABLES
  n,       \* the neighbour
  told,    \* the cost that update_route_metric last used
  due,     \* ticks until check_neighbours_timeout
  peer,    \* the peer: its hello interval, ticks since its last hello
  lossy,   \* the link loses or delays what it likes
  silence  \* ticks since a hello arrived

vars == <<n, told, due, peer, lossy, silence>>

-----------------------------------------------------------------------------
(* Costs.                                                                  *)

Bits == 1 .. W
Recent == 1 .. W - Low

neighbour_rxcost(x) ==
  IF /\ x.reach \cap Recent # {} /\ x.hello_age < MaxDelay
     /\ \/ {1, 2} \subseteq x.reach
        \/ {1, 2} \cap x.reach # {} /\ 3 \in x.reach
  THEN ifcost ELSE INFINITY

\* On an interface without link quality estimation and RTTs.
neighbour_cost(x) ==
  IF x.txcost >= INFINITY \/ neighbour_rxcost(x) >= INFINITY
  THEN INFINITY ELSE x.txcost

-----------------------------------------------------------------------------
(* The neighbour.  An operation returns the set of [n, rc] it may lead to. *)

Gone == [present |-> FALSE, reach |-> {}, seqno |-> Unknown, hello_age |-> 0,
         hello_interval |-> 0, txcost |-> INFINITY, ihu_age |-> 0,
         ihu_interval |-> 0]

find_neighbour(x) == IF x.present THEN x ELSE [Gone EXCEPT !.present = TRUE]

\* reach >>= missed: undefined from IntWidth on, and then the processor uses
\* the count modulo IntWidth.
ShiftRight(reach, missed) ==
  LET by(m) == {k + m : k \in reach} \cap Bits
  IN  IF missed < IntWidth THEN {by(missed)} ELSE {{}, by(missed % IntWidth)}

ShiftLeft(reach, m) == {k - m : k \in reach} \cap Bits

Missing(x, missed) ==
  IF missed <= 0 THEN {x}
  ELSE {[x EXCEPT !.reach = r, !.seqno = @ + missed] :
          r \in ShiftRight(x.reach, missed)}

\* Mutant of Forward: the hellos missed so far are forgotten.
ToNow(x, missed) == [x EXCEPT !.hello_age = 0]

\* hello_time moves by the intervals that were missed.
Forward(x, missed) == [x EXCEPT !.hello_age = @ - missed * x.hello_interval]

\* Mutant of Expired: the neighbour's cost changed, the routes do not hear of it.
Unnoticed(x) == [n |-> x, rc |-> FALSE]

Expired(x) == [n |-> x, rc |-> TRUE]

\* update_neighbour(neigh, -1, 0).
Expire(x) ==
  LET i == x.hello_interval
      missed == IF i <= 0 THEN 0 ELSE (10 * x.hello_age - 7 * i) \div (10 * i)
  IN  IF missed <= 0 THEN {[n |-> x, rc |-> FALSE]}
      ELSE {Expired(y) : y \in Missing(Forward(x, missed), missed)}

\* Mutant of Changed: a new hello by itself changes nothing.
OnlyWhenMissed(missed, reach) == missed # 0

\* What update_neighbour returns.
Changed(missed, reach) == missed # 0 \/ ~(1 .. 6 \subseteq reach)

\* The end of update_neighbour, for a hello that counts.
Count(x, seqno) ==
  [x EXCEPT !.seqno = seqno, !.reach = {1} \cup ({k + 1 : k \in @} \cap Bits)]

\* update_neighbour(neigh, hello, interval).
update_neighbour(x, seqno, interval) ==
  LET missed == IF x.seqno = Unknown \/ x.reach = {} THEN 0
                ELSE seqno - x.seqno - 1
      y == [x EXCEPT !.hello_age = 0, !.hello_interval = interval]
      rebooted == missed < -8
      late == ~rebooted /\ missed < 0
      slower == late /\ interval > x.hello_interval
      base == IF rebooted THEN {[y EXCEPT !.reach = {}]}
              ELSE IF slower
              THEN {[y EXCEPT !.reach = ShiftLeft(@, -missed)]}
              ELSE Missing(y, missed)
      after == IF late /\ ~slower THEN {[y EXCEPT !.seqno = seqno]}
               ELSE {Count(z, seqno) : z \in base}
  IN  {[n |-> z, rc |-> Changed(missed, z.reach)] : z \in after}

\* Mutant of reset_txcost: an IHU is good for ever while hellos arrive.
NeverReset(x) == [n |-> x, rc |-> FALSE]

reset_txcost(x) ==
  IF \/ x.ihu_interval > 0 /\ x.ihu_age < 3 * x.ihu_interval
     \/ /\ x.ihu_age < MaxDelay /\ x.reach \cap Recent # {}
        /\ x.ihu_interval > 0 => x.ihu_age < 10 * x.ihu_interval
  THEN [n |-> x, rc |-> FALSE]
  ELSE [n |-> [x EXCEPT !.txcost = INFINITY, !.ihu_age = 0], rc |-> TRUE]

-----------------------------------------------------------------------------
(* What happens.                                                           *)

\* schedule_neighbours_check with about 3/2 of m ticks, give or take a quarter.
About(m) == (9 * m) \div 8 + 1 .. (15 * m) \div 8 + 1
Earlier(a, b) == IF a < b THEN a ELSE b
Least(S) == CHOOSE a \in S : \A b \in S : a <= b

\* update_neighbour_metric.
Tell(x, changed) == told' = IF changed THEN neighbour_cost(x) ELSE told

Init ==
  /\ n = Gone /\ told = INFINITY /\ due \in About(MaxCheck)
  /\ peer \in [interval : Intervals, age : {0}]
  /\ lossy = TRUE /\ silence = 0

\* A hello of seqno arrives with the packet that carries it.
Hear(seqno, interval, x) ==
  \E r \in update_neighbour(find_neighbour(x), seqno, interval) :
  \E d \in About(interval) :
    /\ n' = r.n /\ Tell(r.n, r.rc) /\ due' = Earlier(due, d) /\ silence' = 0

\* The sequence numbers are relative to the last hello, which is a new one.
Shifted(x, k) == IF x.seqno = Unknown THEN x ELSE [x EXCEPT !.seqno = @ - k]

\* The peer's timer: a hello that arrives, or is lost if the link is lossy.
PeerHello ==
  /\ peer.age = peer.interval
  /\ peer' = [peer EXCEPT !.age = 0]
  /\ \/ Hear(0, peer.interval, Shifted(n, 1))
     \/ /\ lossy /\ n' = Shifted(n, 1) /\ UNCHANGED <<told, due, silence>>
  /\ UNCHANGED lossy

\* One of the last hellos arrives late, or once more.
LateHello(back) ==
  /\ lossy
  /\ Hear(-back, peer.interval, n) /\ UNCHANGED <<peer, lossy>>

\* An IHU arrives; the peer sends one for every third hello.
\* If nothing is lost, it is in time.
Ihu(txcost) ==
  /\ ~lossy => txcost < INFINITY /\ n.ihu_age >= 3 * peer.interval
  /\ LET x == find_neighbour(n)
         y == [x EXCEPT !.txcost = txcost, !.ihu_age = 0,
                        !.ihu_interval = 3 * peer.interval]
     IN  /\ n' = y /\ Tell(y, txcost # x.txcost)
         /\ due' \in {Earlier(due, d) : d \in About(9 * peer.interval)}
  /\ UNCHANGED <<peer, lossy, silence>>

\* check_neighbours, and the main loop that schedules the next one.
Check ==
  /\ due = 0
  /\ IF ~n.present
     THEN /\ due' \in About(MaxCheck) /\ UNCHANGED <<n, told, silence>>
     ELSE \E r \in Expire(n) :
       IF r.n.reach = {} \/ r.n.hello_age > MaxSilence
       THEN /\ n' = Gone /\ told' = INFINITY /\ silence' = 0
            /\ due' \in About(MaxCheck)
       ELSE LET t == reset_txcost(r.n)
            IN  /\ n' = t.n /\ Tell(t.n, r.rc \/ t.rc) /\ UNCHANGED silence
                /\ due' \in About(Least({MaxCheck}
                     \cup ({t.n.hello_interval, t.n.ihu_interval} \ {0})))
  /\ UNCHANGED <<peer, lossy>>

Tick ==
  /\ due > 0
  /\ peer.age < peer.interval
  /\ ~lossy => n.ihu_age < 3 * peer.interval
  /\ due' = due - 1
  /\ peer' = [peer EXCEPT !.age = @ + 1]
  /\ n' = IF n.present THEN [n EXCEPT !.hello_age = @ + 1, !.ihu_age = @ + 1]
          ELSE n
  /\ silence' = IF n.hello_interval > 0 THEN silence + 1 ELSE 0
  /\ UNCHANGED <<told, lossy>>

\* The peer starts again with another seqno, or with another interval, and its
\* first hello arrives: until it does, it is a peer whose hellos are lost.
PeerStarts(jump, interval) ==
  /\ lossy /\ peer' = [interval |-> interval, age |-> 0]
  /\ Hear(0, interval, Shifted(n, jump)) /\ UNCHANGED lossy

\* From some moment on the link loses nothing.
Settle == /\ lossy /\ lossy' = FALSE
          /\ UNCHANGED <<n, told, due, peer, silence>>

Next ==
  \/ PeerHello \/ Check \/ Tick \/  Settle
  \/ \E back \in 0 .. Window : LateHello(back)
  \/ \E c \in {ifcost, INFINITY} : Ihu(c)
  \/ \E j \in Jumps, i \in Intervals : PeerStarts(j, i)

Fairness == /\ WF_vars(Tick) /\ WF_vars(Check) /\ WF_vars(PeerHello)
            /\ WF_vars(\E c \in {ifcost} : Ihu(c))

Spec == Init /\ [][Next]_vars /\ Fairness

-----------------------------------------------------------------------------

Slowest == CHOOSE i \in Intervals : \A j \in Intervals : j <= i

\* How late the check comes: about 3/2 of an interval, rounded up to ticks.
Lag == (15 * Slowest) \div 8 + 1

\* How old an IHU may be when it is checked.
IhuLimit == IF MaxDelay < 9 * Slowest THEN 9 * Slowest
            ELSE Earlier(MaxDelay, 30 * Slowest)

\* A neighbour that has gone silent is flushed: once all W hellos of its history
\* have been missed, the next check finds reach empty, however hellos were lost,
\* reordered or counted before.
SilentIsFlushed == n.present /\ n.hello_interval > 0 =>
  10 * silence <= (10 * W + 7) * Slowest + 10 * Lag

\* Routes do not use a neighbour with a finite cost for longer than it takes to
\* miss two hellos, nor without an IHU in the last ten IHU intervals
\* or three minutes, but at least three IHU intervals.
CostIsFresh == told < INFINITY =>
  /\ 10 * silence <= 27 * Slowest + 10 * Lag
  /\ n.ihu_age <= Lag + IhuLimit

\* Whatever path changes reach, txcost or the times, the routes through the
\* neighbour are told: the cost they use is the neighbour's cost.
RoutesKnowCost == n.present => told = neighbour_cost(n)

\* Once the peer runs and nothing is lost any more, the link becomes usable and
\* stays so, whatever reach, the expected seqno and the timers were.
Recovers == <>[](~lossy) => <>[](told < INFINITY)

=============================================================================
