---------------------------- MODULE NetlinkProofs ----------------------------
(***************************************************************************)
(* A theorem of Netlink: answers belong to their requests, whatever is     *)
(* left on the command socket by exchanges that were broken off and        *)
(* whatever others send to it.                                             *)
(*                                                                         *)
(* Sequence numbers are reused, so an old answer could pass for a new one. *)
(* It cannot, because an exchange that is not broken off reads all that    *)
(* was there before it, and each that is broken off costs a fault: no      *)
(* answer is further behind than there were faults, those to come by       *)
(* foreign messages still on the socket included (Ledger).                 *)
(***************************************************************************)
EXTENDS Netlink, TLAPS

Message ==
  {Foreign} \cup [is : {"row"}, seq : Nat, table : Tables, has : Int]
  \cup [is : {"done"}, seq : Nat] \cup [is : {"ack"}, seq : Nat, ok : BOOLEAN]

Seqnos == 0 .. SeqMod - 1

Job ==
  {Idle} \cup [kind : {"talk"}, did : BOOLEAN]
  \cup [kind : {"dump"}, at : DOMAIN Dumped, sent : BOOLEAN, rows : Nat,
        has : Int, asked : Int]

\* The exchange has sent its request and reads.
Waiting(j) == j.kind = "talk" \/ (j.kind = "dump" /\ j.sent)

\* How many requests have been numbered since number a, when the last is s.
Back(s, a) == IF a <= s THEN s - a ELSE s - a + SeqMod

\* The answers in q are at most lo requests behind, w of which is still to come,
\* and are in the order of their requests.
Recent(q, s, w, lo) ==
  /\ \A i \in DOMAIN q : q[i] # Foreign =>
       q[i].seq \in Seqnos /\ Back(s, q[i].seq) + w <= lo
  /\ \A i, j \in DOMAIN q : i < j /\ q[i] # Foreign /\ q[j] # Foreign =>
       Back(s, q[j].seq) <= Back(s, q[i].seq)

\* Of f faults lo have broken off an exchange, and each foreign message in q is
\* one of the others.
Ledger(q, lo, f) ==
  /\ lo <= f
  /\ \E g :
       \A i \in DOMAIN q : q[i] = Foreign =>
         /\ g[i] \in Nat /\ lo < g[i] /\ g[i] <= f
         /\ \A j \in DOMAIN q : i < j /\ q[j] = Foreign => g[i] < g[j]

Paid(q, s, w, f) == \E lo \in Nat : Recent(q, s, w, lo) /\ Ledger(q, lo, f)

\* Message m is what exchange j may be answered.
Answers(j, m) ==
  IF j.kind = "talk" THEN m.is = "ack" /\ m.ok = j.did
  ELSE m.is = "done" \/ (m.is = "row" /\ m.has = j.asked)

\* What has the number of exchange j answers it, and nothing but foreign
\* messages follows the last answer.
Answered(q, s, j) ==
  \A i \in DOMAIN q : q[i] # Foreign /\ q[i].seq = s =>
    /\ Answers(j, q[i])
    /\ q[i].is # "row" => \A k \in DOMAIN q : i < k => q[k] = Foreign

TypesOK ==
  /\ answers \in Seq(Message) /\ seqno \in Seqnos /\ job \in Job
  /\ faults \in 0 .. MaxFaults
  /\ seen \in [Tables -> Int] /\ table \in [Tables -> Int]

IInv ==
  /\ TypesOK
  /\ Paid(answers, seqno, IF Waiting(job) THEN 0 ELSE 1, faults)
  /\ Waiting(job) => Answered(answers, seqno, job)
  /\ job.kind = "dump" /\ job.rows > 0 => job.sent /\ job.has = job.asked
  /\ verdict.said => verdict.did

\* What AnswersAreOwn says of a step.
Own ==
  \A t \in Tables : seen'[t] # seen[t] =>
    seen'[t] = Torn \/ (Dumped[job.at] = t /\ seen'[t] >= job.asked)

-----------------------------------------------------------------------------
(* Sequence numbers. *)

\* A new request leaves all numbers one further behind.
LEMMA BackFact ==
  ASSUME NEW s \in Seqnos
  PROVE  LET n == (s + 1) % SeqMod
         IN  /\ n \in Seqnos /\ Back(n, n) = 0
             /\ \A a \in Seqnos :
                  /\ Back(s, a) \in Nat /\ (Back(s, a) = 0 <=> a = s)
                  /\ Back(s, a) + 1 < SeqMod => Back(n, a) = Back(s, a) + 1
  <1> DEFINE n == (s + 1) % SeqMod
  <1>1. s \in Nat /\ SeqMod \in Nat /\ s < SeqMod /\ SeqMod > 0
    BY NetlinkAssumption DEF Seqnos
  <1>2. n = IF s + 1 = SeqMod THEN 0 ELSE s + 1
    <2>1. CASE s + 1 = SeqMod
      BY <1>1, <2>1
    <2>2. CASE s + 1 # SeqMod
      BY <1>1, <2>2
    <2> QED
      BY <2>1, <2>2
  <1> HIDE DEF n
  <1>3. n \in Seqnos /\ Back(n, n) = 0
    BY <1>1, <1>2 DEF Seqnos, Back
  <1>4. ASSUME NEW a \in Seqnos
        PROVE  /\ Back(s, a) \in Nat /\ (Back(s, a) = 0 <=> a = s)
               /\ Back(s, a) + 1 < SeqMod => Back(n, a) = Back(s, a) + 1
    BY <1>1, <1>2, <1>4 DEF Seqnos, Back
  <1> QED
    BY <1>3, <1>4 DEF n

-----------------------------------------------------------------------------
(* The command socket. *)

\* The rest of a queue.
LEMMA TailFact ==
  ASSUME NEW q \in Seq(Message), q # << >>
  PROVE  /\ Tail(q) \in Seq(Message) /\ Head(q) = q[1] /\ q[1] \in Message
         /\ 1 \in DOMAIN q
         /\ \A i \in DOMAIN Tail(q) :
              i \in Nat /\ i + 1 \in DOMAIN q /\ Tail(q)[i] = q[i + 1] /\ 1 < i + 1
  OBVIOUS


\* Whatever is in the rest of a queue was in the queue, in that order.
LEMMA RestFact ==
  ASSUME NEW q \in Seq(Message), q # << >>, NEW s, NEW w, NEW lo, Recent(q, s, w, lo)
  PROVE  Recent(Tail(q), s, w, lo)
  <1> DEFINE u == Tail(q)
  <1>1. \A i \in DOMAIN u : i \in Nat /\ i + 1 \in DOMAIN q /\ u[i] = q[i + 1]
    BY TailFact
  <1> HIDE DEF u
  <1>2. ASSUME NEW i \in DOMAIN u, u[i] # Foreign
        PROVE  u[i].seq \in Seqnos /\ Back(s, u[i].seq) + w <= lo
    <2>1. i + 1 \in DOMAIN q /\ u[i] = q[i + 1]
      BY <1>1
    <2> QED
      BY <1>2, <2>1 DEF Recent
  <1>3. ASSUME NEW i \in DOMAIN u, NEW j \in DOMAIN u, i < j,
               u[i] # Foreign, u[j] # Foreign
        PROVE  Back(s, u[j].seq) <= Back(s, u[i].seq)
    <2>1. i + 1 \in DOMAIN q /\ u[i] = q[i + 1] /\ j + 1 \in DOMAIN q /\ u[j] = q[j + 1]
      BY <1>1
    <2>2. i + 1 < j + 1
      BY <1>1, <1>3
    <2> QED
      BY <1>3, <2>1, <2>2 DEF Recent
  <1>4. Recent(u, s, w, lo)
    BY <1>2, <1>3 DEF Recent
  <1> QED
    BY <1>4 DEF u

\* The foreign messages in the rest of a queue are accounted for; and one more,
\* when the queue began with one.
LEMMA RestLedgerFact ==
  ASSUME NEW q \in Seq(Message), q # << >>, NEW lo \in Nat, NEW f \in Nat,
         Ledger(q, lo, f)
  PROVE  Ledger(Tail(q), lo, f) /\ (q[1] = Foreign => Ledger(Tail(q), lo + 1, f))
  <1> DEFINE u == Tail(q)
  <1>1. PICK g :
          \A i \in DOMAIN q : q[i] = Foreign =>
            /\ g[i] \in Nat /\ lo < g[i] /\ g[i] <= f
            /\ \A j \in DOMAIN q : i < j /\ q[j] = Foreign => g[i] < g[j]
    BY DEF Ledger
  <1>2. /\ 1 \in DOMAIN q
        /\ \A i \in DOMAIN u :
             i \in Nat /\ i + 1 \in DOMAIN q /\ u[i] = q[i + 1] /\ 1 < i + 1
    BY TailFact
  <1> HIDE DEF u
  <1> DEFINE h == [i \in Nat |-> g[i + 1]]
  <1>4. \A i \in DOMAIN u : h[i] = g[i + 1]
    BY <1>2
  <1> HIDE DEF h
  <1>5. ASSUME NEW i \in DOMAIN u, u[i] = Foreign
        PROVE  /\ h[i] \in Nat /\ lo < h[i] /\ h[i] <= f
               /\ q[1] = Foreign => lo + 1 < h[i] /\ lo + 1 <= f
               /\ \A j \in DOMAIN u : i < j /\ u[j] = Foreign => h[i] < h[j]
    <2>1. i + 1 \in DOMAIN q /\ q[i + 1] = Foreign /\ h[i] = g[i + 1]
      BY <1>2, <1>4, <1>5
    <2>2. h[i] \in Nat /\ lo < h[i] /\ h[i] <= f
      BY <1>1, <2>1
    <2>3. q[1] = Foreign => g[1] \in Nat /\ lo < g[1] /\ g[1] < h[i]
      BY <1>1, <1>2, <2>1
    <2>5. ASSUME NEW j \in DOMAIN u, i < j, u[j] = Foreign PROVE h[i] < h[j]
      <3>1. j + 1 \in DOMAIN q /\ q[j + 1] = Foreign /\ h[j] = g[j + 1]
        BY <1>2, <1>4, <2>5
      <3>2. i + 1 < j + 1
        BY <1>2, <2>5
      <3> QED
        BY <1>1, <2>1, <3>1, <3>2
    <2>6. q[1] = Foreign => lo + 1 < h[i] /\ lo + 1 <= f
      BY <2>2, <2>3
    <2> QED
      BY <2>1, <2>2, <2>5, <2>6
  <1>6. q[1] = Foreign => lo + 1 <= f
    <2>1. q[1] = Foreign => g[1] \in Nat /\ lo < g[1] /\ g[1] <= f
      BY <1>1, <1>2
    <2> QED
      BY <2>1
  <1>10. lo <= f
    BY DEF Ledger
  <1>7. Ledger(u, lo, f)
    BY <1>5, <1>10 DEF Ledger
  <1>8. q[1] = Foreign => Ledger(u, lo + 1, f)
    BY <1>5, <1>6 DEF Ledger
  <1> QED
    BY <1>7, <1>8 DEF u

\* What was read is no longer there; when it was foreign, the exchange that has
\* read it is broken off.
LEMMA ReadFact ==
  ASSUME NEW q \in Seq(Message), q # << >>, NEW s \in Seqnos, NEW f \in Nat,
         Paid(q, s, 0, f)
  PROVE  Paid(Tail(q), s, 0, f) /\ (q[1] = Foreign => Paid(Tail(q), s, 1, f))
  <1>1. PICK lo \in Nat : Recent(q, s, 0, lo) /\ Ledger(q, lo, f)
    BY DEF Paid
  <1>2. Recent(Tail(q), s, 0, lo) /\ Ledger(Tail(q), lo, f)
        /\ (q[1] = Foreign => Ledger(Tail(q), lo + 1, f))
    BY <1>1, RestFact, RestLedgerFact
  <1>3. Recent(Tail(q), s, 1, lo + 1)
    <2> DEFINE u == Tail(q)
    <2>1. Recent(u, s, 0, lo)
      BY <1>2
    <2> HIDE DEF u
    <2>2. ASSUME NEW i \in DOMAIN u, u[i] # Foreign
          PROVE  u[i].seq \in Seqnos /\ Back(s, u[i].seq) + 1 <= lo + 1
      <3>1. u[i].seq \in Seqnos /\ Back(s, u[i].seq) + 0 <= lo
        BY <2>1, <2>2 DEF Recent
      <3>2. Back(s, u[i].seq) \in Nat
        BY <3>1, BackFact
      <3> QED
        BY <3>1, <3>2
    <2>3. Recent(u, s, 1, lo + 1)
      BY <2>1, <2>2 DEF Recent
    <2> QED
      BY <2>3 DEF u
  <1>4. lo + 1 \in Nat
    OBVIOUS
  <1> QED
    BY <1>1, <1>2, <1>3, <1>4 DEF Paid

\* When only foreign messages are left, nothing is behind.
LEMMA DrainedFact ==
  ASSUME NEW q, NEW s, NEW f, Paid(q, s, 0, f), \A i \in DOMAIN q : q[i] = Foreign
  PROVE  Paid(q, s, 1, f)
  BY DEF Paid, Recent

\* A request that does not leave.
LEMMA LostFact ==
  ASSUME NEW q \in Seq(Message), NEW s \in Seqnos, NEW f \in Nat, f + 1 <= MaxFaults, Paid(q, s, 1, f)
  PROVE  Paid(q, (s + 1) % SeqMod, 1, f + 1)
  <1> DEFINE n == (s + 1) % SeqMod
  <1>1. PICK lo \in Nat : Recent(q, s, 1, lo) /\ Ledger(q, lo, f)
    BY DEF Paid
  <1>2. lo <= f /\ lo + 1 < SeqMod
    BY <1>1, NetlinkAssumption DEF Ledger
  <1>3. \A i \in DOMAIN q : q[i] # Foreign =>
          /\ q[i].seq \in Seqnos /\ Back(s, q[i].seq) \in Nat
          /\ Back(n, q[i].seq) = Back(s, q[i].seq) + 1
          /\ Back(n, q[i].seq) <= lo
    <2> SUFFICES ASSUME NEW i \in DOMAIN q, q[i] # Foreign
                 PROVE  /\ q[i].seq \in Seqnos /\ Back(s, q[i].seq) \in Nat
                        /\ Back(n, q[i].seq) = Back(s, q[i].seq) + 1
                        /\ Back(n, q[i].seq) <= lo
      OBVIOUS
    <2>1. q[i].seq \in Seqnos /\ Back(s, q[i].seq) + 1 <= lo
      BY <1>1 DEF Recent
    <2>2. Back(s, q[i].seq) \in Nat
      BY <2>1, BackFact
    <2>3. Back(s, q[i].seq) + 1 < SeqMod
      BY <1>2, <2>1, <2>2, NetlinkAssumption
    <2>4. Back(n, q[i].seq) = Back(s, q[i].seq) + 1
      BY <2>1, <2>3, BackFact
    <2> QED
      BY <2>1, <2>2, <2>4
  <1> HIDE DEF n
  <1>4. Recent(q, n, 1, lo + 1)
    <2>1. \A i \in DOMAIN q : q[i] # Foreign =>
            q[i].seq \in Seqnos /\ Back(n, q[i].seq) + 1 <= lo + 1
      BY <1>3
    <2>2. ASSUME NEW i \in DOMAIN q, NEW j \in DOMAIN q, i < j,
                 q[i] # Foreign, q[j] # Foreign
          PROVE  Back(n, q[j].seq) <= Back(n, q[i].seq)
      <3>1. Back(s, q[j].seq) <= Back(s, q[i].seq)
        BY <1>1, <2>2 DEF Recent
      <3> QED
        BY <1>3, <2>2, <3>1
    <2> QED
      BY <2>1, <2>2 DEF Recent
  <1>5. Ledger(q, lo + 1, f + 1)
    <2>1. PICK g :
            \A i \in DOMAIN q : q[i] = Foreign =>
              /\ g[i] \in Nat /\ lo < g[i] /\ g[i] <= f
              /\ \A j \in DOMAIN q : i < j /\ q[j] = Foreign => g[i] < g[j]
      BY <1>1 DEF Ledger
    <2> DEFINE h == [i \in DOMAIN q |-> g[i] + 1]
    <2>2. \A i \in DOMAIN q : h[i] = g[i] + 1
      OBVIOUS
    <2> HIDE DEF h
    <2>3. \A i \in DOMAIN q : q[i] = Foreign =>
            /\ h[i] \in Nat /\ lo + 1 < h[i] /\ h[i] <= f + 1
            /\ \A j \in DOMAIN q : i < j /\ q[j] = Foreign => h[i] < h[j]
      <3> SUFFICES ASSUME NEW i \in DOMAIN q, q[i] = Foreign
                   PROVE  /\ h[i] \in Nat /\ lo + 1 < h[i] /\ h[i] <= f + 1
                          /\ \A j \in DOMAIN q : i < j /\ q[j] = Foreign => h[i] < h[j]
        OBVIOUS
      <3>1. /\ g[i] \in Nat /\ lo < g[i] /\ g[i] <= f /\ h[i] = g[i] + 1
        BY <2>1, <2>2
      <3>2. ASSUME NEW j \in DOMAIN q, i < j, q[j] = Foreign PROVE h[i] < h[j]
        <4>1. g[j] \in Nat /\ g[i] < g[j] /\ h[j] = g[j] + 1
          BY <2>1, <2>2, <3>2
        <4> QED
          BY <3>1, <4>1
      <3> QED
        BY <3>1, <3>2
    <2>4. lo + 1 <= f + 1
      BY <1>2
    <2> QED
      BY <2>3, <2>4 DEF Ledger
  <1> QED
    BY <1>4, <1>5 DEF Paid, n

\* A request that leaves, and its answers.
LEMMA SentFact ==
  ASSUME NEW q \in Seq(Message), NEW s \in Seqnos, NEW f \in 0 .. MaxFaults,
         Paid(q, s, 1, f), NEW a \in Seq(Message), NEW j,
         \A i \in DOMAIN a : /\ a[i] # Foreign /\ a[i].seq = (s + 1) % SeqMod
                             /\ Answers(j, a[i]) /\ (a[i].is # "row" => i = Len(a))
  PROVE  /\ Paid(q \o a, (s + 1) % SeqMod, 0, f)
         /\ Answered(q \o a, (s + 1) % SeqMod, j)
  <1> DEFINE n == (s + 1) % SeqMod
             u == q \o a
             L == Len(q)
  <1>1. PICK lo \in Nat : Recent(q, s, 1, lo) /\ Ledger(q, lo, f)
    BY DEF Paid
  <1>2. lo <= f /\ lo < SeqMod
    BY <1>1, NetlinkAssumption DEF Ledger
  <1>3. n \in Seqnos /\ Back(n, n) = 0
    BY BackFact
  <1>4. \A i \in DOMAIN q : q[i] # Foreign =>
          /\ q[i].seq \in Seqnos /\ Back(n, q[i].seq) = Back(s, q[i].seq) + 1
          /\ Back(s, q[i].seq) \in Nat /\ Back(n, q[i].seq) <= lo /\ q[i].seq # n
    <2> SUFFICES ASSUME NEW i \in DOMAIN q, q[i] # Foreign
                 PROVE  /\ q[i].seq \in Seqnos /\ Back(n, q[i].seq) = Back(s, q[i].seq) + 1
                        /\ Back(s, q[i].seq) \in Nat /\ Back(n, q[i].seq) <= lo
                        /\ q[i].seq # n
      OBVIOUS
    <2>1. q[i].seq \in Seqnos /\ Back(s, q[i].seq) + 1 <= lo
      BY <1>1 DEF Recent
    <2>2. Back(s, q[i].seq) \in Nat
      BY <2>1, BackFact
    <2>3. Back(s, q[i].seq) + 1 < SeqMod
      BY <1>2, <2>1, <2>2, NetlinkAssumption
    <2>4. Back(n, q[i].seq) = Back(s, q[i].seq) + 1
      BY <2>1, <2>3, BackFact
    <2> HIDE DEF n
    <2>5. q[i].seq # n
      BY <1>3, <2>2, <2>4
    <2> QED
      BY <2>1, <2>2, <2>4, <2>5
  <1>5. /\ L \in Nat /\ DOMAIN q = 1 .. L
        /\ \A i \in DOMAIN u : i \in Nat /\
             \/ i \in DOMAIN q /\ u[i] = q[i]
             \/ i > L /\ i - L \in DOMAIN a /\ u[i] = a[i - L]
        /\ Len(u) = L + Len(a) /\ DOMAIN u = 1 .. Len(u) /\ Len(a) \in Nat
    OBVIOUS
  <1>6. \A i \in DOMAIN u : i > L =>
          /\ u[i] # Foreign /\ u[i].seq = n
          /\ Answers(j, u[i]) /\ (u[i].is # "row" => i = Len(u))
    <2> SUFFICES ASSUME NEW i \in DOMAIN u, i > L
                 PROVE  /\ u[i] # Foreign /\ u[i].seq = n
                        /\ Answers(j, u[i]) /\ (u[i].is # "row" => i = Len(u))
      OBVIOUS
    <2>1. i - L \in DOMAIN a /\ u[i] = a[i - L] /\ i \in Nat
      BY <1>5
    <2>2. /\ u[i] # Foreign /\ u[i].seq = n /\ Answers(j, u[i])
          /\ u[i].is # "row" => i - L = Len(a)
      BY <2>1
    <2> HIDE DEF u, L
    <2> QED
      BY <1>5, <2>1, <2>2
  <1>7. \A i \in DOMAIN u : ~(i > L) => i \in DOMAIN q /\ u[i] = q[i]
    BY <1>5
  <1> HIDE DEF n, u, L
  <1>8. Recent(u, n, 0, lo)
    <2>1. ASSUME NEW i \in DOMAIN u, u[i] # Foreign
          PROVE  u[i].seq \in Seqnos /\ Back(n, u[i].seq) + 0 <= lo
      <3>1. CASE i > L
        BY <1>3, <1>6, <2>1, <3>1
      <3>2. CASE ~(i > L)
        BY <1>4, <1>7, <2>1, <3>2
      <3> QED
        BY <3>1, <3>2
    <2>2. ASSUME NEW i \in DOMAIN u, NEW k \in DOMAIN u, i < k,
                 u[i] # Foreign, u[k] # Foreign
          PROVE  Back(n, u[k].seq) <= Back(n, u[i].seq)
      <3>1. CASE k > L
        <4>1. Back(n, u[k].seq) = 0
          BY <1>3, <1>6, <3>1
        <4>2. Back(n, u[i].seq) \in Nat
          BY <1>3, <2>1, <2>2, BackFact
        <4> QED
          BY <4>1, <4>2
      <3>2. CASE ~(k > L)
        <4>1. ~(i > L)
          BY <1>5, <2>2, <3>2
        <4>2. /\ i \in DOMAIN q /\ u[i] = q[i] /\ k \in DOMAIN q /\ u[k] = q[k]
          BY <1>7, <3>2, <4>1
        <4>3. Back(s, q[k].seq) <= Back(s, q[i].seq)
          BY <1>1, <2>2, <4>2 DEF Recent
        <4> QED
          BY <1>4, <2>2, <4>2, <4>3
      <3> QED
        BY <3>1, <3>2
    <2> QED
      BY <2>1, <2>2 DEF Recent
  <1>9. Ledger(u, lo, f)
    <2>1. \A i \in DOMAIN u : u[i] = Foreign => i \in DOMAIN q /\ u[i] = q[i]
      BY <1>6, <1>7
    <2> QED
      BY <1>1, <2>1 DEF Ledger
  <1>10. Answered(u, n, j)
    <2> SUFFICES ASSUME NEW i \in DOMAIN u, u[i] # Foreign, u[i].seq = n
                 PROVE  /\ Answers(j, u[i])
                        /\ u[i].is # "row" => \A k \in DOMAIN u : i < k => u[k] = Foreign
      BY DEF Answered
    <2>1. i > L
      BY <1>4, <1>7
    <2>2. \A k \in DOMAIN u : ~(Len(u) < k)
      BY <1>5
    <2> QED
      BY <1>6, <2>1, <2>2
  <1> QED
    BY <1>8, <1>9, <1>10 DEF Paid, n, u

\* A foreign message, which is a new fault.
LEMMA DisturbFact ==
  ASSUME NEW q \in Seq(Message), NEW s, NEW w, NEW f \in Nat, NEW j,
         Paid(q, s, w, f)
  PROVE  /\ Paid(Append(q, Foreign), s, w, f + 1)
         /\ Answered(q, s, j) => Answered(Append(q, Foreign), s, j)
  <1> DEFINE u == Append(q, Foreign)
             L == Len(q) + 1
  <1>1. PICK lo \in Nat : Recent(q, s, w, lo) /\ Ledger(q, lo, f)
    BY DEF Paid
  <1>2. /\ L \in Nat /\ u[L] = Foreign /\ DOMAIN u = 1 .. L /\ L \notin DOMAIN q
        /\ \A i \in DOMAIN u : i \in Nat /\ (i = L \/ (i \in DOMAIN q /\ u[i] = q[i] /\ i < L))
    OBVIOUS
  <1> HIDE DEF u, L
  <1>3. Recent(u, s, w, lo)
    BY <1>1, <1>2 DEF Recent
  <1>4. Answered(q, s, j) => Answered(u, s, j)
    BY <1>2 DEF Answered
  <1>5. Ledger(u, lo, f + 1)
    <2>1. PICK g :
            \A i \in DOMAIN q : q[i] = Foreign =>
              /\ g[i] \in Nat /\ lo < g[i] /\ g[i] <= f
              /\ \A k \in DOMAIN q : i < k /\ q[k] = Foreign => g[i] < g[k]
      BY <1>1 DEF Ledger
    <2>2. lo <= f
      BY <1>1 DEF Ledger
    <2> DEFINE h == [i \in DOMAIN u |-> IF i = L THEN f + 1 ELSE g[i]]
    <2>3. \A i \in DOMAIN u : h[i] = IF i = L THEN f + 1 ELSE g[i]
      OBVIOUS
    <2> HIDE DEF h
    <2>4. ASSUME NEW i \in DOMAIN u, u[i] = Foreign
          PROVE  /\ h[i] \in Nat /\ lo < h[i] /\ h[i] <= f + 1
                 /\ \A k \in DOMAIN u : i < k /\ u[k] = Foreign => h[i] < h[k]
      <3>1. CASE i = L
        <4>1. \A k \in DOMAIN u : ~(i < k)
          BY <1>2, <3>1
        <4>2. h[i] = f + 1
          BY <2>3, <2>4, <3>1
        <4> QED
          BY <2>2, <4>1, <4>2
      <3>2. CASE i # L
        <4>1. i \in DOMAIN q /\ q[i] = Foreign /\ h[i] = g[i]
          BY <1>2, <2>3, <2>4, <3>2
        <4>2. h[i] \in Nat /\ lo < h[i] /\ h[i] <= f
          BY <2>1, <4>1
        <4>3. ASSUME NEW k \in DOMAIN u, i < k, u[k] = Foreign PROVE h[i] < h[k]
          <5>1. CASE k = L
            <6>1. h[k] = f + 1
              BY <2>3, <5>1
            <6> QED
              BY <4>2, <6>1
          <5>2. CASE k # L
            <6>1. k \in DOMAIN q /\ q[k] = Foreign /\ h[k] = g[k]
              BY <1>2, <2>3, <4>3, <5>2
            <6> QED
              BY <2>1, <4>1, <4>3, <6>1
          <5> QED
            BY <5>1, <5>2
        <4> QED
          BY <4>2, <4>3
      <3> QED
        BY <3>1, <3>2
    <2>5. lo <= f + 1
      BY <2>2
    <2> QED
      BY <2>4, <2>5 DEF Ledger
  <1> QED
    BY <1>3, <1>4, <1>5 DEF Paid, u

-----------------------------------------------------------------------------
(* The actions. *)

\* Foreign messages have no number that could be a request's.
LEMMA MessageFact ==
  ASSUME NEW m \in Message
  PROVE  /\ Foreign \in Message /\ Foreign.seq \notin Nat
         /\ m # Foreign => m.seq \in Nat
  BY DEF Message, Foreign

\* What a step needs to keep the invariant, when it says nothing.
Keeps ==
  /\ TypesOK'
  /\ Paid(answers', seqno', IF Waiting(job') THEN 0 ELSE 1, faults')
  /\ Waiting(job') => Answered(answers', seqno', job')
  /\ job'.kind = "dump" /\ job'.rows > 0 => job'.sent /\ job'.has = job'.asked

\* The exchange that follows has not begun.
Fresh(j) == j \in Job /\ ~Waiting(j) /\ (j.kind = "dump" => j.rows = 0)

\* The dumps go on, or are over.
LEMMA ContinueFact ==
  ASSUME NEW k \in 2 .. 6, Continue(k)
  PROVE  Fresh(job')
  <1>1. Len(Dumped) = 5 /\ DOMAIN Dumped = 1 .. 5
    BY DEF Dumped
  <1>2. CASE k <= 5
    <2>1. job' = Step(k) /\ k \in DOMAIN Dumped
      BY <1>1, <1>2 DEF Continue
    <2> QED
      BY <2>1 DEF Step, Fresh, Job, Waiting, Torn
  <1>3. CASE k = 6
    <2>1. job' = Idle
      BY <1>1, <1>3 DEF Continue
    <2> QED
      BY <2>1 DEF Idle, Fresh, Job, Waiting
  <1> QED
    BY <1>2, <1>3

\* A dump that fails leaves no table but a torn one.
LEMMA FailedFact ==
  ASSUME TypesOK, job.kind = "dump", Failed
  PROVE  Fresh(job') /\ seen' \in [Tables -> Int] /\ Own
  <1>1. job.at \in 1 .. 5
    BY DEF TypesOK, Job, Idle, Dumped
  <1>2. \E k \in 2 .. 6 : Continue(k)
    BY <1>1 DEF Failed
  <1>3. /\ \A t \in Tables : seen'[t] \in {Torn, seen[t]}
        /\ seen' \in [Tables -> Int]
    BY DEF Failed, TypesOK, Torn
  <1> QED
    BY <1>2, <1>3, ContinueFact DEF Own

\* A dump that succeeds leaves what its rows carried.
LEMMA SucceededFact ==
  ASSUME TypesOK, job.kind = "dump", job.rows > 0 => job.has = job.asked, Succeeded
  PROVE  Fresh(job') /\ seen' \in [Tables -> Int] /\ Own
  <1>1. /\ job.at \in 1 .. 5 /\ job.rows \in Nat /\ job.has \in Int /\ job.asked \in Int
        /\ Dumped[job.at] \in Tables
    BY DEF TypesOK, Job, Idle, Dumped, Tables
  <1>2. job.at + 1 \in 2 .. 6 /\ Continue(job.at + 1)
    BY <1>1 DEF Succeeded
  <1> DEFINE v == IF job.rows >= 2 THEN job.has ELSE Torn
  <1>3. v \in Int /\ (v = Torn \/ v >= job.asked)
    BY <1>1 DEF Torn
  <1>4. seen' = [seen EXCEPT ![Dumped[job.at]] = v]
    BY DEF Succeeded
  <1> HIDE DEF v
  <1>5. seen' \in [Tables -> Int]
    BY <1>1, <1>3, <1>4 DEF TypesOK
  <1>6. Own
    BY <1>1, <1>3, <1>4 DEF Own, TypesOK
  <1> QED
    BY <1>2, <1>5, <1>6, ContinueFact

\* netlink_send_dump.
LEMMA SendDumpFact ==
  ASSUME IInv, SendDump
  PROVE  Keeps /\ verdict' = verdict /\ Own
  <1> DEFINE n == (seqno + 1) % SeqMod
             a == DumpAnswer(Dumped[job.at], n)
             j == [job EXCEPT !.sent = TRUE, !.asked = table[Dumped[job.at]]]
  <1>1. /\ TypesOK /\ job.kind = "dump" /\ ~job.sent /\ seqno' = n
        /\ job.rows = 0
    BY DEF IInv, SendDump, TypesOK, Job, Idle
  <1>2. ~Waiting(job) /\ Paid(answers, seqno, 1, faults) /\ n \in Seqnos
    <2>1. ~Waiting(job)
      BY <1>1 DEF Waiting
    <2> QED
      BY <2>1, BackFact DEF IInv, TypesOK
  <1>3. /\ answers \in Seq(Message) /\ seqno \in Seqnos /\ faults \in 0 .. MaxFaults
        /\ table \in [Tables -> Int] /\ seen \in [Tables -> Int]
        /\ job.at \in DOMAIN Dumped /\ Dumped[job.at] \in Tables
    BY <1>1 DEF TypesOK, Job, Idle, Tables
  <1>4. CASE answers' = answers \o a /\ job' = j /\ UNCHANGED <<seen, flags, due, faults>>
    <2>1. table[Dumped[job.at]] \in Int
      BY <1>3
    <2>2. j \in Job /\ j.kind = "dump" /\ j.sent /\ j.rows = 0
          /\ j.asked = table[Dumped[job.at]]
      <3> DEFINE x == table[Dumped[job.at]]
      <3>1. job \in [kind : {"dump"}, at : DOMAIN Dumped, sent : BOOLEAN, rows : Nat,
                     has : Int, asked : Int]
        BY <1>1 DEF TypesOK, Job, Idle
      <3>2. j = [job EXCEPT !.sent = TRUE, !.asked = x] /\ x \in Int
        BY <2>1
      <3> HIDE DEF x, j
      <3>3. j \in [kind : {"dump"}, at : DOMAIN Dumped, sent : BOOLEAN, rows : Nat,
                   has : Int, asked : Int]
        BY <3>1, <3>2, Zenon
      <3>4. j.sent /\ j.rows = job.rows /\ j.asked = x
        BY <3>1, <3>2
      <3> QED
        BY <1>1, <3>3, <3>4 DEF Job, x
    <2> HIDE DEF n
    <2>3. n \in Nat
      BY <1>2 DEF Seqnos
    <2>4. /\ a \in Seq(Message)
          /\ \A i \in DOMAIN a :
               /\ a[i] # Foreign /\ a[i].seq = n
               /\ a[i].is = "done" \/ (a[i].is = "row" /\ a[i].has = table[Dumped[job.at]])
               /\ a[i].is # "row" => i = Len(a)
      BY <1>3, <2>1, <2>3 DEF DumpAnswer, Message, Foreign
    <2> HIDE DEF a, j
    <2>5. \A i \in DOMAIN a : Answers(j, a[i])
      BY <2>2, <2>4 DEF Answers
    <2>6. Paid(answers \o a, n, 0, faults) /\ Answered(answers \o a, n, j)
      BY <1>2, <1>3, <2>4, <2>5, SentFact DEF n
    <2>7. answers \o a \in Seq(Message)
      BY <1>3, <2>4
    <2>8. Keeps
      BY <1>1, <1>2, <1>3, <1>4, <2>2, <2>6, <2>7 DEF Keeps, TypesOK, Waiting, SendDump
    <2> QED
      BY <1>4, <2>8 DEF SendDump, Own
  <1>5. CASE Fault /\ Failed /\ UNCHANGED answers
    <2>1. faults' = faults + 1 /\ faults + 1 <= MaxFaults /\ faults \in Nat
          /\ faults' \in 0 .. MaxFaults
      BY <1>3, <1>5, NetlinkAssumption DEF Fault
    <2>2. Paid(answers, n, 1, faults')
      BY <1>2, <1>3, <2>1, LostFact
    <2>3. Fresh(job') /\ seen' \in [Tables -> Int] /\ Own
      BY <1>1, <1>5, FailedFact
    <2> HIDE DEF n
    <2>4. Keeps
      BY <1>1, <1>2, <1>3, <1>5, <2>1, <2>2, <2>3 DEF Keeps, TypesOK, Fresh, SendDump
    <2> QED
      BY <2>3, <2>4 DEF SendDump
  <1> QED
    BY <1>1, <1>4, <1>5 DEF SendDump

\* netlink_talk.
LEMMA TalkFact ==
  ASSUME IInv, NEW t \in {"route6", "rule6"}, Talk(t)
  PROVE  Keeps /\ (verdict'.said => verdict'.did) /\ seen' = seen
  <1> DEFINE n == (seqno + 1) % SeqMod
  <1>1. /\ TypesOK /\ job = Idle /\ seqno' = n /\ table' = table /\ seen' = seen
        /\ ~Waiting(job) /\ n \in Seqnos
    BY BackFact DEF IInv, Talk, Waiting, Idle, TypesOK
  <1>2. /\ Paid(answers, seqno, 1, faults) /\ answers \in Seq(Message)
        /\ seqno \in Seqnos /\ faults \in 0 .. MaxFaults
    BY <1>1 DEF IInv, TypesOK
  <1>3. n \in Nat
    BY <1>1 DEF Seqnos
  <1>4. ASSUME NEW ok \in BOOLEAN,
               answers' = Append(answers, [is |-> "ack", seq |-> n, ok |-> ok]),
               job' = [kind |-> "talk", did |-> ok], UNCHANGED <<verdict, faults>>
        PROVE  Keeps /\ (verdict'.said => verdict'.did) /\ seen' = seen
    <2> DEFINE m == [is |-> "ack", seq |-> n, ok |-> ok]
               a == <<m>>
    <2>1. m \in Message /\ m # Foreign /\ m.seq = n
      BY <1>3, MessageFact DEF Message
    <2>2. job' \in Job /\ Waiting(job') /\ Answers(job', m) /\ job'.kind = "talk"
      BY <1>4 DEF Job, Waiting, Answers
    <2> HIDE DEF m, n
    <2>3. a \in Seq(Message) /\ \A i \in DOMAIN a : a[i] = m /\ i = Len(a)
      BY <2>1
    <2>4. answers' = answers \o a /\ answers' \in Seq(Message)
      BY <1>2, <1>4, <2>1 DEF m
    <2> HIDE DEF a
    <2>5. \A i \in DOMAIN a : /\ a[i] # Foreign /\ a[i].seq = n
                              /\ Answers(job', a[i]) /\ (a[i].is # "row" => i = Len(a))
      BY <2>1, <2>2, <2>3
    <2>6. Paid(answers', n, 0, faults) /\ Answered(answers', n, job')
      BY <1>2, <2>3, <2>4, <2>5, SentFact DEF n
    <2>7. Keeps
      BY <1>1, <1>4, <2>2, <2>4, <2>6 DEF Keeps, TypesOK
    <2> QED
      BY <1>1, <1>4, <2>7 DEF IInv
  <1>5. CASE /\ Fault /\ verdict' = [said |-> FALSE, did |-> FALSE]
             /\ UNCHANGED <<answers, job, listen, overrun>>
    <2>1. faults' = faults + 1 /\ faults + 1 <= MaxFaults /\ faults \in Nat
          /\ faults' \in 0 .. MaxFaults
      BY <1>2, <1>5, NetlinkAssumption DEF Fault
    <2>2. Paid(answers, n, 1, faults')
      BY <1>2, <2>1, LostFact
    <2> HIDE DEF n
    <2>3. Keeps
      BY <1>1, <1>5, <2>1, <2>2 DEF Keeps, TypesOK, Idle
    <2> QED
      BY <1>1, <1>5, <2>3
  <1> QED
    BY <1>1, <1>4, <1>5 DEF Talk

\* An exchange that is over, in one way or the other: nothing that was sent for
\* it is waited for any longer.
LEMMA EndFact ==
  ASSUME IInv, Waiting(job), answers # << >>, answers' = Tail(answers),
         answers[1] = Foreign \/ \A i \in DOMAIN answers : 1 < i => answers[i] = Foreign,
         UNCHANGED <<seqno, faults, table>>, Fresh(job'), seen' \in [Tables -> Int]
  PROVE  Keeps
  <1>1. /\ answers \in Seq(Message) /\ seqno \in Seqnos /\ faults \in 0 .. MaxFaults
        /\ Paid(answers, seqno, 0, faults)
    BY DEF IInv, TypesOK
  <1>2. faults \in Nat
    BY <1>1, NetlinkAssumption
  <1>3. Paid(Tail(answers), seqno, 0, faults)
        /\ (answers[1] = Foreign => Paid(Tail(answers), seqno, 1, faults))
    BY <1>1, <1>2, ReadFact
  <1>4. /\ Tail(answers) \in Seq(Message)
        /\ \A i \in DOMAIN Tail(answers) :
             i + 1 \in DOMAIN answers /\ Tail(answers)[i] = answers[i + 1] /\ 1 < i + 1
    BY <1>1, TailFact
  <1>5. Paid(Tail(answers), seqno, 1, faults)
    BY <1>3, <1>4, DrainedFact
  <1> QED
    BY <1>1, <1>4, <1>5 DEF Keeps, TypesOK, Fresh, IInv

\* A message that does not end the exchange.
LEMMA PassFact ==
  ASSUME IInv, Waiting(job), answers # << >>, answers' = Tail(answers),
         UNCHANGED <<seqno, faults, table, seen>>, job' \in Job,
         Waiting(job'), job'.kind = job.kind,
         job.kind = "talk" => job' = job,
         job.kind = "dump" =>
           job' = job \/ (job'.asked = job.asked /\ job'.has = job'.asked)
  PROVE  Keeps
  <1>1. /\ answers \in Seq(Message) /\ seqno \in Seqnos /\ faults \in 0 .. MaxFaults
        /\ Paid(answers, seqno, 0, faults) /\ Answered(answers, seqno, job)
    BY DEF IInv, TypesOK
  <1>2. faults \in Nat
    BY <1>1, NetlinkAssumption
  <1>3. Paid(Tail(answers), seqno, 0, faults)
    BY <1>1, <1>2, ReadFact
  <1> DEFINE u == Tail(answers)
  <1>4. /\ u \in Seq(Message)
        /\ \A i \in DOMAIN u : i \in Nat /\ i + 1 \in DOMAIN answers /\ u[i] = answers[i + 1]
    BY <1>1, TailFact
  <1>5. \A m : Answers(job, m) => Answers(job', m)
    BY DEF Answers, Waiting
  <1> HIDE DEF u
  <1>6. Answered(u, seqno, job')
    <2> SUFFICES ASSUME NEW i \in DOMAIN u, u[i] # Foreign, u[i].seq = seqno
                 PROVE  /\ Answers(job', u[i])
                        /\ u[i].is # "row" => \A k \in DOMAIN u : i < k => u[k] = Foreign
      BY DEF Answered
    <2>1. i + 1 \in DOMAIN answers /\ u[i] = answers[i + 1] /\ i \in Nat
      BY <1>4
    <2>2. /\ Answers(job, u[i])
          /\ u[i].is # "row" => \A k \in DOMAIN answers : i + 1 < k => answers[k] = Foreign
      BY <1>1, <2>1 DEF Answered
    <2>3. ASSUME u[i].is # "row", NEW k \in DOMAIN u, i < k PROVE u[k] = Foreign
      <3>1. k + 1 \in DOMAIN answers /\ u[k] = answers[k + 1] /\ k \in Nat
        BY <1>4
      <3>2. i + 1 < k + 1
        BY <2>1, <2>3, <3>1
      <3> QED
        BY <2>2, <2>3, <3>1, <3>2
    <2> QED
      BY <1>5, <2>2, <2>3
  <1>7. answers' = u
    BY DEF u
  <1>8. job'.kind = "dump" /\ job'.rows > 0 => job'.sent /\ job'.has = job'.asked
    BY DEF IInv, Waiting
  <1>9. Paid(u, seqno, 0, faults)
    BY <1>3 DEF u
  <1> QED
    BY <1>1, <1>4, <1>6, <1>7, <1>8, <1>9 DEF Keeps, TypesOK, IInv

\* netlink_read.
LEMMA ReadStepFact ==
  ASSUME IInv, Read
  PROVE  Keeps /\ (verdict'.said => verdict'.did) /\ Own
  <1> DEFINE m == Head(answers)
             end(ok) == IF job.kind = "talk"
                        THEN /\ verdict' = [said |-> ok, did |-> job.did] /\ job' = Idle
                             /\ UNCHANGED <<seen, flags, due>>
                        ELSE (IF ok THEN Succeeded ELSE Failed) /\ UNCHANGED verdict
  <1>1. /\ TypesOK /\ Waiting(job) /\ answers # << >> /\ answers' = Tail(answers)
        /\ UNCHANGED <<seqno, faults, table>>
        /\ answers \in Seq(Message) /\ seqno \in Nat /\ job \in Job
        /\ seen \in [Tables -> Int]
    BY DEF IInv, TypesOK, Read, Waiting, Seqnos
  <1>2. m = answers[1] /\ m \in Message /\ 1 \in DOMAIN answers
    BY <1>1, TailFact
  <1>3. m # Foreign /\ m.seq = seqno =>
          /\ Answers(job, m)
          /\ m.is # "row" => \A i \in DOMAIN answers : 1 < i => answers[i] = Foreign
    BY <1>1, <1>2 DEF IInv, Answered
  <1>4. verdict.said => verdict.did
    BY DEF IInv
  <1>5. /\ job.kind = "talk" => job.did \in BOOLEAN
        /\ job.kind # "talk" => /\ job.kind = "dump" /\ job.sent
                                /\ job.rows > 0 => job.has = job.asked
    BY <1>1 DEF IInv, Waiting, Job, Idle
  <1>6. Fresh(Idle)
    BY DEF Fresh, Idle, Job, Waiting
  <1>7. ASSUME NEW ok \in BOOLEAN, end(ok),
               m = Foreign \/ \A i \in DOMAIN answers : 1 < i => answers[i] = Foreign,
               job.kind = "talk" /\ ok => job.did
        PROVE  Keeps /\ (verdict'.said => verdict'.did) /\ Own
    <2>1. CASE job.kind = "talk"
      <3>1. /\ verdict' = [said |-> ok, did |-> job.did] /\ job' = Idle /\ seen' = seen
        BY <1>7, <2>1
      <3> HIDE DEF m
      <3>2. Keeps
        BY <1>1, <1>2, <1>6, <1>7, <3>1, EndFact
      <3> QED
        BY <1>7, <2>1, <3>1, <3>2 DEF Own
    <2>2. CASE job.kind # "talk"
      <3>1. (IF ok THEN Succeeded ELSE Failed) /\ verdict' = verdict
        BY <1>7, <2>2
      <3>2. Fresh(job') /\ seen' \in [Tables -> Int] /\ Own
        BY <1>1, <1>5, <2>2, <3>1, SucceededFact, FailedFact
      <3> HIDE DEF m
      <3>3. Keeps
        BY <1>1, <1>2, <1>7, <3>2, EndFact
      <3> QED
        BY <1>4, <3>1, <3>2, <3>3
    <2> QED
      BY <2>1, <2>2
  <1>8. ASSUME UNCHANGED <<seen, verdict>>, job' \in Job, Waiting(job'), job'.kind = job.kind,
               job.kind = "talk" => job' = job,
               job.kind = "dump" =>
                 job' = job \/ (job'.asked = job.asked /\ job'.has = job'.asked)
        PROVE  Keeps /\ (verdict'.said => verdict'.did) /\ Own
    <2>1. Keeps
      BY <1>1, <1>8, PassFact
    <2> QED
      BY <1>4, <1>8, <2>1 DEF Own
  <1>9. CASE m = Foreign /\ end(FALSE)
    BY <1>7, <1>9
  <1>10. CASE m # Foreign /\ ~Matches(m) /\ UNCHANGED <<seen, flags, due, verdict, job>>
    <2> HIDE DEF m
    <2> QED
      BY <1>1, <1>8, <1>10
  <1>11. CASE m # Foreign /\ Matches(m) /\ m.is = "done" /\ end(TRUE)
    <2>1. /\ Answers(job, m) /\ \A i \in DOMAIN answers : 1 < i => answers[i] = Foreign
      BY <1>3, <1>11 DEF Matches
    <2>2. job.kind # "talk"
      BY <1>11, <2>1 DEF Answers
    <2> QED
      BY <1>7, <1>11, <2>1, <2>2
  <1>12. CASE m # Foreign /\ Matches(m) /\ m.is = "ack" /\ end(m.ok)
    <2>1. /\ Answers(job, m) /\ \A i \in DOMAIN answers : 1 < i => answers[i] = Foreign
      BY <1>3, <1>12 DEF Matches
    <2>2. job.kind = "talk" /\ m.ok = job.did /\ job.did \in BOOLEAN
      BY <1>5, <1>12, <2>1 DEF Answers
    <2> QED
      BY <1>7, <1>12, <2>1, <2>2
  <1>13. CASE /\ m # Foreign /\ Matches(m) /\ m.is # "done" /\ m.is # "ack"
              /\ job' = IF job.kind = "talk" THEN job
                        ELSE [job EXCEPT !.rows = @ + 1, !.has = m.has]
              /\ UNCHANGED <<seen, flags, due, verdict>>
    <2>1. Answers(job, m)
      BY <1>3, <1>13 DEF Matches
    <2>2. job.kind # "talk" /\ m.has = job.asked
      BY <1>13, <2>1 DEF Answers
    <2>3. job \in [kind : {"dump"}, at : DOMAIN Dumped, sent : BOOLEAN, rows : Nat,
                   has : Int, asked : Int]
      BY <1>1, <1>5, <2>2 DEF Job, Idle
    <2>4. job' = [job EXCEPT !.rows = job.rows + 1, !.has = job.asked]
      BY <1>13, <2>2
    <2>5. job.rows + 1 \in Nat /\ job.asked \in Int
      BY <2>3
    <2> DEFINE x == job.rows + 1
               y == job.asked
    <2>6. job' = [job EXCEPT !.rows = x, !.has = y] /\ x \in Nat /\ y \in Int
      BY <2>4, <2>5
    <2> HIDE DEF x, y
    <2>7. job' \in [kind : {"dump"}, at : DOMAIN Dumped, sent : BOOLEAN, rows : Nat,
                    has : Int, asked : Int]
      BY <2>3, <2>6, Zenon
    <2>8. job'.kind = job.kind /\ job'.sent = job.sent /\ job'.asked = job.asked
          /\ job'.has = y
      BY <2>3, <2>6
    <2>9. job' \in Job /\ Waiting(job') /\ job'.has = job'.asked
      BY <1>1, <2>2, <2>3, <2>7, <2>8 DEF Job, Waiting, y
    <2> QED
      BY <1>8, <1>13, <2>2, <2>8, <2>9
  <1> QED
    <2>1. \/ m = Foreign /\ end(FALSE)
          \/ m # Foreign /\ ~Matches(m) /\ UNCHANGED <<seen, flags, due, verdict, job>>
          \/ m # Foreign /\ Matches(m) /\ m.is = "done" /\ end(TRUE)
          \/ m # Foreign /\ Matches(m) /\ m.is = "ack" /\ end(m.ok)
          \/ /\ m # Foreign /\ Matches(m) /\ m.is # "done" /\ m.is # "ack"
             /\ job' = IF job.kind = "talk" THEN job
                       ELSE [job EXCEPT !.rows = @ + 1, !.has = m.has]
             /\ UNCHANGED <<seen, flags, due, verdict>>
      <3> HIDE DEF m
      <3> QED
        BY DEF Read, m
    <2> QED
      BY <1>9, <1>10, <1>11, <1>12, <1>13, <2>1

\* Callback, CheckInterfaces, Tick, Change and stuttering leave the exchange
\* alone; CheckTables begins one.
LEMMA OthersFact ==
  ASSUME IInv,
         \/ Callback \/ CheckInterfaces \/ CheckTables \/ Tick
         \/ \E t \in Tables \cup {"link"} : Change(t)
         \/ UNCHANGED vars
  PROVE  Keeps /\ (verdict'.said => verdict'.did) /\ seen' = seen
  <1>1. /\ UNCHANGED <<answers, seqno, faults, verdict, seen>>
        /\ job' = job \/ (~Waiting(job) /\ job' = Step(1))
    <2>1. CASE Callback
      BY <2>1 DEF Callback, command
    <2>2. CASE CheckInterfaces
      BY <2>2 DEF CheckInterfaces, command
    <2>3. CASE CheckTables
      <3>1. /\ job = Idle /\ job' = Step(1)
            /\ UNCHANGED <<answers, seqno, faults, verdict, seen>>
        BY <2>3 DEF CheckTables
      <3>2. Idle.kind = "idle"
        BY DEF Idle
      <3>3. ~Waiting(job)
        BY <3>1, <3>2 DEF Waiting
      <3> QED
        BY <3>1, <3>3
    <2>4. CASE Tick
      BY <2>4 DEF Tick, command
    <2>5. CASE \E t \in Tables \cup {"link"} : Change(t)
      BY <2>5 DEF Change, command
    <2>6. CASE UNCHANGED vars
      BY <2>6 DEF vars
    <2> QED
      BY <2>1, <2>2, <2>3, <2>4, <2>5, <2>6
  <1>2. table' \in [Tables -> Int]
    <2>1. table \in [Tables -> Int]
      BY DEF IInv, TypesOK
    <2>2. CASE UNCHANGED table
      BY <2>1, <2>2
    <2>3. CASE \E t \in Tables \cup {"link"} : Change(t)
      BY <2>1, <2>3 DEF Change
    <2> QED
      BY <2>2, <2>3 DEF Callback, CheckInterfaces, CheckTables, Tick, vars
  <1>3. CASE job' = job
    BY <1>1, <1>2, <1>3 DEF IInv, Keeps, TypesOK
  <1>4. CASE ~Waiting(job) /\ job' = Step(1)
    <2>1. Fresh(job')
      BY <1>4 DEF Step, Fresh, Job, Waiting, Torn, Dumped
    <2> QED
      BY <1>1, <1>2, <1>4, <2>1 DEF IInv, Keeps, TypesOK, Fresh
  <1> QED
    BY <1>1, <1>3, <1>4 DEF IInv

\* Another process sends a message.
LEMMA DisturbStepFact ==
  ASSUME IInv, Disturb
  PROVE  Keeps /\ (verdict'.said => verdict'.did) /\ seen' = seen
  <1> DEFINE w == IF Waiting(job) THEN 0 ELSE 1
  <1>1. /\ answers \in Seq(Message) /\ faults \in 0 .. MaxFaults /\ Paid(answers, seqno, w, faults)
        /\ UNCHANGED <<seqno, job, seen, table, verdict>>
        /\ answers' = Append(answers, Foreign) /\ faults' = faults + 1
        /\ faults < MaxFaults
    BY DEF IInv, TypesOK, Disturb, Fault
  <1>2. faults \in Nat /\ faults' \in 0 .. MaxFaults
    BY <1>1, NetlinkAssumption
  <1> HIDE DEF w
  <1>3. /\ Paid(answers', seqno, w, faults')
        /\ Answered(answers, seqno, job) => Answered(answers', seqno, job)
    BY <1>1, <1>2, DisturbFact
  <1>4. answers' \in Seq(Message)
    BY <1>1 DEF Message
  <1> QED
    BY <1>1, <1>2, <1>3, <1>4 DEF IInv, Keeps, TypesOK, w

\* Initially nothing is under way.
LEMMA InitFact == Init => IInv
  <1> SUFFICES ASSUME Init PROVE IInv
    OBVIOUS
  <1>1. /\ answers = << >> /\ seqno = 0 /\ job = Idle /\ faults = 0
        /\ table = [t \in Tables |-> 0] /\ seen = table /\ verdict.said = FALSE
    BY DEF Init
  <1>2. Fresh(job) /\ TypesOK
    BY <1>1, NetlinkAssumption DEF Fresh, Idle, Job, Waiting, TypesOK, Seqnos
  <1>3. Recent(answers, seqno, 1, 0) /\ Ledger(answers, 0, faults)
    BY <1>1 DEF Recent, Ledger
  <1> QED
    BY <1>1, <1>2, <1>3 DEF IInv, Fresh, Paid

\* Every step keeps the invariant, and takes only its own answers.
LEMMA NextFact == IInv /\ [Next]_vars => IInv' /\ Own
  <1> SUFFICES ASSUME IInv, [Next]_vars
               PROVE  Keeps /\ (verdict'.said => verdict'.did) /\ Own
    BY DEF IInv, Keeps
  <1>1. verdict.said => verdict.did
    BY DEF IInv
  <1>2. CASE SendDump
    BY <1>1, <1>2, SendDumpFact
  <1>3. CASE Read
    BY <1>3, ReadStepFact
  <1>4. CASE \E t \in {"route6", "rule6"} : Talk(t)
    BY <1>4, TalkFact DEF Own
  <1>5. CASE \/ Callback \/ CheckInterfaces \/ CheckTables \/ Tick
             \/ \E t \in Tables \cup {"link"} : Change(t)
             \/ UNCHANGED vars
    BY <1>5, OthersFact DEF Own
  <1>6. CASE Disturb
    BY <1>6, DisturbStepFact DEF Own
  <1> QED
    BY <1>2, <1>3, <1>4, <1>5, <1>6 DEF Next

\* However exchanges are broken off and whatever others send, a request is
\* reported as done only when it was done, and a dump returns what its table
\* held when it was asked for.
THEOREM AnswersMatch == Spec => AnswersAreOwn
  <1>1. IInv => (verdict.said => verdict.did)
    BY DEF IInv
  <1>2. IInv /\ [Next]_vars => IInv'
    BY NextFact
  <1>3. IInv /\ [Next]_vars =>
          [\A t \in Tables : seen'[t] # seen[t] =>
             seen'[t] = Torn \/ (Dumped[job.at] = t /\ seen'[t] >= job.asked)]_vars
    BY NextFact DEF Own
  <1> QED
    BY <1>1, <1>2, <1>3, InitFact, PTL DEF Spec, AnswersAreOwn
=============================================================================
