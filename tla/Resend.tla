------------------------------- MODULE Resend -------------------------------
(***************************************************************************)
(* The queue of resend.c: requests that were sent or forwarded and updates *)
(* to repeat, with their backoff, one shared wake-up time, and the         *)
(* handlers of one router that record, satisfy, repeat and expire them     *)
(* (resend.h, and the requests and updates of message.c).                  *)
(*                                                                         *)
(* Times are relative: an entry has an age (now - time) and resend_time is *)
(* the time that is left (0: due; Never: not set).  A satisfied request is *)
(* given the time 0; the router is taken to have been up for at least      *)
(* REQUEST_TIMEOUT, so it has expired then.  All interfaces are up.  What  *)
(* route selection decides (see Route) is an input: which route is         *)
(* installed, and whether the change triggers an update.                   *)
(***************************************************************************)
EXTENDS Seqno, Sequences, FiniteSets

CONSTANTS
  Dests,            \* destinations
  Ids, NoId,        \* the router-ids of others; the id of an entry without one
  Ifaces, NoIf,     \* interfaces; NULL, for all of them
  NoRoute, NoSource,
  Refused,          \* the entries that the filters refuse to record
  resend_delay,
  DelayMax,         \* 0xFFFF
  CharMod,          \* 256: an entry's max is an unsigned char
  REQUEST_TIMEOUT,
  RESEND_MAX,
  Recent,           \* MIN(hello_interval, 1000)
  Lag,              \* 100: a request this far ahead is out of date
  Asked,            \* the requests neighbours may send: id, seqno, hop count
  Found,            \* the routes that may be installed: id, seqno, finite
  BuffersMayFill    \* other destinations may fill the buffers of updates

Request(d) == <<"request", d>>
Repeat(d) == <<"update", d>>
Keys == {Request(d) : d \in Dests} \cup {Repeat(d) : d \in Dests}

Never == DelayMax + 1
MaxAge == IF REQUEST_TIMEOUT >= DelayMax THEN REQUEST_TIMEOUT ELSE DelayMax

AskedRequest == [id : Ids, seqno : Seqnos, hop_count : 0 .. 255]
InstalledRoute == [id : Ids, seqno : Seqnos, finite : BOOLEAN]
Source == [seqno : Seqnos, sent : BOOLEAN]   \* sent: metric < INFINITY

ASSUME ResendAssumption ==
  /\ NoId \notin Ids /\ NoIf \notin Ifaces /\ NoRoute \notin InstalledRoute
  /\ NoSource \notin Source
  /\ Refused \subseteq Keys
  /\ DelayMax \in Nat /\ resend_delay \in 1 .. DelayMax
  /\ RESEND_MAX \in Nat \ {0} /\ CharMod \in Nat /\ RESEND_MAX < CharMod
  /\ REQUEST_TIMEOUT \in Nat \ {0} /\ Recent \in Nat /\ Lag \in Nat
  /\ Asked \subseteq AskedRequest /\ Found \subseteq InstalledRoute
  /\ BuffersMayFill \in BOOLEAN

\* struct resend, without its key.
Entry == [id : Ids \cup {NoId}, seqno : Seqnos, ifp : Ifaces \cup {NoIf},
          delay : 0 .. DelayMax, max : 0 .. CharMod - 1, age : 0 .. MaxAge]

NoEntry == [id |-> NoId, seqno |-> 0, ifp |-> NoIf, delay |-> 0, max |-> 0,
            age |-> 0]

VARIABLES
  to_resend,   \* the list, as the sequence of its entries' keys
  entry,       \* the entry of each key; NoEntry when it is not listed
  wake,        \* resend_time
  repeats,     \* how often each entry was resent since it was recorded
  route,       \* the installed route of each destination
  own,         \* the destinations that we export
  src,         \* the seqno of each source, and whether it was ever announced
  buffer       \* the updates buffered on each interface

vars == <<to_resend, entry, wake, repeats, route, own, src, buffer>>

State == [to_resend |-> to_resend, entry |-> entry, wake |-> wake,
          repeats |-> repeats, route |-> route, own |-> own, src |-> src,
          buffer |-> buffer]

Becomes(s) ==
  /\ to_resend' = s.to_resend /\ entry' = s.entry /\ wake' = s.wake
  /\ repeats' = s.repeats /\ route' = s.route /\ own' = s.own
  /\ src' = s.src /\ buffer' = s.buffer

Least(a, b) == IF a <= b THEN a ELSE b

-----------------------------------------------------------------------------
(* The queue. *)

InQueue(s) == {s.to_resend[i] : i \in DOMAIN s.to_resend}

\* Mutant of resend_expired: an update lives on after its last repetition.
ExpiredLate(key, e) ==
  IF key[1] = "request" THEN e.age >= REQUEST_TIMEOUT ELSE e.max < 0

\* A request expires with time, an update when it has been repeated enough.
resend_expired(key, e) ==
  IF key[1] = "request" THEN e.age >= REQUEST_TIMEOUT ELSE e.max <= 0

Pending(key, e) == ~resend_expired(key, e) /\ e.delay > 0 /\ e.max > 0

\* What is left until the entry is due.
TimeLeft(e) == IF e.delay > e.age THEN e.delay - e.age ELSE 0

\* Mutant of recompute_resend_time: updates are not looked at.
RecomputeForRequests(s) ==
  LET left == {TimeLeft(s.entry[k]) :
                 k \in {x \in InQueue(s) :
                          x[1] = "request" /\ Pending(x, s.entry[x])}}
  IN  [s EXCEPT !.wake = CHOOSE t \in left \cup {Never} :
                           \A u \in left : t <= u]

recompute_resend_time(s) ==
  LET left == {TimeLeft(s.entry[k]) :
                 k \in {x \in InQueue(s) : Pending(x, s.entry[x])}}
  IN  [s EXCEPT !.wake = CHOOSE t \in left \cup {Never} :
                           \A u \in left : t <= u]

\* An entry that is listed is renewed; a request for an older seqno of the same
\* source than the listed one leaves what is asked for, and resend_time, alone.
record_resend(s, key, seqno, id, ifp, delay) ==
  LET e == s.entry[key]
      wait == IF e.delay > 0 /\ delay > 0 THEN Least(e.delay, delay)
              ELSE IF delay > 0 THEN delay ELSE e.delay
      renewed == [e EXCEPT !.delay = wait, !.age = 0, !.max = RESEND_MAX]
      older == id # NoId /\ e.id = id /\ seqno_compare(e.seqno, seqno) > 0
      replaced == [renewed EXCEPT !.id = id, !.seqno = seqno,
                     !.ifp = IF e.ifp = ifp THEN ifp ELSE NoIf]
      fresh == [id |-> id, seqno |-> seqno, ifp |-> ifp, delay |-> delay,
                max |-> RESEND_MAX, age |-> 0]
      listed == key \in InQueue(s)
      new == IF ~listed THEN fresh ELSE IF older THEN renewed ELSE replaced
  IN  IF key \in Refused THEN s
      ELSE [s EXCEPT
              !.to_resend = IF listed THEN s.to_resend
                            ELSE <<key>> \o s.to_resend,
              !.entry[key] = new,
              !.repeats[key] = 0,
              !.wake = IF new.delay > 0 /\ ~(listed /\ older)
                         THEN Least(s.wake, new.delay) ELSE s.wake]

\* A route of (id, seqno) is what the request asks for, or a change of source.
Answers(e, seqno, id) == e.id # id \/ seqno_compare(e.seqno, seqno) <= 0

\* Mutant of unsatisfied_request: never.
NeverUnsatisfied(s, d, seqno, id) == FALSE

\* A request is waiting for the route (id, seqno).
unsatisfied_request(s, d, seqno, id) ==
  /\ Request(d) \in InQueue(s)
  /\ ~resend_expired(Request(d), s.entry[Request(d)])
  /\ Answers(s.entry[Request(d)], seqno, id)

\* Marked as expired; expire_resend will remove it, the list may be walked
\* right now.
Satisfied(e) == [e EXCEPT !.max = 0, !.age = MaxAge]

satisfy_request(s, d, seqno, id, ifp) ==
  LET e == s.entry[Request(d)]
  IN  IF /\ Request(d) \in InQueue(s)
         /\ ifp = NoIf \/ e.ifp = ifp
         /\ Answers(e, seqno, id)
        THEN recompute_resend_time(
               [s EXCEPT !.entry[Request(d)] = Satisfied(e)])
        ELSE s

\* A request need not be forwarded: one for the destination was recorded, and
\* will be resent, or is recent.
request_redundant(s, d, seqno, id, ifp) ==
  LET e == s.entry[Request(d)]
  IN  /\ Request(d) \in InQueue(s)
      /\ ~resend_expired(Request(d), e)
      /\ ~(e.id = id /\ seqno_compare(e.seqno, seqno) > 0)
      /\ e.ifp = NoIf \/ e.ifp = ifp
      /\ e.max > 0 \/ e.age < Recent

expire_resend(s) ==
  LET live(k) == ~resend_expired(k, s.entry[k])
      kept[i \in 0 .. Len(s.to_resend)] ==
        IF i = 0 THEN << >>
        ELSE IF live(s.to_resend[i]) THEN Append(kept[i - 1], s.to_resend[i])
        ELSE kept[i - 1]
      t == [s EXCEPT !.to_resend = kept[Len(@)],
                     !.entry = [k \in Keys |-> IF k \in InQueue(s) /\ live(k)
                                                 THEN s.entry[k] ELSE NoEntry],
                     !.repeats = [k \in Keys |-> IF k \in InQueue(s) /\ live(k)
                                                   THEN @[k] ELSE 0]]
  IN  IF t.to_resend = s.to_resend THEN s ELSE recompute_resend_time(t)

-----------------------------------------------------------------------------
(* Updates and requests. *)

\* update_source, for a finite metric.
Announce(source, seqno) ==
  IF ~source.sent \/ seqno_compare(seqno, source.seqno) > 0
    THEN [seqno |-> seqno, sent |-> TRUE] ELSE source

\* The buffered updates of the interfaces I are sent: an update of a finite
\* route satisfies the request that came in on the same interface.
flushupdates(s, I) ==
  LET finite(d) == d \notin s.own /\ s.route[d] # NoRoute /\ s.route[d].finite
      out == {d \in Dests : finite(d) /\ \E i \in I : d \in s.buffer[i]}
      answered == {d \in out :
                     LET e == s.entry[Request(d)]
                     IN  /\ Request(d) \in InQueue(s)
                         /\ e.ifp \in I /\ d \in s.buffer[e.ifp]
                         /\ Answers(e, s.route[d].seqno, s.route[d].id)}
      t == [s EXCEPT
              !.buffer = [i \in Ifaces |-> IF i \in I THEN {} ELSE s.buffer[i]],
              !.src = [d \in Dests |->
                         IF d \in out
                           THEN [s.src[d] EXCEPT ![s.route[d].id] =
                                   Announce(@, s.route[d].seqno)]
                           ELSE s.src[d]],
              !.entry = [k \in Keys |->
                           IF \E d \in answered : k = Request(d)
                             THEN Satisfied(s.entry[k]) ELSE s.entry[k]]]
  IN  IF answered = {} THEN t ELSE recompute_resend_time(t)

\* send_update(ifp, ...): buffered; a full buffer is flushed first.
SendUpdateOn(s, I, D, full) ==
  [flushupdates(s, I \cap full) EXCEPT
     !.buffer = [i \in Ifaces |-> IF i \in I THEN @[i] \cup D ELSE @[i]]]

\* send_update(NULL, ...): also satisfies the request that is recorded for all
\* interfaces, which flushupdates never does; compares the source's seqno.
send_update(s, d, full) ==
  LET t == SendUpdateOn(s, Ifaces, {d}, full)
      r == t.route[d]
  IN  IF r # NoRoute /\ r.finite
        THEN satisfy_request(t, d, t.src[d][r.id].seqno, r.id, NoIf)
        ELSE t

send_update_resend(s, d, full) ==
  record_resend(send_update(s, d, full), Repeat(d), 0, NoId, NoIf, resend_delay)

\* Buffered updates go out before the request.
send_multihop_request(s, ifp) ==
  flushupdates(s, IF ifp = NoIf THEN Ifaces ELSE {ifp})

send_request_resend(s, d, seqno, id) ==
  record_resend(send_multihop_request(s, NoIf), Request(d), seqno, id, NoIf,
                resend_delay)

\* Mutant of Doubled: no backoff.
NotDoubled(delay) == delay

Doubled(delay) == Least(DelayMax, delay * 2)

\* One iteration of do_resend.  Sending may have satisfied the request itself.
ResendOne(s, k, full) ==
  LET e == s.entry[k]
      t == IF k[1] = "request" THEN send_multihop_request(s, e.ifp)
           ELSE send_update(s, k[2], full)
      f == t.entry[k]
  IN  IF Pending(k, e) /\ e.age >= e.delay
        THEN [t EXCEPT !.entry[k] = [f EXCEPT !.delay = Doubled(f.delay),
                                              !.max = (f.max - 1) % CharMod],
                       !.repeats[k] = t.repeats[k] + 1]
        ELSE s

do_resend(s, full) ==
  LET walk[i \in 0 .. Len(s.to_resend)] ==
        IF i = 0 THEN s ELSE ResendOne(walk[i - 1], s.to_resend[i], full)
  IN  recompute_resend_time(walk[Len(s.to_resend)])

\* A neighbour on interface i asks for d; a request that we cannot answer goes to
\* a neighbour on interface j, if there is one to send it to (j # NoIf).
handle_request(s, d, i, a, j, full) ==
  LET r == s.route[d]
      answerable == r # NoRoute
                    /\ (a.id # r.id \/ seqno_compare(a.seqno, r.seqno) <= 0)
      hopeless == r # NoRoute /\ a.id = r.id /\ seqno_minus(a.seqno, r.seqno) > Lag
  IN  IF d \in s.own \/ answerable THEN SendUpdateOn(s, {i}, {d}, full)
      ELSE IF \/ a.hop_count <= 1 \/ hopeless
              \/ request_redundant(s, d, a.seqno, a.id, i)
              \/ j = NoIf
        THEN s
        ELSE record_resend(send_multihop_request(s, j), Request(d), a.seqno,
                           a.id, i, 0)

\* The installed route of d was old and is new: what send_triggered_update and
\* consider_route send.  A small change of the metric may be kept quiet.
RouteBecomes(s, d, old, new, quiet, full) ==
  LET known == s.src[d][new.id]
      t == [s EXCEPT !.route[d] = new,
              !.src[d][new.id] = IF known # NoSource THEN known
                                 ELSE [seqno |-> new.seqno, sent |-> FALSE]]
      again == old # NoRoute
               /\ (old.id # new.id \/ (old.finite /\ ~new.finite))
      urgent == \/ old = NoRoute
                \/ unsatisfied_request(t, d, new.seqno, new.id)
                \/ ~old.finite /\ new.finite
  IN  IF again THEN send_update_resend(t, d, full)
      ELSE IF urgent \/ (~quiet /\ new.finite) THEN send_update(t, d, full)
      ELSE t

\* The seqno a request for a source asks for.
WantedSeqno(source) ==
  IF source.sent THEN seqno_plus(source.seqno, 1) ELSE source.seqno

\* route_lost, with no other route; usable: the metric was at most INFINITY / 2.
RouteLost(s, d, usable, full) ==
  LET r == s.route[d]
      t == [s EXCEPT !.route[d] = NoRoute]
      u == send_update_resend(t, d, full)
  IN  IF ~r.finite THEN t
      ELSE IF ~usable THEN u
      ELSE send_request_resend(u, d, WantedSeqno(u.src[d][r.id]), r.id)

-----------------------------------------------------------------------------
(* The handlers. *)

\* The interfaces whose buffer has no room left, during a handler.
Full == IF BuffersMayFill THEN SUBSET Ifaces ELSE {{}}

Init ==
  /\ to_resend = << >>
  /\ entry = [k \in Keys |-> NoEntry]
  /\ wake = Never
  /\ repeats = [k \in Keys |-> 0]
  /\ route = [d \in Dests |-> NoRoute]
  /\ own = {}
  /\ src = [d \in Dests |-> [id \in Ids |-> NoSource]]
  /\ buffer = [i \in Ifaces |-> {}]

\* A route may be selected: it is feasible, as far as seqnos tell.
MaySelect(d, r) ==
  r.finite /\ src[d][r.id] # NoSource /\ src[d][r.id].sent
  => seqno_compare(r.seqno, src[d][r.id].seqno) >= 0

\* The installed route gets a new seqno, metric or source, or another one is
\* installed in its place, possibly after it was lost.
RouteChanges(d, r) ==
  /\ d \notin own
  /\ r # route[d]
  /\ (route[d] # NoRoute => route[d].id # r.id) => MaySelect(d, r)
  /\ \E old \in {route[d], NoRoute}, quiet \in BOOLEAN, full \in Full :
       Becomes(RouteBecomes(State, d, old, r, quiet, full))

LoseRoute(d) ==
  /\ route[d] # NoRoute
  /\ \E usable \in BOOLEAN, full \in Full :
       Becomes(RouteLost(State, d, usable, full))

\* check_xroutes finds a route of our own: it takes the place of a Babel route.
Export(d) ==
  /\ d \notin own
  /\ \E full \in Full :
       Becomes(send_update([State EXCEPT !.own = @ \cup {d},
                                         !.route[d] = NoRoute], d, full))

\* check_xroutes misses our own route: the best route, if any, is installed.
\* Its source is known since the route was received.
Unexport(d) ==
  /\ d \in own
  /\ \E full \in Full, r \in {NoRoute} \cup {f \in Found : MaySelect(d, f)} :
       LET known == [s \in Dests |-> [id \in Ids |->
                       IF s = d /\ r # NoRoute /\ r.id = id /\ src[d][id] = NoSource
                         THEN [seqno |-> r.seqno, sent |-> FALSE]
                         ELSE src[s][id]]]
       IN  Becomes(send_update_resend([State EXCEPT !.own = @ \ {d},
                                         !.route[d] = r, !.src = known], d, full))

HandleRequest(d, i, a) ==
  \E j \in Ifaces \cup {NoIf}, full \in Full :
    Becomes(handle_request(State, d, i, a, j, full))

\* The periodic update of an interface, and the answer to a wildcard request.
SendUpdates(i) ==
  \E full \in Full :
    Becomes(SendUpdateOn(State, {i}, own \cup {d \in Dests : route[d] # NoRoute},
                         full))

\* update_flush_timeout of an interface.
FlushUpdates(i) ==
  /\ buffer[i] # {}
  /\ Becomes(flushupdates(State, {i}))

\* The resend timer.
DoResend ==
  /\ wake = 0
  /\ \E full \in Full : Becomes(do_resend(State, full))

\* The expiry timer.
ExpireResend ==
  /\ expire_resend(State) # State
  /\ Becomes(expire_resend(State))

\* expire_sources: the source of no route may be forgotten.
ForgetSource(d, id) ==
  /\ src[d][id] # NoSource
  /\ route[d] # NoRoute => route[d].id # id
  /\ src' = [src EXCEPT ![d][id] = NoSource]
  /\ UNCHANGED <<to_resend, entry, wake, repeats, route, own, buffer>>

Tick ==
  /\ entry' = [k \in Keys |->
                 IF k \in InQueue(State)
                   THEN [entry[k] EXCEPT !.age = Least(@ + 1, MaxAge)]
                   ELSE NoEntry]
  /\ wake' = IF wake \in {0, Never} THEN wake ELSE wake - 1
  /\ UNCHANGED <<to_resend, repeats, route, own, src, buffer>>

Next ==
  \/ \E d \in Dests : \/ LoseRoute(d) \/ Export(d) \/ Unexport(d)
                      \/ \E r \in Found : RouteChanges(d, r)
                      \/ \E i \in Ifaces, a \in Asked : HandleRequest(d, i, a)
                      \/ \E id \in Ids : ForgetSource(d, id)
  \/ \E i \in Ifaces : SendUpdates(i) \/ FlushUpdates(i)
  \/ DoResend
  \/ ExpireResend
  \/ Tick

Spec == Init /\ [][Next]_vars

\* The clock goes on, and the main loop looks at the resend timer and the expiry
\* timer in each of its iterations.  Weak fairness, with the enabling conditions
\* written out.
Fairness ==
  /\ []<>(/\ \A k \in InQueue(State) : entry[k].age = MaxAge
          /\ wake \in {0, Never}) \/ []<><<Tick>>_vars
  /\ []<>(wake # 0) \/ []<><<DoResend>>_vars
  /\ []<>(\A k \in InQueue(State) : ~resend_expired(k, entry[k]))
       \/ []<><<ExpireResend>>_vars

FairSpec == Spec /\ Fairness

-----------------------------------------------------------------------------
(* Properties. *)

\* No repetition of an update is forgotten: the one wake-up time that all entries
\* share is never later than the time at which a recorded update is due, whatever
\* was recorded, satisfied or expired since.
UpdateArmed ==
  \A d \in Dests :
    Repeat(d) \in InQueue(State) /\ Pending(Repeat(d), entry[Repeat(d)])
    => wake <= TimeLeft(entry[Repeat(d)])

\* What an entry has waited before it is repeated for the next time, when it has
\* been repeated n times.
Interval[n \in 0 .. RESEND_MAX] ==
  IF n = 0 THEN resend_delay ELSE Least(DelayMax, 2 * Interval[n - 1])

\* An entry is resent at most RESEND_MAX times since it was last recorded, at
\* intervals that double, also when it is satisfied in the middle of do_resend
\* and its unsigned counter wraps around.
Backoff ==
  \A k \in InQueue(State) :
    /\ repeats[k] <= RESEND_MAX
    /\ repeats[k] > 0 => entry[k].age >= Interval[repeats[k] - 1]

\* "Make sure that requests are satisfied speedily" (route.c): while a request of
\* a neighbour is recorded that the installed route answers, the answer is
\* buffered on the interface the request came in on.
AnswerUnderWay ==
  \A d \in Dests :
    LET e == entry[Request(d)]
        r == route[d]
    IN  (/\ Request(d) \in InQueue(State)
         /\ ~resend_expired(Request(d), e) /\ e.ifp # NoIf
         /\ r # NoRoute /\ r.finite /\ Answers(e, r.seqno, r.id))
        => d \in buffer[e.ifp]

\* Nothing stays in the queue for ever unless it is recorded again: updates are
\* repeated until they are used up, requests time out.
EntriesLeave ==
  \A k \in Keys :
    k \in InQueue(State) /\ entry[k].age > 0
    ~> k \notin InQueue(State) \/ entry[k].age = 0

=============================================================================
