-------------------------------- MODULE Wire --------------------------------
(***************************************************************************)
(* The messages of message.c on the wire: how updates and requests are     *)
(* compressed into TLVs, the packet buffer of an interface, the buffer of  *)
(* updates, the unicast buffer, and how parse_packet of a neighbour reads  *)
(* a packet.  Prefixes are the 16 bytes of the code, TLVs are records with *)
(* the length that they have in the buffer.                                *)
(*                                                                         *)
(* in and got are the interface of the model: what the router handed over  *)
(* in the last step, and what the neighbour read of the packets that were  *)
(* sent in that step.  A packet is lost in the network or as a whole when  *)
(* the bucket is empty.                                                    *)
(***************************************************************************)
EXTENDS Integers, Sequences, SequencesExt

CONSTANTS
  Updates,      \* the updates the router may announce
  Requests,     \* the requests it may send
  None,         \* nothing buffered, nothing parsed
  bufsize,      \* of the interface
  UNICAST_BUFSIZE,
  UpdateBufsize, \* update_bufsize, the buffer of updates
  ipv4,         \* the interface's IPv4 address, None without one
  Filtered,     \* what output_filter refuses
  Diversity,    \* diversity_kind = DIVERSITY_CHANNEL
  IF_FARAWAY, IF_TIMESTAMPS,
  MaxMessages   \* bound: messages in a buffer

\* SequencesExt's FoldLeft, as a recursive function that binds each value once.
Fold(op(_, _), base, s) ==
  LET f[i \in 0 .. Len(s)] ==
        IF i = 0 THEN base
        ELSE CHOOSE y \in {op(x, s[i]) : x \in {f[i - 1]}} : TRUE
  IN  f[Len(s)]

\* op(x), where x is evaluated once.
With(x, op(_)) == CHOOSE y \in {op(v) : v \in {x}} : TRUE

Bytes == 0 .. 255
Address == [1 .. 16 -> Bytes]
Destination == [prefix : Address, plen : 0 .. 128, src_prefix : Address,
                src_plen : 0 .. 128]

zeroes == [i \in 1 .. 16 |-> 0]
v4prefix == <<0, 0, 0, 0, 0, 0, 0, 0, 0, 0, 255, 255>>
v4mapped(p) == SubSeq(p, 1, 12) = v4prefix
is_v4(d) == d.plen >= 96 /\ v4mapped(d.prefix)

\* The number of bytes of a prefix of that length.
PrefixBytes(plen) == (plen + 7) \div 8

\* normalize_prefix: the bits behind the prefix are cleared.
normalize_prefix(p, plen) ==
  [i \in 1 .. 16 |->
     LET bits == plen - 8 * (i - 1)
     IN  IF bits >= 8 THEN p[i] ELSE IF bits <= 0 THEN 0
         ELSE p[i] - (p[i] % 2^(8 - bits))]

-----------------------------------------------------------------------------
(* Reading: parse_packet and what it calls.                                *)

FAIL == [rc |-> -1, prefix |-> zeroes]

\* A prefix of len bytes at p, compressed against the default prefix dp.
network_prefix(ae, plen, omitted, p, dp) ==
  LET pb == IF plen >= 0 THEN PrefixBytes(plen) ELSE IF ae = 1 THEN 4 ELSE 16
      Rest == SubSeq(p, 1, pb - omitted)
      Padded(s) == [i \in 1 .. 16 |-> IF i <= Len(s) THEN s[i] ELSE 0]
      Read(s, rc) ==
        [rc |-> rc, prefix |-> normalize_prefix(Padded(s),
           IF plen < 0 THEN 128 ELSE IF ae = 1 THEN plen + 96 ELSE plen)]
  IN  CASE pb > 16 -> FAIL
        [] ae = 0 -> Read(<<>>, 0)
        [] ae = 1 ->
             IF \/ omitted > 4 \/ pb > 4 \/ Len(p) < pb - omitted
                \/ omitted > pb
                \/ IF omitted = 0 \/ dp = None THEN omitted > 0 ELSE ~v4mapped(dp)
             THEN FAIL
             ELSE Read((IF omitted > 0 THEN SubSeq(dp, 1, 12 + omitted)
                        ELSE v4prefix) \o Rest, pb - omitted)
        [] ae = 2 ->
             IF \/ omitted > 16 \/ Len(p) < pb - omitted
                \/ omitted > pb
                \/ IF omitted = 0 \/ dp = None THEN omitted > 0 ELSE v4mapped(dp)
             THEN FAIL
             ELSE Read((IF omitted > 0 THEN SubSeq(dp, 1, omitted)
                        ELSE <<>>) \o Rest, pb - omitted)
        [] ae = 3 ->
             IF pb < 8 \/ Len(p) < pb - 8 THEN FAIL
             ELSE Read(<<254, 128, 0, 0, 0, 0, 0, 0>> \o SubSeq(p, 1, pb - 8),
                       pb - 8)
        [] OTHER -> FAIL

\* The channels of an update: the diversity sub-TLV, or a guess.
parse_update_subtlv(metric, sub) ==
  IF sub # None THEN sub
  ELSE IF IF_FARAWAY \/ metric < 256 THEN <<>> ELSE <<255>>

\* The destination of a TLV whose bytes hold a prefix and, if it has a source
\* prefix, that one behind it.
ReadDestination(t, omitted, dp) ==
  LET Plen(n) == IF t.ae = 1 THEN n + 96 ELSE n
      Source(dst) == IF dst.rc < 0 \/ ~t.specific THEN [dst EXCEPT !.prefix = zeroes]
                     ELSE network_prefix(t.ae, t.src_plen, 0,
                            SubSeq(t.bytes, dst.rc + 1, Len(t.bytes)), None)
      Both(dst, src) ==
        IF dst.rc < 0 \/ src.rc < 0 THEN None
        ELSE [prefix |-> dst.prefix, plen |-> Plen(t.plen), src_prefix |-> src.prefix,
              src_plen |-> IF t.specific THEN Plen(t.src_plen) ELSE 0]
  IN  With(network_prefix(t.ae, t.plen, omitted, t.bytes, dp), LAMBDA dst :
           With(Source(dst), LAMBDA src : Both(dst, src)))

\* What parse_packet remembers between the TLVs of a packet.
Parser == [id |-> None, nh |-> None, v4 |-> None, v6 |-> None, msgs |-> <<>>]

ReadUpdateTo(s, t, d) ==
  LET id == IF ~t.flag40 THEN s.id
            ELSE IF t.ae = 1 THEN <<0, 0, 0, 0>> \o SubSeq(d.prefix, 13, 16)
            ELSE SubSeq(d.prefix, 9, 16)
      s1 == [s EXCEPT !.id = id,
               !.v4 = IF t.flag80 /\ t.ae = 1 THEN d.prefix ELSE @,
               !.v6 = IF t.flag80 /\ t.ae # 1 THEN d.prefix ELSE @]
      msg == [type |-> "update", dest |-> d, id |-> id, metric |-> t.metric,
              nh |-> IF t.ae = 1 THEN s.nh ELSE <<>>,
              channels |-> parse_update_subtlv(t.metric, t.sub)]
      wildcard == [type |-> "retraction"]
  IN  IF d = None THEN IF t.flag80 THEN [s EXCEPT !.v4 = None, !.v6 = None] ELSE s
      ELSE IF t.ae = 0
      THEN IF t.metric < 65535 /\ ~t.specific THEN s1
           ELSE [s1 EXCEPT !.msgs = Append(@, wildcard)]
      ELSE IF id = None \/ (t.ae = 1 /\ (s.nh = None \/ ipv4 = None)) THEN s1
      ELSE [s1 EXCEPT !.msgs = Append(@, msg)]

ReadUpdate(s, t) ==
  With(ReadDestination(t, t.omitted, IF t.ae = 1 THEN s.v4 ELSE s.v6),
       LAMBDA d : ReadUpdateTo(s, t, d))

ReadRequest(s, t) ==
  LET d == ReadDestination(t, 0, None)
  IN  IF d = None THEN s
      ELSE [s EXCEPT !.msgs = Append(@,
              IF t.ae = 0
              THEN [type |-> IF t.specific THEN "any specific" ELSE "any"]
              ELSE [type |-> "request", dest |-> d, id |-> t.id])]

\* One turn of the loop of parse_packet.
ReadTlv(s, t) ==
  CASE t.type = "router-id" -> [s EXCEPT !.id = t.id]
    [] t.type = "nh" -> [s EXCEPT !.nh = t.nh]
    [] t.type = "update" -> ReadUpdate(s, t)
    [] t.type = "request" -> ReadRequest(s, t)
    [] t.type \in {"hello", "ihu", "ack"} ->
         [s EXCEPT !.msgs = Append(@, [type |-> t.type])]

parse_packet(tlvs) == Fold(ReadTlv, Parser, tlvs).msgs

-----------------------------------------------------------------------------
(* Writing.  w is the sending side while a handler runs: the packet buffer *)
(* with what later TLVs may leave out, the buffered updates, the unicast   *)
(* buffer, the timers, and the packets and messages of this step.          *)

Idle == [tlvs |-> <<>>, hello |-> FALSE, id |-> None, nh |-> None,
         prefix |-> None, armed |-> FALSE, updates |-> <<>>, uarmed |-> FALSE,
         neigh |-> None, utlvs |-> <<>>, unicast_armed |-> FALSE,
         left |-> FALSE, out |-> <<>>, in |-> <<>>, uin |-> <<>>]

Size(tlvs) == Fold(LAMBDA n, t : n + t.size, 0, tlvs)

\* The end of flushbuf: the packet leaves, and nothing may be left out of the
\* next one.
Emit(w) ==
  [w EXCEPT !.out = IF w.tlvs = <<>> THEN @
                    ELSE Append(@, [to |-> "all", tlvs |-> w.tlvs]),
            !.tlvs = <<>>, !.hello = FALSE, !.id = None, !.nh = None,
            !.prefix = None, !.armed = FALSE, !.left = FALSE]

\* Mutant of ensure_space: the space is not checked.
NoSpaceEnsured(w, space) == w

ensure_space(w, space) == IF bufsize - Size(w.tlvs) < space THEN Emit(w) ELSE w

\* Mutant of Put: end_message does not schedule a flush.
PutUnscheduled(w, t) == [ensure_space(w, t.size) EXCEPT !.tlvs = Append(@, t)]

\* start_message, the accumulate functions and end_message, while no updates
\* are buffered.
Put(w, t) ==
  [ensure_space(w, t.size) EXCEPT !.tlvs = Append(@, t), !.armed = TRUE]

\* The bytes that prefix d shares with the last one that set the default.
Omit(w, d) ==
  LET n == d.plen \div 8
      Shared(k) == \A i \in 1 .. k : w.prefix[i] = d.prefix[i]
  IN  IF w.prefix = None THEN 0
      ELSE CHOOSE k \in 0 .. n : Shared(k) /\ (k = n \/ ~Shared(k + 1))

\* Mutant of WorstCase: the sub-TLVs are forgotten.
WithoutSubTlvs == 20 + 12 + 28

WorstCase == 20 + 12 + 28 + 18

Channels(u) == IF Diversity THEN u.channels ELSE None

Tail16(p, n) == SubSeq(p, n + 1, 16)

\* The TLVs of a destination: the bytes of its prefixes without the first omit.
DestinationBytes(d, omit) ==
  LET v4 == is_v4(d)
      Short(p, plen) == IF v4 THEN SubSeq(p, 13, 12 + PrefixBytes(plen - 96))
                        ELSE SubSeq(p, 1, PrefixBytes(plen))
      dst == Short(d.prefix, d.plen)
  IN  SubSeq(dst, omit + 1, Len(dst)) \o
      (IF d.src_plen = 0 THEN <<>> ELSE Short(d.src_prefix, d.src_plen))

WireLen(d, plen) == IF is_v4(d) THEN plen - 96 ELSE plen

\* The next hop of IPv4 updates, once per packet.
PutNextHop(w, u) ==
  IF ~is_v4(u.dest) \/ w.nh = ipv4 THEN w
  ELSE [Put(w, [type |-> "nh", nh |-> ipv4, size |-> 8]) EXCEPT !.nh = ipv4]

\* A host address made of the router-id announces that id by itself.
IdInPrefix(u) == /\ u.dest.src_plen = 0 /\ ~is_v4(u.dest) /\ u.dest.plen = 128
                 /\ Tail16(u.dest.prefix, 8) = u.id

\* Mutant of PutRouterId: the id that was sent is not remembered when it
\* changes.
PutRouterIdOnce(w, u) ==
  IF w.id # None THEN w
  ELSE [Put(w, [type |-> "router-id", id |-> u.id, size |-> 12])
          EXCEPT !.id = u.id]

PutRouterId(w, u) ==
  IF w.id = u.id \/ IdInPrefix(u) THEN [w EXCEPT !.id = u.id]
  ELSE [Put(w, [type |-> "router-id", id |-> u.id, size |-> 12])
          EXCEPT !.id = u.id]

UpdateTlv(w, u, id_known) ==
  LET d == u.dest
      v4 == is_v4(d)
      omit == IF v4 THEN 0 ELSE Omit(w, d)
      bytes == DestinationBytes(d, omit)
      sub == Channels(u)
  IN  [type |-> "update", specific |-> d.src_plen # 0,
       ae |-> IF v4 THEN 1 ELSE 2,
       flag80 |-> ~v4 /\ d.src_plen = 0 /\ (w.prefix = None \/ d.plen >= 48),
       flag40 |-> ~id_known /\ IdInPrefix(u),
       plen |-> WireLen(d, d.plen), src_plen |-> WireLen(d, d.src_plen),
       omitted |-> omit, metric |-> u.metric, bytes |-> bytes, sub |-> sub,
       size |-> 12 + Len(bytes) + (IF sub = None THEN 0 ELSE 2 + Len(sub))]

\* What the neighbour is to understand.
Meaning(u) == [type |-> "update", dest |-> u.dest, id |-> u.id,
               metric |-> u.metric,
               nh |-> IF is_v4(u.dest) THEN ipv4 ELSE <<>>,
               channels |-> parse_update_subtlv(u.metric, Channels(u))]

\* The update itself, once its next hop and its router-id are there.
PutUpdate(w, u, t) ==
  [Put(w, t) EXCEPT !.in = Append(@, Meaning(u)),
                    !.prefix = IF t.flag80 THEN u.dest.prefix ELSE @]

really_send_update(w, u) ==
  IF u \in Filtered THEN w
  ELSE With(ensure_space(w, WorstCase), LAMBDA w1 :
         IF is_v4(u.dest) /\ ipv4 = None THEN w1
         ELSE With(PutNextHop(w1, u), LAMBDA w2 :
              With(PutRouterId(w2, u), LAMBDA w3 :
              With(UpdateTlv(w3, u, w1.id = u.id), LAMBDA t :
                PutUpdate(w3, u, t)))))

\* compare_buffered_updates: by id, IPv6 first, addresses that carry the id
\* first, longer prefixes first, then by prefix and source prefix.
Before(a, b) ==
  LET Rank(x) == IF x THEN 1 ELSE 0
      v4(u) == Rank(is_v4(u.dest))
      own(u) == Rank(~is_v4(u.dest) /\ u.dest.plen = 128
                     /\ Tail16(u.dest.prefix, 8) = u.id)
      key(u) == u.id \o <<v4(u), 1 - own(u), 128 - u.dest.plen>>
                \o u.dest.prefix \o <<u.dest.src_plen>> \o u.dest.src_prefix
      k == key(a)
      l == key(b)
  IN  \E i \in 1 .. Len(k) : k[i] < l[i] /\ \A j \in 1 .. i - 1 : k[j] = l[j]

\* The same update may be buffered several times: it is sent once, unless no
\* route is found for it.
Once(us) ==
  Fold(LAMBDA s, u : IF s # <<>> /\ Last(s) = u /\ u.found THEN s
                         ELSE Append(s, u), <<>>, us)

flushupdates(w, up) ==
  LET w1 == [w EXCEPT !.updates = <<>>, !.uarmed = FALSE]
  IN  IF w.updates = <<>> \/ ~up THEN w1
      ELSE [Fold(really_send_update, w1, Once(SortSeq(w.updates, Before)))
              EXCEPT !.armed = TRUE]

flushbuf(w, up) == With(flushupdates(w, up), Emit)

start_message(w, t) ==
  With(IF bufsize - Size(w.tlvs) < t.size THEN flushbuf(w, TRUE) ELSE w,
       LAMBDA v : Put(v, t))

\* The buffer of updates fills: it is flushed first.
buffer_update(w, u, up) ==
  [IF Len(w.updates) >= UpdateBufsize THEN flushupdates(w, up) ELSE w
     EXCEPT !.updates = Append(@, u), !.uarmed = TRUE]

Hand(w, msg) == [w EXCEPT !.in = Append(@, msg)]

send_hello_noupdate(w, up) ==
  LET t == [type |-> "hello", size |-> IF IF_TIMESTAMPS THEN 14 ELSE 8]
      Say(v) == IF ~up THEN v
                ELSE Hand([start_message(v, t) EXCEPT !.hello = TRUE],
                          [type |-> "hello"])
  IN  With(IF w.hello THEN flushbuf(w, up) ELSE w, Say)

IhuTlv(rtt) == [type |-> "ihu", size |-> IF rtt THEN 26 ELSE 16]

send_wildcard_retraction(w) ==
  LET t == [type |-> "update", specific |-> FALSE, ae |-> 0, flag80 |-> FALSE,
            flag40 |-> FALSE, plen |-> 0, src_plen |-> 0, omitted |-> 0,
            metric |-> 65535, bytes |-> <<>>, sub |-> None, size |-> 12]
  IN  Hand([start_message(w, t) EXCEPT !.id = None], [type |-> "retraction"])

\* MESSAGE_REQUEST and MESSAGE_MH_REQUEST, with or without a source prefix; a
\* request for anything has no destination.
RequestTlv(r) ==
  LET any == r.type # "request"
      specific == IF any THEN r.type = "any specific" ELSE r.dest.src_plen # 0
      bytes == IF any THEN <<>> ELSE DestinationBytes(r.dest, 0)
  IN  [type |-> "request", specific |-> specific,
       ae |-> IF any THEN 0 ELSE IF is_v4(r.dest) THEN 1 ELSE 2,
       plen |-> IF any THEN 0 ELSE WireLen(r.dest, r.dest.plen),
       src_plen |-> IF any THEN 0 ELSE WireLen(r.dest, r.dest.src_plen),
       id |-> IF any THEN None ELSE r.id, bytes |-> bytes,
       size |-> Len(bytes) + (IF any \/ r.id = None
                              THEN IF specific THEN 5 ELSE 4 ELSE 16)]

\* Updates that are buffered go out before a request.
send_request(w, r, up) ==
  LET Say(v) == IF ~up THEN v ELSE Hand(start_message(v, RequestTlv(r)), r)
  IN  With(flushupdates(w, up), Say)

-----------------------------------------------------------------------------
(* The unicast buffer, shared by all neighbours.                           *)

\* What was buffered before on the interface leaves first.
flush_unicast(w, up) ==
  LET w1 == IF w.utlvs = <<>> \/ ~up THEN w
            ELSE LET v == flushbuf(w, up)
                 IN  [v EXCEPT !.out = Append(@, [to |-> w.neigh,
                                                  tlvs |-> w.utlvs])]
  IN  [w1 EXCEPT !.utlvs = <<>>, !.neigh = None, !.unicast_armed = FALSE]

start_unicast_message(w, n, t, up) ==
  LET limit == IF ~up THEN 0
               ELSE IF UNICAST_BUFSIZE < bufsize THEN UNICAST_BUFSIZE ELSE bufsize
      w1 == IF w.neigh # None /\ (n # w.neigh \/ Size(w.utlvs) + t.size >= limit)
            THEN flush_unicast(w, up) ELSE w
  IN  [w1 EXCEPT !.neigh = n, !.utlvs = Append(@, t), !.unicast_armed = TRUE]

HandTo(w, msg) == [w EXCEPT !.uin = Append(@, msg)]

send_ack(w, n, up) ==
  HandTo(start_unicast_message(w, n, [type |-> "ack", size |-> 4], up),
         [type |-> "ack"])

\* A request to one neighbour.
send_unicast_request(w, n, r, up) ==
  With(flushupdates(w, up), LAMBDA v :
         HandTo(start_unicast_message(v, n, RequestTlv(r), up), r))

\* An IHU goes with what is buffered for its neighbour, or to everyone.
send_ihu(w, n, rtt, up) ==
  IF ~up THEN w
  ELSE IF w.neigh # n THEN Hand(start_message(w, IhuTlv(rtt)), [type |-> "ihu"])
  ELSE HandTo(start_unicast_message(w, n, IhuTlv(rtt), up), [type |-> "ihu"])

-----------------------------------------------------------------------------
(* The router's side: the handlers that fill the buffers and the timers    *)
(* that flush them.                                                        *)

CONSTANT Neighbours   \* the list of neighbours on the interface

VARIABLES
  up,     \* if_up(ifp)
  w,      \* the sending side
  waiting, \* what a neighbour would read of the two buffers
  in,     \* handed over in the last step, to everyone and to one neighbour
  got     \* read of the packets of the last step

vars == <<up, w, waiting, in, got>>

Nothing == [multi |-> <<>>, uni |-> <<>>]

Init == /\ up = TRUE /\ w = Idle
        /\ waiting = Nothing /\ in = Nothing /\ got = Nothing

\* A handler left the sending side as v: its packets arrive or are lost.
Becomes(x) == \E v \in {x} :
  /\ \E arrived \in SUBSET (1 .. Len(v.out)) :
       LET Read(all) ==
             Fold(LAMBDA s, i : IF /\ i \in arrived
                                       /\ (v.out[i].to = "all") = all
                                    THEN s \o parse_packet(v.out[i].tlvs)
                                    ELSE s,
                      <<>>, [i \in 1 .. Len(v.out) |-> i])
       IN  got' = [multi |-> Read(TRUE), uni |-> Read(FALSE)]
  /\ in' = [multi |-> v.in, uni |-> v.uin]
  /\ waiting' = [multi |-> parse_packet(v.tlvs), uni |-> parse_packet(v.utlvs)]
  /\ w' = [v EXCEPT !.out = <<>>, !.in = <<>>, !.uin = <<>>]

Room == Len(w.tlvs) + Len(w.updates) + Len(w.utlvs) < MaxMessages

SendUpdate(u) == /\ Room /\ up /\ Becomes(buffer_update(w, u, up))
                 /\ UNCHANGED up

\* A hello, and IHUs to all neighbours or to the marginal ones.
Hello(v, some) ==
  Fold(LAMBDA x, n : IF n \in some THEN send_ihu(x, n, IF_TIMESTAMPS, TRUE)
                         ELSE x,
           send_hello_noupdate(v, TRUE), Neighbours)

SendHello(some) == Room /\ up /\ Becomes(Hello(w, some)) /\ UNCHANGED up

SendIhu(n) == /\ Room /\ up /\ Becomes(send_ihu(w, n, FALSE, up))
              /\ UNCHANGED up

SendRetraction == /\ Room /\ up /\ Becomes(send_wildcard_retraction(w))
                  /\ UNCHANGED up

SendRequest(r) == /\ Room /\ up /\ Becomes(send_request(w, r, up))
                  /\ UNCHANGED up

SendUnicastRequest(n, r) == /\ Room /\ Becomes(send_unicast_request(w, n, r, up))
                            /\ UNCHANGED up

SendAck(n) == Room /\ up /\ Becomes(send_ack(w, n, up)) /\ UNCHANGED up

\* The timers of the main loop.
FlushUpdates == up /\ w.uarmed /\ Becomes(flushupdates(w, up)) /\ UNCHANGED up

Flush == up /\ w.armed /\ Becomes(flushbuf(w, up)) /\ UNCHANGED up

FlushUnicast == w.unicast_armed /\ Becomes(flush_unicast(w, up)) /\ UNCHANGED up

FlushNeighbour(n) == w.neigh = n /\ Becomes(flush_unicast(w, up)) /\ UNCHANGED up

\* interface_up(ifp, 0): the buffers go, what was left out of TLVs stays.
InterfaceDown ==
  /\ up /\ up' = FALSE
  /\ Becomes([w EXCEPT !.tlvs = <<>>, !.updates = <<>>, !.left = TRUE])

\* interface_up(ifp, 1): a hello, a full update if the IPv4 address is new, and
\* requests for everything.
InterfaceUp(full) ==
  LET Full(v) == IF ~full THEN v
                 ELSE Fold(LAMBDA x, u : buffer_update(x, u, TRUE), v,
                           SetToSeq(Updates))
      Wildcard(v, type) == send_request(v, [type |-> type], TRUE)
  IN  /\ ~up /\ up' = TRUE
      /\ Becomes(Fold(Wildcard, With(Hello(w, {}), Full),
                      <<"any", "any specific">>))

Next ==
  \/ \E u \in Updates : SendUpdate(u)
  \/ \E some \in SUBSET ToSet(Neighbours) : SendHello(some)
  \/ \E n \in ToSet(Neighbours) :
       SendIhu(n) \/ SendAck(n) \/ FlushNeighbour(n)
       \/ \E r \in Requests : SendUnicastRequest(n, r)
  \/ \E r \in Requests : SendRequest(r)
  \/ SendRetraction \/ FlushUpdates \/ Flush \/ FlushUnicast
  \/ InterfaceDown
  \/ \E full \in BOOLEAN : InterfaceUp(full)

Spec == Init /\ [][Next]_vars

-----------------------------------------------------------------------------

Messages(tlvs) == SelectSeq(tlvs, LAMBDA t : t.type \notin {"router-id", "nh"})

\* A packet is understood by itself: whatever was sent, lost or flushed before
\* it, a neighbour reads every message that really_send_update and the others
\* put into a packet, although the next hop, the router-id and parts of
\* prefixes are sent once per packet only.  (interface_up leaves what was
\* remembered of a buffer that it frees: until the next flush, w.left, TLVs may
\* lack it.)
Decodable == /\ ~w.left => Len(waiting.multi) = Len(Messages(w.tlvs))
             /\ Len(waiting.uni) = Len(w.utlvs)

\* Neither buffer overflows (the assertion of flushbuf), and a packet holds one
\* hello at most: a second one breaks the estimation of link quality.
Bounded == /\ Size(w.tlvs) <= bufsize
           /\ Size(w.utlvs) <= UNICAST_BUFSIZE
           /\ Len(SelectSeq(w.tlvs, LAMBDA t : t.type = "hello")) <= 1

\* Nothing is left behind in a buffer: while something waits in one of the
\* three, its timer is set, and the unicast buffer has a neighbour.
FlushArmed == /\ up /\ w.tlvs # <<>> => w.armed
              /\ w.updates # <<>> => w.uarmed
              /\ w.utlvs # <<>> => w.unicast_armed /\ w.neigh # None

\* The buffers implement Channel, read as a neighbour would read them.
Promise == INSTANCE Channel WITH multi <- waiting.multi,
                                 uni <- waiting.uni

\* However messages are compressed, buffered, flushed and lost, a neighbour
\* reads them in order, at most once and as they were meant, and a unicast
\* message never overtakes what was buffered for everyone.
ImplementsChannel == Promise!Spec

=============================================================================
