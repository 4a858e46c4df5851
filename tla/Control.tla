------------------------------- MODULE Control -------------------------------
(***************************************************************************)
(* The control connections (local.c, and the main loop of babeld.c): the   *)
(* daemon reads its configuration, then clients connect, send lines, read  *)
(* replies and notices of interfaces, and go away.  A client may stop      *)
(* reading until its socket is full, and may send several lines, or a part *)
(* of one, at a time.  Notices of neighbours and routes are sent by the    *)
(* same code as those of interfaces and are left out.                      *)
(***************************************************************************)
EXTENDS Config

CONSTANTS
  Clients, MAX_LOCAL_SOCKETS,
  LOCAL_BUFSIZE,             \* in lines
  Servers,                   \* the control server of the command line's -g and -G
  StartLines, Lines,         \* what may be configured, and what clients send
  Arguments,                 \* the interfaces of the command line
  NoClient,
  MaxLines, MaxServed,       \* bounds on the lines, without and with a server
  MaxSends, MaxStalls        \* bounds on what clients send and on stalls

ASSUME SocketsAssumption == /\ MAX_LOCAL_SOCKETS \in Nat \ {0}
                            /\ LOCAL_BUFSIZE \in Nat \ {0} /\ NoClient \notin Clients
ASSUME LinesAssumption ==
  /\ \A l \in StartLines \cup Lines : l.is \in LineKinds
  /\ \A arguments \in Arguments : Len(arguments) \in Nat

VARIABLES
  conf, text, phase,   \* the configuration and the lines it was parsed from
  sockets,             \* local_sockets: client, buf, monitor
  spin,                \* the client on which the loop over sockets spins
  peer,                \* per client: new, connected, open, closed; gone before accept
  sent,                \* per client: what its socket holds for the daemon
  full, shut,          \* clients that do not read; shut down for writing
  asked, lockstep,     \* replies a client waits for; it never sent ahead of one
  subscribed, view,    \* clients told "ok" to monitor; the interfaces they know
  sends, stalls

daemonVars == <<conf, sockets, spin, shut>>
clientVars == <<peer, sent, full, lockstep>>
vars == <<conf, text, phase, sockets, spin, peer, sent, full, shut, asked, lockstep,
          subscribed, view, sends, stalls>>

PART == [is |-> "part"]   \* bytes without a newline

Init ==
  /\ \E server \in Servers : conf = [Unconfigured EXCEPT !.server = server]
  /\ text = << >> /\ phase = "start"
  /\ sockets = << >> /\ spin = NoClient
  /\ peer = [c \in Clients |-> "new"] /\ sent = [c \in Clients |-> << >>]
  /\ full = {} /\ shut = {} /\ subscribed = {}
  /\ asked = [c \in Clients |-> 0] /\ lockstep = Clients
  /\ view = [c \in Clients |-> {}]
  /\ sends = 0 /\ stalls = 0

-----------------------------------------------------------------------------
(* The start.                                                              *)

\* A line that cannot be parsed ends the program, and so does abort().
Configure(l) ==
  /\ phase = "start"
  /\ LET r == parse_config_line(conf, l)
     IN  /\ Len(text) < IF r.c.server = "none" THEN MaxLines ELSE MaxServed
         /\ conf' = r.c
         /\ phase' = IF r.action = "bad" \/ r.c.aborted THEN "failed" ELSE "start"
  /\ text' = Append(text, l)
  /\ UNCHANGED <<sockets, spin, peer, sent, full, shut, asked, lockstep, subscribed,
                 view, sends, stalls>>

Start ==
  /\ phase = "start"
  /\ \E arguments \in Arguments : conf' = finalise_config(conf, arguments)
  /\ phase' = "run"
  /\ UNCHANGED <<text, sockets, spin, peer, sent, full, shut, asked, lockstep,
                 subscribed, view, sends, stalls>>

-----------------------------------------------------------------------------
(* The clients.                                                            *)

Connect(c) ==
  /\ phase = "run" /\ conf.server # "none" /\ peer[c] = "new"
  /\ peer' = [peer EXCEPT ![c] = "connected"]
  /\ UNCHANGED <<daemonVars, text, phase, sent, full, lockstep, asked, subscribed, view,
                 sends, stalls>>

\* A line, after the header; one sent before the last reply came is sent ahead.
Send(c, l) ==
  /\ peer[c] = "open" /\ sends < MaxSends
  /\ sent' = [sent EXCEPT ![c] = Append(sent[c], l)]
  /\ asked' = IF l = PART THEN asked ELSE [asked EXCEPT ![c] = asked[c] + 1]
  /\ lockstep' = IF asked[c] > 0 THEN lockstep \ {c} ELSE lockstep
  /\ sends' = sends + 1
  /\ UNCHANGED <<daemonVars, text, phase, peer, full, subscribed, view, stalls>>

\* The client stops reading.
Stall(c) ==
  /\ peer[c] = "open" /\ c \notin full /\ stalls < MaxStalls
  /\ full' = full \cup {c} /\ stalls' = stalls + 1
  /\ UNCHANGED <<daemonVars, text, phase, peer, sent, lockstep, asked, subscribed, view,
                 sends>>

Resume(c) ==
  /\ c \in full /\ peer[c] = "open" /\ full' = full \ {c}
  /\ UNCHANGED <<daemonVars, text, phase, peer, sent, lockstep, asked, subscribed, view,
                 sends, stalls>>

Close(c) ==
  /\ \/ peer[c] = "connected" /\ peer' = [peer EXCEPT ![c] = "gone"]
     \/ peer[c] = "open" /\ peer' = [peer EXCEPT ![c] = "closed"]
  /\ UNCHANGED <<daemonVars, text, phase, sent, full, lockstep, asked, subscribed, view,
                 sends, stalls>>

-----------------------------------------------------------------------------
(* The daemon.                                                             *)

\* What write_timeout may return, or leave in errno.
write_timeout(c, shutdown) ==
  IF c \in shutdown THEN {"EPIPE"}
  ELSE IF peer[c] \in {"gone", "closed"} THEN {"ok", "EPIPE"}
  ELSE IF c \in full THEN {"EAGAIN"} ELSE {"ok"}

\* The server socket is selected while there is a free slot.  local_header's
\* failure leaves the slot, shut down.
accept_local_connections(c) ==
  /\ spin = NoClient /\ Len(sockets) < MAX_LOCAL_SOCKETS
  /\ \/ peer[c] = "connected" /\ peer' = [peer EXCEPT ![c] = "open"]
     \/ peer[c] = "gone" /\ peer' = [peer EXCEPT ![c] = "closed"]
  /\ sockets' = Append(sockets, [client |-> c, buf |-> << >>, monitor |-> FALSE])
  /\ \E r \in write_timeout(c, shut) : shut' = IF r = "ok" THEN shut ELSE shut \cup {c}
  /\ UNCHANGED <<conf, text, phase, spin, sent, full, asked, lockstep, subscribed, view,
                 sends, stalls>>

\* Mutant of local_socket_destroy: the slot that moves no longer monitors.
MoveUnmonitored(s, i) ==
  SubSeq([s EXCEPT ![i] = [s[Len(s)] EXCEPT !.monitor = FALSE]], 1, Len(s) - 1)

\* The last slot takes the place of the one that is freed.
local_socket_destroy(s, i) ==
  SubSeq([s EXCEPT ![i] = s[Len(s)]], 1, Len(s) - 1)

\* Notices change what those know that can be written to; the others are shut
\* down.
Told(to, known) ==
  /\ \E lost \in SUBSET {c \in to : peer[c] = "closed"} :
       shut' = shut \cup (to \cap full) \cup lost
  /\ view' = [c \in Clients |->
               IF c \in to \ (full \cup shut) THEN known[c] ELSE view[c]]

\* local_notify_all_1: nothing is written when there are no interfaces.
local_notify_all_1(c) ==
  IF conf.ifs = << >> THEN view' = [view EXCEPT ![c] = {}] /\ UNCHANGED shut
  ELSE Told({c}, [view EXCEPT ![c] = Names(conf)])

\* local_notify_interface, from add_interface and flush_interface.
local_notify_interface(d) ==
  Told({sockets[i].client : i \in {i \in DOMAIN sockets : sockets[i].monitor}},
       [c \in Clients |-> (view[c] \cup Names(d)) \ (Names(conf) \ Names(d))])

\* Mutant of Reply: a refusal is not reported.
ReplyUnlessNo(action) == action \notin {"quit", "no"}

\* Everything but quit has a reply.
Reply(action) == action # "quit"

\* The first line of a buffer ends where its first newline is; 0 without one.
Eol(buf) ==
  LET ends == {i \in DOMAIN buf : buf[i] # PART}
  IN  IF ends = {} THEN 0 ELSE CHOOSE i \in ends : \A j \in ends : i <= j

Same == UNCHANGED <<text, phase, peer, full, lockstep, sends, stalls>>

\* The socket is readable: the client closed it, and all it sent was read.
ReadEnd(i) ==
  LET c == sockets[i].client
  IN  /\ peer[c] = "closed" /\ sent[c] = << >> /\ Len(sockets[i].buf) < LOCAL_BUFSIZE
      /\ sockets' = local_socket_destroy(sockets, i)
      /\ spin' = NoClient
      /\ UNCHANGED <<conf, shut, sent, asked, subscribed, view>> /\ Same

\* The buffer is full when there is more to read.
ReadTooLong(i) ==
  LET c == sockets[i].client
  IN  /\ sent[c] # << >> \/ peer[c] = "closed"
      /\ Len(sockets[i].buf) >= LOCAL_BUFSIZE
      /\ shut' = shut \cup {c}
      /\ sockets' = local_socket_destroy(sockets, i)
      /\ spin' = NoClient
      /\ UNCHANGED <<conf, sent, asked, subscribed, view>> /\ Same

\* One read, and the first line of the buffer: a second one stays there until
\* there is more to read.  A reply that times out leaves EAGAIN, on which the loop
\* tries the same socket again, and the line in the buffer.
ReadLine(i) ==
  LET s == sockets[i]
      c == s.client
      room == LOCAL_BUFSIZE - Len(s.buf)
      n == Smaller(Len(sent[c]), room)
      buf == s.buf \o SubSeq(sent[c], 1, n)
      eol == Eol(buf)
      r == parse_config_line(conf, buf[eol])
      monitor == CASE r.action = "monitor" -> TRUE
                   [] r.action = "unmonitor" -> FALSE
                   [] OTHER -> s.monitor
      rest == SubSeq(buf, eol + 1, Len(buf))
      now(b, m) == [sockets EXCEPT ![i] = [client |-> c, buf |-> b, monitor |-> m]]
  IN  /\ n > 0
      /\ sent' = [sent EXCEPT ![c] = SubSeq(sent[c], n + 1, Len(sent[c]))]
      /\ IF eol = 0
         THEN /\ sockets' = now(buf, s.monitor) /\ spin' = NoClient
              /\ UNCHANGED <<conf, shut, asked, subscribed, view>>
         ELSE /\ conf' = r.c
              /\ CASE r.action \in {"dump", "monitor"} -> local_notify_all_1(c)
                   [] r.action = "quit" -> shut' = shut \cup {c} /\ UNCHANGED view
                   [] Names(r.c) # Names(conf) -> local_notify_interface(r.c)
                   [] OTHER -> UNCHANGED <<shut, view>>
              /\ \E w \in IF Reply(r.action) THEN write_timeout(c, shut') ELSE {"ok"} :
                   /\ sockets' = CASE w = "ok" -> now(rest, monitor)
                                   [] w = "EAGAIN" -> now(buf, monitor)
                                   [] w = "EPIPE" -> local_socket_destroy(sockets, i)
                   /\ spin' = IF w = "EAGAIN" THEN c ELSE NoClient
                   /\ asked' = IF w = "ok" /\ Reply(r.action)
                               THEN [asked EXCEPT ![c] = asked[c] - 1] ELSE asked
                   /\ subscribed' = CASE w = "ok" /\ r.action = "monitor" -> subscribed \cup {c}
                                      [] r.action = "unmonitor" -> subscribed \ {c}
                                      [] OTHER -> subscribed
      /\ Same

\* The loop over the sockets; it stays on one that it was told to try again.
local_read(i) ==
  /\ i <= Len(sockets)
  /\ spin \in {NoClient, sockets[i].client}
  /\ ReadEnd(i) \/ ReadTooLong(i) \/ ReadLine(i)

ClientNext ==
  \E c \in Clients : \/ Connect(c) \/ Stall(c) \/ Resume(c) \/ Close(c)
                     \/ \E l \in Lines \cup {PART} : Send(c, l)

Next ==
  \/ \E l \in StartLines : Configure(l)
  \/ Start
  \/ ClientNext
  \/ \E c \in Clients : accept_local_connections(c)
  \/ \E i \in 1..MAX_LOCAL_SOCKETS : local_read(i)

Spec == Init /\ [][Next]_vars

-----------------------------------------------------------------------------
(* Properties.                                                             *)

CONSTANT Routes   \* the routes that the filters are asked about

\* The meaning of a filtering rule in the manual: each selector is about the
\* route, and lengths are those of the rule's own family, IPv6 if it has none.
OwnLength(r) == IF r.af = 4 THEN r.plen - V4 ELSE r.plen

Has(l, kinds) == \E k \in DOMAIN l.tokens : l.tokens[k].is \in kinds

Selects(l, r) ==
  /\ \A k \in DOMAIN l.tokens :
       LET t == l.tokens[k]
       IN  CASE t.is = "ip" -> /\ r.af = t.af /\ OwnLength(r) >= t.plen
                               /\ t.plen > 0 => r.bit = t.bit
             [] t.is = "le" -> OwnLength(r) <= t.n
             [] t.is = "ge" -> OwnLength(r) >= t.n
             [] t.is = "eq" -> OwnLength(r) = t.n
             [] t.is = "proto" -> r.proto = t.n
             [] t.is = "local" -> r.proto = RTPROT_BABEL_LOCAL
             [] OTHER -> TRUE
  /\ Has(l, {"le", "ge", "eq"}) /\ ~Has(l, {"ip"}) => r.af = 6
  /\ ~Has(l, {"proto", "local"}) => r.proto \notin {RTPROT_BABEL_LOCAL, RTPROT_BOOT}

Action(l) ==
  IF Has(l, {"deny"}) THEN INFINITY
  ELSE IF Has(l, {"metric"})
       THEN l.tokens[CHOOSE k \in DOMAIN l.tokens : l.tokens[k].is = "metric"].n ELSE 0

Written(kind, r, otherwise) ==
  LET hits == {i \in DOMAIN text : text[i].is = kind /\ Selects(text[i], r)}
  IN  IF hits = {} THEN otherwise
      ELSE Action(text[CHOOSE i \in hits : \A j \in hits : i <= j])

FiltersAsWritten ==
  \A r \in Routes :
    /\ redistribute_filter(conf, r) =
         Written("redistribute", r, IF r.proto = RTPROT_BABEL_LOCAL THEN 0 ELSE INFINITY)
    /\ r.proto = 0 => input_filter(conf, r) = Written("in", r, 0)

\* The last cost that the lines of a kind gave, 0 if none did.
LastCost(is, name) ==
  LET given == {i \in DOMAIN text : /\ text[i].is = is /\ text[i].cost # 0
                                    /\ is = "interface" => text[i].name = name}
  IN  IF given = {} THEN 0 ELSE text[CHOOSE i \in given : \A j \in given : j <= i].cost

\* The configuration means what it says, in whatever order its lines came: when
\* the daemon starts to serve, each route is filtered by the first rule that
\* selects it in the manual's words (without one, local addresses are redistributed,
\* other routes are not, and routes are accepted); and an interface of the start
\* keeps the last cost its own lines gave, else the default's, whatever clients
\* configure later (parse_filter, filter_match, merge_ifconf, finalise_config).
AsWritten ==
  /\ phase = "run" /\ (\A c \in Clients : peer[c] = "new") => FiltersAsWritten
  /\ \A i \in DOMAIN conf.ifs :
       conf.ifs[i].first =>
         LET own == LastCost("interface", conf.ifs[i].name)
         IN  conf.heap[conf.ifs[i].conf].cost =
               IF own # 0 THEN own ELSE LastCost("default", "")

\* No interface, and no entry of interface_confs, refers to a configuration that
\* was freed, in any sequence of interface, flush and default lines (flush_ifconf).
ConfAlive ==
  /\ \A i \in DOMAIN conf.ifs : LET id == conf.ifs[i].conf
                               IN  id # 0 => conf.heap[id].alive
  /\ \A id \in Listed(conf) : conf.heap[id].alive

\* A client that was told "ok" to monitor, and was not shut down, knows exactly
\* the interfaces there are, however connections come and go around it
\* (local_notify_interface, local_socket_destroy).
MonitorsAgree ==
  \A c \in subscribed : peer[c] = "open" /\ c \notin shut => view[c] = Names(conf)

\* The request of a client that waits for each reply before it sends the next
\* line is never left in the daemon's buffer, which select does not look at: until
\* it is answered, or the client is shut down, it is in the socket, unless the loop
\* spins on a client that does not read (local_read).
NoneStranded ==
  \A c \in lockstep :
    asked[c] > 0 /\ peer[c] = "open" /\ c \notin shut /\ spin = NoClient
      => sent[c] # << >>
=============================================================================
