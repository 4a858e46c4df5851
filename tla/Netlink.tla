------------------------------ MODULE Netlink ------------------------------
(***************************************************************************)
(* How the router and the kernel talk (kernel_netlink.c): requests and     *)
(* dumps on the command socket, announcements on the listening socket, and *)
(* the main loop that turns announcements and timers into dumps.  Another  *)
(* process may send to the command socket, announcements overflow the      *)
(* buffer of the listening socket, and requests fail to leave.             *)
(***************************************************************************)
EXTENDS Integers, Sequences

CONSTANTS
  Short, Long, \* kernel_dump_time: 30 s and 300 s, in ticks
  SeqMod,      \* 2^16: nl_command.seqno is an unsigned short
  MaxQueue,    \* announcements that the socket's buffer holds
  MaxChanges,  \* bound: changes of the kernel's tables
  MaxTalks,    \* bound: requests that change the kernel's tables
  MaxFaults    \* bound: foreign messages and requests that do not leave

\* Fewer exchanges are broken off than there are sequence numbers.
ASSUME NetlinkAssumption ==
  /\ MaxFaults \in Nat /\ SeqMod \in Nat /\ MaxFaults < SeqMod
  /\ Short \in Nat /\ Long \in Nat /\ MaxQueue \in Nat \ {0}

VARIABLES
  table,   \* the kernel's tables: how often others have changed each
  seen,    \* the version of each that the router has last read
  flags,   \* kernel_routes_changed, kernel_addr_changed, ...
  due,     \* ticks until kernel_dump_time
  listen,  \* announcements in the buffer of nl_listen
  overrun, \* one was lost: the next read of nl_listen fails with ENOBUFS
  answers, \* messages in the buffer of nl_command
  seqno,   \* nl_command.seqno
  job,     \* the exchange on nl_command that is under way
  verdict, \* what netlink_talk said last, and what the kernel had done
  changes, talks, faults

vars == <<table, seen, flags, due, listen, overrun, answers, seqno, job,
          verdict, changes, talks, faults>>

command == <<answers, seqno, job>>

\* The order in which check_xroutes and check_rules ask for the tables.
Dumped == <<"addr", "route6", "route4", "rule6", "rule4">>
Tables == {Dumped[k] : k \in DOMAIN Dumped}

\* The notify functions of babeld.c: the flag that an announcement sets.
Flag == [addr |-> "addr", route6 |-> "routes", route4 |-> "routes",
         rule6 |-> "rules", rule4 |-> "rules", link |-> "link"]

Torn == -1 \* not all of the rows of a table
Idle == [kind |-> "idle"]
Foreign == [is |-> "foreign", seq |-> -1]

Fault == faults < MaxFaults /\ faults' = faults + 1

-----------------------------------------------------------------------------
(* The command socket.                                                     *)

\* Mutant of Matches: any answer will do.
AnyAnswer(m) == TRUE

\* netlink_read: nlmsg_pid and nlmsg_seq must be those of the request.
Matches(m) == m.seq = seqno

\* The kernel's answer to a dump: rows that carry the contents, and their end.
DumpAnswer(t, s) ==
  LET row == [is |-> "row", seq |-> s, table |-> t, has |-> table[t]]
  IN  <<row, row, [is |-> "done", seq |-> s]>>

Step(k) == [kind |-> "dump", at |-> k, sent |-> FALSE, rows |-> 0, has |-> Torn,
            asked |-> Torn]

\* The dumps go on with number k.  After the last one the flags are cleared,
\* whether or not a dump has failed.
Continue(k) ==
  IF k <= Len(Dumped)
  THEN job' = Step(k) /\ UNCHANGED <<flags, due>>
  ELSE job' = Idle /\ flags' = flags \cap {"link"} /\ due' = Long

\* A dump has failed.  kernel_addresses and kernel_routes ignore that and
\* return what they have found; only check_rules gives up.
Failed ==
  LET k == job.at
      torn == CASE k = 1 -> {"addr"} [] k = 2 -> {"route6", "route4"}
                [] k = 3 -> {"route4"} [] OTHER -> {}
      next == CASE k = 1 -> 2 [] k \in {2, 3} -> 4 [] OTHER -> 6
  IN  /\ seen' = [t \in Tables |-> IF t \in torn THEN Torn ELSE seen[t]]
      /\ Continue(next)

Succeeded ==
  /\ seen' = [seen EXCEPT ![Dumped[job.at]] =
                IF job.rows >= 2 THEN job.has ELSE Torn]
  /\ Continue(job.at + 1)

\* netlink_send_dump.
SendDump ==
  /\ job.kind = "dump" /\ ~job.sent
  /\ seqno' = (seqno + 1) % SeqMod
  /\ \/ /\ answers' = answers \o DumpAnswer(Dumped[job.at], seqno')
        /\ job' = [job EXCEPT !.sent = TRUE, !.asked = table[Dumped[job.at]]]
        /\ UNCHANGED <<seen, flags, due, faults>>
     \/ /\ Fault /\ Failed /\ UNCHANGED answers
  /\ UNCHANGED <<table, listen, overrun, verdict, changes, talks>>

\* An announcement reaches the listening socket, or its buffer is full.
Announce(m) ==
  IF Len(listen) < MaxQueue
  THEN listen' = Append(listen, m) /\ UNCHANGED overrun
  ELSE overrun' = TRUE /\ UNCHANGED listen

\* netlink_talk: the request leaves and the kernel accepts or refuses it, or it
\* does not leave (a socket that is busy is waited for, but nothing is sent
\* again).  netlink_install_filter keeps announcements of our own routes away,
\* those of our own rules arrive.
Talk(t) ==
  /\ job = Idle /\ talks < MaxTalks /\ talks' = talks + 1
  /\ seqno' = (seqno + 1) % SeqMod
  /\ \/ \E ok \in BOOLEAN :
          /\ answers' = Append(answers, [is |-> "ack", seq |-> seqno', ok |-> ok])
          /\ job' = [kind |-> "talk", did |-> ok]
          /\ IF ok /\ t = "rule6" THEN Announce([about |-> t, own |-> TRUE])
             ELSE UNCHANGED <<listen, overrun>>
          /\ UNCHANGED <<verdict, faults>>
     \/ /\ Fault /\ verdict' = [said |-> FALSE, did |-> FALSE]
        /\ UNCHANGED <<answers, job, listen, overrun>>
  /\ UNCHANGED <<table, seen, flags, due, changes>>

\* netlink_read of nl_command, one message.
Read ==
  LET m == Head(answers)
      end(ok) == IF job.kind = "talk"
                 THEN /\ verdict' = [said |-> ok, did |-> job.did] /\ job' = Idle
                      /\ UNCHANGED <<seen, flags, due>>
                 ELSE (IF ok THEN Succeeded ELSE Failed) /\ UNCHANGED verdict
  IN  /\ answers # << >> /\ (job.kind = "talk" \/ (job.kind = "dump" /\ job.sent))
      /\ answers' = Tail(answers)
      /\ CASE m = Foreign -> end(FALSE)
           [] m # Foreign /\ ~Matches(m) -> UNCHANGED <<seen, flags, due, verdict, job>>
           [] m # Foreign /\ Matches(m) /\ m.is = "done" -> end(TRUE)
           [] m # Foreign /\ Matches(m) /\ m.is = "ack" -> end(m.ok)
           [] OTHER -> /\ job' = IF job.kind = "talk" THEN job
                                 ELSE [job EXCEPT !.rows = @ + 1, !.has = m.has]
                       /\ UNCHANGED <<seen, flags, due, verdict>>
      /\ UNCHANGED <<table, listen, overrun, seqno, changes, talks, faults>>

-----------------------------------------------------------------------------
(* The main loop.                                                          *)

\* kernel_callback: a read that fails with ENOBUFS is repeated; what we have
\* done ourselves is ignored.
Callback ==
  LET m == Head(listen)
  IN  /\ job = Idle /\ listen # << >>
      /\ listen' = Tail(listen) /\ overrun' = FALSE
      /\ flags' = IF m.own THEN flags ELSE flags \cup {Flag[m.about]}
      /\ UNCHANGED <<table, seen, due, command, verdict, changes, talks, faults>>

\* check_interfaces reads the links without netlink.
CheckInterfaces ==
  /\ job = Idle /\ flags \cap {"link", "addr"} # {}
  /\ flags' = flags \ {"link"}
  /\ UNCHANGED <<table, seen, due, listen, overrun, command, verdict, changes,
                 talks, faults>>

\* Mutant of DumpWanted: tables are read when they are said to have changed.
OnlyWhenTold == flags \cap {"routes", "addr", "rules"} # {}

DumpWanted == flags \cap {"routes", "addr", "rules"} # {} \/ due = 0

\* check_xroutes and check_rules begin.
CheckTables ==
  /\ job = Idle /\ DumpWanted /\ job' = Step(1)
  /\ UNCHANGED <<table, seen, flags, due, listen, overrun, answers, seqno,
                 verdict, changes, talks, faults>>

Tick ==
  /\ job = Idle /\ due > 0 /\ due' = due - 1
  /\ UNCHANGED <<table, seen, flags, listen, overrun, command, verdict, changes,
                 talks, faults>>

-----------------------------------------------------------------------------
(* The others.                                                             *)

Change(t) ==
  /\ changes < MaxChanges /\ changes' = changes + 1
  /\ table' = IF t = "link" THEN table ELSE [table EXCEPT ![t] = @ + 1]
  /\ Announce([about |-> t, own |-> FALSE])
  /\ UNCHANGED <<seen, flags, due, command, verdict, talks, faults>>

\* Another process sends a message to the command socket.
Disturb ==
  /\ Fault /\ answers' = Append(answers, Foreign)
  /\ UNCHANGED <<table, seen, flags, due, listen, overrun, seqno, job, verdict,
                 changes, talks>>

Init ==
  /\ table = [t \in Tables |-> 0] /\ seen = table
  /\ flags = {} /\ due = Short /\ listen = << >> /\ overrun = FALSE
  /\ answers = << >> /\ seqno = 0 /\ job = Idle
  /\ verdict = [said |-> FALSE, did |-> FALSE]
  /\ changes = 0 /\ talks = 0 /\ faults = 0

Next ==
  \/ SendDump \/ Read \/ Callback \/ CheckInterfaces \/ CheckTables \/ Tick
  \/ \E t \in {"route6", "rule6"} : Talk(t)
  \/ \E t \in Tables \cup {"link"} : Change(t)
  \/ Disturb

\* The main loop comes round and time passes; the kernel answers every request.
Spec == /\ Init /\ [][Next]_vars
        /\ WF_vars(SendDump) /\ WF_vars(Read) /\ WF_vars(CheckTables) /\ WF_vars(Tick)

-----------------------------------------------------------------------------

\* An answer belongs to its request, although answers to requests that were
\* broken off are still on the socket: netlink_talk reports success only when the
\* kernel has done what was asked, and a dump returns what the table held when it
\* was asked for, or later, never what an earlier dump had left behind.
AnswersAreOwn ==
  /\ [](verdict.said => verdict.did)
  /\ [][\A t \in Tables : seen'[t] # seen[t] =>
          seen'[t] = Torn \/ (Dumped[job.at] = t /\ seen'[t] >= job.asked)]_vars

\* In the end the router knows the kernel's tables, although announcements were
\* lost, dumps failed and flags were cleared all the same: the timer of 300 s
\* makes up for all of it.
FollowsKernel == <>[](\A t \in Tables : seen[t] = table[t])

=============================================================================
