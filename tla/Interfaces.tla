----------------------------- MODULE Interfaces -----------------------------
(***************************************************************************)
(* The interfaces of a router (interface.c): how check_interfaces follows  *)
(* a kernel whose devices appear, vanish, change their names, lose their   *)
(* link and their addresses.  The kernel announces changes, but an         *)
(* announcement may be lost; a timer makes up for that.                    *)
(***************************************************************************)
EXTENDS Integers, Sequences

CONSTANTS
  Order,      \* the names of the interfaces, as they are listed
  LinkLocals, \* link-local addresses
  Ipv4s,      \* IPv4 addresses
  None,
  Soon, Late, \* schedule_interfaces_check: 2 s and 30 s, in ticks
  MaxIndex,   \* bound: indexes that the kernel hands out
  MaxEvents   \* bound: changes of the kernel and commands of the operator

ASSUME Soon \in Nat /\ Late \in Nat /\ Soon <= Late

Names == {Order[i] : i \in DOMAIN Order}

VARIABLES
  ifs,      \* the interfaces of the router
  joined,   \* the indexes where its socket is a member of the group
  rp,       \* the kernel's rp_filter of each name
  old,      \* old_if: what it was before
  due,      \* ticks until check_interfaces_timeout
  filters,  \* the index in the filters that mention an interface
  dev,      \* the kernel's devices
  last,     \* the last index that the kernel has handed out
  notified, \* kernel_link_changed or kernel_addr_changed
  dirty,    \* the kernel has changed since the last check
  running,
  events    \* what has happened to the router, up to MaxEvents

vars == <<ifs, joined, rp, old, due, filters, dev, last, notified, dirty,
          running, events>>

Event == events < MaxEvents /\ events' = events + 1

NoDevice == [index |-> 0, oper |-> FALSE, ll |-> None, ipv4 |-> None]

Absent == [present |-> FALSE, index |-> 0, up |-> FALSE, ll |-> None,
           ipv4 |-> None, buf |-> FALSE]

\* add_interface.
Added == [Absent EXCEPT !.present = TRUE]

Earlier(a, b) == IF a < b THEN a ELSE b

-----------------------------------------------------------------------------
(* The operations.  h is [ifs, joined, rp, old, due] while one runs.       *)

\* "Most probably DAD hasn't finished yet": IF_UP is cleared, nothing else.
check_link_local_addresses(h, n) ==
  IF dev[n].ll = None
  THEN [h EXCEPT !.ifs[n] = [@ EXCEPT !.ll = None, !.ipv4 = None, !.up = FALSE],
                 !.due = Earlier(@, Soon)]
  ELSE [h EXCEPT !.ifs[n].ll = dev[n].ll]

\* Mutant of check_interface_ipv4: an address that is lost is kept.
OnlyNewIpv4(h, n) ==
  [h EXCEPT !.ifs[n].ipv4 = IF dev[n].ipv4 # None THEN dev[n].ipv4 ELSE @]

check_interface_ipv4(h, n) == [h EXCEPT !.ifs[n].ipv4 = dev[n].ipv4]

\* kernel_setup_interface: rp_filter is saved and cleared, or restored.
kernel_setup_interface(h, n, setup) ==
  IF setup THEN [h EXCEPT !.old[n] = h.rp[n], !.rp[n] = 0]
  ELSE IF h.old[n] = None THEN h ELSE [h EXCEPT !.rp[n] = h.old[n]]

\* Mutant of Lower: the socket stays in the group.
LowerStaying(h, n) ==
  LET g == [h EXCEPT !.ifs[n] = [@ EXCEPT !.up = FALSE, !.buf = FALSE,
                                          !.ll = None]]
  IN  IF h.ifs[n].index = 0 THEN g ELSE kernel_setup_interface(g, n, FALSE)

\* interface_up(ifp, 0) of an interface that is up.
Lower(h, n) ==
  LET i == h.ifs[n].index
      g == [h EXCEPT !.ifs[n] = [@ EXCEPT !.up = FALSE, !.buf = FALSE,
                                          !.ll = None]]
  IN  IF i = 0 THEN g
      ELSE kernel_setup_interface([g EXCEPT !.joined = @ \ {i}], n, FALSE)

\* interface_up(ifp, 1) of an interface that is down.  A socket cannot join a
\* group on an index where it is a member.
Raise(h, n) ==
  LET i == h.ifs[n].index
      a == [h EXCEPT !.ifs[n].up = TRUE]
      b == [kernel_setup_interface(a, n, TRUE) EXCEPT !.ifs[n].buf = TRUE]
      c == check_link_local_addresses(b, n)
  IN  IF i = 0 THEN Lower(a, n)
      ELSE IF ~c.ifs[n].up THEN c
      ELSE IF i \in c.joined THEN Lower(c, n)
      ELSE check_interface_ipv4([c EXCEPT !.joined = @ \cup {i}], n)

interface_up(h, n, up) ==
  IF h.ifs[n].up = up THEN h ELSE IF up THEN Raise(h, n) ELSE Lower(h, n)

\* The name belongs to another device: the interface goes down without index.
Reindexed(h, n) ==
  IF h.ifs[n].index = dev[n].index THEN h
  ELSE [interface_up([h EXCEPT !.ifs[n].index = 0], n, FALSE)
          EXCEPT !.ifs[n].index = dev[n].index]

\* One turn of the loop of check_interfaces.
CheckOne(h, n) ==
  LET g == Reindexed(h, n)
      u == interface_up(g, n, dev[n].index > 0 /\ dev[n].oper)
  IN  IF ~h.ifs[n].present THEN h
      ELSE IF ~u.ifs[n].up THEN u
      ELSE check_interface_ipv4(check_link_local_addresses(u, n), n)

\* The loops over all interfaces.
ForAllInterfaces(op(_, _), h) ==
  LET f[i \in 0 .. Len(Order)] ==
        IF i = 0 THEN h
        ELSE CHOOSE y \in {op(x, Order[i]) : x \in {f[i - 1]}} : TRUE
  IN  f[Len(Order)]

check_interfaces(h) == ForAllInterfaces(CheckOne, h)

\* Mutant of renumber_filters: the filters keep their indexes.
KeepFilters(changed) == filters

renumber_filters(changed) ==
  IF changed THEN [n \in Names |-> dev[n].index] ELSE filters

H == [ifs |-> ifs, joined |-> joined, rp |-> rp, old |-> old, due |-> due]

Becomes(h) ==
  /\ ifs' = h.ifs /\ joined' = h.joined /\ rp' = h.rp /\ old' = h.old
  /\ due' = h.due

\* The end of check_interfaces.
Checked(h) ==
  /\ Becomes(h)
  /\ filters' = renumber_filters(\E n \in Names : ifs[n].present
                                   /\ ifs[n].index # dev[n].index)
  /\ dirty' = FALSE

-----------------------------------------------------------------------------
(* The router.                                                             *)

\* A change was announced: the time of the next check stays, or is soon.
CheckNow ==
  /\ running /\ notified
  /\ \E h \in {check_interfaces(H)} : Checked(h)
  /\ notified' = FALSE
  /\ UNCHANGED <<dev, last, running, events>>

\* The timer: the next check is scheduled with override.
CheckInTime ==
  /\ running /\ due = 0
  /\ \E h \in {check_interfaces(H)} : Checked([h EXCEPT !.due = Late])
  /\ UNCHANGED <<dev, last, notified, running, events>>

\* A control connection adds an interface, which waits for the next check.
AddInterface(n) ==
  /\ running /\ Event /\ ~ifs[n].present
  /\ ifs' = [ifs EXCEPT ![n] = Added]
  /\ UNCHANGED <<joined, rp, old, due, filters, dev, last, notified, dirty,
                 running>>

\* ... or removes one.
FlushInterface(n) ==
  /\ running /\ Event /\ ifs[n].present
  /\ \E h \in {interface_up(H, n, FALSE)} :
       Becomes([h EXCEPT !.ifs[n] = Absent])
  /\ UNCHANGED <<filters, dev, last, notified, dirty, running>>

\* The end of main: interfaces that are up go down.
Stop ==
  /\ running /\ Event
  /\ \E h \in {ForAllInterfaces(LAMBDA g, n : interface_up(g, n, FALSE), H)} :
       Becomes(h)
  /\ running' = FALSE
  /\ UNCHANGED <<filters, dev, last, notified, dirty>>

Crash ==
  /\ running /\ Event /\ running' = FALSE /\ joined' = {}
  /\ UNCHANGED <<ifs, rp, old, due, filters, dev, last, notified, dirty>>

\* The beginning of main: the filters' names are looked up when they are parsed.
Start ==
  LET new == [ifs |-> [n \in Names |-> Added], joined |-> {}, rp |-> rp,
              old |-> [n \in Names |-> None], due |-> Late]
  IN  /\ ~running /\ running' = TRUE
      /\ \E h \in {check_interfaces(new)} : Becomes([h EXCEPT !.due = Late])
      /\ filters' = [n \in Names |-> dev[n].index]
      /\ notified' = FALSE /\ dirty' = FALSE
      /\ UNCHANGED <<dev, last, events>>

Tick == /\ running /\ due > 0 /\ due' = due - 1
        /\ UNCHANGED <<ifs, joined, rp, old, filters, dev, last, notified,
                       dirty, running, events>>

-----------------------------------------------------------------------------
(* The kernel.  Whatever changes is announced, but announcements get lost. *)

Announce == /\ dirty' = TRUE /\ notified' \in {notified, TRUE} /\ Event
            /\ UNCHANGED <<ifs, old, due, filters, running>>

\* A device of that name appears, or an existing one is given the name.
Plug(n) ==
  /\ Announce /\ last < MaxIndex /\ last' = last + 1
  /\ dev' = [dev EXCEPT ![n] = [NoDevice EXCEPT !.index = last + 1]]
  /\ rp' = [rp EXCEPT ![n] = 1] /\ UNCHANGED joined

Unplug(n) ==
  /\ Announce /\ dev[n].index > 0
  /\ dev' = [dev EXCEPT ![n] = NoDevice] /\ joined' = joined \ {dev[n].index}
  /\ UNCHANGED <<rp, last>>

\* Two devices exchange their names.
Exchange(n, m) ==
  /\ Announce /\ n # m /\ dev[n] # dev[m]
  /\ dev' = [dev EXCEPT ![n] = dev[m], ![m] = dev[n]]
  /\ rp' = [rp EXCEPT ![n] = rp[m], ![m] = rp[n]]
  /\ UNCHANGED <<joined, last>>

\* The link goes down and takes its IPv6 addresses, or comes up.
SetLink(n) ==
  /\ Announce /\ dev[n].index > 0
  /\ dev' = [dev EXCEPT ![n] = [@ EXCEPT !.oper = ~@, !.ll = None]]
  /\ UNCHANGED <<joined, rp, last>>

SetLinkLocal(n, a) ==
  /\ Announce /\ dev[n].oper /\ dev[n].ll # a
  /\ dev' = [dev EXCEPT ![n].ll = a]
  /\ UNCHANGED <<joined, rp, last>>

SetIpv4(n, a) ==
  /\ Announce /\ dev[n].index > 0 /\ dev[n].ipv4 # a
  /\ dev' = [dev EXCEPT ![n].ipv4 = a]
  /\ UNCHANGED <<joined, rp, last>>

Init == \E a \in LinkLocals :
  /\ ifs = [n \in Names |-> Absent] /\ joined = {}
  /\ rp = [n \in Names |-> 1] /\ old = [n \in Names |-> None]
  /\ due = Late /\ filters = [n \in Names |-> 0]
  /\ dev = [n \in Names |-> [index |-> CHOOSE i \in DOMAIN Order : Order[i] = n,
                              oper |-> TRUE, ll |-> a, ipv4 |-> None]]
  /\ last = Len(Order)
  /\ notified = FALSE /\ dirty = FALSE /\ running = FALSE /\ events = 0

Kernel ==
  \/ \E n \in Names : Plug(n) \/ Unplug(n) \/ SetLink(n)
  \/ \E n \in Names, a \in LinkLocals \cup {None} : SetLinkLocal(n, a)
  \/ \E n \in Names, a \in Ipv4s \cup {None} : SetIpv4(n, a)
  \/ \E n, m \in Names : Exchange(n, m)

Next ==
  \/ CheckNow \/ CheckInTime \/ Tick \/ Stop \/ Crash \/ Start
  \/ \E n \in Names : AddInterface(n) \/ FlushInterface(n)
  \/ Kernel

\* The main loop comes round, and time passes.
Spec == /\ Init /\ [][Next]_vars
        /\ WF_vars(CheckNow) /\ WF_vars(CheckInTime) /\ WF_vars(Tick)

-----------------------------------------------------------------------------

\* Since the last check nothing has changed: an interface that is up is one
\* whose device works, under the index, the link-local and the IPv4 address
\* that the kernel gives it, in the group and with its buffer.
UpIsCurrent == running /\ ~dirty => \A n \in Names : ifs[n].up =>
  /\ dev[n].oper /\ ifs[n].index = dev[n].index
  /\ ifs[n].ll = dev[n].ll /\ ifs[n].ipv4 = dev[n].ipv4
  /\ ifs[n].index \in joined /\ ifs[n].buf

\* Filters that mention an interface of the router find its device.
FiltersFollow == running /\ ~dirty => \A n \in Names :
  ifs[n].present /\ ifs[n].index > 0 => filters[n] = dev[n].index

\* Once the kernel leaves them alone, all interfaces whose devices work come up,
\* although the group may have to be left and joined again and any announcement
\* may have been lost.
Recovers == <>[](running => \A n \in Names :
  ifs[n].present /\ dev[n].oper /\ dev[n].ll # None => ifs[n].up)

=============================================================================
