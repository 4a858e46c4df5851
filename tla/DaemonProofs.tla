---------------------------- MODULE DaemonProofs ----------------------------
(***************************************************************************)
(* Theorems of Daemon, for any number of processes, sysctls, starts, kills *)
(* and failures.  The active process is the owner of the pid file (Owner); *)
(* it knows the old value of every sysctl that it has set (Remembers); and *)
(* the number in the state file, or of the active process, is ahead of     *)
(* what was announced by at most one for each process that has read a      *)
(* state file (Ahead), so that it never gets half way round the circle.    *)
(***************************************************************************)
EXTENDS Daemon, FiniteSetTheorems, TLAPS

Labels == {"off", "pidfile", "sysctls", "socket", "config", "state", "ready",
           "loop", "open", "write", "unlink"}

Types ==
  /\ pc \in [Procs -> Labels]
  /\ seqno \in [Procs -> Seqnos]
  /\ fromFile \in [Procs -> BOOLEAN]
  /\ was \in [Procs -> [Sysctls -> BOOLEAN \cup {None}]]
  /\ state \in Seqnos \cup {None, Empty}
  /\ sysctl \in [Sysctls -> BOOLEAN]
  /\ said \in Seqnos \cup {None}
  /\ stale \in BOOLEAN
  /\ starts \in 0 .. MaxStarts

Owner == \A p \in Procs : Active(p) => pidfile = p

\* Between the two calls of kernel_setup.
Set(p) == pc[p] \in {"sysctls", "socket", "config", "state", "ready", "loop"}

\* A sysctl that is not lost is as it was, or is set and its old value known.
Remembers ==
  \A s \in Sysctls \ lost :
    /\ (\A p \in Procs : ~Set(p)) => sysctl[s] = (s \in Already)
    /\ \A p \in Procs : Set(p) =>
         IF was[p][s] = None THEN sysctl[s] = (s \in Already)
         ELSE sysctl[s] /\ was[p][s] = (s \in Already)

\* kernel_setup has come to one of the sysctls.
InOrder ==
  \A p \in Procs :
    /\ At(p, "pidfile") => \A s \in Sysctls : was[p][s] = None
    /\ At(p, "sysctls") =>
         \E k \in Sysctls : \A s \in Sysctls : was[p][s] = None <=> s >= k

\* The processes that may still read the state file.
Early == {"pidfile", "sysctls", "socket", "config", "state"}
Pending == {p \in Procs : pc[p] \in Early}

\* How far number n is ahead of what was announced, and that this is no more
\* than the processes that have read the state file.
Lead(n) == (n - said) % SeqMod
Ahead(n) == said # None => Lead(n) + Cardinality(Pending) <= starts

Numbers ==
  /\ Cardinality(Pending) <= starts
  /\ state \in Seqnos /\ ~stale => Ahead(state)
  /\ \A p \in Procs :
       /\ pc[p] \in {"ready", "loop", "open", "write"} => Ahead(seqno[p])
       /\ At(p, "ready") /\ said # None => fromFile[p] /\ Lead(seqno[p]) >= 1
       /\ pc[p] \in {"ready", "loop", "open"} => stale \/ state = None
       /\ At(p, "write") => state = Empty

IInv == Types /\ Owner /\ Remembers /\ InOrder /\ Numbers


-----------------------------------------------------------------------------
(* The invariant is kept. *)

\* The sysctl that kernel_setup comes to next.
Current(p) ==
  CHOOSE x \in Sysctls : was[p][x] = None /\ \A y \in 1 .. x - 1 : was[p][y] # None

\* It is there, and those from it on are still to be set.
LEMMA CurrentFact ==
  ASSUME InOrder, NEW p \in Procs, At(p, "sysctls")
  PROVE  Current(p) \in Sysctls /\ \A s \in Sysctls : was[p][s] = None <=> s >= Current(p)
  <1>1. PICK k \in Sysctls : \A s \in Sysctls : was[p][s] = None <=> s >= k
    BY DEF InOrder
  <1>2. was[p][k] = None /\ \A y \in 1 .. k - 1 : was[p][y] # None
    BY <1>1, DaemonAssumption DEF Sysctls
  <1>3. Current(p) \in Sysctls /\ was[p][Current(p)] = None
        /\ \A y \in 1 .. Current(p) - 1 : was[p][y] # None
    BY <1>2 DEF Current
  <1>4. Current(p) >= k
    BY <1>1, <1>3
  <1>5. ~(k < Current(p))
    BY <1>2, <1>3, DaemonAssumption DEF Sysctls
  <1>6. Current(p) = k
    BY <1>3, <1>4, <1>5, DaemonAssumption DEF Sysctls
  <1> QED
    BY <1>1, <1>3, <1>6

\* It is set and its old value kept, or the process gives up.
LEMMA SetSysctlFact ==
  ASSUME IInv, NEW p \in Procs, SetSysctl(p)
  PROVE  /\ \/ /\ was' = [was EXCEPT ![p] =
                            [was[p] EXCEPT ![Current(p)] = sysctl[Current(p)]]]
               /\ sysctl' = [sysctl EXCEPT ![Current(p)] = TRUE]
               /\ pc' = [pc EXCEPT ![p] = IF Current(p) = NumSysctls THEN "socket"
                                                                  ELSE "sysctls"]
               /\ UNCHANGED lost
            \/ /\ pc' = [pc EXCEPT ![p] = "off"] /\ lost' = lost \cup Changed(p)
               /\ UNCHANGED <<was, sysctl>>
         /\ was' \in [Procs -> [Sysctls -> BOOLEAN \cup {None}]]
         /\ sysctl' \in [Sysctls -> BOOLEAN]
         /\ At(p, "sysctls")
         /\ UNCHANGED <<seqno, fromFile, state, said, stale, starts>>
  <1>1. At(p, "sysctls") /\ Current(p) \in Sysctls
    BY CurrentFact DEF SetSysctl, IInv
  <1> DEFINE s == Current(p)
             f == [was[p] EXCEPT ![s] = sysctl[s]]
  <1>2. was \in [Procs -> [Sysctls -> BOOLEAN \cup {None}]] /\ sysctl \in [Sysctls -> BOOLEAN]
    BY DEF IInv, Types
  <1>3. f \in [Sysctls -> BOOLEAN \cup {None}]
    BY <1>1, <1>2
  <1>4. [was EXCEPT ![p][s] = sysctl[s]] = [was EXCEPT ![p] = f]
    OBVIOUS
  <1>5. [was EXCEPT ![p] = f] \in [Procs -> [Sysctls -> BOOLEAN \cup {None}]]
    <2> HIDE DEF f
    <2> QED
      BY <1>2, <1>3
  <1>6. [sysctl EXCEPT ![s] = TRUE] \in [Sysctls -> BOOLEAN]
    BY <1>1, <1>2
  <1>7. \/ /\ was' = [was EXCEPT ![p] = f] /\ sysctl' = [sysctl EXCEPT ![s] = TRUE]
           /\ pc' = [pc EXCEPT ![p] = IF s = NumSysctls THEN "socket" ELSE "sysctls"]
           /\ UNCHANGED lost
        \/ /\ pc' = [pc EXCEPT ![p] = "off"] /\ lost' = lost \cup Changed(p)
           /\ UNCHANGED <<was, sysctl>>
    BY <1>4, Zenon DEF SetSysctl, Current, FailPid, Goto
  <1> HIDE DEF s, f
  <1>8. was' \in [Procs -> [Sysctls -> BOOLEAN \cup {None}]] /\ sysctl' \in [Sysctls -> BOOLEAN]
    BY <1>2, <1>5, <1>6, <1>7
  <1> QED
    BY <1>1, <1>7, <1>8 DEF s, f, SetSysctl

\* Sequence numbers stay on the circle.
LEMMA PlusFact == \A n \in Seqnos : seqno_plus(n, 1) \in Seqnos
  BY SeqModAssumption DEF Seqnos, seqno_plus

\* Only the owner of the pid file removes it, but for an operator who finds no
\* active process.
LEMMA OwnerFact == IInv /\ [Next]_vars => Owner'
  <1> SUFFICES ASSUME IInv, [Next]_vars PROVE Owner'
    OBVIOUS
  <1> USE DEF IInv, Types, Owner, Active, At, Goto, Labels, files, mine, ghosts
  <1>1. ASSUME NEW p \in Procs, Start(p) PROVE Owner'
    BY <1>1 DEF Start
  <1>2. ASSUME NEW p \in Procs, CreatePid(p) PROVE Owner'
    BY <1>2, DaemonAssumption DEF CreatePid, PidExists, FailPid, Fault
  <1>3. ASSUME NEW p \in Procs, SetSysctl(p) PROVE Owner'
    BY <1>3 DEF SetSysctl, FailPid, Fault
  <1>4. ASSUME NEW p \in Procs, OpenKernelSocket(p) PROVE Owner'
    BY <1>4 DEF OpenKernelSocket, FailPid, Fault
  <1>5. ASSUME NEW p \in Procs, FinaliseConfig(p) PROVE Owner'
    BY <1>5 DEF FinaliseConfig, Fail, FailPid, Fault
  <1>6. ASSUME NEW p \in Procs, ReadState(p) PROVE Owner'
    BY <1>6 DEF ReadState, Fault, Unlinked
  <1>7. ASSUME NEW p \in Procs, OpenSockets(p) PROVE Owner'
    BY <1>7 DEF OpenSockets, Fail, FailPid, Fault
  <1>8. ASSUME NEW p \in Procs, Announce(p) PROVE Owner'
    BY <1>8 DEF Announce
  <1>9. ASSUME NEW p \in Procs, Signal(p) PROVE Owner'
    BY <1>9 DEF Signal
  <1>10. ASSUME NEW p \in Procs, Leave(p) PROVE Owner'
    BY <1>10 DEF Leave, Fault
  <1>11. ASSUME NEW p \in Procs, OpenState(p) PROVE Owner'
    BY <1>11 DEF OpenState, Fault
  <1>12. ASSUME NEW p \in Procs, WriteState(p) PROVE Owner'
    BY <1>12 DEF WriteState, Fault
  <1>13. ASSUME NEW p \in Procs, Unlink(p) PROVE Owner'
    BY <1>13 DEF Unlink, FailPid
  <1>14. ASSUME NEW p \in Procs, Crash(p) PROVE Owner'
    BY <1>14 DEF Crash, Fault
  <1>15. CASE CleanUp
    BY <1>15, DaemonAssumption DEF CleanUp
  <1>16. CASE UNCHANGED vars
    BY <1>16 DEF vars
  <1> QED
    BY <1>1, <1>2, <1>3, <1>4, <1>5, <1>6, <1>7, <1>8, <1>9, <1>10, <1>11, <1>12, <1>13, <1>14, <1>15, <1>16 DEF Next


\* Every variable keeps its type.
LEMMA TypesFact == IInv /\ [Next]_vars => Types'
  <1> SUFFICES ASSUME IInv, [Next]_vars PROVE Types'
    OBVIOUS
  <1> USE DEF IInv, Types, At, Goto, Labels, files, mine, ghosts
  <1>1. ASSUME NEW p \in Procs, Start(p) PROVE Types'
    BY <1>1, DaemonAssumption, SeqModAssumption DEF Start, Unknown, Seqnos
  <1>2. ASSUME NEW p \in Procs, CreatePid(p) PROVE Types'
    BY <1>2, DaemonAssumption DEF CreatePid, PidExists, FailPid, Fault
  <1>3. ASSUME NEW p \in Procs, SetSysctl(p) PROVE Types'
    BY <1>3, SetSysctlFact DEF SetSysctl, FailPid, Fault
  <1>4. ASSUME NEW p \in Procs, OpenKernelSocket(p) PROVE Types'
    BY <1>4 DEF OpenKernelSocket, FailPid, Fault, Restore
  <1>5. ASSUME NEW p \in Procs, FinaliseConfig(p) PROVE Types'
    <2>1. /\ pc' \in [Procs -> Labels] /\ sysctl' \in [Sysctls -> BOOLEAN]
      BY <1>5 DEF FinaliseConfig, Fail, FailPid, Restore
    <2>2. UNCHANGED <<seqno, fromFile, was, state, said, stale, starts>>
      BY <1>5 DEF FinaliseConfig
    <2> QED
      BY <2>1, <2>2, Zenon
  <1>6. ASSUME NEW p \in Procs, ReadState(p) PROVE Types'
    <2>1. /\ pc' \in [Procs -> Labels] /\ state' \in Seqnos \cup {None, Empty}
          /\ said' \in Seqnos \cup {None} /\ stale' \in BOOLEAN
      BY <1>6 DEF ReadState, Unlinked
    <2>2. seqno' \in [Procs -> Seqnos]
      BY <1>6, PlusFact DEF ReadState
    <2>3. fromFile' \in [Procs -> BOOLEAN]
      BY <1>6 DEF ReadState
    <2>4. UNCHANGED <<was, sysctl, starts>>
      BY <1>6 DEF ReadState
    <2> QED
      BY <2>1, <2>2, <2>3, <2>4, Zenon
  <1>7. ASSUME NEW p \in Procs, OpenSockets(p) PROVE Types'
    BY <1>7 DEF OpenSockets, Fail, FailPid, Fault, Restore
  <1>8. ASSUME NEW p \in Procs, Announce(p) PROVE Types'
    BY <1>8, PlusFact DEF Announce
  <1>9. ASSUME NEW p \in Procs, Signal(p) PROVE Types'
    BY <1>9 DEF Signal
  <1>10. ASSUME NEW p \in Procs, Leave(p) PROVE Types'
    BY <1>10 DEF Leave, Fault, Restore
  <1>11. ASSUME NEW p \in Procs, OpenState(p) PROVE Types'
    BY <1>11 DEF OpenState, Fault
  <1>12. ASSUME NEW p \in Procs, WriteState(p) PROVE Types'
    BY <1>12 DEF WriteState, Fault
  <1>13. ASSUME NEW p \in Procs, Unlink(p) PROVE Types'
    BY <1>13 DEF Unlink, FailPid
  <1>14. ASSUME NEW p \in Procs, Crash(p) PROVE Types'
    BY <1>14 DEF Crash, Fault
  <1>15. CASE CleanUp
    BY <1>15, DaemonAssumption DEF CleanUp
  <1>16. CASE UNCHANGED vars
    BY <1>16 DEF vars
  <1> QED
    BY <1>1, <1>2, <1>3, <1>4, <1>5, <1>6, <1>7, <1>8, <1>9, <1>10, <1>11, <1>12, <1>13, <1>14, <1>15, <1>16 DEF Next


\* kernel_setup takes the sysctls one by one.
LEMMA InOrderFact == IInv /\ [Next]_vars => InOrder'
  <1> SUFFICES ASSUME IInv, [Next]_vars PROVE InOrder'
    OBVIOUS
  <1> USE DEF IInv, Types, InOrder, At, Goto, Labels, files, mine, ghosts
  <1>1. ASSUME NEW p \in Procs, Start(p) PROVE InOrder'
    BY <1>1 DEF Start , Unknown
  <1>2. ASSUME NEW p \in Procs, CreatePid(p) PROVE InOrder'
    <2>1. \A s \in Sysctls : was[p][s] = None <=> s >= 1
      BY <1>2, DaemonAssumption DEF CreatePid, Sysctls
    <2>2. 1 \in Sysctls
      BY DaemonAssumption DEF Sysctls
    <2>3. was' = was /\ \A q \in Procs \ {p} : pc'[q] = pc[q]
      BY <1>2 DEF CreatePid, PidExists, FailPid
    <2>4. pc'[p] \in {"off", "sysctls"}
      BY <1>2 DEF CreatePid, PidExists, FailPid
    <2> QED
      BY <2>1, <2>2, <2>3, <2>4
  <1>3. ASSUME NEW p \in Procs, SetSysctl(p) PROVE InOrder'
    <2> DEFINE s == Current(p)
    <2>1. s \in Sysctls /\ \A x \in Sysctls : was[p][x] = None <=> x >= s
      BY <1>3, CurrentFact DEF SetSysctl
    <2>2. \A q \in Procs \ {p} : pc'[q] = pc[q] /\ was'[q] = was[q]
      BY <1>3, SetSysctlFact
    <2>3. ~At(p, "pidfile")'
      BY <1>3, SetSysctlFact
    <2>4. ASSUME At(p, "sysctls")' PROVE
            \E k \in Sysctls : \A x \in Sysctls : was'[p][x] = None <=> x >= k
      <3>1. /\ was' = [was EXCEPT ![p] = [was[p] EXCEPT ![s] = sysctl[s]]]
            /\ s # NumSysctls
        BY <1>3, <2>4, SetSysctlFact
      <3>2. s + 1 \in Sysctls /\ \A x \in Sysctls : x >= s + 1 <=> x >= s /\ x # s
        BY <2>1, <3>1, DaemonAssumption DEF Sysctls
      <3>3. was'[p][s] # None /\ \A x \in Sysctls : x # s => was'[p][x] = was[p][x]
        BY <2>1, <3>1, DaemonAssumption
      <3> HIDE DEF s
      <3>4. \A x \in Sysctls : was'[p][x] = None <=> x >= s + 1
        BY <2>1, <3>2, <3>3
      <3> QED
        BY <3>2, <3>4
    <2>5. \A q \in Procs \ {p} :
            /\ pc'[q] = "pidfile" => \A x \in Sysctls : was'[q][x] = None
            /\ pc'[q] = "sysctls" =>
                 \E k \in Sysctls : \A x \in Sysctls : was'[q][x] = None <=> x >= k
      <3> SUFFICES ASSUME NEW q \in Procs \ {p}
                   PROVE  /\ pc'[q] = "pidfile" => \A x \in Sysctls : was'[q][x] = None
                          /\ pc'[q] = "sysctls" =>
                               \E k \in Sysctls :
                                 \A x \in Sysctls : was'[q][x] = None <=> x >= k
        OBVIOUS
      <3>1. pc'[q] = pc[q] /\ was'[q] = was[q]
        BY <2>2
      <3>2. /\ pc[q] = "pidfile" => \A x \in Sysctls : was[q][x] = None
            /\ pc[q] = "sysctls" =>
                 \E k \in Sysctls : \A x \in Sysctls : was[q][x] = None <=> x >= k
        OBVIOUS
      <3> QED
        BY <3>1, <3>2, Zenon
    <2> HIDE DEF s
    <2> QED
      BY <2>3, <2>4, <2>5, Zenon
  <1>4. ASSUME NEW p \in Procs, OpenKernelSocket(p) PROVE InOrder'
    BY <1>4 DEF OpenKernelSocket, FailPid
  <1>5. ASSUME NEW p \in Procs, FinaliseConfig(p) PROVE InOrder'
    BY <1>5 DEF FinaliseConfig, Fail, FailPid
  <1>6. ASSUME NEW p \in Procs, ReadState(p) PROVE InOrder'
    BY <1>6 DEF ReadState, Unlinked
  <1>7. ASSUME NEW p \in Procs, OpenSockets(p) PROVE InOrder'
    BY <1>7 DEF OpenSockets, Fail, FailPid
  <1>8. ASSUME NEW p \in Procs, Announce(p) PROVE InOrder'
    BY <1>8 DEF Announce
  <1>9. ASSUME NEW p \in Procs, Signal(p) PROVE InOrder'
    BY <1>9 DEF Signal
  <1>10. ASSUME NEW p \in Procs, Leave(p) PROVE InOrder'
    BY <1>10 DEF Leave
  <1>11. ASSUME NEW p \in Procs, OpenState(p) PROVE InOrder'
    BY <1>11 DEF OpenState
  <1>12. ASSUME NEW p \in Procs, WriteState(p) PROVE InOrder'
    BY <1>12 DEF WriteState
  <1>13. ASSUME NEW p \in Procs, Unlink(p) PROVE InOrder'
    BY <1>13 DEF Unlink, FailPid
  <1>14. ASSUME NEW p \in Procs, Crash(p) PROVE InOrder'
    BY <1>14 DEF Crash
  <1>15. CASE CleanUp
    BY <1>15 DEF CleanUp
  <1>16. CASE UNCHANGED vars
    BY <1>16 DEF vars
  <1> QED
    BY <1>1, <1>2, <1>3, <1>4, <1>5, <1>6, <1>7, <1>8, <1>9, <1>10, <1>11, <1>12, <1>13, <1>14, <1>15, <1>16 DEF Next


\* kernel_setup(0) puts back what was there before.
LEMMA RestoreFact ==
  ASSUME IInv, NEW p \in Procs, Set(p), NEW s \in Sysctls \ lost
  PROVE  /\ Restore(p)[s] = (s \in Already)
         /\ s \notin Changed(p) => sysctl[s] = (s \in Already)
  <1>1. /\ sysctl[s] \in BOOLEAN /\ was[p][s] \in BOOLEAN \cup {None}
        /\ IF was[p][s] = None THEN sysctl[s] = (s \in Already)
           ELSE sysctl[s] /\ was[p][s] = (s \in Already)
    BY DEF IInv, Types, Remembers
  <1>2. Restore(p)[s] = (sysctl[s] /\ s \notin Changed(p))
    BY DEF Restore
  <1>3. s \in Changed(p) <=> was[p][s] = FALSE
    BY DEF Changed
  <1>4. None # FALSE
    BY DaemonAssumption
  <1>5. CASE was[p][s] = None
    BY <1>1, <1>2, <1>3, <1>4, <1>5
  <1>6. CASE was[p][s] # None
    BY <1>1, <1>2, <1>3, <1>6
  <1> QED
    BY <1>5, <1>6

\* When the only process that has changed sysctls ends, or puts them back.
LEMMA BackFact ==
  ASSUME IInv, NEW p \in Procs, Set(p), NEW l, pc' = [pc EXCEPT ![p] = l],
         l \in {"off", "open"},
         \A s \in Sysctls \ lost' : sysctl'[s] = (s \in Already)
  PROVE  Remembers'
  <1>1. \A q \in Procs : ~Set(q)'
    BY DEF IInv, Types, Owner, Active, Set, Labels
  <1> QED
    BY <1>1 DEF Remembers

\* What kernel_setup(1) changes, the process remembers, until kernel_setup(0).
LEMMA RemembersFact == IInv /\ [Next]_vars => Remembers'
  <1> SUFFICES ASSUME IInv, [Next]_vars PROVE Remembers'
    OBVIOUS
  <1> USE DEF IInv, Types, Owner, InOrder, Remembers, Set, Active, At, Goto, Labels, files, mine, ghosts
  <1>1. ASSUME NEW p \in Procs, Start(p) PROVE Remembers'
    BY <1>1 DEF Start, Unknown
  <1>2. ASSUME NEW p \in Procs, CreatePid(p) PROVE Remembers'
    BY <1>2, DaemonAssumption DEF CreatePid, PidExists, FailPid
  <1>3. ASSUME NEW p \in Procs, SetSysctl(p) PROVE Remembers'
    <2> DEFINE s == Current(p)
    <2>1. s \in Sysctls /\ was[p][s] = None /\ Set(p)
      BY <1>3, CurrentFact DEF SetSysctl, Sysctls
    <2>2. CASE pc' = [pc EXCEPT ![p] = "off"] /\ lost' = lost \cup Changed(p) /\ sysctl' = sysctl
      BY <2>1, <2>2, BackFact, RestoreFact
    <2>3. CASE /\ was' = [was EXCEPT ![p] = [was[p] EXCEPT ![s] = sysctl[s]]]
               /\ sysctl' = [sysctl EXCEPT ![s] = TRUE]
               /\ Set(p)' /\ lost' = lost
               /\ \A q \in Procs \ {p} : pc'[q] = pc[q]
      <3> SUFFICES ASSUME NEW x \in Sysctls \ lost
                   PROVE  IF was'[p][x] = None THEN sysctl'[x] = (x \in Already)
                          ELSE sysctl'[x] /\ was'[p][x] = (x \in Already)
        <4>1. \A q \in Procs : Set(q)' => q = p
          BY <2>1, <2>3
        <4> QED
          BY <2>3, <4>1 DEF Remembers
      <3> HIDE DEF s
      <3>1. CASE x = s
        <4>1. was'[p][x] = sysctl[s] /\ sysctl'[x] = TRUE /\ sysctl[s] # None
          BY <2>1, <2>3, <3>1, DaemonAssumption
        <4>2. sysctl[s] = (s \in Already)
          BY <2>1, <3>1 DEF Remembers
        <4> QED
          BY <3>1, <4>1, <4>2, Zenon
      <3>2. CASE x # s
        <4>1. was'[p][x] = was[p][x] /\ sysctl'[x] = sysctl[x]
          BY <2>1, <2>3, <3>2
        <4> QED
          BY <2>1, <4>1 DEF Remembers
      <3> QED
        BY <3>1, <3>2
    <2> QED
      BY <1>3, <2>2, <2>3, SetSysctlFact
  <1>4. ASSUME NEW p \in Procs, OpenKernelSocket(p) PROVE Remembers'
    <2>1. Set(p)
      BY <1>4 DEF OpenKernelSocket
    <2>2. CASE sysctl' = sysctl /\ UNCHANGED <<was, lost>> /\ pc' = [pc EXCEPT ![p] = "config"]
      BY <2>1, <2>2, <1>4 DEF OpenKernelSocket
    <2>3. CASE sysctl' = Restore(p) /\ lost' = lost /\ pc' = [pc EXCEPT ![p] = "off"]
      BY <2>1, <2>3, BackFact, RestoreFact
    <2> QED
      BY <1>4, <2>2, <2>3 DEF OpenKernelSocket, FailPid, Fail
  <1>5. ASSUME NEW p \in Procs, FinaliseConfig(p) PROVE Remembers'
    <2>1. Set(p)
      BY <1>5 DEF FinaliseConfig
    <2>2. CASE sysctl' = sysctl /\ UNCHANGED <<was, lost>> /\ pc' = [pc EXCEPT ![p] = "state"]
      BY <2>1, <2>2, <1>5 DEF FinaliseConfig
    <2>3. CASE sysctl' = Restore(p) /\ lost' = lost /\ pc' = [pc EXCEPT ![p] = "off"]
      BY <2>1, <2>3, BackFact, RestoreFact
    <2> QED
      BY <1>5, <2>2, <2>3 DEF FinaliseConfig, FailPid, Fail
  <1>6. ASSUME NEW p \in Procs, ReadState(p) PROVE Remembers'
    BY <1>6 DEF ReadState, Unlinked
  <1>7. ASSUME NEW p \in Procs, OpenSockets(p) PROVE Remembers'
    <2>1. Set(p)
      BY <1>7 DEF OpenSockets
    <2>2. CASE sysctl' = sysctl /\ UNCHANGED <<was, lost>> /\ pc' = [pc EXCEPT ![p] = "loop"]
      BY <2>1, <2>2, <1>7 DEF OpenSockets
    <2>3. CASE sysctl' = Restore(p) /\ lost' = lost /\ pc' = [pc EXCEPT ![p] = "off"]
      BY <2>1, <2>3, BackFact, RestoreFact
    <2> QED
      BY <1>7, <2>2, <2>3 DEF OpenSockets, FailPid, Fail
  <1>8. ASSUME NEW p \in Procs, Announce(p) PROVE Remembers'
    BY <1>8 DEF Announce
  <1>9. ASSUME NEW p \in Procs, Signal(p) PROVE Remembers'
    BY <1>9 DEF Signal
  <1>10. ASSUME NEW p \in Procs, Leave(p) PROVE Remembers'
    <2>1. Set(p) /\ pc' = [pc EXCEPT ![p] = "open"]
      BY <1>10 DEF Leave
    <2>2. \A s \in Sysctls \ lost' : sysctl'[s] = (s \in Already)
      <3>1. CASE sysctl' = Restore(p) /\ lost' = lost
        BY <2>1, <3>1, RestoreFact
      <3>2. ASSUME NEW s \in Changed(p),
                   sysctl' = [x \in Sysctls |-> IF x < s THEN Restore(p)[x] ELSE sysctl[x]],
                   lost' = lost \cup {x \in Changed(p) : x >= s}
            PROVE  \A x \in Sysctls \ lost' : sysctl'[x] = (x \in Already)
        <4> SUFFICES ASSUME NEW x \in Sysctls \ lost' PROVE sysctl'[x] = (x \in Already)
          OBVIOUS
        <4>1. x \in Sysctls \ lost /\ (x < s \/ x \notin Changed(p))
          BY <3>2, DaemonAssumption DEF Sysctls, Changed
        <4>2. sysctl'[x] = IF x < s THEN Restore(p)[x] ELSE sysctl[x]
          BY <3>2
        <4> QED
          BY <2>1, <4>1, <4>2, RestoreFact
      <3> QED
        BY <1>10, <3>1, <3>2 DEF Leave
    <2> QED
      BY <2>1, <2>2, BackFact
  <1>11. ASSUME NEW p \in Procs, OpenState(p) PROVE Remembers'
    BY <1>11 DEF OpenState
  <1>12. ASSUME NEW p \in Procs, WriteState(p) PROVE Remembers'
    BY <1>12 DEF WriteState
  <1>13. ASSUME NEW p \in Procs, Unlink(p) PROVE Remembers'
    BY <1>13 DEF Unlink, FailPid
  <1>14. ASSUME NEW p \in Procs, Crash(p) PROVE Remembers'
    BY <1>14 DEF Crash, Changed
  <1>15. CASE CleanUp
    BY <1>15 DEF CleanUp
  <1>16. CASE UNCHANGED vars
    BY <1>16 DEF vars
  <1> QED
    BY <1>1, <1>2, <1>3, <1>4, <1>5, <1>6, <1>7, <1>8, <1>9, <1>10, <1>11, <1>12, <1>13, <1>14, <1>15, <1>16 DEF Next



-----------------------------------------------------------------------------
(* Sequence numbers. *)

\* Numbers on the circle: one more is one further ahead, and a number that is
\* less than half of the circle ahead is newer.
LEMMA CircleFact ==
  ASSUME NEW n \in Seqnos, NEW m \in Seqnos
  PROVE  /\ (n - m) % SeqMod \in Nat
         /\ (m - m) % SeqMod = 0
         /\ ((n - m) % SeqMod) + 1 < SeqMod =>
              (seqno_plus(n, 1) - m) % SeqMod = ((n - m) % SeqMod) + 1
         /\ 1 <= (n - m) % SeqMod /\ 2 * ((n - m) % SeqMod) < SeqMod =>
              seqno_compare(n, m) > 0
  <1> DEFINE M == SeqMod
             d == (n - m) % M
             e == (m - n) % M
             x == (n + 1) % M
  <1>1. /\ M \in Nat /\ M >= 4 /\ n \in Int /\ m \in Int
        /\ 0 <= n /\ n < M /\ 0 <= m /\ m < M
    BY SeqModAssumption DEF Seqnos
  <1>2. M \div 2 \in Nat /\ M = 2 * (M \div 2)
    BY SeqModAssumption
  <1> HIDE DEF M
  <1>3. /\ d = IF n >= m THEN n - m ELSE n - m + M
        /\ e = IF m >= n THEN m - n ELSE m - n + M
        /\ x = IF n + 1 < M THEN n + 1 ELSE n + 1 - M
    BY <1>1
  <1>4. (m - m) % M = 0
    BY <1>1
  <1> HIDE DEF d, e, x
  <1>5. x \in Int /\ 0 <= x /\ x < M
    BY <1>1, <1>3
  <1>6. (x - m) % M = IF x >= m THEN x - m ELSE x - m + M
    BY <1>1, <1>5
  <1>7. d + 1 < M => (x - m) % M = d + 1
    BY <1>1, <1>3, <1>6
  <1>8. 1 <= d /\ 2 * d < M => e >= M \div 2 /\ n # m
    BY <1>1, <1>2, <1>3
  <1>9. d \in Nat
    BY <1>1, <1>3
  <1> QED
    BY <1>4, <1>7, <1>8, <1>9 DEF seqno_plus, seqno_compare, M, d, e, x

\* There are no more of those processes when one goes on, and one less when it
\* has read the file.
LEMMA MoveFact ==
  ASSUME Types, NEW p \in Procs, NEW l, pc' = [pc EXCEPT ![p] = l],
         l \in Early => pc[p] \in Early
  PROVE  /\ Cardinality(Pending) \in Nat /\ Cardinality(Pending') \in Nat
         /\ Cardinality(Pending') <= Cardinality(Pending)
         /\ pc[p] \in Early /\ l \notin Early =>
              Cardinality(Pending') + 1 <= Cardinality(Pending)
  <1>1. Pending \in SUBSET Procs /\ IsFiniteSet(Pending)
    BY FS_Subset, DaemonAssumption DEF Pending
  <1>2. pc'[p] = l /\ \A q \in Procs \ {p} : pc'[q] = pc[q]
    BY DEF Types
  <1>3. Pending' \subseteq Pending
    BY <1>2 DEF Pending, Early
  <1>4. IsFiniteSet(Pending') /\ Cardinality(Pending') <= Cardinality(Pending)
        /\ Cardinality(Pending) \in Nat /\ Cardinality(Pending') \in Nat
    BY <1>1, <1>3, FS_Subset, FS_CardinalityType
  <1>5. ASSUME pc[p] \in Early, l \notin Early
        PROVE  Cardinality(Pending') + 1 <= Cardinality(Pending)
    <2>1. p \in Pending /\ Pending' \subseteq Pending \ {p}
      BY <1>2, <1>3, <1>5 DEF Pending, Early
    <2>2. /\ IsFiniteSet(Pending \ {p})
          /\ Cardinality(Pending \ {p}) = Cardinality(Pending) - 1
      BY <1>1, <2>1, FS_RemoveElement
    <2>3. Cardinality(Pending') <= Cardinality(Pending \ {p})
      BY <2>1, <2>2, FS_Subset
    <2> QED
      BY <1>4, <2>2, <2>3
  <1> QED
    BY <1>4, <1>5

\* One more when one starts.
LEMMA StartFact ==
  ASSUME Types, NEW p \in Procs, pc' = [pc EXCEPT ![p] = "pidfile"]
  PROVE  /\ Cardinality(Pending) \in Nat /\ Cardinality(Pending') \in Nat
         /\ Cardinality(Pending') <= Cardinality(Pending) + 1
  <1>1. Pending \in SUBSET Procs /\ IsFiniteSet(Pending)
    BY FS_Subset, DaemonAssumption DEF Pending
  <1>2. Pending' = Pending \cup {p}
    BY DEF Types, Pending, Early
  <1>3. Cardinality(Pending \cup {p}) \in {Cardinality(Pending), Cardinality(Pending) + 1}
    BY <1>1, FS_AddElement
  <1>4. Cardinality(Pending) \in Nat
    BY <1>1, FS_CardinalityType
  <1> QED
    BY <1>2, <1>3, <1>4

\* Numbers, when no number changes and no process reads or writes the file.
LEMMA SameNumbersFact ==
  ASSUME IInv, UNCHANGED <<said, stale, state>>,
         Cardinality(Pending) \in Nat, Cardinality(Pending') \in Nat, starts' \in Nat,
         Cardinality(Pending') + starts <= Cardinality(Pending) + starts',
         \A q \in Procs : pc'[q] \in {"ready", "loop", "open", "write"} =>
           /\ seqno'[q] = seqno[q] /\ fromFile'[q] = fromFile[q]
           /\ \/ pc'[q] = pc[q]
              \/ pc[q] = "ready" /\ pc'[q] = "loop"
              \/ pc[q] = "loop" /\ pc'[q] = "open"
  PROVE  Numbers'
  <1>1. \A n \in Seqnos : Ahead(n) => Ahead(n)'
    <2> SUFFICES ASSUME NEW n \in Seqnos, Ahead(n), said # None PROVE Ahead(n)'
      BY DEF Ahead
    <2>1. said \in Seqnos /\ starts \in Nat
      BY DEF IInv, Types
    <2>2. Lead(n) \in Nat /\ Lead(n)' = Lead(n) /\ said' = said
      BY <2>1, CircleFact DEF Lead
    <2> QED
      BY <2>1, <2>2 DEF Ahead
  <1>2. Cardinality(Pending') <= starts'
    BY DEF IInv, Types, Numbers
  <1>3. seqno \in [Procs -> Seqnos]
    BY DEF IInv, Types
  <1>4. ASSUME NEW p \in Procs
        PROVE  (/\ pc[p] \in {"ready", "loop", "open", "write"} => Ahead(seqno[p])
                /\ At(p, "ready") /\ said # None => fromFile[p] /\ Lead(seqno[p]) >= 1
                /\ pc[p] \in {"ready", "loop", "open"} => stale \/ state = None
                /\ At(p, "write") => state = Empty)'
    <2>1. CASE pc'[p] \in {"ready", "loop", "open", "write"}
      <3>1. pc[p] \in {"ready", "loop", "open", "write"}
            /\ seqno'[p] = seqno[p] /\ fromFile'[p] = fromFile[p]
        BY <2>1
      <3>2. Ahead(seqno[p])'
        <4>1. Ahead(seqno[p])
          BY <3>1 DEF IInv, Numbers
        <4> QED
          BY <1>1, <1>3, <3>1, <4>1 DEF Ahead, Lead
      <3>3. Lead(seqno[p])' = Lead(seqno[p])
        BY <3>1 DEF Lead
      <3> QED
        BY <2>1, <3>1, <3>2, <3>3 DEF IInv, Numbers, At
    <2>2. CASE pc'[p] \notin {"ready", "loop", "open", "write"}
      BY <2>2 DEF At
    <2> QED
      BY <2>1, <2>2
  <1>5. ASSUME state \in Seqnos, ~stale PROVE Ahead(state)'
    BY <1>1, <1>5 DEF IInv, Numbers, Ahead, Lead
  <1> QED
    BY <1>2, <1>4, <1>5 DEF Numbers

\* The active process is alone.
LEMMA AloneFact ==
  ASSUME IInv, NEW p \in Procs, Active(p), NEW q \in Procs, q # p
  PROVE  pc[q] \in {"off", "pidfile"}
  BY DEF IInv, Owner, Active

\* A process goes on without reading or writing the file.
LEMMA OnwardFact ==
  ASSUME IInv, Types', UNCHANGED <<said, stale, state, seqno, fromFile, starts>>,
         NEW p \in Procs, NEW l, pc' = [pc EXCEPT ![p] = l],
         \/ l = "off"
         \/ l \in Early /\ pc[p] \in Early
         \/ pc[p] = "ready" /\ l = "loop"
         \/ pc[p] = "loop" /\ l \in {"loop", "open"}
  PROVE  Numbers'
  <1>1. Types /\ starts \in Nat /\ starts' \in Nat
    BY DEF IInv, Types
  <1>2. l \in Early => pc[p] \in Early
    BY DEF Early
  <1>3. /\ Cardinality(Pending) \in Nat /\ Cardinality(Pending') \in Nat
        /\ Cardinality(Pending') <= Cardinality(Pending)
    BY <1>1, <1>2, MoveFact
  <1>4. \A q \in Procs : pc'[q] \in {"ready", "loop", "open", "write"} =>
          /\ seqno'[q] = seqno[q] /\ fromFile'[q] = fromFile[q]
          /\ \/ pc'[q] = pc[q]
             \/ pc[q] = "ready" /\ pc'[q] = "loop"
             \/ pc[q] = "loop" /\ pc'[q] = "open"
    BY <1>1 DEF Types, Early
  <1>5. Cardinality(Pending') + starts <= Cardinality(Pending) + starts'
    BY <1>1, <1>3
  <1> QED
    BY <1>1, <1>3, <1>4, <1>5, SameNumbersFact

\* A process reads the state file.
LEMMA ReadStateFact ==
  ASSUME IInv, Types', NEW p \in Procs, ReadState(p)
  PROVE  Numbers'
  <1>1. /\ pc[p] = "state" /\ pc' = [pc EXCEPT ![p] = "ready"]
        /\ starts' = starts /\ starts \in Nat /\ starts <= MaxStarts
        /\ Types /\ Active(p)
    BY DaemonAssumption DEF ReadState, At, Goto, IInv, Types, Active
  <1>2. /\ Cardinality(Pending) \in Nat /\ Cardinality(Pending') \in Nat
        /\ Cardinality(Pending') + 1 <= Cardinality(Pending)
        /\ Cardinality(Pending) <= starts
    BY <1>1, MoveFact DEF Early, IInv, Numbers
  <1>3. \A q \in Procs : pc'[q] \in {"ready", "loop", "open", "write"} => q = p
    BY <1>1, AloneFact DEF Types
  <1>4. state' = None \/ stale'
    BY DEF ReadState, Unlinked
  <1>5. pc'[p] = "ready" /\ None \notin Seqnos
    BY <1>1, DaemonAssumption, SeqModAssumption DEF Types, Seqnos
  <1>6. said' # None => fromFile'[p] /\ Lead(seqno[p])' >= 1 /\ Ahead(seqno[p])'
    <2> SUFFICES ASSUME said' # None
                 PROVE  fromFile'[p] /\ Lead(seqno[p])' >= 1 /\ Ahead(seqno[p])'
      OBVIOUS
    <2>1. /\ state \notin {None, Empty} /\ ~stale /\ said' = said /\ fromFile'[p]
          /\ seqno'[p] = seqno_plus(state, 1)
      BY <1>1 DEF ReadState, Types
    <2>2. state \in Seqnos /\ said \in Seqnos
      BY <1>1, <2>1 DEF Types
    <2>3. Lead(state) + Cardinality(Pending) <= starts
      BY <2>1, <2>2 DEF IInv, Numbers, Ahead
    <2>4. Lead(state) \in Nat
          /\ (Lead(state) + 1 < SeqMod =>
                (seqno_plus(state, 1) - said) % SeqMod = Lead(state) + 1)
      BY <2>2, CircleFact DEF Lead
    <2>5. Lead(state) + 1 < SeqMod
      BY <1>1, <1>2, <2>3, <2>4, DaemonAssumption, SeqModAssumption
    <2>6. Lead(seqno[p])' = Lead(state) + 1
      BY <2>1, <2>4, <2>5 DEF Lead
    <2>7. Lead(state) + 1 + Cardinality(Pending') <= starts
      BY <1>1, <1>2, <2>3, <2>4
    <2> QED
      BY <1>1, <2>1, <2>4, <2>6, <2>7 DEF Ahead
  <1>7. Cardinality(Pending') <= starts'
    BY <1>1, <1>2
  <1>8. (state \in Seqnos /\ ~stale)' => FALSE
    BY <1>4, <1>5
  <1>9. Ahead(seqno[p])'
    BY <1>6 DEF Ahead
  <1> QED
    BY <1>3, <1>4, <1>5, <1>6, <1>7, <1>8, <1>9 DEF Numbers, At

\* A process announces its number.
LEMMA AnnounceFact ==
  ASSUME IInv, Types', NEW p \in Procs, Announce(p)
  PROVE  Numbers'
  <1>1. /\ pc[p] = "loop" /\ pc' = pc /\ starts' = starts /\ Types /\ Active(p)
        /\ UNCHANGED <<state, stale>> /\ said' = seqno'[p]
    BY DEF Announce, At, IInv, Types, Active, files
  <1>2. Cardinality(Pending') = Cardinality(Pending) /\ Cardinality(Pending) \in Nat
        /\ Cardinality(Pending) <= starts /\ starts \in Nat
    <2>1. Pending' = Pending
      BY <1>1 DEF Pending
    <2>2. Cardinality(Pending) \in Nat
      BY FS_Subset, FS_CardinalityType, DaemonAssumption DEF Pending
    <2> QED
      BY <2>1, <2>2 DEF IInv, Numbers, Types
  <1>3. \A q \in Procs : pc'[q] \in {"ready", "loop", "open", "write"} => q = p
    BY <1>1, AloneFact
  <1>4. Ahead(seqno[p])'
    <2>1. seqno'[p] \in Seqnos
      BY DEF Types
    <2>2. Lead(seqno[p])' = 0
      BY <1>1, <2>1, CircleFact DEF Lead
    <2> QED
      BY <1>1, <1>2, <2>2 DEF Ahead
  <1>5. stale \/ state = None
    BY <1>1 DEF IInv, Numbers
  <1>6. None \notin Seqnos
    BY DaemonAssumption, SeqModAssumption DEF Seqnos
  <1> QED
    BY <1>1, <1>2, <1>3, <1>4, <1>5, <1>6 DEF Numbers, At

\* A process writes the state file.
LEMMA WriteFact ==
  ASSUME IInv, Types', NEW p \in Procs, OpenState(p) \/ WriteState(p)
  PROVE  Numbers'
  <1>1. /\ pc[p] \in {"open", "write"} /\ pc'[p] \in {"write", "unlink"}
        /\ pc' = [pc EXCEPT ![p] = pc'[p]]
        /\ starts' = starts /\ Types /\ Active(p)
        /\ UNCHANGED <<said, seqno, fromFile>>
        /\ pc'[p] = "write" => state' = Empty
        /\ state' \in {None, Empty} \/ (state' = seqno[p] /\ pc[p] = "write")
    BY DEF OpenState, WriteState, At, Goto, IInv, Types, Active, mine, ghosts
  <1>2. Cardinality(Pending') <= Cardinality(Pending) /\ Cardinality(Pending) \in Nat
        /\ Cardinality(Pending') \in Nat /\ Cardinality(Pending) <= starts /\ starts \in Nat
    BY <1>1, MoveFact DEF Early, IInv, Numbers, Types
  <1>3. \A q \in Procs : pc'[q] \in {"ready", "loop", "open", "write"} =>
          q = p /\ pc'[q] = "write"
    BY <1>1, AloneFact DEF Types
  <1>4. Ahead(seqno[p]) => Ahead(seqno[p])'
    <2> SUFFICES ASSUME Ahead(seqno[p]), said # None PROVE Ahead(seqno[p])'
      BY <1>1 DEF Ahead
    <2>1. said \in Seqnos /\ seqno[p] \in Seqnos
      BY <1>1 DEF Types
    <2>2. Lead(seqno[p]) \in Nat /\ Lead(seqno[p])' = Lead(seqno[p])
      BY <1>1, <2>1, CircleFact DEF Lead
    <2> QED
      BY <1>1, <1>2, <2>2 DEF Ahead
  <1>5. Ahead(seqno[p])'
    BY <1>1, <1>4 DEF IInv, Numbers
  <1>6. None \notin Seqnos /\ Empty \notin Seqnos
    BY DaemonAssumption, SeqModAssumption DEF Seqnos, Empty
  <1>7. state' \in Seqnos => Ahead(state)'
    <2>1. state' \in Seqnos => state' = seqno'[p]
      BY <1>1, <1>6
    <2> QED
      BY <1>5, <2>1 DEF Ahead, Lead
  <1> QED
    BY <1>1, <1>2, <1>3, <1>5, <1>7 DEF Numbers, At

\* Whatever process reads, announces or writes a number.
LEMMA NumbersFact == IInv /\ Types' /\ [Next]_vars => Numbers'
  <1> SUFFICES ASSUME IInv, Types', [Next]_vars PROVE Numbers'
    OBVIOUS
  <1> USE DEF At, Goto, files, mine, ghosts
  <1>1. ASSUME NEW p \in Procs, Start(p) PROVE Numbers'
    <2>1. pc' = [pc EXCEPT ![p] = "pidfile"] /\ starts' = starts + 1 /\ starts \in Nat
      BY <1>1 DEF Start, IInv, Types
    <2>2. /\ Cardinality(Pending) \in Nat /\ Cardinality(Pending') \in Nat
          /\ Cardinality(Pending') <= Cardinality(Pending) + 1
      BY <2>1, StartFact DEF IInv
    <2>3. \A q \in Procs : pc'[q] \in {"ready", "loop", "open", "write"} =>
            pc'[q] = pc[q] /\ q # p
      BY <2>1 DEF IInv, Types
    <2>4. UNCHANGED <<said, stale, state>> /\ \A q \in Procs \ {p} :
            seqno'[q] = seqno[q] /\ fromFile'[q] = fromFile[q]
      BY <1>1 DEF Start, IInv, Types
    <2>5. starts' \in Nat /\ Cardinality(Pending') + starts <= Cardinality(Pending) + starts'
      BY <2>1, <2>2
    <2> QED
      BY <2>1, <2>2, <2>3, <2>4, <2>5, SameNumbersFact
  <1>2. ASSUME NEW p \in Procs, CreatePid(p) PROVE Numbers'
    BY <1>2, OnwardFact DEF CreatePid, PidExists, FailPid, Early
  <1>3. ASSUME NEW p \in Procs, SetSysctl(p) PROVE Numbers'
    BY <1>3, OnwardFact DEF SetSysctl, FailPid, Early
  <1>4. ASSUME NEW p \in Procs, OpenKernelSocket(p) PROVE Numbers'
    BY <1>4, OnwardFact DEF OpenKernelSocket, FailPid, Early
  <1>5. ASSUME NEW p \in Procs, FinaliseConfig(p) PROVE Numbers'
    BY <1>5, OnwardFact DEF FinaliseConfig, Fail, FailPid, Early
  <1>6. ASSUME NEW p \in Procs, ReadState(p) PROVE Numbers'
    BY <1>6, ReadStateFact
  <1>7. ASSUME NEW p \in Procs, OpenSockets(p) PROVE Numbers'
    BY <1>7, OnwardFact DEF OpenSockets, Fail, FailPid, Early
  <1>8. ASSUME NEW p \in Procs, Announce(p) PROVE Numbers'
    BY <1>8, AnnounceFact
  <1>9. ASSUME NEW p \in Procs, Signal(p) PROVE Numbers'
    <2>1. pc' = [pc EXCEPT ![p] = "loop"] /\ pc[p] = "loop"
      BY <1>9 DEF Signal, IInv, Types
    <2> QED
      BY <1>9, <2>1, OnwardFact DEF Signal
  <1>10. ASSUME NEW p \in Procs, Leave(p) PROVE Numbers'
    BY <1>10, OnwardFact DEF Leave, Early
  <1>11. ASSUME NEW p \in Procs, OpenState(p) PROVE Numbers'
    BY <1>11, WriteFact
  <1>12. ASSUME NEW p \in Procs, WriteState(p) PROVE Numbers'
    BY <1>12, WriteFact
  <1>13. ASSUME NEW p \in Procs, Unlink(p) PROVE Numbers'
    BY <1>13, OnwardFact DEF Unlink, FailPid, Early
  <1>14. ASSUME NEW p \in Procs, Crash(p) PROVE Numbers'
    BY <1>14, OnwardFact DEF Crash, Early
  <1>15. CASE CleanUp
    <2>1. pc' = pc /\ Pending' = Pending /\ starts' \in Nat /\ starts' = starts
      BY <1>15 DEF CleanUp, Pending, Types
    <2>2. Cardinality(Pending) \in Nat
      BY FS_Subset, FS_CardinalityType, DaemonAssumption DEF Pending
    <2> QED
      BY <1>15, <2>1, <2>2, SameNumbersFact DEF CleanUp
  <1>16. CASE UNCHANGED vars
    <2>1. pc' = pc /\ Pending' = Pending /\ starts' \in Nat /\ starts' = starts
      BY <1>16 DEF vars, Pending, Types
    <2>2. Cardinality(Pending) \in Nat
      BY FS_Subset, FS_CardinalityType, DaemonAssumption DEF Pending
    <2> QED
      BY <1>16, <2>1, <2>2, SameNumbersFact DEF vars
  <1> QED
    BY <1>1, <1>2, <1>3, <1>4, <1>5, <1>6, <1>7, <1>8, <1>9, <1>10, <1>11, <1>12, <1>13, <1>14, <1>15, <1>16 DEF Next


-----------------------------------------------------------------------------
(* The theorems. *)

\* No process has been started.
LEMMA InitFact == Init => IInv
  <1> SUFFICES ASSUME Init PROVE IInv
    OBVIOUS
  <1>1. Pending = {} /\ Cardinality(Pending) = 0
    BY FS_EmptySet DEF Init, Pending, Early
  <1>2. Types
    <2>1. sysctl \in [Sysctls -> BOOLEAN]
      <3>1. \A s : (s \in Already) = TRUE \/ (s \in Already) = FALSE
        OBVIOUS
      <3> QED
        BY <3>1, SMT DEF Init
    <2>2. 0 \in Seqnos /\ 0 \in 0 .. MaxStarts
      BY DaemonAssumption, SeqModAssumption DEF Seqnos
    <2> QED
      BY <2>1, <2>2 DEF Init, Types, Labels, Unknown
  <1>3. Owner /\ Remembers /\ InOrder
    BY DEF Init, Owner, Active, Remembers, Set, InOrder, At
  <1>4. Numbers
    <2>1. state \notin Seqnos
      BY DaemonAssumption, SeqModAssumption DEF Init, Seqnos
    <2> QED
      BY <1>1, <2>1 DEF Init, Numbers, At
  <1> QED
    BY <1>2, <1>3, <1>4 DEF IInv

\* The inductive invariant holds throughout.
THEOREM DaemonSound == Spec => []IInv
  <1>1. IInv /\ [Next]_vars => IInv'
    BY OwnerFact, TypesFact, InOrderFact, RemembersFact, NumbersFact DEF IInv
  <1> QED
    BY <1>1, InitFact, PTL DEF Spec

\* At most one process is between the creation of the pid file in main and its
\* removal, whoever is killed, fails or leaves.
THEOREM ExcludesOthers == Spec => []OneDaemon
  <1>1. IInv => OneDaemon
    BY DEF IInv, Owner, OneDaemon
  <1> QED
    BY <1>1, DaemonSound, PTL

\* kernel_setup(0) leaves the sysctls as kernel_setup(1) found them, also when it
\* runs in another process than the one that changed them first.
THEOREM PutsBack == Spec => []Restored
  <1>1. IInv => Restored
    BY DEF IInv, Remembers, Restored, Set, Active
  <1> QED
    BY <1>1, DaemonSound, PTL

\* A number taken from the state file is newer than what was announced before,
\* for up to half of the circle of restarts.
THEOREM RestartIsNewer == Spec => []SeqnoIsNewer
  <1>1. ASSUME IInv PROVE SeqnoIsNewer
    <2> SUFFICES ASSUME NEW p \in Procs, At(p, "ready"), said # None
                 PROVE  seqno_compare(seqno[p], said) > 0
      BY DEF SeqnoIsNewer
    <2>1. seqno[p] \in Seqnos /\ said \in Seqnos /\ starts \in Nat /\ starts <= MaxStarts
      BY <1>1, DaemonAssumption DEF IInv, Types
    <2>2. Lead(seqno[p]) >= 1 /\ Lead(seqno[p]) + Cardinality(Pending) <= starts
      BY <1>1 DEF IInv, Numbers, At, Ahead
    <2>3. Cardinality(Pending) \in Nat
      BY FS_Subset, FS_CardinalityType, DaemonAssumption DEF Pending
    <2>4. Lead(seqno[p]) \in Nat
      BY <2>1, CircleFact DEF Lead
    <2>5. 2 * Lead(seqno[p]) < SeqMod
      BY <2>1, <2>2, <2>3, <2>4, DaemonAssumption, SeqModAssumption
    <2> QED
      BY <2>1, <2>2, <2>5, CircleFact DEF Lead
  <1> QED
    BY <1>1, DaemonSound, PTL

=============================================================================
