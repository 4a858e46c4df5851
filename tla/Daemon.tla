------------------------------- MODULE Daemon -------------------------------
(***************************************************************************)
(* The life of a babeld process (main in babeld.c): start-up, main loop,   *)
(* shutdown, and what it shares with the processes before, after and       *)
(* beside it: the pid file, the state file, the kernel's sysctls and the   *)
(* path of the control socket.  A system call may fail, and a process may  *)
(* be killed between any two of its steps.                                 *)
(***************************************************************************)
EXTENDS Seqno, FiniteSets

CONSTANTS
  Procs,        \* processes, started again and again with the same options
  None,
  NumSysctls,   \* NUM_SYSCTLS
  Already,      \* the sysctls that the kernel has as babeld wants them
  MaxStarts,    \* bound: processes that are started
  MaxSteps,     \* bound: announcements
  MaxFaults     \* bound: failures and kills

\* The sequence number does not go half way round the circle.
ASSUME DaemonAssumption ==
  /\ NumSysctls \in Nat \ {0}
  /\ MaxStarts \in Nat /\ MaxSteps \in Nat
  /\ 2 * (MaxStarts + MaxSteps) < SeqMod
  /\ IsFiniteSet(Procs)
  /\ None \notin Procs \cup BOOLEAN \cup Int

Sysctls == 1 .. NumSysctls

VARIABLES
  pc,      \* how far each process is in main
  seqno,   \* its myseqno
  fromFile,\* it has that from the state file
  was,     \* what it remembers of each sysctl
  exiting, \* a signal has set exiting, or reopen_logfile has failed
  pidfile, \* whose pid it holds
  state,   \* the state file: None, Empty or a number
  path,    \* the path of the control socket exists
  sysctl,  \* whether the kernel has the value that babeld wants
  said,    \* the last sequence number announced, since one was chosen at random
           \* or taken from a state file that should not have been there
  lost,    \* sysctls whose old value nobody remembers any more
  stale,   \* the state file could not be removed
  faults, starts, steps

vars == <<pc, seqno, fromFile, was, exiting, pidfile, state, path, sysctl, said,
          lost, stale, faults, starts, steps>>
ghosts == <<said, lost, stale>>
files == <<pidfile, state, path>>
mine == <<seqno, fromFile, was, exiting>>

Empty == -1
Unknown == [s \in Sysctls |-> None]

At(p, l) == pc[p] = l
Goto(p, l) == pc' = [pc EXCEPT ![p] = l]
Fault == faults < MaxFaults /\ faults' = faults + 1

-----------------------------------------------------------------------------
(* Start-up.                                                               *)

\* Options and configuration are parsed; whatever is wrong there ends the
\* process before it has touched anything.
Start(p) ==
  /\ At(p, "off") /\ Goto(p, "pidfile")
  /\ starts < MaxStarts /\ starts' = starts + 1
  /\ seqno' = [seqno EXCEPT ![p] = 0] /\ fromFile' = [fromFile EXCEPT ![p] = FALSE]
  /\ was' = [was EXCEPT ![p] = Unknown] /\ exiting' = [exiting EXCEPT ![p] = FALSE]
  /\ UNCHANGED <<files, sysctl, ghosts, faults, steps>>

\* fail_pid.
FailPid(p) == pidfile' = None /\ Goto(p, "off")

\* Mutant of PidExists: the failure is treated like any other.
PidExistsUnlinked(p) == pidfile # None /\ FailPid(p)

\* exit(1): the file is another's.
PidExists(p) == pidfile # None /\ Goto(p, "off") /\ UNCHANGED pidfile

CreatePid(p) ==
  /\ At(p, "pidfile")
  /\ \/ PidExists(p) /\ UNCHANGED faults
     \/ pidfile = None /\ pidfile' = p /\ Goto(p, "sysctls") /\ UNCHANGED faults
     \/ pidfile = None /\ Fault /\ FailPid(p) \* write
  /\ UNCHANGED <<mine, state, path, sysctl, ghosts, starts, steps>>

\* The sysctls that the process has changed.
Changed(p) == {s \in Sysctls : was[p][s] = FALSE}

\* kernel_setup(1), one sysctl.  One that cannot be read or written ends the
\* process, and those before it stay as they are.
SetSysctl(p) ==
  /\ At(p, "sysctls")
  /\ LET s == CHOOSE x \in Sysctls : was[p][x] = None /\ \A y \in 1 .. x - 1 : was[p][y] # None
     IN  \/ /\ was' = [was EXCEPT ![p][s] = sysctl[s]]
            /\ sysctl' = [sysctl EXCEPT ![s] = TRUE]
            /\ Goto(p, IF s = NumSysctls THEN "socket" ELSE "sysctls")
            /\ UNCHANGED <<pidfile, lost, faults>>
         \/ /\ Fault /\ FailPid(p) /\ lost' = lost \cup Changed(p)
            /\ UNCHANGED <<was, sysctl>>
  /\ UNCHANGED <<seqno, fromFile, exiting, state, path, said, stale, starts, steps>>

\* Mutant of Restore: what was changed stays.
RestoreNothing(p) == sysctl

\* kernel_setup(0).
Restore(p) == [s \in Sysctls |-> sysctl[s] /\ s \notin Changed(p)]

\* kernel_setup_socket(1).
OpenKernelSocket(p) ==
  /\ At(p, "socket")
  /\ \/ Goto(p, "config") /\ UNCHANGED <<pidfile, sysctl, faults>>
     \/ Fault /\ sysctl' = Restore(p) /\ FailPid(p)
  /\ UNCHANGED <<mine, state, path, ghosts, starts, steps>>

\* The label fail.
Fail(p) == Fault /\ sysctl' = Restore(p) /\ FailPid(p)

\* finalise_config, the interfaces and the router id.
FinaliseConfig(p) ==
  /\ At(p, "config")
  /\ \/ Goto(p, "state") /\ UNCHANGED <<pidfile, sysctl, faults>>
     \/ Fail(p)
  /\ UNCHANGED <<mine, state, path, ghosts, starts, steps>>

\* Mutant of Unlinked: the state file stays where it is.
UnlinkedNot(old) == old

Unlinked(old) == None

\* The sequence number is the one after the number in the state file, which is
\* removed; it is random when there is none, when it cannot be read, or when it
\* cannot be removed ("it's probably stale").
ReadState(p) ==
  /\ At(p, "state") /\ Goto(p, "ready")
  /\ \E random \in Seqnos :
       LET taken == state \notin {None, Empty}
       IN  \/ /\ seqno' = [seqno EXCEPT ![p] =
                             IF taken THEN seqno_plus(state, 1) ELSE random]
              /\ fromFile' = [fromFile EXCEPT ![p] = taken]
              /\ said' = IF taken /\ ~stale THEN said ELSE None
              /\ state' = Unlinked(state) /\ stale' = FALSE
              /\ UNCHANGED faults
           \/ /\ Fault /\ state # None
              /\ seqno' = [seqno EXCEPT ![p] = random] /\ said' = None
              /\ \/ state' = Unlinked(state) /\ stale' = FALSE
                 \/ UNCHANGED state /\ stale' = TRUE
              /\ UNCHANGED fromFile
  /\ UNCHANGED <<was, exiting, pidfile, path, sysctl, lost, starts, steps>>

\* The sockets, and init_signals.  A path that exists cannot be bound, and is
\* not removed when something fails after it was bound.
OpenSockets(p) ==
  /\ At(p, "ready")
  /\ \/ ~path /\ path' = TRUE /\ Goto(p, "loop") /\ UNCHANGED <<pidfile, sysctl, faults>>
     \/ path /\ sysctl' = Restore(p) /\ FailPid(p) /\ UNCHANGED <<path, faults>>
     \/ Fail(p) /\ path' \in {path, TRUE}
  /\ UNCHANGED <<mine, state, ghosts, starts, steps>>

-----------------------------------------------------------------------------
(* The main loop, and the way out.                                         *)

\* Updates carry the sequence number; requests make it grow.
Announce(p) ==
  /\ At(p, "loop") /\ steps < MaxSteps /\ steps' = steps + 1
  /\ \E n \in {seqno[p], seqno_plus(seqno[p], 1)} :
       seqno' = [seqno EXCEPT ![p] = n] /\ said' = n
  /\ UNCHANGED <<pc, fromFile, was, exiting, files, sysctl, lost, stale, faults, starts>>

\* SIGTERM, SIGINT, SIGHUP; before init_signals they kill.  Or a SIGUSR2 makes
\* reopen_logfile fail.
Signal(p) ==
  /\ At(p, "loop") /\ exiting' = [exiting EXCEPT ![p] = TRUE]
  /\ UNCHANGED <<pc, seqno, fromFile, was, files, sysctl, ghosts, faults, starts, steps>>

\* The loop ends; routes are flushed, retractions sent, interfaces brought down
\* and kernel_setup(0) called, which stops at a sysctl that cannot be written.
Leave(p) ==
  /\ At(p, "loop") /\ exiting[p] /\ Goto(p, "open")
  /\ \/ sysctl' = Restore(p) /\ UNCHANGED <<faults, lost>>
     \/ \E s \in Changed(p) :
          /\ Fault
          /\ sysctl' = [x \in Sysctls |-> IF x < s THEN Restore(p)[x] ELSE sysctl[x]]
          /\ lost' = lost \cup {x \in Changed(p) : x >= s}
  /\ UNCHANGED <<mine, files, said, stale, starts, steps>>

\* open(state_file) truncates it, or fails.
OpenState(p) ==
  /\ At(p, "open")
  /\ \/ state' = Empty /\ Goto(p, "write") /\ UNCHANGED faults
     \/ Fault /\ state' = None /\ Goto(p, "unlink")
  /\ UNCHANGED <<mine, pidfile, path, sysctl, ghosts, starts, steps>>

WriteState(p) ==
  /\ At(p, "write") /\ Goto(p, "unlink")
  /\ \/ state' = seqno[p] /\ stale' = FALSE /\ UNCHANGED faults
     \/ Fault /\ state' = None /\ UNCHANGED stale
  /\ UNCHANGED <<mine, pidfile, path, sysctl, said, lost, starts, steps>>

Unlink(p) ==
  /\ At(p, "unlink") /\ path' = FALSE /\ FailPid(p)
  /\ UNCHANGED <<mine, state, sysctl, ghosts, faults, starts, steps>>

-----------------------------------------------------------------------------

\* Kill, power loss, or a signal before init_signals.
Crash(p) ==
  /\ pc[p] # "off" /\ Fault /\ Goto(p, "off")
  /\ lost' = lost \cup {s \in Changed(p) : sysctl[s]}
  /\ UNCHANGED <<mine, files, sysctl, said, stale, starts, steps>>

\* The operator removes what a dead process has left behind.
CleanUp ==
  /\ \A p \in Procs : pc[p] \in {"off", "pidfile"}
  /\ (pidfile # None \/ path) /\ pidfile' = None /\ path' = FALSE
  /\ UNCHANGED <<pc, mine, state, sysctl, ghosts, faults, starts, steps>>

Init ==
  /\ pc = [p \in Procs |-> "off"] /\ seqno = [p \in Procs |-> 0]
  /\ fromFile = [p \in Procs |-> FALSE] /\ was = [p \in Procs |-> Unknown]
  /\ exiting = [p \in Procs |-> FALSE]
  /\ pidfile = None /\ state = None /\ path = FALSE
  /\ sysctl = [s \in Sysctls |-> s \in Already] /\ said = None
  /\ lost = {} /\ stale = FALSE /\ faults = 0 /\ starts = 0 /\ steps = 0

Next ==
  \/ \E p \in Procs :
       \/ Start(p) \/ CreatePid(p) \/ SetSysctl(p) \/ OpenKernelSocket(p)
       \/ FinaliseConfig(p) \/ ReadState(p) \/ OpenSockets(p) \/ Announce(p)
       \/ Signal(p) \/ Leave(p) \/ OpenState(p) \/ WriteState(p) \/ Unlink(p)
       \/ Crash(p)
  \/ CleanUp

Spec == Init /\ [][Next]_vars

-----------------------------------------------------------------------------

Active(p) == pc[p] \notin {"off", "pidfile"}

\* The pid file excludes a second process, also when others fail to start, fail
\* half way, are killed or leave while one is running: the file a process
\* removes is its own.
OneDaemon == \A p, q \in Procs : Active(p) /\ Active(q) => p = q

\* A sequence number taken from the state file is newer than all that were
\* announced since one was last chosen at random, whatever processes were killed
\* or failed in between: neighbours would ignore older updates as unfeasible.
\* (The number in a state file that could not be removed starts afresh, like a
\* random one.)
SeqnoIsNewer == \A p \in Procs :
  At(p, "ready") /\ fromFile[p] /\ said # None => seqno_compare(seqno[p], said) > 0

\* When no process is left, the kernel's settings are what they were, except
\* those that a killed process had changed, or one that failed in kernel_setup.
Restored == (\A p \in Procs : ~Active(p)) =>
  \A s \in Sysctls \ lost : sysctl[s] = (s \in Already)

=============================================================================
