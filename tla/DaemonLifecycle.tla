--------------------------- MODULE DaemonLifecycle ---------------------------
(***************************************************************************)
(* The local daemon and the commands of the CLI that start, find and stop   *)
(* it (apps/cli/src/main.ts, daemon.ts, daemon-state.ts).  Every command is *)
(* a process of its own; the processes share three kinds of files: under    *)
(* each scope a pointer to its daemon and a start lock, under each port the *)
(* record of the daemon on it.  A process may die at any point, and its pid *)
(* may be given to another one.  All is on one host.                        *)
(*                                                                         *)
(* An action is one file operation, one request to a port or one signal.    *)
(* A daemon that serves is taken to answer within the two seconds that      *)
(* isServerReachable waits.                                                 *)
(***************************************************************************)
EXTENDS Integers, FiniteSets

CONSTANTS
  Pids,      \* process ids; bounds the processes at one time
  Scopes,    \* projects
  Ports,
  Preferred, \* the default port
  Other,     \* some program that is not a daemon
  MaxCommands, \* bound: commands given
  Absent     \* no pid, and no pointer

ASSUME ShapeAssumption ==
  /\ Scopes # {}
  /\ Preferred \in Ports
  /\ Absent \notin Pids \cup [pid : Pids, port : Ports]
  /\ Other \notin Pids \cup {Absent}
  /\ MaxCommands \in Nat

VARIABLES
  pointer,  \* the pointer file of each scope: a pid and a port
  lock,     \* the start lock of each scope: the pid in it
  record,   \* the record file of each port: the pid in it
  bound,    \* who listens on a port
  proc,     \* the processes
  commands, \* how many commands were given
  robbed,   \* history: scopes where a live process lost its start lock
  excused   \* history: scopes where something else went wrong, see OneDaemon

daemonVars == <<pointer, lock, record, bound, proc, commands, robbed, excused>>

Commands == {"ensure", "run", "stop", "status"}
Pointers == [pid : Pids, port : Ports]
Steps == {"dead", "resolve", "check", "clean", "cleanRecord", "target",
          "tryLock", "readLock", "checkOwner", "steal", "relock", "awaitUp", "release",
          "writeRecord", "writePointer", "serving",
          "awaitDown", "dropRecord", "dropPointer"}

\* `port` is the daemon's own or the one the command looks at, `ptr` the pointer
\* and `owner` the pid of a lock as they were read, `starter` whether a process
\* holds, or thinks it holds, the start lock, `auto` whether it was spawned by
\* such a process.
ProcType == [cmd : Commands, scope : Scopes, pc : Steps, port : Ports,
             ptr : Pointers \cup {Absent}, owner : Pids \cup {Absent},
             starter : BOOLEAN, auto : BOOLEAN]

DaemonTypeOK ==
  /\ pointer \in [Scopes -> Pointers \cup {Absent}]
  /\ lock \in [Scopes -> Pids \cup {Absent}]
  /\ record \in [Ports -> Pids \cup {Absent}]
  /\ bound \in [Ports -> Pids \cup {Absent, Other}]
  /\ proc \in [Pids -> ProcType]
  /\ commands \in 0..MaxCommands
  /\ robbed \subseteq Scopes
  /\ excused \subseteq Scopes

New(cmd, s, port, auto) ==
  [cmd |-> cmd, scope |-> s, pc |-> "resolve", port |-> port, ptr |-> Absent,
   owner |-> Absent, starter |-> FALSE, auto |-> auto]
Dead == [New("status", CHOOSE s \in Scopes : TRUE, Preferred, FALSE) EXCEPT !.pc = "dead"]

DaemonInit ==
  /\ pointer = [s \in Scopes |-> Absent]
  /\ lock = [s \in Scopes |-> Absent]
  /\ record = [port \in Ports |-> Absent]
  /\ \E x \in {Absent, Other} :   \* the default port may be in use
       bound = [[port \in Ports |-> Absent] EXCEPT ![Preferred] = x]
  /\ proc = [p \in Pids |-> Dead]
  /\ robbed = {}
  /\ commands = 0
  /\ excused = {}
-----------------------------------------------------------------------------
Alive(p) == p \in Pids /\ proc[p].pc # "dead"  \* isPidAlive
Reachable(port) == bound[port] \in Pids         \* isServerReachable, of any scope
Scope(p) == proc[p].scope
At(p, pc) == proc[p].pc = pc
IsDaemon(p) == p \in Pids /\ \E port \in Ports : bound[port] = p

Goto(p, pc) == proc' = [proc EXCEPT ![p].pc = pc]
Exit(p) == proc' = [proc EXCEPT ![p] = Dead]
Files == <<pointer, lock, record>>
History == <<commands, robbed, excused>>

\* The pointer names a daemon of the scope that is up, and is not p.
PointsToAnother(s, p) ==
  /\ pointer[s] # Absent
  /\ pointer[s].pid # p
  /\ Scope(pointer[s].pid) = s
  /\ bound[pointer[s].port] = pointer[s].pid

\* A daemon of the scope is up and has not written its pointer yet.
Unannounced(s) == \E q \in Pids : IsDaemon(q) /\ Scope(q) = s
                                  /\ proc[q].pc \in {"writeRecord", "writePointer"}

\* A daemon was spawned for the scope and is still on its way to its port.
Coming(s) == \E q \in Pids : /\ proc[q].auto /\ Scope(q) = s
                             /\ proc[q].pc \in {"resolve", "check", "clean", "cleanRecord",
                                               "target"}
-----------------------------------------------------------------------------
(* A command begins: the user's, or spawned by ensure.                      *)

Start(p, cmd, s, port) ==
  /\ ~Alive(p)
  /\ commands < MaxCommands
  /\ commands' = commands + 1
  /\ cmd # "run" => port = Preferred
  /\ proc' = [proc EXCEPT ![p] = New(cmd, s, port, FALSE)]
  /\ UNCHANGED <<Files, bound, robbed, excused>>

\* resolveDaemonTarget, and the like at the start of runDaemonSession.
ReadPointer(p) ==
  /\ At(p, "resolve")
  /\ LET ptr == pointer[Scope(p)]
     IN /\ proc' = [proc EXCEPT
             ![p].ptr = ptr,
             ![p].pc = IF ptr = Absent THEN "target"
                       ELSE IF Alive(ptr.pid) THEN "check" ELSE "clean"]
        /\ excused' = IF Unannounced(Scope(p)) THEN excused \cup {Scope(p)} ELSE excused
  /\ UNCHANGED <<Files, bound, commands, robbed>>

CheckPointer(p) ==
  /\ At(p, "check")
  /\ LET ptr == proc[p].ptr
     IN IF ~Reachable(ptr.port) THEN Goto(p, "clean")
        ELSE IF proc[p].cmd = "run" THEN Exit(p)
        ELSE proc' = [proc EXCEPT ![p].pc = "target", ![p].port = ptr.port, ![p].ptr = Absent]
  /\ UNCHANGED <<Files, bound, History>>

\* A pointer is removed whatever it says by now.
PointerRemoved(p) ==
  /\ pointer' = [pointer EXCEPT ![Scope(p)] = Absent]
  /\ excused' = IF PointsToAnother(Scope(p), p) THEN excused \cup {Scope(p)} ELSE excused

CleanPointer(p) ==
  /\ At(p, "clean")
  /\ PointerRemoved(p)
  /\ Goto(p, "cleanRecord")
  /\ UNCHANGED <<lock, record, bound, commands, robbed>>

CleanRecord(p) ==
  /\ At(p, "cleanRecord")
  /\ record' = [record EXCEPT ![proc[p].ptr.port] = Absent]
  /\ proc' = [proc EXCEPT ![p].pc = "target", ![p].ptr = Absent]
  /\ UNCHANGED <<pointer, lock, bound, History>>
-----------------------------------------------------------------------------
(* ensureDaemon.                                                            *)

\* Something answers at the target: that will do, whose ever daemon it is.
Probe(p) ==
  /\ proc[p].cmd = "ensure" /\ At(p, "target") /\ ~proc[p].starter
  /\ IF Reachable(proc[p].port) THEN Exit(p) ELSE Goto(p, "tryLock")
  /\ UNCHANGED <<Files, bound, History>>

\* acquireDaemonStartLock: creation fails when the file exists.  The holder of
\* the lock resolves the target once more.
TakeLock(p) ==
  /\ lock' = [lock EXCEPT ![Scope(p)] = p]
  /\ proc' = [proc EXCEPT ![p].pc = "resolve", ![p].starter = TRUE,
                          ![p].port = Preferred]

(* Mutant: the lock file is written over one that exists.                  *)
TryLockOver(p) ==
  /\ At(p, "tryLock")
  /\ TakeLock(p)
  /\ UNCHANGED <<pointer, record, bound, History>>

TryLock(p) ==
  /\ At(p, "tryLock")
  /\ IF lock[Scope(p)] = Absent
     THEN TakeLock(p)
     ELSE Goto(p, "readLock") /\ UNCHANGED lock
  /\ UNCHANGED <<pointer, record, bound, History>>

ReadLock(p) ==
  /\ At(p, "readLock")
  /\ IF lock[Scope(p)] = Absent
     THEN Exit(p)
     ELSE proc' = [proc EXCEPT ![p].pc = "checkOwner", ![p].owner = lock[Scope(p)]]
  /\ UNCHANGED <<Files, bound, History>>

CheckOwner(p) ==
  /\ At(p, "checkOwner")
  /\ IF Alive(proc[p].owner) THEN Exit(p)
     ELSE proc' = [proc EXCEPT ![p].pc = "steal", ![p].owner = Absent]
  /\ UNCHANGED <<Files, bound, History>>

\* The lock is removed whoever holds it by now.
Steal(p) ==
  /\ At(p, "steal")
  /\ lock' = [lock EXCEPT ![Scope(p)] = Absent]
  /\ robbed' = IF \E q \in Pids : lock[Scope(p)] = q /\ proc[q].starter /\ Scope(q) = Scope(p)
               THEN robbed \cup {Scope(p)} ELSE robbed
  /\ Goto(p, "relock")
  /\ UNCHANGED <<pointer, record, bound, commands, excused>>

Relock(p) ==
  /\ At(p, "relock")
  /\ IF lock[Scope(p)] = Absent THEN TakeLock(p) ELSE Exit(p) /\ UNCHANGED lock
  /\ UNCHANGED <<pointer, record, bound, History>>

\* The holder of the lock finds that a daemon has come up meanwhile.
Found(p) ==
  /\ proc[p].cmd = "ensure" /\ At(p, "target") /\ proc[p].starter
  /\ Reachable(proc[p].port)
  /\ Goto(p, "release")
  /\ UNCHANGED <<Files, bound, History>>

(* Mutant: the start lock is released without waiting for the daemon.      *)
SpawnOnly(p, q, port) ==
  /\ proc[p].cmd = "ensure" /\ At(p, "target") /\ proc[p].starter
  /\ ~Reachable(proc[p].port)
  /\ ~Alive(q)
  /\ bound[port] = Absent
  /\ port = Preferred \/ bound[Preferred] # Absent
  /\ proc' = [proc EXCEPT ![p].pc = "release", ![p].port = port,
                          ![q] = New("run", Scope(p), port, TRUE)]
  /\ UNCHANGED <<Files, bound, History>>

\* chooseDaemonPort probes; the daemon q will bind the port later.
Spawn(p, q, port) ==
  /\ proc[p].cmd = "ensure" /\ At(p, "target") /\ proc[p].starter
  /\ ~Reachable(proc[p].port)
  /\ ~Alive(q)
  /\ bound[port] = Absent
  /\ port = Preferred \/ bound[Preferred] # Absent
  /\ proc' = [proc EXCEPT ![p].pc = "awaitUp", ![p].port = port,
                          ![q] = New("run", Scope(p), port, TRUE)]
  /\ UNCHANGED <<Files, bound, History>>

Up(p) ==
  /\ At(p, "awaitUp")
  /\ Reachable(proc[p].port)
  /\ Goto(p, "release")
  /\ excused' = IF Coming(Scope(p)) THEN excused \cup {Scope(p)} ELSE excused
  /\ UNCHANGED <<Files, bound, commands, robbed>>

\* releaseDaemonStartLock.
Release(p) ==
  /\ At(p, "release")
  /\ lock' = [lock EXCEPT ![Scope(p)] = Absent]
  /\ Exit(p)
  /\ UNCHANGED <<pointer, record, bound, History>>
-----------------------------------------------------------------------------
(* runDaemonSession.                                                        *)

\* A port that is taken ends the process.
Bind(p) ==
  /\ proc[p].cmd = "run" /\ At(p, "target")
  /\ IF bound[proc[p].port] = Absent
     THEN bound' = [bound EXCEPT ![proc[p].port] = p] /\ Goto(p, "writeRecord")
     ELSE Exit(p) /\ UNCHANGED bound
  /\ UNCHANGED <<Files, History>>

WriteRecord(p) ==
  /\ At(p, "writeRecord")
  /\ record' = [record EXCEPT ![proc[p].port] = p]
  /\ Goto(p, "writePointer")
  /\ UNCHANGED <<pointer, lock, bound, History>>

WritePointer(p) ==
  /\ At(p, "writePointer")
  /\ pointer' = [pointer EXCEPT ![Scope(p)] = [pid |-> p, port |-> proc[p].port]]
  /\ excused' = IF PointsToAnother(Scope(p), p) THEN excused \cup {Scope(p)} ELSE excused
  /\ Goto(p, "serving")
  /\ UNCHANGED <<lock, record, bound, commands, robbed>>

\* The process gets a signal.  A daemon that serves stops its server and then
\* removes its files, unless the signal interrupts it: the CLI's runtime listens
\* for signals too.  Any other process is ended where it is.
Struck(p, procs) ==
  /\ bound' = [port \in Ports |-> IF bound[port] = p THEN Absent ELSE bound[port]]
  /\ \/ At(p, "serving") /\ proc' = [procs EXCEPT ![p].pc = "dropRecord"]
     \/ proc' = [procs EXCEPT ![p] = Dead]
  /\ excused' = IF At(p, "awaitUp") /\ Coming(Scope(p)) THEN excused \cup {Scope(p)} ELSE excused

Shutdown(p) ==
  /\ Alive(p)
  /\ Struck(p, proc)
  /\ UNCHANGED <<Files, commands, robbed>>
-----------------------------------------------------------------------------
(* stopDaemon and the status command.                                       *)

RecordOf(p) == record[proc[p].port]
Asks(p, cmds) == proc[p].cmd \in cmds /\ At(p, "target")

NothingToDo(p) ==
  /\ \/ Asks(p, {"stop", "status"}) /\ RecordOf(p) = Absent
     \/ Asks(p, {"status"}) /\ (Alive(RecordOf(p)) \/ Reachable(proc[p].port))
  /\ Exit(p)
  /\ UNCHANGED <<Files, bound, History>>

StaleRecord(p) ==
  /\ \/ Asks(p, {"stop"})
     \/ Asks(p, {"status"}) /\ ~Reachable(proc[p].port)
  /\ RecordOf(p) # Absent
  /\ ~Alive(RecordOf(p))
  /\ Goto(p, "dropRecord")
  /\ UNCHANGED <<Files, bound, History>>

\* SIGTERM goes to the pid in the record, whoever has it by now.
Terminate(p, q) ==
  /\ Asks(p, {"stop"})
  /\ RecordOf(p) = q
  /\ Alive(q)
  /\ Struck(q, [proc EXCEPT ![p].pc = "awaitDown"])
  /\ UNCHANGED <<Files, commands, robbed>>

Down(p) ==
  /\ At(p, "awaitDown")
  /\ ~Reachable(proc[p].port)
  /\ Goto(p, "dropRecord")
  /\ UNCHANGED <<Files, bound, History>>

\* A wait for a server to come up (DAEMON_BOOT_TIMEOUT_MS) or to go down
\* (DAEMON_STOP_TIMEOUT_MS) that ends in an error.  The error skips the finally
\* of ensureDaemon: the start lock stays.
TimeOut(p) ==
  /\ \/ At(p, "awaitUp") /\ ~Reachable(proc[p].port)
     \/ At(p, "awaitDown") /\ Reachable(proc[p].port)
  /\ Exit(p)
  /\ excused' = IF At(p, "awaitUp") /\ Coming(Scope(p)) THEN excused \cup {Scope(p)} ELSE excused
  /\ UNCHANGED <<Files, bound, commands, robbed>>

\* The files are removed by a daemon that has stopped, or on its behalf by the
\* command that stopped it or found it dead.
DropRecord(p) ==
  /\ At(p, "dropRecord")
  /\ record' = [record EXCEPT ![proc[p].port] = Absent]
  /\ Goto(p, "dropPointer")
  /\ UNCHANGED <<pointer, lock, bound, History>>

DropPointer(p) ==
  /\ At(p, "dropPointer")
  /\ PointerRemoved(p)
  /\ Exit(p)
  /\ UNCHANGED <<lock, record, bound, commands, robbed>>
-----------------------------------------------------------------------------
DaemonStep(p) ==
  \/ ReadPointer(p) \/ CheckPointer(p) \/ CleanPointer(p) \/ CleanRecord(p)
  \/ Probe(p) \/ TryLock(p) \/ ReadLock(p) \/ CheckOwner(p) \/ Steal(p) \/ Relock(p)
  \/ Found(p) \/ Up(p) \/ Release(p)
  \/ \E q \in Pids, port \in Ports : Spawn(p, q, port)
  \/ Bind(p) \/ WriteRecord(p) \/ WritePointer(p) \/ Shutdown(p)
  \/ NothingToDo(p) \/ StaleRecord(p) \/ \E q \in Pids : Terminate(p, q)
  \/ Down(p) \/ TimeOut(p) \/ DropRecord(p) \/ DropPointer(p)

DaemonNext ==
  \/ \E p \in Pids, cmd \in Commands, s \in Scopes, port \in Ports : Start(p, cmd, s, port)
  \/ \E p \in Pids : DaemonStep(p)

DaemonSpec == DaemonInit /\ [][DaemonNext]_daemonVars
-----------------------------------------------------------------------------
(* Properties.                                                             *)

\* At most one process starts a daemon for a scope at a time, also after
\* processes died with the start lock.  The exception is the race in
\* acquireDaemonStartLock: a process removed the lock of a dead owner after
\* another one had already replaced it.
StartsAlone ==
  \A p, q \in Pids :
    proc[p].starter /\ proc[q].starter /\ Scope(p) = Scope(q) => p = q \/ Scope(p) \in robbed

\* Of the daemons started by the commands, at most one is up for a scope, unless
\* one of these has happened: a start lock was robbed; the pointer to a daemon
\* was removed or replaced by another process while the daemon was up; a command
\* gave up its start lock, or died with it, before the daemon it had spawned was
\* up (its wait may be ended by somebody else's daemon on the port); a pointer
\* was looked up between the moment its daemon answered and the moment it wrote it.
OneDaemon ==
  \A p, q \in Pids :
    /\ IsDaemon(p) /\ proc[p].auto
    /\ IsDaemon(q) /\ proc[q].auto
    /\ Scope(p) = Scope(q)
    => p = q \/ Scope(p) \in robbed \cup excused
=============================================================================
