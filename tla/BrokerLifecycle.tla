--------------------------- MODULE BrokerLifecycle ---------------------------
(***************************************************************************)
(* Broker processes competing for one socket path: ensureBrokerRunning of  *)
(* packages/roundtable/broker/spawn.ts, the startup lock and the bind of   *)
(* broker.ts, and what shutdown() removes.                                 *)
(*                                                                         *)
(* Each step is one system call, because other processes run between them: *)
(* create the lock, write its owner into it, look at the path, probe it,   *)
(* unlink it, bind it, write the pid file, remove the lock; and, at the    *)
(* end, close the server, unlink the path, unlink the pid file.  A process *)
(* may be killed between any two, which leaves its files behind.           *)
(***************************************************************************)
EXTENDS Naturals, FiniteSets

CONSTANTS
  Procs,        \* broker processes, each spawned by some caller
  NoProc,       \* a file that does not exist
  CrashPoints,  \* the values of pc at which a process may be killed
  ChmodMayFail  \* the socket's mode may be refused

ASSUME NoProcAssumption == NoProc \notin Procs
ASSUME ChmodAssumption == ChmodMayFail \in BOOLEAN

VARIABLES
  pc,           \* pc[p]: what process p does next
  lock,         \* creator of the startup lock file
  lockWritten,  \* its pid and token are in the file
  path,         \* the process that bound the socket the path names
  listening,    \* listening[p]: p's server accepts connections
  pidFile       \* the pid in the pid file

lifeVars == <<pc, lock, lockWritten, path, listening, pidFile>>

\* Between creating the lock and removing it.
Startup == {"write", "check", "probe", "unlink", "bind", "bound", "release", "standdown"}
Shutdown == {"closing", "unlinkSocket", "unlinkPid"}
Ended == {"lost", "failed", "exited", "dead"}

\* A client that connects now reaches a broker (canConnect).
Reachable == path # NoProc /\ listening[path]

LifeInit ==
  /\ pc = [p \in Procs |-> "off"]
  /\ lock = NoProc
  /\ lockWritten = FALSE
  /\ path = NoProc
  /\ listening = [p \in Procs |-> FALSE]
  /\ pidFile = NoProc

Goto(p, from, to) == pc[p] = from /\ pc' = [pc EXCEPT ![p] = to]

-----------------------------------------------------------------------------
\* ensureBrokerRunning: nothing answers, so a broker is spawned.
Spawn(p) ==
  /\ ~Reachable
  /\ Goto(p, "off", "acquire")
  /\ UNCHANGED <<lock, lockWritten, path, listening, pidFile>>

\* Variants that take a lock without an owner in it for a stale one, and that
\* do not create it exclusively.
CreateLockOverEmpty(p) ==
  /\ lock = NoProc \/ ~lockWritten
  /\ Goto(p, "acquire", "write")
  /\ lock' = p /\ lockWritten' = FALSE
  /\ UNCHANGED <<path, listening, pidFile>>
CreateLockAnyway(p) ==
  /\ Goto(p, "acquire", "write")
  /\ lock' = p /\ lockWritten' = FALSE
  /\ UNCHANGED <<path, listening, pidFile>>

\* acquireStartupLock: the exclusive create succeeds.
CreateLock(p) ==
  /\ lock = NoProc
  /\ Goto(p, "acquire", "write")
  /\ lock' = p /\ lockWritten' = FALSE
  /\ UNCHANGED <<path, listening, pidFile>>

\* The lock exists and names a process that is dead: fail closed.
StaleLock(p) ==
  /\ lock # NoProc /\ lockWritten /\ pc[lock] = "dead"
  /\ Goto(p, "acquire", "failed")
  /\ UNCHANGED <<lock, lockWritten, path, listening, pidFile>>

\* The lock stayed taken for STARTUP_LOCK_TIMEOUT_MS.
LockTimeout(p) ==
  /\ lock # NoProc
  /\ Goto(p, "acquire", "failed")
  /\ UNCHANGED <<lock, lockWritten, path, listening, pidFile>>

\* The owner's pid and token go into the lock file.
WriteLock(p) ==
  /\ Goto(p, "write", "check")
  /\ lockWritten' = TRUE
  /\ UNCHANGED <<lock, path, listening, pidFile>>

\* listenWhenPathIsFree: existsSync, then canConnect, then unlinkSync.
CheckPath(p) ==
  /\ Goto(p, "check", IF path = NoProc THEN "bind" ELSE "probe")
  /\ UNCHANGED <<lock, lockWritten, path, listening, pidFile>>

ProbePath(p) ==
  /\ Goto(p, "probe", IF Reachable THEN "standdown" ELSE "unlink")
  /\ UNCHANGED <<lock, lockWritten, path, listening, pidFile>>

\* A variant that goes on to listen() without removing what it found stale.
UnlinkNothing(p) ==
  /\ Goto(p, "unlink", "bind")
  /\ UNCHANGED <<lock, lockWritten, path, listening, pidFile>>

UnlinkStale(p) ==
  /\ Goto(p, "unlink", "bind")
  /\ path' = NoProc
  /\ UNCHANGED <<lock, lockWritten, listening, pidFile>>

\* listen(): bound, or EADDRINUSE, which is taken for a broker that won.
Listen(p) ==
  /\ Goto(p, "bind", IF path = NoProc THEN "bound" ELSE "standdown")
  /\ path' = IF path = NoProc THEN p ELSE path
  /\ listening' = [listening EXCEPT ![p] = (path = NoProc)]
  /\ UNCHANGED <<lock, lockWritten, pidFile>>

\* releaseLock, which removes the lock only if its token is in it.
RemoveLock(p) ==
  /\ lock' = IF lock = p /\ lockWritten THEN NoProc ELSE lock
  /\ lockWritten' = (lockWritten /\ lock # p)

\* Another broker owns the path: release the lock and exit.
StandDown(p) ==
  /\ Goto(p, "standdown", "lost")
  /\ RemoveLock(p)
  /\ UNCHANGED <<path, listening, pidFile>>

\* The listening callback: chmod, the pid file, the lock.
WritePid(p) ==
  /\ Goto(p, "bound", "release")
  /\ pidFile' = p
  /\ UNCHANGED <<lock, lockWritten, path, listening>>

StartServing(p) ==
  /\ Goto(p, "release", "serving")
  /\ RemoveLock(p)
  /\ UNCHANGED <<path, listening, pidFile>>

\* chmod fails, and not for want of the file: release the lock, then close.
ChmodFails(p) ==
  /\ ChmodMayFail
  /\ Goto(p, "bound", "abort")
  /\ RemoveLock(p)
  /\ UNCHANGED <<path, listening, pidFile>>

Abort(p) ==
  /\ Goto(p, "abort", "failed")
  /\ path' = NoProc
  /\ listening' = [listening EXCEPT ![p] = FALSE]
  /\ UNCHANGED <<lock, lockWritten, pidFile>>

-----------------------------------------------------------------------------
\* shutdown(), after the idle check or a signal.  server.close() unlinks the
\* path the server was bound to and then closes the socket.
CloseServer(p) ==
  /\ Goto(p, "serving", "closing")
  /\ path' = NoProc
  /\ UNCHANGED <<lock, lockWritten, listening, pidFile>>

CloseSocket(p) ==
  /\ Goto(p, "closing", "unlinkSocket")
  /\ listening' = [listening EXCEPT ![p] = FALSE]
  /\ UNCHANGED <<lock, lockWritten, path, pidFile>>

\* Then shutdown() itself unlinks the path, and the pid file.
UnlinkSocket(p) ==
  /\ Goto(p, "unlinkSocket", "unlinkPid")
  /\ path' = NoProc
  /\ UNCHANGED <<lock, lockWritten, listening, pidFile>>

UnlinkPid(p) ==
  /\ Goto(p, "unlinkPid", "exited")
  /\ pidFile' = NoProc
  /\ UNCHANGED <<lock, lockWritten, path, listening>>

\* The process is killed; its files stay.
Crash(p) ==
  /\ pc[p] \in CrashPoints \ (Ended \cup {"off"})
  /\ pc' = [pc EXCEPT ![p] = "dead"]
  /\ listening' = [listening EXCEPT ![p] = FALSE]
  /\ UNCHANGED <<lock, lockWritten, path, pidFile>>

-----------------------------------------------------------------------------
\* The steps a running process takes by itself.
StartupStep(p) ==
  \/ CreateLock(p) \/ StaleLock(p) \/ LockTimeout(p) \/ WriteLock(p)
  \/ CheckPath(p) \/ ProbePath(p) \/ UnlinkStale(p) \/ Listen(p)
  \/ StandDown(p) \/ WritePid(p) \/ StartServing(p) \/ ChmodFails(p) \/ Abort(p)

ShutdownStep(p) == CloseSocket(p) \/ UnlinkSocket(p) \/ UnlinkPid(p)

LifeNext ==
  \E p \in Procs :
    Spawn(p) \/ StartupStep(p) \/ CloseServer(p) \/ ShutdownStep(p) \/ Crash(p)

LifeSpec == LifeInit /\ [][LifeNext]_lifeVars

\* A running process goes on.  Nothing makes a caller spawn, a broker shut
\* down, or a process die.
LifeFairness == \A p \in Procs : WF_lifeVars(StartupStep(p)) /\ WF_lifeVars(ShutdownStep(p))
LifeFairSpec == LifeSpec /\ LifeFairness

-----------------------------------------------------------------------------
LifeTypeOK ==
  /\ pc \in [Procs -> Startup \cup Shutdown \cup Ended \cup {"off", "acquire", "serving", "abort"}]
  /\ lock \in Procs \cup {NoProc}
  /\ lockWritten \in BOOLEAN
  /\ path \in Procs \cup {NoProc}
  /\ listening \in [Procs -> BOOLEAN]
  /\ pidFile \in Procs \cup {NoProc}

\* The startup section is exclusive: from looking at the path to the end of
\* the bind no other process is in it, whoever was killed while holding the
\* lock (acquireStartupLock).
StartupExclusive ==
  \A p, q \in Procs : pc[p] \in Startup /\ pc[q] \in Startup => p = q

\* The loser leaves the winner's socket alone: no process that is starting
\* removes the path of a broker that accepts connections, although its probe
\* and its unlink are two steps (listenWhenPathIsFree).
StartupNeverSteals ==
  [][\A p, q \in Procs :
       path = p /\ listening[p] /\ pc[q] \in Startup /\ pc'[q] # pc[q] => path' = p]_lifeVars

\* listen() finds the path free: what was checked, or probed and unlinked, is
\* still so.  EADDRINUSE would end the process as if somebody else had won,
\* without looking whether anybody accepts (onError, main.ts's exit 0).
ListenFindsPathFree == \A p \in Procs : pc[p] = "bind" => path = NoProc

\* A spawned process ends up serving, or standing down before a broker that
\* serves, or it fails or is killed: it never exits as if somebody else had
\* won (main.ts's exit 0) when nobody serves, whatever files the killed left.
SpawnEndsWithBroker ==
  \A p \in Procs : pc[p] = "acquire" ~> (Reachable \/ pc[p] \in {"failed", "dead"})
=============================================================================
