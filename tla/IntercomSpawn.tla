--------------------------- MODULE IntercomSpawn ----------------------------
(***************************************************************************)
(* How intercom sessions start their broker: spawnBrokerIfNeeded of        *)
(* packages/intercom/broker/spawn.ts, run by every session that finds no   *)
(* broker, and the life of the broker processes (broker/broker.ts), which  *)
(* share three files: the spawn lock, the socket and the pid file.         *)
(*                                                                         *)
(* A step is one system call: sessions and brokers are processes of their  *)
(* own, and any of them may be killed between two steps.  A lock file is   *)
(* created empty and then written.  Windows, where the path is a named     *)
(* pipe, is left out; so are a pid that was given to another process, and  *)
(* a lock holder that is stopped for more than the ten seconds after which *)
(* its lock counts as old (its own waits end before that).                 *)
(***************************************************************************)
EXTENDS FiniteSets, Naturals

CONSTANTS
  Procs,     \* sessions
  Brokers,   \* broker processes, each started at most once (bound)
  MaxStarts, \* how often sessions look for a broker (bound)
  MaxTries,  \* maxRetries of acquireSpawnLock
  None

ASSUME SpawnAssumption == MaxTries \in Nat /\ MaxStarts \in Nat /\ None \notin Procs \cup Brokers

VARIABLES
  at,      \* at[p]: the next system call of a session
  own,     \* own[p]: it is in the try block of spawnBrokerIfNeeded
  starts,  \* calls of spawnBrokerIfNeeded
  tries,   \* tries[p]: attempts of acquireSpawnLock
  child,   \* child[p]: the broker it spawned
  on,      \* on[p]: the broker it is registered with
  lock,    \* the lock file: who created it, and whether it is written
  sock,    \* the broker whose socket the path names, None without a file
  pidf,    \* the broker the pid file names
  br,      \* br[b]: a broker process
  used,    \* the brokers that a session has left
  robbed   \* history: a session removed the lock of another live one

spawnVars == <<at, own, starts, tries, child, on, lock, sock, pidf, br, used, robbed>>

NoLock == [by |-> None, written |-> FALSE]

SpawnInit ==
  /\ at = [p \in Procs |-> "new"]
  /\ own = [p \in Procs |-> FALSE]
  /\ starts = 0
  /\ tries = [p \in Procs |-> 0]
  /\ child = [p \in Procs |-> None]
  /\ on = [p \in Procs |-> None]
  /\ lock = NoLock
  /\ sock = None
  /\ pidf = None
  /\ br = [b \in Brokers |-> "none"]
  /\ used = {}
  /\ robbed = FALSE

Serves(b) == br[b] \in {"bound", "up"}
Alive(b) == br[b] \notin {"none", "dead"}
Connectable == sock # None /\ Serves(sock)

\* Live sessions between the create and the release of a lock.
Owners == {p \in Procs : own[p] \/ at[p] = "write"}

Goes(p, where) == at' = [at EXCEPT ![p] = where]

files == <<lock, sock, pidf, robbed>>
brokers == <<br, used>>

-----------------------------------------------------------------------------
\* spawnBrokerIfNeeded

\* The first isBrokerRunning() begins: at the start of a session, and when it
\* reconnects after a failure or the loss of its broker.
Start(p) ==
  /\ at[p] \in {"new", "left", "failed"} /\ starts < MaxStarts
  /\ starts' = starts + 1
  /\ Goes(p, "probe")
  /\ UNCHANGED <<own, tries, child, on, files, brokers>>

\* A broker answers: the owner has its finally block to run.
Found(p) == Goes(p, IF own[p] THEN "release" ELSE "connect")

\* None does: get the lock, or, with the lock, spawn one.
NotFound(p) == Goes(p, IF own[p] THEN "spawn" ELSE "acquire")

\* isBrokerRunning(): connect; if that fails read the pid file and, when that
\* process lives, connect again.
Probe(p) ==
  /\ at[p] = "probe"
  /\ IF Connectable THEN Found(p) ELSE Goes(p, "pid")
  /\ UNCHANGED <<own, starts, tries, child, on, files, brokers>>

ReadPid(p) ==
  /\ at[p] = "pid"
  /\ IF pidf # None /\ Alive(pidf) THEN Goes(p, "reprobe") ELSE NotFound(p)
  /\ UNCHANGED <<own, starts, tries, child, on, files, brokers>>

Reprobe(p) ==
  /\ at[p] = "reprobe"
  /\ IF Connectable THEN Found(p) ELSE NotFound(p)
  /\ UNCHANGED <<own, starts, tries, child, on, files, brokers>>

\* A variant that opens the lock without "wx".
CreateAnyway(p) ==
  /\ at[p] = "acquire" /\ tries[p] < MaxTries
  /\ tries' = [tries EXCEPT ![p] = @ + 1]
  /\ lock' = [by |-> p, written |-> FALSE]
  /\ Goes(p, "write")
  /\ UNCHANGED <<own, starts, child, on, sock, pidf, robbed, brokers>>

\* acquireSpawnLock(): open with "wx".
CreateLock(p) ==
  /\ at[p] = "acquire" /\ tries[p] < MaxTries
  /\ tries' = [tries EXCEPT ![p] = @ + 1]
  /\ IF lock = NoLock
       THEN lock' = [by |-> p, written |-> FALSE] /\ Goes(p, "write")
       ELSE Goes(p, "exists") /\ UNCHANGED lock
  /\ UNCHANGED <<own, starts, child, on, sock, pidf, robbed, brokers>>

\* The retries are used up.
GivesUp(p) ==
  /\ at[p] = "acquire" /\ tries[p] = MaxTries
  /\ Goes(p, "others")
  /\ tries' = [tries EXCEPT ![p] = 0]
  /\ UNCHANGED <<own, starts, child, on, files, brokers>>

\* The write: into the file it created, which may have lost its name.
WriteLock(p) ==
  /\ at[p] = "write"
  /\ lock' = IF lock.by = p THEN [lock EXCEPT !.written = TRUE] ELSE lock
  /\ own' = [own EXCEPT ![p] = TRUE]
  /\ tries' = [tries EXCEPT ![p] = 0]
  /\ Goes(p, "probe")
  /\ UNCHANGED <<starts, child, on, sock, pidf, robbed, brokers>>

\* The write fails: the caller's connect fails, and the lock stays, empty.
WriteFails(p) ==
  /\ at[p] = "write"
  /\ Goes(p, "failed")
  /\ tries' = [tries EXCEPT ![p] = 0]
  /\ UNCHANGED <<own, starts, child, on, files, brokers>>

\* The lock is another's: wait for its broker.
NotStale(p) == Goes(p, "others") /\ tries' = [tries EXCEPT ![p] = 0]

\* isSpawnLockStale(): existsSync ...
LockExists(p) ==
  /\ at[p] = "exists"
  /\ IF lock = NoLock THEN NotStale(p) ELSE Goes(p, "read") /\ UNCHANGED tries
  /\ UNCHANGED <<own, starts, child, on, files, brokers>>

\* A variant that judges a lock by its age alone.
ReadLockAge(p) ==
  /\ at[p] = "read"
  /\ IF lock.written THEN NotStale(p) ELSE Goes(p, "unlink") /\ UNCHANGED tries
  /\ UNCHANGED <<own, starts, child, on, files, brokers>>

\* ... and the content: no file, no content or a dead process make it stale.
ReadLock(p) ==
  /\ at[p] = "read"
  /\ IF lock.written /\ at[lock.by] # "dead" THEN NotStale(p)
                                            ELSE Goes(p, "unlink") /\ UNCHANGED tries
  /\ UNCHANGED <<own, starts, child, on, files, brokers>>

\* unlinkSync, of whatever lock is there by now.
Unlink(p) ==
  /\ at[p] = "unlink"
  /\ lock' = NoLock
  /\ robbed' = (robbed \/ lock.by \in Owners)
  /\ Goes(p, "acquire")
  /\ UNCHANGED <<own, starts, tries, child, on, sock, pidf, brokers>>

\* The broker is spawned, detached.
Spawn(p) ==
  /\ at[p] = "spawn"
  /\ {b \in Brokers : br[b] = "none"} # {}
  /\ LET b == CHOOSE x \in Brokers : br[x] = "none" IN
       br' = [br EXCEPT ![b] = "boot"] /\ child' = [child EXCEPT ![p] = b]
  /\ Goes(p, "await")
  /\ UNCHANGED <<own, starts, tries, on, files, used>>

\* waitForBroker(), of the owner ("await") and of the others.
Waited(p) ==
  /\ at[p] \in {"await", "others"} /\ Connectable
  /\ Found(p)
  /\ UNCHANGED <<own, starts, tries, child, on, files, brokers>>

\* A variant that leaves without the finally block.
ChildExitsKeepsLock(p) ==
  /\ at[p] = "await" /\ br[child[p]] = "dead"
  /\ Goes(p, "failed")
  /\ own' = [own EXCEPT ![p] = FALSE]
  /\ UNCHANGED <<starts, tries, child, on, files, brokers>>

\* The owner's child exits before a broker answered.
ChildExits(p) ==
  /\ at[p] = "await" /\ br[child[p]] = "dead"
  /\ Goes(p, "abandon")
  /\ UNCHANGED <<own, starts, tries, child, on, files, brokers>>

\* The five seconds are over.
WaitTimeout(p) ==
  /\ at[p] \in {"await", "others"}
  /\ Goes(p, IF own[p] THEN "abandon" ELSE "failed")
  /\ UNCHANGED <<own, starts, tries, child, on, files, brokers>>

\* releaseSpawnLock(): unlinkSync, of whatever lock is there.
Release(p) ==
  /\ at[p] \in {"release", "abandon"}
  /\ lock' = NoLock
  /\ robbed' = (robbed \/ lock.by \in Owners \ {p})
  /\ own' = [own EXCEPT ![p] = FALSE]
  /\ child' = [child EXCEPT ![p] = None]
  /\ Goes(p, IF at[p] = "release" THEN "connect" ELSE "failed")
  /\ UNCHANGED <<starts, tries, on, sock, pidf, brokers>>

\* The client connects and registers.
Connect(p) ==
  /\ at[p] = "connect"
  /\ IF Connectable THEN Goes(p, "joined") /\ on' = [on EXCEPT ![p] = sock]
                    ELSE Goes(p, "failed") /\ UNCHANGED on
  /\ UNCHANGED <<own, starts, tries, child, files, brokers>>

\* A session ends, or its broker does.
Leave(p) ==
  /\ at[p] = "joined"
  /\ used' = used \cup {on[p]}
  /\ on' = [on EXCEPT ![p] = None]
  /\ Goes(p, "left")
  /\ UNCHANGED <<own, starts, tries, child, files, br>>

\* A session is killed before it is connected.
Dies(p) ==
  /\ at[p] \notin {"new", "joined", "left", "failed", "dead"}
  /\ Goes(p, "dead")
  /\ own' = [own EXCEPT ![p] = FALSE]
  /\ tries' = [tries EXCEPT ![p] = 0]
  /\ child' = [child EXCEPT ![p] = None]
  /\ UNCHANGED <<starts, on, files, brokers>>

-----------------------------------------------------------------------------
\* The broker process.

sessions == <<at, own, starts, tries, child, on>>

\* The constructor unlinks the path, whoever's socket it names.
BrokerUnlinks(b) ==
  /\ br[b] = "boot"
  /\ br' = [br EXCEPT ![b] = "bind"]
  /\ sock' = None
  /\ UNCHANGED <<sessions, lock, pidf, robbed, used>>

\* listen(): the process ends when the path exists again.
BrokerBinds(b) ==
  /\ br[b] = "bind"
  /\ IF sock = None THEN sock' = b /\ br' = [br EXCEPT ![b] = "bound"]
                    ELSE br' = [br EXCEPT ![b] = "dead"] /\ UNCHANGED sock
  /\ UNCHANGED <<sessions, lock, pidf, robbed, used>>

\* The listen callback.
BrokerWritesPid(b) ==
  /\ br[b] = "bound"
  /\ br' = [br EXCEPT ![b] = "up"]
  /\ pidf' = b
  /\ UNCHANGED <<sessions, lock, sock, robbed, used>>

\* shutdown(), when the last session has left: the path, whoever's it is, and ...
BrokerQuits(b) ==
  /\ br[b] = "up" /\ b \in used /\ \A p \in Procs : on[p] # b
  /\ br' = [br EXCEPT ![b] = "quit"]
  /\ sock' = None
  /\ UNCHANGED <<sessions, lock, pidf, robbed, used>>

\* ... the pid file, whoever's it is.
BrokerExits(b) ==
  /\ br[b] = "quit"
  /\ br' = [br EXCEPT ![b] = "dead"]
  /\ pidf' = None
  /\ UNCHANGED <<sessions, lock, sock, robbed, used>>

\* A broker is killed: its files stay.
BrokerDies(b) ==
  /\ Alive(b)
  /\ br' = [br EXCEPT ![b] = "dead"]
  /\ used' = used \ {b}
  /\ UNCHANGED <<sessions, files>>

ProcStep(p) ==
  \/ Probe(p) \/ ReadPid(p) \/ Reprobe(p) \/ CreateLock(p) \/ GivesUp(p)
  \/ WriteLock(p) \/ LockExists(p) \/ ReadLock(p) \/ Unlink(p) \/ Spawn(p)
  \/ Waited(p) \/ ChildExits(p) \/ WaitTimeout(p) \/ Release(p) \/ Connect(p)

BrokerStep(b) == BrokerUnlinks(b) \/ BrokerBinds(b) \/ BrokerWritesPid(b) \/ BrokerExits(b)

SpawnNext ==
  \/ \E p \in Procs : Start(p) \/ ProcStep(p) \/ WriteFails(p) \/ Leave(p) \/ Dies(p)
  \/ \E b \in Brokers : BrokerStep(b) \/ BrokerQuits(b) \/ BrokerDies(b)

\* Live processes go on; the waits are timed.
SpawnFairness ==
  /\ \A p \in Procs : WF_spawnVars(ProcStep(p))
  /\ \A b \in Brokers : WF_spawnVars(BrokerStep(b))

SpawnSpec == SpawnInit /\ [][SpawnNext]_spawnVars /\ SpawnFairness

-----------------------------------------------------------------------------
SpawnTypeOK ==
  /\ at \in [Procs -> {"new", "probe", "pid", "reprobe", "acquire", "write", "exists", "read",
                       "unlink", "spawn", "await", "others", "release", "abandon",
                       "connect", "joined", "left", "failed", "dead"}]
  /\ own \in [Procs -> BOOLEAN]
  /\ starts \in 0..MaxStarts
  /\ tries \in [Procs -> 0..MaxTries]
  /\ child \in [Procs -> Brokers \cup {None}]
  /\ on \in [Procs -> Brokers \cup {None}]
  /\ lock \in [by : Procs \cup {None}, written : BOOLEAN]
  /\ sock \in Brokers \cup {None}
  /\ pidf \in Brokers \cup {None}
  /\ br \in [Brokers -> {"none", "boot", "bind", "bound", "up", "quit", "dead"}]
  /\ used \subseteq Brokers
  /\ robbed \in BOOLEAN

\* A lock on the disk can be told to be stale unless its creator still works
\* under it: the finally block, the failed write and the death of a session
\* leave no written lock of a session that lives on.
LockHasOwner ==
  lock.by # None => \/ lock.by \in Owners
                    \/ at[lock.by] = "dead"
                    \/ ~lock.written

\* As long as no session has removed the lock of another that is alive, at
\* most one holds it: what the "wx" create is for.
OneOwnerUnlessRobbed ==
  ~robbed => \A p, q \in Owners : p = q

\* A session that looks for a broker when there is none, and nobody else at
\* work on it, gets the lock and so may start one, whatever the locks, the
\* socket and the pid file that the dead left behind.
Alone(p) == \A q \in Procs \ {p} : at[q] \in {"new", "joined", "left", "failed", "dead"}
NoBroker == \A b \in Brokers : ~Alive(b)
LoneSessionGetsLock ==
  \A p \in Procs :
    (at[p] = "probe" /\ ~own[p] /\ Alone(p) /\ NoBroker) ~> (at[p] \in {"write", "dead"} \/ ~Alone(p))
=============================================================================
