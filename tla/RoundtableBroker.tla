-------------------------- MODULE RoundtableBroker --------------------------
(***************************************************************************)
(* One roundtable broker process from the moment it listens to its exit:   *)
(* class RoundtableBroker of packages/roundtable/broker/broker.ts, on top  *)
(* of RoomStore.  Connections come and go, each may register one session,  *)
(* sessions work on the rooms, and an idle check ends the process.         *)
(*                                                                         *)
(* The requests of every client are inputs here: a step may handle any     *)
(* well-formed message on any open connection.  What a reply says and when *)
(* it arrives is RoundtableTool's subject; how a broker comes to own the   *)
(* socket path is BrokerLifecycle's.  Time passes in Tick steps, of which  *)
(* the idle grace period takes Grace.                                      *)
(***************************************************************************)
EXTENDS RoomStore

CONSTANTS
  Conns,      \* connections ever made to this broker
  NoId,       \* sessionId === null
  Grace       \* idleGraceMs, in ticks

ASSUME NoIdAssumption == NoId \notin Ids
ASSUME GraceAssumption == Grace \in Nat \ {0}

VARIABLES
  phase,      \* "serving", "shutdown" (shutdown() ran), "exited"
  conn,       \* conn[c]: "none", "open", "destroyed" (by the broker), "closed"
  sid,        \* sid[c]: sessionId in the closure of handleConnection
  sessions,   \* the sessions Map: id -> [conn, name]
  used,       \* every id randomUUID has returned
  timer,      \* shutdownTimer: "off", or the ticks until the check runs
  away        \* ticks since the last session left, up to Grace

connVars == <<phase, conn, sid, sessions, used, timer, away>>
brokerVars == <<storeVars, connVars>>

Off == Grace + 1    \* shutdownTimer === null
NoSessions == [i \in {} |-> NoId]

BrokerInit ==
  /\ StoreInit
  /\ phase = "serving"
  /\ conn = [c \in Conns |-> "none"]
  /\ sid = [c \in Conns |-> NoId]
  /\ sessions = NoSessions
  /\ used = {}
  /\ timer = Off
  /\ away = 0

-----------------------------------------------------------------------------
\* net.Server hands a new socket to handleConnection.
Accept(c) ==
  /\ phase = "serving" /\ conn[c] = "none"
  /\ conn' = [conn EXCEPT ![c] = "open"]
  /\ UNCHANGED <<storeVars, phase, sid, sessions, used, timer, away>>

\* Map.set and Map.delete.
With(f, i, v) == [j \in DOMAIN f \cup {i} |-> IF j = i THEN v ELSE f[j]]
Without(f, i) == [j \in DOMAIN f \ {i} |-> f[j]]

\* A variant that accepts a second register on a connection.
RegisterTwice(c, n) ==
  /\ conn[c] = "open"
  /\ \E i \in Ids \ used :
       /\ sid' = [sid EXCEPT ![c] = i]
       /\ sessions' = With(sessions, i, [conn |-> c, name |-> n])
       /\ used' = used \cup {i}
  /\ away' = 0
  /\ UNCHANGED <<storeVars, phase, conn, timer>>

\* register: one connection, one session.  It is read on any open connection,
\* also when shutdown() has run: that destroys the sockets of sessions only.
Register(c, n) ==
  /\ conn[c] = "open" /\ sid[c] = NoId
  /\ \E i \in Ids \ used :
       /\ sid' = [sid EXCEPT ![c] = i]
       /\ sessions' = With(sessions, i, [conn |-> c, name |-> n])
       /\ used' = used \cup {i}
  /\ away' = 0
  /\ UNCHANGED <<storeVars, phase, conn, timer>>

\* What handleMessage checks before it serves a request: the connection has
\* registered, and its session is known.
Serves(c) == conn[c] = "open" /\ sid[c] # NoId /\ sid[c] \in DOMAIN sessions
NameOf(c) == sessions[sid[c]].name

\* The requests that change a room; "rooms" and "fetch" only read.
HandleJoin(c, r, t) ==
  Serves(c) /\ Join(r, sid[c], t) /\ UNCHANGED connVars
HandleLeave(c, r) ==
  Serves(c) /\ Leave(r, sid[c]) /\ UNCHANGED connVars
HandlePost(c, r) ==
  Serves(c) /\ Post(r, sid[c], NameOf(c)) /\ UNCHANGED connVars
HandleSetCursor(c, r, q) ==
  Serves(c) /\ SetCursor(r, NameOf(c), q) /\ UNCHANGED connVars

\* A malformed frame: the reader's onError destroys the socket.  Its "close"
\* handler runs later, and until then the session still counts.
BadFrame(c) ==
  /\ conn[c] = "open"
  /\ conn' = [conn EXCEPT ![c] = "destroyed"]
  /\ UNCHANGED <<storeVars, phase, sid, sessions, used, timer, away>>

-----------------------------------------------------------------------------
\* scheduleShutdownCheck: at most one check is pending.
ScheduledTimer == IF timer = Off THEN Grace ELSE timer

\* A variant that forgets to evict.
CloseWithoutEvict(c) ==
  /\ conn' = [conn EXCEPT ![c] = "closed"]
  /\ sessions' = Without(sessions, sid[c])
  /\ timer' = ScheduledTimer /\ away' = 0
  /\ UNCHANGED <<storeVars, phase, sid, used>>

\* The "close" handler of handleConnection.
CloseHandler(c) ==
  /\ conn' = [conn EXCEPT ![c] = "closed"]
  /\ IF sid[c] = NoId
       THEN UNCHANGED <<storeVars, sessions, timer, away>>
       ELSE /\ sessions' = Without(sessions, sid[c])
            /\ EvictSession(sid[c])
            /\ timer' = ScheduledTimer
            /\ away' = 0
  /\ UNCHANGED <<phase, sid, used>>

\* The peer closes its end, or dies.
PeerClose(c) == conn[c] = "open" /\ CloseHandler(c)
\* "close" follows the broker's own destroy().
DestroyedClose(c) == conn[c] = "destroyed" /\ CloseHandler(c)

\* shutdown(): cancel the check, destroy the sockets of all sessions, forget
\* the sessions, stop listening.  Their "close" handlers have yet to run.
ShutDown ==
  /\ conn' = [c \in Conns |-> IF sid[c] \in DOMAIN sessions /\ conn[c] = "open"
                                THEN "destroyed" ELSE conn[c]]
  /\ sessions' = NoSessions
  /\ UNCHANGED <<storeVars, sid, used, away>>

\* SIGTERM or SIGINT; the handler removes itself.
Signal ==
  /\ phase = "serving"
  /\ ShutDown
  /\ phase' = "shutdown"
  /\ timer' = Off

\* The process is gone; the kernel closes what was open.
Gone ==
  /\ phase' = "exited"
  /\ conn' = [c \in Conns |-> IF conn[c] = "none" THEN "none" ELSE "closed"]
  /\ sessions' = NoSessions
  /\ timer' = Off
  /\ UNCHANGED <<storeVars, sid, used, away>>

\* The idle check runs: not idle after all, or shutdown() and process.exit.
CheckBusy ==
  /\ phase # "exited" /\ timer = 0 /\ DOMAIN sessions # {}
  /\ timer' = Off
  /\ UNCHANGED <<storeVars, phase, conn, sid, sessions, used, away>>
CheckIdle == phase # "exited" /\ timer = 0 /\ DOMAIN sessions = {} /\ Gone

\* A killed process, or a second signal once the handlers are gone.
Kill == phase # "exited" /\ Gone

\* shutdown() left an event loop that nothing keeps alive (the check's timer
\* is unref'd).
LoopEnds == phase = "shutdown" /\ (\A c \in Conns : conn[c] \in {"none", "closed"}) /\ Gone

\* One tick passes.
Tick ==
  /\ phase # "exited"
  /\ timer' = IF timer \in 1 .. Grace THEN timer - 1 ELSE timer
  /\ away' = IF DOMAIN sessions = {} THEN LesserOf(away + 1, Grace) ELSE 0
  /\ UNCHANGED <<storeVars, phase, conn, sid, sessions, used>>

-----------------------------------------------------------------------------
BrokerNext ==
  \/ \E c \in Conns :
       \/ Accept(c)
       \/ \E n \in Names : Register(c, n)
       \/ \E r \in Rooms, t \in Topics \cup {NoTopic} : HandleJoin(c, r, t)
       \/ \E r \in Rooms : HandleLeave(c, r) \/ HandlePost(c, r)
       \/ \E r \in Rooms, q \in SeqArgs : HandleSetCursor(c, r, q)
       \/ BadFrame(c)
       \/ PeerClose(c)
       \/ DestroyedClose(c)
  \/ Signal
  \/ CheckBusy
  \/ CheckIdle
  \/ Kill
  \/ LoopEnds
  \/ Tick

BrokerSpec == BrokerInit /\ [][BrokerNext]_brokerVars

-----------------------------------------------------------------------------
Session == [conn : Conns, name : Names]

ConnTypeOK ==
  /\ phase \in {"serving", "shutdown", "exited"}
  /\ conn \in [Conns -> {"none", "open", "destroyed", "closed"}]
  /\ sid \in [Conns -> Ids \cup {NoId}]
  /\ used \subseteq Ids
  /\ DOMAIN sessions \subseteq used
  /\ \A i \in DOMAIN sessions : sessions[i] \in Session
  /\ timer \in 0 .. Off
  /\ away \in 0 .. Grace

BrokerTypeOK == StoreTypeOK /\ ConnTypeOK

\* The Map and the sockets agree: an entry is the session its connection
\* registered, and that connection's "close" handler is still to run; an open
\* registered connection has its entry, so that "Unknown session" is never
\* sent.  (register's one-session check, the close handler, shutdown's order.)
SessionsMatchSockets ==
  phase # "exited" =>
    /\ \A i \in DOMAIN sessions :
         sid[sessions[i].conn] = i /\ conn[sessions[i].conn] \in {"open", "destroyed"}
    /\ \A c \in Conns : conn[c] = "open" /\ sid[c] # NoId => sid[c] \in DOMAIN sessions

\* No ghost members: whoever is listed in a room has a connection whose "close"
\* handler has not run yet and will evict it (handleConnection, evictSession).
\* A ghost would be counted by every reader of the member list for ever.
MembersHaveSockets ==
  phase # "exited" =>
    \A r \in Rooms : \A i \in members[r] :
      \E c \in Conns : sid[c] = i /\ conn[c] \in {"open", "destroyed"}

NobodyConnected == \A c \in Conns : conn[c] \in {"none", "closed"}

\* Once somebody has registered, a broker that everybody has left exits: no
\* order of closes, checks that found it busy and new sessions leaves it
\* running without a pending check (scheduleShutdownCheck).
IdleExit == (used # {} /\ NobodyConnected) ~> (phase = "exited" \/ ~NobodyConnected)
=============================================================================
