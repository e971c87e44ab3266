----------------------------- MODULE McpServers -----------------------------
(***************************************************************************)
(* The MCP client of packages/mcp: McpServerManager (server-manager.ts)    *)
(* keeps at most one connection per configured server and one dial in      *)
(* progress, McpLifecycleManager (lifecycle.ts) visits the servers every   *)
(* 30 seconds, and the tool calls of the agent (proxy-call.ts), the        *)
(* commands (commands.ts) and the health visits use them concurrently.     *)
(*                                                                         *)
(* A connection is counted and touched by the NAME of its server: whatever *)
(* connection the map holds at that moment.  The server process behind a   *)
(* connection may die at any time; nothing in the package listens for it.  *)
(* A step is the code from one await to the next.  What a call carries,    *)
(* the tool metadata and its cache, the UI sessions and the status bar are *)
(* left out.  "eager" servers differ from "lazy" ones only at startup and  *)
(* in having no idle timeout; they are not instantiated.                   *)
(***************************************************************************)
EXTENDS FiniteSets, Integers

CONSTANTS
  Servers,    \* the configured servers
  Calls,      \* tool calls, each made at most once (bound)
  Server,     \* Server[c]: the server whose tool call c is for
  Conns,      \* ServerConnection objects that may exist at once (bound)
  MaxCommands,\* commands the user gives (bound)
  None

ASSUME McpAssumption == /\ IsFiniteSet(Calls) /\ MaxCommands \in Nat
                        /\ Server \in [Calls -> Servers]
                        /\ None \notin Servers \cup Conns

VARIABLES
  keepAlive,  \* the servers configured with lifecycle "keep-alive"
  conn,     \* conn[s]: manager.connections, None when the name is absent
  dial,     \* dial[s]: manager.connectPromises, the object being made
  obj,      \* obj[o]: a connection, and `up`: whether its server runs
  call,     \* call[c]: where a tool call is, and the connection it was
            \*   counted on
  waits,    \* waits[s]: who but the calls awaits connect(s)
  reclose,  \* the servers whose reconnect command awaits its close()
  backoff,  \* state.failureTracker: the servers that failed lately
  late,     \* the servers that a health check, waiting when the shutdown
            \*   came, has yet to visit
  down,     \* gracefulShutdown() ran
  commands  \* commands so far

mcpVars == <<keepAlive, conn, dial, obj, call, waits, reclose, backoff, late, down, commands>>

NewCall == [at |-> "new", counted |-> None, authed |-> FALSE]
Ended == [NewCall EXCEPT !.at = "done"]

\* The fields of a connection that has left the map are never read again.
Gone == [server |-> None, status |-> "closed", up |-> FALSE, inFlight |-> 0, idle |-> FALSE]
Closing(s) == [Gone EXCEPT !.server = s, !.up = TRUE]

McpInit ==
  /\ keepAlive \in SUBSET Servers
  /\ conn = [s \in Servers |-> None]
  /\ dial = [s \in Servers |-> None]
  /\ obj = [o \in Conns |-> Gone]
  /\ call = [c \in Calls |-> NewCall]
  /\ waits = [s \in Servers |-> {}]
  /\ reclose = {}
  /\ backoff = {}
  /\ late = {}
  /\ down = FALSE
  /\ commands = 0

-----------------------------------------------------------------------------
\* The manager's operations, on the state of before the step.

Status(s) == IF conn[s] = None THEN "absent" ELSE obj[conn[s]].status

\* Objects nothing refers to any more.
Unused == {o \in Conns : /\ ~obj[o].up
                         /\ \A s \in Servers : o \notin {conn[s], dial[s]}
                         /\ \A c \in Calls : o # call[c].counted}

\* touch(s), on the objects b.
Touched(b, s) == IF conn[s] = None THEN b ELSE [b EXCEPT ![conn[s]].idle = FALSE]

\* incrementInFlight(s) and decrementInFlight(s): the latter stops at zero.
Counted(b, s, n) ==
  IF conn[s] = None \/ b[conn[s]].inFlight + n < 0 THEN b
  ELSE [b EXCEPT ![conn[s]].inFlight = @ + n]

\* connect(s): join the dial in progress, reuse a healthy connection (the
\* caller then has it at once), or start a dial.
JoinsDial(s) == dial[s] # None
Reuses(s) == dial[s] = None /\ Status(s) = "connected"
Dials(s) == dial[s] = None /\ Status(s) # "connected" /\ Unused # {}
StartDial(s) == LET o == CHOOSE x \in Unused : TRUE IN
  /\ dial' = [dial EXCEPT ![s] = o]
  /\ obj' = [obj EXCEPT ![o] = [Gone EXCEPT !.server = s, !.status = "dialing", !.up = TRUE]]
JoinOrDial(s) ==
  \/ JoinsDial(s) /\ UNCHANGED <<dial, obj>>
  \/ Dials(s) /\ StartDial(s)

\* close(s), up to its first await: the entry leaves the map at once, the
\* server stops later (CloseDone).
Close(s) ==
  /\ conn' = [conn EXCEPT ![s] = None]
  /\ obj' = IF conn[s] = None THEN obj
            ELSE [obj EXCEPT ![conn[s]] = IF @.up THEN Closing(s) ELSE Gone]

\* A variant that deletes the name once the cleanup is done.
CloseDoneDeletes(o) ==
  /\ obj[o].status = "closed" /\ obj[o].up
  /\ obj' = [obj EXCEPT ![o] = Gone]
  /\ conn' = [conn EXCEPT ![obj[o].server] = None]
  /\ UNCHANGED <<keepAlive, dial, call, waits, reclose, backoff, late, down, commands>>

\* close(), the rest: the client and the transport are closed.
CloseDone(o) ==
  /\ obj[o].status = "closed" /\ obj[o].up
  /\ obj' = [obj EXCEPT ![o] = Gone]
  /\ UNCHANGED <<keepAlive, conn, dial, call, waits, reclose, backoff, late, down, commands>>

-----------------------------------------------------------------------------
\* A dial ends, and connect() returns to all who await it.

Awaiting(s) == {c \in Calls : call[c].at = "connecting" /\ Server[c] = s}

\* createConnection() succeeded.
DialUp(s) ==
  /\ dial[s] # None /\ obj[dial[s]].up
  /\ conn' = [conn EXCEPT ![s] = dial[s]]
  /\ dial' = [dial EXCEPT ![s] = None]
  /\ obj' = [obj EXCEPT ![dial[s]].status = "connected"]
  /\ call' = [c \in Calls |-> IF c \in Awaiting(s)
                                THEN [NewCall EXCEPT !.at = "connected"]
                                ELSE call[c]]
  /\ backoff' = IF waits[s] = {} THEN backoff ELSE backoff \ {s}
  /\ waits' = [waits EXCEPT ![s] = {}]
  /\ UNCHANGED <<keepAlive, reclose, late, down, commands>>

\* The server wants OAuth: an object without a server goes into the map.  A
\* call tries to authorize once.  The health check takes this for a success.
DialNeedsAuth(s) ==
  /\ dial[s] # None /\ obj[dial[s]].up
  /\ conn' = [conn EXCEPT ![s] = dial[s]]
  /\ dial' = [dial EXCEPT ![s] = None]
  /\ obj' = [obj EXCEPT ![dial[s]].status = "needs-auth", ![dial[s]].up = FALSE]
  /\ call' = [c \in Calls |->
                IF c \notin Awaiting(s) THEN call[c]
                ELSE IF call[c].authed \/ down THEN Ended
                ELSE [call[c] EXCEPT !.at = "reauthing"]]
  /\ backoff' = IF "health" \in waits[s] THEN backoff \ {s} ELSE backoff
  /\ waits' = [waits EXCEPT ![s] = {}]
  /\ UNCHANGED <<keepAlive, reclose, late, down, commands>>

\* A variant whose callers hear of a success only.
DialFailsUnheard(s) ==
  /\ dial[s] # None
  /\ dial' = [dial EXCEPT ![s] = None]
  /\ obj' = [obj EXCEPT ![dial[s]] = Gone]
  /\ waits' = [waits EXCEPT ![s] = {}]
  /\ UNCHANGED <<keepAlive, conn, call, reclose, backoff, late, down, commands>>

\* createConnection() closes what it has and throws: the calls and the command
\* note the failure, the health check only logs it.
DialFails(s) ==
  /\ dial[s] # None
  /\ dial' = [dial EXCEPT ![s] = None]
  /\ obj' = [obj EXCEPT ![dial[s]] = Gone]
  /\ call' = [c \in Calls |-> IF c \in Awaiting(s)
                                THEN Ended ELSE call[c]]
  /\ backoff' = IF (Awaiting(s) # {} /\ ~down) \/ "command" \in waits[s]
                  THEN backoff \cup {s} ELSE backoff
  /\ waits' = [waits EXCEPT ![s] = {}]
  /\ UNCHANGED <<keepAlive, conn, reclose, late, down, commands>>

-----------------------------------------------------------------------------
\* Tool calls.

\* The call is counted on what the map holds, by name, and then sent.
Begins(c) ==
  /\ call' = [call EXCEPT ![c] = [NewCall EXCEPT !.at = "calling", !.counted = conn[Server[c]]]]
  /\ obj' = Counted(Touched(obj, Server[c]), Server[c], 1)

\* The call has no connection: it fails in the backoff, else it connects.
Seeks(c, s) ==
  \/ /\ s \in backoff
     /\ call' = [call EXCEPT ![c] = Ended]
     /\ UNCHANGED <<dial, obj>>
  \/ /\ s \notin backoff
     /\ JoinOrDial(s)
     /\ call' = [call EXCEPT ![c].at = "connecting"]

\* executeCall(), from its first look at the map.
CallArrives(c) == LET s == Server[c] IN
  /\ call[c].at = "new" /\ ~down
  /\ \/ Status(s) = "connected" /\ Begins(c) /\ UNCHANGED dial
     \/ /\ Status(s) = "needs-auth"
        /\ call' = [call EXCEPT ![c].at = "authing"]
        /\ UNCHANGED <<dial, obj>>
     \/ Status(s) = "absent" /\ Seeks(c, s)
  /\ UNCHANGED <<keepAlive, conn, waits, reclose, backoff, late, down, commands>>

\* startAutoAuth() did not succeed: auth_required.
AuthFails(c) ==
  /\ call[c].at \in {"authing", "reauthing"}
  /\ call' = [call EXCEPT ![c] = Ended]
  /\ UNCHANGED <<keepAlive, conn, dial, obj, waits, reclose, backoff, late, down, commands>>

\* It succeeded: whatever the map holds for the server is closed.
AuthSucceeds(c) ==
  /\ call[c].at \in {"authing", "reauthing"} /\ ~down
  /\ Close(Server[c])
  /\ call' = [call EXCEPT ![c].at = IF @ = "authing" THEN "closing" ELSE "reclosing",
                          ![c].authed = TRUE]
  /\ UNCHANGED <<keepAlive, dial, waits, reclose, backoff, late, down, commands>>

\* The close() is done: a call that has not connected looks at the map again.
CallLooksAgain(c) ==
  LET s == Server[c] IN
  /\ call[c].at = "closing" /\ ~down
  /\ backoff' = backoff \ {s}
  /\ \/ Status(s) = "connected" /\ Begins(c) /\ UNCHANGED dial
     \/ /\ Status(s) = "needs-auth"
        /\ call' = [call EXCEPT ![c] = Ended]
        /\ UNCHANGED <<dial, obj>>
     \/ /\ Status(s) = "absent" /\ JoinOrDial(s)
        /\ call' = [call EXCEPT ![c].at = "connecting"]
  /\ UNCHANGED <<keepAlive, conn, waits, reclose, late, down, commands>>

\* One whose connect() said needs-auth connects without that look.
CallReconnects(c) ==
  LET s == Server[c] IN
  /\ call[c].at = "reclosing" /\ ~down
  /\ \/ Reuses(s) /\ Begins(c) /\ backoff' = backoff \ {s} /\ UNCHANGED dial
     \/ /\ JoinOrDial(s)
        /\ call' = [call EXCEPT ![c].at = "connecting"]
        /\ UNCHANGED backoff
  /\ UNCHANGED <<keepAlive, conn, waits, reclose, late, down, commands>>

\* connect() returned: the object may have left the map since.
CallBegins(c) ==
  /\ call[c].at = "connected" /\ ~down
  /\ Begins(c)
  /\ backoff' = backoff \ {Server[c]}
  /\ UNCHANGED <<keepAlive, conn, dial, waits, reclose, late, down, commands>>

\* A variant that keeps the count when the call ends.
ReturnKeepsCount(c) ==
  /\ call[c].at = "calling"
  /\ call' = [call EXCEPT ![c] = Ended]
  /\ obj' = IF down THEN obj ELSE Touched(obj, Server[c])
  /\ UNCHANGED <<keepAlive, conn, dial, waits, reclose, backoff, late, down, commands>>

\* The answer, an error, the request timeout or an abort: the finally block.
CallReturns(c) ==
  LET s == Server[c]
      o == Counted(obj, s, -1) IN
  /\ call[c].at = "calling"
  /\ call' = [call EXCEPT ![c] = Ended]
  /\ obj' = IF down THEN o ELSE Touched(o, s)
  /\ UNCHANGED <<keepAlive, conn, dial, waits, reclose, backoff, late, down, commands>>

Pending == {"connecting", "connected", "authing", "reauthing", "closing", "reclosing"}

\* The agent cancels a call that waits: what it waits for goes on.
CallAborts(c) ==
  /\ call[c].at \in Pending
  /\ call' = [call EXCEPT ![c] = Ended]
  /\ UNCHANGED <<keepAlive, conn, dial, obj, waits, reclose, backoff, late, down, commands>>

\* assertMcpStateLease fails once the session is over.
CallStale(c) ==
  /\ down /\ call[c].at \in {"connected", "closing", "reclosing"}
  /\ call' = [call EXCEPT ![c] = Ended]
  /\ UNCHANGED <<keepAlive, conn, dial, obj, waits, reclose, backoff, late, down, commands>>

-----------------------------------------------------------------------------
\* The commands, the health check and the end.

\* reconnectServers(): close ...
Reconnect(s) ==
  /\ ~down /\ s \notin reclose
  /\ commands < MaxCommands /\ commands' = commands + 1
  /\ Close(s)
  /\ reclose' = reclose \cup {s}
  /\ UNCHANGED <<keepAlive, dial, call, waits, backoff, late, down>>

\* ... and, after the await, connect().
ReconnectConnects(s) ==
  /\ s \in reclose
  /\ reclose' = reclose \ {s}
  /\ \/ /\ Reuses(s)
        /\ obj' = Touched(obj, s)
        /\ backoff' = backoff \ {s}
        /\ UNCHANGED <<dial, waits>>
     \/ /\ JoinOrDial(s)
        /\ waits' = [waits EXCEPT ![s] = @ \cup {"command"}]
        /\ UNCHANGED backoff
  /\ UNCHANGED <<keepAlive, conn, call, late, down, commands>>

\* logoutServer().
Logout(s) ==
  /\ ~down
  /\ commands < MaxCommands /\ commands' = commands + 1
  /\ Close(s)
  /\ UNCHANGED <<keepAlive, dial, call, waits, reclose, backoff, late, down>>

\* isIdle()
IsIdle(s) == Status(s) = "connected" /\ obj[conn[s]].inFlight = 0 /\ obj[conn[s]].idle

\* A pass of the interval that is still waiting does not hold up the next, so
\* a visit may come at any time before the shutdown.
Visits(s) == (~down \/ s \in late) /\ late' = late \ {s}

\* A variant that only reconnects.
HealthVisitNeverCloses(s) ==
  /\ Visits(s) /\ s \in keepAlive /\ Status(s) # "connected"
  /\ JoinOrDial(s)
  /\ waits' = [waits EXCEPT ![s] = @ \cup {"health"}]
  /\ UNCHANGED <<keepAlive, conn, call, reclose, backoff, down, commands>>

\* checkConnections() at one server: it goes by the status alone.
HealthVisit(s) ==
  /\ Visits(s)
  /\ \/ /\ s \in keepAlive /\ Status(s) # "connected"
        /\ JoinOrDial(s)
        /\ waits' = [waits EXCEPT ![s] = @ \cup {"health"}]
        /\ UNCHANGED conn
     \/ /\ s \notin keepAlive /\ IsIdle(s)
        /\ Close(s)
        /\ UNCHANGED <<dial, waits>>
  /\ UNCHANGED <<keepAlive, call, reclose, backoff, down, commands>>

\* The idle timeout of a connection is over (keep-alive servers have none).
Ages(o) ==
  /\ obj[o].status = "connected" /\ ~obj[o].idle /\ obj[o].server \notin keepAlive
  /\ obj' = [obj EXCEPT ![o].idle = TRUE]
  /\ UNCHANGED <<keepAlive, conn, dial, call, waits, reclose, backoff, late, down, commands>>

\* The minute of a failure is over.
BackoffEnds(s) ==
  /\ s \in backoff
  /\ backoff' = backoff \ {s}
  /\ UNCHANGED <<keepAlive, conn, dial, obj, call, waits, reclose, late, down, commands>>

\* gracefulShutdown(): no further pass; closeAll() closes what is in the map.
Shutdown ==
  /\ ~down
  /\ down' = TRUE
  /\ conn' = [s \in Servers |-> None]
  /\ obj' = [o \in Conns |-> IF \E s \in Servers : conn[s] = o
                               THEN IF obj[o].up THEN Closing(obj[o].server) ELSE Gone
                               ELSE obj[o]]
  /\ late' \in IF \E s \in Servers : "health" \in waits[s] THEN SUBSET Servers ELSE {{}}
  /\ UNCHANGED <<keepAlive, dial, call, waits, reclose, backoff, commands>>

\* External: the server dies or drops the connection.
Crash(o) ==
  /\ obj[o].up /\ obj[o].status # "closed"
  /\ obj' = [obj EXCEPT ![o].up = FALSE]
  /\ UNCHANGED <<keepAlive, conn, dial, call, waits, reclose, backoff, late, down, commands>>

McpNext ==
  \/ \E o \in Conns : CloseDone(o) \/ Ages(o) \/ Crash(o)
  \/ \E s \in Servers :
       \/ DialUp(s) \/ DialNeedsAuth(s) \/ DialFails(s)
       \/ Reconnect(s) \/ ReconnectConnects(s) \/ Logout(s)
       \/ HealthVisit(s) \/ BackoffEnds(s)
  \/ \E c \in Calls :
       \/ CallArrives(c) \/ AuthFails(c) \/ AuthSucceeds(c)
       \/ CallLooksAgain(c) \/ CallReconnects(c) \/ CallBegins(c)
       \/ CallReturns(c) \/ CallAborts(c) \/ CallStale(c)
  \/ Shutdown

\* Timers fire, a dial ends (the SDK's request timeout), a close() ends, a
\* promise's continuation runs, and a request ends (its timeout).
McpFairness ==
  /\ \A o \in Conns : WF_mcpVars(CloseDone(o)) /\ WF_mcpVars(Ages(o))
  /\ \A s \in Servers : /\ WF_mcpVars(DialUp(s) \/ DialNeedsAuth(s) \/ DialFails(s))
                        /\ WF_mcpVars(ReconnectConnects(s)) /\ WF_mcpVars(~down /\ HealthVisit(s))
  /\ \A c \in Calls : /\ WF_mcpVars(AuthFails(c) \/ AuthSucceeds(c))
                      /\ WF_mcpVars(\/ CallLooksAgain(c) \/ CallReconnects(c)
                                 \/ CallBegins(c) \/ CallStale(c))
                      /\ WF_mcpVars(CallReturns(c))

McpSpec == McpInit /\ [][McpNext]_mcpVars /\ McpFairness

-----------------------------------------------------------------------------
Connections == [server : Servers \cup {None},
                status : {"dialing", "connected", "needs-auth", "closed"},
                up : BOOLEAN, inFlight : Nat, idle : BOOLEAN]
CallStates == [at : Pending \cup {"new", "calling", "done"},
               counted : Conns \cup {None}, authed : BOOLEAN]

McpTypeOK ==
  /\ keepAlive \subseteq Servers
  /\ conn \in [Servers -> Conns \cup {None}]
  /\ dial \in [Servers -> Conns \cup {None}]
  /\ obj \in [Conns -> Connections]
  /\ call \in [Calls -> CallStates]
  /\ waits \in [Servers -> SUBSET {"health", "command"}]
  /\ reclose \subseteq Servers /\ backoff \subseteq Servers /\ late \subseteq Servers
  /\ down \in BOOLEAN /\ commands \in 0..MaxCommands

\* A server process that runs is the one being dialled or the one in the map
\* for its name, or it is being closed: nobody else would ever stop it.  The
\* comment in close() is about this.
NoServerOrphaned ==
  \A o \in Conns : obj[o].up =>
    \/ obj[o].status = "dialing" /\ dial[obj[o].server] = o
    \/ obj[o].status = "connected" /\ conn[obj[o].server] = o
    \/ obj[o].status = "closed"

RunningOn(o) == {c \in Calls : call[c].at = "calling" /\ call[c].counted = o}

\* A connection never counts a call that is over: incrementInFlight and
\* decrementInFlight go by name, across closes and reconnects, and a count
\* that stays up would keep the server from ever being idle.
NoPhantomCalls ==
  \A s \in Servers : conn[s] # None =>
    obj[conn[s]].inFlight <= Cardinality(RunningOn(conn[s]))

\* A lazy server never stays connected for good: when the calls are over, a
\* health visit closes it.
IdleServersClose ==
  \A s \in Servers : []<>(down \/ s \in keepAlive \/ Status(s) # "connected")

\* Every tool call ends, whatever closes, reconnects or stops its server.
CallsSettle == \A c \in Calls : call[c].at # "new" ~> call[c].at = "done"

\* README.md:376, "Keep-alive servers get health checks and auto-reconnect": a
\* keep-alive server that died is dialled again.
DeadKeepAliveIsReplaced ==
  \A s \in Servers :
    (s \in keepAlive /\ conn[s] # None /\ Status(s) = "connected" /\ ~obj[conn[s]].up)
      ~> (down \/ (conn[s] # None => obj[conn[s]].up))
=============================================================================
