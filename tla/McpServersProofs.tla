-------------------------- MODULE McpServersProofs ---------------------------
(***************************************************************************)
(* Proofs about McpServers for any number of servers, connections and      *)
(* tool calls: no server process is lost, and no call is counted for good. *)
(***************************************************************************)
EXTENDS McpServers, FiniteSetTheorems, TLAPS

\* What the two maps of the manager hold for a name.
MapHolds ==
  \A s \in Servers : conn[s] # None =>
    obj[conn[s]].server = s /\ obj[conn[s]].status \in {"connected", "needs-auth"}

\* connect() dials only where no healthy connection is.
DialHolds ==
  \A s \in Servers : dial[s] # None =>
    /\ obj[dial[s]].server = s /\ obj[dial[s]].status = "dialing" /\ obj[dial[s]].inFlight = 0
    /\ Status(s) # "connected"

\* A process that runs was started for one of the servers.
UpHasServer == \A o \in Conns : obj[o].up => obj[o].server \in Servers

\* A call is counted while it runs, and on a connection of its own server,
\* which may have left the map since.
CountedOwn ==
  \A c \in Calls : call[c].counted # None =>
    /\ call[c].at = "calling"
    /\ obj[call[c].counted].status # "dialing"
    /\ obj[call[c].counted].server \in {Server[c], None}

McpInv == McpTypeOK /\ MapHolds /\ DialHolds /\ UpHasServer /\ NoServerOrphaned /\ CountedOwn

-----------------------------------------------------------------------------
\* The records of the manager's operations.

LEMMA GoneIsOne == Gone \in Connections
BY DEF Gone, Connections

LEMMA ClosingIsOne == ASSUME NEW s \in Servers PROVE Closing(s) \in Connections
BY DEF Closing, Gone, Connections

LEMMA NewCallIsOne == NewCall \in CallStates /\ Ended \in CallStates
BY DEF NewCall, Ended, CallStates, Pending

\* A field of a connection changes, the rest does not.
LEMMA TouchedType ==
  ASSUME McpTypeOK, NEW b \in [Conns -> Connections], NEW s \in Servers
  PROVE  /\ Touched(b, s) \in [Conns -> Connections]
         /\ \A o \in Conns : /\ Touched(b, s)[o].server = b[o].server
                             /\ Touched(b, s)[o].status = b[o].status
                             /\ Touched(b, s)[o].up = b[o].up
                             /\ Touched(b, s)[o].inFlight = b[o].inFlight
<1>1. CASE conn[s] = None
  BY <1>1 DEF Touched
<1>2. CASE conn[s] # None
  <2>1. conn[s] \in Conns
    BY <1>2 DEF McpTypeOK
  <2>2. Touched(b, s) = [b EXCEPT ![conn[s]].idle = FALSE]
    BY <1>2 DEF Touched
  <2>3. b[conn[s]] \in Connections
    BY <2>1
  <2>4. [b[conn[s]] EXCEPT !.idle = FALSE] \in Connections
    BY <2>3 DEF Connections
  <2> QED BY <2>1, <2>2, <2>3, <2>4 DEF Connections
<1> QED BY <1>1, <1>2

LEMMA CountedType ==
  ASSUME McpTypeOK, NEW b \in [Conns -> Connections], NEW s \in Servers, NEW n \in {-1, 1}
  PROVE  /\ Counted(b, s, n) \in [Conns -> Connections]
         /\ \A o \in Conns : /\ Counted(b, s, n)[o].server = b[o].server
                             /\ Counted(b, s, n)[o].status = b[o].status
                             /\ Counted(b, s, n)[o].up = b[o].up
                             /\ o # conn[s] => Counted(b, s, n)[o].inFlight = b[o].inFlight
<1>1. CASE conn[s] = None \/ b[conn[s]].inFlight + n < 0
  BY <1>1 DEF Counted
<1>2. CASE ~(conn[s] = None \/ b[conn[s]].inFlight + n < 0)
  <2>1. conn[s] \in Conns /\ b[conn[s]].inFlight + n \in Nat
    BY <1>2 DEF McpTypeOK, Connections
  <2>2. Counted(b, s, n) = [b EXCEPT ![conn[s]].inFlight = @ + n]
    BY <1>2 DEF Counted
  <2>3. b[conn[s]] \in Connections
    BY <2>1
  <2>4. [b[conn[s]] EXCEPT !.inFlight = @ + n] \in Connections
    BY <2>1, <2>3 DEF Connections
  <2> QED BY <2>1, <2>2, <2>3, <2>4 DEF Connections
<1> QED BY <1>1, <1>2

-----------------------------------------------------------------------------
\* What the steps do to the connections and the two maps, whoever takes them.

\* No connection changes its server, its status or whether its process runs,
\* except that a process may end; and only connections in the map are counted.
Quiet ==
  /\ conn' = conn /\ dial' = dial /\ obj' \in [Conns -> Connections]
  /\ \A o \in Conns : /\ obj'[o].server = obj[o].server
                      /\ obj'[o].status = obj[o].status
                      /\ obj'[o].up => obj[o].up
                      /\ (\A s \in Servers : conn[s] # o) => obj'[o].inFlight = obj[o].inFlight

Structure == MapHolds /\ DialHolds /\ UpHasServer /\ NoServerOrphaned

LEMMA QuietKeeps == McpTypeOK /\ Structure /\ Quiet => Structure'
<1> SUFFICES ASSUME McpTypeOK, Structure, Quiet PROVE Structure'
  OBVIOUS
<1>1. MapHolds'
  BY DEF McpTypeOK, Structure, Quiet, MapHolds
<1>2. DialHolds'
  BY DEF McpTypeOK, Structure, Quiet, MapHolds, DialHolds, Status
<1>3. NoServerOrphaned'
  BY DEF McpTypeOK, Structure, Quiet, NoServerOrphaned
<1>4. UpHasServer'
  BY DEF Structure, Quiet, UpHasServer
<1> QED BY <1>1, <1>2, <1>3, <1>4 DEF Structure

LEMMA StartDialKeeps ==
  ASSUME McpTypeOK, Structure, NEW s \in Servers, Dials(s), StartDial(s), conn' = conn
  PROVE  Structure' /\ obj' \in [Conns -> Connections] /\ dial' \in [Servers -> Conns \cup {None}]
<1> DEFINE o == CHOOSE x \in Unused : TRUE
           n == [Gone EXCEPT !.server = s, !.status = "dialing", !.up = TRUE]
<1>1. o \in Unused /\ o \in Conns
  BY DEF Dials, Unused
<1>2. n \in Connections /\ n.server = s /\ n.status = "dialing" /\ n.inFlight = 0
  BY DEF Gone, Connections
<1>3. dial' = [dial EXCEPT ![s] = o] /\ obj' = [obj EXCEPT ![o] = n]
  BY DEF StartDial
<1>4. ~obj[o].up /\ \A t \in Servers : conn[t] # o /\ dial[t] # o
  BY <1>1 DEF Unused
<1>5. dial[s] = None /\ Status(s) # "connected"
  BY DEF Dials
<1> HIDE DEF o, n
<1>6. obj' \in [Conns -> Connections] /\ dial' \in [Servers -> Conns \cup {None}]
  BY <1>1, <1>2, <1>3 DEF McpTypeOK
<1>7. MapHolds'
  BY <1>3, <1>4 DEF McpTypeOK, Structure, MapHolds
<1>8. DialHolds'
  BY <1>1, <1>2, <1>3, <1>4, <1>5, McpAssumption DEF McpTypeOK, Structure, DialHolds, Status
<1>9. NoServerOrphaned'
  BY <1>1, <1>2, <1>3, <1>4, <1>5, McpAssumption DEF McpTypeOK, Structure, UpHasServer, NoServerOrphaned
<1>10. UpHasServer'
  BY <1>1, <1>2, <1>3 DEF McpTypeOK, Structure, UpHasServer
<1> QED BY <1>6, <1>7, <1>8, <1>9, <1>10 DEF Structure

LEMMA CloseKeeps ==
  ASSUME McpTypeOK, Structure, NEW s \in Servers, Close(s), dial' = dial
  PROVE  Structure' /\ obj' \in [Conns -> Connections] /\ conn' \in [Servers -> Conns \cup {None}]
<1> DEFINE n == IF obj[conn[s]].up THEN Closing(s) ELSE Gone
<1>1. conn' = [conn EXCEPT ![s] = None]
  BY DEF Close
<1>2. n \in Connections /\ n.status = "closed"
  BY GoneIsOne, ClosingIsOne DEF Closing, Gone
<1>3. obj' = IF conn[s] = None THEN obj ELSE [obj EXCEPT ![conn[s]] = n]
  BY DEF Close
<1> HIDE DEF n
<1>4. obj' \in [Conns -> Connections] /\ conn' \in [Servers -> Conns \cup {None}]
  BY <1>1, <1>2, <1>3 DEF McpTypeOK
<1>5. MapHolds'
  BY <1>1, <1>3, McpAssumption DEF McpTypeOK, Structure, MapHolds
<1>6. DialHolds'
  BY <1>1, <1>3, McpAssumption DEF McpTypeOK, Structure, MapHolds, DialHolds, Status
<1>7. NoServerOrphaned'
  BY <1>1, <1>2, <1>3, McpAssumption DEF McpTypeOK, Structure, MapHolds, UpHasServer, NoServerOrphaned
<1>8. UpHasServer'
  <2>1. n.up => n.server = s
    BY DEF n, Closing, Gone
  <2> QED BY <1>1, <1>3, <2>1 DEF McpTypeOK, Structure, UpHasServer
<1> QED BY <1>4, <1>5, <1>6, <1>7, <1>8 DEF Structure

\* The two maps and the connections, with their types.
Shape ==
  /\ Structure
  /\ conn \in [Servers -> Conns \cup {None}] /\ dial \in [Servers -> Conns \cup {None}]
  /\ obj \in [Conns -> Connections]

LEMMA QuietShape == McpTypeOK /\ Structure /\ Quiet => Shape'
BY QuietKeeps DEF McpTypeOK, Quiet, Shape

LEMMA JoinOrDialShape ==
  ASSUME McpTypeOK, Structure, NEW s \in Servers, JoinOrDial(s), conn' = conn
  PROVE  Shape'
<1>1. CASE JoinsDial(s) /\ UNCHANGED <<dial, obj>>
  <2>1. Quiet
    BY <1>1 DEF Quiet, McpTypeOK
  <2> QED BY <2>1, QuietShape
<1>2. CASE Dials(s) /\ StartDial(s)
  BY <1>2, StartDialKeeps DEF Shape, McpTypeOK
<1> QED BY <1>1, <1>2 DEF JoinOrDial

\* A call that begins and one that returns count on the map's connection.
LEMMA BeginsQuiet ==
  ASSUME McpTypeOK, NEW c \in Calls, Begins(c), UNCHANGED <<conn, dial>>
  PROVE  Quiet
<1> DEFINE s == Server[c]
<1>1. s \in Servers /\ 1 \in {-1, 1}
  BY McpAssumption
<1>2. obj \in [Conns -> Connections]
  BY DEF McpTypeOK
<1> DEFINE t == Touched(obj, s)
<1>3. obj' = Counted(t, s, 1)
  BY DEF Begins
<1> HIDE DEF s
<1>4. /\ t \in [Conns -> Connections]
      /\ \A o \in Conns : /\ t[o].server = obj[o].server /\ t[o].status = obj[o].status
                          /\ t[o].up = obj[o].up /\ t[o].inFlight = obj[o].inFlight
  BY <1>1, <1>2, TouchedType
<1> HIDE DEF t
<1>5. /\ obj' \in [Conns -> Connections]
      /\ \A o \in Conns : /\ obj'[o].server = t[o].server /\ obj'[o].status = t[o].status
                          /\ obj'[o].up = t[o].up
                          /\ o # conn[s] => obj'[o].inFlight = t[o].inFlight
  BY <1>1, <1>3, <1>4, CountedType
<1> QED BY <1>1, <1>4, <1>5 DEF Quiet

LEMMA ReturnsQuiet ==
  ASSUME McpTypeOK, NEW c \in Calls, CallReturns(c)
  PROVE  Quiet
<1> DEFINE s == Server[c]
<1>1. s \in Servers /\ -1 \in {-1, 1}
  BY McpAssumption
<1>2. obj \in [Conns -> Connections] /\ UNCHANGED <<conn, dial>>
  BY DEF McpTypeOK, CallReturns
<1> DEFINE t == Counted(obj, s, -1)
<1>3. obj' = t \/ obj' = Touched(t, s)
  BY DEF CallReturns
<1> HIDE DEF s
<1>4. /\ t \in [Conns -> Connections]
      /\ \A o \in Conns : /\ t[o].server = obj[o].server /\ t[o].status = obj[o].status
                          /\ t[o].up = obj[o].up
                          /\ o # conn[s] => t[o].inFlight = obj[o].inFlight
  BY <1>1, <1>2, CountedType
<1> HIDE DEF t
<1>5. /\ obj' \in [Conns -> Connections]
      /\ \A o \in Conns : /\ obj'[o].server = t[o].server /\ obj'[o].status = t[o].status
                          /\ obj'[o].up = t[o].up /\ obj'[o].inFlight = t[o].inFlight
  BY <1>1, <1>3, <1>4, TouchedType
<1> QED BY <1>1, <1>2, <1>4, <1>5 DEF Quiet

\* A dial that ends replaces nothing that runs.
LEMMA DialEndsShape ==
  ASSUME McpTypeOK, Structure, NEW s \in Servers, DialUp(s) \/ DialNeedsAuth(s) \/ DialFails(s)
  PROVE  Shape'
<1>0. dial[s] # None /\ dial[s] \in Conns /\ dial' = [dial EXCEPT ![s] = None]
  BY DEF McpTypeOK, DialUp, DialNeedsAuth, DialFails
<1>1. obj[dial[s]] \in Connections
  BY <1>0 DEF McpTypeOK
<1> DEFINE n == obj'[dial[s]]
<1>2. n \in Connections /\ obj' = [obj EXCEPT ![dial[s]] = n]
  <2>1. CASE DialUp(s)
    <3>1. obj' = [obj EXCEPT ![dial[s]] = [obj[dial[s]] EXCEPT !.status = "connected"]]
      BY <2>1, <1>0 DEF DialUp, McpTypeOK
    <3>2. [obj[dial[s]] EXCEPT !.status = "connected"] \in Connections
      BY <1>1 DEF Connections
    <3> QED BY <1>0, <3>1, <3>2 DEF McpTypeOK
  <2>2. CASE DialNeedsAuth(s)
    <3>1. obj' = [obj EXCEPT ![dial[s]] = [obj[dial[s]] EXCEPT !.status = "needs-auth", !.up = FALSE]]
      BY <2>2, <1>0 DEF DialNeedsAuth, McpTypeOK
    <3>2. [obj[dial[s]] EXCEPT !.status = "needs-auth", !.up = FALSE] \in Connections
      BY <1>1 DEF Connections
    <3> QED BY <1>0, <3>1, <3>2 DEF McpTypeOK
  <2>3. CASE DialFails(s)
    BY <2>3, <1>0, GoneIsOne DEF DialFails, McpTypeOK
  <2> QED BY <2>1, <2>2, <2>3
<1>3. \/ /\ conn' = [conn EXCEPT ![s] = dial[s]]
         /\ n.server = s /\ (n.status = "connected" \/ (n.status = "needs-auth" /\ ~n.up))
      \/ conn' = conn /\ ~n.up
  <2>0. obj[dial[s]].server = s
    BY <1>0 DEF Structure, DialHolds
  <2>1. CASE DialUp(s)
    <3>1. n = [obj[dial[s]] EXCEPT !.status = "connected"] /\ conn' = [conn EXCEPT ![s] = dial[s]]
      BY <2>1, <1>0 DEF DialUp, McpTypeOK
    <3> QED BY <2>0, <3>1, <1>1 DEF Connections
  <2>2. CASE DialNeedsAuth(s)
    <3>1. /\ n = [obj[dial[s]] EXCEPT !.status = "needs-auth", !.up = FALSE]
          /\ conn' = [conn EXCEPT ![s] = dial[s]]
      BY <2>2, <1>0 DEF DialNeedsAuth, McpTypeOK
    <3> QED BY <2>0, <3>1, <1>1 DEF Connections
  <2>3. CASE DialFails(s)
    <3>1. n = Gone /\ conn' = conn
      BY <2>3, <1>0 DEF DialFails, McpTypeOK
    <3>2. ~Gone.up
      BY DEF Gone
    <3> QED BY <3>1, <3>2
  <2> QED BY <2>1, <2>2, <2>3
<1> HIDE DEF n
<1>4. conn' \in [Servers -> Conns \cup {None}] /\ dial' \in [Servers -> Conns \cup {None}]
      /\ obj' \in [Conns -> Connections]
  BY <1>0, <1>2, <1>3 DEF McpTypeOK
<1>5. MapHolds'
  BY <1>0, <1>2, <1>3, McpAssumption DEF McpTypeOK, Structure, MapHolds, DialHolds
<1>6. DialHolds'
  BY <1>0, <1>2, <1>3, McpAssumption DEF McpTypeOK, Structure, MapHolds, DialHolds, Status
<1>7. NoServerOrphaned'
  <2> SUFFICES ASSUME NEW o \in Conns, obj'[o].up
               PROVE  \/ obj'[o].status = "dialing" /\ dial'[obj'[o].server] = o
                      \/ obj'[o].status = "connected" /\ conn'[obj'[o].server] = o
                      \/ obj'[o].status = "closed"
    BY DEF NoServerOrphaned
  <2>1. CASE o = dial[s]
    BY <2>1, <1>0, <1>2, <1>3 DEF McpTypeOK
  <2>2. CASE o # dial[s]
    <3>1. obj'[o] = obj[o] /\ obj[o] \in Connections
      BY <2>2, <1>0, <1>2 DEF McpTypeOK
    <3>2. \/ obj[o].status = "dialing" /\ dial[obj[o].server] = o
          \/ obj[o].status = "connected" /\ conn[obj[o].server] = o
          \/ obj[o].status = "closed"
      BY <3>1 DEF Structure, NoServerOrphaned
    <3>3. obj[o].server \in Servers
      BY <3>1 DEF Structure, UpHasServer
    <3>4. CASE obj[o].status = "dialing" /\ dial[obj[o].server] = o
      BY <3>1, <3>3, <3>4, <2>2, <1>0 DEF McpTypeOK
    <3>5. CASE obj[o].status = "connected" /\ conn[obj[o].server] = o
      BY <3>1, <3>3, <3>5, <2>2, <1>0, <1>3, McpAssumption DEF McpTypeOK, Structure, DialHolds, Status
    <3> QED BY <3>1, <3>2, <3>4, <3>5
  <2> QED BY <2>1, <2>2
<1>8. UpHasServer'
  BY <1>0, <1>2, <1>3 DEF McpTypeOK, Structure, UpHasServer
<1> QED BY <1>4, <1>5, <1>6, <1>7, <1>8 DEF Shape, Structure

LEMMA ShutdownShape == McpTypeOK /\ Structure /\ Shutdown => Shape'
<1> SUFFICES ASSUME McpTypeOK, Structure, Shutdown PROVE Shape'
  OBVIOUS
<1>1. conn' = [s \in Servers |-> None] /\ dial' = dial
  BY DEF Shutdown
<1>2. obj' = [o \in Conns |-> IF \E s \in Servers : conn[s] = o
                               THEN IF obj[o].up THEN Closing(obj[o].server) ELSE Gone
                               ELSE obj[o]]
  BY DEF Shutdown
<1>3. ASSUME NEW o \in Conns PROVE obj'[o] \in Connections
  <2>1. obj[o] \in Connections /\ (obj[o].up => obj[o].server \in Servers)
    BY DEF McpTypeOK, Structure, UpHasServer
  <2> QED BY <1>2, <2>1, GoneIsOne, ClosingIsOne
<1>4. ASSUME NEW o \in Conns
      PROVE  /\ (\E s \in Servers : conn[s] = o) => obj'[o].status = "closed"
             /\ (\A s \in Servers : conn[s] # o) => obj'[o] = obj[o]
             /\ obj'[o].up => obj[o].up /\ obj'[o].server = obj[o].server
  BY <1>2 DEF Closing, Gone
<1>5. \A s \in Servers : dial[s] # None =>
        dial[s] \in Conns /\ \A t \in Servers : conn[t] # dial[s]
  BY DEF McpTypeOK, Structure, MapHolds, DialHolds
<1>6. conn' \in [Servers -> Conns \cup {None}] /\ dial' \in [Servers -> Conns \cup {None}]
      /\ obj' \in [Conns -> Connections]
  BY <1>1, <1>2, <1>3, Zenon DEF McpTypeOK
<1>7. MapHolds'
  BY <1>1 DEF MapHolds
<1>8. DialHolds'
  <2>1. \A s \in Servers : dial[s] # None => obj'[dial[s]] = obj[dial[s]]
    BY <1>4, <1>5
  <2>2. \A s \in Servers : Status(s)' = "absent"
    BY <1>1 DEF Status
  <2> QED BY <1>1, <2>1, <2>2 DEF Structure, DialHolds
<1>9. NoServerOrphaned' /\ UpHasServer'
  <2>1. ASSUME NEW o \in Conns, obj'[o].up
        PROVE  /\ \/ obj'[o].status = "closed"
                  \/ obj'[o].status = "dialing" /\ dial'[obj'[o].server] = o
               /\ obj'[o].server \in Servers
    <3>1. obj[o].up /\ obj'[o].server = obj[o].server /\ obj[o].server \in Servers
      BY <1>4, <2>1 DEF Structure, UpHasServer
    <3>2. CASE \E s \in Servers : conn[s] = o
      BY <1>4, <3>1, <3>2
    <3>3. CASE \A s \in Servers : conn[s] # o
      BY <1>1, <1>4, <3>1, <3>3 DEF Structure, NoServerOrphaned
    <3> QED BY <3>2, <3>3
  <2> QED BY <2>1 DEF NoServerOrphaned, UpHasServer
<1> QED BY <1>6, <1>7, <1>8, <1>9 DEF Shape, Structure

\* The steps that leave the maps alone and change one connection's fields.
LEMMA QuietSteps ==
  ASSUME McpTypeOK, NEW o \in Conns, Ages(o) \/ Crash(o)
  PROVE  Quiet
<1>1. obj[o] \in Connections /\ UNCHANGED <<conn, dial>>
  BY DEF McpTypeOK, Ages, Crash
<1>2. \/ obj' = [obj EXCEPT ![o] = [obj[o] EXCEPT !.idle = TRUE]]
      \/ obj' = [obj EXCEPT ![o] = [obj[o] EXCEPT !.up = FALSE]]
  BY DEF McpTypeOK, Ages, Crash
<1>3. [obj[o] EXCEPT !.idle = TRUE] \in Connections /\ [obj[o] EXCEPT !.up = FALSE] \in Connections
  BY <1>1 DEF Connections
<1>4. obj' \in [Conns -> Connections]
  BY <1>2, <1>3 DEF McpTypeOK
<1> QED BY <1>1, <1>2, <1>4 DEF Quiet, McpTypeOK, Connections

LEMMA CloseDoneShape ==
  ASSUME McpTypeOK, Structure, NEW o \in Conns, CloseDone(o)
  PROVE  Shape'
<1>1. /\ obj[o].status = "closed" /\ obj' = [obj EXCEPT ![o] = Gone] /\ UNCHANGED <<conn, dial>>
      /\ Gone.status = "closed" /\ ~Gone.up
  BY DEF CloseDone, Gone
<1>2. obj' \in [Conns -> Connections]
  BY <1>1, GoneIsOne DEF McpTypeOK
<1>3. MapHolds' /\ DialHolds'
  BY <1>1 DEF McpTypeOK, Structure, MapHolds, DialHolds, Status
<1>4. NoServerOrphaned' /\ UpHasServer'
  BY <1>1 DEF McpTypeOK, Structure, NoServerOrphaned, UpHasServer
<1> QED BY <1>1, <1>2, <1>3, <1>4 DEF Shape, Structure, McpTypeOK

\* A connection that something refers to is not dialled again, and keeps its
\* server until it is closed.
Tame ==
  \A o \in Conns \ Unused : /\ obj'[o].status = "dialing" => obj[o].status = "dialing"
                            /\ obj'[o].server \in {obj[o].server, None}

LEMMA QuietTame == Quiet => Tame
BY DEF Quiet, Tame

LEMMA JoinOrDialTame ==
  ASSUME McpTypeOK, NEW s \in Servers, JoinOrDial(s) PROVE Tame
<1>1. CASE UNCHANGED obj
  BY <1>1 DEF Tame
<1>2. CASE Dials(s) /\ StartDial(s)
  <2>1. (CHOOSE x \in Unused : TRUE) \in Unused
    BY <1>2 DEF Dials
  <2> QED BY <1>2, <2>1 DEF McpTypeOK, StartDial, Tame
<1> QED BY <1>1, <1>2 DEF JoinOrDial

LEMMA CloseTame ==
  ASSUME McpTypeOK, Structure, NEW s \in Servers, Close(s) PROVE Tame
<1>1. CASE obj' = obj
  BY <1>1 DEF Tame
<1>2. CASE conn[s] # None
  <2>1. conn[s] \in Conns /\ obj[conn[s]].server = s
    BY <1>2 DEF McpTypeOK, Structure, MapHolds
  <2>2. obj' = [obj EXCEPT ![conn[s]] = IF obj[conn[s]].up THEN Closing(s) ELSE Gone]
    BY <1>2, <2>1 DEF Close, McpTypeOK
  <2>3. /\ Closing(s).status = "closed" /\ Closing(s).server = s
        /\ Gone.status = "closed" /\ Gone.server = None
    BY DEF Closing, Gone
  <2> QED BY <2>1, <2>2, <2>3 DEF McpTypeOK, Tame
<1> QED BY <1>1, <1>2 DEF Close

LEMMA DialEndsTame ==
  ASSUME McpTypeOK, NEW s \in Servers, DialUp(s) \/ DialNeedsAuth(s) \/ DialFails(s)
  PROVE  Tame
<1>1. dial[s] \in Conns /\ obj[dial[s]] \in Connections
  BY DEF McpTypeOK, DialUp, DialNeedsAuth, DialFails
<1>2. \/ obj' = [obj EXCEPT ![dial[s]] = [obj[dial[s]] EXCEPT !.status = "connected"]]
      \/ obj' = [obj EXCEPT ![dial[s]] = [obj[dial[s]] EXCEPT !.status = "needs-auth", !.up = FALSE]]
      \/ obj' = [obj EXCEPT ![dial[s]] = Gone]
  BY <1>1 DEF McpTypeOK, DialUp, DialNeedsAuth, DialFails
<1>3. Gone.status = "closed" /\ Gone.server = None
  BY DEF Gone
<1>4. obj'[dial[s]].status # "dialing" /\ obj'[dial[s]].server \in {obj[dial[s]].server, None}
  <2>1. CASE obj' = [obj EXCEPT ![dial[s]] = [obj[dial[s]] EXCEPT !.status = "connected"]]
    BY <2>1, <1>1 DEF McpTypeOK, Connections
  <2>2. CASE obj' = [obj EXCEPT ![dial[s]] =
                       [obj[dial[s]] EXCEPT !.status = "needs-auth", !.up = FALSE]]
    BY <2>2, <1>1 DEF McpTypeOK, Connections
  <2>3. CASE obj' = [obj EXCEPT ![dial[s]] = Gone]
    BY <2>3, <1>1, <1>3 DEF McpTypeOK
  <2> QED BY <1>2, <2>1, <2>2, <2>3
<1>5. \A o \in Conns : o # dial[s] => obj'[o] = obj[o]
  BY <1>1, <1>2 DEF McpTypeOK
<1> QED BY <1>1, <1>4, <1>5 DEF Tame

LEMMA ShutdownTame == Structure /\ Shutdown => Tame
<1> SUFFICES ASSUME Structure, Shutdown, NEW o \in Conns
             PROVE  /\ obj'[o].status = "dialing" => obj[o].status = "dialing"
                    /\ obj'[o].server \in {obj[o].server, None}
  BY DEF Tame
<1>1. obj'[o] \in {Closing(obj[o].server), Gone, obj[o]}
  BY DEF Shutdown
<1>2. /\ Closing(obj[o].server).status = "closed" /\ Closing(obj[o].server).server = obj[o].server
      /\ Gone.status = "closed" /\ Gone.server = None
  BY DEF Closing, Gone
<1> HIDE DEF Closing, Gone
<1> QED BY <1>1, <1>2

\* Every step keeps the shape of the two maps.
LEMMA ConnectionsStep == McpTypeOK /\ Structure /\ [McpNext]_mcpVars => Shape' /\ Tame
<1> SUFFICES ASSUME McpTypeOK, Structure, [McpNext]_mcpVars PROVE Shape' /\ Tame
  OBVIOUS
<1>1. ASSUME NEW o \in Conns, CloseDone(o) PROVE Shape' /\ Tame
  <2>1. Tame
    BY <1>1 DEF McpTypeOK, CloseDone, Gone, Tame
  <2> QED BY <1>1, <2>1, CloseDoneShape
<1>2. ASSUME NEW o \in Conns, Ages(o) \/ Crash(o) PROVE Shape' /\ Tame
  BY <1>2, QuietSteps, QuietShape, QuietTame
<1>3. ASSUME NEW s \in Servers, DialUp(s) \/ DialNeedsAuth(s) \/ DialFails(s) PROVE Shape' /\ Tame
  BY <1>3, DialEndsShape, DialEndsTame
<1>4. ASSUME NEW s \in Servers, Close(s), dial' = dial PROVE Shape' /\ Tame
  BY <1>4, CloseKeeps, CloseTame DEF Shape, McpTypeOK
<1>5. ASSUME NEW s \in Servers, JoinOrDial(s), conn' = conn PROVE Shape' /\ Tame
  BY <1>5, JoinOrDialShape, JoinOrDialTame
<1>6. ASSUME UNCHANGED <<conn, dial, obj>> PROVE Shape' /\ Tame
  <2>1. Quiet
    BY <1>6 DEF Quiet, McpTypeOK
  <2> QED BY <2>1, QuietShape, QuietTame
<1>7. ASSUME NEW c \in Calls, Begins(c), UNCHANGED <<conn, dial>> PROVE Shape' /\ Tame
  BY <1>7, BeginsQuiet, QuietShape, QuietTame
<1>8. ASSUME NEW s \in Servers, Reconnect(s) \/ Logout(s) PROVE Shape' /\ Tame
  BY <1>8, <1>4 DEF Reconnect, Logout
<1>9. ASSUME NEW s \in Servers, ReconnectConnects(s) PROVE Shape' /\ Tame
  <2>1. CASE obj' = Touched(obj, s) /\ UNCHANGED <<conn, dial>>
    <3>1. Quiet
      BY <2>1, TouchedType DEF Quiet, McpTypeOK
    <3> QED BY <3>1, QuietShape, QuietTame
  <2> QED BY <1>9, <1>5, <2>1 DEF ReconnectConnects
<1>10. ASSUME NEW s \in Servers, HealthVisit(s) \/ BackoffEnds(s) PROVE Shape' /\ Tame
  BY <1>10, <1>4, <1>5, <1>6 DEF HealthVisit, BackoffEnds
<1>11. ASSUME NEW c \in Calls, CallArrives(c) \/ CallLooksAgain(c) \/ CallReconnects(c) \/ CallBegins(c)
       PROVE  Shape' /\ Tame
  <2>1. Server[c] \in Servers
    BY McpAssumption
  <2> QED BY <1>11, <2>1, <1>5, <1>6, <1>7 DEF CallArrives, CallLooksAgain, CallReconnects, CallBegins, Seeks
<1>12. ASSUME NEW c \in Calls, AuthSucceeds(c) PROVE Shape' /\ Tame
  <2>1. Server[c] \in Servers
    BY McpAssumption
  <2> QED BY <1>12, <2>1, <1>4 DEF AuthSucceeds
<1>13. ASSUME NEW c \in Calls, AuthFails(c) \/ CallAborts(c) \/ CallStale(c) PROVE Shape' /\ Tame
  BY <1>13, <1>6 DEF AuthFails, CallAborts, CallStale
<1>14. ASSUME NEW c \in Calls, CallReturns(c) PROVE Shape' /\ Tame
  BY <1>14, ReturnsQuiet, QuietShape, QuietTame
<1>15. CASE Shutdown
  BY <1>15, ShutdownShape, ShutdownTame
<1>16. CASE UNCHANGED mcpVars
  BY <1>16, <1>6 DEF mcpVars
<1> QED
  BY <1>1, <1>2, <1>3, <1>8, <1>9, <1>10, <1>11, <1>12, <1>13, <1>14, <1>15, <1>16 DEF McpNext

-----------------------------------------------------------------------------
\* What a step does to a call: it leaves it alone, counts it on what the map
\* holds for its server, or leaves it uncounted.
Moves ==
  /\ call' \in [Calls -> CallStates]
  /\ \A c \in Calls :
       \/ call'[c] = call[c]
       \/ call'[c].counted = None /\ call'[c].at # "calling"
       \/ conn' = conn /\ call'[c].at = "calling" /\ call'[c].counted = conn[Server[c]]

LEMMA CallsStep == McpTypeOK /\ CountedOwn /\ [McpNext]_mcpVars => Moves
<1> SUFFICES ASSUME McpTypeOK, CountedOwn, [McpNext]_mcpVars PROVE Moves
  OBVIOUS
<1>1. /\ Ended \in CallStates /\ Ended.counted = None /\ Ended.at = "done"
      /\ call \in [Calls -> CallStates]
  BY NewCallIsOne DEF Ended, NewCall, McpTypeOK
<1>2. ASSUME call' = call PROVE Moves
  BY <1>1, <1>2 DEF Moves
<1>3. ASSUME NEW c \in Calls, call' = [call EXCEPT ![c] = Ended] PROVE Moves
  BY <1>1, <1>3 DEF Moves
<1>4. ASSUME NEW c \in Calls, call[c].at # "calling",
             NEW where \in Pending, call' = [call EXCEPT ![c].at = where] PROVE Moves
  <2>1. call[c] \in CallStates /\ call[c].counted = None
    BY <1>1, <1>4 DEF CountedOwn
  <2>2. [call[c] EXCEPT !.at = where] \in CallStates
    BY <2>1 DEF CallStates
  <2>3. call' = [call EXCEPT ![c] = [call[c] EXCEPT !.at = where]]
    BY <1>1, <1>4
  <2> QED BY <1>1, <2>1, <2>2, <2>3 DEF Moves, CallStates, Pending
<1>5. ASSUME NEW c \in Calls, Begins(c), conn' = conn PROVE Moves
  <2>1. call[c] \in CallStates /\ conn[Server[c]] \in Conns \cup {None}
    BY <1>1, McpAssumption DEF McpTypeOK
  <2>2. call' = [call EXCEPT ![c] = [NewCall EXCEPT !.at = "calling", !.counted = conn[Server[c]]]]
    BY <1>1, <1>5 DEF Begins
  <2>3. [NewCall EXCEPT !.at = "calling", !.counted = conn[Server[c]]] \in CallStates
    BY <2>1 DEF CallStates, NewCall
  <2> QED BY <1>1, <1>5, <2>1, <2>2, <2>3 DEF Moves, CallStates
<1>6. ASSUME NEW s \in Servers, DialUp(s) \/ DialNeedsAuth(s) \/ DialFails(s) PROVE Moves
  <2> SUFFICES ASSUME NEW c \in Calls
               PROVE  /\ call'[c] \in CallStates
                      /\ \/ call'[c] = call[c]
                         \/ call'[c].counted = None /\ call'[c].at # "calling"
    BY <1>6 DEF Moves, DialUp, DialNeedsAuth, DialFails
  <2>1. call[c] \in CallStates
    BY <1>1
  <2>2. c \in Awaiting(s) => call[c].counted = None
    BY DEF Awaiting, CountedOwn
  <2>3. \/ call'[c] = call[c] \/ call'[c] = Ended
        \/ c \in Awaiting(s) /\ call'[c] = [NewCall EXCEPT !.at = "connected"]
        \/ c \in Awaiting(s) /\ call'[c] = [call[c] EXCEPT !.at = "reauthing"]
    BY <1>6 DEF DialUp, DialNeedsAuth, DialFails
  <2>4. CASE c \in Awaiting(s) /\ call'[c] = [NewCall EXCEPT !.at = "connected"]
    BY <2>4 DEF CallStates, Pending, NewCall
  <2>5. CASE c \in Awaiting(s) /\ call'[c] = [call[c] EXCEPT !.at = "reauthing"]
    BY <2>1, <2>2, <2>5 DEF CallStates, Pending
  <2> QED BY <1>1, <2>1, <2>3, <2>4, <2>5
<1>7. ASSUME NEW c \in Calls, CallArrives(c) \/ CallLooksAgain(c) \/ CallReconnects(c) \/ CallBegins(c)
      PROVE  Moves
  BY <1>7, <1>3, <1>4, <1>5 DEF CallArrives, CallLooksAgain, CallReconnects, CallBegins, Seeks, Pending
<1>8. ASSUME NEW c \in Calls, AuthSucceeds(c) PROVE Moves
  <2>1. call[c] \in CallStates /\ call[c].counted = None
    BY <1>1, <1>8 DEF AuthSucceeds, CountedOwn
  <2>2. PICK where \in {"closing", "reclosing"} :
          call' = [call EXCEPT ![c] = [call[c] EXCEPT !.at = where, !.authed = TRUE]]
    BY <1>1, <1>8 DEF AuthSucceeds
  <2>3. [call[c] EXCEPT !.at = where, !.authed = TRUE] \in CallStates
    BY <2>1 DEF CallStates, Pending
  <2> QED BY <1>1, <2>1, <2>2, <2>3 DEF Moves, CallStates
<1>9. ASSUME NEW c \in Calls, AuthFails(c) \/ CallReturns(c) \/ CallAborts(c) \/ CallStale(c)
      PROVE  Moves
  BY <1>9, <1>3 DEF AuthFails, CallReturns, CallAborts, CallStale
<1>10. ASSUME NEW s \in Servers,
              Reconnect(s) \/ ReconnectConnects(s) \/ Logout(s) \/ HealthVisit(s) \/ BackoffEnds(s)
       PROVE  Moves
  BY <1>10, <1>2 DEF Reconnect, ReconnectConnects, Logout, HealthVisit, BackoffEnds
<1>11. ASSUME NEW o \in Conns, CloseDone(o) \/ Ages(o) \/ Crash(o) PROVE Moves
  BY <1>11, <1>2 DEF CloseDone, Ages, Crash
<1>12. CASE Shutdown \/ UNCHANGED mcpVars
  BY <1>12, <1>2 DEF Shutdown, mcpVars
<1> QED BY <1>6, <1>7, <1>8, <1>9, <1>10, <1>11, <1>12 DEF McpNext

\* The sets, the flag and the bound.
LEMMA RestStep ==
  McpTypeOK /\ [McpNext]_mcpVars =>
    /\ keepAlive' \subseteq Servers /\ waits' \in [Servers -> SUBSET {"health", "command"}]
    /\ reclose' \subseteq Servers /\ backoff' \subseteq Servers /\ late' \subseteq Servers
    /\ down' \in BOOLEAN /\ commands' \in 0..MaxCommands
<1> DEFINE Rest == /\ keepAlive' \subseteq Servers
                   /\ waits' \in [Servers -> SUBSET {"health", "command"}]
                   /\ reclose' \subseteq Servers /\ backoff' \subseteq Servers
                   /\ late' \subseteq Servers /\ down' \in BOOLEAN /\ commands' \in 0..MaxCommands
<1> SUFFICES ASSUME McpTypeOK, [McpNext]_mcpVars PROVE Rest
  OBVIOUS
<1> USE McpAssumption DEF McpTypeOK
<1>1. ASSUME NEW s \in Servers, DialUp(s) \/ DialNeedsAuth(s) \/ DialFails(s) PROVE Rest
  BY <1>1 DEF DialUp, DialNeedsAuth, DialFails
<1>2. ASSUME NEW s \in Servers, Reconnect(s) \/ ReconnectConnects(s) \/ Logout(s) PROVE Rest
  BY <1>2 DEF Reconnect, ReconnectConnects, Logout
<1>3. ASSUME NEW s \in Servers, HealthVisit(s) \/ BackoffEnds(s) PROVE Rest
  BY <1>3 DEF HealthVisit, Visits, BackoffEnds
<1>4. ASSUME NEW c \in Calls, CallArrives(c) \/ CallLooksAgain(c) \/ CallReconnects(c) \/ CallBegins(c)
      PROVE  Rest
  BY <1>4 DEF CallArrives, CallLooksAgain, CallReconnects, CallBegins
<1>5. ASSUME NEW c \in Calls, \/ AuthFails(c) \/ AuthSucceeds(c) \/ CallReturns(c) \/ CallAborts(c)
                              \/ CallStale(c)
      PROVE  Rest
  BY <1>5 DEF AuthFails, AuthSucceeds, CallReturns, CallAborts, CallStale
<1>6. ASSUME NEW o \in Conns, CloseDone(o) \/ Ages(o) \/ Crash(o) PROVE Rest
  BY <1>6 DEF CloseDone, Ages, Crash
<1>7. CASE Shutdown
  BY <1>7 DEF Shutdown
<1>8. CASE UNCHANGED mcpVars
  BY <1>8 DEF mcpVars
<1> QED BY <1>1, <1>2, <1>3, <1>4, <1>5, <1>6, <1>7, <1>8 DEF McpNext

LEMMA McpInitInv == McpInit => McpInv
<1> SUFFICES ASSUME McpInit PROVE McpInv
  OBVIOUS
<1>1. McpTypeOK
  <2>1. obj \in [Conns -> Connections] /\ call \in [Calls -> CallStates]
    BY GoneIsOne, NewCallIsOne DEF McpInit
  <2>2. conn \in [Servers -> Conns \cup {None}] /\ dial \in [Servers -> Conns \cup {None}]
    BY DEF McpInit
  <2>3. waits \in [Servers -> SUBSET {"health", "command"}]
    <3>1. {} \in SUBSET {"health", "command"}
      OBVIOUS
    <3> QED BY <3>1 DEF McpInit
  <2>4. keepAlive \subseteq Servers /\ down \in BOOLEAN
        /\ reclose \subseteq Servers /\ backoff \subseteq Servers /\ late \subseteq Servers
    BY Zenon DEF McpInit
  <2>5. commands \in 0..MaxCommands
    BY McpAssumption DEF McpInit
  <2> QED BY <2>1, <2>2, <2>3, <2>4, <2>5 DEF McpTypeOK
<1>2. MapHolds /\ DialHolds
  BY DEF McpInit, MapHolds, DialHolds
<1>3. UpHasServer /\ NoServerOrphaned
  BY DEF McpInit, Gone, UpHasServer, NoServerOrphaned
<1>4. CountedOwn
  BY DEF McpInit, NewCall, CountedOwn
<1> QED BY <1>1, <1>2, <1>3, <1>4 DEF McpInv

LEMMA McpStepInv == McpInv /\ [McpNext]_mcpVars => McpInv'
<1> SUFFICES ASSUME McpInv, [McpNext]_mcpVars PROVE McpInv'
  OBVIOUS
<1>1. McpTypeOK /\ Structure /\ CountedOwn
  BY DEF McpInv, Structure
<1>2. Shape' /\ Tame /\ Moves
  BY <1>1, ConnectionsStep, CallsStep
<1>3. McpTypeOK'
  BY <1>1, <1>2, RestStep DEF Shape, Moves, McpTypeOK
<1>4. CountedOwn'
  <2> SUFFICES ASSUME NEW c \in Calls, call'[c].counted # None
               PROVE  /\ call'[c].at = "calling"
                      /\ obj'[call'[c].counted].status # "dialing"
                      /\ obj'[call'[c].counted].server \in {Server[c], None}
    BY DEF CountedOwn
  <2>1. CASE call'[c] = call[c]
    <3>1. call[c] \in CallStates /\ call[c].counted \in Conns \ Unused
      BY <1>1, <2>1 DEF McpTypeOK, CallStates, Unused
    <3> QED BY <1>1, <1>2, <2>1, <3>1 DEF CountedOwn, Tame
  <2>2. CASE conn' = conn /\ call'[c].at = "calling" /\ call'[c].counted = conn[Server[c]]
    <3>1. Server[c] \in Servers
      BY McpAssumption
    <3> QED BY <1>2, <2>2, <3>1 DEF Shape, Structure, MapHolds
  <2> QED BY <1>2, <2>1, <2>2 DEF Moves
<1> QED BY <1>2, <1>3, <1>4 DEF McpInv, Shape, Structure

LEMMA McpInductive == McpSpec => []McpInv
BY McpInitInv, McpStepInv, PTL DEF McpSpec

-----------------------------------------------------------------------------
\* Steps that neither begin nor end a call: the running calls stay on their
\* connections, and no count grows.
Still ==
  /\ \A c \in Calls : \/ call'[c] = call[c]
                      \/ call[c].at # "calling" /\ call'[c].at # "calling"
  /\ \A o \in Conns : obj'[o].inFlight = obj[o].inFlight \/ obj'[o].inFlight = 0
  /\ \A s \in Servers : conn'[s] = conn[s] \/ conn'[s] = dial[s] \/ conn'[s] = None

\* The connections and calls alone.
Uncounting == \A o \in Conns : obj'[o].inFlight = obj[o].inFlight \/ obj'[o].inFlight = 0
Uncalling == \A c \in Calls : \/ call'[c] = call[c]
                              \/ call[c].at # "calling" /\ call'[c].at # "calling"

LEMMA JoinOrDialStill == ASSUME McpTypeOK, NEW s \in Servers, JoinOrDial(s) PROVE Uncounting
<1>1. CASE UNCHANGED obj
  BY <1>1 DEF Uncounting
<1>2. CASE Dials(s) /\ StartDial(s)
  <2>1. (CHOOSE x \in Unused : TRUE) \in Conns
    BY <1>2 DEF Dials, Unused
  <2>2. [Gone EXCEPT !.server = s, !.status = "dialing", !.up = TRUE].inFlight = 0
    BY DEF Gone
  <2> QED BY <1>2, <2>1, <2>2 DEF McpTypeOK, StartDial, Uncounting
<1> QED BY <1>1, <1>2 DEF JoinOrDial

LEMMA CloseStill == ASSUME McpTypeOK, NEW s \in Servers, Close(s) PROVE Uncounting
<1>1. \A o \in Conns : obj'[o] = obj[o] \/ obj'[o] = Closing(s) \/ obj'[o] = Gone
  BY DEF Close, McpTypeOK
<1>2. Closing(s).inFlight = 0 /\ Gone.inFlight = 0
  BY DEF Closing, Gone
<1> QED BY <1>1, <1>2 DEF Uncounting

LEMMA DialEndsStill ==
  ASSUME McpTypeOK, CountedOwn, NEW s \in Servers, DialUp(s) \/ DialNeedsAuth(s) \/ DialFails(s)
  PROVE  Uncounting /\ Uncalling
<1>1. dial[s] \in Conns /\ obj[dial[s]] \in Connections
  BY DEF McpTypeOK, DialUp, DialNeedsAuth, DialFails
<1>2. \/ obj' = [obj EXCEPT ![dial[s]] = [obj[dial[s]] EXCEPT !.status = "connected"]]
      \/ obj' = [obj EXCEPT ![dial[s]] = [obj[dial[s]] EXCEPT !.status = "needs-auth", !.up = FALSE]]
      \/ obj' = [obj EXCEPT ![dial[s]] = Gone]
  BY <1>1 DEF McpTypeOK, DialUp, DialNeedsAuth, DialFails
<1>3. obj'[dial[s]].inFlight = obj[dial[s]].inFlight \/ obj'[dial[s]].inFlight = 0
  <2>1. Gone.inFlight = 0
    BY DEF Gone
  <2>2. CASE obj' = [obj EXCEPT ![dial[s]] = [obj[dial[s]] EXCEPT !.status = "connected"]]
    BY <2>2, <1>1 DEF McpTypeOK, Connections
  <2>3. CASE obj' = [obj EXCEPT ![dial[s]] =
                       [obj[dial[s]] EXCEPT !.status = "needs-auth", !.up = FALSE]]
    BY <2>3, <1>1 DEF McpTypeOK, Connections
  <2> QED BY <1>1, <1>2, <2>1, <2>2, <2>3 DEF McpTypeOK
<1>4. \A o \in Conns : o # dial[s] => obj'[o] = obj[o]
  BY <1>1, <1>2 DEF McpTypeOK
<1>5. Uncalling
  <2> SUFFICES ASSUME NEW c \in Calls
               PROVE  call'[c] = call[c] \/ (call[c].at # "calling" /\ call'[c].at # "calling")
    BY DEF Uncalling
  <2>1. call[c] \in CallStates /\ (c \in Awaiting(s) => call[c].at = "connecting")
    BY DEF McpTypeOK, Awaiting
  <2>2. \/ call'[c] = call[c]
        \/ /\ c \in Awaiting(s)
           /\ call'[c] \in {Ended, [NewCall EXCEPT !.at = "connected"],
                             [call[c] EXCEPT !.at = "reauthing"]}
    BY DEF DialUp, DialNeedsAuth, DialFails
  <2>3. /\ Ended.at = "done" /\ [NewCall EXCEPT !.at = "connected"].at = "connected"
        /\ [call[c] EXCEPT !.at = "reauthing"].at = "reauthing"
    BY <2>1 DEF Ended, NewCall, CallStates
  <2>4. CASE call'[c] = call[c]
    BY <2>4
  <2>5. CASE c \in Awaiting(s) /\ call'[c].at \in {"done", "connected", "reauthing"}
    BY <2>1, <2>5
  <2> QED BY <2>2, <2>3, <2>4, <2>5
<1> QED BY <1>3, <1>4, <1>5 DEF Uncounting

LEMMA StillStep ==
  ASSUME McpInv, [McpNext]_mcpVars
  PROVE  \/ Still
         \/ \E c \in Calls : /\ Begins(c) /\ call[c].at # "calling" /\ UNCHANGED <<conn, dial>>
         \/ \E c \in Calls : CallReturns(c)
<1> DEFINE Goal == \/ Still
                   \/ \E c \in Calls : /\ Begins(c) /\ call[c].at # "calling"
                                        /\ UNCHANGED <<conn, dial>>
                   \/ \E c \in Calls : CallReturns(c)
<1> SUFFICES Goal
  OBVIOUS
<1>a. McpTypeOK /\ CountedOwn /\ Ended.at = "done" /\ call \in [Calls -> CallStates]
  BY DEF McpInv, McpTypeOK, Ended, NewCall
<1>1. ASSUME Uncounting, Uncalling, UNCHANGED conn PROVE Goal
  BY <1>1 DEF Uncounting, Uncalling, Still
<1>2. ASSUME NEW s \in Servers, Close(s), Uncalling PROVE Goal
  BY <1>2, <1>a, CloseStill DEF Uncounting, Uncalling, Still, Close, McpTypeOK
<1>3. ASSUME call' = call PROVE Uncalling
  BY <1>3 DEF Uncalling
<1>4. ASSUME NEW c \in Calls, call[c].at # "calling", call' = [call EXCEPT ![c] = Ended]
      PROVE  Uncalling
  BY <1>a, <1>4 DEF Uncalling
<1>5. ASSUME NEW c \in Calls, call[c].at # "calling",
             NEW where \in Pending, call' = [call EXCEPT ![c].at = where]
      PROVE  Uncalling
  BY <1>a, <1>5 DEF Uncalling, Pending, CallStates
<1>6. ASSUME NEW o \in Conns, CloseDone(o) \/ Ages(o) \/ Crash(o) PROVE Goal
  <2>1. obj[o] \in Connections /\ Gone.inFlight = 0
    BY <1>a DEF McpTypeOK, Gone
  <2>2. Uncounting
    BY <1>a, <1>6, <2>1 DEF McpTypeOK, Connections, CloseDone, Ages, Crash, Uncounting
  <2> QED BY <1>1, <1>3, <1>6, <2>2 DEF CloseDone, Ages, Crash
<1>7. ASSUME NEW s \in Servers, DialUp(s) \/ DialNeedsAuth(s) \/ DialFails(s) PROVE Goal
  <2>1. \A t \in Servers : conn'[t] = conn[t] \/ conn'[t] = dial[t]
    BY <1>a, <1>7 DEF McpTypeOK, DialUp, DialNeedsAuth, DialFails
  <2> QED BY <1>a, <1>7, <2>1, DialEndsStill DEF Uncounting, Uncalling, Still
<1>8. ASSUME NEW s \in Servers, Reconnect(s) \/ Logout(s) PROVE Goal
  BY <1>2, <1>3, <1>8 DEF Reconnect, Logout
<1>9. ASSUME NEW s \in Servers, ReconnectConnects(s) PROVE Goal
  <2>1. CASE obj' = Touched(obj, s)
    <3>1. Uncounting
      BY <1>a, <2>1, TouchedType DEF McpTypeOK, Uncounting
    <3> QED BY <1>1, <1>3, <1>9, <3>1 DEF ReconnectConnects
  <2> QED BY <1>a, <1>1, <1>3, <1>9, <2>1, JoinOrDialStill DEF ReconnectConnects
<1>10. ASSUME NEW s \in Servers, HealthVisit(s) \/ BackoffEnds(s) PROVE Goal
  <2>1. CASE UNCHANGED <<conn, obj>>
    BY <1>1, <1>3, <1>10, <2>1 DEF Uncounting, HealthVisit, BackoffEnds
  <2> QED BY <1>a, <1>1, <1>2, <1>3, <1>10, <2>1, JoinOrDialStill DEF HealthVisit, BackoffEnds
<1>11. ASSUME NEW c \in Calls, CallArrives(c) \/ CallLooksAgain(c) \/ CallReconnects(c) \/ CallBegins(c)
       PROVE  Goal
  <2>1. Server[c] \in Servers /\ call[c].at # "calling" /\ UNCHANGED conn
    BY <1>11, McpAssumption DEF CallArrives, CallLooksAgain, CallReconnects, CallBegins
  <2>2. CASE Begins(c) /\ UNCHANGED dial
    BY <2>1, <2>2
  <2>3. CASE JoinOrDial(Server[c]) /\ call' = [call EXCEPT ![c].at = "connecting"]
    BY <1>a, <1>1, <1>5, <2>1, <2>3, JoinOrDialStill DEF Pending
  <2>4. CASE UNCHANGED obj /\ call' = [call EXCEPT ![c] = Ended]
    <3>1. Uncounting
      BY <2>4 DEF Uncounting
    <3> QED BY <1>1, <1>4, <2>1, <2>4, <3>1
  <2>5. CASE UNCHANGED obj /\ call' = [call EXCEPT ![c].at = "authing"]
    <3>1. Uncounting
      BY <2>5 DEF Uncounting
    <3> QED BY <1>1, <1>5, <2>1, <2>5, <3>1 DEF Pending
  <2> QED BY <1>11, <2>2, <2>3, <2>4, <2>5 DEF CallArrives, CallLooksAgain, CallReconnects, CallBegins, Seeks
<1>12. ASSUME NEW c \in Calls, AuthSucceeds(c) PROVE Goal
  <2>1. Server[c] \in Servers
    BY McpAssumption
  <2>2. Uncalling
    <3>1. call[c] \in CallStates /\ call[c].at # "calling"
      BY <1>a, <1>12 DEF AuthSucceeds
    <3>2. PICK where \in {"closing", "reclosing"} :
            call' = [call EXCEPT ![c] = [call[c] EXCEPT !.at = where, !.authed = TRUE]]
      BY <1>a, <1>12 DEF AuthSucceeds
    <3>3. [call[c] EXCEPT !.at = where, !.authed = TRUE].at # "calling"
      BY <3>1 DEF CallStates
    <3> QED BY <1>a, <3>1, <3>2, <3>3 DEF Uncalling
  <2> QED BY <1>2, <1>12, <2>1, <2>2 DEF AuthSucceeds
<1>13. ASSUME NEW c \in Calls, AuthFails(c) \/ CallAborts(c) \/ CallStale(c) PROVE Goal
  <2>1. Uncounting
    BY <1>13 DEF AuthFails, CallAborts, CallStale, Uncounting
  <2> QED BY <1>1, <1>4, <1>13, <2>1 DEF AuthFails, CallAborts, CallStale, Pending
<1>14. CASE Shutdown
  <2>1. \A o \in Conns : \/ obj'[o] = obj[o] \/ obj'[o] = Gone
                         \/ obj'[o] = Closing(obj[o].server)
    BY <1>14 DEF Shutdown
  <2>2. Gone.inFlight = 0 /\ \A o \in Conns : Closing(obj[o].server).inFlight = 0
    BY DEF Gone, Closing
  <2> QED BY <1>14, <2>1, <2>2 DEF Shutdown, Still
<1>15. CASE UNCHANGED mcpVars
  BY <1>15 DEF mcpVars, Still
<1> QED
  BY <1>6, <1>7, <1>8, <1>9, <1>10, <1>11, <1>12, <1>13, <1>14, <1>15 DEF McpNext

\* The count of a connection in the map follows the calls on it.
LEMMA NoPhantomStep == McpInv /\ McpInv' /\ NoPhantomCalls /\ [McpNext]_mcpVars => NoPhantomCalls'
<1> SUFFICES ASSUME McpInv, McpInv', NoPhantomCalls, [McpNext]_mcpVars,
                    NEW s \in Servers, NEW o, conn'[s] = o, o # None
             PROVE  obj'[o].inFlight <= Cardinality(RunningOn(o)')
  BY DEF NoPhantomCalls, RunningOn
<1>1. /\ McpTypeOK /\ McpTypeOK' /\ MapHolds /\ DialHolds /\ CountedOwn
      /\ o \in Conns /\ obj[o] \in Connections /\ obj'[o] \in Connections
  <2>1. McpTypeOK /\ McpTypeOK' /\ MapHolds /\ DialHolds /\ CountedOwn
    BY DEF McpInv
  <2>2. o \in Conns
    BY <2>1 DEF McpTypeOK
  <2>3. obj \in [Conns -> Connections] /\ obj' \in [Conns -> Connections]
    BY <2>1 DEF McpTypeOK
  <2> QED BY <2>1, <2>2, <2>3
<1>2. IsFiniteSet(RunningOn(o)) /\ IsFiniteSet(RunningOn(o)')
  <2>1. RunningOn(o) \in SUBSET Calls /\ RunningOn(o)' \in SUBSET Calls
    BY DEF RunningOn
  <2> QED BY <2>1, McpAssumption, FS_Subset
<1>3. Cardinality(RunningOn(o)) \in Nat /\ Cardinality(RunningOn(o)') \in Nat
  BY <1>2, FS_CardinalityType
<1>4. CASE Still
  <2>1. RunningOn(o)' = RunningOn(o)
    BY <1>4 DEF Still, RunningOn
  <2>2. obj'[o].inFlight = obj[o].inFlight \/ obj'[o].inFlight = 0
    BY <1>1, <1>4 DEF Still
  <2>3. CASE conn[s] = o
    BY <1>1, <1>3, <2>1, <2>2, <2>3 DEF NoPhantomCalls
  <2>4. CASE dial[s] = o
    BY <1>1, <1>3, <2>2, <2>4 DEF DialHolds
  <2> QED BY <1>4, <2>3, <2>4 DEF Still
<1>5. ASSUME NEW c \in Calls, Begins(c), call[c].at # "calling", UNCHANGED <<conn, dial>>
      PROVE  obj'[o].inFlight <= Cardinality(RunningOn(o)')
  <2> DEFINE t == Touched(obj, Server[c])
  <2>1. Server[c] \in Servers /\ 1 \in {-1, 1} /\ conn[s] = o
    BY <1>5, McpAssumption
  <2>2. t \in [Conns -> Connections] /\ t[o].inFlight = obj[o].inFlight
    BY <1>1, <2>1, TouchedType DEF McpTypeOK
  <2>3. obj' = Counted(t, Server[c], 1)
    BY <1>5 DEF Begins
  <2> HIDE DEF t
  <2>4. call' = [call EXCEPT ![c] = [NewCall EXCEPT !.at = "calling", !.counted = conn[Server[c]]]]
    BY <1>1, <1>5 DEF Begins, McpTypeOK
  <2>5. \A d \in Calls : d # c => call'[d] = call[d]
    BY <1>1, <2>4 DEF McpTypeOK
  <2>6. call'[c].at = "calling" /\ call'[c].counted = conn[Server[c]]
    BY <1>1, <2>4 DEF McpTypeOK, NewCall
  <2>7. CASE conn[Server[c]] = o
    <3>1. RunningOn(o)' = RunningOn(o) \cup {c} /\ c \notin RunningOn(o)
      BY <1>5, <2>5, <2>6, <2>7 DEF RunningOn
    <3>2. Cardinality(RunningOn(o)') = Cardinality(RunningOn(o)) + 1
      BY <1>2, <3>1, FS_AddElement
    <3>3. obj'[o].inFlight <= obj[o].inFlight + 1
      <4>1. conn[Server[c]] # None /\ obj[o].inFlight \in Nat
        BY <1>1, <2>7, McpAssumption DEF Connections
      <4>2. obj' = [t EXCEPT ![o].inFlight = @ + 1]
        <5>1. t[o].inFlight + 1 >= 0
          BY <2>2, <4>1
        <5>2. conn[Server[c]] = o /\ conn[Server[c]] # None /\ ~(t[conn[Server[c]]].inFlight + 1 < 0)
          BY <2>2, <2>7, <4>1, <5>1
        <5> QED BY <2>3, <5>2 DEF Counted
      <4> QED BY <1>1, <2>2, <4>1, <4>2 DEF Connections
    <3>4. obj[o].inFlight <= Cardinality(RunningOn(o))
      BY <2>1 DEF NoPhantomCalls
    <3> QED BY <1>1, <1>3, <3>2, <3>3, <3>4 DEF Connections
  <2>8. CASE conn[Server[c]] # o
    <3>1. RunningOn(o)' = RunningOn(o)
      BY <1>5, <2>5, <2>6, <2>8 DEF RunningOn
    <3>2. obj'[o].inFlight = t[o].inFlight
      BY <1>1, <2>1, <2>2, <2>3, <2>8, CountedType
    <3> QED BY <2>1, <2>2, <3>1, <3>2 DEF NoPhantomCalls
  <2> QED BY <2>7, <2>8
<1>6. ASSUME NEW c \in Calls, CallReturns(c)
      PROVE  obj'[o].inFlight <= Cardinality(RunningOn(o)')
  <2> DEFINE t == Counted(obj, Server[c], -1)
  <2>1. Server[c] \in Servers /\ -1 \in {-1, 1} /\ conn[s] = o /\ call[c].at = "calling"
    BY <1>6, McpAssumption DEF CallReturns
  <2>2. t \in [Conns -> Connections] /\ (o # conn[Server[c]] => t[o].inFlight = obj[o].inFlight)
    BY <1>1, <2>1, CountedType DEF McpTypeOK
  <2>3. obj' = t \/ obj' = Touched(t, Server[c])
    BY <1>6 DEF CallReturns
  <2>4. o = conn[Server[c]] => t[o].inFlight = IF obj[o].inFlight = 0 THEN 0 ELSE obj[o].inFlight - 1
    <3>1. obj \in [Conns -> Connections] /\ obj[o].inFlight \in Nat /\ o # None
      BY <1>1, McpAssumption DEF McpTypeOK, Connections
    <3> QED BY <1>1, <3>1 DEF Counted, Connections
  <2> HIDE DEF t
  <2>5. obj'[o].inFlight = t[o].inFlight
    BY <1>1, <2>1, <2>2, <2>3, TouchedType
  <2>6. RunningOn(o)' = RunningOn(o) \ {c}
    <3>1. call' = [call EXCEPT ![c] = Ended] /\ Ended.at = "done"
      BY <1>6 DEF CallReturns, Ended, NewCall
    <3> QED BY <1>1, <3>1 DEF McpTypeOK, RunningOn
  <2>7. obj[o].inFlight <= Cardinality(RunningOn(o)) /\ obj[o].inFlight \in Nat
    BY <1>1, <2>1 DEF NoPhantomCalls, Connections
  <2>8. CASE o = conn[Server[c]]
    <3>1. Cardinality(RunningOn(o)') >= Cardinality(RunningOn(o)) - 1
      BY <1>2, <1>3, <2>6, FS_RemoveElement
    <3> QED BY <1>3, <2>4, <2>5, <2>7, <2>8, <3>1
  <2>9. CASE o # conn[Server[c]]
    <3>1. c \notin RunningOn(o)
      <4> SUFFICES ASSUME call[c].counted = o PROVE FALSE
        BY DEF RunningOn
      <4>1. obj[o].server \in {Server[c], None}
        BY <1>1, McpAssumption DEF CountedOwn
      <4>2. obj[o].server = s
        BY <1>1, <2>1 DEF MapHolds
      <4> QED BY <2>1, <2>9, <4>1, <4>2, McpAssumption
    <3>2. RunningOn(o)' = RunningOn(o)
      BY <2>6, <3>1
    <3> QED BY <2>2, <2>5, <2>7, <2>9, <3>2
  <2> QED BY <2>8, <2>9
<1> QED BY <1>4, <1>5, <1>6, StillStep

-----------------------------------------------------------------------------
\* The manager, its connections and the calls on them keep their shape: the
\* states of server-manager.ts and proxy-call.ts are these.
THEOREM McpTypeCorrect == McpSpec => []McpTypeOK
<1>1. McpInv => McpTypeOK
  BY DEF McpInv
<1> QED BY <1>1, McpInductive, PTL

\* The promise of the comment in close(): a server process that runs can be
\* found by the manager, or is being stopped, with any number of servers,
\* calls, commands, health checks and deaths, in any order.
THEOREM NoServerLost == McpSpec => []NoServerOrphaned
<1>1. McpInv => NoServerOrphaned
  BY DEF McpInv
<1> QED BY <1>1, McpInductive, PTL

\* incrementInFlight and decrementInFlight go by the name of the server, and
\* yet no connection counts a call that is over, across any number of closes
\* and reconnects of the same name.
THEOREM CountsEnd == McpSpec => []NoPhantomCalls
<1>1. McpInit => NoPhantomCalls
  BY DEF McpInit, NoPhantomCalls
<1>2. McpInv /\ McpInv' /\ NoPhantomCalls /\ [McpNext]_mcpVars => NoPhantomCalls'
  BY NoPhantomStep
<1> QED BY <1>1, <1>2, McpInductive, PTL DEF McpSpec
=============================================================================
