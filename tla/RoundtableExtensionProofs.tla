--------------------- MODULE RoundtableExtensionProofs ----------------------
(***************************************************************************)
(* Proofs about the extension instance and its clients, for any number of  *)
(* clients, requests and rooms.                                            *)
(***************************************************************************)
EXTENDS RoundtableExtension, TLAPS

-----------------------------------------------------------------------------
\* The inductive invariant.

\* A client's fields go together: this.socket is kept until "close" or
\* disconnect(), and the session of a registered client with an open socket.
ClientShape ==
  /\ \A k \in Clients :
       /\ held[k] => sock[k] \in {"dialing", "up", "destroyed"}
       /\ sock[k] \in {"dialing", "up"} => held[k]
       /\ sess[k] => dial[k] = "ok"
       /\ dial[k] = "ok" => sock[k] \in {"up", "destroyed", "closed"}
       /\ dial[k] = "ok" /\ sock[k] = "up" => sess[k]
  /\ \A q \in Requests : req[q].at = "pending" => req[q].on \in Clients

\* At most one body of ensureConnected is under way, and none of the clients
\* that were in the rooms before it is there any more.
InFlight(k) == flight[k] \in {"broker", "connect"}
FlightShape ==
  /\ \A k \in hears : dial[k] = "ok"
  /\ \A k \in Clients : InFlight(k) => connecting
  /\ \A j, k \in Clients : InFlight(j) /\ InFlight(k) => j = k
  /\ connecting => \A k \in hears : sock[k] # "up"

ExtInv ==
  ExtTypeOK /\ ClientShape /\ FlightShape /\ NothingWaitsOnClosed /\ OneVoice /\ QuiescedIsMute

-----------------------------------------------------------------------------
\* The clients by themselves.

SockInv == ClientTypeOK /\ ClientShape /\ NothingWaitsOnClosed

RequestRecord == [at : {"new", "pending", "answered", "failed"}, on : Clients \cup {NoClient}]

\* FailAllPending leaves no request waiting on its client, and the others alone.
LEMMA FailAllPendingFails ==
  ASSUME ClientTypeOK, NEW k \in Clients, FailAllPending(k)
  PROVE  /\ req' \in [Requests -> RequestRecord]
         /\ \A q \in Requests : req'[q].at = "pending" => req'[q] = req[q] /\ req[q].on # k
<1>1. req \in [Requests -> RequestRecord]
  BY DEF ClientTypeOK, RequestRecord
<1>2. ASSUME NEW q \in Requests
      PROVE  /\ [req[q] EXCEPT !.at = "failed"] \in RequestRecord
             /\ [req[q] EXCEPT !.at = "failed"].at = "failed"
  BY <1>1 DEF RequestRecord
<1> QED BY <1>1, <1>2 DEF FailAllPending

\* Whatever happens on a socket, its client's fields go together.
LEMMA SocketStepSafe ==
  ASSUME SockInv, NEW k \in Clients,
         \/ DialUp(k) \/ SocketError(k) \/ BadFrame(k)
         \/ Registered(k) \/ RegTimeout(k) \/ Close(k)
  PROVE  SockInv'
<1> USE DEF SockInv
<1>1. CASE DialUp(k)
  BY <1>1 DEF DialUp, ClientTypeOK, ClientShape, NothingWaitsOnClosed, Connected
<1>2. CASE SocketError(k)
  <2>1. /\ req' \in [Requests -> RequestRecord]
        /\ \A q \in Requests : req'[q].at = "pending" => req'[q] = req[q] /\ req[q].on # k
    BY <1>2, FailAllPendingFails DEF SocketError
  <2>2. ClientTypeOK'
    BY <1>2, <2>1 DEF SocketError, Refused, ClientTypeOK, RequestRecord
  <2>3. ClientShape'
    BY <1>2, <2>1 DEF SocketError, Refused, ClientTypeOK, ClientShape
  <2>4. NothingWaitsOnClosed'
    BY <1>2, <2>1 DEF SocketError, ClientTypeOK, ClientShape, NothingWaitsOnClosed, Connected
  <2> QED BY <2>2, <2>3, <2>4
<1>3. CASE BadFrame(k)
  BY <1>3 DEF BadFrame, Refused, ClientTypeOK, ClientShape, NothingWaitsOnClosed, Connected
<1>4. CASE Registered(k)
  BY <1>4 DEF Registered, ClientTypeOK, ClientShape, NothingWaitsOnClosed, Connected
<1>5. CASE RegTimeout(k)
  BY <1>5 DEF RegTimeout, Refused, ClientTypeOK, ClientShape, NothingWaitsOnClosed, Connected
<1>6. CASE Close(k)
  <2>1. /\ req' \in [Requests -> RequestRecord]
        /\ \A q \in Requests : req'[q].at = "pending" => req'[q] = req[q] /\ req[q].on # k
    BY <1>6, FailAllPendingFails DEF Close
  <2>2. ClientTypeOK'
    BY <1>6, <2>1 DEF Close, ClientTypeOK, RequestRecord
  <2>3. ClientShape'
    BY <1>6, <2>1 DEF Close, ClientTypeOK, ClientShape
  <2>4. NothingWaitsOnClosed'
    BY <1>6, <2>1 DEF Close, ClientTypeOK, ClientShape, NothingWaitsOnClosed, Connected
  <2> QED BY <2>2, <2>3, <2>4
<1> QED BY <1>1, <1>2, <1>3, <1>4, <1>5, <1>6

\* connect() and disconnect().
LEMMA ConnectSafe == ASSUME SockInv, NEW k \in Clients, Connect(k) PROVE SockInv'
BY DEF SockInv, Connect, ClientTypeOK, ClientShape, NothingWaitsOnClosed, Connected

LEMMA DisconnectSafe == ASSUME SockInv, NEW k \in Clients, Disconnect(k) PROVE SockInv'
BY DEF SockInv, Disconnect, ClientTypeOK, ClientShape, NothingWaitsOnClosed, Connected

\* A request waits only on a socket whose "close" is still to come.
LEMMA RequestStepSafe ==
  ASSUME SockInv, NEW q \in Requests,
         (\E k \in Clients : Request(q, k)) \/ Answer(q) \/ RequestTimeout(q)
  PROVE  SockInv'
<1> USE DEF SockInv
<1>1. req \in [Requests -> RequestRecord]
  BY DEF ClientTypeOK, RequestRecord
<1>2. ASSUME NEW k \in Clients, Request(q, k) PROVE SockInv'
  <2>1. PICK where \in {"pending", "failed"} :
          /\ req' = [req EXCEPT ![q] = [at |-> where, on |-> k]]
          /\ where = "pending" => held[k]
    BY <1>2 DEF Request, ClientTypeOK
  <2>2. [at |-> where, on |-> k] \in RequestRecord
    BY DEF RequestRecord
  <2>3. /\ req' \in [Requests -> RequestRecord]
        /\ \A p \in Requests : req'[p].at = "pending" =>
             req'[p] = req[p] \/ (req'[p].on = k /\ held[k])
    BY <1>1, <2>1, <2>2
  <2> QED BY <1>2, <2>3
          DEF Request, ClientTypeOK, ClientShape, NothingWaitsOnClosed, Connected, RequestRecord
<1>3. CASE Answer(q) \/ RequestTimeout(q)
  <2>1. PICK outcome \in {"answered", "failed"} : req' = [req EXCEPT ![q].at = outcome]
    BY <1>3 DEF Answer, RequestTimeout
  <2>2. [req[q] EXCEPT !.at = outcome] \in RequestRecord
        /\ [req[q] EXCEPT !.at = outcome].at = outcome
    BY <1>1 DEF RequestRecord
  <2>3. /\ req' \in [Requests -> RequestRecord]
        /\ \A p \in Requests : req'[p].at = "pending" => req'[p] = req[p]
    BY <1>1, <2>1, <2>2
  <2> QED BY <1>3, <2>3 DEF Answer, RequestTimeout, ClientTypeOK, ClientShape,
                            NothingWaitsOnClosed, Connected, RequestRecord
<1> QED BY <1>2, <1>3

\* A socket that is up stays the one it was, and only a dialing one comes up.
LEMMA SocketsComeUpOnce ==
  ASSUME SockInv, NEW k \in Clients,
         \/ DialUp(k) \/ SocketError(k) \/ BadFrame(k)
         \/ Registered(k) \/ RegTimeout(k) \/ Close(k) \/ Connect(k) \/ Disconnect(k)
  PROVE  \A c \in Clients : dial[c] = "ok" =>
           dial'[c] = "ok" /\ (sock'[c] = "up" => sock[c] = "up")
BY DEF SockInv, DialUp, SocketError, BadFrame, Registered, RegTimeout, Close, Connect,
       Disconnect, Refused, ClientTypeOK, ClientShape

LEMMA IdleSafe == ASSUME SockInv, UNCHANGED clientVars PROVE SockInv'
BY DEF SockInv, clientVars, ClientTypeOK, ClientShape, NothingWaitsOnClosed, Connected

-----------------------------------------------------------------------------
\* The instance.

InstanceTypeOK ==
  /\ client \in Clients \cup {NoClient}
  /\ flight \in [Clients -> {"no", "broker", "connect", "over"}]
  /\ connecting \in BOOLEAN
  /\ hears \subseteq Clients
  /\ pending \subseteq Rooms
  /\ timer \in BOOLEAN
  /\ quiesced \in BOOLEAN
  /\ stale \in BOOLEAN

LEMMA ExtInvParts ==
  /\ ExtInv <=> SockInv /\ InstanceTypeOK /\ FlightShape /\ OneVoice /\ QuiescedIsMute
  /\ ExtInv' <=> SockInv' /\ InstanceTypeOK' /\ FlightShape' /\ OneVoice' /\ QuiescedIsMute'
BY DEF ExtInv, SockInv, ExtTypeOK, InstanceTypeOK

LEMMA InitInv == ExtInit => ExtInv
<1> SUFFICES ASSUME ExtInit PROVE ExtInv
  OBVIOUS
<1>1. SockInv
  BY DEF ExtInit, ClientInit, SockInv, ClientTypeOK, ClientShape, NothingWaitsOnClosed, Connected
<1>2. InstanceTypeOK /\ FlightShape /\ OneVoice /\ QuiescedIsMute
  BY DEF ExtInit, InstanceTypeOK, FlightShape, InFlight, OneVoice, QuiescedIsMute
<1> QED BY <1>1, <1>2, ExtInvParts

\* The body starts only when no client of the instance can hear activity.
LEMMA NobodyHears ==
  ASSUME ExtInv, NeedsClient
  PROVE  \A k \in hears : sock[k] # "up"
BY NoClientAssumption
   DEF ExtInv, ExtTypeOK, ClientShape, FlightShape, OneVoice, NeedsClient, Connected

\* quiesce() closes the one client that may be in the rooms.
LEMMA QuiesceSafe ==
  ASSUME ExtInv, Quiesce, UNCHANGED <<flight, connecting, hears, stale>>
  PROVE  ExtInv'
<1> USE ExtInvParts
<1>1. SockInv'
  BY DisconnectSafe, IdleSafe DEF Quiesce, InstanceTypeOK
<1>2. InstanceTypeOK' /\ QuiescedIsMute'
  BY DEF Quiesce, InstanceTypeOK, QuiescedIsMute
<1>3. /\ \A k \in Clients : sock'[k] = "up" => sock[k] = "up" /\ k # client
      /\ dial' = dial
  BY NoClientAssumption
     DEF Quiesce, Disconnect, SockInv, ClientTypeOK, ClientShape, InstanceTypeOK, clientVars
<1>4. FlightShape' /\ OneVoice'
  BY <1>3 DEF FlightShape, InFlight, OneVoice, InstanceTypeOK
<1> QED BY <1>1, <1>2, <1>4

LEMMA StepInv == ExtInv /\ [ExtNext]_vars => ExtInv'
<1> SUFFICES ASSUME ExtInv, [ExtNext]_vars PROVE ExtInv'
  OBVIOUS
<1> USE ExtInvParts
<1> USE DEF InstanceTypeOK
<1>1. ASSUME NEW k \in Clients, EnsureConnected(k) PROVE ExtInv'
  <2>1. \A c \in hears : sock[c] # "up"
    BY <1>1, NobodyHears DEF EnsureConnected
  <2> QED BY <1>1, <2>1, IdleSafe
          DEF EnsureConnected, NeedsClient, FlightShape, InFlight, OneVoice, QuiescedIsMute, clientVars
<1>2. ASSUME NEW k \in Clients, BrokerReady(k) PROVE ExtInv'
  <2>1. \A c \in Clients : dial[c] = "ok" =>
          dial'[c] = "ok" /\ (sock'[c] = "up" => sock[c] = "up")
    BY <1>2, SocketsComeUpOnce DEF BrokerReady
  <2>2. SockInv' /\ InstanceTypeOK'
    BY <1>2, ConnectSafe DEF BrokerReady
  <2>3. FlightShape' /\ OneVoice'
    BY <1>2, <2>1 DEF BrokerReady, FlightShape, InFlight, OneVoice
  <2> QED BY <1>2, <2>2, <2>3 DEF BrokerReady, QuiescedIsMute
<1>3. ASSUME NEW k \in Clients, BrokerFailed(k) \/ ConnectFailed(k) PROVE ExtInv'
  BY <1>3, IdleSafe DEF BrokerFailed, ConnectFailed, Landed, FlightShape, InFlight, OneVoice,
                        QuiescedIsMute, clientVars
<1>4. ASSUME NEW k \in Clients, ConnectDone(k) PROVE ExtInv'
  <2>1. InFlight(k) /\ \A c \in hears : sock[c] # "up"
    BY <1>4 DEF ConnectDone, FlightShape, InFlight
  <2>2. CASE quiesced
    <3>1. \A c \in Clients : dial[c] = "ok" =>
            dial'[c] = "ok" /\ (sock'[c] = "up" => sock[c] = "up")
      BY <1>4, <2>2, SocketsComeUpOnce DEF ConnectDone
    <3>2. SockInv' /\ InstanceTypeOK'
      BY <1>4, <2>2, DisconnectSafe DEF ConnectDone, Landed
    <3>3. FlightShape' /\ OneVoice'
      BY <1>4, <2>1, <2>2, <3>1 DEF ConnectDone, Landed, FlightShape, InFlight, OneVoice
    <3> QED BY <1>4, <2>2, <3>2, <3>3 DEF ConnectDone, QuiescedIsMute
  <2>3. CASE ~quiesced
    BY <1>4, <2>1, <2>3, IdleSafe
       DEF ConnectDone, Landed, FlightShape, InFlight, OneVoice, QuiescedIsMute, clientVars
  <2> QED BY <2>2, <2>3
<1>5. ASSUME NEW k \in Clients, NEW r \in Rooms, NEW churn \in BOOLEAN, Activity(k, r, churn)
      PROVE  ExtInv'
  BY <1>5, IdleSafe DEF Activity, FlightShape, InFlight, OneVoice, QuiescedIsMute, clientVars
<1>6. ASSUME NEW k \in Clients, SocketStep(k) PROVE ExtInv'
  <2>1. \A c \in Clients : dial[c] = "ok" =>
          dial'[c] = "ok" /\ (sock'[c] = "up" => sock[c] = "up")
    BY <1>6, SocketsComeUpOnce DEF SocketStep
  <2>2. SockInv' /\ UNCHANGED extVars
    BY <1>6, SocketStepSafe DEF SocketStep
  <2> QED BY <2>1, <2>2 DEF extVars, FlightShape, InFlight, OneVoice, QuiescedIsMute
<1>7. ASSUME NEW q \in Requests, RequestStep(q) PROVE ExtInv'
  <2>1. SockInv' /\ UNCHANGED extVars
    BY <1>7, RequestStepSafe DEF RequestStep
  <2>2. UNCHANGED <<sock, dial>>
    BY <1>7 DEF RequestStep, Request, Answer, RequestTimeout
  <2> QED BY <2>1, <2>2 DEF extVars, FlightShape, InFlight, OneVoice, QuiescedIsMute
<1>8. CASE Flush
  <2>1. CASE pending # {} /\ stale
    BY <1>8, <2>1, QuiesceSafe DEF Flush
  <2>2. CASE ~(pending # {} /\ stale)
    BY <1>8, <2>2, IdleSafe DEF Flush, FlightShape, InFlight, OneVoice, QuiescedIsMute, clientVars
  <2> QED BY <2>1, <2>2
<1>9. CASE SessionShutdown
  BY <1>9, QuiesceSafe DEF SessionShutdown
<1>10. CASE SessionReplaced
  BY <1>10, IdleSafe
     DEF SessionReplaced, FlightShape, InFlight, OneVoice, QuiescedIsMute, clientVars
<1>11. CASE UNCHANGED vars
  BY <1>11, IdleSafe
     DEF vars, clientVars, extVars, FlightShape, InFlight, OneVoice, QuiescedIsMute
<1> QED
  BY <1>1, <1>2, <1>3, <1>4, <1>5, <1>6, <1>7, <1>8, <1>9, <1>10, <1>11 DEF ExtNext

-----------------------------------------------------------------------------
LEMMA ExtAlwaysInv == ExtSpec => []ExtInv
BY InitInv, StepInv, PTL DEF ExtSpec

\* Every field of the instance and of its clients keeps its range, whatever
\* tool calls, broker events, timers and host events interleave (index.ts,
\* client.ts).
THEOREM ExtTypeCorrect == ExtSpec => []ExtTypeOK
<1>1. ExtInv => ExtTypeOK
  BY DEF ExtInv
<1> QED BY <1>1, ExtAlwaysInv, PTL

\* A request waits only on a socket whose "close" is still to come, and so does
\* a client that calls itself connected, for any number of clients and requests
\* (the close handler, request's write in client.ts).
THEOREM NothingIsLeftWaiting == ExtSpec => []NothingWaitsOnClosed
<1>1. ExtInv => NothingWaitsOnClosed
  BY DEF ExtInv
<1> QED BY <1>1, ExtAlwaysInv, PTL

\* However many tool calls need a client at once and whenever they resume, only
\* the client the instance knows of can hear activity (ensureConnected).
THEOREM SpeaksWithOneVoice == ExtSpec => []OneVoice
<1>1. ExtInv => OneVoice
  BY DEF ExtInv
<1> QED BY <1>1, ExtAlwaysInv, PTL

\* Nothing that was under way when quiesce() ran brings back a client, a timer
\* or pending activity (quiesce, ensureConnected, the activity listener).
THEOREM QuiescedForGood == ExtSpec => []QuiescedIsMute
<1>1. ExtInv => QuiescedIsMute
  BY DEF ExtInv
<1> QED BY <1>1, ExtAlwaysInv, PTL
=============================================================================
