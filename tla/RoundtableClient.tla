-------------------------- MODULE RoundtableClient --------------------------
(***************************************************************************)
(* Class RoundtableClient of packages/roundtable/broker/client.ts: a       *)
(* socket to the broker, its registration, and the requests that wait for  *)
(* an answer.  A client object is used for one connection (connect() is    *)
(* called once on it everywhere in the package).                           *)
(*                                                                         *)
(* The broker is the environment: it may answer, stay silent, or close.    *)
(* A step is one event of the event loop with the jobs it makes runnable,  *)
(* so "connect" and the register that connect() then writes are one step.  *)
(* What is in a message, and the answers nobody waits for any more, are    *)
(* left out: dispatch drops the latter without a trace.                    *)
(***************************************************************************)
EXTENDS FiniteSets

CONSTANTS
  Clients,    \* client objects, each created with new RoundtableClient
  NoClient,
  Requests    \* request ids

ASSUME NoClientAssumption == NoClient \notin Clients

VARIABLES
  sock,       \* sock[k]: the socket's own state
  held,       \* held[k]: this.socket # null
  sess,       \* sess[k]: this.sessionId # null
  regTimer,   \* regTimer[k]: the registration timer is set
  dial,       \* dial[k]: where connect() is
  req         \* req[q]: [at, on] the request and the client it was made on

clientVars == <<sock, held, sess, regTimer, dial, req>>

\* get connected()
Connected(k) == held[k] /\ sess[k]

ClientInit ==
  /\ sock = [k \in Clients |-> "none"]
  /\ held = [k \in Clients |-> FALSE]
  /\ sess = [k \in Clients |-> FALSE]
  /\ regTimer = [k \in Clients |-> FALSE]
  /\ dial = [k \in Clients |-> "idle"]
  /\ req = [q \in Requests |-> [at |-> "new", on |-> NoClient]]

\* failAllPending: every request waiting on k is rejected.
FailAllPending(k) ==
  req' = [q \in Requests |->
            IF req[q].at = "pending" /\ req[q].on = k
              THEN [req[q] EXCEPT !.at = "failed"] ELSE req[q]]

-----------------------------------------------------------------------------
\* connect(), up to its first await.
Connect(k) ==
  /\ sock[k] = "none"
  /\ sock' = [sock EXCEPT ![k] = "dialing"]
  /\ held' = [held EXCEPT ![k] = TRUE]
  /\ regTimer' = [regTimer EXCEPT ![k] = TRUE]
  /\ dial' = [dial EXCEPT ![k] = "dialing"]
  /\ UNCHANGED <<sess, req>>

\* The socket's "connect": register is written.
DialUp(k) ==
  /\ sock[k] = "dialing"
  /\ sock' = [sock EXCEPT ![k] = "up"]
  /\ dial' = [dial EXCEPT ![k] = "registering"]
  /\ UNCHANGED <<held, sess, regTimer, req>>

\* What connect() does when the promise `registered` is rejected: it notices
\* only once it awaits it.
Refused(k) == [dial EXCEPT ![k] = IF @ = "registering" THEN "failed" ELSE @]

\* The socket's "error", before or after it was connected.  "close" follows.
SocketError(k) ==
  /\ sock[k] \in {"dialing", "up"}
  /\ sock' = [sock EXCEPT ![k] = "destroyed"]
  /\ regTimer' = [regTimer EXCEPT ![k] = FALSE]
  /\ dial' = IF dial[k] = "dialing" THEN [dial EXCEPT ![k] = "failed"] ELSE Refused(k)
  /\ FailAllPending(k)
  /\ UNCHANGED <<held, sess>>

\* The reader's onError: a malformed frame.
BadFrame(k) ==
  /\ sock[k] = "up"
  /\ sock' = [sock EXCEPT ![k] = "destroyed"]
  /\ regTimer' = [regTimer EXCEPT ![k] = FALSE]
  /\ dial' = Refused(k)
  /\ UNCHANGED <<held, sess, req>>

\* The broker's "registered".
Registered(k) ==
  /\ sock[k] = "up" /\ dial[k] = "registering" /\ ~sess[k]
  /\ sess' = [sess EXCEPT ![k] = TRUE]
  /\ regTimer' = [regTimer EXCEPT ![k] = FALSE]
  /\ dial' = [dial EXCEPT ![k] = "ok"]
  /\ UNCHANGED <<sock, held, req>>

\* The registration timer fires: reject, and destroy the socket.
RegTimeout(k) ==
  /\ regTimer[k]
  /\ regTimer' = [regTimer EXCEPT ![k] = FALSE]
  /\ sock' = [sock EXCEPT ![k] = IF @ \in {"dialing", "up"} THEN "destroyed" ELSE @]
  /\ dial' = Refused(k)
  /\ UNCHANGED <<held, sess, req>>

\* A variant that leaves the waiting requests to their timers.
CloseForgetsPending(k) ==
  /\ sock[k] \in {"up", "destroyed"}
  /\ sock' = [sock EXCEPT ![k] = "closed"]
  /\ held' = [held EXCEPT ![k] = FALSE]
  /\ sess' = [sess EXCEPT ![k] = FALSE]
  /\ UNCHANGED <<regTimer, dial, req>>

\* A variant that also clears the registration timer.
CloseClearsTimer(k) ==
  /\ sock[k] \in {"up", "destroyed"}
  /\ sock' = [sock EXCEPT ![k] = "closed"]
  /\ held' = [held EXCEPT ![k] = FALSE]
  /\ sess' = [sess EXCEPT ![k] = FALSE]
  /\ regTimer' = [regTimer EXCEPT ![k] = FALSE]
  /\ FailAllPending(k)
  /\ UNCHANGED dial

\* The socket's "close": after the broker hung up, or after destroy().  It
\* leaves the registration timer, and so the promise, alone.
Close(k) ==
  /\ sock[k] \in {"up", "destroyed"}
  /\ sock' = [sock EXCEPT ![k] = "closed"]
  /\ held' = [held EXCEPT ![k] = FALSE]
  /\ sess' = [sess EXCEPT ![k] = FALSE]
  /\ FailAllPending(k)
  /\ UNCHANGED <<regTimer, dial>>

\* disconnect(): destroy the socket and forget it.
Disconnect(k) ==
  /\ sock' = [sock EXCEPT ![k] = IF held[k] /\ @ \in {"dialing", "up"} THEN "destroyed" ELSE @]
  /\ held' = [held EXCEPT ![k] = FALSE]
  /\ sess' = [sess EXCEPT ![k] = FALSE]
  /\ UNCHANGED <<regTimer, dial, req>>

-----------------------------------------------------------------------------
\* request(): set the timer, note the request, write it.  Without a socket
\* the write throws and the request is rejected at once.
Request(q, k) ==
  /\ req[q].at = "new" /\ dial[k] = "ok"
  /\ req' = [req EXCEPT ![q] = [at |-> IF held[k] THEN "pending" ELSE "failed", on |-> k]]
  /\ UNCHANGED <<sock, held, sess, regTimer, dial>>

\* dispatch: an answer, or an error, for a request that waits.
Answer(q) ==
  /\ req[q].at = "pending" /\ sock[req[q].on] = "up"
  /\ \E outcome \in {"answered", "failed"} : req' = [req EXCEPT ![q].at = outcome]
  /\ UNCHANGED <<sock, held, sess, regTimer, dial>>

\* REQUEST_TIMEOUT_MS passed.
RequestTimeout(q) ==
  /\ req[q].at = "pending"
  /\ req' = [req EXCEPT ![q].at = "failed"]
  /\ UNCHANGED <<sock, held, sess, regTimer, dial>>

-----------------------------------------------------------------------------
ClientTypeOK ==
  /\ sock \in [Clients -> {"none", "dialing", "up", "destroyed", "closed"}]
  /\ held \in [Clients -> BOOLEAN]
  /\ sess \in [Clients -> BOOLEAN]
  /\ regTimer \in [Clients -> BOOLEAN]
  /\ dial \in [Clients -> {"idle", "dialing", "registering", "ok", "failed"}]
  /\ req \in [Requests -> [at : {"new", "pending", "answered", "failed"},
                           on : Clients \cup {NoClient}]]

\* Nothing waits for a connection that is gone, and a client that calls itself
\* connected has a socket whose "close" is still to come: together they mean
\* that a tool call made on a connected client hears of its loss, and not only
\* from the ten-second timer (the close handler, request's write).
NothingWaitsOnClosed ==
  /\ \A q \in Requests : req[q].at = "pending" => sock[req[q].on] \in {"up", "destroyed"}
  /\ \A k \in Clients : Connected(k) => sock[k] \in {"up", "destroyed"}
=============================================================================
