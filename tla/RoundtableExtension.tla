------------------------- MODULE RoundtableExtension -------------------------
(***************************************************************************)
(* One instance of the roundtable extension (packages/roundtable/index.ts):*)
(* it connects a RoundtableClient when a tool first needs one, collects    *)
(* the activity that client hears of into one ping per quiet period, and   *)
(* goes quiet for good when its session ends or is replaced.               *)
(*                                                                         *)
(* Tool calls, broker events, timers and the host's session_shutdown may   *)
(* come in any order, also between the awaits of ensureConnected.  Of the  *)
(* pending activity only the rooms are kept, not their counts and authors. *)
(***************************************************************************)
EXTENDS RoundtableClient

CONSTANT Rooms   \* rooms the instance hears of

VARIABLES
  client,     \* the current client
  flight,     \* flight[k]: the ensureConnected body that creates client k
  connecting, \* the promise connecting # null
  hears,      \* clients with an activity listener
  pending,    \* keys of pendingActivity
  timer,      \* notifyTimer # null
  quiesced,
  stale       \* the host replaced the session: pi.sendMessage throws

extVars == <<client, flight, connecting, hears, pending, timer, quiesced, stale>>
vars == <<clientVars, extVars>>

ExtInit ==
  /\ ClientInit
  /\ client = NoClient
  /\ flight = [k \in Clients |-> "no"]
  /\ connecting = FALSE
  /\ hears = {}
  /\ pending = {}
  /\ timer = FALSE
  /\ quiesced = FALSE
  /\ stale = FALSE

-----------------------------------------------------------------------------
\* ensureConnected of a call that finds no connected client and nobody
\* connecting: its body runs up to ensureBrokerRunning.
NeedsClient == ~quiesced /\ ~(client # NoClient /\ Connected(client))

\* A variant that does not wait for a connect that is under way.
EnsureConnectedTwice(k) ==
  /\ NeedsClient
  /\ flight[k] = "no" /\ sock[k] = "none"
  /\ flight' = [flight EXCEPT ![k] = "broker"]
  /\ connecting' = TRUE
  /\ UNCHANGED <<clientVars, client, hears, pending, timer, quiesced, stale>>

EnsureConnected(k) ==
  /\ NeedsClient /\ ~connecting
  /\ flight[k] = "no" /\ sock[k] = "none"
  /\ flight' = [flight EXCEPT ![k] = "broker"]
  /\ connecting' = TRUE
  /\ UNCHANGED <<clientVars, client, hears, pending, timer, quiesced, stale>>

\* The body is over: finally { connecting = null }.
Landed(k) == flight' = [flight EXCEPT ![k] = "over"] /\ connecting' = FALSE

\* ensureBrokerRunning returned: connect; or it failed.
BrokerReady(k) ==
  /\ flight[k] = "broker"
  /\ Connect(k)
  /\ flight' = [flight EXCEPT ![k] = "connect"]
  /\ UNCHANGED <<client, connecting, hears, pending, timer, quiesced, stale>>
BrokerFailed(k) ==
  /\ flight[k] = "broker"
  /\ Landed(k)
  /\ UNCHANGED <<clientVars, client, hears, pending, timer, quiesced, stale>>

\* A variant that does not look at quiesced when the connect completes.
ConnectDoneRegardless(k) ==
  /\ flight[k] = "connect" /\ dial[k] = "ok"
  /\ Landed(k)
  /\ hears' = hears \cup {k} /\ client' = k
  /\ UNCHANGED <<clientVars, pending, timer, quiesced, stale>>

\* connect() resolved: keep the client, or drop it if quiesce() ran meanwhile.
ConnectDone(k) ==
  /\ flight[k] = "connect" /\ dial[k] = "ok"
  /\ Landed(k)
  /\ IF quiesced
       THEN Disconnect(k) /\ UNCHANGED <<hears, client>>
       ELSE hears' = hears \cup {k} /\ client' = k /\ UNCHANGED clientVars
  /\ UNCHANGED <<pending, timer, quiesced, stale>>
ConnectFailed(k) ==
  /\ flight[k] = "connect" /\ dial[k] = "failed"
  /\ Landed(k)
  /\ UNCHANGED <<clientVars, client, hears, pending, timer, quiesced, stale>>

\* The activity listener.  Membership churn (seq 0) is not content.
Activity(k, r, churn) ==
  /\ k \in hears /\ sock[k] = "up"
  /\ IF quiesced \/ churn
       THEN UNCHANGED <<pending, timer>>
       ELSE pending' = pending \cup {r} /\ timer' = TRUE
  /\ UNCHANGED <<clientVars, client, flight, connecting, hears, quiesced, stale>>

\* quiesce().
Quiesce ==
  /\ quiesced' = TRUE
  /\ timer' = FALSE
  /\ pending' = {}
  /\ client' = NoClient
  /\ IF client # NoClient THEN Disconnect(client) ELSE UNCHANGED clientVars

\* A variant that swallows the refusal and keeps what it could not deliver.
FlushKeeps ==
  /\ timer /\ timer' = FALSE
  /\ pending' = IF stale THEN pending ELSE {}
  /\ UNCHANGED <<clientVars, client, flight, connecting, hears, quiesced, stale>>

\* flushActivity, from the timer.  A host that refuses the ping is a host that
\* replaced this session.
Flush ==
  /\ timer
  /\ IF pending # {} /\ stale
       THEN Quiesce
       ELSE timer' = FALSE /\ pending' = {} /\ UNCHANGED <<clientVars, client, quiesced>>
  /\ UNCHANGED <<flight, connecting, hears, stale>>

\* session_shutdown.
SessionShutdown ==
  /\ ~quiesced
  /\ Quiesce
  /\ UNCHANGED <<flight, connecting, hears, stale>>

\* The host replaces the session without telling the extension.
SessionReplaced ==
  /\ ~stale
  /\ stale' = TRUE
  /\ UNCHANGED <<clientVars, client, flight, connecting, hears, pending, timer, quiesced>>

\* What happens on the sockets, and to the requests of tool calls.
SocketStep(k) ==
  /\ DialUp(k) \/ SocketError(k) \/ BadFrame(k) \/ Registered(k) \/ RegTimeout(k) \/ Close(k)
  /\ UNCHANGED extVars
RequestStep(q) ==
  /\ (\E k \in hears : Request(q, k)) \/ Answer(q) \/ RequestTimeout(q)
  /\ UNCHANGED extVars

-----------------------------------------------------------------------------
ExtNext ==
  \/ \E k \in Clients :
       \/ EnsureConnected(k) \/ BrokerReady(k) \/ BrokerFailed(k)
       \/ ConnectDone(k) \/ ConnectFailed(k)
       \/ \E r \in Rooms, churn \in BOOLEAN : Activity(k, r, churn)
       \/ SocketStep(k)
  \/ \E q \in Requests : RequestStep(q)
  \/ Flush
  \/ SessionShutdown
  \/ SessionReplaced

ExtSpec == ExtInit /\ [][ExtNext]_vars

\* Timers fire, awaits that can resume do, the broker is found or not, opening
\* the socket succeeds or fails, and "close" follows destroy().  The broker's
\* answers are not promised.
ExtFairness ==
  /\ WF_vars(Flush)
  /\ \A k \in Clients :
       /\ WF_vars(BrokerReady(k) \/ BrokerFailed(k))
       /\ WF_vars(ConnectDone(k) \/ ConnectFailed(k))
       /\ WF_vars((DialUp(k) \/ SocketError(k)) /\ sock[k] = "dialing" /\ UNCHANGED extVars)
       /\ WF_vars(RegTimeout(k) /\ UNCHANGED extVars)
       /\ WF_vars(sock[k] = "destroyed" /\ Close(k) /\ UNCHANGED extVars)

ExtFairSpec == ExtSpec /\ ExtFairness

-----------------------------------------------------------------------------
ExtTypeOK ==
  /\ ClientTypeOK
  /\ client \in Clients \cup {NoClient}
  /\ flight \in [Clients -> {"no", "broker", "connect", "over"}]
  /\ connecting \in BOOLEAN
  /\ hears \subseteq Clients
  /\ pending \subseteq Rooms
  /\ timer \in BOOLEAN
  /\ quiesced \in BOOLEAN
  /\ stale \in BOOLEAN

\* One voice: at most one client of the instance is in the fleet's rooms, and
\* any that can still hear activity is the one the instance knows of, so that
\* two tool calls of one turn never leave an orphan that pings and that
\* quiesce() cannot reach (ensureConnected's guards).
OneVoice ==
  \A k \in Clients : k \in hears /\ sock[k] = "up" => k = client

\* Quiesced is for good: nothing is pending, no timer is set that could ping
\* and no client is kept, whatever was in flight when quiesce() ran.
QuiescedIsMute == quiesced => pending = {} /\ ~timer /\ client = NoClient

\* Activity that was noted is reported or the instance is dead: no order of
\* bursts, flushes and refused pings leaves it waiting without a timer.
ActivityIsReported == \A r \in Rooms : r \in pending ~> (r \notin pending \/ quiesced)

\* A quiesced instance leaves the rooms: every socket it opened gets closed,
\* one whose connect was in flight included.
QuiescedLeaves == quiesced ~> \A k \in Clients : sock[k] \in {"none", "closed"}

\* A connect that was begun ends, so that no later tool call waits on it for
\* ever: they all wait on the one promise `connecting`.  The one way it can
\* fail to end is a registration timer that fired while the socket was still
\* dialing (client.ts awaits only "connect" or "error", and destroy() emits
\* "close").  Once registering, no silence, close, bad frame or error of the
\* broker leaves connect() waiting.
ConnectEndsOnceDialed ==
  connecting ~> (~connecting \/ \E k \in Clients : dial[k] = "dialing" /\ ~regTimer[k])
=============================================================================
