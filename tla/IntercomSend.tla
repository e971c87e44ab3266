---------------------------- MODULE IntercomSend ----------------------------
(***************************************************************************)
(* Sends between the sessions of the intercom: IntercomClient with its     *)
(* PendingSendRegistry (packages/intercom/broker/client.ts,                *)
(* pending-send-registry.ts) on one side, IntercomBroker with              *)
(* handleBrokerSend and its DeliveredMessageCache (broker.ts,              *)
(* send-handler.ts, delivered-message-cache.ts) on the other, over a wire  *)
(* that keeps the order and may be cut at any time.                        *)
(*                                                                         *)
(* A connection has a client object and a session id of its own, so both   *)
(* are named by the connection.  The wire carries sends and their answers; *)
(* registration, presence and capability requests are steps of the broker, *)
(* which a client that sends nothing yet cannot tell from their answers.   *)
(* What list and the group broadcasts tell a client is left out: no state  *)
(* depends on it.  A session id prefix as a target is left out too.        *)
(* So are frames that no client of the package writes (malformed ones, a   *)
(* forged channel).                                                        *)
(*                                                                         *)
(* An attempt is numbered by its place in `attempts`, which stands for its *)
(* random attemptId.  asked, verdict, result, forwarded, copies and        *)
(* accepted are history for the properties.                                *)
(***************************************************************************)
EXTENDS SupervisorChannel

CONSTANTS
  Names,          \* session names
  NameAtStart,    \* the name each connection registers with
  NewNamesOf,     \* the names its presence updates may set
  GroupOf,        \* the normalized group of each connection
  TokenOf,        \* the owner token of its process
  NoCap, CapsOf,  \* the capability its registration may carry, or NoCap
  Sends,          \* [kind, id, to, body, replyTo]: what may be sent
  SendsOf,        \* SendsOf[c]: of these, what c's callers send
  NoReply,        \* replyTo === undefined
  MaxAttempts     \* a bound: sends made in all

ASSUME CapsAssumption ==
  /\ NoCap \notin Caps
  /\ CapsOf \in [Sessions -> SUBSET (Caps \cup {NoCap})]

\* A session id is a fresh UUID, and no session takes another's for its name.
ASSUME NamesAssumption ==
  /\ NameAtStart \in [Sessions -> Names]
  /\ NewNamesOf \in [Sessions -> SUBSET Names]
  /\ NoName \notin Names
  /\ Names \cap Sessions = {}

ASSUME SendsAssumption == SendsOf \in [Sessions -> SUBSET Sends]

VARIABLES
  client,        \* client[c]: the client's end: "unused", "up" or "gone"
  handler,       \* handler[c]: the broker's end; "named" is sessionId = c, and
                 \* then c is in the Map sessions (both change together)
  name,          \* name[c]: info.name
  supervisorOf,  \* supervisorOf[c]: supervisorId
  delivered,     \* the DeliveredMessageCache: entries [key : id, signature]
  toBroker, toClient,   \* the wire: attempts, and answers [attempt, ok]
  pending,       \* pending[c]: the attempts of c's registry
  known,         \* known[c]: ids with a generation in c's registry
  attempts,      \* [by, send, first, asked, verdict, result]
  legacy,        \* the broker is older than attemptId and answers without it
  forwarded,     \* [attempt, to]: messages written to a target
  copies,        \* copies[id]: of them, since the broker last forgot id
  accepted       \* [cap, sup, as]: claims made while cap was remembered

brokerVars == <<authorizations, crossings, delivered, handler, name, supervisorOf>>
wireVars == <<toBroker, toClient>>
registryVars == <<pending, known, attempts>>
historyVars == <<forwarded, copies, accepted>>
sendVars == <<brokerVars, wireVars, registryVars, historyVars, client, legacy>>

MessageIds == {s.id : s \in Sends}
sessions == {c \in Sessions : handler[c] = "named"}

SendInit ==
  /\ ChannelInit
  /\ client = [c \in Sessions |-> "unused"]
  /\ handler = [c \in Sessions |-> "none"]
  /\ name = NameAtStart
  /\ supervisorOf = [c \in Sessions |-> NoSession]
  /\ delivered = <<>>
  /\ toBroker = [c \in Sessions |-> <<>>]
  /\ toClient = [c \in Sessions |-> <<>>]
  /\ pending = [c \in Sessions |-> {}]
  /\ known = [c \in Sessions |-> {}]
  /\ attempts = <<>>
  /\ legacy \in BOOLEAN
  /\ forwarded = {}
  /\ copies = [id \in MessageIds |-> 0]
  /\ accepted = {}

-----------------------------------------------------------------------------
(* The registry of one client. *)

\* buildSendSignature: what must be the same in a retry.
Signature(s) == <<s.to, s.body, s.replyTo>>

\* The attempt of c that waits under this id, if any.
Waiting(c, id) == {a \in pending[c] : attempts[a].send.id = id}

\* resolve, reject: remove the attempt and settle its promise.
Settle(c, as, result) ==
  /\ pending' = [pending EXCEPT ![c] = @ \ as]
  /\ attempts' = [a \in DOMAIN attempts |->
                    IF a \in as THEN [attempts[a] EXCEPT !.result = result] ELSE attempts[a]]

\* A variant of resolveLegacy that takes any attempt under the id.
MatchesAnyLegacy(c, m) == Waiting(c, attempts[m.attempt].send.id)

\* resolve and resolveLegacy: the attempts an answer is for.
Matches(c, m) ==
  {a \in Waiting(c, attempts[m.attempt].send.id) :
     IF legacy THEN attempts[a].first ELSE a = m.attempt}

\* acquire for an id that is pending: the same payload joins the attempt, a
\* different one throws.
Coalesce(c, s) ==
  \E a \in Waiting(c, s.id) :
    /\ Signature(attempts[a].send) = Signature(s)
    /\ attempts' = [attempts EXCEPT ![a].asked = @ \cup {s}]

-----------------------------------------------------------------------------
(* The client. *)

\* sendFrame of an id that is not pending: a new attempt, and its frame.
Send(c, s) ==
  /\ client[c] = "up" /\ Waiting(c, s.id) = {}
  /\ Len(attempts) < MaxAttempts
  /\ attempts' = Append(attempts, [by |-> c, send |-> s, first |-> s.id \notin known[c],
                                   asked |-> {s}, verdict |-> "none", result |-> "pending"])
  /\ pending' = [pending EXCEPT ![c] = @ \cup {Len(attempts')}]
  /\ known' = [known EXCEPT ![c] = @ \cup {s.id}]
  /\ toBroker' = [toBroker EXCEPT ![c] = Append(@, Len(attempts'))]
  /\ UNCHANGED <<brokerVars, toClient, historyVars, client, legacy>>

SendAgain(c, s) ==
  /\ client[c] = "up"
  /\ Coalesce(c, s)
  /\ UNCHANGED <<brokerVars, wireVars, pending, known, historyVars, client, legacy>>

\* "delivered" or "delivery_failed"; nothing happens when nobody waits for it.
ReadAnswer(c) ==
  /\ client[c] = "up" /\ toClient[c] # <<>>
  /\ LET m == Head(toClient[c])
     IN  Settle(c, Matches(c, m), IF m.ok THEN "delivered" ELSE "failed")
  /\ toClient' = [toClient EXCEPT ![c] = Tail(@)]
  /\ UNCHANGED <<brokerVars, toBroker, known, historyVars, client, legacy>>

\* Ten seconds without an answer.
Timeout(c) ==
  /\ \E a \in pending[c] : Settle(c, {a}, "rejected")
  /\ UNCHANGED <<brokerVars, wireVars, known, historyVars, client, legacy>>

\* The generation of an id is forgotten ten minutes after it was last touched,
\* when whatever was on the wire for it has long arrived.
ForgetGeneration(c, id) ==
  /\ id \in known[c] /\ Waiting(c, id) = {}
  /\ \A i \in DOMAIN toClient[c] : attempts[toClient[c][i].attempt].send.id # id
  /\ \A i \in DOMAIN toBroker[c] : attempts[toBroker[c][i]].send.id # id
  /\ known' = [known EXCEPT ![c] = @ \ {id}]
  /\ UNCHANGED <<brokerVars, wireVars, pending, attempts, historyVars, client, legacy>>

\* The client's "close", whoever caused it, or disconnect(): no pending send
\* survives and no answer is awaited.  What was written may still be handled.
ClientClose(c) ==
  /\ client[c] = "up"
  /\ client' = [client EXCEPT ![c] = "gone"]
  /\ Settle(c, pending[c], "rejected")
  /\ toClient' = [toClient EXCEPT ![c] = <<>>]
  /\ known' = [known EXCEPT ![c] = {}]
  /\ UNCHANGED <<brokerVars, toBroker, historyVars, legacy>>

-----------------------------------------------------------------------------
(* The broker. *)

\* The head of c's frames, while the broker knows c.
Incoming(c, a) ==
  /\ handler[c] = "named"
  /\ toBroker[c] # <<>> /\ a = Head(toBroker[c])
  /\ toBroker' = [toBroker EXCEPT ![c] = Tail(@)]

Answer(c, a, ok) ==
  /\ toClient' = [toClient EXCEPT ![c] =
                    IF client[c] = "up" THEN Append(@, [attempt |-> a, ok |-> ok]) ELSE @]
  /\ attempts' = [attempts EXCEPT ![a].verdict =
                    IF attempts[a].result # "pending" THEN @
                    ELSE IF ok THEN "delivered" ELSE "failed"]

\* resolveSessionTarget: an exact id among all sessions, else the only session
\* of that name among those the sender may see.
Resolved(c, s) ==
  LET vertical   == s.kind = "supervisor_send" \/ s.replyTo # NoReply
      candidates == {d \in sessions : vertical \/ GroupOf[d] = GroupOf[c]}
      called     == {d \in candidates : name[d] = s.to}
  IN  IF s.to \in sessions THEN {s.to}
      ELSE IF Cardinality(called) = 1 THEN called ELSE {}

\* supervisor_send asks for the relationship of the sender's registration.
SupervisorAllowed(c, s) ==
  s.kind = "supervisor_send" => supervisorOf[c] # NoSession /\ s.to = supervisorOf[c]

\* Another session of the group, the supervisor, or the child that is answered.
Reachable(c, s, d) ==
  /\ d # c
  /\ \/ s.kind = "supervisor_send"
     \/ s.replyTo # NoReply /\ MatchReply(s.replyTo, c, d)
     \/ GroupOf[d] = GroupOf[c]

\* The target the message is written to, if any.
Routes(c, s) ==
  {d \in Resolved(c, s) : SupervisorAllowed(c, s) /\ Reachable(c, s, d)}

\* What the broker's maps leave out is forgotten.
Forgotten(ids) == copies' = [id \in MessageIds |-> IF id \in ids THEN copies[id] ELSE 0]

\* A variant that compares the id only.
AnswerFromCacheById(c) ==
  /\ \E a \in DOMAIN attempts :
       /\ Incoming(c, a) /\ attempts[a].send.id \in Keys(delivered)
       /\ Answer(c, a, TRUE)
  /\ UNCHANGED <<brokerVars, pending, known, historyVars, client, legacy>>

\* handleBrokerSend of an id that was delivered: confirmed if it is the same
\* message, refused if it is not.  This comes before any other check.
AnswerFromCache(c) ==
  /\ \E a \in DOMAIN attempts :
       LET s == attempts[a].send
       IN  /\ Incoming(c, a) /\ s.id \in Keys(delivered)
           /\ Answer(c, a, At(delivered, s.id).signature = Signature(s))
  /\ UNCHANGED <<brokerVars, pending, known, historyVars, client, legacy>>

\* A variant that forgets to answer.
RejectSilently(c) ==
  /\ \E a \in DOMAIN attempts :
       LET s == attempts[a].send
       IN  Incoming(c, a) /\ s.id \notin Keys(delivered) /\ Routes(c, s) = {}
  /\ UNCHANGED <<brokerVars, toClient, registryVars, historyVars, client, legacy>>

\* No relationship, no target, several, itself, or another group.
RejectSend(c) ==
  /\ \E a \in DOMAIN attempts :
       LET s == attempts[a].send
       IN  /\ Incoming(c, a) /\ s.id \notin Keys(delivered) /\ Routes(c, s) = {}
           /\ Answer(c, a, FALSE)
  /\ UNCHANGED <<brokerVars, pending, known, historyVars, client, legacy>>

\* A variant that does not note what it delivered.
ForwardUnrecorded(c) ==
  /\ \E a \in DOMAIN attempts :
       LET s == attempts[a].send
       IN  /\ Incoming(c, a) /\ s.id \notin Keys(delivered)
           /\ \E d \in Routes(c, s) : forwarded' = forwarded \cup {[attempt |-> a, to |-> d]}
           /\ copies' = [copies EXCEPT ![s.id] = @ + 1]
           /\ Answer(c, a, TRUE)
  /\ UNCHANGED <<brokerVars, pending, known, accepted, client, legacy>>

\* The message is written to the target, noted, and confirmed to the sender.
ForwardSend(c) ==
  /\ \E a \in DOMAIN attempts :
       LET s == attempts[a].send
       IN  /\ Incoming(c, a) /\ s.id \notin Keys(delivered)
           /\ \E d \in Routes(c, s) :
                /\ forwarded' = forwarded \cup {[attempt |-> a, to |-> d]}
                /\ crossings' = IF s.kind = "supervisor_send"
                                  THEN Crossed(s.id, c, d) ELSE crossings
           /\ delivered' = Put(delivered, [key |-> s.id, signature |-> Signature(s)], MaxEntries)
           /\ copies' = [id \in MessageIds |->
                           IF id = s.id THEN copies[id] + 1
                           ELSE IF id \in Keys(delivered') THEN copies[id] ELSE 0]
           /\ Answer(c, a, TRUE)
  /\ UNCHANGED <<authorizations, handler, name, supervisorOf, pending, known,
                 accepted, client, legacy>>

\* The oldest entry of a map outlived its time.
Expire ==
  /\ \/ /\ delivered # <<>> /\ delivered' = Tail(delivered)
        /\ Forgotten(Keys(delivered')) /\ UNCHANGED crossings
     \/ /\ crossings # <<>> /\ crossings' = Tail(crossings)
        /\ UNCHANGED <<delivered, copies>>
  /\ UNCHANGED <<authorizations, handler, name, supervisorOf, wireVars, registryVars,
                 forwarded, accepted, client, legacy>>

\* connect() and "register", without a supervisor.
Register(c) ==
  /\ client[c] = "unused" /\ NoCap \in CapsOf[c]
  /\ client' = [client EXCEPT ![c] = "up"]
  /\ handler' = [handler EXCEPT ![c] = "named"]
  /\ UNCHANGED <<authorizations, crossings, delivered, name, supervisorOf, wireVars,
                 registryVars, historyVars, legacy>>

\* connect() and "register" with a capability.  A claim binds the slot even if
\* the supervisor it leads to has left, and the registration fails for that.
RegisterChild(c, k) ==
  /\ client[c] = "unused"
  /\ LET ok == Claimable(k, name[c])
         in == ok /\ Supervisor(k) \in sessions
     IN  /\ IF ok THEN Bind(k, name[c]) ELSE UNCHANGED authorizations
         /\ client' = [client EXCEPT ![c] = IF in THEN "up" ELSE "gone"]
         /\ handler' = [handler EXCEPT ![c] = IF in THEN "named" ELSE "dead"]
         /\ supervisorOf' = [supervisorOf EXCEPT ![c] = IF in THEN Supervisor(k) ELSE @]
         /\ accepted' = IF in THEN accepted \cup {[cap |-> k, sup |-> Supervisor(k), as |-> name[c]]}
                              ELSE accepted
  /\ UNCHANGED <<crossings, delivered, name, wireVars, registryVars, forwarded, copies,
                 legacy>>

\* "authorize_supervisor" of the token's holder: a new capability, or one it
\* restores after it reconnected.
AuthorizeChild(c, k) ==
  /\ handler[c] = "named" /\ client[c] = "up" /\ TokenOf[c] = OwnerOf[k]
  /\ Authorize(c, k)
  /\ accepted' = {x \in accepted : x.cap \in Keys(authorizations')}
  /\ UNCHANGED <<crossings, delivered, handler, name, supervisorOf, wireVars, registryVars,
                 forwarded, copies, client, legacy>>

\* "presence" with a name.
Rename(c, n) ==
  /\ handler[c] = "named" /\ client[c] = "up"
  /\ name' = [name EXCEPT ![c] = n]
  /\ UNCHANGED <<authorizations, crossings, delivered, handler, supervisorOf, wireVars,
                 registryVars, historyVars, client, legacy>>

\* "unregister", or the "close" of the broker's socket: the session is removed.
\* Frames it did not read are lost.
HandlerClose(c) ==
  /\ client[c] = "gone" /\ handler[c] = "named"
  /\ handler' = [handler EXCEPT ![c] = "dead"]
  /\ toBroker' = [toBroker EXCEPT ![c] = <<>>]
  /\ UNCHANGED <<authorizations, crossings, delivered, name, supervisorOf, toClient,
                 registryVars, historyVars, client, legacy>>

\* The broker exits, idle, by a signal or by a crash, and with it what it
\* remembered; the next connection finds a new one (spawnBrokerIfNeeded).
BrokerStops ==
  /\ handler' = [c \in Sessions |-> IF handler[c] = "none" THEN "none" ELSE "dead"]
  /\ authorizations' = <<>> /\ crossings' = <<>> /\ delivered' = <<>>
  /\ toBroker' = [c \in Sessions |-> <<>>]
  /\ Forgotten({}) /\ accepted' = {}
  /\ UNCHANGED <<name, supervisorOf, toClient, registryVars, forwarded, client, legacy>>

-----------------------------------------------------------------------------
Next ==
  \/ \E c \in Sessions :
       \/ ReadAnswer(c) \/ Timeout(c) \/ ClientClose(c)
       \/ AnswerFromCache(c) \/ RejectSend(c) \/ ForwardSend(c)
       \/ Register(c) \/ HandlerClose(c)
       \/ \E k \in CapsOf[c] \ {NoCap} : RegisterChild(c, k)
       \/ \E s \in SendsOf[c] : Send(c, s) \/ SendAgain(c, s)
       \/ \E id \in MessageIds : ForgetGeneration(c, id)
       \/ \E k \in Caps : AuthorizeChild(c, k)
       \/ \E n \in NewNamesOf[c] : Rename(c, n)
  \/ Expire
  \/ BrokerStops

SendSpec == SendInit /\ [][Next]_sendVars

\* The broker handles what it reads, a client reads what it is sent, and a
\* socket the other end has closed is closed.  No timer need ever fire.
SendFairness ==
  \A c \in Sessions :
    /\ WF_sendVars(AnswerFromCache(c) \/ RejectSend(c) \/ ForwardSend(c))
    /\ WF_sendVars(ReadAnswer(c))
    /\ WF_sendVars(ClientClose(c) /\ handler[c] = "dead")

SendFairSpec == SendSpec /\ SendFairness

-----------------------------------------------------------------------------

\* The registry settles an attempt by the broker's answer to that attempt's
\* own frame: not by a late answer to an earlier try of the same id, whether
\* answers carry an attemptId or come from a broker too old to echo it
\* (resolve, resolveLegacy; CHANGELOG.md:165).
AnswersAreOwn ==
  \A a \in DOMAIN attempts :
    attempts[a].result \in {"delivered", "failed"} => attempts[a].verdict = attempts[a].result

\* Who is told "delivered" had this very message - target, payload, replyTo -
\* written to a target before, through coalesced calls, retries on another
\* connection and confirmations from the cache (acquire, lookup).
AckMeansForwarded ==
  \A a \in DOMAIN attempts : attempts[a].result = "delivered" =>
    \A s \in attempts[a].asked : \E f \in forwarded :
      LET t == attempts[f.attempt].send IN t.id = s.id /\ Signature(t) = Signature(s)

\* As long as a broker remembers an id, no message under it is written twice:
\* not a retry's, not another sender's, not one with another payload.
DeliveredOnce == \A id \in MessageIds : copies[id] <= 1

\* A message leaves its sender's group only to the supervisor the sender was
\* registered with, or back to a child that had sent its supervisor the very
\* message it replies to (README.md:248; handleBrokerSend, matchReply).
GroupsCrossedVertically ==
  \A f \in forwarded :
    LET c == attempts[f.attempt].by
        s == attempts[f.attempt].send
    IN  GroupOf[c] # GroupOf[f.to] =>
          \/ s.kind = "supervisor_send" /\ f.to = supervisorOf[c]
          \/ \E g \in forwarded :
               LET t == attempts[g.attempt]
               IN  /\ t.send.kind = "supervisor_send" /\ t.send.id = s.replyTo
                   /\ t.by = f.to /\ g.to = c

\* A capability leads to a session of its owner, and all the children one
\* broker accepts with it, before and after it is restored, go by one name
\* (authorize, claim).
OneChildPerSlot ==
  \A x, y \in accepted :
    /\ TokenOf[x.sup] = OwnerOf[x.cap]
    /\ SlotOf[x.cap] \in {AnyName, x.as}
    /\ x.cap = y.cap => x.as = y.as

\* A send to a broker that echoes attempt ids ends without its timer: every
\* frame is answered, or the connection closes and takes the send with it
\* (handleBrokerSend answers on every path; onClose fails what is pending).
Unsettled(a) == a \in DOMAIN attempts /\ attempts[a].result = "pending" /\ ~legacy
SendsSettle == \A a \in 1..MaxAttempts : Unsettled(a) ~> ~Unsettled(a)
=============================================================================
