-------------------------- MODULE IntercomInbound ---------------------------
(***************************************************************************)
(* How an interactive session surfaces the intercom messages it receives   *)
(* (packages/intercom): admission, the queue of what arrives while the     *)
(* agent is busy (inbound-idle-queue.ts), and its four takers, which race  *)
(* for an entry: the foreground owner that detaches for it                 *)
(* (foreground-detach-handoff.ts), the idle flush (index-heavy.ts), the    *)
(* terminal notice of its sender, a subagent that ended                    *)
(* (terminal-ordering-barrier.ts), and the end of the session generation.  *)
(*                                                                         *)
(* A send hands messages to the agent session, which takes them all or     *)
(* none, now or later; a failed one is retried every 100 ms until it       *)
(* succeeds or the generation retires.  The texts, the reply waiter and    *)
(* tracker, workflow stages and sessions without a UI are left out.        *)
(***************************************************************************)
EXTENDS FiniteSets, Integers, SequencesExt

CONSTANTS
  Messages, Notices,
  From,       \* From[x]: the subagent of a message or of a terminal notice
  Asks,       \* the messages that expect a reply
  Time,       \* Time[x]: the timestamp of a message, or terminalAt
  MaxTurns,   \* turns the user or others start (bound)
  MaxFails,   \* failed dispatches of a notice before it is given up
  MaxGens     \* session generations (bound)

ASSUME InboundAssumption ==
  /\ IsFiniteSet(Messages) /\ IsFiniteSet(Notices)
  /\ Asks \subseteq Messages
  /\ From \in [Messages \cup Notices -> STRING]
  /\ Time \in [Messages \cup Notices -> Nat]
  /\ Messages \cap Notices = {}
  /\ {MaxTurns, MaxFails, MaxGens} \subseteq Nat

VARIABLES
  gen,     \* runtimeGeneration
  busy,    \* the agent runs: ~ctx.isIdle()
  turns,   \* turns started
  entry,   \* entry[m]: its admission, the generation it was in, and its number
  hand,    \* hand[m]: its foreground handshake
  queue,   \* pendingIdleMessages
  timer,   \* inboundFlushTimer is armed
  sends,   \* sends not settled yet: the messages and their generation
  notice,  \* notice[n]: a terminal notice, its failures, history: the entries
           \*   they put back, and its claim
  shown,   \* shown[x]: how often the agent session took a message or notice
  revived  \* history: entries that a rollback put back into the queue after
           \*   another taker had them

inVars == <<gen, busy, turns, entry, hand, queue, timer, sends, notice, shown, revived>>

NoClaim == [taken |-> <<>>, original |-> <<>>]

InboundInit ==
  /\ gen = 1
  /\ busy = FALSE
  /\ turns = 0
  /\ entry = [m \in Messages |-> [state |-> "new", gen |-> 0, nr |-> 0]]
  /\ hand = [m \in Messages |-> "none"]
  /\ queue = <<>>
  /\ timer = FALSE
  /\ sends = {}
  /\ notice = [n \in Notices |-> [state |-> "none", fails |-> 0, back |-> {}, claim |-> NoClaim]]
  /\ shown = [x \in Messages \cup Notices |-> 0]
  /\ revived = {}

\* An admission in this generation, after all the earlier ones.
Admitted(state) == [state |-> state, gen |-> gen, nr |-> 1 + Max({entry[m].nr : m \in Messages})]

\* What Array.filter keeps of q: its entries that are in S, in their order.  It
\* is SelectSeq without its recursion, which no proof could look into.
Filter(q, S) ==
  LET kept   == {i \in DOMAIN q : q[i] \in S}
      nth(k) == CHOOSE i \in kept : Cardinality({j \in kept : j <= i}) = k
  IN  [k \in 1..Cardinality(kept) |-> q[nth(k)]]

Send(ms) == sends' = sends \cup {[messages |-> ms, gen |-> gen]}

\* handleIncomingMessage: what the broker delivers again while it is reserved
\* or done is dropped.
\* A busy agent: the entry is queued and admitted before its owner is asked.
ArriveBusy(m) ==
  /\ entry[m].state = "new" /\ busy
  /\ entry' = [entry EXCEPT ![m] = Admitted("done")]
  /\ queue' = Append(queue, m)
  /\ hand' = [hand EXCEPT ![m] = "probe"]
  /\ UNCHANGED <<gen, busy, turns, timer, sends, notice, shown, revived>>

\* A variant that queues the entry for a flush that nobody schedules.
ArriveIdleQueued(m) ==
  /\ entry[m].state = "new" /\ ~busy
  /\ entry' = [entry EXCEPT ![m] = Admitted("done")]
  /\ queue' = Append(queue, m)
  /\ UNCHANGED <<gen, busy, turns, hand, timer, sends, notice, shown, revived>>

\* An idle one: the entry is admitted once it is sent.
ArriveIdle(m) ==
  /\ entry[m].state = "new" /\ ~busy
  /\ entry' = [entry EXCEPT ![m] = Admitted("reserved")]
  /\ Send(<<m>>)
  /\ UNCHANGED <<gen, busy, turns, hand, queue, timer, notice, shown, revived>>

-----------------------------------------------------------------------------
\* ForegroundDetachHandoff: the foreground owner of the child answers the
\* probe, and then the commit, or fifty milliseconds pass.

ProbeAcked(m) ==
  /\ hand[m] = "probe"
  /\ hand' = [hand EXCEPT ![m] = "commit"]
  /\ UNCHANGED <<gen, busy, turns, entry, queue, timer, sends, notice, shown, revived>>

\* A variant that sends what another taker has taken.
CommitAckedRegardless(m) ==
  /\ hand[m] = "commit"
  /\ hand' = [hand EXCEPT ![m] = "none"]
  /\ queue' = Filter(queue, Messages \ {m}) /\ Send(<<m>>)
  /\ UNCHANGED <<gen, busy, turns, entry, timer, notice, shown, revived>>

\* surface(): only what is still queued is sent.
CommitAcked(m) ==
  /\ hand[m] = "commit"
  /\ hand' = [hand EXCEPT ![m] = "none"]
  /\ IF Contains(queue, m) THEN queue' = Filter(queue, Messages \ {m}) /\ Send(<<m>>)
                           ELSE UNCHANGED <<queue, sends>>
  /\ UNCHANGED <<gen, busy, turns, entry, timer, notice, shown, revived>>

\* onUnclaimed(): the entry waits for an idle agent.
Unclaimed(m) ==
  /\ hand[m] # "none"
  /\ hand' = [hand EXCEPT ![m] = "none"]
  /\ timer' = (timer \/ Contains(queue, m))
  /\ UNCHANGED <<gen, busy, turns, entry, queue, sends, notice, shown, revived>>

-----------------------------------------------------------------------------
\* flushIdleMessages() when its timer fires; a busy agent is asked again.
Flush ==
  /\ timer /\ (busy => queue = <<>>)
  /\ timer' = FALSE
  /\ queue' = <<>>
  /\ IF queue = <<>> THEN UNCHANGED sends ELSE Send(queue)
  /\ UNCHANGED <<gen, busy, turns, entry, hand, notice, shown, revived>>

\* The agent session takes all of a batch.
Show(xs) == [x \in DOMAIN shown |-> IF Contains(xs, x) THEN shown[x] + 1 ELSE shown[x]]

\* A send succeeds; a message that was only reserved is admitted.
SendSucceeds(d) ==
  /\ sends' = sends \ {d}
  /\ shown' = Show(d.messages)
  /\ entry' = [m \in Messages |-> IF Contains(d.messages, m)
                                    THEN [entry[m] EXCEPT !.state = "done"] ELSE entry[m]]
  /\ UNCHANGED <<gen, busy, turns, hand, queue, timer, notice, revived>>

\* The generation of a send has retired and its last attempt fails: a
\* message that was only reserved is released.
SendRetires(d) ==
  /\ d.gen # gen
  /\ sends' = sends \ {d}
  /\ entry' = [m \in Messages |->
                 IF Contains(d.messages, m) /\ entry[m].state = "reserved"
                   THEN [entry[m] EXCEPT !.state = "new"] ELSE entry[m]]
  /\ UNCHANGED <<gen, busy, turns, hand, queue, timer, notice, shown, revived>>

-----------------------------------------------------------------------------
\* The terminal ordering barrier.

\* A variant that leaves what was sent in the millisecond of the notice.
ClaimsEarlier(n, m) == m \notin Asks /\ From[m] = From[n] /\ Time[m] < Time[n]

\* claimOrdinarySourceTargets()
Claims(n, m) == m \notin Asks /\ From[m] = From[n] /\ Time[m] <= Time[n]

Claimed(n) == {m \in Messages : Claims(n, m)}

\* The notice is dispatched behind the entries it claims.  A subagent's end is
\* announced once (MaxFails = 1); the barrier would let a notice that failed be
\* dispatched again, but nobody does.
Terminal(n) ==
  /\ notice[n].state = "none" /\ notice[n].fails < MaxFails
  /\ notice' = [notice EXCEPT ![n].state = "sending",
                              ![n].claim = [taken |-> Filter(queue, Claimed(n)), original |-> queue]]
  /\ queue' = Filter(queue, Messages \ Claimed(n))
  /\ UNCHANGED <<gen, busy, turns, entry, hand, timer, sends, shown, revived>>

\* finish(): onDrain() clears the timer of an empty queue.
TerminalShown(n) == LET taken == notice[n].claim.taken IN
  /\ notice[n].state = "sending"
  /\ notice' = [notice EXCEPT ![n].state = "shown", ![n].claim = NoClaim]
  /\ shown' = Show(Append(taken, n))
  /\ timer' = (timer /\ (taken = <<>> \/ queue # <<>>))
  /\ UNCHANGED <<gen, busy, turns, entry, hand, queue, sends, revived>>

\* Variants: what the notice claimed is dropped, or queued anew.
RolledBackNot(claim) == queue
RolledBackLast(claim) == queue \o claim.taken

\* rollbackFrom(0): the queue is again what it was at the claim, and what came
\* since, whatever has left it meanwhile.
RolledBack(claim) == claim.original \o Filter(queue, Messages \ ToSet(claim.original))

\* The dispatch fails: what it claimed is queued again, and arms no timer.
TerminalFails(n) == LET claim == notice[n].claim IN
  /\ notice[n].state = "sending"
  /\ notice' = [notice EXCEPT ![n] = [state |-> "none", fails |-> @.fails + 1,
                                      back |-> @.back \cup ToSet(claim.taken), claim |-> NoClaim]]
  /\ queue' = RolledBack(claim)
  /\ revived' = revived \cup (ToSet(claim.original) \ (ToSet(claim.taken) \cup ToSet(queue)))
  /\ UNCHANGED <<gen, busy, turns, entry, hand, timer, sends, shown>>

-----------------------------------------------------------------------------
\* The agent's turns, and the session.

TurnStarts ==
  /\ ~busy /\ turns < MaxTurns
  /\ busy' = TRUE
  /\ turns' = turns + 1
  /\ UNCHANGED <<gen, entry, hand, queue, timer, sends, notice, shown, revived>>

\* turn_end, and agent_end with the last turn: a flush is scheduled.
TurnEnds ==
  /\ busy
  /\ busy' \in BOOLEAN
  /\ timer' = TRUE
  /\ UNCHANGED <<gen, turns, entry, hand, queue, sends, notice, shown, revived>>

\* The session is replaced: cleanupRuntime(), then session_start.
Replace ==
  /\ gen < MaxGens
  /\ gen' = gen + 1
  /\ busy' = FALSE
  /\ queue' = <<>>
  /\ timer' = FALSE
  /\ hand' = [m \in Messages |-> "none"]
  /\ UNCHANGED <<turns, entry, sends, notice, shown, revived>>

AgentEnds == TurnEnds /\ ~busy'

InboundNext ==
  \/ \E m \in Messages : \/ ArriveBusy(m) \/ ArriveIdle(m)
                         \/ ProbeAcked(m) \/ CommitAcked(m) \/ Unclaimed(m)
  \/ Flush
  \/ \E d \in sends : SendSucceeds(d) \/ SendRetires(d)
  \/ \E n \in Notices : Terminal(n) \/ TerminalShown(n) \/ TerminalFails(n)
  \/ TurnStarts \/ TurnEnds \/ Replace

\* Timers fire, agent runs end, a retried send succeeds in the end, and a
\* dispatch that is in flight ends, well or badly.  Nobody must dispatch a
\* notice, and nobody a second time.
InboundFairness ==
  /\ WF_inVars(Flush) /\ WF_inVars(AgentEnds)
  /\ WF_inVars(\E m \in Messages : CommitAcked(m) \/ Unclaimed(m))
  /\ WF_inVars(\E d \in sends : SendSucceeds(d))
  /\ WF_inVars(\E n \in Notices : TerminalShown(n) \/ TerminalFails(n))

InboundSpec == InboundInit /\ [][InboundNext]_inVars /\ InboundFairness

-----------------------------------------------------------------------------

\* Every message the session has admitted is somewhere: the queue, a send, the
\* claim of a notice or the conversation, whichever of its takers wins, loses
\* or fails.  Only the end of its generation drops it.
NothingLost ==
  \A m \in Messages : entry[m].state # "new" /\ entry[m].gen = gen =>
    \/ Contains(queue, m) \/ shown[m] > 0
    \/ \E d \in sends : Contains(d.messages, m)
    \/ \E n \in Notices : Contains(notice[n].claim.taken, m)

\* A message or a notice is surfaced once, whatever the broker delivers twice
\* and however the handshake, the flush and the notices race for it; unless a
\* rollback put it back after it had been taken.
SurfacedOnceUnlessRevived ==
  \A x \in Messages \cup Notices : x \notin revived => shown[x] <= 1

\* Failed dispatches leave the queue in the order of arrival, as long as they
\* are all of one notice.
QueueInOrder ==
  Cardinality({n \in Notices : notice[n].fails > 0}) <= 1 =>
    \A i, j \in DOMAIN queue : i < j => entry[queue[i]].nr < entry[queue[j]].nr

\* README.md:129, "claims the terminal child's pre-terminal ordinary entries":
\* while the notice is in flight, neither the flush nor a foreground owner can
\* take one of the entries that were queued before it.
ClaimIsExclusive ==
  \A n \in Notices : \A m \in ToSet(notice[n].claim.original) \ revived :
    m \notin Asks /\ From[m] = From[n] /\ Time[m] <= Time[n] => ~Contains(queue, m)

\* A notice that failed put the entry back into the queue of an idle agent, and
\* the timer that was to flush it has fired or been cleared meanwhile.
LeftBehind(m) ==
  /\ \E n \in Notices : m \in notice[n].back
  /\ Contains(queue, m) /\ hand[m] = "none" /\ ~timer /\ ~busy

\* What is queued is surfaced: the handshake, the flush and the notices leave no
\* entry behind with nobody to come for it; unless a notice that failed put the
\* entry back, and then the next turn brings it out.
QueuedSurfaces ==
  \A m \in Messages, g \in 1..MaxGens :
    (Contains(queue, m) /\ entry[m].gen = g) ~> (shown[m] > 0 \/ gen # g \/ LeftBehind(m))

\* inbound-idle-queue.ts:11, "unrelated children retain their original queue
\* positions", and the dispatch of one child's notice surfaces no message of
\* another again: no message is surfaced twice.
SurfacedOnce == \A m \in Messages : shown[m] <= 1
=============================================================================
