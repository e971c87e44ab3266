------------------------- MODULE MCRoundtableBroker -------------------------
(***************************************************************************)
(* A small instance of RoundtableBroker.  Every connection of the run is   *)
(* used once, so Conns bounds how often sessions come back; MaxSeq bounds  *)
(* the messages posted, beyond Capacity so that the buffer rotates.  There *)
(* is an id to spare, so that a connection that registered twice would get *)
(* a second one.                                                           *)
(***************************************************************************)
EXTENDS RoundtableBroker

CONSTANTS MaxSeq, MaxId

PostsBounded == \A r \in Rooms : nextSeq'[r] <= MaxSeq + 1

\* randomUUID's results are interchangeable: take them in one order.
MCIds == 1 .. MaxId
IdsInOrder == used' = 1 .. Cardinality(used')

MCNext == BrokerNext /\ PostsBounded /\ IdsInOrder

\* What clients ask for: from before the first message to past the newest.
MCSeqArgs == -1 .. MaxSeq + 1

\* Time passes, an expired timer's callback runs, "close" follows destroy(),
\* and an event loop without work ends.  Clients owe nothing.
MCFairness ==
  /\ WF_brokerVars(Tick)
  /\ WF_brokerVars(CheckBusy)
  /\ WF_brokerVars(CheckIdle)
  /\ WF_brokerVars(LoopEnds)
  /\ \A c \in Conns : WF_brokerVars(DestroyedClose(c))

MCFairSpec == BrokerInit /\ [][MCNext]_brokerVars /\ MCFairness
=============================================================================
