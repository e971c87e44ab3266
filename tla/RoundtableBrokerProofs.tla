----------------------- MODULE RoundtableBrokerProofs -----------------------
(***************************************************************************)
(* Proofs about RoundtableBroker for every number of connections, rooms    *)
(* and roles, every capacity and every grace period: the broker implements *)
(* RoomStore, its sessions Map agrees with its sockets, and rooms list no  *)
(* member whose connection is gone.                                        *)
(***************************************************************************)
EXTENDS RoundtableBroker, RoomStoreProofs, TLAPS

\* Ids come from randomUUID, and only register gives a connection one: no two
\* connections share an id.
DistinctIds ==
  /\ \A c \in Conns : conn[c] = "none" => sid[c] = NoId
  /\ \A c \in Conns : sid[c] # NoId => sid[c] \in used
  /\ \A c, d \in Conns : sid[c] = sid[d] /\ sid[c] # NoId => c = d

\* The inductive invariant.
BrokerInv ==
  /\ ConnTypeOK
  /\ members \in [Rooms -> SUBSET Ids]
  /\ DistinctIds
  /\ SessionsMatchSockets
  /\ MembersHaveSockets

-----------------------------------------------------------------------------
\* A served request names an id and a role of the store's constants.
LEMMA ServedSession ==
  ASSUME ConnTypeOK, NEW c \in Conns, Serves(c)
  PROVE  sid[c] \in Ids /\ NameOf(c) \in Names
BY DEF ConnTypeOK, Session, Serves, NameOf

\* The close handler evicts a session or leaves the rooms alone.
LEMMA CloseHandlerStore ==
  ASSUME ConnTypeOK, NEW c \in Conns, CloseHandler(c)
  PROVE  [StoreNext]_storeVars
<1>1. CASE sid[c] = NoId
  BY <1>1 DEF CloseHandler
<1>2. CASE sid[c] # NoId
  <2>1. sid[c] \in Ids /\ EvictSession(sid[c])
    BY <1>2 DEF CloseHandler, ConnTypeOK
  <2> QED BY <2>1 DEF StoreNext
<1> QED BY <1>1, <1>2

\* Every step of the broker is a step of the store or leaves it alone.
LEMMA BrokerStepStore ==
  ConnTypeOK /\ [BrokerNext]_brokerVars => [StoreNext]_storeVars
<1> SUFFICES ASSUME ConnTypeOK, [BrokerNext]_brokerVars PROVE [StoreNext]_storeVars
  OBVIOUS
<1>1. ASSUME NEW c \in Conns, NEW r \in Rooms, NEW t \in Topics \cup {NoTopic},
             HandleJoin(c, r, t)
      PROVE  [StoreNext]_storeVars
  BY <1>1, ServedSession DEF HandleJoin, StoreNext
<1>2. ASSUME NEW c \in Conns, NEW r \in Rooms, HandleLeave(c, r)
      PROVE  [StoreNext]_storeVars
  BY <1>2, ServedSession DEF HandleLeave, StoreNext
<1>3. ASSUME NEW c \in Conns, NEW r \in Rooms, HandlePost(c, r)
      PROVE  [StoreNext]_storeVars
  BY <1>3, ServedSession DEF HandlePost, StoreNext
<1>4. ASSUME NEW c \in Conns, NEW r \in Rooms, NEW q \in SeqArgs, HandleSetCursor(c, r, q)
      PROVE  [StoreNext]_storeVars
  BY <1>4, ServedSession DEF HandleSetCursor, StoreNext
<1>5. ASSUME NEW c \in Conns, PeerClose(c) \/ DestroyedClose(c)
      PROVE  [StoreNext]_storeVars
  BY <1>5, CloseHandlerStore DEF PeerClose, DestroyedClose
<1>6. ASSUME NEW c \in Conns, Accept(c) \/ BadFrame(c) \/ \E n \in Names : Register(c, n)
      PROVE  UNCHANGED storeVars
  BY <1>6 DEF Accept, BadFrame, Register
<1>7. ASSUME Signal \/ CheckBusy \/ CheckIdle \/ Kill \/ LoopEnds \/ Tick
      PROVE  UNCHANGED storeVars
  BY <1>7 DEF Signal, ShutDown, CheckBusy, CheckIdle, Kill, LoopEnds, Gone, Tick
<1>8. CASE UNCHANGED brokerVars
  BY <1>8 DEF brokerVars
<1> QED BY <1>1, <1>2, <1>3, <1>4, <1>5, <1>6, <1>7, <1>8 DEF BrokerNext

-----------------------------------------------------------------------------
\* ConnTypeOK is inductive.
LEMMA ConnTypeStep == ConnTypeOK /\ [BrokerNext]_brokerVars => ConnTypeOK'
<1> SUFFICES ASSUME ConnTypeOK, [BrokerNext]_brokerVars PROVE ConnTypeOK'
  OBVIOUS
<1> USE GraceAssumption, NoIdAssumption
<1>1. ASSUME UNCHANGED connVars PROVE ConnTypeOK'
  BY <1>1 DEF ConnTypeOK, connVars
<1>2. ASSUME NEW c \in Conns, Accept(c) \/ BadFrame(c) PROVE ConnTypeOK'
  BY <1>2 DEF ConnTypeOK, Accept, BadFrame
<1>3. ASSUME NEW c \in Conns, NEW n \in Names, Register(c, n) PROVE ConnTypeOK'
  BY <1>3 DEF ConnTypeOK, Register, With, Session
<1>4. ASSUME NEW c \in Conns, CloseHandler(c) PROVE ConnTypeOK'
  BY <1>4 DEF ConnTypeOK, CloseHandler, Without, ScheduledTimer, Off
<1>5. ASSUME Signal PROVE ConnTypeOK'
  BY <1>5 DEF ConnTypeOK, Signal, ShutDown, NoSessions, Off
<1>6. ASSUME Gone PROVE ConnTypeOK'
  BY <1>6 DEF ConnTypeOK, Gone, NoSessions, Off
<1>7. ASSUME Tick PROVE ConnTypeOK'
  BY <1>7 DEF ConnTypeOK, Tick, LesserOf, Off
<1>8. ASSUME CheckBusy PROVE ConnTypeOK'
  BY <1>8 DEF ConnTypeOK, CheckBusy, Off
<1>9. CASE UNCHANGED brokerVars
  BY <1>1, <1>9 DEF brokerVars
<1> QED BY <1>1, <1>2, <1>3, <1>4, <1>5, <1>6, <1>7, <1>8, <1>9
        DEF BrokerNext, HandleJoin, HandleLeave, HandlePost, HandleSetCursor,
            PeerClose, DestroyedClose, CheckIdle, Kill, LoopEnds

\* Initially there are no sessions and no members.
LEMMA BrokerInitInv == BrokerInit => BrokerInv
BY GraceAssumption, NoIdAssumption
   DEF BrokerInit, BrokerInv, ConnTypeOK, StoreInit, DistinctIds, NoSessions,
       SessionsMatchSockets, MembersHaveSockets, Off

-----------------------------------------------------------------------------
\* The broker does to the rooms only what RoomStore allows, whatever its
\* connections, timers and signals do.
THEOREM BrokerRefinesStore == BrokerSpec => StoreSpec
<1>1. BrokerInit => ConnTypeOK
  BY BrokerInitInv DEF BrokerInv
<1>2. BrokerInit => StoreInit
  BY DEF BrokerInit
<1> QED BY <1>1, <1>2, ConnTypeStep, BrokerStepStore, PTL DEF BrokerSpec, StoreSpec

\* Every reachable state of a broker is well typed.
THEOREM BrokerTypeCorrect == BrokerSpec => []BrokerTypeOK
<1>1. BrokerInit => ConnTypeOK
  BY BrokerInitInv DEF BrokerInv
<1>2. BrokerSpec => []ConnTypeOK
  BY <1>1, ConnTypeStep, PTL DEF BrokerSpec
<1> QED BY <1>2, BrokerRefinesStore, StoreTypeCorrect, PTL DEF BrokerTypeOK

\* In a running broker, room-store.ts's ring buffer holds exactly the newest
\* messages of its room.
THEOREM BrokerKeepsNewest == BrokerSpec => []RetainsNewest
BY BrokerRefinesStore, BufferIsNewest, PTL

\* In a running broker, no read cursor is ever past its room's newest message.
THEOREM BrokerKeepsCursors == BrokerSpec => []CursorWithinLog
BY BrokerRefinesStore, CursorInsideLog, PTL

\* To its readers a running broker is a log per room: numbers are never issued
\* twice and read positions never move back, whatever its connections do.
THEOREM BrokerRefinesLog == BrokerSpec => ImplementsRoomLog
BY BrokerRefinesStore, StoreRefinesLog, PTL

-----------------------------------------------------------------------------
\* Registering gives a connection an id that nobody has.
LEMMA RegisterInv ==
  ASSUME BrokerInv, NEW c \in Conns, NEW n \in Names, Register(c, n)
  PROVE  DistinctIds' /\ SessionsMatchSockets' /\ MembersHaveSockets'
<1>1. PICK i \in Ids \ used :
        /\ sid' = [sid EXCEPT ![c] = i]
        /\ sessions' = With(sessions, i, [conn |-> c, name |-> n])
        /\ used' = used \cup {i}
  BY DEF Register
<1>2. /\ conn[c] = "open" /\ sid[c] = NoId /\ i # NoId
      /\ UNCHANGED <<members, phase, conn>>
  BY NoIdAssumption DEF Register, storeVars
<1>3. sid \in [Conns -> Ids \cup {NoId}] /\ DOMAIN sessions \subseteq used
  BY DEF BrokerInv, ConnTypeOK
<1>4. \A d \in Conns : sid'[d] = IF d = c THEN i ELSE sid[d]
  BY <1>1, <1>3
<1>5. DOMAIN sessions' = DOMAIN sessions \cup {i}
  BY <1>1 DEF With
<1>6. /\ sessions'[i].conn = c
      /\ \A j \in DOMAIN sessions : j # i /\ sessions'[j] = sessions[j]
  BY <1>1, <1>3 DEF With
<1>7. DistinctIds'
  BY <1>1, <1>2, <1>4 DEF BrokerInv, DistinctIds
<1>8. SessionsMatchSockets'
  <2> SUFFICES ASSUME phase # "exited"
               PROVE  /\ \A j \in DOMAIN sessions' :
                           /\ sid'[sessions'[j].conn] = j
                           /\ conn[sessions'[j].conn] \in {"open", "destroyed"}
                      /\ \A d \in Conns :
                           conn[d] = "open" /\ sid'[d] # NoId => sid'[d] \in DOMAIN sessions'
    BY <1>2 DEF SessionsMatchSockets
  <2>1. \A j \in DOMAIN sessions : sessions[j].conn \in Conns /\ sessions[j].conn # c
    BY <1>2, <1>3, NoIdAssumption
       DEF BrokerInv, ConnTypeOK, Session, SessionsMatchSockets
  <2>2. \A j \in DOMAIN sessions' :
          sid'[sessions'[j].conn] = j /\ conn[sessions'[j].conn] \in {"open", "destroyed"}
    BY <1>2, <1>4, <1>5, <1>6, <2>1 DEF BrokerInv, SessionsMatchSockets
  <2> QED BY <1>4, <1>5, <2>2 DEF BrokerInv, SessionsMatchSockets
<1>9. MembersHaveSockets'
  <2> SUFFICES ASSUME phase # "exited", NEW r \in Rooms, NEW j \in members[r]
               PROVE  \E d \in Conns : sid'[d] = j /\ conn[d] \in {"open", "destroyed"}
    BY <1>2 DEF MembersHaveSockets
  <2>1. PICK d \in Conns : sid[d] = j /\ conn[d] \in {"open", "destroyed"}
    BY DEF BrokerInv, MembersHaveSockets
  <2>2. j # NoId
    BY NoIdAssumption DEF BrokerInv
  <2> QED BY <1>2, <1>4, <2>1, <2>2
<1> QED BY <1>7, <1>8, <1>9

\* The close handler takes the session out of the Map and out of every room.
LEMMA CloseHandlerInv ==
  ASSUME BrokerInv, NEW c \in Conns, CloseHandler(c)
  PROVE  DistinctIds' /\ SessionsMatchSockets' /\ MembersHaveSockets'
<1>1. conn \in [Conns -> {"none", "open", "destroyed", "closed"}]
  BY DEF BrokerInv, ConnTypeOK
<1>2. /\ \A d \in Conns : conn'[d] = IF d = c THEN "closed" ELSE conn[d]
      /\ UNCHANGED <<phase, sid, used>>
  BY <1>1 DEF CloseHandler
<1>3. DOMAIN sessions' = DOMAIN sessions \ {sid[c]}
  BY NoIdAssumption DEF CloseHandler, Without, BrokerInv, ConnTypeOK
<1>4. \A j \in DOMAIN sessions' : sessions'[j] = sessions[j]
  BY DEF CloseHandler, Without
<1>5. \A r \in Rooms : members'[r] \subseteq members[r] \ {sid[c]}
  <2>1. CASE sid[c] = NoId
    BY <2>1, NoIdAssumption DEF CloseHandler, storeVars, BrokerInv
  <2>2. CASE sid[c] # NoId
    BY <2>2 DEF CloseHandler, EvictSession
  <2> QED BY <2>1, <2>2
<1>6. DistinctIds'
  BY <1>2 DEF BrokerInv, DistinctIds
<1>7. SessionsMatchSockets'
  <2> SUFFICES ASSUME phase # "exited"
               PROVE  /\ \A j \in DOMAIN sessions' :
                           /\ sid[sessions'[j].conn] = j
                           /\ conn'[sessions'[j].conn] \in {"open", "destroyed"}
                      /\ \A d \in Conns :
                           conn'[d] = "open" /\ sid[d] # NoId => sid[d] \in DOMAIN sessions'
    BY <1>2 DEF SessionsMatchSockets
  <2>1. ASSUME NEW j \in DOMAIN sessions'
        PROVE  /\ sid[sessions'[j].conn] = j
               /\ conn'[sessions'[j].conn] \in {"open", "destroyed"}
    <3>1. /\ j \in DOMAIN sessions /\ j # sid[c] /\ sessions'[j] = sessions[j]
          /\ sessions[j].conn \in Conns
      BY <1>3, <1>4, <2>1 DEF BrokerInv, ConnTypeOK, Session
    <3>2. sid[sessions[j].conn] = j /\ conn[sessions[j].conn] \in {"open", "destroyed"}
      BY <3>1 DEF BrokerInv, SessionsMatchSockets
    <3> QED BY <1>2, <3>1, <3>2
  <2>2. ASSUME NEW d \in Conns, conn'[d] = "open", sid[d] # NoId
        PROVE  sid[d] \in DOMAIN sessions'
    BY <1>2, <1>3, <2>2 DEF BrokerInv, DistinctIds, SessionsMatchSockets
  <2> QED BY <2>1, <2>2
<1>8. MembersHaveSockets'
  <2> SUFFICES ASSUME phase # "exited", NEW r \in Rooms, NEW j \in members'[r]
               PROVE  \E d \in Conns : sid[d] = j /\ conn'[d] \in {"open", "destroyed"}
    BY <1>2 DEF MembersHaveSockets
  <2>1. PICK d \in Conns : sid[d] = j /\ conn[d] \in {"open", "destroyed"}
    BY <1>5 DEF BrokerInv, MembersHaveSockets
  <2> QED BY <1>2, <1>5, <2>1
<1> QED BY <1>6, <1>7, <1>8

\* BrokerInv is inductive.
LEMMA BrokerStepInv == BrokerInv /\ [BrokerNext]_brokerVars => BrokerInv'
<1> DEFINE Rest == DistinctIds /\ SessionsMatchSockets /\ MembersHaveSockets
<1> SUFFICES ASSUME BrokerInv, [BrokerNext]_brokerVars PROVE BrokerInv'
  OBVIOUS
<1>1. ConnTypeOK'
  BY ConnTypeStep DEF BrokerInv
<1>2. members' \in [Rooms -> SUBSET Ids]
  <2>1. [StoreNext]_storeVars /\ members \in [Rooms -> SUBSET Ids]
    BY BrokerStepStore DEF BrokerInv
  <2>2. ASSUME NEW r \in Rooms, NEW s \in Ids, NEW t \in Topics \cup {NoTopic}, Join(r, s, t)
        PROVE  members' \in [Rooms -> SUBSET Ids]
    BY <2>1, <2>2 DEF Join
  <2>3. ASSUME NEW r \in Rooms, NEW s \in Ids, Leave(r, s)
        PROVE  members' \in [Rooms -> SUBSET Ids]
    BY <2>1, <2>3 DEF Leave
  <2>4. ASSUME NEW s \in Ids, EvictSession(s)
        PROVE  members' \in [Rooms -> SUBSET Ids]
    BY <2>1, <2>4 DEF EvictSession
  <2>5. ASSUME UNCHANGED members
        PROVE  members' \in [Rooms -> SUBSET Ids]
    BY <2>1, <2>5
  <2> QED BY <2>1, <2>2, <2>3, <2>4, <2>5 DEF StoreNext, Post, SetCursor, storeVars
<1>3. ASSUME UNCHANGED connVars, \A r \in Rooms : members'[r] \subseteq members[r]
      PROVE  Rest'
  BY <1>3 DEF BrokerInv, DistinctIds, SessionsMatchSockets, MembersHaveSockets, connVars
<1>4. ASSUME NEW c \in Conns, NEW r \in Rooms, NEW t \in Topics \cup {NoTopic},
             HandleJoin(c, r, t)
      PROVE  Rest'
  <2>1. UNCHANGED <<phase, conn, sid, sessions, used>>
    BY <1>4 DEF HandleJoin, connVars
  <2>2. \A q \in Rooms : members'[q] \subseteq members[q] \cup {sid[c]}
    BY <1>4 DEF HandleJoin, Join, BrokerInv
  <2>3. conn[c] = "open"
    BY <1>4 DEF HandleJoin, Serves
  <2> QED BY <2>1, <2>2, <2>3 DEF BrokerInv, DistinctIds, SessionsMatchSockets, MembersHaveSockets
<1>5. ASSUME NEW c \in Conns, NEW r \in Rooms, HandleLeave(c, r) PROVE Rest'
  <2>1. \A q \in Rooms : members'[q] \subseteq members[q]
    BY <1>5 DEF HandleLeave, Leave, BrokerInv
  <2> QED BY <1>3, <1>5, <2>1 DEF HandleLeave
<1>6. ASSUME NEW c \in Conns, NEW r \in Rooms, HandlePost(c, r) PROVE Rest'
  BY <1>3, <1>6 DEF HandlePost, Post
<1>7. ASSUME NEW c \in Conns, NEW r \in Rooms, NEW q \in SeqArgs, HandleSetCursor(c, r, q)
      PROVE  Rest'
  BY <1>3, <1>7 DEF HandleSetCursor, SetCursor
<1>8. ASSUME NEW c \in Conns, Accept(c) \/ BadFrame(c) PROVE Rest'
  <2>1. UNCHANGED <<members, phase, sid, sessions, used>>
    BY <1>8 DEF Accept, BadFrame, storeVars
  <2>2. \A d \in Conns :
          /\ conn[d] \in {"open", "destroyed"} => conn'[d] \in {"open", "destroyed"}
          /\ conn'[d] = "none" => conn[d] = "none"
          /\ conn'[d] = "open" /\ conn[d] # "open" => sid[d] = NoId
    BY <1>8 DEF Accept, BadFrame, BrokerInv, ConnTypeOK, DistinctIds
  <2>3. DistinctIds'
    BY <2>1, <2>2 DEF BrokerInv, DistinctIds
  <2>4. \A i \in DOMAIN sessions : sessions[i].conn \in Conns
    BY DEF BrokerInv, ConnTypeOK, Session
  <2>5. SessionsMatchSockets'
    BY <2>1, <2>2, <2>4 DEF BrokerInv, SessionsMatchSockets
  <2>6. MembersHaveSockets'
    BY <2>1, <2>2 DEF BrokerInv, MembersHaveSockets
  <2> QED BY <2>3, <2>5, <2>6
<1>9. ASSUME NEW c \in Conns, NEW n \in Names, Register(c, n) PROVE Rest'
  BY <1>9, RegisterInv
<1>10. ASSUME NEW c \in Conns, PeerClose(c) \/ DestroyedClose(c) PROVE Rest'
  BY <1>10, CloseHandlerInv DEF PeerClose, DestroyedClose
<1>11. ASSUME Signal PROVE Rest'
  <2>1. UNCHANGED <<members, sid, used>> /\ DOMAIN sessions' = {}
    BY <1>11 DEF Signal, ShutDown, storeVars, NoSessions
  <2>2. \A d \in Conns :
          conn'[d] = IF sid[d] \in DOMAIN sessions /\ conn[d] = "open"
                       THEN "destroyed" ELSE conn[d]
    BY <1>11 DEF Signal, ShutDown
  <2>3. phase # "exited"
    BY <1>11 DEF Signal
  <2> QED BY <2>1, <2>2, <2>3 DEF BrokerInv, DistinctIds, SessionsMatchSockets, MembersHaveSockets
<1>12. ASSUME Gone PROVE Rest'
  BY <1>12 DEF Gone, BrokerInv, DistinctIds, SessionsMatchSockets, MembersHaveSockets
<1>13. ASSUME CheckBusy \/ Tick PROVE Rest'
  BY <1>13 DEF CheckBusy, Tick, storeVars, BrokerInv, DistinctIds, SessionsMatchSockets,
               MembersHaveSockets
<1>14. ASSUME UNCHANGED brokerVars PROVE Rest'
  BY <1>3, <1>14 DEF brokerVars, storeVars
<1> HIDE DEF Rest
<1>15. Rest'
  BY <1>4, <1>5, <1>6, <1>7, <1>8, <1>9, <1>10, <1>11, <1>12, <1>13, <1>14
     DEF BrokerNext, CheckIdle, Kill, LoopEnds
<1> QED BY <1>1, <1>2, <1>15 DEF BrokerInv, Rest

\* The sessions Map and the sockets agree in every reachable state, so that
\* no request of a registered connection is answered "Unknown session".
THEOREM SessionsAgree == BrokerSpec => []SessionsMatchSockets
<1>1. BrokerInv => SessionsMatchSockets
  BY DEF BrokerInv
<1> QED BY <1>1, BrokerInitInv, BrokerStepInv, PTL DEF BrokerSpec

\* No room lists a member that nothing will evict, for any interleaving of
\* joins, closes, destroyed sockets and shutdown.
THEOREM NoGhostMembers == BrokerSpec => []MembersHaveSockets
<1>1. BrokerInv => MembersHaveSockets
  BY DEF BrokerInv
<1> QED BY <1>1, BrokerInitInv, BrokerStepInv, PTL DEF BrokerSpec
=============================================================================
