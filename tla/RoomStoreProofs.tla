--------------------------- MODULE RoomStoreProofs ---------------------------
(***************************************************************************)
(* Proofs about RoomStore for every set of rooms, ids and names and every  *)
(* capacity.  StoreInv is inductive; the safety properties, the two action *)
(* properties and the refinement of RoomLog follow from it.                *)
(***************************************************************************)
EXTENDS RoomStore, SequenceTheorems, TLAPS

\* The inductive invariant.  RetainsNewest is what makes it inductive: it
\* says that a room with an empty buffer never had a message, so that the
\* reset in leave changes neither the counter nor a cursor.
StoreInv == StoreTypeOK /\ RetainsNewest /\ CursorWithinLog

-----------------------------------------------------------------------------
\* Pushing a message of the right number on a buffer that holds the newest
\* messages gives a buffer that holds the newest messages (post's push and
\* splice).
LEMMA PushedRetainsNewest ==
  ASSUME StoreTypeOK, NEW r \in Rooms, NEW n \in Names,
         Len(messages[r]) = LesserOf(Capacity, LastSeq(r)),
         \A i \in DOMAIN messages[r] : messages[r][i].seq = Dropped(r) + i,
         NEW m, m = [seq |-> nextSeq[r], from |-> n]
  PROVE  /\ Pushed(r, m) \in Seq(Message)
         /\ Len(Pushed(r, m)) = LesserOf(Capacity, nextSeq[r])
         /\ \A i \in DOMAIN Pushed(r, m) :
              Pushed(r, m)[i].seq = nextSeq[r] - Len(Pushed(r, m)) + i
<1> DEFINE all == Append(messages[r], m)
           k == Len(messages[r])
<1>1. /\ messages[r] \in Seq(Message) /\ k \in Nat
      /\ nextSeq[r] \in Nat /\ nextSeq[r] > 0
      /\ m \in Message /\ m.seq = nextSeq[r]
      /\ Capacity \in Nat /\ Capacity > 0
  <2>1. messages[r] \in Seq(Message) /\ nextSeq[r] \in Nat \ {0}
    BY DEF StoreTypeOK
  <2>2. m \in Message /\ m.seq = nextSeq[r]
    BY <2>1 DEF Message
  <2>3. k \in Nat
    BY <2>1
  <2> QED BY <2>1, <2>2, <2>3, CapacityAssumption
<1>2. /\ all \in Seq(Message) /\ Len(all) = k + 1
      /\ \A i \in 1 .. k : all[i] = messages[r][i]
      /\ all[k + 1] = m
  BY <1>1
<1>3. \A i \in 1 .. k + 1 : all[i].seq = nextSeq[r] - (k + 1) + i
  <2> SUFFICES ASSUME NEW i \in 1 .. k + 1 PROVE all[i].seq = nextSeq[r] - (k + 1) + i
    OBVIOUS
  <2>1. CASE i = k + 1
    BY <1>1, <1>2, <2>1
  <2>2. CASE i \in 1 .. k
    <3>1. all[i] = messages[r][i] /\ i \in DOMAIN messages[r]
      BY <1>1, <1>2, <2>2
    <3>2. messages[r][i].seq = nextSeq[r] - 1 - k + i
      BY <3>1 DEF Dropped, LastSeq
    <3> QED BY <1>1, <3>1, <3>2
  <2> QED BY <1>1, <2>1, <2>2
<1>4. Len(messages[r]) = k /\ k = LesserOf(Capacity, nextSeq[r] - 1)
  BY DEF LastSeq
<1> HIDE DEF all, k
<1>5. CASE k + 1 > Capacity
  <2>1. k = Capacity /\ LesserOf(Capacity, nextSeq[r]) = Capacity
    BY <1>1, <1>4, <1>5 DEF LesserOf
  <2>2. Len(all) > Capacity /\ Len(all) - Capacity + 1 = 2 /\ Len(all) = k + 1
    BY <1>1, <1>2, <1>5, <2>1
  <2>3. Pushed(r, m) = SubSeq(all, 2, k + 1)
    <3>1. Pushed(r, m) = SubSeq(all, Len(all) - Capacity + 1, Len(all))
      BY <2>2 DEF Pushed, all
    <3> QED BY <2>2, <3>1
  <2>4. \A i \in 2 .. k + 1 : all[i] \in Message
    BY <1>1, <1>2, ElementOfSeq
  <2>5. /\ SubSeq(all, 2, k + 1) \in Seq(Message)
        /\ Len(SubSeq(all, 2, k + 1)) = k
        /\ \A i \in 1 .. k : SubSeq(all, 2, k + 1)[i] = all[i + 1]
    BY <1>1, <2>4, SubSeqProperties, Z3
  <2>6. \A i \in 1 .. k : SubSeq(all, 2, k + 1)[i].seq = nextSeq[r] - k + i
    <3> SUFFICES ASSUME NEW i \in 1 .. k
                 PROVE  SubSeq(all, 2, k + 1)[i].seq = nextSeq[r] - k + i
      OBVIOUS
    <3>1. i + 1 \in 1 .. k + 1
      BY <1>1
    <3>2. all[i + 1].seq = nextSeq[r] - (k + 1) + (i + 1)
      BY <1>3, <3>1
    <3> QED BY <1>1, <2>5, <3>2
  <2>7. DOMAIN Pushed(r, m) = 1 .. k
    BY <2>3, <2>5, LenProperties
  <2> QED BY <2>1, <2>3, <2>5, <2>6, <2>7
<1>6. CASE ~(k + 1 > Capacity)
  <2>1. Pushed(r, m) = all
    BY <1>2, <1>6 DEF Pushed, all
  <2>2. k + 1 = nextSeq[r] /\ LesserOf(Capacity, nextSeq[r]) = k + 1
    BY <1>1, <1>4, <1>6 DEF LesserOf
  <2>3. DOMAIN all = 1 .. k + 1
    BY <1>1, <1>2
  <2> QED BY <1>2, <1>3, <2>1, <2>2, <2>3
<1> QED BY <1>5, <1>6

\* The reset in leave is invisible: a room without messages never had one,
\* so its counter and its cursors are at their initial values already.
LEMMA DisposableIsFresh ==
  ASSUME StoreInv, NEW r \in Rooms, messages[r] = <<>>
  PROVE  nextSeq[r] = 1 /\ cursor[r] = [n \in Names |-> 0]
<1>1. nextSeq[r] \in Nat \ {0} /\ LesserOf(Capacity, LastSeq(r)) = 0
  BY DEF StoreInv, StoreTypeOK, RetainsNewest
<1>2. nextSeq[r] = 1
  BY <1>1, CapacityAssumption DEF LesserOf, LastSeq
<1>3. \A n \in Names : cursor[r][n] = 0
  BY <1>2 DEF StoreInv, StoreTypeOK, CursorWithinLog, LastSeq
<1>4. cursor[r] \in [Names -> Nat]
  BY DEF StoreInv, StoreTypeOK
<1> QED BY <1>2, <1>3, <1>4

-----------------------------------------------------------------------------
\* leave's reset changes no field but live, members and topic.
LEMMA LeaveKeepsLog ==
  ASSUME StoreInv, NEW r \in Rooms, NEW s \in Ids, Leave(r, s)
  PROVE  UNCHANGED <<messages, nextSeq, cursor>>
<1>1. CASE Disposable(r, members[r] \ {s})
  <2>1. messages[r] = <<>>
    BY <1>1 DEF Disposable
  <2>2. nextSeq[r] = 1 /\ cursor[r] = [n \in Names |-> 0]
    BY <2>1, DisposableIsFresh
  <2>3. /\ messages' = [messages EXCEPT ![r] = <<>>]
        /\ nextSeq' = [nextSeq EXCEPT ![r] = 1]
        /\ cursor' = [cursor EXCEPT ![r] = [n \in Names |-> 0]]
    BY <1>1 DEF Leave
  <2> QED BY <2>1, <2>2, <2>3 DEF StoreInv, StoreTypeOK
<1>2. CASE ~Disposable(r, members[r] \ {s})
  BY <1>2 DEF Leave
<1> QED BY <1>1, <1>2

\* Every initial state satisfies the invariant.
LEMMA StoreInitInv == StoreInit => StoreInv
<1> SUFFICES ASSUME StoreInit PROVE StoreInv
  OBVIOUS
<1>1. StoreTypeOK
  BY EmptySeq DEF StoreInit, StoreTypeOK
<1>2. RetainsNewest
  BY CapacityAssumption DEF StoreInit, RetainsNewest, LesserOf, LastSeq, Dropped
<1>3. CursorWithinLog
  BY DEF StoreInit, CursorWithinLog, LastSeq
<1> QED BY <1>1, <1>2, <1>3 DEF StoreInv

\* A step that leaves the log alone keeps the invariant's log part.
LEMMA LogUnchanged ==
  ASSUME StoreInv, UNCHANGED <<messages, nextSeq, cursor>>
  PROVE  RetainsNewest' /\ CursorWithinLog'
BY DEF StoreInv, RetainsNewest, CursorWithinLog, LastSeq, Dropped

LEMMA PostKeepsInv ==
  ASSUME StoreInv, NEW r \in Rooms, NEW s \in Ids, NEW n \in Names, Post(r, s, n)
  PROVE  StoreInv'
<1> DEFINE m == [seq |-> nextSeq[r], from |-> n]
           p == Pushed(r, m)
<1>1. /\ p \in Seq(Message)
      /\ Len(p) = LesserOf(Capacity, nextSeq[r])
      /\ \A i \in DOMAIN p : p[i].seq = nextSeq[r] - Len(p) + i
  BY PushedRetainsNewest DEF StoreInv, RetainsNewest
<1>2. messages' = [messages EXCEPT ![r] = p]
  BY DEF Post
<1> HIDE DEF p
<1>3. StoreTypeOK'
  BY <1>1, <1>2 DEF StoreInv, StoreTypeOK, Post, GreaterOf
<1>4. RetainsNewest'
  <2> SUFFICES ASSUME NEW q \in Rooms
               PROVE  /\ Len(messages'[q]) = LesserOf(Capacity, nextSeq'[q] - 1)
                      /\ \A i \in DOMAIN messages'[q] :
                           messages'[q][i].seq = nextSeq'[q] - 1 - Len(messages'[q]) + i
    BY DEF RetainsNewest, LastSeq, Dropped
  <2>1. nextSeq[r] \in Nat /\ Len(p) \in Nat
    BY <1>1 DEF StoreInv, StoreTypeOK
  <2>2. CASE q = r
    <3>1. messages'[q] = p /\ nextSeq'[q] - 1 = nextSeq[r]
      BY <1>2, <2>1, <2>2 DEF StoreInv, StoreTypeOK, Post
    <3> QED BY <1>1, <3>1
  <2>3. CASE q # r
    <3>1. messages'[q] = messages[q] /\ nextSeq'[q] = nextSeq[q]
      BY <1>2, <2>3 DEF StoreInv, StoreTypeOK, Post
    <3> QED BY <3>1 DEF StoreInv, RetainsNewest, LastSeq, Dropped
  <2> QED BY <2>2, <2>3
<1>5. CursorWithinLog'
  BY DEF StoreInv, StoreTypeOK, CursorWithinLog, LastSeq, Post, GreaterOf
<1> QED BY <1>3, <1>4, <1>5 DEF StoreInv

\* StoreInv is inductive.
LEMMA StoreStepInv == StoreInv /\ [StoreNext]_storeVars => StoreInv'
<1> SUFFICES ASSUME StoreInv, [StoreNext]_storeVars PROVE StoreInv'
  OBVIOUS
<1>1. ASSUME NEW r \in Rooms, NEW s \in Ids, NEW t \in Topics \cup {NoTopic}, Join(r, s, t)
      PROVE  StoreInv'
  <2>1. StoreTypeOK'
    BY <1>1 DEF StoreInv, StoreTypeOK, Join, TopicAfterJoin
  <2> QED BY <1>1, <2>1, LogUnchanged DEF StoreInv, Join
<1>2. ASSUME NEW r \in Rooms, NEW s \in Ids, Leave(r, s)
      PROVE  StoreInv'
  <2>1. UNCHANGED <<messages, nextSeq, cursor>>
    BY <1>2, LeaveKeepsLog
  <2>2. StoreTypeOK'
    BY <1>2, <2>1 DEF StoreInv, StoreTypeOK, Leave
  <2> QED BY <2>1, <2>2, LogUnchanged DEF StoreInv
<1>3. ASSUME NEW s \in Ids, EvictSession(s)
      PROVE  StoreInv'
  <2>1. StoreTypeOK'
    BY <1>3 DEF StoreInv, StoreTypeOK, EvictSession
  <2> QED BY <1>3, <2>1, LogUnchanged DEF StoreInv, EvictSession
<1>4. ASSUME NEW r \in Rooms, NEW s \in Ids, NEW n \in Names, Post(r, s, n)
      PROVE  StoreInv'
  BY <1>4, PostKeepsInv
<1>5. ASSUME NEW r \in Rooms, NEW n \in Names, NEW q \in SeqArgs, SetCursor(r, n, q)
      PROVE  StoreInv'
  <2>1. CursorAfter(r, n, q) \in Nat /\ CursorAfter(r, n, q) <= LastSeq(r)
    BY SeqArgsAssumption DEF StoreInv, StoreTypeOK, CursorWithinLog, CursorAfter, GreaterOf, LesserOf, LastSeq
  <2>2. StoreTypeOK'
    BY <1>5, <2>1 DEF StoreInv, StoreTypeOK, SetCursor
  <2>3. RetainsNewest'
    BY <1>5 DEF StoreInv, RetainsNewest, SetCursor, LastSeq, Dropped
  <2>4. CursorWithinLog'
    BY <1>5, <2>1 DEF StoreInv, StoreTypeOK, CursorWithinLog, SetCursor, LastSeq
  <2> QED BY <2>2, <2>3, <2>4 DEF StoreInv
<1>6. CASE UNCHANGED storeVars
  BY <1>6 DEF StoreInv, StoreTypeOK, RetainsNewest, CursorWithinLog, LastSeq, Dropped, storeVars
<1> QED BY <1>1, <1>2, <1>3, <1>4, <1>5, <1>6 DEF StoreNext

-----------------------------------------------------------------------------
\* The variables of class RoomStore always have the shape the code gives them.
THEOREM StoreTypeCorrect == StoreSpec => []StoreTypeOK
<1>1. StoreInv => StoreTypeOK
  BY DEF StoreInv
<1> QED BY <1>1, StoreInitInv, StoreStepInv, PTL DEF StoreSpec

\* post's push and splice keep exactly the newest messages, consecutively
\* numbered up to the last number issued.
THEOREM BufferIsNewest == StoreSpec => []RetainsNewest
<1>1. StoreInv => RetainsNewest
  BY DEF StoreInv
<1> QED BY <1>1, StoreInitInv, StoreStepInv, PTL DEF StoreSpec

\* No read cursor is ever past its room's newest message: setCursor's clamp,
\* post's own cursor and leave's condition for deleting a room.
THEOREM CursorInsideLog == StoreSpec => []CursorWithinLog
<1>1. StoreInv => CursorWithinLog
  BY DEF StoreInv
<1> QED BY <1>1, StoreInitInv, StoreStepInv, PTL DEF StoreSpec

-----------------------------------------------------------------------------
\* Every step of the store is a step of RoomLog or leaves it alone.  Join,
\* Leave and EvictSession stutter, Post appends, SetCursor marks.
LEMMA StoreStepRefinesLog ==
  StoreInv /\ StoreInv' /\ [StoreNext]_storeVars => [Log!LogNext]_(Log!logVars)
<1> DEFINE lastOf == [r \in Rooms |-> nextSeq[r] - 1]
<1> SUFFICES ASSUME StoreInv, StoreInv', [StoreNext]_storeVars
             PROVE  [Log!LogNext]_(Log!logVars)
  OBVIOUS
<1>0. ASSUME UNCHANGED <<nextSeq, cursor>>
      PROVE  UNCHANGED Log!logVars
  BY <1>0 DEF Log!logVars, LastSeq
<1>1. ASSUME NEW r \in Rooms, NEW s \in Ids, NEW n \in Names, Post(r, s, n)
      PROVE  Log!LogAppend(r, n)
  <2>1. /\ nextSeq \in [Rooms -> Nat] /\ cursor \in [Rooms -> [Names -> Nat]]
        /\ cursor[r][n] <= nextSeq[r] - 1
    BY DEF StoreInv, StoreTypeOK, CursorWithinLog, LastSeq
  <2>2. /\ nextSeq' = [nextSeq EXCEPT ![r] = @ + 1]
        /\ cursor' = [cursor EXCEPT ![r][n] = GreaterOf(@, nextSeq[r])]
    BY <1>1 DEF Post
  <2>3. lastOf' = [lastOf EXCEPT ![r] = @ + 1]
    <3>1. \A q \in Rooms : nextSeq'[q] - 1 = IF q = r THEN nextSeq[r] - 1 + 1 ELSE nextSeq[q] - 1
      BY <2>1, <2>2
    <3>2. lastOf' = [q \in Rooms |-> IF q = r THEN nextSeq[r] - 1 + 1 ELSE nextSeq[q] - 1]
      BY <3>1
    <3> QED BY <3>2
  <2>4. GreaterOf(cursor[r][n], nextSeq[r]) = lastOf[r] + 1
    BY <2>1 DEF GreaterOf
  <2>5. cursor' = [cursor EXCEPT ![r][n] = lastOf[r] + 1]
    BY <2>1, <2>2, <2>4
  <2> QED BY <2>3, <2>5 DEF Log!LogAppend, LastSeq
<1>2. ASSUME NEW r \in Rooms, NEW n \in Names, NEW q \in SeqArgs, SetCursor(r, n, q)
      PROVE  Log!LogMark(r, n)
  <2>1. /\ nextSeq \in [Rooms -> Nat] /\ cursor \in [Rooms -> [Names -> Nat]]
        /\ cursor[r][n] <= nextSeq[r] - 1
    BY DEF StoreInv, StoreTypeOK, CursorWithinLog, LastSeq
  <2>2. CursorAfter(r, n, q) \in cursor[r][n] .. lastOf[r]
    BY <2>1, SeqArgsAssumption DEF CursorAfter, GreaterOf, LesserOf, LastSeq
  <2>3. cursor' = [cursor EXCEPT ![r][n] = CursorAfter(r, n, q)] /\ UNCHANGED nextSeq
    BY <1>2 DEF SetCursor
  <2>4. UNCHANGED lastOf
    BY <2>3
  <2> QED BY <2>2, <2>3, <2>4 DEF Log!LogMark, LastSeq
<1>3. CASE StoreNext
  <2>1. ASSUME NEW r \in Rooms, NEW s \in Ids, NEW t \in Topics \cup {NoTopic}, Join(r, s, t)
        PROVE  UNCHANGED <<nextSeq, cursor>>
    BY <2>1 DEF Join
  <2>2. ASSUME NEW r \in Rooms, NEW s \in Ids, Leave(r, s)
        PROVE  UNCHANGED <<nextSeq, cursor>>
    BY <2>2, LeaveKeepsLog
  <2>3. ASSUME NEW s \in Ids, EvictSession(s)
        PROVE  UNCHANGED <<nextSeq, cursor>>
    BY <2>3 DEF EvictSession
  <2> QED BY <1>0, <1>1, <1>2, <1>3, <2>1, <2>2, <2>3 DEF StoreNext, Log!LogNext
<1>4. CASE UNCHANGED storeVars
  BY <1>0, <1>4 DEF storeVars
<1> QED BY <1>3, <1>4

\* The rooms of the broker implement the abstract log: consecutive numbers,
\* never reissued, and read positions that stay inside and never move back,
\* whatever rotates out, leaves, disconnects or is deleted.
THEOREM StoreRefinesLog == StoreSpec => ImplementsRoomLog
<1>1. StoreInit => Log!LogInit
  BY DEF StoreInit, Log!LogInit, LastSeq
<1> QED BY <1>1, StoreInitInv, StoreStepInv, StoreStepRefinesLog, PTL
        DEF StoreSpec, ImplementsRoomLog, Log!LogSpec

\* No step lowers a counter or a cursor.
LEMMA StoreStepGrows ==
  ASSUME StoreInv, [StoreNext]_storeVars
  PROVE  /\ \A r \in Rooms : nextSeq'[r] >= nextSeq[r]
         /\ \A r \in Rooms, n \in Names : cursor'[r][n] >= cursor[r][n]
<1> DEFINE Grows == /\ \A r \in Rooms : nextSeq'[r] >= nextSeq[r]
                    /\ \A r \in Rooms, n \in Names : cursor'[r][n] >= cursor[r][n]
<1>0. nextSeq \in [Rooms -> Nat] /\ cursor \in [Rooms -> [Names -> Nat]]
  BY DEF StoreInv, StoreTypeOK
<1>1. ASSUME UNCHANGED <<nextSeq, cursor>> PROVE Grows
  BY <1>0, <1>1
<1>2. ASSUME NEW r \in Rooms, NEW s \in Ids, NEW n \in Names, Post(r, s, n) PROVE Grows
  BY <1>0, <1>2 DEF Post, GreaterOf
<1>3. ASSUME NEW r \in Rooms, NEW n \in Names, NEW q \in SeqArgs, SetCursor(r, n, q) PROVE Grows
  <2>1. CursorAfter(r, n, q) \in Nat /\ CursorAfter(r, n, q) >= cursor[r][n]
    BY <1>0, SeqArgsAssumption DEF CursorAfter, GreaterOf, LesserOf, LastSeq
  <2> QED BY <1>0, <1>3, <2>1 DEF SetCursor
<1>4. ASSUME NEW r \in Rooms, NEW s \in Ids, Leave(r, s) PROVE Grows
  BY <1>1, <1>4, LeaveKeepsLog
<1> HIDE DEF Grows
<1>5. ASSUME NEW r \in Rooms, NEW s \in Ids, NEW t \in Topics \cup {NoTopic}, Join(r, s, t)
      PROVE  Grows
  BY <1>1, <1>5 DEF Join
<1>6. ASSUME NEW s \in Ids, EvictSession(s) PROVE Grows
  BY <1>1, <1>6 DEF EvictSession
<1>7. ASSUME UNCHANGED storeVars PROVE Grows
  BY <1>1, <1>7 DEF storeVars
<1>8. Grows
  BY <1>2, <1>3, <1>4, <1>5, <1>6, <1>7 DEF StoreNext
<1> QED BY <1>8 DEF Grows

\* Read positions never move back and numbers are never reissued, for any
\* number of rooms and roles: leave may delete a room and join create it
\* again, and a role's sessions may come and go.
THEOREM CountersOnlyGrow == StoreSpec => SeqNeverReused /\ CursorNeverRewinds
<1>1. StoreInv /\ [StoreNext]_storeVars
        => /\ [\A r \in Rooms : nextSeq'[r] >= nextSeq[r]]_storeVars
           /\ [\A r \in Rooms, n \in Names : cursor'[r][n] >= cursor[r][n]]_storeVars
  BY StoreStepGrows
<1> QED BY <1>1, StoreInitInv, StoreStepInv, PTL
        DEF StoreSpec, SeqNeverReused, CursorNeverRewinds
=============================================================================
