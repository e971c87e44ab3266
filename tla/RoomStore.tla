------------------------------ MODULE RoomStore ------------------------------
(***************************************************************************)
(* The state of the roundtable broker's rooms, class RoomStore of          *)
(* packages/roundtable/broker/room-store.ts: members, a ring buffer of     *)
(* messages, the sequence counter and one read cursor per role name.       *)
(*                                                                         *)
(* The class's Map of rooms is the set live together with one function     *)
(* per field of RoomState.  A room outside live has the field values a new *)
(* RoomState would get, so creating a room only adds it to live and        *)
(* deleting it puts the initial values back.  Message text, ids, replyTo   *)
(* and timestamps are not represented: no operation branches on them.      *)
(***************************************************************************)
EXTENDS Integers, Sequences, FiniteSets

CONSTANTS
  Rooms,      \* room names clients may use
  Ids,        \* session ids
  Names,      \* role names
  SeqArgs,    \* the seq of a set_cursor, the afterSeq of a fetch
  Topics,     \* topics a join may carry
  NoTopic,    \* topic === undefined
  Capacity    \* RoomStore's capacity (DEFAULT_ROOM_CAPACITY = 500)

ASSUME CapacityAssumption == Capacity \in Nat \ {0}
ASSUME SeqArgsAssumption == SeqArgs \subseteq Int
ASSUME TopicAssumption == NoTopic \notin Topics

VARIABLES
  live,       \* keys of the rooms Map
  members,    \* members[r]: session ids in RoomState.members
  messages,   \* messages[r]: the ring buffer, oldest first
  nextSeq,    \* nextSeq[r]: next sequence number to issue
  cursor,     \* cursor[r][n]: read cursor of role n (absent entry = 0)
  topic       \* topic[r]

storeVars == <<live, members, messages, nextSeq, cursor, topic>>

Message == [seq : Nat \ {0}, from : Names]

LesserOf(a, b)  == IF a <= b THEN a ELSE b
GreaterOf(a, b) == IF a >= b THEN a ELSE b

LastSeq(r) == nextSeq[r] - 1

\* How many of r's messages have rotated out of the ring buffer.
Dropped(r) == LastSeq(r) - Len(messages[r])

StoreInit ==
  /\ live = {}
  /\ members = [r \in Rooms |-> {}]
  /\ messages = [r \in Rooms |-> <<>>]
  /\ nextSeq = [r \in Rooms |-> 1]
  /\ cursor = [r \in Rooms |-> [n \in Names |-> 0]]
  /\ topic = [r \in Rooms |-> NoTopic]

-----------------------------------------------------------------------------
\* The topic of r after a join that carries t: a topic, once set, stays.
TopicAfterJoin(r, t) == IF topic[r] = NoTopic THEN t ELSE topic[r]

\* join: create the room if it is missing, add the member, keep the cursor.
Join(r, s, t) ==
  /\ live' = live \cup {r}
  /\ members' = [members EXCEPT ![r] = @ \cup {s}]
  /\ topic' = [topic EXCEPT ![r] = TopicAfterJoin(r, t)]
  /\ UNCHANGED <<messages, nextSeq, cursor>>

\* A variant in which leave forgets to look at the messages.
DisposableWhenLeft(r, rest) == rest = {}

\* When leave removes the room: nobody is left and nothing is in the buffer.
Disposable(r, rest) == rest = {} /\ messages[r] = <<>>

\* leave: drop the member, and the room with it when it is disposable.
Leave(r, s) ==
  LET rest == members[r] \ {s} IN
  /\ members' = [members EXCEPT ![r] = rest]
  /\ IF Disposable(r, rest)
       THEN /\ live' = live \ {r}
            /\ messages' = [messages EXCEPT ![r] = <<>>]
            /\ nextSeq' = [nextSeq EXCEPT ![r] = 1]
            /\ cursor' = [cursor EXCEPT ![r] = [n \in Names |-> 0]]
            /\ topic' = [topic EXCEPT ![r] = NoTopic]
       ELSE UNCHANGED <<live, messages, nextSeq, cursor, topic>>

\* evictSession: drop the member everywhere.  Unlike leave, no room goes.
EvictSession(s) ==
  /\ members' = [r \in Rooms |-> members[r] \ {s}]
  /\ UNCHANGED <<live, messages, nextSeq, cursor, topic>>

\* A variant that cuts the buffer at the wrong end.
PushedOldest(r, m) ==
  LET all == Append(messages[r], m) IN SubSeq(all, 1, LesserOf(Len(all), Capacity))

\* The ring buffer after pushing m: the newest Capacity messages.
Pushed(r, m) ==
  LET all == Append(messages[r], m) IN
  IF Len(all) > Capacity
    THEN SubSeq(all, Len(all) - Capacity + 1, Len(all))
    ELSE all

\* What post checks before it issues a sequence number.
CanPost(r, s) == r \in live /\ s \in members[r]

\* post: number the message, push it, and mark it read for its author.
Post(r, s, n) ==
  /\ CanPost(r, s)
  /\ messages' = [messages EXCEPT ![r] = Pushed(r, [seq |-> nextSeq[r], from |-> n])]
  /\ nextSeq' = [nextSeq EXCEPT ![r] = @ + 1]
  /\ cursor' = [cursor EXCEPT ![r][n] = GreaterOf(@, nextSeq[r])]
  /\ UNCHANGED <<live, members, topic>>

\* Variants without the clamp to the newest message, and without the maximum.
CursorUnclamped(r, n, q) == GreaterOf(cursor[r][n], q)

\* Where setCursor puts the cursor of n when asked for q.
CursorAfter(r, n, q) == GreaterOf(cursor[r][n], LesserOf(q, LastSeq(r)))

\* setCursor: forward only, and never past the newest message.
SetCursor(r, n, q) ==
  /\ r \in live
  /\ cursor' = [cursor EXCEPT ![r][n] = CursorAfter(r, n, q)]
  /\ UNCHANGED <<live, members, messages, nextSeq, topic>>

\* fetch: the retained sequence numbers after q, the lowest `limit` of them.
Fetched(r, q, limit) ==
  LET after == {m \in {messages[r][i].seq : i \in DOMAIN messages[r]} : m > q} IN
  {m \in after : Cardinality({k \in after : k <= m}) <= GreaterOf(1, limit)}

-----------------------------------------------------------------------------
StoreNext ==
  \/ \E r \in Rooms, s \in Ids, t \in Topics \cup {NoTopic} : Join(r, s, t)
  \/ \E r \in Rooms, s \in Ids : Leave(r, s)
  \/ \E s \in Ids : EvictSession(s)
  \/ \E r \in Rooms, s \in Ids, n \in Names : Post(r, s, n)
  \/ \E r \in Rooms, n \in Names, q \in SeqArgs : SetCursor(r, n, q)

StoreSpec == StoreInit /\ [][StoreNext]_storeVars

-----------------------------------------------------------------------------
StoreTypeOK ==
  /\ live \subseteq Rooms
  /\ members \in [Rooms -> SUBSET Ids]
  /\ messages \in [Rooms -> Seq(Message)]
  /\ nextSeq \in [Rooms -> Nat \ {0}]
  /\ cursor \in [Rooms -> [Names -> Nat]]
  /\ topic \in [Rooms -> Topics \cup {NoTopic}]

\* The ring buffer holds the newest messages and nothing else: what is
\* retained is the unbroken run of sequence numbers that ends at LastSeq,
\* Capacity of them once that many were posted (post's push and splice).
RetainsNewest ==
  \A r \in Rooms :
    /\ Len(messages[r]) = LesserOf(Capacity, LastSeq(r))
    /\ \A i \in DOMAIN messages[r] : messages[r][i].seq = Dropped(r) + i

\* No cursor is ever past the newest message of its room, even when the room
\* was removed by leave and created again (setCursor's clamp, post's own
\* cursor, and the condition under which leave deletes).  The unread count
\* the broker reports, LastSeq - cursor, is therefore never negative.
CursorWithinLog == \A r \in Rooms, n \in Names : cursor[r][n] <= LastSeq(r)

\* A sequence number, once issued in a room, is never issued again: removing
\* an unused room and creating it again never rewinds the counter.  afterSeq
\* and the cursors are stable only because of this.
SeqNeverReused == [][\A r \in Rooms : nextSeq'[r] >= nextSeq[r]]_storeVars

\* A role's read position never moves back while the broker lives, whichever
\* session of that role posts, digests, leaves or is evicted.
CursorNeverRewinds ==
  [][\A r \in Rooms, n \in Names : cursor'[r][n] >= cursor[r][n]]_storeVars

-----------------------------------------------------------------------------
\* The rooms implement RoomLog.
Log == INSTANCE RoomLog WITH last <- [r \in Rooms |-> LastSeq(r)], read <- cursor
ImplementsRoomLog == Log!LogSpec
=============================================================================
