--------------------------- MODULE RoundtableTool ---------------------------
(***************************************************************************)
(* The reading actions of the roundtable tool (roundtable-tool.ts) as what *)
(* they are on the wire: several requests of client.ts, one after another, *)
(* with the rest of the fleet at work between them.  A digest asks for its *)
(* cursor, fetches what lies after it, and then moves the cursor.          *)
(*                                                                         *)
(* A request is handled by the broker some time after it was written, and  *)
(* its answer may come too late: after REQUEST_TIMEOUT_MS, or when the     *)
(* connection closes, the call fails, but what was written may still be    *)
(* handled.  Joins, leaves and posts are single requests; they are the     *)
(* steps at which the broker handles them.                                 *)
(***************************************************************************)
EXTENDS RoomStore, FiniteSetsExt

CONSTANTS
  Calls,      \* tool calls in flight
  RoleOf,     \* RoleOf[s]: the name session s registered under
  PageLimit   \* room-store.ts fetch's default limit (200)

ASSUME RoleOfAssumption == RoleOf \in [Ids -> Names]
ASSUME PageLimitAssumption == PageLimit \in Nat \ {0}

VARIABLES
  call,       \* call[k]: where call k is, and what it was told so far
  fetched,    \* fetched[r][n]: every seq a digest of role n received
  own         \* own[r][n]: the messages role n posted

toolVars == <<storeVars, call, fetched, own>>

Idle == [at |-> "idle"]
Pos(k) == call[k].at
RoleFor(k) == RoleOf[call[k].by]

ToolInit ==
  /\ StoreInit
  /\ call = [k \in Calls |-> Idle]
  /\ fetched = [r \in Rooms |-> [n \in Names |-> {}]]
  /\ own = fetched

-----------------------------------------------------------------------------
\* The single-request actions, when the broker handles them.
JoinRoom(s, r) == Join(r, s, NoTopic) /\ UNCHANGED <<call, fetched, own>>
LeaveRoom(s, r) == Leave(r, s) /\ UNCHANGED <<call, fetched, own>>
PostMessage(s, r) ==
  /\ Post(r, s, RoleOf[s])
  /\ own' = [own EXCEPT ![r][RoleOf[s]] = @ \cup {nextSeq[r]}]
  /\ UNCHANGED <<call, fetched>>

\* execute: digest and peek write the cursor probe, export its fetch.
StartCall(k, op, s, r) ==
  /\ Pos(k) = "idle"
  /\ call' = [call EXCEPT ![k] =
       [at |-> IF op = "export" THEN "fetch" ELSE "probe",
        op |-> op, by |-> s, room |-> r, after |-> 0, got |-> {}, last |-> 0]]
  /\ UNCHANGED <<storeVars, fetched, own>>

\* cursorFor: the probe's answer carries the role's cursor.
Probe(k) ==
  /\ Pos(k) = "probe" /\ call[k].room \in live
  /\ call' = [call EXCEPT ![k].at = "fetch", ![k].after = cursor[call[k].room][RoleFor(k)]]
  /\ UNCHANGED <<storeVars, fetched, own>>

\* A variant that exports a page of the default size.
ShortLimit(op) == PageLimit

\* How much a fetch asks for: export the whole retention, a digest a page.
LimitOf(op) == IF op = "export" THEN Capacity ELSE PageLimit

\* buildDigest's consumedSeq: the newest message fetched, 0 if there is none.
ConsumedSeq(k) == IF call[k].got = {} THEN 0 ELSE Max(call[k].got)

\* fetch: the answer to a peek or an export ends the call, and so does an
\* empty one; a digest goes on to move the cursor.
Fetch(k) ==
  LET c == call[k]
      page == Fetched(c.room, c.after, LimitOf(c.op)) IN
  /\ Pos(k) = "fetch" /\ c.room \in live
  /\ call' = [call EXCEPT
       ![k].at = IF c.op = "digest" /\ page # {} THEN "mark" ELSE "done",
       ![k].got = page, ![k].last = LastSeq(c.room)]
  /\ fetched' = IF c.op = "digest"
                  THEN [fetched EXCEPT ![c.room][RoleFor(k)] = @ \cup page] ELSE fetched
  /\ UNCHANGED <<storeVars, own>>

\* A variant that marks the room read up to its newest message.
MarkNewest(k) == LastSeq(call[k].room)

\* What set_cursor is asked for.
MarkOf(k) == ConsumedSeq(k)

\* set_cursor, handled: for a call that waits for the answer, or one that
\* has failed meanwhile.
Mark(k) ==
  /\ Pos(k) \in {"mark", "late"}
  /\ SetCursor(call[k].room, RoleFor(k), MarkOf(k))
  /\ call' = [call EXCEPT ![k].at = IF Pos(k) = "mark" THEN "marked" ELSE "failed"]
  /\ UNCHANGED <<fetched, own>>

\* The answer arrives and the digest is returned to the agent.
Report(k) ==
  /\ Pos(k) = "marked"
  /\ call' = [call EXCEPT ![k].at = "done"]
  /\ UNCHANGED <<storeVars, fetched, own>>

\* The room is gone: the broker answers with an error.
Reject(k) ==
  /\ Pos(k) \in {"probe", "fetch", "mark", "late"} /\ call[k].room \notin live
  /\ call' = [call EXCEPT ![k].at = "failed"]
  /\ UNCHANGED <<storeVars, fetched, own>>

\* The request times out or the connection closes.  A set_cursor that was
\* written may still reach the broker.
Fail(k) ==
  /\ Pos(k) \in {"probe", "fetch", "mark", "marked"}
  /\ call' = [call EXCEPT ![k].at = IF Pos(k) = "mark" THEN "late" ELSE "failed"]
  /\ UNCHANGED <<storeVars, fetched, own>>

-----------------------------------------------------------------------------
ToolNext ==
  \/ \E s \in Ids, r \in Rooms : JoinRoom(s, r) \/ LeaveRoom(s, r) \/ PostMessage(s, r)
  \/ \E k \in Calls :
       \/ \E op \in {"digest", "peek", "export"}, s \in Ids, r \in Rooms : StartCall(k, op, s, r)
       \/ Probe(k) \/ Fetch(k) \/ Mark(k) \/ Report(k) \/ Reject(k) \/ Fail(k)

ToolSpec == ToolInit /\ [][ToolNext]_toolVars

-----------------------------------------------------------------------------
CallRecord ==
  [at : {"probe", "fetch", "mark", "marked", "late", "done", "failed"},
   op : {"digest", "peek", "export"}, by : Ids, room : Rooms,
   after : Nat, got : SUBSET Nat, last : Nat]

ToolTypeOK ==
  /\ StoreTypeOK
  /\ call \in [Calls -> {Idle} \cup CallRecord]
  /\ fetched \in [Rooms -> [Names -> SUBSET Nat]]
  /\ own \in [Rooms -> [Names -> SUBSET Nat]]

\* The last message role n posted in r, 0 if it posted none.
OwnLast(r, n) == IF own[r][n] = {} THEN 0 ELSE Max(own[r][n])

\* A message counts as read by a role only if a digest of that role received
\* it, or it rotated out of the buffer, or the role has posted after it.
\* What arrives between a digest's fetch and its set_cursor stays unread,
\* also with several digests of one role at once and set_cursors that are
\* handled after their call has failed.
ReadMeansFetched ==
  \A r \in Rooms, n \in Names : \A q \in 1 .. cursor[r][n] :
    q \in fetched[r][n] \/ q <= OwnLast(r, n) \/ q <= Dropped(r)

\* An export accounts for every message ever posted: those in the file and
\* those the result says had rotated out (droppedBefore) add up to lastSeq.
ExportAccountsForAll ==
  \A k \in Calls : Pos(k) = "done" /\ call[k].op = "export" =>
    LET got == call[k].got
        droppedBefore == IF got = {} THEN 0 ELSE Min(got) - 1 IN
    droppedBefore + Cardinality(got) = call[k].last
=============================================================================
