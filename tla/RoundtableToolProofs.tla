------------------------ MODULE RoundtableToolProofs -------------------------
(***************************************************************************)
(* Proofs about the reading actions of the roundtable tool, for any number *)
(* of calls, sessions, roles and rooms, any capacity and any page limit.   *)
(* The rooms' own invariant is RoomStoreProofs' StoreInv.  At the end: what *)
(* boundedRender, which puts into text what those actions read, guarantees *)
(* for any number of items, whatever lengths the formatters return.        *)
(***************************************************************************)
EXTENDS RoundtableTool, RoomStoreProofs, BoundedRender, FiniteSetTheorems

-----------------------------------------------------------------------------
\* The inductive invariant.

\* Message q of room r needs no digest of role n any more.
Accounted(r, n, q) == q \in fetched[r][n] \/ q <= OwnLast(r, n) \/ q <= Dropped(r)

OwnInLog == \A r \in Rooms, n \in Names : own[r][n] \subseteq 1 .. LastSeq(r)

\* What call k relies on: it fetches after what its role has read already, or
\* from the start; what its set_cursor is about to mark has been fetched; only
\* a digest marks; and a finished export has the whole log.
CallOK(k) ==
  /\ Pos(k) = "probe" => call[k].op # "export"
  /\ Pos(k) = "fetch" =>
       IF call[k].op = "export" THEN call[k].after = 0
                                ELSE call[k].after <= cursor[call[k].room][RoleFor(k)]
  /\ Pos(k) \in {"mark", "marked", "late"} => call[k].op = "digest"
  /\ Pos(k) \in {"mark", "late"} =>
       /\ ConsumedSeq(k) \in 1 .. LastSeq(call[k].room)
       /\ \A q \in 1 .. ConsumedSeq(k) : Accounted(call[k].room, RoleFor(k), q)
  /\ Pos(k) = "done" /\ call[k].op = "export" =>
       (IF call[k].got = {} THEN 0 ELSE Min(call[k].got) - 1) + Cardinality(call[k].got)
         = call[k].last

CallsInv == \A k \in Calls : CallOK(k)
ToolInv == ToolTypeOK /\ StoreInv /\ OwnInLog /\ ReadMeansFetched /\ CallsInv

-----------------------------------------------------------------------------
\* What a fetch returns.

LEMMA MaxOfRun == ASSUME NEW a \in Nat, NEW b \in Nat, a <= b PROVE Max(a .. b) = b
<1>1. b \in a .. b /\ \A y \in a .. b : b >= y
  OBVIOUS
<1>2. \A x \in a .. b : (\A y \in a .. b : x >= y) => x = b
  OBVIOUS
<1> QED BY <1>1, <1>2 DEF Max

LEMMA MinOfRun == ASSUME NEW a \in Nat, NEW b \in Nat, a <= b PROVE Min(a .. b) = a
<1>1. a \in a .. b /\ \A y \in a .. b : a =< y
  OBVIOUS
<1>2. \A x \in a .. b : (\A y \in a .. b : x =< y) => x = a
  OBVIOUS
<1> QED BY <1>1, <1>2 DEF Min

\* The sizes of a room's log.
LEMMA RoomSizes ==
  ASSUME StoreInv, NEW r \in Rooms
  PROVE  /\ nextSeq[r] \in Nat \ {0} /\ LastSeq(r) = nextSeq[r] - 1
         /\ Len(messages[r]) \in Nat /\ Len(messages[r]) = LesserOf(Capacity, LastSeq(r))
         /\ DOMAIN messages[r] = 1 .. Len(messages[r])
         /\ Dropped(r) = LastSeq(r) - Len(messages[r])
         /\ Dropped(r) \in Nat /\ LastSeq(r) \in Nat /\ Dropped(r) <= LastSeq(r)
<1>1. messages[r] \in Seq(Message) /\ nextSeq[r] \in Nat \ {0}
  BY DEF StoreInv, StoreTypeOK
<1>2. Len(messages[r]) \in Nat /\ DOMAIN messages[r] = 1 .. Len(messages[r])
  BY <1>1
<1>3. Len(messages[r]) = LesserOf(Capacity, LastSeq(r))
  BY DEF StoreInv, RetainsNewest
<1> QED BY <1>1, <1>2, <1>3, CapacityAssumption DEF LastSeq, Dropped, LesserOf

\* fetch returns an unbroken run that starts right after what was asked for or
\* has rotated out.
LEMMA FetchedIsRun ==
  ASSUME StoreInv, NEW r \in Rooms, NEW after \in Nat, NEW limit \in Nat \ {0}
  PROVE  LET from == GreaterOf(after, Dropped(r)) IN
         Fetched(r, after, limit) = (from + 1) .. LesserOf(from + limit, LastSeq(r))
<1> DEFINE from == GreaterOf(after, Dropped(r))
           seqs == {messages[r][i].seq : i \in DOMAIN messages[r]}
           later == {m \in seqs : m > after}
<1>1. /\ nextSeq[r] \in Nat \ {0} /\ Len(messages[r]) \in Nat
      /\ DOMAIN messages[r] = 1 .. Len(messages[r])
      /\ Dropped(r) = LastSeq(r) - Len(messages[r])
      /\ Dropped(r) \in Nat /\ LastSeq(r) \in Nat
  BY RoomSizes
<1>2. \A i \in 1 .. Len(messages[r]) : messages[r][i].seq = Dropped(r) + i
  BY <1>1 DEF StoreInv, RetainsNewest
<1>3. seqs = (Dropped(r) + 1) .. LastSeq(r)
  <2>1. ASSUME NEW m \in (Dropped(r) + 1) .. LastSeq(r) PROVE m \in seqs
    <3>1. m - Dropped(r) \in 1 .. Len(messages[r])
      BY <1>1
    <3>2. messages[r][m - Dropped(r)].seq = Dropped(r) + (m - Dropped(r))
      BY <1>2, <3>1
    <3>3. Dropped(r) + (m - Dropped(r)) = m
      BY <1>1
    <3> QED BY <1>1, <3>1, <3>2, <3>3
  <2>2. ASSUME NEW m \in seqs PROVE m \in (Dropped(r) + 1) .. LastSeq(r)
    <3>1. PICK i \in 1 .. Len(messages[r]) : m = messages[r][i].seq
      BY <1>1
    <3>2. m = Dropped(r) + i
      BY <1>2, <3>1
    <3> HIDE DEF seqs
    <3> QED BY <1>1, <3>2
  <2> QED BY <2>1, <2>2
<1>4. from \in Nat /\ later = (from + 1) .. LastSeq(r)
  BY <1>1, <1>3 DEF GreaterOf
<1> HIDE DEF from, later
<1>5. ASSUME NEW m \in later
      PROVE  Cardinality({j \in later : j <= m}) <= GreaterOf(1, limit) <=> m <= from + limit
  <2>1. m \in Nat /\ m >= from + 1 /\ {j \in later : j <= m} = (from + 1) .. m
    BY <1>1, <1>4
  <2>2. Cardinality((from + 1) .. m) = m - from
    BY <1>4, <2>1, FS_Interval
  <2>3. GreaterOf(1, limit) = limit
    BY DEF GreaterOf
  <2>4. m - from <= limit <=> m <= from + limit
    BY <1>4, <2>1
  <2> QED BY <2>1, <2>2, <2>3, <2>4
<1>6. Fetched(r, after, limit) =
        {m \in later : Cardinality({j \in later : j <= m}) <= GreaterOf(1, limit)}
  BY DEF Fetched, later
<1>7. Fetched(r, after, limit) = {m \in later : m <= from + limit}
  BY <1>5, <1>6
<1>8. {m \in later : m <= from + limit} = (from + 1) .. LesserOf(from + limit, LastSeq(r))
  BY <1>1, <1>4 DEF LesserOf
<1> QED BY <1>7, <1>8 DEF from

-----------------------------------------------------------------------------
\* What was accounted for stays so while the rooms only grow: a new own
\* message is newer than every other.
LEMMA AccountedStays ==
  ASSUME ToolInv, StoreInv', NEW r \in Rooms, NEW n \in Names,
         nextSeq'[r] >= nextSeq[r],
         fetched[r][n] \subseteq fetched'[r][n],
         \/ own'[r][n] = own[r][n]
         \/ nextSeq[r] < nextSeq'[r] /\ own'[r][n] = own[r][n] \cup {nextSeq[r]}
  PROVE  \A q \in 1 .. LastSeq(r) : Accounted(r, n, q) => Accounted(r, n, q)'
<1>1. /\ nextSeq[r] \in Nat /\ LastSeq(r) = nextSeq[r] - 1 /\ Capacity \in Nat
      /\ Dropped(r) = LastSeq(r) - LesserOf(Capacity, LastSeq(r))
  BY RoomSizes, CapacityAssumption DEF ToolInv
<1>2. /\ nextSeq'[r] \in Nat /\ LastSeq(r)' = nextSeq'[r] - 1
      /\ Dropped(r)' = LastSeq(r)' - LesserOf(Capacity, LastSeq(r)')
  BY DEF StoreInv, StoreTypeOK, RetainsNewest, LastSeq, Dropped
<1>3. Dropped(r) <= Dropped(r)' /\ Dropped(r) \in Int /\ Dropped(r)' \in Int
  BY <1>1, <1>2 DEF LesserOf
<1>4. own[r][n] \subseteq 1 .. LastSeq(r)
  BY DEF ToolInv, OwnInLog
<1> SUFFICES ASSUME NEW q \in 1 .. LastSeq(r), Accounted(r, n, q) PROVE Accounted(r, n, q)'
  OBVIOUS
<1>5. CASE q \in fetched[r][n]
  BY <1>5 DEF Accounted
<1>6. CASE q <= Dropped(r)
  BY <1>1, <1>3, <1>6 DEF Accounted
<1>7. CASE q <= OwnLast(r, n)
  <2>1. CASE own'[r][n] = own[r][n]
    BY <1>7, <2>1 DEF Accounted, OwnLast
  <2>2. CASE own'[r][n] = own[r][n] \cup {nextSeq[r]}
    <3> DEFINE S == own'[r][n]
    <3>1. nextSeq[r] \in S /\ S \subseteq 1 .. nextSeq[r]
      BY <1>1, <1>4, <2>2
    <3> HIDE DEF S
    <3>2. Max(S) = nextSeq[r]
      <4>1. \A y \in S : nextSeq[r] >= y
        BY <1>1, <3>1
      <4>2. \A x \in S : (\A y \in S : x >= y) => x = nextSeq[r]
        BY <1>1, <3>1
      <4> QED BY <3>1, <4>1, <4>2 DEF Max
    <3>3. OwnLast(r, n)' = nextSeq[r]
      BY <3>1, <3>2 DEF OwnLast, S
    <3> QED BY <1>1, <3>3 DEF Accounted
  <2> QED BY <2>1, <2>2
<1> QED BY <1>5, <1>6, <1>7 DEF Accounted

\* What every step does to the rooms: counters, cursors and records only grow.
RoomsGrow ==
  /\ \A r \in Rooms : nextSeq'[r] >= nextSeq[r]
  /\ \A r \in Rooms, n \in Names :
       /\ cursor'[r][n] >= cursor[r][n]
       /\ fetched[r][n] \subseteq fetched'[r][n]
       /\ \/ own'[r][n] = own[r][n]
          \/ nextSeq[r] < nextSeq'[r] /\ own'[r][n] = own[r][n] \cup {nextSeq[r]}

\* The fields of a call that was begun.
LEMMA CallShape ==
  ASSUME ToolInv, NEW k \in Calls, Pos(k) # "idle"
  PROVE  /\ call[k] \in CallRecord
         /\ call[k].room \in Rooms /\ call[k].by \in Ids /\ RoleFor(k) \in Names
         /\ call[k].after \in Nat /\ call[k].got \subseteq Nat /\ call[k].last \in Nat
<1>1. call[k] \in {Idle} \cup CallRecord
  BY DEF ToolInv, ToolTypeOK
<1>2. call[k] \in CallRecord
  BY <1>1 DEF Pos, Idle
<1> QED BY <1>2, RoleOfAssumption DEF CallRecord, RoleFor

\* A call that a step leaves alone stays right while the rooms only grow.
LEMMA CallStays ==
  ASSUME ToolInv, StoreInv', RoomsGrow, NEW k \in Calls, call'[k] = call[k]
  PROVE  CallOK(k)'
<1>0. CallOK(k)
  BY DEF ToolInv, CallsInv
<1>1. Pos(k)' = Pos(k) /\ ConsumedSeq(k)' = ConsumedSeq(k) /\ RoleFor(k)' = RoleFor(k)
  BY DEF Pos, ConsumedSeq, RoleFor
<1>2. CASE Pos(k) = "fetch"
  <2>1. PICK r \in Rooms, n \in Names :
          r = call[k].room /\ n = RoleFor(k) /\ call[k].after \in Nat
    BY <1>2, CallShape
  <2>2. IF call[k].op = "export" THEN call[k].after = 0 ELSE call[k].after <= cursor[r][n]
    BY <1>0, <1>2, <2>1 DEF CallOK
  <2>3. cursor[r][n] \in Nat /\ cursor'[r][n] \in Nat /\ cursor'[r][n] >= cursor[r][n]
    BY <2>1 DEF ToolInv, StoreInv, StoreTypeOK, RoomsGrow
  <2>4. IF call[k].op = "export" THEN call[k].after = 0 ELSE call[k].after <= cursor'[r][n]
    BY <2>1, <2>2, <2>3
  <2> QED BY <1>1, <1>2, <2>1, <2>4 DEF CallOK
<1>3. CASE Pos(k) \in {"mark", "late"}
  <2>1. PICK r \in Rooms, n \in Names : r = call[k].room /\ n = RoleFor(k)
    BY <1>3, CallShape
  <2>2. /\ ConsumedSeq(k) \in 1 .. LastSeq(r)
        /\ \A q \in 1 .. ConsumedSeq(k) : Accounted(r, n, q)
    BY <1>0, <1>3, <2>1 DEF CallOK
  <2>3. /\ nextSeq[r] \in Nat /\ nextSeq'[r] \in Nat /\ nextSeq'[r] >= nextSeq[r]
        /\ fetched[r][n] \subseteq fetched'[r][n]
        /\ \/ own'[r][n] = own[r][n]
           \/ nextSeq[r] < nextSeq'[r] /\ own'[r][n] = own[r][n] \cup {nextSeq[r]}
    BY <2>1 DEF ToolInv, StoreInv, StoreTypeOK, RoomsGrow
  <2>4. \A q \in 1 .. LastSeq(r) : Accounted(r, n, q) => Accounted(r, n, q)'
    BY <2>1, <2>3, AccountedStays
  <2>5. ConsumedSeq(k) \in 1 .. (nextSeq'[r] - 1) /\ ConsumedSeq(k) \in 1 .. (nextSeq[r] - 1)
    BY <2>2, <2>3 DEF LastSeq
  <2>6. \A q \in 1 .. ConsumedSeq(k) : Accounted(r, n, q)'
    BY <2>2, <2>3, <2>4, <2>5 DEF LastSeq
  <2>7. call'[k].room = r /\ RoleFor(k)' = n
    BY <1>1, <2>1
  <2>8. ConsumedSeq(k)' \in 1 .. LastSeq(r)'
    BY <1>1, <2>5 DEF LastSeq
  <2>9. \A q \in 1 .. ConsumedSeq(k)' : Accounted(r, n, q)'
    BY <1>1, <2>6
  <2>10. ASSUME NEW q \in 1 .. ConsumedSeq(k)' PROVE Accounted(call[k].room, RoleFor(k), q)'
    BY <2>7, <2>9, Zenon DEF LastSeq, Accounted, OwnLast, Dropped
  <2>11. (ConsumedSeq(k) \in 1 .. LastSeq(call[k].room))'
    BY <2>7, <2>8 DEF LastSeq
  <2> QED BY <1>0, <1>1, <1>3, <2>10, <2>11 DEF CallOK
<1>4. CASE Pos(k) \notin {"fetch", "mark", "late"}
  BY <1>0, <1>1, <1>4 DEF CallOK
<1> QED BY <1>2, <1>3, <1>4

-----------------------------------------------------------------------------
\* A step that only lets the rooms grow keeps the invariant if it marks what is
\* accounted for and if the calls it moves are right.
LEMMA GrowthKeepsInv ==
  ASSUME ToolInv, StoreInv', ToolTypeOK', RoomsGrow,
         \A r \in Rooms, n \in Names : \A q \in 1 .. cursor'[r][n] :
           q <= cursor[r][n] \/ Accounted(r, n, q)',
         \A k \in Calls : call'[k] = call[k] \/ CallOK(k)'
  PROVE  ToolInv'
<1>1. OwnInLog'
  <2> SUFFICES ASSUME NEW r \in Rooms, NEW n \in Names
               PROVE  own'[r][n] \subseteq 1 .. (nextSeq'[r] - 1)
    BY DEF OwnInLog, LastSeq
  <2>1. own[r][n] \subseteq 1 .. (nextSeq[r] - 1)
    BY DEF ToolInv, OwnInLog, LastSeq
  <2>2. nextSeq[r] \in Nat \ {0} /\ nextSeq'[r] \in Nat /\ nextSeq'[r] >= nextSeq[r]
    BY DEF ToolInv, StoreInv, StoreTypeOK, RoomsGrow
  <2>3. \/ own'[r][n] = own[r][n]
        \/ nextSeq[r] < nextSeq'[r] /\ own'[r][n] = own[r][n] \cup {nextSeq[r]}
    BY DEF RoomsGrow
  <2> QED BY <2>1, <2>2, <2>3
<1>2. ReadMeansFetched'
  <2> SUFFICES ASSUME NEW r \in Rooms, NEW n \in Names, NEW q \in 1 .. cursor'[r][n]
               PROVE  Accounted(r, n, q)'
    BY DEF ReadMeansFetched, Accounted
  <2>1. CASE q <= cursor[r][n]
    <3>1. /\ cursor[r][n] \in Nat /\ cursor'[r][n] \in Nat /\ nextSeq[r] \in Nat
          /\ cursor[r][n] <= nextSeq[r] - 1
      BY DEF ToolInv, StoreInv, StoreTypeOK, CursorWithinLog, LastSeq
    <3>2. q \in 1 .. cursor[r][n] /\ q \in 1 .. (nextSeq[r] - 1)
      BY <2>1, <3>1
    <3>3. Accounted(r, n, q)
      BY <3>2 DEF ToolInv, ReadMeansFetched, Accounted
    <3>4. \A p \in 1 .. LastSeq(r) : Accounted(r, n, p) => Accounted(r, n, p)'
      BY AccountedStays DEF RoomsGrow
    <3> QED BY <3>2, <3>3, <3>4 DEF LastSeq
  <2>2. CASE Accounted(r, n, q)'
    BY <2>2
  <2> QED BY <2>1, <2>2
<1>3. CallsInv'
  BY CallStays DEF CallsInv
<1> QED BY <1>1, <1>2, <1>3 DEF ToolInv

\* Every initial state satisfies the invariant.
LEMMA ToolInitInv == ToolInit => ToolInv
<1> SUFFICES ASSUME ToolInit PROVE ToolInv
  OBVIOUS
<1>1. StoreInv /\ StoreTypeOK
  BY StoreInitInv DEF ToolInit, StoreInv
<1>2. ToolTypeOK /\ OwnInLog
  BY <1>1 DEF ToolInit, ToolTypeOK, OwnInLog
<1>3. ReadMeansFetched
  BY DEF ToolInit, StoreInit, ReadMeansFetched
<1>4. CallsInv
  BY DEF ToolInit, CallsInv, CallOK, Pos, Idle
<1> QED BY <1>1, <1>2, <1>3, <1>4 DEF ToolInv

\* Steps of one call that leave the rooms and the digests' record alone.
LEMMA CallStepKeepsInv ==
  ASSUME ToolInv, UNCHANGED <<storeVars, fetched, own>>,
         NEW k \in Calls, NEW c \in CallRecord, call' = [call EXCEPT ![k] = c], CallOK(k)'
  PROVE  ToolInv'
<1>1. StoreInv'
  BY DEF ToolInv, StoreInv, StoreTypeOK, RetainsNewest, CursorWithinLog, LastSeq, Dropped,
         storeVars
<1>2. ToolTypeOK' /\ \A j \in Calls : call'[j] = call[j] \/ CallOK(j)'
  BY <1>1 DEF ToolInv, ToolTypeOK, StoreInv
<1>3. RoomsGrow
  BY DEF ToolInv, StoreInv, StoreTypeOK, RoomsGrow, storeVars
<1>4. \A r \in Rooms, n \in Names : \A q \in 1 .. cursor'[r][n] : q <= cursor[r][n]
  BY DEF ToolInv, StoreInv, StoreTypeOK, storeVars
<1> QED BY <1>1, <1>2, <1>3, <1>4, GrowthKeepsInv

\* A call that is written: what it was asked for is still to come.
LEMMA StartCallKeepsInv ==
  ASSUME ToolInv, NEW k \in Calls, NEW op \in {"digest", "peek", "export"},
         NEW s \in Ids, NEW r \in Rooms, StartCall(k, op, s, r)
  PROVE  ToolInv'
<1> DEFINE c == [at |-> IF op = "export" THEN "fetch" ELSE "probe",
                 op |-> op, by |-> s, room |-> r, after |-> 0, got |-> {}, last |-> 0]
<1>1. c \in CallRecord
  BY DEF CallRecord
<1>2. call' = [call EXCEPT ![k] = c] /\ UNCHANGED <<storeVars, fetched, own>>
  BY DEF StartCall
<1>3. call'[k] = c
  BY <1>2 DEF ToolInv, ToolTypeOK
<1>4. CallOK(k)'
  BY <1>3 DEF CallOK, Pos
<1> HIDE DEF c
<1> QED BY <1>1, <1>2, <1>4, CallStepKeepsInv

\* The probe's answer: the cursor it carries is the role's own.
LEMMA ProbeKeepsInv ==
  ASSUME ToolInv, NEW k \in Calls, Probe(k)
  PROVE  ToolInv'
<1> DEFINE x == cursor[call[k].room][RoleFor(k)]
           c == [call[k] EXCEPT !.at = "fetch", !.after = x]
<1>1. call[k] \in CallRecord /\ call[k].room \in Rooms /\ RoleFor(k) \in Names
  BY CallShape DEF Probe
<1>2. x \in Nat
  BY <1>1 DEF ToolInv, StoreInv, StoreTypeOK
<1> HIDE DEF x
<1>3. /\ c \in CallRecord /\ c.at = "fetch" /\ c.after = x
      /\ c.op = call[k].op /\ c.room = call[k].room /\ c.by = call[k].by
  BY <1>1, <1>2 DEF CallRecord
<1>4. call' = [call EXCEPT ![k] = c] /\ UNCHANGED <<storeVars, fetched, own>>
  BY DEF Probe, x
<1>5. call'[k] = c
  BY <1>4 DEF ToolInv, ToolTypeOK
<1>6. call[k].op # "export"
  BY DEF ToolInv, CallsInv, CallOK, Probe
<1> HIDE DEF c
<1>7. cursor'[call'[k].room][RoleFor(k)'] = x
  BY <1>3, <1>4, <1>5 DEF x, RoleFor, storeVars
<1>8. CallOK(k)'
  BY <1>2, <1>3, <1>5, <1>6, <1>7 DEF CallOK, Pos
<1> QED BY <1>3, <1>4, <1>8, CallStepKeepsInv

\* The answer to a set_cursor, an error, a timeout: only the call's place moves.
LEMMA PlaceKeepsInv ==
  ASSUME ToolInv, NEW k \in Calls, Report(k) \/ Reject(k) \/ Fail(k)
  PROVE  ToolInv'
<1>1. PICK at \in {"done", "failed", "late"} :
        /\ call' = [call EXCEPT ![k].at = at] /\ UNCHANGED <<storeVars, fetched, own>>
        /\ at = "done" => Pos(k) = "marked"
        /\ at = "late" => Pos(k) = "mark"
        /\ Pos(k) # "idle"
  BY DEF Report, Reject, Fail
<1> DEFINE c == [call[k] EXCEPT !.at = at]
<1>2. call[k] \in CallRecord /\ call[k].room \in Rooms /\ RoleFor(k) \in Names
  BY <1>1, CallShape
<1>3. /\ c \in CallRecord /\ c.at = at /\ c.op = call[k].op
      /\ c.room = call[k].room /\ c.by = call[k].by /\ c.got = call[k].got
  BY <1>2 DEF CallRecord
<1>4. call'[k] = c
  BY <1>1 DEF ToolInv, ToolTypeOK
<1> HIDE DEF c
<1>5. /\ Pos(k)' = at /\ RoleFor(k)' = RoleFor(k) /\ ConsumedSeq(k)' = ConsumedSeq(k)
      /\ call'[k].op = call[k].op /\ call'[k].room = call[k].room
  BY <1>3, <1>4 DEF Pos, RoleFor, ConsumedSeq
<1>6. CallOK(k)
  BY DEF ToolInv, CallsInv
<1>7. CASE at = "late"
  <2>1. Pos(k) = "mark" /\ call[k].op = "digest"
    BY <1>1, <1>6, <1>7 DEF CallOK
  <2>2. /\ (ConsumedSeq(k) \in 1 .. LastSeq(call[k].room))'
        /\ \A q \in 1 .. ConsumedSeq(k)' : Accounted(call[k].room, RoleFor(k), q)'
    BY <1>1, <1>5, <1>6, <2>1, Zenon
       DEF CallOK, Accounted, OwnLast, Dropped, LastSeq, storeVars
  <2>3. CallOK(k)'
    BY <1>5, <1>7, <2>1, <2>2 DEF CallOK
  <2> QED BY <1>1, <1>3, <2>3, CallStepKeepsInv DEF c
<1>8. CASE at = "done"
  <2>1. CallOK(k)'
    BY <1>1, <1>5, <1>6, <1>8 DEF CallOK
  <2> QED BY <1>1, <1>3, <2>1, CallStepKeepsInv DEF c
<1>9. CASE at = "failed"
  <2>1. CallOK(k)'
    BY <1>5, <1>9 DEF CallOK
  <2> QED BY <1>1, <1>3, <2>1, CallStepKeepsInv DEF c
<1> QED BY <1>7, <1>8, <1>9

-----------------------------------------------------------------------------
\* Joins and leaves change no log and no cursor.
LEMMA MembershipKeepsInv ==
  ASSUME ToolInv, NEW s \in Ids, NEW r \in Rooms, JoinRoom(s, r) \/ LeaveRoom(s, r)
  PROVE  ToolInv'
<1>1. UNCHANGED <<messages, nextSeq, cursor, call, fetched, own>>
  BY LeaveKeepsLog DEF ToolInv, JoinRoom, LeaveRoom, Join
<1>2. StoreTypeOK'
  <2>1. CASE Join(r, s, NoTopic)
    BY <1>1, <2>1 DEF ToolInv, StoreInv, StoreTypeOK, Join, TopicAfterJoin
  <2>2. CASE Leave(r, s)
    BY <1>1, <2>2 DEF ToolInv, StoreInv, StoreTypeOK, Leave
  <2> QED BY <2>1, <2>2 DEF JoinRoom, LeaveRoom
<1>3. StoreInv'
  BY <1>1, <1>2, LogUnchanged DEF ToolInv, StoreInv
<1>4. ToolTypeOK'
  BY <1>1, <1>2 DEF ToolInv, ToolTypeOK
<1>5. RoomsGrow
  BY <1>1 DEF ToolInv, StoreInv, StoreTypeOK, RoomsGrow
<1>6. \A q \in Rooms, n \in Names : \A m \in 1 .. cursor'[q][n] : m <= cursor[q][n]
  BY <1>1 DEF ToolInv, StoreInv, StoreTypeOK
<1> QED BY <1>1, <1>3, <1>4, <1>5, <1>6, GrowthKeepsInv

\* A post moves its author's cursor to the post itself, which is its own.
LEMMA PostKeepsToolInv ==
  ASSUME ToolInv, NEW s \in Ids, NEW r \in Rooms, PostMessage(s, r)
  PROVE  ToolInv'
<1>1. PICK n \in Names : n = RoleOf[s]
  BY RoleOfAssumption
<1>2. /\ Post(r, s, n) /\ UNCHANGED <<call, fetched>>
      /\ own' = [own EXCEPT ![r][n] = @ \cup {nextSeq[r]}]
  BY <1>1 DEF PostMessage
<1>3. StoreInv'
  BY <1>2, PostKeepsInv DEF ToolInv
<1>4. /\ nextSeq \in [Rooms -> Nat \ {0}] /\ cursor \in [Rooms -> [Names -> Nat]]
      /\ own \in [Rooms -> [Names -> SUBSET Nat]]
      /\ \A q \in Rooms, m \in Names : own[q][m] \subseteq 1 .. (nextSeq[q] - 1)
  BY DEF ToolInv, StoreInv, StoreTypeOK, ToolTypeOK, OwnInLog, LastSeq
<1>5. /\ nextSeq' = [nextSeq EXCEPT ![r] = @ + 1]
      /\ cursor' = [cursor EXCEPT ![r][n] = GreaterOf(@, nextSeq[r])]
  BY <1>2 DEF Post
<1>6. own' \in [Rooms -> [Names -> SUBSET Nat]]
  BY <1>2, <1>4
<1>7. ToolTypeOK'
  BY <1>2, <1>3, <1>6 DEF ToolInv, ToolTypeOK, StoreInv
<1>8. RoomsGrow
  BY <1>2, <1>4, <1>5 DEF RoomsGrow, GreaterOf
<1>9. ASSUME NEW q \in Rooms, NEW m \in Names, NEW i \in 1 .. cursor'[q][m]
      PROVE  i <= cursor[q][m] \/ Accounted(q, m, i)'
  <2>1. CASE q = r /\ m = n
    <3>1. own'[r][n] = own[r][n] \cup {nextSeq[r]} /\ cursor'[r][n] = GreaterOf(cursor[r][n], nextSeq[r])
      BY <1>2, <1>4, <1>5
    <3> DEFINE S == own'[r][n]
    <3>2. nextSeq[r] \in Nat /\ nextSeq[r] \in S /\ S \subseteq 1 .. nextSeq[r]
      BY <1>4, <3>1
    <3> HIDE DEF S
    <3>3. Max(S) = nextSeq[r]
      <4>1. \A y \in S : nextSeq[r] >= y
        BY <3>2
      <4>2. \A x \in S : (\A y \in S : x >= y) => x = nextSeq[r]
        BY <3>2
      <4> QED BY <3>2, <4>1, <4>2 DEF Max
    <3>4. OwnLast(r, n)' = nextSeq[r]
      BY <3>2, <3>3 DEF OwnLast, S
    <3>5. cursor[r][n] \in Nat /\ nextSeq[r] \in Nat
          /\ i \in 1 .. GreaterOf(cursor[r][n], nextSeq[r])
      BY <1>4, <2>1, <3>1
    <3>6. i <= cursor[r][n] \/ i <= nextSeq[r]
      BY <3>5 DEF GreaterOf
    <3> QED BY <2>1, <3>4, <3>6 DEF Accounted
  <2>2. CASE ~(q = r /\ m = n)
    BY <1>4, <1>5, <2>2
  <2> QED BY <2>1, <2>2
<1> QED BY <1>2, <1>3, <1>7, <1>8, <1>9, GrowthKeepsInv

\* A digest's page ends at the sequence number that it will mark, and what is
\* below the page was read before or has rotated out.
LEMMA FetchKeepsInv ==
  ASSUME ToolInv, NEW k \in Calls, Fetch(k)
  PROVE  ToolInv'
<1> DEFINE limit == LimitOf(call[k].op)
           page == Fetched(call[k].room, call[k].after, limit)
           at == IF call[k].op = "digest" /\ page # {} THEN "mark" ELSE "done"
           c == [call[k] EXCEPT !.at = at, !.got = page, !.last = LastSeq(call[k].room)]
<1>1. PICK r \in Rooms, n \in Names :
        /\ r = call[k].room /\ n = RoleFor(k) /\ call[k] \in CallRecord
        /\ call[k].after \in Nat
  BY CallShape DEF Fetch
<1>2. limit \in Nat \ {0}
  BY PageLimitAssumption, CapacityAssumption DEF LimitOf
<1>3. PICK from \in Nat, to \in Nat :
        /\ page = (from + 1) .. to
        /\ from = GreaterOf(call[k].after, Dropped(r))
        /\ to = LesserOf(from + limit, LastSeq(r))
  <2>1. Dropped(r) \in Nat /\ LastSeq(r) \in Nat
    BY RoomSizes DEF ToolInv
  <2>2. /\ GreaterOf(call[k].after, Dropped(r)) \in Nat
        /\ LesserOf(GreaterOf(call[k].after, Dropped(r)) + limit, LastSeq(r)) \in Nat
    BY <1>1, <1>2, <2>1 DEF GreaterOf, LesserOf
  <2> HIDE DEF limit
  <2> QED BY <1>1, <1>2, <2>2, FetchedIsRun DEF ToolInv
<1>4. /\ call' = [call EXCEPT ![k] = c] /\ UNCHANGED <<storeVars, own>>
      /\ fetched' = IF call[k].op = "digest"
                      THEN [fetched EXCEPT ![r][n] = @ \cup page] ELSE fetched
  BY <1>1 DEF Fetch
<1>5. /\ Dropped(r) \in Nat /\ LastSeq(r) \in Nat /\ page \in SUBSET Nat
      /\ page \subseteq 1 .. LastSeq(r)
  BY <1>3, RoomSizes DEF ToolInv, LesserOf
<1>6. CallOK(k) /\ Pos(k) = "fetch"
  BY DEF ToolInv, CallsInv, Fetch
<1> HIDE DEF limit, page
<1>7. /\ c \in CallRecord /\ c.at = at /\ c.got = page /\ c.last = LastSeq(r)
      /\ c.op = call[k].op /\ c.room = r /\ c.by = call[k].by
  BY <1>1, <1>5 DEF CallRecord
<1>8. call'[k] = c
  BY <1>4 DEF ToolInv, ToolTypeOK
<1> HIDE DEF c, at
<1>9. /\ Pos(k)' = at /\ RoleFor(k)' = n /\ call'[k].op = call[k].op
      /\ call'[k].room = r /\ call'[k].got = page /\ call'[k].last = LastSeq(r)
      /\ ConsumedSeq(k)' = IF page = {} THEN 0 ELSE Max(page)
  BY <1>1, <1>7, <1>8 DEF Pos, RoleFor, ConsumedSeq
<1>10. StoreInv'
  BY <1>4 DEF ToolInv, StoreInv, StoreTypeOK, RetainsNewest, CursorWithinLog, LastSeq, Dropped,
              storeVars
<1>11. fetched \in [Rooms -> [Names -> SUBSET Nat]]
  BY DEF ToolInv, ToolTypeOK
<1>12. ToolTypeOK'
  <2>1. call' \in [Calls -> {Idle} \cup CallRecord]
    BY <1>4, <1>7 DEF ToolInv, ToolTypeOK
  <2>2. fetched' \in [Rooms -> [Names -> SUBSET Nat]]
    BY <1>4, <1>5, <1>11
  <2> QED BY <1>4, <1>10, <2>1, <2>2 DEF ToolInv, ToolTypeOK, StoreInv
<1>13. RoomsGrow
  BY <1>4, <1>11 DEF ToolInv, StoreInv, StoreTypeOK, RoomsGrow, storeVars
<1>14. \A q \in Rooms, m \in Names : \A i \in 1 .. cursor'[q][m] : i <= cursor[q][m]
  BY <1>4 DEF ToolInv, StoreInv, StoreTypeOK, storeVars
<1>15. CASE call[k].op = "digest" /\ page # {}
  <2>1. Max(page) = to /\ from + 1 <= to /\ to \in 1 .. LastSeq(r)
    <3>1. from + 1 <= to
      BY <1>3, <1>15
    <3> QED BY <1>3, <1>5, <3>1, MaxOfRun
  <2>2. ASSUME NEW q \in 1 .. to PROVE Accounted(r, n, q)'
    <3>1. CASE q \in page
      BY <1>4, <1>11, <1>15, <3>1 DEF Accounted
    <3>2. CASE q <= Dropped(r)
      BY <1>4, <3>2 DEF Accounted, Dropped, LastSeq, storeVars
    <3>3. CASE q <= call[k].after
      <4>1. call[k].after <= cursor[r][n] /\ cursor[r][n] \in Nat
        BY <1>1, <1>6, <1>15 DEF CallOK, ToolInv, StoreInv, StoreTypeOK
      <4>2. q \in 1 .. cursor[r][n]
        BY <1>1, <3>3, <4>1
      <4>3. Accounted(r, n, q)
        BY <4>2 DEF ToolInv, ReadMeansFetched, Accounted
      <4>4. cursor[r][n] <= LastSeq(r)
        BY DEF ToolInv, StoreInv, CursorWithinLog
      <4>5. \A p \in 1 .. LastSeq(r) : Accounted(r, n, p) => Accounted(r, n, p)'
        BY <1>10, <1>13, AccountedStays DEF RoomsGrow
      <4> QED BY <1>5, <2>1, <4>3, <4>5
    <3> QED BY <1>1, <1>3, <1>5, <3>1, <3>2, <3>3 DEF GreaterOf
  <2>3. at = "mark" /\ ConsumedSeq(k)' = to
    BY <1>9, <1>15, <2>1 DEF at
  <2>4. (ConsumedSeq(k) \in 1 .. LastSeq(call[k].room))'
    BY <1>4, <1>9, <2>1, <2>3 DEF LastSeq, storeVars
  <2>5. \A q \in 1 .. ConsumedSeq(k)' : Accounted(call[k].room, RoleFor(k), q)'
    BY <1>9, <2>2, <2>3, Zenon DEF Accounted, OwnLast, Dropped, LastSeq
  <2>6. CallOK(k)'
    BY <1>9, <1>15, <2>3, <2>4, <2>5 DEF CallOK
  <2> QED BY <1>4, <1>10, <1>12, <1>13, <1>14, <2>6, GrowthKeepsInv DEF ToolInv, ToolTypeOK
<1>16. CASE ~(call[k].op = "digest" /\ page # {})
  <2>1. at = "done"
    BY <1>16 DEF at
  <2>2. CASE call[k].op = "export"
    <3>1. from = Dropped(r) /\ to = LastSeq(r)
      <4>1. call[k].after = 0 /\ limit = Capacity
        BY <1>6, <2>2 DEF CallOK, LimitOf, limit
      <4>2. LastSeq(r) <= Dropped(r) + Capacity /\ Dropped(r) <= LastSeq(r)
        BY RoomSizes, CapacityAssumption DEF ToolInv, LesserOf
      <4> QED BY <1>3, <1>5, <4>1, <4>2, CapacityAssumption DEF GreaterOf, LesserOf
    <3>2. Cardinality(page) = LastSeq(r) - Dropped(r)
      <4>1. Dropped(r) <= LastSeq(r)
        BY RoomSizes DEF ToolInv
      <4>2. Cardinality(page) = IF from + 1 > to THEN 0 ELSE to - (from + 1) + 1
        <5>1. from + 1 \in Int /\ to \in Int
          OBVIOUS
        <5> QED BY <1>3, <5>1, FS_Interval
      <4> QED BY <1>5, <3>1, <4>1, <4>2
    <3>3. (IF page = {} THEN 0 ELSE Min(page) - 1) + Cardinality(page) = LastSeq(r)
      <4>1. CASE page = {}
        <5>1. LastSeq(r) = Dropped(r)
          <6>1. Dropped(r) <= LastSeq(r)
            BY RoomSizes DEF ToolInv
          <6> QED BY <1>3, <1>5, <3>1, <4>1, <6>1
        <5>2. LastSeq(r) = 0
          BY <1>5, <5>1, RoomSizes, CapacityAssumption DEF ToolInv, LesserOf
        <5> QED BY <3>2, <4>1, <5>1, <5>2
      <4>2. CASE page # {}
        <5>1. from + 1 <= to
          BY <1>3, <4>2
        <5>2. Min(page) = from + 1
          BY <1>3, <5>1, MinOfRun
        <5>3. Min(page) - 1 + Cardinality(page) = LastSeq(r)
          BY <1>5, <3>1, <3>2, <5>2
        <5> QED BY <4>2, <5>3
      <4> QED BY <4>1, <4>2
    <3>4. CallOK(k)'
      BY <1>9, <2>1, <2>2, <3>3 DEF CallOK
    <3> QED BY <1>4, <1>10, <1>12, <1>13, <1>14, <3>4, GrowthKeepsInv DEF ToolInv, ToolTypeOK
  <2>3. CASE call[k].op # "export"
    <3>1. CallOK(k)'
      BY <1>9, <2>1, <2>3 DEF CallOK
    <3> QED BY <1>4, <1>10, <1>12, <1>13, <1>14, <3>1, GrowthKeepsInv DEF ToolInv, ToolTypeOK
  <2> QED BY <2>2, <2>3
<1> QED BY <1>15, <1>16

\* set_cursor marks what its call has fetched, whether the call still waits for
\* it or not.
LEMMA MarkKeepsInv ==
  ASSUME ToolInv, NEW k \in Calls, Mark(k)
  PROVE  ToolInv'
<1> DEFINE at == IF Pos(k) = "mark" THEN "marked" ELSE "failed"
           c == [call[k] EXCEPT !.at = at]
<1>1. PICK r \in Rooms, n \in Names :
        r = call[k].room /\ n = RoleFor(k) /\ call[k] \in CallRecord
  BY CallShape DEF Mark
<1>2. PICK m \in Nat : m = ConsumedSeq(k) /\ m \in 1 .. LastSeq(r)
  BY <1>1 DEF ToolInv, CallsInv, CallOK, Mark
<1>3. \A q \in 1 .. m : Accounted(r, n, q)
  BY <1>1, <1>2 DEF ToolInv, CallsInv, CallOK, Mark
<1>4. /\ SetCursor(r, n, m) /\ UNCHANGED <<fetched, own>>
      /\ call' = [call EXCEPT ![k] = c]
  BY <1>1, <1>2 DEF Mark, MarkOf
<1>5. /\ c \in CallRecord /\ c.at = at /\ c.op = call[k].op
  BY <1>1 DEF CallRecord
<1>6. call'[k] = c
  BY <1>4 DEF ToolInv, ToolTypeOK
<1> HIDE DEF c, at
<1>7. /\ cursor \in [Rooms -> [Names -> Nat]] /\ nextSeq[r] \in Nat \ {0}
      /\ cursor[r][n] <= LastSeq(r) /\ LastSeq(r) \in Nat
  BY RoomSizes DEF ToolInv, StoreInv, StoreTypeOK, CursorWithinLog
<1>8. /\ CursorAfter(r, n, m) \in Nat /\ CursorAfter(r, n, m) <= LastSeq(r)
      /\ CursorAfter(r, n, m) >= cursor[r][n]
      /\ CursorAfter(r, n, m) = cursor[r][n] \/ CursorAfter(r, n, m) = m
  BY <1>2, <1>7 DEF CursorAfter, GreaterOf, LesserOf
<1>9. /\ cursor' = [cursor EXCEPT ![r][n] = CursorAfter(r, n, m)]
      /\ UNCHANGED <<live, members, messages, nextSeq, topic>>
  BY <1>4 DEF SetCursor
<1>10. StoreInv'
  <2>1. StoreTypeOK'
    BY <1>8, <1>9 DEF ToolInv, StoreInv, StoreTypeOK
  <2>2. RetainsNewest'
    BY <1>9 DEF ToolInv, StoreInv, RetainsNewest, LastSeq, Dropped
  <2>3. CursorWithinLog'
    BY <1>7, <1>8, <1>9 DEF ToolInv, StoreInv, CursorWithinLog, LastSeq
  <2> QED BY <2>1, <2>2, <2>3 DEF StoreInv
<1>11. ToolTypeOK'
  BY <1>4, <1>5, <1>10 DEF ToolInv, ToolTypeOK, StoreInv
<1>12. RoomsGrow
  BY <1>4, <1>7, <1>8, <1>9 DEF ToolInv, StoreInv, StoreTypeOK, RoomsGrow
<1>13. ASSUME NEW q \in Rooms, NEW p \in Names, NEW i \in 1 .. cursor'[q][p]
       PROVE  i <= cursor[q][p] \/ Accounted(q, p, i)'
  <2>1. CASE q = r /\ p = n
    <3>1. cursor'[r][n] = CursorAfter(r, n, m)
      BY <1>7, <1>9
    <3>2. i <= cursor[r][n] \/ i \in 1 .. m
      BY <1>7, <1>8, <2>1, <3>1
    <3>3. \A j \in 1 .. LastSeq(r) : Accounted(r, n, j) => Accounted(r, n, j)'
      BY <1>10, <1>12, AccountedStays DEF RoomsGrow
    <3>4. i \in 1 .. m => Accounted(r, n, i)'
      BY <1>2, <1>3, <1>7, <3>3
    <3> QED BY <2>1, <3>2, <3>4
  <2>2. CASE ~(q = r /\ p = n)
    BY <1>7, <1>9, <2>2
  <2> QED BY <2>1, <2>2
<1>14. CallOK(k)'
  <2>1. Pos(k) = "mark" => call[k].op = "digest"
    BY DEF ToolInv, CallsInv, CallOK
  <2> QED BY <1>5, <1>6, <2>1 DEF CallOK, Pos, at
<1>15. \A j \in Calls : call'[j] = call[j] \/ CallOK(j)'
  BY <1>4, <1>14 DEF ToolInv, ToolTypeOK
<1> QED BY <1>10, <1>11, <1>12, <1>13, <1>15, GrowthKeepsInv

\* ToolInv is inductive.
LEMMA ToolStepInv == ToolInv /\ [ToolNext]_toolVars => ToolInv'
<1> SUFFICES ASSUME ToolInv, [ToolNext]_toolVars PROVE ToolInv'
  OBVIOUS
<1>1. CASE UNCHANGED toolVars
  BY <1>1 DEF toolVars, storeVars, ToolInv, ToolTypeOK, StoreInv, StoreTypeOK, RetainsNewest,
              CursorWithinLog, LastSeq, Dropped, OwnInLog, ReadMeansFetched, OwnLast, CallsInv,
              CallOK, Accounted, Pos, ConsumedSeq, RoleFor
<1>2. CASE ToolNext
  <2>1. ASSUME NEW s \in Ids, NEW r \in Rooms,
               JoinRoom(s, r) \/ LeaveRoom(s, r) \/ PostMessage(s, r)
        PROVE  ToolInv'
    BY <2>1, MembershipKeepsInv, PostKeepsToolInv
  <2>2. ASSUME NEW k \in Calls, NEW op \in {"digest", "peek", "export"},
               NEW s \in Ids, NEW r \in Rooms, StartCall(k, op, s, r)
        PROVE  ToolInv'
    BY <2>2, StartCallKeepsInv
  <2>3. ASSUME NEW k \in Calls,
               Probe(k) \/ Fetch(k) \/ Mark(k) \/ Report(k) \/ Reject(k) \/ Fail(k)
        PROVE  ToolInv'
    BY <2>3, ProbeKeepsInv, FetchKeepsInv, MarkKeepsInv, PlaceKeepsInv
  <2> QED BY <1>2, <2>1, <2>2, <2>3 DEF ToolNext
<1> QED BY <1>1, <1>2

-----------------------------------------------------------------------------
LEMMA ToolAlwaysInv == ToolSpec => []ToolInv
BY ToolInitInv, ToolStepInv, PTL DEF ToolSpec

\* The rooms, the calls and what digests received keep their ranges, however
\* the calls' requests interleave with the fleet's (roundtable-tool.ts).
THEOREM ToolTypeCorrect == ToolSpec => []ToolTypeOK
<1>1. ToolInv => ToolTypeOK
  BY DEF ToolInv
<1> QED BY <1>1, ToolAlwaysInv, PTL

\* For any number of digests of a role at once, failed ones whose set_cursor is
\* handled late included: what counts as read was fetched by a digest of the
\* role, rotated out, or precedes a post of the role (digest, cursorFor).
THEOREM ReadWasFetched == ToolSpec => []ReadMeansFetched
<1>1. ToolInv => ReadMeansFetched
  BY DEF ToolInv
<1> QED BY <1>1, ToolAlwaysInv, PTL

\* For every capacity, the messages of an export and those it reports as rotated
\* out add up to the room's newest sequence number (export's full-retention
\* fetch and droppedBefore).
THEOREM ExportsAccountForAll == ToolSpec => []ExportAccountsForAll
<1>1. ToolInv => ExportAccountsForAll
  BY DEF ToolInv, CallsInv, CallOK, ExportAccountsForAll
<1> QED BY <1>1, ToolAlwaysInv, PTL

-----------------------------------------------------------------------------
(* boundedRender. *)

Rendered == Len(verbatimLines) + Len(headlineLines)

\* Why the output is bounded: what was spent is what was rendered, and no
\* more was ever spent than there is.
Accounts ==
  /\ spent <= budget
  /\ text + Rendered = spent + (IF collapsed > 0 THEN NormalizedMarker ELSE 0)
  /\ tier # "done" => collapsed = 0 /\ index = Rendered + 1
  /\ tier = "verbatim" => headlineLines = <<>>

RenderInv == RenderTypeOK /\ Accounts /\ PriorityRespected

\* The lengths the loop computes with are natural numbers.
LEMMA NumbersOK == RenderTypeOK => /\ budget \in Nat /\ budget >= MIN_BUDGET
                                   /\ NormalizedMarker \in 0 .. MAX_MARKER_CHARS
                                   /\ \A i \in Items : item[i].verbatim \in Nat /\ item[i].headline \in Nat
BY DEF RenderTypeOK, budget, NormalizedMarker, MIN_BUDGET, MAX_MARKER_CHARS

\* So are the counters, and the lengths of what has been rendered.
LEMMA CountersOK == RenderTypeOK => /\ Len(verbatimLines) \in Nat /\ Len(headlineLines) \in Nat
                                    /\ index \in Nat /\ spent \in Nat /\ text \in Nat
                                    /\ collapsed \in Nat /\ Total \in Nat
<1>. SUFFICES ASSUME RenderTypeOK
              PROVE  /\ Len(verbatimLines) \in Nat /\ Len(headlineLines) \in Nat
                     /\ index \in Nat /\ spent \in Nat /\ text \in Nat
                     /\ collapsed \in Nat /\ Total \in Nat
  OBVIOUS
<1>1. index \in Nat /\ collapsed \in Nat /\ Total \in Nat
  BY TotalAssumption DEF RenderTypeOK
<1>2. verbatimLines \in Seq(Items) /\ headlineLines \in Seq(Items) /\ spent \in Nat /\ text \in Nat
  BY DEF RenderTypeOK
<1>. QED BY <1>1, <1>2

\* What Append does to a sequence of items.
LEMMA Appended ==
  ASSUME NEW s \in Seq(Items), NEW i \in Items
  PROVE  /\ Append(s, i) \in Seq(Items)
         /\ Len(Append(s, i)) = Len(s) + 1
         /\ Len(s) \in Nat
         /\ \A j \in 1 .. Len(s) : Append(s, i)[j] = s[j]
         /\ Append(s, i)[Len(s) + 1] = i
OBVIOUS

\* The loop's state, its accounts and its tiers stay as they should be.
LEMMA RenderInductive == RenderSpec => []RenderInv
<1>1. RenderInit => RenderInv
  <2>. SUFFICES ASSUME RenderInit PROVE RenderInv
    OBVIOUS
  <2>1. RenderTypeOK
    <3>1. item \in [Items -> [verbatim : Nat, headline : Nat]]
      BY LengthsAssumption DEF RenderInit
    <3>2. asked \in Int /\ marker \in Nat /\ index \in 1 .. Total + 1 /\ collapsed \in 0 .. Total
      BY TotalAssumption, LengthsAssumption, BudgetsAssumption DEF RenderInit
    <3>. QED BY <3>1, <3>2 DEF RenderInit, RenderTypeOK
  <2>2. Accounts
    BY <2>1, NumbersOK DEF RenderInit, Accounts, Rendered, MIN_BUDGET
  <2>3. PriorityRespected
    BY DEF RenderInit, PriorityRespected
  <2>. QED BY <2>1, <2>2, <2>3 DEF RenderInv
<1>2. RenderInv /\ [RenderNext]_renderVars => RenderInv'
  <2>. SUFFICES ASSUME RenderInv, [RenderNext]_renderVars PROVE RenderInv'
    OBVIOUS
  <2>0. /\ budget \in Nat /\ NormalizedMarker \in Nat /\ Total \in Nat
        /\ verbatimLines \in Seq(Items) /\ headlineLines \in Seq(Items)
        /\ Len(verbatimLines) \in Nat /\ Len(headlineLines) \in Nat
        /\ index \in Nat /\ spent \in Nat /\ text \in Nat /\ collapsed \in Nat
    <3>1. RenderTypeOK
      BY DEF RenderInv
    <3>2. NormalizedMarker \in Nat /\ budget \in Nat
      BY <3>1, NumbersOK DEF MAX_MARKER_CHARS
    <3>3. verbatimLines \in Seq(Items) /\ headlineLines \in Seq(Items)
      BY <3>1 DEF RenderTypeOK
    <3>. QED BY <3>1, <3>2, <3>3, CountersOK
  <2>1. CASE Verbatim
    <3>. DEFINE len == item[index].verbatim
    <3>1. index \in Items /\ len \in Nat
      BY <2>1, NumbersOK DEF Verbatim, RenderInv
    <3>2. /\ Len(verbatimLines') = Len(verbatimLines) + 1
          /\ verbatimLines' \in Seq(Items)
          /\ \A j \in 1 .. Len(verbatimLines) : verbatimLines'[j] = verbatimLines[j]
          /\ verbatimLines'[Len(verbatimLines) + 1] = index
      BY <2>0, <2>1, <3>1, Appended DEF Verbatim
    <3>3. /\ budget' = budget /\ NormalizedMarker' = NormalizedMarker
          /\ headlineLines' = headlineLines /\ collapsed' = collapsed /\ tier' = tier
          /\ spent' = spent + len + 1 /\ text' = text + len /\ index' = index + 1
          /\ spent + len + 1 <= budget /\ tier = "verbatim"
      BY <2>1 DEF Verbatim, Fits, budget, NormalizedMarker
    <3>. HIDE DEF len
    <3>4. headlineLines = <<>> /\ index = Len(verbatimLines) + 1 /\ collapsed = 0
      BY <2>0, <3>3 DEF RenderInv, Accounts, Rendered
    <3>5. RenderTypeOK'
      BY <2>0, <2>1, <3>1, <3>2, <3>3 DEF Verbatim, RenderInv, RenderTypeOK, Items
    <3>6. Accounts'
      BY <2>0, <3>1, <3>2, <3>3, <3>4 DEF RenderInv, Accounts, Rendered
    <3>7. PriorityRespected'
      BY <2>0, <3>2, <3>3, <3>4 DEF RenderInv, PriorityRespected
    <3>. QED BY <3>5, <3>6, <3>7 DEF RenderInv
  <2>2. CASE Headline
    <3>. DEFINE len == item[index].headline
    <3>1. index \in Items /\ len \in Nat
      BY <2>2, NumbersOK DEF Headline, Degraded, RenderInv
    <3>2. /\ Len(headlineLines') = Len(headlineLines) + 1
          /\ headlineLines' \in Seq(Items)
          /\ \A j \in 1 .. Len(headlineLines) : headlineLines'[j] = headlineLines[j]
          /\ headlineLines'[Len(headlineLines) + 1] = index
      BY <2>0, <2>2, <3>1, Appended DEF Headline
    <3>3. /\ budget' = budget /\ NormalizedMarker' = NormalizedMarker
          /\ verbatimLines' = verbatimLines /\ collapsed' = collapsed /\ tier' = "headline"
          /\ spent' = spent + len + 1 /\ text' = text + len /\ index' = index + 1
          /\ spent + len + 1 <= budget /\ tier # "done"
      BY <2>2 DEF Headline, Degraded, Fits, budget, NormalizedMarker
    <3>. HIDE DEF len
    <3>4. index = Len(verbatimLines) + Len(headlineLines) + 1 /\ collapsed = 0
      BY <2>0, <3>3 DEF RenderInv, Accounts, Rendered
    <3>5. RenderTypeOK'
      BY <2>0, <2>2, <3>1, <3>2, <3>3 DEF Headline, RenderInv, RenderTypeOK, Items
    <3>6. Accounts'
      <4>1. Rendered' = Rendered + 1 /\ text + Rendered = spent /\ Rendered \in Nat
        BY <2>0, <3>2, <3>3, <3>4 DEF RenderInv, Accounts, Rendered
      <4>2. spent' <= budget' /\ text' + Rendered' = spent' /\ spent' \in Nat
        BY <2>0, <3>1, <3>3, <4>1
      <4>3. collapsed' = 0 /\ index' = Rendered' + 1 /\ tier' = "headline"
        BY <2>0, <3>2, <3>3, <3>4 DEF Rendered
      <4>4. (IF collapsed' > 0 THEN NormalizedMarker' ELSE 0) = 0
        BY <4>3
      <4>. QED BY <4>2, <4>3, <4>4 DEF Accounts
    <3>7. PriorityRespected'
      <4>1. ASSUME NEW j \in 1 .. Len(headlineLines')
            PROVE  headlineLines'[j] = Len(verbatimLines') + j
        <5>1. CASE j \in 1 .. Len(headlineLines)
          BY <3>2, <3>3, <5>1 DEF RenderInv, PriorityRespected
        <5>2. CASE j = Len(headlineLines) + 1
          BY <2>0, <3>2, <3>3, <3>4, <5>2
        <5>. QED BY <2>0, <3>2, <4>1, <5>1, <5>2
      <4>2. \A j \in 1 .. Len(verbatimLines') : verbatimLines'[j] = j
        BY <3>3 DEF RenderInv, PriorityRespected
      <4>. QED BY <3>3, <4>1, <4>2 DEF PriorityRespected
    <3>. QED BY <3>5, <3>6, <3>7 DEF RenderInv
  <2>3. CASE Collapse
    <3>1. /\ index \in Items /\ tier # "done"
          /\ budget' = budget /\ NormalizedMarker' = NormalizedMarker
          /\ verbatimLines' = verbatimLines /\ headlineLines' = headlineLines
          /\ tier' = "done" /\ spent' = spent
          /\ text' = text + NormalizedMarker /\ collapsed' = Total - index + 1
      BY <2>3 DEF Collapse, Degraded, budget, NormalizedMarker
    <3>2. collapsed = 0 /\ index = Len(verbatimLines) + Len(headlineLines) + 1 /\ collapsed' > 0
      BY <2>0, <3>1 DEF RenderInv, Accounts, Rendered, Items
    <3>3. RenderTypeOK'
      BY <2>0, <2>3, <3>1, <3>2 DEF Collapse, RenderInv, RenderTypeOK, Items
    <3>4. Accounts'
      BY <2>0, <3>1, <3>2 DEF RenderInv, Accounts, Rendered
    <3>5. PriorityRespected'
      BY <2>0, <3>1, <3>2 DEF RenderInv, PriorityRespected
    <3>. QED BY <3>3, <3>4, <3>5 DEF RenderInv
  <2>4. CASE AllRendered
    <3>1. RenderTypeOK' /\ Accounts'
      BY <2>0, <2>4 DEF AllRendered, RenderInv, RenderTypeOK, Accounts, Rendered, budget,
                        NormalizedMarker, Items
    <3>2. /\ index = Total + 1 /\ tier # "done"
          /\ verbatimLines' = verbatimLines /\ headlineLines' = headlineLines /\ collapsed' = collapsed
      BY <2>4 DEF AllRendered
    <3>3. Len(verbatimLines) + Len(headlineLines) + collapsed = Total
      BY <2>0, <3>2 DEF RenderInv, Accounts, Rendered
    <3>4. /\ \A i \in 1 .. Len(verbatimLines') : verbatimLines'[i] = i
          /\ \A i \in 1 .. Len(headlineLines') : headlineLines'[i] = Len(verbatimLines') + i
      BY <3>2 DEF RenderInv, PriorityRespected
    <3>5. Len(verbatimLines') + Len(headlineLines') + collapsed' = Total
      BY <3>2, <3>3
    <3>6. PriorityRespected'
      BY <3>4, <3>5 DEF PriorityRespected
    <3>. QED BY <3>1, <3>6 DEF RenderInv
  <2>5. CASE UNCHANGED renderVars
    BY <2>5 DEF renderVars, RenderInv, RenderTypeOK, Accounts, Rendered, PriorityRespected,
                budget, NormalizedMarker, Items
  <2>. QED BY <2>1, <2>2, <2>3, <2>4, <2>5 DEF RenderNext
<1>. QED BY <1>1, <1>2, PTL DEF RenderSpec

\* The bound the module exists for: at most the budget plus one marker line of
\* at most MAX_MARKER_CHARS, for every list of items and every formatter.
THEOREM OutputIsBounded == RenderSpec => []WithinBudget
<1>1. RenderInv => WithinBudget
  <2>. SUFFICES ASSUME RenderInv PROVE WithinBudget
    OBVIOUS
  <2>1. RenderTypeOK
    BY DEF RenderInv
  <2>2. budget \in Nat /\ NormalizedMarker \in Nat /\ NormalizedMarker <= MAX_MARKER_CHARS
    BY <2>1, NumbersOK DEF MAX_MARKER_CHARS
  <2>3. Chars <= spent + (IF collapsed > 0 THEN NormalizedMarker ELSE 0)
    BY <2>1, <2>2, CountersOK DEF RenderInv, Accounts, Rendered, Chars, Parts
  <2>. QED
    BY <2>1, <2>2, <2>3, CountersOK DEF RenderInv, Accounts, WithinBudget, Chars, Parts, MAX_MARKER_CHARS
<1>. QED BY <1>1, RenderInductive, PTL

\* Budget is spent in priority order, and no item is lost or counted twice.
THEOREM TiersFollowPriority == RenderSpec => []PriorityRespected
<1>1. RenderInv => PriorityRespected
  BY DEF RenderInv
<1>. QED BY <1>1, RenderInductive, PTL

\* The loop's state is well typed for every length a formatter may return.
THEOREM RenderTypeCorrect == RenderSpec => []RenderTypeOK
<1>1. RenderInv => RenderTypeOK
  BY DEF RenderInv
<1>. QED BY <1>1, RenderInductive, PTL
=============================================================================
