------------------------- MODULE IntercomSendProofs -------------------------
(***************************************************************************)
(* Proofs about IntercomSend for any number of connections, attempts,      *)
(* messages, names and capabilities, any bound of the broker's maps, and   *)
(* any cut, timeout or broker restart between two steps.                   *)
(***************************************************************************)
EXTENDS IntercomSend, SequenceTheorems, TLAPS

\* A map with entries of S: every key once.
IsMap(m, S) ==
  /\ m \in Seq(S)
  /\ \A i, j \in DOMAIN m : m[i].key = m[j].key => i = j

-----------------------------------------------------------------------------
(* The bounded maps. *)

\* What At returns is the one entry with the key.
LEMMA Lookup ==
  ASSUME NEW S, NEW m, IsMap(m, S), NEW k \in Keys(m)
  PROVE  /\ Place(m, k) \in 1 .. Len(m) /\ m[Place(m, k)].key = k
         /\ At(m, k) \in ToSet(m) /\ At(m, k) \in S /\ At(m, k).key = k
         /\ \A e \in ToSet(m) : e.key = k => e = At(m, k)
<1>1. m \in Seq(S) /\ DOMAIN m = 1 .. Len(m)
  BY DEF IsMap
<1>2. \E i \in DOMAIN m : m[i].key = k
  BY DEF Keys
<1>3. Place(m, k) \in DOMAIN m /\ m[Place(m, k)].key = k
  BY <1>2 DEF Place
<1>4. At(m, k) \in ToSet(m) /\ At(m, k).key = k
  BY <1>3 DEF At, ToSet
<1>5. At(m, k) \in S
  BY <1>1, <1>3 DEF At
<1>6. \A e \in ToSet(m) : e.key = k => e = At(m, k)
  BY <1>3 DEF At, ToSet, IsMap
<1> QED
  BY <1>1, <1>3, <1>4, <1>5, <1>6

LEMMA KeysOfEntries ==
  ASSUME NEW S, NEW m \in Seq(S)
  PROVE  Keys(m) = {e.key : e \in ToSet(m)}
BY DEF Keys, ToSet

\* Without the key the other entries stay, in their order.
LEMMA WithoutKey ==
  ASSUME NEW S, NEW m, IsMap(m, S), NEW k
  PROVE  /\ IsMap(Without(m, k), S)
         /\ \A e : e \in ToSet(Without(m, k)) <=> e \in ToSet(m) /\ e.key # k
<1>1. m \in Seq(S) /\ DOMAIN m = 1 .. Len(m) /\ Len(m) \in Nat
  BY DEF IsMap
<1>2. CASE k \notin Keys(m)
  <2>1. Without(m, k) = m
    BY <1>2 DEF Without
  <2>2. \A e \in ToSet(m) : e.key # k
    BY <1>2 DEF Keys, ToSet
  <2> QED
    BY <2>1, <2>2
<1>3. CASE k \in Keys(m)
  <2> DEFINE p == Place(m, k)
             w == Without(m, k)
  <2>1. p \in 1 .. Len(m) /\ m[p].key = k
    BY <1>3, Lookup
  <2> HIDE DEF p
  <2>2. w = SubSeq(m, 1, p - 1) \o SubSeq(m, p + 1, Len(m))
    BY <1>3 DEF Without, RemoveAt, p
  <2> DEFINE u == SubSeq(m, 1, p - 1)
             v == SubSeq(m, p + 1, Len(m))
  <2>3. u \in Seq(S) /\ Len(u) = p - 1 /\ \A i \in 1 .. p - 1 : u[i] = m[i]
    BY <1>1, <2>1
  <2>4. /\ v \in Seq(S) /\ Len(v) = Len(m) - p
        /\ \A i \in 1 .. Len(m) - p : v[i] = m[i + p]
    <3>1. p + 1 \in Int /\ Len(m) \in Int /\ \A i \in p + 1 .. Len(m) : m[i] \in S
      BY <1>1, <2>1
    <3>2. /\ v \in Seq(S) /\ Len(v) = IF p + 1 <= Len(m) THEN Len(m) - (p + 1) + 1 ELSE 0
          /\ \A i \in 1 .. Len(m) - (p + 1) + 1 : v[i] = m[p + 1 + i - 1]
      BY <3>1, SubSeqProperties
    <3> HIDE DEF v
    <3>3. Len(m) - (p + 1) + 1 = Len(m) - p
      BY <1>1, <2>1
    <3>4. Len(v) = Len(m) - p
      <4>1. CASE p + 1 <= Len(m)
        BY <1>1, <2>1, <3>2, <4>1
      <4>2. CASE ~(p + 1 <= Len(m))
        <5>0. p \in Nat /\ Len(m) \in Nat /\ p <= Len(m)
          BY <1>1, <2>1
        <5>1. Len(m) - p = 0
          BY <4>2, <5>0
        <5> QED
          BY <3>2, <4>2, <5>1
      <4> QED
        BY <4>1, <4>2
    <3>5. \A i \in 1 .. Len(m) - p : p + 1 + i - 1 = i + p
      BY <1>1, <2>1
    <3> QED
      BY <3>2, <3>3, <3>4, <3>5
  <2> HIDE DEF u, v, w
  <2>5. w \in Seq(S) /\ Len(w) = Len(m) - 1
    <3>1. w \in Seq(S) /\ Len(w) = Len(u) + Len(v)
      BY <2>2, <2>3, <2>4, ConcatProperties DEF u, v
    <3> QED
      BY <1>1, <2>1, <2>3, <2>4, <3>1
  <2>6. \A i \in 1 .. Len(w) : w[i] = IF i < p THEN m[i] ELSE m[i + 1]
    <3> SUFFICES ASSUME NEW i \in 1 .. Len(w)
                 PROVE  w[i] = IF i < p THEN m[i] ELSE m[i + 1]
      OBVIOUS
    <3>1. w = u \o v
      BY <2>2 DEF u, v
    <3>0. i \in 1 .. Len(u) + Len(v)
      BY <1>1, <2>1, <2>3, <2>4, <2>5
    <3>2. w[i] = IF i <= Len(u) THEN u[i] ELSE v[i - Len(u)]
      BY <2>3, <2>4, <3>0, <3>1, ConcatProperties
    <3>3. CASE i < p
      BY <2>1, <2>3, <3>2, <3>3
    <3>4. CASE ~(i < p)
      <4>1. ~(i <= Len(u)) /\ i - Len(u) \in 1 .. Len(m) - p /\ (i - Len(u)) + p = i + 1
        BY <1>1, <2>1, <2>3, <2>5, <3>4
      <4> QED
        BY <2>4, <3>2, <3>4, <4>1
    <3> QED
      BY <3>3, <3>4
  <2>7. DOMAIN w = 1 .. Len(w)
    BY <2>5
  <2>8. \A i, j \in DOMAIN w : w[i].key = w[j].key => i = j
    <3> SUFFICES ASSUME NEW i \in 1 .. Len(w), NEW j \in 1 .. Len(w), w[i].key = w[j].key
                 PROVE  i = j
      BY <2>7
    <3>1. PICK a \in 1 .. Len(m) : w[i] = m[a] /\ a = (IF i < p THEN i ELSE i + 1)
      BY <2>1, <2>5, <2>6, <1>1
    <3>2. PICK b \in 1 .. Len(m) : w[j] = m[b] /\ b = (IF j < p THEN j ELSE j + 1)
      BY <2>1, <2>5, <2>6, <1>1
    <3>3. a = b
      BY <3>1, <3>2, <1>1 DEF IsMap
    <3> QED
      BY <3>1, <3>2, <3>3, <2>1
  <2>9. \A e : e \in ToSet(w) <=> e \in ToSet(m) /\ e.key # k
    <3>1. ASSUME NEW i \in 1 .. Len(w) PROVE w[i] \in ToSet(m) /\ w[i].key # k
      <4>1. PICK a \in 1 .. Len(m) : w[i] = m[a] /\ a # p
        <5>1. CASE i < p
          <6>1. i \in 1 .. Len(m) /\ i # p /\ w[i] = m[i]
            BY <5>1, <2>1, <2>5, <2>6, <1>1
          <6> QED
            BY <6>1
        <5>2. CASE ~(i < p)
          <6>1. i + 1 \in 1 .. Len(m) /\ i + 1 # p /\ w[i] = m[i + 1]
            BY <5>2, <2>1, <2>5, <2>6, <1>1
          <6> QED
            BY <6>1
        <5> QED
          BY <5>1, <5>2
      <4>2. m[a].key # k
        BY <4>1, <2>1, <1>1 DEF IsMap
      <4> QED
        BY <4>1, <4>2, <1>1 DEF ToSet
    <3>2. ASSUME NEW a \in 1 .. Len(m), m[a].key # k PROVE m[a] \in ToSet(w)
      <4>1. a # p
        BY <3>2, <2>1
      <4>2. CASE a < p
        <5>1. a \in 1 .. Len(w) /\ w[a] = m[a]
          BY <4>2, <2>1, <2>5, <2>6
        <5> QED
          BY <5>1, <2>7 DEF ToSet
      <4>3. CASE ~(a < p)
        <5>1. a - 1 \in 1 .. Len(w) /\ ~(a - 1 < p) /\ (a - 1) + 1 = a
          BY <4>1, <4>3, <2>1, <2>5
        <5>2. w[a - 1] = m[a]
          BY <5>1, <2>6
        <5> QED
          BY <5>1, <5>2, <2>7 DEF ToSet
      <4> QED
        BY <4>2, <4>3
    <3>3. \A e \in ToSet(w) : e \in ToSet(m) /\ e.key # k
      BY <3>1, <2>7 DEF ToSet
    <3>4. \A e \in ToSet(m) : e.key # k => e \in ToSet(w)
      BY <3>2, <1>1 DEF ToSet
    <3> QED
      BY <3>3, <3>4
  <2> QED
    BY <2>5, <2>8, <2>9 DEF IsMap, w
<1> QED
  BY <1>2, <1>3

\* A put leaves the new entry, and of the others only such as were there.
LEMMA PutKey ==
  ASSUME NEW S, NEW m, IsMap(m, S), NEW e \in S, NEW max \in Nat \ {0}
  PROVE  /\ IsMap(Put(m, e, max), S)
         /\ e \in ToSet(Put(m, e, max))
         /\ \A x \in ToSet(Put(m, e, max)) : x = e \/ (x \in ToSet(m) /\ x.key # e.key)
<1> DEFINE w   == Without(m, e.key)
           all == Append(w, e)
           lo  == IF Len(all) > max THEN Len(all) - max + 1 ELSE 1
<1>1. IsMap(w, S) /\ \A x \in ToSet(w) : x \in ToSet(m) /\ x.key # e.key
  BY WithoutKey
<1>2. Put(m, e, max) = SubSeq(all, lo, Len(all))
  BY DEF Put
<1> HIDE DEF w
<1>3. w \in Seq(S) /\ Len(w) \in Nat /\ DOMAIN w = 1 .. Len(w)
  BY <1>1 DEF IsMap
<1>4. all \in Seq(S) /\ Len(all) = Len(w) + 1 /\ DOMAIN all = 1 .. Len(all)
  BY <1>3
<1>5. all[Len(all)] = e /\ \A i \in 1 .. Len(w) : all[i] = w[i]
  BY <1>3, <1>4
<1> HIDE DEF all
<1>6. lo \in 1 .. Len(all) /\ Len(all) \in Nat
  BY <1>3, <1>4
<1> HIDE DEF lo
<1> DEFINE q == SubSeq(all, lo, Len(all))
<1>7. /\ q \in Seq(S) /\ Len(q) = Len(all) - lo + 1 /\ DOMAIN q = 1 .. Len(q)
      /\ \A i \in 1 .. Len(q) : q[i] = all[lo + i - 1]
  BY <1>4, <1>6
<1> HIDE DEF q
<1>8. \A i \in DOMAIN all : i = Len(all) \/ (all[i] \in ToSet(w) /\ i \in DOMAIN w)
  BY <1>3, <1>4, <1>5 DEF ToSet
<1>9. \A i, j \in DOMAIN all : all[i].key = all[j].key => i = j
  BY <1>1, <1>3, <1>4, <1>5, <1>8 DEF IsMap
<1>10. \A i, j \in DOMAIN q : q[i].key = q[j].key => i = j
  <2> SUFFICES ASSUME NEW i \in DOMAIN q, NEW j \in DOMAIN q, q[i].key = q[j].key
               PROVE  i = j
    OBVIOUS
  <2>1. lo + i - 1 \in DOMAIN all /\ lo + j - 1 \in DOMAIN all
    BY <1>4, <1>6, <1>7
  <2>2. lo + i - 1 = lo + j - 1
    BY <2>1, <1>7, <1>9
  <2> QED
    BY <2>2, <1>6, <1>7
<1>11. e \in ToSet(q)
  <2>1. Len(q) \in 1 .. Len(q) /\ lo + Len(q) - 1 = Len(all)
    BY <1>6, <1>7
  <2>2. q[Len(q)] = e
    BY <2>1, <1>5, <1>7
  <2> QED
    BY <2>1, <2>2, <1>7 DEF ToSet
<1>12. \A x \in ToSet(q) : x = e \/ (x \in ToSet(m) /\ x.key # e.key)
  <2> SUFFICES ASSUME NEW i \in 1 .. Len(q)
               PROVE  q[i] = e \/ (q[i] \in ToSet(m) /\ q[i].key # e.key)
    BY <1>7 DEF ToSet
  <2>1. lo + i - 1 \in DOMAIN all
    BY <1>4, <1>6, <1>7
  <2> QED
    BY <2>1, <1>1, <1>5, <1>7, <1>8
<1> QED
  BY <1>2, <1>7, <1>10, <1>11, <1>12 DEF IsMap, q

\* Forgetting the oldest entry leaves a map of the others.
LEMMA TailOfMap ==
  ASSUME NEW S, NEW m, IsMap(m, S), m # <<>>
  PROVE  IsMap(Tail(m), S) /\ ToSet(Tail(m)) \subseteq ToSet(m)
<1>1. m \in Seq(S) /\ Len(m) \in Nat \ {0} /\ DOMAIN m = 1 .. Len(m)
  BY DEF IsMap
<1>2. /\ Tail(m) \in Seq(S) /\ Len(Tail(m)) = Len(m) - 1
      /\ DOMAIN Tail(m) = 1 .. Len(m) - 1
      /\ \A i \in 1 .. Len(m) - 1 : Tail(m)[i] = m[i + 1]
  BY <1>1
<1>3. \A i \in 1 .. Len(m) - 1 : i + 1 \in DOMAIN m
  BY <1>1
<1>4. \A i, j \in DOMAIN Tail(m) : Tail(m)[i].key = Tail(m)[j].key => i = j
  BY <1>1, <1>2, <1>3 DEF IsMap
<1>5. ToSet(Tail(m)) \subseteq ToSet(m)
  BY <1>2, <1>3 DEF ToSet
<1> QED
  BY <1>2, <1>4, <1>5 DEF IsMap

-----------------------------------------------------------------------------
(* Types. *)

Authorizations == [key : Caps, sup : Sessions, bound : Names \cup {NoName}]
Crossings == [key : MessageIds, from : Sessions, to : Sessions]
Deliveries == [key : MessageIds, signature : {Signature(s) : s \in Sends}]
Answers == [attempt : Nat, ok : BOOLEAN]
Attempts == [by : Sessions, send : Sends, first : BOOLEAN, asked : SUBSET Sends,
             verdict : {"none", "delivered", "failed"},
             result : {"pending", "delivered", "failed", "rejected"}]

SendTypeOK ==
  /\ IsMap(authorizations, Authorizations)
  /\ IsMap(crossings, Crossings)
  /\ IsMap(delivered, Deliveries)
  /\ client \in [Sessions -> {"unused", "up", "gone"}]
  /\ handler \in [Sessions -> {"none", "named", "dead"}]
  /\ name \in [Sessions -> Names]
  /\ supervisorOf \in [Sessions -> Sessions \cup {NoSession}]
  /\ toBroker \in [Sessions -> Seq(Nat)]
  /\ toClient \in [Sessions -> Seq(Answers)]
  /\ pending \in [Sessions -> SUBSET Nat]
  /\ known \in [Sessions -> SUBSET MessageIds]
  /\ attempts \in Seq(Attempts)
  /\ legacy \in BOOLEAN
  /\ forwarded \in SUBSET [attempt : Nat, to : Sessions]
  /\ copies \in [MessageIds -> Nat]
  /\ accepted \in SUBSET [cap : Caps, sup : Sessions, as : Names]

-----------------------------------------------------------------------------
(* The invariant. *)

\* What the broker remembers of a slot and what it accepted with it agree.
SlotsHold ==
  /\ \A e \in ToSet(authorizations) : TokenOf[e.sup] = OwnerOf[e.key]
  /\ \A x \in accepted :
       /\ x.cap \in Keys(authorizations)
       /\ TokenOf[x.sup] = OwnerOf[x.cap]
       /\ IF SlotOf[x.cap] = AnyName THEN At(authorizations, x.cap).bound = x.as
                                     ELSE SlotOf[x.cap] = x.as

\* An id with a copy is one the cache remembers.
CopiesRemembered ==
  \A id \in MessageIds : copies[id] <= 1 /\ (copies[id] # 0 => id \in Keys(delivered))

\* History refers to what was sent, and only a connection in use sends.
AttemptsExist ==
  /\ \A a \in DOMAIN attempts : client[attempts[a].by] # "unused"
  /\ \A f \in forwarded : f.attempt \in DOMAIN attempts

\* Every recorded crossing was a question that was forwarded.
CrossingsForwarded ==
  \A e \in ToSet(crossings) : \E g \in forwarded :
    LET t == attempts[g.attempt]
    IN  /\ t.send.kind = "supervisor_send" /\ t.send.id = e.key
        /\ t.by = e.from /\ g.to = e.to

\* The attempts whose frame or answer is on c's wire.
OnWire(c) == ToSet(toBroker[c]) \cup {m.attempt : m \in ToSet(toClient[c])}

IdOf(a) == attempts[a].send.id

\* Each frame is on the wire once and is answered after it has left it.
WireInOrder ==
  \A c \in Sessions :
    /\ \A a \in OnWire(c) : a \in DOMAIN attempts /\ attempts[a].by = c
    /\ \A i, j \in DOMAIN toBroker[c] : toBroker[c][i] = toBroker[c][j] => i = j
    /\ \A m \in ToSet(toClient[c]) : m.attempt \notin ToSet(toBroker[c])

\* The registry: what waits is unsettled, and an id nobody knows is not on the
\* wire, so the first attempt under an id is alone there while it waits.
RegistrySound ==
  \A c \in Sessions :
    /\ \A a \in pending[c] :
         /\ a \in DOMAIN attempts
         /\ attempts[a].by = c /\ attempts[a].result = "pending"
         /\ attempts[a].first => \A b \in OnWire(c) : IdOf(b) = IdOf(a) => b = a
    /\ client[c] # "gone" => \A a \in OnWire(c) : IdOf(a) \in known[c]

\* This very message was written to a target.
WasForwarded(s) ==
  \E f \in forwarded :
    LET t == attempts[f.attempt].send IN t.id = s.id /\ Signature(t) = Signature(s)

\* An answer on the wire is the broker's verdict, and a confirmation is true.
AnswersTrue ==
  \A c \in Sessions : \A m \in ToSet(toClient[c]) :
    /\ attempts[m.attempt].result = "pending" =>
         attempts[m.attempt].verdict = IF m.ok THEN "delivered" ELSE "failed"
    /\ m.ok => WasForwarded(attempts[m.attempt].send)

\* The cache remembers what was forwarded.
CacheTrue ==
  \A e \in ToSet(delivered) : \E f \in forwarded :
    LET t == attempts[f.attempt].send IN t.id = e.key /\ Signature(t) = e.signature

\* Only calls for the same message share an attempt.
AskedAlike ==
  \A a \in DOMAIN attempts : \A s \in attempts[a].asked :
    s.id = IdOf(a) /\ Signature(s) = Signature(attempts[a].send)

SendInv ==
  /\ SendTypeOK
  /\ SlotsHold /\ CopiesRemembered /\ AttemptsExist /\ CrossingsForwarded
  /\ WireInOrder /\ RegistrySound /\ AnswersTrue /\ CacheTrue /\ AskedAlike
  /\ AnswersAreOwn /\ AckMeansForwarded /\ GroupsCrossedVertically

-----------------------------------------------------------------------------
(* What the operators of the model do to the attempts and the wire. *)

\* The state lies in the range of these.
LEMMA Ranges ==
  ASSUME SendTypeOK
  PROVE  /\ attempts \in Seq(Attempts) /\ DOMAIN attempts = 1 .. Len(attempts)
         /\ Len(attempts) \in Nat /\ DOMAIN attempts \subseteq Nat
         /\ \A a \in DOMAIN attempts :
              /\ attempts[a] \in Attempts
              /\ attempts[a].by \in Sessions /\ attempts[a].send \in Sends
              /\ attempts[a].first \in BOOLEAN /\ attempts[a].asked \in SUBSET Sends
              /\ attempts[a].verdict \in {"none", "delivered", "failed"}
              /\ attempts[a].result \in {"pending", "delivered", "failed", "rejected"}
              /\ IdOf(a) \in MessageIds
<1>1. attempts \in Seq(Attempts)
  BY DEF SendTypeOK
<1>2. /\ DOMAIN attempts = 1 .. Len(attempts) /\ Len(attempts) \in Nat
      /\ \A a \in DOMAIN attempts : attempts[a] \in Attempts
  BY <1>1
<1>3. \A a \in DOMAIN attempts :
        /\ attempts[a].by \in Sessions /\ attempts[a].send \in Sends
        /\ attempts[a].first \in BOOLEAN /\ attempts[a].asked \in SUBSET Sends
        /\ attempts[a].verdict \in {"none", "delivered", "failed"}
        /\ attempts[a].result \in {"pending", "delivered", "failed", "rejected"}
  BY <1>2 DEF Attempts
<1>4. \A a \in DOMAIN attempts : IdOf(a) \in MessageIds
  BY <1>3 DEF IdOf, MessageIds
<1> QED
  BY <1>1, <1>2, <1>3, <1>4

\* Reading the head of a queue in which nothing stands twice.
LEMMA HeadLeaves ==
  ASSUME NEW S, NEW q \in Seq(S), q # <<>>
  PROVE  /\ Head(q) \in S /\ Tail(q) \in Seq(S)
         /\ Head(q) \in ToSet(q) /\ ToSet(Tail(q)) \subseteq ToSet(q)
         /\ (\A i, j \in DOMAIN q : q[i] = q[j] => i = j) =>
              /\ \A i, j \in DOMAIN Tail(q) : Tail(q)[i] = Tail(q)[j] => i = j
              /\ Head(q) \notin ToSet(Tail(q))
<1>1. /\ Len(q) \in Nat \ {0} /\ DOMAIN q = 1 .. Len(q) /\ Head(q) = q[1]
      /\ Tail(q) \in Seq(S) /\ DOMAIN Tail(q) = 1 .. Len(q) - 1
      /\ \A i \in 1 .. Len(q) - 1 : Tail(q)[i] = q[i + 1]
  OBVIOUS
<1>2. 1 \in DOMAIN q /\ \A i \in DOMAIN Tail(q) : i + 1 \in DOMAIN q /\ i + 1 # 1
  BY <1>1
<1>3. /\ Head(q) \in S /\ Head(q) \in ToSet(q)
      /\ ToSet(Tail(q)) \subseteq ToSet(q)
  BY <1>1, <1>2 DEF ToSet
<1>4. ASSUME \A i, j \in DOMAIN q : q[i] = q[j] => i = j
      PROVE  /\ \A i, j \in DOMAIN Tail(q) : Tail(q)[i] = Tail(q)[j] => i = j
             /\ Head(q) \notin ToSet(Tail(q))
  <2>1. \A i, j \in DOMAIN Tail(q) : Tail(q)[i] = Tail(q)[j] => i = j
    BY <1>1, <1>2, <1>4
  <2>2. \A i \in DOMAIN Tail(q) : Tail(q)[i] # Head(q)
    BY <1>1, <1>2, <1>4
  <2> QED
    BY <2>1, <2>2 DEF ToSet
<1> QED
  BY <1>1, <1>3, <1>4

\* What is written joins the end of a queue.
LEMMA AppendJoins ==
  ASSUME NEW S, NEW q \in Seq(S), NEW e \in S
  PROVE  /\ Append(q, e) \in Seq(S) /\ ToSet(Append(q, e)) = ToSet(q) \cup {e}
         /\ (\A i, j \in DOMAIN q : q[i] = q[j] => i = j) /\ e \notin ToSet(q) =>
              \A i, j \in DOMAIN Append(q, e) : Append(q, e)[i] = Append(q, e)[j] => i = j
<1>1. /\ Append(q, e) \in Seq(S)
      /\ DOMAIN Append(q, e) = 1 .. Len(q) + 1
      /\ DOMAIN q = 1 .. Len(q) /\ Len(q) \in Nat
      /\ \A i \in 1 .. Len(q) : Append(q, e)[i] = q[i]
      /\ Append(q, e)[Len(q) + 1] = e
  OBVIOUS
<1>2. /\ \A i \in 1 .. Len(q) + 1 : i \in 1 .. Len(q) \/ i = Len(q) + 1
      /\ \A i \in 1 .. Len(q) : i \in 1 .. Len(q) + 1
      /\ Len(q) + 1 \in 1 .. Len(q) + 1
  BY <1>1
<1>3. ToSet(Append(q, e)) = ToSet(q) \cup {e}
  BY <1>1, <1>2 DEF ToSet
<1>4. ASSUME \A i, j \in DOMAIN q : q[i] = q[j] => i = j, e \notin ToSet(q)
      PROVE  \A i, j \in DOMAIN Append(q, e) : Append(q, e)[i] = Append(q, e)[j] => i = j
  <2>1. \A i \in DOMAIN q : q[i] # e
    BY <1>4 DEF ToSet
  <2> QED
    BY <1>1, <1>2, <1>4, <2>1
<1> QED
  BY <1>1, <1>3, <1>4

LEMMA MessageIdOf ==
  ASSUME NEW s \in Sends
  PROVE  s.id \in MessageIds
BY DEF MessageIds

\* An attempt keeps its sender, its message and its generation.
KeepsAttempts ==
  /\ DOMAIN attempts \subseteq DOMAIN attempts'
  /\ \A a \in DOMAIN attempts :
       /\ attempts'[a].by = attempts[a].by
       /\ attempts'[a].send = attempts[a].send
       /\ attempts'[a].first = attempts[a].first

LEMMA SettleEffect ==
  ASSUME SendTypeOK, NEW c \in Sessions, NEW those,
         NEW result \in {"delivered", "failed", "rejected"}, Settle(c, those, result)
  PROVE  /\ attempts' \in Seq(Attempts) /\ DOMAIN attempts' = DOMAIN attempts
         /\ pending' \in [Sessions -> SUBSET Nat]
         /\ pending'[c] = pending[c] \ those
         /\ \A d \in Sessions : d # c => pending'[d] = pending[d]
         /\ KeepsAttempts
         /\ \A a \in DOMAIN attempts :
              /\ attempts'[a].verdict = attempts[a].verdict
              /\ attempts'[a].asked = attempts[a].asked
              /\ a \in those => attempts'[a].result = result
              /\ a \notin those => attempts'[a].result = attempts[a].result
<1>1. /\ attempts' = [a \in DOMAIN attempts |->
                        IF a \in those THEN [attempts[a] EXCEPT !.result = result]
                                    ELSE attempts[a]]
      /\ pending' = [pending EXCEPT ![c] = @ \ those]
  BY DEF Settle
<1>2. DOMAIN attempts' = 1 .. Len(attempts) /\ DOMAIN attempts' = DOMAIN attempts
  BY <1>1, Ranges
<1>3. \A a \in DOMAIN attempts :
        /\ attempts'[a] \in Attempts
        /\ attempts'[a].by = attempts[a].by
        /\ attempts'[a].send = attempts[a].send
        /\ attempts'[a].first = attempts[a].first
        /\ attempts'[a].verdict = attempts[a].verdict
        /\ attempts'[a].asked = attempts[a].asked
        /\ a \in those => attempts'[a].result = result
        /\ a \notin those => attempts'[a].result = attempts[a].result
  <2> SUFFICES ASSUME NEW a \in DOMAIN attempts
               PROVE  /\ attempts'[a] \in Attempts
                      /\ attempts'[a].by = attempts[a].by
                      /\ attempts'[a].send = attempts[a].send
                      /\ attempts'[a].first = attempts[a].first
                      /\ attempts'[a].verdict = attempts[a].verdict
                      /\ attempts'[a].asked = attempts[a].asked
                      /\ a \in those => attempts'[a].result = result
                      /\ a \notin those => attempts'[a].result = attempts[a].result
    OBVIOUS
  <2>1. attempts[a] \in Attempts
    BY Ranges
  <2>2. CASE a \in those
    <3>1. attempts'[a] = [attempts[a] EXCEPT !.result = result]
      BY <1>1, <2>2
    <3> QED
      BY <2>1, <2>2, <3>1 DEF Attempts
  <2>3. CASE a \notin those
    <3>1. attempts'[a] = attempts[a]
      BY <1>1, <2>3
    <3> QED
      BY <2>1, <2>3, <3>1
  <2> QED
    BY <2>2, <2>3
<1>4. attempts' \in Seq(Attempts)
  <2>1. attempts' \in [1 .. Len(attempts) -> Attempts]
    BY <1>1, <1>2, <1>3
  <2> QED
    BY <2>1, Ranges
<1>5. /\ pending' \in [Sessions -> SUBSET Nat] /\ pending'[c] = pending[c] \ those
      /\ \A d \in Sessions : d # c => pending'[d] = pending[d]
  BY <1>1 DEF SendTypeOK
<1> QED
  BY <1>2, <1>3, <1>4, <1>5 DEF KeepsAttempts

LEMMA AnswerEffect ==
  ASSUME SendTypeOK, NEW c \in Sessions, NEW a \in DOMAIN attempts, NEW ok \in BOOLEAN,
         Answer(c, a, ok)
  PROVE  /\ attempts' \in Seq(Attempts) /\ DOMAIN attempts' = DOMAIN attempts
         /\ KeepsAttempts
         /\ \A b \in DOMAIN attempts :
              /\ attempts'[b].result = attempts[b].result
              /\ attempts'[b].asked = attempts[b].asked
              /\ b # a => attempts'[b].verdict = attempts[b].verdict
         /\ attempts[a].result # "pending" => attempts'[a].verdict = attempts[a].verdict
         /\ attempts[a].result = "pending" =>
              attempts'[a].verdict = IF ok THEN "delivered" ELSE "failed"
         /\ toClient' \in [Sessions -> Seq(Answers)]
         /\ \A d \in Sessions : d # c => toClient'[d] = toClient[d]
         /\ ToSet(toClient'[c]) \subseteq
              ToSet(toClient[c]) \cup {[attempt |-> a, ok |-> ok]}
<1> DEFINE v == IF attempts[a].result # "pending" THEN attempts[a].verdict
                ELSE IF ok THEN "delivered" ELSE "failed"
           m == [attempt |-> a, ok |-> ok]
<1>1. /\ attempts' = [attempts EXCEPT ![a].verdict = v]
      /\ toClient' = [toClient EXCEPT ![c] =
                        IF client[c] = "up" THEN Append(toClient[c], m) ELSE toClient[c]]
  BY DEF Answer
<1>2. v \in {"none", "delivered", "failed"} /\ attempts[a] \in Attempts
  BY Ranges
<1> HIDE DEF v
<1>3. attempts' = [attempts EXCEPT ![a] = [attempts[a] EXCEPT !.verdict = v]]
  BY <1>1
<1>4. [attempts[a] EXCEPT !.verdict = v] \in Attempts
  BY <1>2 DEF Attempts
<1>5. attempts' \in Seq(Attempts) /\ DOMAIN attempts' = DOMAIN attempts
  BY <1>3, <1>4, Ranges
<1>6. /\ attempts'[a] = [attempts[a] EXCEPT !.verdict = v]
      /\ \A b \in DOMAIN attempts : b # a => attempts'[b] = attempts[b]
  BY <1>3
<1>7. /\ attempts'[a].by = attempts[a].by /\ attempts'[a].send = attempts[a].send
      /\ attempts'[a].first = attempts[a].first
      /\ attempts'[a].result = attempts[a].result
      /\ attempts'[a].asked = attempts[a].asked /\ attempts'[a].verdict = v
  BY <1>2, <1>6 DEF Attempts
<1>8. m \in Answers
  BY Ranges DEF Answers
<1>9. toClient[c] \in Seq(Answers)
  BY DEF SendTypeOK
<1> HIDE DEF m
<1>10. Append(toClient[c], m) \in Seq(Answers)
       /\ ToSet(Append(toClient[c], m)) = ToSet(toClient[c]) \cup {m}
  BY <1>8, <1>9, AppendJoins
<1>11. toClient' \in [Sessions -> Seq(Answers)]
  BY <1>1, <1>9, <1>10 DEF SendTypeOK
<1>12. /\ \A d \in Sessions : d # c => toClient'[d] = toClient[d]
       /\ ToSet(toClient'[c]) \subseteq ToSet(toClient[c]) \cup {m}
  BY <1>1, <1>10 DEF SendTypeOK
<1> QED
  BY <1>5, <1>6, <1>7, <1>11, <1>12 DEF KeepsAttempts, m, v

-----------------------------------------------------------------------------
(* Initially, and the types. *)

LEMMA SendInitInv == SendInit => SendInv
<1> SUFFICES ASSUME SendInit PROVE SendInv
  OBVIOUS
<1>1. /\ authorizations = <<>> /\ crossings = <<>> /\ delivered = <<>> /\ attempts = <<>>
      /\ forwarded = {} /\ accepted = {}
      /\ \A c \in Sessions : toBroker[c] = <<>> /\ toClient[c] = <<>> /\ pending[c] = {}
      /\ \A id \in MessageIds : copies[id] = 0
  BY DEF SendInit, ChannelInit
<1>2. \A S : <<>> \in Seq(S) /\ DOMAIN <<>> = {} /\ ToSet(<<>>) = {}
  BY DEF ToSet
<1>3. \A S : IsMap(<<>>, S)
  BY <1>2 DEF IsMap
<1>4. SendTypeOK
  BY <1>1, <1>2, <1>3, NamesAssumption DEF SendInit, SendTypeOK
<1>5. SlotsHold /\ CopiesRemembered /\ AttemptsExist /\ CrossingsForwarded
  BY <1>1, <1>2 DEF SlotsHold, CopiesRemembered, AttemptsExist, CrossingsForwarded
<1>6. \A c \in Sessions : OnWire(c) = {}
  BY <1>1, <1>2 DEF OnWire
<1>7. WireInOrder /\ RegistrySound /\ AnswersTrue /\ CacheTrue /\ AskedAlike
  BY <1>1, <1>2, <1>6
     DEF WireInOrder, RegistrySound, AnswersTrue, CacheTrue, AskedAlike
<1>8. AnswersAreOwn /\ AckMeansForwarded /\ GroupsCrossedVertically
  BY <1>1, <1>2 DEF AnswersAreOwn, AckMeansForwarded, GroupsCrossedVertically
<1> QED
  BY <1>4, <1>5, <1>7, <1>8 DEF SendInv

\* The frame at the head of c's queue, and what reading it leaves.
LEMMA IncomingEffect ==
  ASSUME SendTypeOK, NEW c \in Sessions, NEW a, Incoming(c, a)
  PROVE  /\ a \in ToSet(toBroker[c]) /\ a \in Nat
         /\ toBroker' \in [Sessions -> Seq(Nat)]
         /\ \A d \in Sessions : ToSet(toBroker'[d]) \subseteq ToSet(toBroker[d])
         /\ \A d \in Sessions : d # c => toBroker'[d] = toBroker[d]
         /\ (\A i, j \in DOMAIN toBroker[c] : toBroker[c][i] = toBroker[c][j] => i = j) =>
              /\ \A i, j \in DOMAIN toBroker'[c] : toBroker'[c][i] = toBroker'[c][j] => i = j
              /\ a \notin ToSet(toBroker'[c])
<1>1. /\ toBroker[c] \in Seq(Nat) /\ toBroker[c] # <<>> /\ a = Head(toBroker[c])
      /\ toBroker' = [toBroker EXCEPT ![c] = Tail(toBroker[c])]
      /\ toBroker \in [Sessions -> Seq(Nat)]
  BY DEF Incoming, SendTypeOK
<1>2. /\ Tail(toBroker[c]) \in Seq(Nat) /\ a \in Nat /\ a \in ToSet(toBroker[c])
      /\ ToSet(Tail(toBroker[c])) \subseteq ToSet(toBroker[c])
      /\ (\A i, j \in DOMAIN toBroker[c] : toBroker[c][i] = toBroker[c][j] => i = j) =>
           /\ \A i, j \in DOMAIN Tail(toBroker[c]) :
                Tail(toBroker[c])[i] = Tail(toBroker[c])[j] => i = j
           /\ a \notin ToSet(Tail(toBroker[c]))
  BY <1>1, HeadLeaves
<1>3. toBroker'[c] = Tail(toBroker[c]) /\ toBroker' \in [Sessions -> Seq(Nat)]
      /\ \A d \in Sessions : d # c => toBroker'[d] = toBroker[d]
  BY <1>1, <1>2
<1> QED
  BY <1>2, <1>3

\* ForwardSend writes the message of attempt a to d.
ForwardsTo(c, a, d) ==
  LET s == attempts[a].send
      e == [key |-> s.id, signature |-> Signature(s)]
      x == [key |-> s.id, from |-> c, to |-> d]
  IN  /\ Incoming(c, a) /\ s \in Sends /\ s.id \in MessageIds
      /\ d \in Routes(c, s) /\ d \in sessions
      /\ s.id \notin Keys(delivered)
      /\ Answer(c, a, TRUE)
      /\ forwarded' = forwarded \cup {[attempt |-> a, to |-> d]}
      /\ e \in Deliveries /\ x \in Crossings
      /\ delivered' = Put(delivered, e, MaxEntries)
      /\ IF s.kind = "supervisor_send"
           THEN crossings' = Put(crossings, x, MaxEntries)
           ELSE crossings' = crossings
      /\ copies' = [id \in MessageIds |->
                      IF id = s.id THEN copies[id] + 1
                      ELSE IF id \in Keys(delivered') THEN copies[id] ELSE 0]

\* An entry joins the cache of deliveries and may join the crossings.
LEMMA ForwardEffect ==
  ASSUME SendTypeOK, NEW c \in Sessions, ForwardSend(c)
  PROVE  \E a \in DOMAIN attempts, d \in Sessions : ForwardsTo(c, a, d)
<1>1. PICK a \in DOMAIN attempts :
        /\ Incoming(c, a) /\ attempts[a].send.id \notin Keys(delivered)
        /\ \E d \in Routes(c, attempts[a].send) :
             /\ forwarded' = forwarded \cup {[attempt |-> a, to |-> d]}
             /\ crossings' = IF attempts[a].send.kind = "supervisor_send"
                               THEN Crossed(attempts[a].send.id, c, d) ELSE crossings
        /\ delivered' = Put(delivered, [key |-> attempts[a].send.id,
                                        signature |-> Signature(attempts[a].send)], MaxEntries)
        /\ copies' = [id \in MessageIds |->
                        IF id = attempts[a].send.id THEN copies[id] + 1
                        ELSE IF id \in Keys(delivered') THEN copies[id] ELSE 0]
        /\ Answer(c, a, TRUE)
  BY DEF ForwardSend
<1>2. PICK d \in Routes(c, attempts[a].send) :
        /\ forwarded' = forwarded \cup {[attempt |-> a, to |-> d]}
        /\ crossings' = IF attempts[a].send.kind = "supervisor_send"
                          THEN Crossed(attempts[a].send.id, c, d) ELSE crossings
  BY <1>1
<1>3. attempts[a].send \in Sends /\ attempts[a].send.id \in MessageIds
  BY Ranges, MessageIdOf
<1>4. d \in sessions /\ d \in Sessions
  BY <1>2 DEF Routes, Resolved, sessions
<1>5. [key |-> attempts[a].send.id, signature |-> Signature(attempts[a].send)] \in Deliveries
  BY <1>3 DEF Deliveries
<1>6. [key |-> attempts[a].send.id, from |-> c, to |-> d] \in Crossings
  BY <1>3, <1>4 DEF Crossings
<1>7. IF attempts[a].send.kind = "supervisor_send"
        THEN crossings' = Put(crossings, [key |-> attempts[a].send.id, from |-> c, to |-> d],
                              MaxEntries)
        ELSE crossings' = crossings
  BY <1>2 DEF Crossed
<1> QED
  BY <1>1, <1>2, <1>3, <1>4, <1>5, <1>6, <1>7 DEF ForwardsTo

\* A new session of the owner takes the slot; a child already in it stays.
LEMMA AuthorizeTypes ==
  ASSUME SendTypeOK, NEW c \in Sessions, NEW k \in Caps, Authorize(c, k)
  PROVE  \E e \in Authorizations :
           /\ e.key = k /\ e.sup = c
           /\ k \in Keys(authorizations) => e.bound = At(authorizations, k).bound
           /\ authorizations' = Put(authorizations, e, MaxEntries)
           /\ IsMap(authorizations', Authorizations)
           /\ e \in ToSet(authorizations')
           /\ \A x \in ToSet(authorizations') : x = e \/ (x \in ToSet(authorizations) /\ x.key # k)
<1> DEFINE b == IF k \in Keys(authorizations) THEN At(authorizations, k).bound ELSE NoName
           e == [key |-> k, sup |-> c, bound |-> b]
<1>1. b \in Names \cup {NoName}
  <2>1. k \in Keys(authorizations) => At(authorizations, k) \in Authorizations
    BY Lookup DEF SendTypeOK
  <2> QED
    BY <2>1 DEF Authorizations
<1>2. authorizations' = Put(authorizations, e, MaxEntries)
  BY DEF Authorize
<1>3. k \in Keys(authorizations) => b = At(authorizations, k).bound
  OBVIOUS
<1> HIDE DEF b
<1>4. e \in Authorizations /\ e.key = k /\ e.sup = c /\ e.bound = b
  BY <1>1 DEF Authorizations
<1> HIDE DEF e
<1>5. /\ IsMap(authorizations', Authorizations) /\ e \in ToSet(authorizations')
      /\ \A x \in ToSet(authorizations') : x = e \/ (x \in ToSet(authorizations) /\ x.key # k)
  BY <1>2, <1>4, PutKey, EntriesAssumption DEF SendTypeOK
<1> QED
  BY <1>2, <1>3, <1>4, <1>5

\* A claim binds a dynamic slot to the child and leaves the rest alone.
LEMMA BindTypes ==
  ASSUME SendTypeOK, NEW k \in Caps, NEW n \in Names, Bind(k, n)
  PROVE  /\ IsMap(authorizations', Authorizations)
         /\ DOMAIN authorizations' = DOMAIN authorizations
         /\ \A i \in DOMAIN authorizations :
              /\ authorizations'[i].key = authorizations[i].key
              /\ authorizations'[i].sup = authorizations[i].sup
              /\ authorizations'[i].bound =
                   IF authorizations[i].key = k /\ SlotOf[k] = AnyName
                     THEN n ELSE authorizations[i].bound
<1>1. /\ authorizations \in Seq(Authorizations)
      /\ DOMAIN authorizations = 1 .. Len(authorizations) /\ Len(authorizations) \in Nat
      /\ \A i \in DOMAIN authorizations : authorizations[i] \in Authorizations
  BY DEF SendTypeOK, IsMap
<1>2. authorizations' =
        [i \in DOMAIN authorizations |->
           IF authorizations[i].key = k /\ SlotOf[k] = AnyName
             THEN [authorizations[i] EXCEPT !.bound = n] ELSE authorizations[i]]
  BY DEF Bind
<1>3. \A i \in DOMAIN authorizations :
        /\ authorizations'[i] \in Authorizations
        /\ authorizations'[i].key = authorizations[i].key
        /\ authorizations'[i].sup = authorizations[i].sup
        /\ authorizations'[i].bound =
             IF authorizations[i].key = k /\ SlotOf[k] = AnyName
               THEN n ELSE authorizations[i].bound
  <2> SUFFICES ASSUME NEW i \in DOMAIN authorizations
               PROVE  /\ authorizations'[i] \in Authorizations
                      /\ authorizations'[i].key = authorizations[i].key
                      /\ authorizations'[i].sup = authorizations[i].sup
                      /\ authorizations'[i].bound =
                           IF authorizations[i].key = k /\ SlotOf[k] = AnyName
                             THEN n ELSE authorizations[i].bound
    OBVIOUS
  <2>1. CASE authorizations[i].key = k /\ SlotOf[k] = AnyName
    <3>1. authorizations'[i] = [authorizations[i] EXCEPT !.bound = n]
      BY <1>2, <2>1
    <3> QED
      BY <1>1, <2>1, <3>1 DEF Authorizations
  <2>2. CASE ~(authorizations[i].key = k /\ SlotOf[k] = AnyName)
    <3>1. authorizations'[i] = authorizations[i]
      BY <1>2, <2>2
    <3> QED
      BY <1>1, <2>2, <3>1
  <2> QED
    BY <2>1, <2>2
<1>4. DOMAIN authorizations' = DOMAIN authorizations
  BY <1>2
<1>5. authorizations' \in Seq(Authorizations)
  <2>1. authorizations' \in [1 .. Len(authorizations) -> Authorizations]
    BY <1>1, <1>2, <1>3
  <2> QED
    BY <1>1, <2>1
<1>6. IsMap(authorizations', Authorizations)
  BY <1>3, <1>4, <1>5 DEF IsMap, SendTypeOK
<1> QED
  BY <1>3, <1>4, <1>6

\* What a Send adds: attempt n, its frame, its entry in the registry.
SendsAs(c, s, n) ==
  /\ n = Len(attempts) + 1 /\ n \notin DOMAIN attempts
  /\ s \in Sends /\ s.id \in MessageIds
  /\ attempts' \in Seq(Attempts) /\ DOMAIN attempts' = DOMAIN attempts \cup {n}
  /\ \A a \in DOMAIN attempts : attempts'[a] = attempts[a]
  /\ attempts'[n].by = c /\ attempts'[n].send = s
  /\ attempts'[n].first = (s.id \notin known[c])
  /\ attempts'[n].asked = {s} /\ attempts'[n].verdict = "none"
  /\ attempts'[n].result = "pending"
  /\ pending' = [pending EXCEPT ![c] = pending[c] \cup {n}]
  /\ known' = [known EXCEPT ![c] = known[c] \cup {s.id}]
  /\ toBroker' = [toBroker EXCEPT ![c] = Append(toBroker[c], n)]

LEMMA SendEffect ==
  ASSUME SendTypeOK, NEW c \in Sessions, NEW s \in SendsOf[c], Send(c, s)
  PROVE  \E n \in Nat : SendsAs(c, s, n)
<1> DEFINE n == Len(attempts) + 1
           r == [by |-> c, send |-> s, first |-> s.id \notin known[c],
                 asked |-> {s}, verdict |-> "none", result |-> "pending"]
<1>1. s \in Sends /\ s.id \in MessageIds
  BY SendsAssumption, MessageIdOf
<1>2. r \in Attempts
  BY <1>1 DEF Attempts
<1>3. /\ r.by = c /\ r.send = s /\ r.first = (s.id \notin known[c])
      /\ r.asked = {s} /\ r.verdict = "none" /\ r.result = "pending"
  OBVIOUS
<1>4. attempts' = Append(attempts, r)
  BY DEF Send
<1> HIDE DEF r
<1>5. /\ attempts' \in Seq(Attempts) /\ Len(attempts') = n /\ n \in Nat
      /\ DOMAIN attempts' = 1 .. n /\ DOMAIN attempts = 1 .. Len(attempts)
      /\ Len(attempts) \in Nat
      /\ \A a \in 1 .. Len(attempts) : attempts'[a] = attempts[a]
      /\ attempts'[n] = r
  BY <1>2, <1>4, Ranges
<1>6. n \notin DOMAIN attempts /\ DOMAIN attempts' = DOMAIN attempts \cup {n}
  BY <1>5
<1>7. /\ pending' = [pending EXCEPT ![c] = pending[c] \cup {n}]
      /\ known' = [known EXCEPT ![c] = known[c] \cup {s.id}]
      /\ toBroker' = [toBroker EXCEPT ![c] = Append(toBroker[c], n)]
  BY <1>5 DEF Send
<1> QED
  BY <1>1, <1>3, <1>5, <1>6, <1>7 DEF SendsAs

\* Another call joins the attempt that waits.
LEMMA SendAgainEffect ==
  ASSUME SendTypeOK, NEW c \in Sessions, NEW s \in SendsOf[c], SendAgain(c, s)
  PROVE  /\ attempts' \in Seq(Attempts) /\ DOMAIN attempts' = DOMAIN attempts
         /\ KeepsAttempts
         /\ \A b \in DOMAIN attempts :
              /\ attempts'[b].verdict = attempts[b].verdict
              /\ attempts'[b].result = attempts[b].result
         /\ \E a \in Waiting(c, s.id) :
              /\ Signature(attempts[a].send) = Signature(s)
              /\ a \in DOMAIN attempts => attempts'[a].asked = attempts[a].asked \cup {s}
              /\ \A b \in DOMAIN attempts : b # a => attempts'[b].asked = attempts[b].asked
<1>1. PICK a \in Waiting(c, s.id) :
        /\ Signature(attempts[a].send) = Signature(s)
        /\ attempts' = [attempts EXCEPT ![a].asked = @ \cup {s}]
  BY DEF SendAgain, Coalesce
<1>2. s \in Sends
  BY SendsAssumption
<1>3. CASE a \notin DOMAIN attempts
  <2>1. attempts' = attempts
    BY <1>1, <1>3, Ranges
  <2> QED
    BY <2>1, <1>1, <1>3, Ranges DEF KeepsAttempts
<1>4. CASE a \in DOMAIN attempts
  <2> DEFINE r == [attempts[a] EXCEPT !.asked = attempts[a].asked \cup {s}]
  <2>1. attempts[a] \in Attempts /\ attempts[a].asked \cup {s} \in SUBSET Sends
    BY <1>2, <1>4, Ranges
  <2>2. /\ r \in Attempts
        /\ r.by = attempts[a].by /\ r.send = attempts[a].send
        /\ r.first = attempts[a].first /\ r.verdict = attempts[a].verdict
        /\ r.result = attempts[a].result /\ r.asked = attempts[a].asked \cup {s}
    BY <2>1 DEF Attempts
  <2>3. attempts' = [attempts EXCEPT ![a] = r]
    BY <1>1
  <2> HIDE DEF r
  <2>4. /\ attempts' \in Seq(Attempts) /\ DOMAIN attempts' = DOMAIN attempts
        /\ attempts'[a] = r
        /\ \A b \in DOMAIN attempts : b # a => attempts'[b] = attempts[b]
    BY <1>4, <2>2, <2>3, Ranges
  <2>5. KeepsAttempts
    BY <2>2, <2>4 DEF KeepsAttempts
  <2> QED
    BY <1>1, <2>2, <2>4, <2>5
<1> QED
  BY <1>3, <1>4

\* Everything a frame's handler leaves alone.
LEMMA FrameOfHandlers ==
  ASSUME NEW c \in Sessions, AnswerFromCache(c) \/ RejectSend(c)
  PROVE  /\ UNCHANGED <<authorizations, crossings, delivered, handler, name, supervisorOf>>
         /\ UNCHANGED <<pending, known, forwarded, copies, accepted, client, legacy>>
         /\ \E a \in DOMAIN attempts : \E ok \in BOOLEAN :
              /\ Incoming(c, a) /\ Answer(c, a, ok)
              /\ ok => /\ attempts[a].send.id \in Keys(delivered)
                       /\ At(delivered, attempts[a].send.id).signature
                            = Signature(attempts[a].send)
<1>1. CASE AnswerFromCache(c)
  <2>1. PICK a \in DOMAIN attempts :
          LET s == attempts[a].send
          IN  /\ Incoming(c, a) /\ s.id \in Keys(delivered)
              /\ Answer(c, a, At(delivered, s.id).signature = Signature(s))
    BY <1>1 DEF AnswerFromCache
  <2>2. PICK ok \in BOOLEAN :
          ok = (At(delivered, attempts[a].send.id).signature = Signature(attempts[a].send))
    OBVIOUS
  <2>3. Incoming(c, a) /\ Answer(c, a, ok) /\ attempts[a].send.id \in Keys(delivered)
    BY <2>1, <2>2
  <2> QED
    BY <1>1, <2>2, <2>3 DEF AnswerFromCache, brokerVars, historyVars
<1>2. CASE RejectSend(c)
  <2>1. PICK a \in DOMAIN attempts : Incoming(c, a) /\ Answer(c, a, FALSE)
    BY <1>2 DEF RejectSend
  <2> QED
    BY <1>2, <2>1 DEF RejectSend, brokerVars, historyVars
<1> QED
  BY <1>1, <1>2

LEMMA ReadAnswerEffect ==
  ASSUME SendTypeOK, NEW c \in Sessions, ReadAnswer(c)
  PROVE  \E m \in ToSet(toClient[c]) :
           /\ m \in Answers /\ client[c] = "up"
           /\ Settle(c, Matches(c, m), IF m.ok THEN "delivered" ELSE "failed")
           /\ toClient' \in [Sessions -> Seq(Answers)]
           /\ ToSet(toClient'[c]) \subseteq ToSet(toClient[c])
           /\ \A d \in Sessions : d # c => toClient'[d] = toClient[d]
<1>1. /\ toClient[c] \in Seq(Answers) /\ toClient[c] # <<>>
      /\ toClient \in [Sessions -> Seq(Answers)]
      /\ toClient' = [toClient EXCEPT ![c] = Tail(toClient[c])]
  BY DEF ReadAnswer, SendTypeOK
<1>2. /\ Head(toClient[c]) \in Answers /\ Head(toClient[c]) \in ToSet(toClient[c])
      /\ Tail(toClient[c]) \in Seq(Answers)
      /\ ToSet(Tail(toClient[c])) \subseteq ToSet(toClient[c])
  BY <1>1, HeadLeaves
<1>3. Settle(c, Matches(c, Head(toClient[c])),
             IF Head(toClient[c]).ok THEN "delivered" ELSE "failed")
  BY DEF ReadAnswer
<1> QED
  BY <1>1, <1>2, <1>3 DEF ReadAnswer

\* The part of a new state's type that an action leaves as it was.
LEMMA SettleTypes ==
  ASSUME SendTypeOK, NEW c \in Sessions,
         ReadAnswer(c) \/ Timeout(c) \/ ClientClose(c)
  PROVE  SendTypeOK'
<1> USE DEF brokerVars, wireVars, historyVars
<1>1. CASE ReadAnswer(c)
  <2>1. PICK m \in ToSet(toClient[c]) :
          /\ m \in Answers
          /\ Settle(c, Matches(c, m), IF m.ok THEN "delivered" ELSE "failed")
          /\ toClient' \in [Sessions -> Seq(Answers)]
    BY <1>1, ReadAnswerEffect
  <2>2. attempts' \in Seq(Attempts) /\ pending' \in [Sessions -> SUBSET Nat]
    BY <2>1, SettleEffect
  <2> QED
    BY <1>1, <2>1, <2>2 DEF ReadAnswer, SendTypeOK
<1>2. CASE Timeout(c)
  <2>1. attempts' \in Seq(Attempts) /\ pending' \in [Sessions -> SUBSET Nat]
    BY <1>2, SettleEffect DEF Timeout
  <2> QED
    BY <1>2, <2>1 DEF Timeout, SendTypeOK
<1>3. CASE ClientClose(c)
  <2>1. attempts' \in Seq(Attempts) /\ pending' \in [Sessions -> SUBSET Nat]
    BY <1>3, SettleEffect DEF ClientClose
  <2>2. /\ toClient' \in [Sessions -> Seq(Answers)] /\ known' \in [Sessions -> SUBSET MessageIds]
        /\ client' \in [Sessions -> {"unused", "up", "gone"}]
    BY <1>3 DEF ClientClose, SendTypeOK
  <2> QED
    BY <1>3, <2>1, <2>2 DEF ClientClose, SendTypeOK
<1> QED
  BY <1>1, <1>2, <1>3

LEMMA HandlerTypes ==
  ASSUME SendTypeOK, NEW c \in Sessions,
         AnswerFromCache(c) \/ RejectSend(c) \/ ForwardSend(c)
  PROVE  SendTypeOK'
<1>1. CASE AnswerFromCache(c) \/ RejectSend(c)
  <2>1. PICK a \in DOMAIN attempts, ok \in BOOLEAN : Incoming(c, a) /\ Answer(c, a, ok)
    BY <1>1, FrameOfHandlers
  <2>2. /\ attempts' \in Seq(Attempts) /\ toClient' \in [Sessions -> Seq(Answers)]
        /\ toBroker' \in [Sessions -> Seq(Nat)]
    BY <2>1, AnswerEffect, IncomingEffect
  <2> QED
    BY <1>1, <2>2, FrameOfHandlers DEF SendTypeOK
<1>2. CASE ForwardSend(c)
  <2>1. PICK a \in DOMAIN attempts, d \in Sessions : ForwardsTo(c, a, d)
    BY <1>2, ForwardEffect
  <2>2. /\ attempts' \in Seq(Attempts) /\ toClient' \in [Sessions -> Seq(Answers)]
        /\ toBroker' \in [Sessions -> Seq(Nat)]
    BY <2>1, AnswerEffect, IncomingEffect DEF ForwardsTo
  <2>3. IsMap(delivered', Deliveries) /\ IsMap(crossings', Crossings)
    BY <2>1, PutKey, EntriesAssumption DEF SendTypeOK, ForwardsTo
  <2>4. copies' \in [MessageIds -> Nat]
    <3>1. \A id \in MessageIds : copies[id] \in Nat /\ copies[id] + 1 \in Nat
      BY DEF SendTypeOK
    <3> QED
      BY <2>1, <3>1 DEF ForwardsTo
  <2>5. forwarded' \in SUBSET [attempt : Nat, to : Sessions]
    BY <2>1, Ranges DEF SendTypeOK, ForwardsTo
  <2> QED
    BY <1>2, <2>2, <2>3, <2>4, <2>5 DEF ForwardSend, SendTypeOK
<1> QED
  BY <1>1, <1>2

LEMMA SendTypes ==
  ASSUME SendTypeOK, NEW c \in Sessions, NEW s \in SendsOf[c], Send(c, s) \/ SendAgain(c, s)
  PROVE  SendTypeOK'
<1> USE DEF brokerVars, wireVars, historyVars
<1>1. CASE Send(c, s)
  <2>1. PICK n \in Nat : SendsAs(c, s, n)
    BY <1>1, SendEffect
  <2>2. Append(toBroker[c], n) \in Seq(Nat)
    BY AppendJoins DEF SendTypeOK
  <2>3. /\ pending' \in [Sessions -> SUBSET Nat] /\ known' \in [Sessions -> SUBSET MessageIds]
        /\ toBroker' \in [Sessions -> Seq(Nat)] /\ attempts' \in Seq(Attempts)
    BY <2>1, <2>2 DEF SendTypeOK, SendsAs
  <2> QED
    BY <1>1, <2>3 DEF Send, SendTypeOK
<1>2. CASE SendAgain(c, s)
  <2>1. attempts' \in Seq(Attempts)
    BY <1>2, SendAgainEffect
  <2> QED
    BY <1>2, <2>1 DEF SendAgain, SendTypeOK
<1> QED
  BY <1>1, <1>2

LEMMA RegisterTypes ==
  ASSUME SendTypeOK, NEW c \in Sessions
  PROVE  /\ Register(c) => SendTypeOK'
         /\ \A k \in CapsOf[c] \ {NoCap} : RegisterChild(c, k) => SendTypeOK'
         /\ \A k \in Caps : AuthorizeChild(c, k) => SendTypeOK'
<1> USE DEF wireVars, registryVars, historyVars
<1>1. ASSUME Register(c) PROVE SendTypeOK'
  BY <1>1 DEF Register, SendTypeOK
<1>2. ASSUME NEW k \in CapsOf[c] \ {NoCap}, RegisterChild(c, k) PROVE SendTypeOK'
  <2> DEFINE ok == Claimable(k, name[c])
             in == ok /\ Supervisor(k) \in sessions
  <2>1. k \in Caps /\ name[c] \in Names
    BY CapsAssumption DEF SendTypeOK
  <2>2. in => Supervisor(k) \in Sessions
    BY DEF sessions
  <2>3. IsMap(authorizations', Authorizations)
    <3>1. CASE ok
      BY <1>2, <2>1, <3>1, BindTypes DEF RegisterChild
    <3>2. CASE ~ok
      BY <1>2, <3>2 DEF RegisterChild, SendTypeOK
    <3> QED
      BY <3>1, <3>2
  <2>4. /\ client' = [client EXCEPT ![c] = IF in THEN "up" ELSE "gone"]
        /\ handler' = [handler EXCEPT ![c] = IF in THEN "named" ELSE "dead"]
        /\ supervisorOf' = [supervisorOf EXCEPT ![c] = IF in THEN Supervisor(k)
                                                       ELSE supervisorOf[c]]
        /\ accepted' = IF in THEN accepted \cup {[cap |-> k, sup |-> Supervisor(k), as |-> name[c]]}
                             ELSE accepted
    BY <1>2 DEF RegisterChild
  <2> HIDE DEF in
  <2>5. /\ client' \in [Sessions -> {"unused", "up", "gone"}]
        /\ handler' \in [Sessions -> {"none", "named", "dead"}]
        /\ supervisorOf' \in [Sessions -> Sessions \cup {NoSession}]
        /\ accepted' \in SUBSET [cap : Caps, sup : Sessions, as : Names]
    <3>1. CASE in
      BY <2>1, <2>2, <2>4, <3>1 DEF SendTypeOK
    <3>2. CASE ~in
      BY <2>4, <3>2 DEF SendTypeOK
    <3> QED
      BY <3>1, <3>2
  <2> QED
    BY <1>2, <2>3, <2>5 DEF RegisterChild, SendTypeOK
<1>3. ASSUME NEW k \in Caps, AuthorizeChild(c, k) PROVE SendTypeOK'
  <2>1. IsMap(authorizations', Authorizations)
    BY <1>3, AuthorizeTypes DEF AuthorizeChild
  <2>2. accepted' \in SUBSET [cap : Caps, sup : Sessions, as : Names]
    BY <1>3 DEF AuthorizeChild, SendTypeOK
  <2> QED
    BY <1>3, <2>1, <2>2 DEF AuthorizeChild, SendTypeOK
<1> QED
  BY <1>1, <1>2, <1>3

LEMMA OtherTypes ==
  ASSUME SendTypeOK
  PROVE  /\ \A c \in Sessions :
              /\ \A id \in MessageIds : ForgetGeneration(c, id) => SendTypeOK'
              /\ \A n \in NewNamesOf[c] : Rename(c, n) => SendTypeOK'
              /\ HandlerClose(c) => SendTypeOK'
         /\ Expire => SendTypeOK'
         /\ BrokerStops => SendTypeOK'
         /\ UNCHANGED sendVars => SendTypeOK'
<1> USE DEF brokerVars, wireVars, registryVars, historyVars
<1>0. \A S : <<>> \in Seq(S) /\ IsMap(<<>>, S)
  <2>1. \A S : <<>> \in Seq(S) /\ DOMAIN <<>> = {}
    OBVIOUS
  <2> QED
    BY <2>1 DEF IsMap
<1>1. ASSUME NEW c \in Sessions, NEW id \in MessageIds, ForgetGeneration(c, id)
      PROVE  SendTypeOK'
  BY <1>1 DEF ForgetGeneration, SendTypeOK
<1>2. ASSUME NEW c \in Sessions, NEW n \in NewNamesOf[c], Rename(c, n) PROVE SendTypeOK'
  <2>1. n \in Names
    BY NamesAssumption
  <2> QED
    BY <1>2, <2>1 DEF Rename, SendTypeOK
<1>3. ASSUME NEW c \in Sessions, HandlerClose(c) PROVE SendTypeOK'
  BY <1>0, <1>3 DEF HandlerClose, SendTypeOK
<1>4. ASSUME Expire PROVE SendTypeOK'
  <2>1. IsMap(delivered', Deliveries) /\ IsMap(crossings', Crossings)
    BY <1>4, TailOfMap DEF Expire, SendTypeOK
  <2>2. copies' \in [MessageIds -> Nat]
    <3>1. \A id \in MessageIds : copies[id] \in Nat
      BY DEF SendTypeOK
    <3>2. CASE Forgotten(Keys(delivered'))
      BY <3>1, <3>2 DEF Forgotten
    <3>3. CASE UNCHANGED copies
      BY <3>3 DEF SendTypeOK
    <3> QED
      BY <1>4, <3>2, <3>3 DEF Expire
  <2> QED
    BY <1>4, <2>1, <2>2 DEF Expire, SendTypeOK
<1>5. ASSUME BrokerStops PROVE SendTypeOK'
  <2>1. copies' \in [MessageIds -> Nat]
    BY <1>5 DEF BrokerStops, Forgotten, SendTypeOK
  <2>2. handler' \in [Sessions -> {"none", "named", "dead"}]
    BY <1>5 DEF BrokerStops, SendTypeOK
  <2> QED
    BY <1>0, <1>5, <2>1, <2>2 DEF BrokerStops, SendTypeOK
<1>6. ASSUME UNCHANGED sendVars PROVE SendTypeOK'
  BY <1>6 DEF sendVars, SendTypeOK
<1> QED
  BY <1>1, <1>2, <1>3, <1>4, <1>5, <1>6

LEMMA SendTypeStep == SendTypeOK /\ [Next]_sendVars => SendTypeOK'
BY SettleTypes, HandlerTypes, SendTypes, RegisterTypes, OtherTypes DEF Next

-----------------------------------------------------------------------------
(* One child per slot. *)

LEMMA SlotFrame ==
  ASSUME [Next]_sendVars
  PROVE  \/ \E c \in Sessions : \E k \in CapsOf[c] \ {NoCap} : RegisterChild(c, k)
         \/ \E c \in Sessions : \E k \in Caps : AuthorizeChild(c, k)
         \/ BrokerStops
         \/ UNCHANGED <<authorizations, accepted>>
BY DEF Next, ReadAnswer, Timeout, ClientClose, AnswerFromCache, RejectSend, ForwardSend,
       Register, HandlerClose, Send, SendAgain, ForgetGeneration, Rename, Expire,
       sendVars, brokerVars, historyVars

LEMMA SlotsStep ==
  ASSUME SendTypeOK, SlotsHold, [Next]_sendVars
  PROVE  SlotsHold'
<1>1. ASSUME NEW c \in Sessions, NEW k \in CapsOf[c] \ {NoCap}, RegisterChild(c, k)
      PROVE  SlotsHold'
  <2> DEFINE n == name[c]
             in == Claimable(k, n) /\ Supervisor(k) \in sessions
  <2>1. k \in Caps /\ n \in Names /\ NoName \notin Names
    BY CapsAssumption, NamesAssumption DEF SendTypeOK
  <2>2. accepted' = IF in THEN accepted \cup {[cap |-> k, sup |-> Supervisor(k), as |-> n]}
                          ELSE accepted
    BY <1>1 DEF RegisterChild
  <2>3. CASE ~Claimable(k, n)
    <3>1. UNCHANGED <<authorizations, accepted>>
      BY <1>1, <2>2, <2>3 DEF RegisterChild
    <3> QED
      BY <3>1 DEF SlotsHold, Keys, At, Place, ToSet
  <2>4. CASE Claimable(k, n)
    <3>1. Bind(k, n)
      BY <1>1, <2>4 DEF RegisterChild
    <3>2. /\ IsMap(authorizations', Authorizations)
          /\ DOMAIN authorizations' = DOMAIN authorizations
          /\ \A i \in DOMAIN authorizations :
               /\ authorizations'[i].key = authorizations[i].key
               /\ authorizations'[i].sup = authorizations[i].sup
               /\ authorizations'[i].bound =
                    IF authorizations[i].key = k /\ SlotOf[k] = AnyName
                      THEN n ELSE authorizations[i].bound
      BY <2>1, <3>1, BindTypes
    <3>3. IsMap(authorizations, Authorizations)
      BY DEF SendTypeOK
    <3>4. Keys(authorizations') = Keys(authorizations)
      BY <3>2 DEF Keys
    <3>5. \A e \in ToSet(authorizations') : TokenOf[e.sup] = OwnerOf[e.key]
      BY <3>2 DEF ToSet, SlotsHold
    <3>6. ASSUME NEW q \in Keys(authorizations)
          PROVE  At(authorizations', q).bound =
                   IF q = k /\ SlotOf[k] = AnyName THEN n ELSE At(authorizations, q).bound
      <4>1. /\ Place(authorizations, q) \in DOMAIN authorizations
            /\ authorizations[Place(authorizations, q)].key = q
        BY <3>3, Lookup DEF IsMap
      <4>2. /\ Place(authorizations', q) \in DOMAIN authorizations
            /\ authorizations'[Place(authorizations', q)].key = q
        BY <3>2, <3>4, Lookup DEF IsMap
      <4>3. Place(authorizations', q) = Place(authorizations, q)
        BY <3>2, <3>3, <4>1, <4>2 DEF IsMap
      <4> QED
        BY <3>2, <4>1, <4>3 DEF At
    <3>7. k \in Keys(authorizations)
      BY <2>4 DEF Claimable
    <3>8. TokenOf[Supervisor(k)] = OwnerOf[k]
      BY <3>3, <3>7, Lookup DEF Supervisor, SlotsHold
    <3>9. ASSUME NEW x \in accepted
          PROVE  /\ x.cap \in Keys(authorizations') /\ TokenOf[x.sup] = OwnerOf[x.cap]
                 /\ IF SlotOf[x.cap] = AnyName THEN At(authorizations', x.cap).bound = x.as
                                               ELSE SlotOf[x.cap] = x.as
      <4>1. /\ x.cap \in Keys(authorizations) /\ TokenOf[x.sup] = OwnerOf[x.cap]
            /\ IF SlotOf[x.cap] = AnyName THEN At(authorizations, x.cap).bound = x.as
                                          ELSE SlotOf[x.cap] = x.as
        BY DEF SlotsHold
      <4>2. x.as \in Names
        BY DEF SendTypeOK
      <4>3. CASE x.cap = k /\ SlotOf[k] = AnyName
        <5>1. At(authorizations, k).bound \in {NoName, n} /\ At(authorizations, k).bound = x.as
          BY <2>4, <4>1, <4>3 DEF Claimable
        <5>2. n = x.as
          BY <2>1, <4>2, <5>1
        <5> QED
          BY <3>4, <3>6, <4>1, <4>3, <5>2
      <4>4. CASE ~(x.cap = k /\ SlotOf[k] = AnyName)
        BY <3>4, <3>6, <4>1, <4>4
      <4> QED
        BY <4>3, <4>4
    <3>10. IF SlotOf[k] = AnyName THEN At(authorizations', k).bound = n ELSE SlotOf[k] = n
      BY <2>4, <3>6, <3>7 DEF Claimable
    <3>11. \A x \in accepted' : x \in accepted \/ x = [cap |-> k, sup |-> Supervisor(k), as |-> n]
      BY <2>2
    <3> HIDE DEF n, in
    <3> QED
      BY <3>4, <3>5, <3>7, <3>8, <3>9, <3>10, <3>11 DEF SlotsHold
  <2> QED
    BY <2>3, <2>4
<1>2. ASSUME NEW c \in Sessions, NEW k \in Caps, AuthorizeChild(c, k)
      PROVE  SlotsHold'
  <2>1. PICK e \in Authorizations :
          /\ e.key = k /\ e.sup = c
          /\ k \in Keys(authorizations) => e.bound = At(authorizations, k).bound
          /\ IsMap(authorizations', Authorizations)
          /\ e \in ToSet(authorizations')
          /\ \A x \in ToSet(authorizations') : x = e \/ (x \in ToSet(authorizations) /\ x.key # k)
    BY <1>2, AuthorizeTypes DEF AuthorizeChild
  <2>2. /\ TokenOf[c] = OwnerOf[k]
        /\ accepted' = {x \in accepted : x.cap \in Keys(authorizations')}
    BY <1>2 DEF AuthorizeChild
  <2>3. \A x \in ToSet(authorizations') : TokenOf[x.sup] = OwnerOf[x.key]
    BY <2>1, <2>2 DEF SlotsHold
  <2>4. ASSUME NEW q \in Keys(authorizations'), q \in Keys(authorizations)
        PROVE  At(authorizations', q).bound = At(authorizations, q).bound
    <3>1. /\ At(authorizations', q) \in ToSet(authorizations')
          /\ At(authorizations', q).key = q
      BY <2>1, Lookup
    <3>2. CASE q = k
      <4>1. At(authorizations', q) = e
        BY <2>1, <3>1, <3>2
      <4> QED
        BY <2>1, <2>4, <3>2, <4>1
    <3>3. CASE q # k
      <4>1. At(authorizations', q) \in ToSet(authorizations)
        BY <2>1, <3>1, <3>3
      <4>2. At(authorizations', q) = At(authorizations, q)
        BY <2>4, <3>1, <4>1, Lookup DEF SendTypeOK
      <4> QED
        BY <4>2
    <3> QED
      BY <3>2, <3>3
  <2>5. ASSUME NEW x \in accepted'
        PROVE  /\ x.cap \in Keys(authorizations') /\ TokenOf[x.sup] = OwnerOf[x.cap]
               /\ IF SlotOf[x.cap] = AnyName THEN At(authorizations', x.cap).bound = x.as
                                             ELSE SlotOf[x.cap] = x.as
    BY <2>2, <2>4 DEF SlotsHold
  <2> QED
    BY <2>3, <2>5 DEF SlotsHold
<1>3. ASSUME BrokerStops PROVE SlotsHold'
  <2>1. ToSet(<<>>) = {}
    BY DEF ToSet
  <2> QED
    BY <1>3, <2>1 DEF BrokerStops, SlotsHold
<1>4. CASE UNCHANGED <<authorizations, accepted>>
  BY <1>4 DEF SlotsHold, Keys, At, Place, ToSet
<1> QED
  BY <1>1, <1>2, <1>3, <1>4, SlotFrame

LEMMA SlotsGiveOneChild ==
  ASSUME SlotsHold
  PROVE  OneChildPerSlot
BY DEF SlotsHold, OneChildPerSlot

-----------------------------------------------------------------------------
(* Delivered once. *)

LEMMA CopiesFrame ==
  ASSUME [Next]_sendVars
  PROVE  \/ \E c \in Sessions : ForwardSend(c)
         \/ Expire \/ BrokerStops
         \/ UNCHANGED <<delivered, copies>>
<1> USE DEF brokerVars, historyVars
<1>1. ASSUME NEW c \in Sessions, \E k \in CapsOf[c] \ {NoCap} : RegisterChild(c, k)
      PROVE  UNCHANGED <<delivered, copies>>
  BY <1>1 DEF RegisterChild
<1>2. ASSUME NEW c \in Sessions, \E k \in Caps : AuthorizeChild(c, k)
      PROVE  UNCHANGED <<delivered, copies>>
  BY <1>2 DEF AuthorizeChild
<1>3. ASSUME NEW c \in Sessions,
             \/ ReadAnswer(c) \/ Timeout(c) \/ ClientClose(c)
             \/ AnswerFromCache(c) \/ RejectSend(c) \/ Register(c) \/ HandlerClose(c)
      PROVE  UNCHANGED <<delivered, copies>>
  BY <1>3 DEF ReadAnswer, Timeout, ClientClose, AnswerFromCache, RejectSend, Register,
              HandlerClose
<1>4. ASSUME NEW c \in Sessions,
             \/ \E s \in SendsOf[c] : Send(c, s) \/ SendAgain(c, s)
             \/ \E id \in MessageIds : ForgetGeneration(c, id)
             \/ \E n \in NewNamesOf[c] : Rename(c, n)
      PROVE  UNCHANGED <<delivered, copies>>
  BY <1>4 DEF Send, SendAgain, ForgetGeneration, Rename
<1>5. CASE UNCHANGED sendVars
  BY <1>5 DEF sendVars
<1> QED
  BY <1>1, <1>2, <1>3, <1>4, <1>5 DEF Next

LEMMA CopiesStep ==
  ASSUME SendTypeOK, CopiesRemembered, [Next]_sendVars
  PROVE  CopiesRemembered'
<1>0. \A id \in MessageIds : copies[id] \in Nat
  BY DEF SendTypeOK
<1>1. ASSUME NEW c \in Sessions, ForwardSend(c) PROVE CopiesRemembered'
  <2>1. PICK a \in DOMAIN attempts, d \in Sessions : ForwardsTo(c, a, d)
    BY <1>1, ForwardEffect
  <2> DEFINE s == attempts[a].send
             e == [key |-> s.id, signature |-> Signature(s)]
  <2>2. /\ s.id \in MessageIds /\ s.id \notin Keys(delivered) /\ e \in Deliveries
        /\ delivered' = Put(delivered, e, MaxEntries)
        /\ copies' = [id \in MessageIds |->
                        IF id = s.id THEN copies[id] + 1
                        ELSE IF id \in Keys(delivered') THEN copies[id] ELSE 0]
        /\ e.key = s.id
    BY <2>1 DEF ForwardsTo
  <2> HIDE DEF s, e
  <2>3. IsMap(delivered', Deliveries) /\ e \in ToSet(delivered')
    BY <2>2, PutKey, EntriesAssumption DEF SendTypeOK
  <2>4. s.id \in Keys(delivered')
    BY <2>2, <2>3, KeysOfEntries DEF IsMap
  <2>5. copies[s.id] = 0
    BY <2>2 DEF CopiesRemembered
  <2> QED
    BY <1>0, <2>2, <2>4, <2>5 DEF CopiesRemembered
<1>2. ASSUME Expire PROVE CopiesRemembered'
  <2>1. CASE Forgotten(Keys(delivered'))
    BY <1>0, <2>1 DEF Forgotten, CopiesRemembered
  <2>2. CASE UNCHANGED <<delivered, copies>>
    BY <2>2 DEF CopiesRemembered, Keys
  <2> QED
    BY <1>2, <2>1, <2>2 DEF Expire
<1>3. ASSUME BrokerStops PROVE CopiesRemembered'
  BY <1>3 DEF BrokerStops, Forgotten, CopiesRemembered
<1>4. CASE UNCHANGED <<delivered, copies>>
  BY <1>4 DEF CopiesRemembered, Keys
<1> QED
  BY <1>1, <1>2, <1>3, <1>4, CopiesFrame

-----------------------------------------------------------------------------
(* History only grows. *)

LEMMA UnchangedKeeps ==
  ASSUME UNCHANGED attempts
  PROVE  KeepsAttempts /\ DOMAIN attempts' = DOMAIN attempts
BY DEF KeepsAttempts

\* Only Send makes an attempt; nothing changes who made one, or what it sends.
LEMMA AttemptsFrame ==
  ASSUME SendTypeOK, [Next]_sendVars
  PROVE  /\ KeepsAttempts
         /\ \/ \E c \in Sessions : \E s \in SendsOf[c] : Send(c, s)
            \/ DOMAIN attempts' = DOMAIN attempts
<1> USE DEF registryVars
<1>1. ASSUME NEW c \in Sessions, ReadAnswer(c) \/ Timeout(c) \/ ClientClose(c)
      PROVE  KeepsAttempts /\ DOMAIN attempts' = DOMAIN attempts
  <2>1. CASE ReadAnswer(c)
    BY <2>1, ReadAnswerEffect, SettleEffect
  <2>2. CASE Timeout(c)
    BY <2>2, SettleEffect DEF Timeout
  <2>3. CASE ClientClose(c)
    BY <2>3, SettleEffect DEF ClientClose
  <2> QED
    BY <1>1, <2>1, <2>2, <2>3
<1>2. ASSUME NEW c \in Sessions, AnswerFromCache(c) \/ RejectSend(c) \/ ForwardSend(c)
      PROVE  KeepsAttempts /\ DOMAIN attempts' = DOMAIN attempts
  <2>1. CASE AnswerFromCache(c) \/ RejectSend(c)
    BY <2>1, FrameOfHandlers, AnswerEffect
  <2>2. CASE ForwardSend(c)
    BY <2>2, ForwardEffect, AnswerEffect DEF ForwardsTo
  <2> QED
    BY <1>2, <2>1, <2>2
<1>3. ASSUME NEW c \in Sessions,
             \/ Register(c) \/ HandlerClose(c)
             \/ \E k \in CapsOf[c] \ {NoCap} : RegisterChild(c, k)
             \/ \E k \in Caps : AuthorizeChild(c, k)
             \/ \E n \in NewNamesOf[c] : Rename(c, n)
      PROVE  KeepsAttempts /\ DOMAIN attempts' = DOMAIN attempts
  BY <1>3, UnchangedKeeps DEF Register, HandlerClose, RegisterChild, AuthorizeChild, Rename
<1>4. ASSUME NEW c \in Sessions, NEW s \in SendsOf[c], Send(c, s)
      PROVE  KeepsAttempts
  <2>1. PICK n \in Nat : SendsAs(c, s, n)
    BY <1>4, SendEffect
  <2>2. /\ DOMAIN attempts' = DOMAIN attempts \cup {n}
        /\ \A a \in DOMAIN attempts : attempts'[a] = attempts[a]
    BY <2>1 DEF SendsAs
  <2> QED
    BY <2>2 DEF KeepsAttempts
<1>5. ASSUME NEW c \in Sessions, NEW s \in SendsOf[c], SendAgain(c, s)
      PROVE  KeepsAttempts /\ DOMAIN attempts' = DOMAIN attempts
  BY <1>5, SendAgainEffect
<1>6. ASSUME \/ \E c \in Sessions : \E id \in MessageIds : ForgetGeneration(c, id)
             \/ Expire \/ BrokerStops \/ UNCHANGED sendVars
      PROVE  KeepsAttempts /\ DOMAIN attempts' = DOMAIN attempts
  BY <1>6, UnchangedKeeps DEF ForgetGeneration, Expire, BrokerStops, sendVars
<1> QED
  BY <1>1, <1>2, <1>3, <1>4, <1>5, <1>6 DEF Next

\* A connection that was used stays used, with the supervisor it registered with.
LEMMA ClientFrame ==
  ASSUME SendTypeOK, [Next]_sendVars, NEW d \in Sessions, client[d] # "unused"
  PROVE  client'[d] # "unused" /\ supervisorOf'[d] = supervisorOf[d]
<1>0. client \in [Sessions -> {"unused", "up", "gone"}]
      /\ supervisorOf \in [Sessions -> Sessions \cup {NoSession}]
  BY DEF SendTypeOK
<1>1. ASSUME NEW c \in Sessions, NEW k \in CapsOf[c] \ {NoCap}, RegisterChild(c, k)
      PROVE  client'[d] # "unused" /\ supervisorOf'[d] = supervisorOf[d]
  <2>1. c # d
    BY <1>1 DEF RegisterChild
  <2> QED
    BY <1>0, <1>1, <2>1 DEF RegisterChild
<1>2. ASSUME NEW c \in Sessions, Register(c) \/ ClientClose(c)
      PROVE  client'[d] # "unused" /\ supervisorOf'[d] = supervisorOf[d]
  BY <1>0, <1>2 DEF Register, ClientClose, brokerVars
<1>3. ASSUME NEW c \in Sessions,
             \/ ReadAnswer(c) \/ Timeout(c) \/ AnswerFromCache(c) \/ RejectSend(c)
             \/ ForwardSend(c) \/ HandlerClose(c)
             \/ \E s \in SendsOf[c] : Send(c, s) \/ SendAgain(c, s)
      PROVE  UNCHANGED <<client, supervisorOf>>
  BY <1>3 DEF ReadAnswer, Timeout, AnswerFromCache, RejectSend, ForwardSend, HandlerClose,
              Send, SendAgain, brokerVars
<1>4. ASSUME NEW c \in Sessions,
             \/ \E id \in MessageIds : ForgetGeneration(c, id)
             \/ \E k \in Caps : AuthorizeChild(c, k)
             \/ \E n \in NewNamesOf[c] : Rename(c, n)
      PROVE  UNCHANGED <<client, supervisorOf>>
  BY <1>4 DEF ForgetGeneration, AuthorizeChild, Rename, brokerVars
<1>5. ASSUME Expire \/ BrokerStops \/ UNCHANGED sendVars
      PROVE  UNCHANGED <<client, supervisorOf>>
  BY <1>5 DEF Expire, BrokerStops, sendVars, brokerVars
<1> QED
  BY <1>1, <1>2, <1>3, <1>4, <1>5 DEF Next

\* Only ForwardSend writes to a target, and what the broker's maps hold after
\* any other step they held before.
LEMMA ForwardFrame ==
  ASSUME SendTypeOK, [Next]_sendVars
  PROVE  \/ \E c \in Sessions : ForwardSend(c)
         \/ /\ forwarded' = forwarded
            /\ ToSet(crossings') \subseteq ToSet(crossings)
            /\ ToSet(delivered') \subseteq ToSet(delivered)
<1> DEFINE Goal == /\ forwarded' = forwarded
                   /\ ToSet(crossings') \subseteq ToSet(crossings)
                   /\ ToSet(delivered') \subseteq ToSet(delivered)
<1>0. UNCHANGED <<forwarded, crossings, delivered>> => Goal
  OBVIOUS
<1>1. ASSUME NEW c \in Sessions,
             \/ ReadAnswer(c) \/ Timeout(c) \/ ClientClose(c)
             \/ AnswerFromCache(c) \/ RejectSend(c) \/ Register(c) \/ HandlerClose(c)
      PROVE  UNCHANGED <<forwarded, crossings, delivered>>
  BY <1>1 DEF ReadAnswer, Timeout, ClientClose, AnswerFromCache, RejectSend, Register,
              HandlerClose, brokerVars, historyVars
<1>2. ASSUME NEW c \in Sessions, \E k \in CapsOf[c] \ {NoCap} : RegisterChild(c, k)
      PROVE  UNCHANGED <<forwarded, crossings, delivered>>
  BY <1>2 DEF RegisterChild
<1>3. ASSUME NEW c \in Sessions,
             \/ \E s \in SendsOf[c] : Send(c, s) \/ SendAgain(c, s)
             \/ \E id \in MessageIds : ForgetGeneration(c, id)
             \/ \E k \in Caps : AuthorizeChild(c, k)
             \/ \E n \in NewNamesOf[c] : Rename(c, n)
      PROVE  UNCHANGED <<forwarded, crossings, delivered>>
  BY <1>3 DEF Send, SendAgain, ForgetGeneration, AuthorizeChild, Rename, brokerVars, historyVars
<1>4. ASSUME Expire PROVE Goal
  <2>1. delivered # <<>> => ToSet(Tail(delivered)) \subseteq ToSet(delivered)
    BY TailOfMap DEF SendTypeOK
  <2>2. crossings # <<>> => ToSet(Tail(crossings)) \subseteq ToSet(crossings)
    BY TailOfMap DEF SendTypeOK
  <2> QED
    BY <1>4, <2>1, <2>2 DEF Expire
<1>5. ASSUME BrokerStops PROVE Goal
  BY <1>5 DEF BrokerStops, ToSet
<1>6. CASE UNCHANGED sendVars
  BY <1>0, <1>6 DEF sendVars, brokerVars, historyVars
<1> QED
  BY <1>0, <1>1, <1>2, <1>3, <1>4, <1>5, <1>6 DEF Next

LEMMA AttemptsStep ==
  ASSUME SendTypeOK, AttemptsExist, [Next]_sendVars
  PROVE  AttemptsExist'
<1>1. KeepsAttempts
  BY AttemptsFrame
<1>2. ASSUME NEW a \in DOMAIN attempts PROVE client'[attempts'[a].by] # "unused"
  <2>1. attempts[a].by \in Sessions /\ client[attempts[a].by] # "unused"
    BY Ranges DEF AttemptsExist
  <2> QED
    BY <1>1, <2>1, ClientFrame DEF KeepsAttempts
<1>3. ASSUME NEW a \in DOMAIN attempts' PROVE client'[attempts'[a].by] # "unused"
  <2>1. ASSUME NEW c \in Sessions, NEW s \in SendsOf[c], Send(c, s), a \notin DOMAIN attempts
        PROVE  client'[attempts'[a].by] # "unused"
    <3>0. PICK n \in Nat : SendsAs(c, s, n)
      BY <2>1, SendEffect
    <3>1. attempts'[a].by = c
      BY <2>1, <3>0 DEF SendsAs
    <3>2. client'[c] = "up"
      BY <2>1 DEF Send
    <3> QED
      BY <3>1, <3>2
  <2> QED
    BY <1>2, <2>1, AttemptsFrame
<1>4. ASSUME NEW f \in forwarded' PROVE f.attempt \in DOMAIN attempts'
  <2>1. ASSUME NEW c \in Sessions, ForwardSend(c)
        PROVE  f.attempt \in DOMAIN attempts
    <3>1. PICK a \in DOMAIN attempts, d \in Sessions : ForwardsTo(c, a, d)
      BY <2>1, ForwardEffect
    <3>2. f \in forwarded \/ f = [attempt |-> a, to |-> d]
      BY <3>1 DEF ForwardsTo
    <3> QED
      BY <3>2 DEF AttemptsExist
  <2>2. ASSUME forwarded' = forwarded PROVE f.attempt \in DOMAIN attempts
    BY <2>2 DEF AttemptsExist
  <2> QED
    BY <1>1, <2>1, <2>2, ForwardFrame DEF KeepsAttempts
<1> QED
  BY <1>3, <1>4 DEF AttemptsExist

-----------------------------------------------------------------------------
(* Groups are crossed vertically. *)

\* The frame a handler reads was sent by the connection it came through.
LEMMA ReadsItsOwn ==
  ASSUME SendTypeOK, WireInOrder, NEW c \in Sessions, NEW a, Incoming(c, a)
  PROVE  a \in DOMAIN attempts /\ attempts[a].by = c /\ a \in OnWire(c)
BY IncomingEffect DEF WireInOrder, OnWire

LEMMA CrossingsStep ==
  ASSUME SendTypeOK, AttemptsExist, WireInOrder, CrossingsForwarded, [Next]_sendVars
  PROVE  CrossingsForwarded'
<1>1. KeepsAttempts
  BY AttemptsFrame
<1>2. ASSUME NEW e \in ToSet(crossings), forwarded \subseteq forwarded'
      PROVE  \E g \in forwarded' :
               LET t == attempts'[g.attempt]
               IN  /\ t.send.kind = "supervisor_send" /\ t.send.id = e.key
                   /\ t.by = e.from /\ g.to = e.to
  <2>1. PICK g \in forwarded :
          LET t == attempts[g.attempt]
          IN  /\ t.send.kind = "supervisor_send" /\ t.send.id = e.key
              /\ t.by = e.from /\ g.to = e.to
    BY DEF CrossingsForwarded
  <2>2. g.attempt \in DOMAIN attempts
    BY DEF AttemptsExist
  <2> QED
    BY <1>1, <1>2, <2>1, <2>2 DEF KeepsAttempts
<1>3. ASSUME NEW c \in Sessions, ForwardSend(c) PROVE CrossingsForwarded'
  <2>1. PICK a \in DOMAIN attempts, d \in Sessions : ForwardsTo(c, a, d)
    BY <1>3, ForwardEffect
  <2> DEFINE s == attempts[a].send
             x == [key |-> s.id, from |-> c, to |-> d]
             f == [attempt |-> a, to |-> d]
  <2>2. /\ x \in Crossings /\ forwarded' = forwarded \cup {f}
        /\ IF s.kind = "supervisor_send" THEN crossings' = Put(crossings, x, MaxEntries)
                                         ELSE crossings' = crossings
    BY <2>1 DEF ForwardsTo
  <2>3. x.key = s.id /\ x.from = c /\ x.to = d /\ f.attempt = a /\ f.to = d
    OBVIOUS
  <2>4. attempts[a].by = c
    BY <2>1, ReadsItsOwn DEF ForwardsTo
  <2>5. attempts'[a].by = c /\ attempts'[a].send = s
    BY <1>1, <2>4 DEF KeepsAttempts
  <2> HIDE DEF s, x, f
  <2>6. CASE s.kind = "supervisor_send"
    <3>1. \A e \in ToSet(crossings') : e = x \/ e \in ToSet(crossings)
      BY <2>2, <2>6, PutKey, EntriesAssumption DEF SendTypeOK
    <3>2. ASSUME NEW e \in ToSet(crossings')
          PROVE  \E g \in forwarded' :
                   LET t == attempts'[g.attempt]
                   IN  /\ t.send.kind = "supervisor_send" /\ t.send.id = e.key
                       /\ t.by = e.from /\ g.to = e.to
      <4>1. CASE e = x
        <5>1. f \in forwarded'
          BY <2>2
        <5> QED
          BY <2>3, <2>5, <2>6, <4>1, <5>1
      <4>2. CASE e \in ToSet(crossings)
        BY <1>2, <2>2, <4>2
      <4> QED
        BY <3>1, <4>1, <4>2
    <3> QED
      BY <3>2 DEF CrossingsForwarded
  <2>7. CASE s.kind # "supervisor_send"
    BY <1>2, <2>2, <2>7 DEF CrossingsForwarded
  <2> QED
    BY <2>6, <2>7
<1>4. ASSUME forwarded' = forwarded, ToSet(crossings') \subseteq ToSet(crossings)
      PROVE  CrossingsForwarded'
  BY <1>2, <1>4 DEF CrossingsForwarded
<1> QED
  BY <1>3, <1>4, ForwardFrame

\* f crosses no group, or does so to the supervisor or back to who asked it.
CrossesVertically(f) ==
  LET c == attempts[f.attempt].by
      s == attempts[f.attempt].send
  IN  GroupOf[c] # GroupOf[f.to] =>
        \/ s.kind = "supervisor_send" /\ f.to = supervisorOf[c]
        \/ \E g \in forwarded :
             LET t == attempts[g.attempt]
             IN  /\ t.send.kind = "supervisor_send" /\ t.send.id = s.replyTo
                 /\ t.by = f.to /\ g.to = c

\* What was forwarded stays vertical.
LEMMA VerticalStays ==
  ASSUME SendTypeOK, AttemptsExist, [Next]_sendVars, NEW f,
         f.attempt \in DOMAIN attempts, CrossesVertically(f), forwarded \subseteq forwarded'
  PROVE  CrossesVertically(f)'
<1> DEFINE c == attempts[f.attempt].by
<1>1. KeepsAttempts
  BY AttemptsFrame
<1>2. c \in Sessions /\ client[c] # "unused"
  BY Ranges DEF AttemptsExist
<1>3. /\ attempts'[f.attempt].by = c /\ attempts'[f.attempt].send = attempts[f.attempt].send
      /\ supervisorOf'[c] = supervisorOf[c]
  BY <1>1, <1>2, ClientFrame DEF KeepsAttempts
<1>4. \A g \in forwarded : /\ g \in forwarded'
                           /\ attempts'[g.attempt].by = attempts[g.attempt].by
                           /\ attempts'[g.attempt].send = attempts[g.attempt].send
  BY <1>1 DEF KeepsAttempts, AttemptsExist
<1> QED
  BY <1>3, <1>4 DEF CrossesVertically

LEMMA GroupsStep ==
  ASSUME SendTypeOK, AttemptsExist, WireInOrder, CrossingsForwarded,
         GroupsCrossedVertically, [Next]_sendVars
  PROVE  GroupsCrossedVertically'
<1>1. \A f \in forwarded : CrossesVertically(f) /\ f.attempt \in DOMAIN attempts
  BY DEF GroupsCrossedVertically, CrossesVertically, AttemptsExist
<1>2. forwarded \subseteq forwarded' => \A f \in forwarded : CrossesVertically(f)'
  BY <1>1, VerticalStays
<1>3. ASSUME NEW c \in Sessions, ForwardSend(c)
      PROVE  \A f \in forwarded' : CrossesVertically(f)'
  <2>1. PICK a \in DOMAIN attempts, d \in Sessions : ForwardsTo(c, a, d)
    BY <1>3, ForwardEffect
  <2> DEFINE s == attempts[a].send
             f == [attempt |-> a, to |-> d]
  <2>2. /\ forwarded' = forwarded \cup {f} /\ d \in Routes(c, s)
        /\ attempts[a].by = c
    BY <2>1, ReadsItsOwn DEF ForwardsTo
  <2>3. f.attempt = a /\ f.to = d
    OBVIOUS
  <2>4. CrossesVertically(f)
    <3>1. CASE s.kind = "supervisor_send"
      <4>1. /\ s.to = supervisorOf[c] /\ supervisorOf[c] \in Sessions
            /\ d \in Resolved(c, s)
        BY <2>2, <3>1 DEF Routes, SupervisorAllowed, SendTypeOK
      <4>2. \A e \in Sessions : name[e] # s.to
        BY <4>1, NamesAssumption DEF SendTypeOK
      <4>3. d = s.to
        BY <4>1, <4>2 DEF Resolved, sessions
      <4> QED
        BY <2>2, <2>3, <3>1, <4>1, <4>3 DEF CrossesVertically
    <3>2. CASE s.replyTo # NoReply /\ MatchReply(s.replyTo, c, d)
      <4>1. /\ At(crossings, s.replyTo) \in ToSet(crossings)
            /\ At(crossings, s.replyTo).key = s.replyTo
            /\ At(crossings, s.replyTo).from = d /\ At(crossings, s.replyTo).to = c
        BY <3>2, Lookup DEF MatchReply, SendTypeOK
      <4>2. \E g \in forwarded :
              LET t == attempts[g.attempt]
              IN  /\ t.send.kind = "supervisor_send" /\ t.send.id = s.replyTo
                  /\ t.by = d /\ g.to = c
        BY <4>1 DEF CrossingsForwarded
      <4> QED
        BY <2>2, <2>3, <4>2 DEF CrossesVertically
    <3>3. CASE GroupOf[d] = GroupOf[c]
      BY <2>2, <2>3, <3>3 DEF CrossesVertically
    <3> QED
      BY <2>2, <3>1, <3>2, <3>3 DEF Routes, Reachable
  <2>5. CrossesVertically(f)'
    BY <2>2, <2>3, <2>4, VerticalStays
  <2> QED
    BY <1>2, <2>2, <2>5
<1>4. forwarded' = forwarded => \A f \in forwarded' : CrossesVertically(f)'
  BY <1>2
<1>5. \A f \in forwarded' : CrossesVertically(f)'
  BY <1>3, <1>4, ForwardFrame
<1> QED
  BY <1>5 DEF GroupsCrossedVertically, CrossesVertically

-----------------------------------------------------------------------------
(* What a step does to the wire and the registry. *)

\* No frame is written and none is answered.
QuietWire ==
  \A d \in Sessions :
    /\ toBroker'[d] = toBroker[d] \/ toBroker'[d] = <<>>
    /\ ToSet(toClient'[d]) \subseteq ToSet(toClient[d])

\* Those attempts of c are settled with result r.
Settles(c, those, r) ==
  /\ those \subseteq pending[c] /\ r \in {"delivered", "failed", "rejected"}
  /\ Settle(c, those, r)
  /\ QuietWire /\ forwarded' = forwarded
  /\ \A d \in Sessions : client'[d] # "gone" => client[d] # "gone" /\ known'[d] = known[d]
  /\ r # "rejected" => ReadAnswer(c)

\* Settling changes the results of those attempts, and nothing else of any.
LEMMA SettledAttempts ==
  ASSUME SendTypeOK, NEW c \in Sessions, NEW those, NEW r, Settles(c, those, r)
  PROVE  /\ r \in {"delivered", "failed", "rejected"}
         /\ KeepsAttempts /\ DOMAIN attempts' = DOMAIN attempts
         /\ \A a \in DOMAIN attempts :
              /\ attempts'[a].verdict = attempts[a].verdict
              /\ attempts'[a].asked = attempts[a].asked
              /\ a \in those => attempts'[a].result = r
              /\ a \notin those => attempts'[a].result = attempts[a].result
<1>1. Settle(c, those, r) /\ r \in {"delivered", "failed", "rejected"}
  BY DEF Settles
<1> QED
  BY <1>1, SettleEffect

LEMMA SettlingEffect ==
  ASSUME SendTypeOK, NEW c \in Sessions, ReadAnswer(c) \/ Timeout(c) \/ ClientClose(c)
  PROVE  \E those, r : Settles(c, those, r)
<1> USE DEF brokerVars, wireVars, historyVars
<1>1. CASE ReadAnswer(c)
  <2>1. PICK m \in ToSet(toClient[c]) :
          /\ Settle(c, Matches(c, m), IF m.ok THEN "delivered" ELSE "failed")
          /\ ToSet(toClient'[c]) \subseteq ToSet(toClient[c])
          /\ \A d \in Sessions : d # c => toClient'[d] = toClient[d]
    BY <1>1, ReadAnswerEffect
  <2>2. Matches(c, m) \subseteq pending[c]
    BY DEF Matches, Waiting
  <2>3. QuietWire
    BY <1>1, <2>1 DEF ReadAnswer, QuietWire
  <2>4. Settles(c, Matches(c, m), IF m.ok THEN "delivered" ELSE "failed")
    BY <1>1, <2>1, <2>2, <2>3 DEF Settles, ReadAnswer
  <2> QED
    BY <2>4
<1>2. CASE Timeout(c)
  <2>1. PICK a \in pending[c] : Settle(c, {a}, "rejected")
    BY <1>2 DEF Timeout
  <2>2. Settles(c, {a}, "rejected")
    BY <1>2, <2>1 DEF Settles, Timeout, QuietWire
  <2> QED
    BY <2>2
<1>3. CASE ClientClose(c)
  <2>1. \A d \in Sessions : toClient'[d] = toClient[d] \/ toClient'[d] = <<>>
    BY <1>3 DEF ClientClose, SendTypeOK
  <2>2. QuietWire
    BY <1>3, <2>1 DEF ClientClose, QuietWire, ToSet
  <2>3. \A d \in Sessions : client'[d] # "gone" => client[d] # "gone" /\ known'[d] = known[d]
    BY <1>3 DEF ClientClose, SendTypeOK
  <2>4. Settles(c, pending[c], "rejected")
    BY <1>3, <2>2, <2>3 DEF Settles, ClientClose
  <2> QED
    BY <2>4
<1> QED
  BY <1>1, <1>2, <1>3

\* Frame a of c is read and answered: confirmed if the cache remembers its
\* message, or if it has just been written to a target.
Answered(c, a, ok) ==
  /\ a \in DOMAIN attempts /\ ok \in BOOLEAN
  /\ Incoming(c, a) /\ Answer(c, a, ok)
  /\ ok => \/ /\ IdOf(a) \in Keys(delivered)
              /\ At(delivered, IdOf(a)).signature = Signature(attempts[a].send)
           \/ \E f \in forwarded' : f.attempt = a
  /\ pending' = pending /\ known' = known /\ client' = client /\ legacy' = legacy

LEMMA AnsweringEffect ==
  ASSUME SendTypeOK, NEW c \in Sessions,
         AnswerFromCache(c) \/ RejectSend(c) \/ ForwardSend(c)
  PROVE  \E a, ok : Answered(c, a, ok)
<1>1. CASE AnswerFromCache(c) \/ RejectSend(c)
  BY <1>1, FrameOfHandlers DEF Answered, IdOf
<1>2. CASE ForwardSend(c)
  <2>1. PICK a \in DOMAIN attempts, d \in Sessions : ForwardsTo(c, a, d)
    BY <1>2, ForwardEffect
  <2>2. Incoming(c, a) /\ Answer(c, a, TRUE)
    BY <2>1 DEF ForwardsTo
  <2>3. pending' = pending /\ known' = known /\ client' = client /\ legacy' = legacy
    BY <1>2 DEF ForwardSend
  <2>4. [attempt |-> a, to |-> d] \in forwarded'
    BY <2>1 DEF ForwardsTo
  <2>5. Answered(c, a, TRUE)
    BY <2>2, <2>3, <2>4 DEF Answered
  <2> QED
    BY <2>5
<1> QED
  BY <1>1, <1>2

\* No attempt changes, and no new one is on the wire.
StillRegistry ==
  /\ UNCHANGED <<attempts, pending>> /\ QuietWire
  /\ \A d \in Sessions : client'[d] # "gone" => client[d] # "gone"
  /\ \/ known' = known
     \/ \E c \in Sessions : \E id \in MessageIds : ForgetGeneration(c, id)

LEMMA WireFrame ==
  ASSUME SendTypeOK, [Next]_sendVars
  PROVE  \/ \E c \in Sessions : \E those, r : Settles(c, those, r)
         \/ \E c \in Sessions : \E a, ok : Answered(c, a, ok)
         \/ \E c \in Sessions : \E s \in SendsOf[c] : Send(c, s) \/ SendAgain(c, s)
         \/ StillRegistry
<1> USE DEF wireVars, registryVars
<1>1. ASSUME NEW c \in Sessions, Register(c)
      PROVE  StillRegistry
  BY <1>1 DEF Register, StillRegistry, QuietWire, SendTypeOK
<1>2. ASSUME NEW c \in Sessions, NEW k \in CapsOf[c] \ {NoCap}, RegisterChild(c, k)
      PROVE  StillRegistry
  <2>1. \A d \in Sessions : client'[d] # "gone" => client[d] # "gone"
    BY <1>2 DEF RegisterChild, SendTypeOK
  <2>2. UNCHANGED <<wireVars, registryVars>>
    BY <1>2 DEF RegisterChild
  <2> QED
    BY <2>1, <2>2 DEF StillRegistry, QuietWire
<1>3. ASSUME NEW c \in Sessions,
             \/ \E k \in Caps : AuthorizeChild(c, k)
             \/ \E n \in NewNamesOf[c] : Rename(c, n)
      PROVE  StillRegistry
  BY <1>3 DEF AuthorizeChild, Rename, StillRegistry, QuietWire
<1>4. ASSUME NEW c \in Sessions, NEW id \in MessageIds, ForgetGeneration(c, id)
      PROVE  StillRegistry
  BY <1>4 DEF ForgetGeneration, StillRegistry, QuietWire
<1>5. ASSUME NEW c \in Sessions, HandlerClose(c)
      PROVE  StillRegistry
  BY <1>5 DEF HandlerClose, StillRegistry, QuietWire, SendTypeOK
<1>6. ASSUME Expire \/ BrokerStops \/ UNCHANGED sendVars
      PROVE  StillRegistry
  BY <1>6 DEF Expire, BrokerStops, sendVars, StillRegistry, QuietWire
<1> QED
  BY <1>1, <1>2, <1>3, <1>4, <1>5, <1>6, SettlingEffect, AnsweringEffect DEF Next

LEMMA QuietMeansLess ==
  ASSUME QuietWire, NEW d \in Sessions
  PROVE  /\ ToSet(toBroker'[d]) \subseteq ToSet(toBroker[d])
         /\ ToSet(toClient'[d]) \subseteq ToSet(toClient[d])
         /\ OnWire(d)' \subseteq OnWire(d)
<1>1. ToSet(<<>>) = {}
  BY DEF ToSet
<1>2. ToSet(toBroker'[d]) \subseteq ToSet(toBroker[d])
  <2>1. CASE toBroker'[d] = toBroker[d]
    BY <2>1
  <2>2. CASE toBroker'[d] = <<>>
    BY <1>1, <2>2
  <2> QED
    BY <2>1, <2>2 DEF QuietWire
<1>3. ToSet(toClient'[d]) \subseteq ToSet(toClient[d])
  BY DEF QuietWire
<1> QED
  BY <1>2, <1>3 DEF OnWire

\* Answering takes the frame's attempt from one queue to the other.
LEMMA AnsweredWire ==
  ASSUME SendTypeOK, WireInOrder, NEW c \in Sessions, NEW a, NEW ok, Answered(c, a, ok)
  PROVE  /\ a \in OnWire(c) /\ a \in ToSet(toBroker[c]) /\ attempts[a].by = c
         /\ \A d \in Sessions : OnWire(d)' \subseteq OnWire(d)
         /\ \A d \in Sessions : \A m \in ToSet(toClient[d]) : m.attempt # a
<1>1. /\ a \in ToSet(toBroker[c]) /\ a \in OnWire(c) /\ attempts[a].by = c
      /\ \A d \in Sessions : ToSet(toBroker'[d]) \subseteq ToSet(toBroker[d])
  BY IncomingEffect DEF Answered, OnWire, WireInOrder
<1>2. /\ \A d \in Sessions : d # c => toClient'[d] = toClient[d]
      /\ ToSet(toClient'[c]) \subseteq ToSet(toClient[c]) \cup {[attempt |-> a, ok |-> ok]}
  BY AnswerEffect DEF Answered
<1>3. \A d \in Sessions : OnWire(d)' \subseteq OnWire(d)
  <2> SUFFICES ASSUME NEW d \in Sessions, NEW b, b \in OnWire(d)'
               PROVE  b \in OnWire(d)
    OBVIOUS
  <2>1. CASE b \in ToSet(toBroker'[d])
    BY <1>1, <2>1 DEF OnWire
  <2>2. ASSUME NEW m \in ToSet(toClient'[d]), b = m.attempt PROVE b \in OnWire(d)
    <3>1. CASE m \in ToSet(toClient[d])
      BY <2>2, <3>1 DEF OnWire
    <3>2. CASE m \notin ToSet(toClient[d])
      <4>1. d = c /\ m = [attempt |-> a, ok |-> ok]
        BY <1>2, <3>2
      <4> QED
        BY <1>1, <2>2, <4>1
    <3> QED
      BY <3>1, <3>2
  <2> QED
    BY <2>1, <2>2 DEF OnWire
<1>4. \A d \in Sessions : \A m \in ToSet(toClient[d]) : m.attempt # a
  <2> SUFFICES ASSUME NEW d \in Sessions, NEW m \in ToSet(toClient[d]), m.attempt = a
               PROVE  FALSE
    OBVIOUS
  <2>1. d = c
    BY <1>1 DEF WireInOrder, OnWire
  <2> QED
    BY <1>1, <2>1 DEF WireInOrder
<1> QED
  BY <1>1, <1>3, <1>4

LEMMA WireStep ==
  ASSUME SendTypeOK, WireInOrder, [Next]_sendVars
  PROVE  WireInOrder'
<1>0. KeepsAttempts
  BY AttemptsFrame
<1>1. ASSUME QuietWire PROVE WireInOrder'
  <2>1. \A c \in Sessions : OnWire(c)' \subseteq OnWire(c)
    BY <1>1, QuietMeansLess
  <2>2. \A c \in Sessions : \A a \in OnWire(c)' : a \in DOMAIN attempts' /\ attempts'[a].by = c
    BY <1>0, <2>1 DEF WireInOrder, KeepsAttempts
  <2>3. ASSUME NEW c \in Sessions
        PROVE  \A i, j \in DOMAIN toBroker'[c] : toBroker'[c][i] = toBroker'[c][j] => i = j
    BY <1>1 DEF WireInOrder, QuietWire
  <2>4. \A c \in Sessions : \A m \in ToSet(toClient'[c]) : m.attempt \notin ToSet(toBroker'[c])
    BY <1>1, QuietMeansLess DEF WireInOrder
  <2> QED
    BY <2>2, <2>3, <2>4 DEF WireInOrder
<1>2. ASSUME NEW c \in Sessions, NEW a, NEW ok, Answered(c, a, ok) PROVE WireInOrder'
  <2>1. /\ \A d \in Sessions : ToSet(toBroker'[d]) \subseteq ToSet(toBroker[d])
        /\ \A d \in Sessions : d # c => toBroker'[d] = toBroker[d]
        /\ \A i, j \in DOMAIN toBroker'[c] : toBroker'[c][i] = toBroker'[c][j] => i = j
        /\ a \notin ToSet(toBroker'[c])
    BY <1>2, IncomingEffect DEF Answered, WireInOrder
  <2>2. /\ \A d \in Sessions : d # c => toClient'[d] = toClient[d]
        /\ ToSet(toClient'[c]) \subseteq ToSet(toClient[c]) \cup {[attempt |-> a, ok |-> ok]}
    BY <1>2, AnswerEffect DEF Answered
  <2>3. \A d \in Sessions : \A b \in OnWire(d)' : b \in DOMAIN attempts' /\ attempts'[b].by = d
    BY <1>0, <1>2, AnsweredWire DEF WireInOrder, KeepsAttempts
  <2>4. \A d \in Sessions : \A i, j \in DOMAIN toBroker'[d] :
          toBroker'[d][i] = toBroker'[d][j] => i = j
    BY <2>1 DEF WireInOrder
  <2>5. ASSUME NEW d \in Sessions, NEW m \in ToSet(toClient'[d])
        PROVE  m.attempt \notin ToSet(toBroker'[d])
    <3>1. CASE m \in ToSet(toClient[d])
      BY <2>1, <3>1 DEF WireInOrder
    <3>2. CASE m \notin ToSet(toClient[d])
      <4>1. d = c /\ m = [attempt |-> a, ok |-> ok]
        BY <2>2, <3>2
      <4> QED
        BY <2>1, <4>1
    <3> QED
      BY <3>1, <3>2
  <2> QED
    BY <2>3, <2>4, <2>5 DEF WireInOrder
<1>3. ASSUME NEW c \in Sessions, NEW s \in SendsOf[c], Send(c, s) PROVE WireInOrder'
  <2>1. PICK n \in Nat : SendsAs(c, s, n)
    BY <1>3, SendEffect
  <2>2. /\ n \notin DOMAIN attempts /\ n \in DOMAIN attempts' /\ attempts'[n].by = c
        /\ toBroker' = [toBroker EXCEPT ![c] = Append(toBroker[c], n)]
        /\ toClient' = toClient
    BY <1>3, <2>1 DEF SendsAs, Send
  <2>3. \A d \in Sessions : n \notin OnWire(d)
    BY <2>2 DEF WireInOrder
  <2>4. /\ ToSet(Append(toBroker[c], n)) = ToSet(toBroker[c]) \cup {n}
        /\ \A i, j \in DOMAIN Append(toBroker[c], n) :
             Append(toBroker[c], n)[i] = Append(toBroker[c], n)[j] => i = j
    <3>1. toBroker[c] \in Seq(Nat) /\ n \notin ToSet(toBroker[c])
      BY <2>3 DEF OnWire, SendTypeOK
    <3>2. \A i, j \in DOMAIN toBroker[c] : toBroker[c][i] = toBroker[c][j] => i = j
      BY DEF WireInOrder
    <3> QED
      BY <3>1, <3>2, AppendJoins
  <2>5. /\ toBroker'[c] = Append(toBroker[c], n)
        /\ \A d \in Sessions : d # c => toBroker'[d] = toBroker[d]
    BY <2>2 DEF SendTypeOK
  <2>6. \A d \in Sessions : \A b \in OnWire(d)' : b \in DOMAIN attempts' /\ attempts'[b].by = d
    <3> SUFFICES ASSUME NEW d \in Sessions, NEW b, b \in OnWire(d)'
                 PROVE  b \in DOMAIN attempts' /\ attempts'[b].by = d
      OBVIOUS
    <3>1. b \in OnWire(d) \/ (d = c /\ b = n)
      BY <2>2, <2>4, <2>5 DEF OnWire
    <3> QED
      BY <1>0, <2>2, <3>1 DEF WireInOrder, KeepsAttempts
  <2>7. \A d \in Sessions : \A m \in ToSet(toClient'[d]) : m.attempt \notin ToSet(toBroker'[d])
    BY <2>2, <2>3, <2>4, <2>5 DEF WireInOrder, OnWire
  <2>8. \A d \in Sessions : \A i, j \in DOMAIN toBroker'[d] :
          toBroker'[d][i] = toBroker'[d][j] => i = j
    BY <2>4, <2>5 DEF WireInOrder
  <2> QED
    BY <2>6, <2>7, <2>8 DEF WireInOrder
<1>4. ASSUME NEW c \in Sessions, NEW s \in SendsOf[c], SendAgain(c, s) PROVE QuietWire
  BY <1>4 DEF SendAgain, QuietWire, wireVars
<1> QED
  BY <1>1, <1>2, <1>3, <1>4, WireFrame DEF Settles, StillRegistry

-----------------------------------------------------------------------------
(* The registry. *)

\* What a step that only takes from the registry and the wire preserves.
LEMMA RegistryKept ==
  ASSUME SendTypeOK, RegistrySound, WireInOrder, KeepsAttempts,
         \A d \in Sessions :
           /\ OnWire(d)' \subseteq OnWire(d)
           /\ pending'[d] \subseteq pending[d]
           /\ \A a \in pending'[d] : attempts'[a].result = "pending"
           /\ client'[d] # "gone" =>
                /\ client[d] # "gone"
                /\ \A a \in OnWire(d)' : IdOf(a) \in known[d] => IdOf(a) \in known'[d]
  PROVE  RegistrySound'
<1> SUFFICES ASSUME NEW d \in Sessions
             PROVE  /\ \A a \in pending'[d] :
                         /\ a \in DOMAIN attempts'
                         /\ attempts'[a].by = d /\ attempts'[a].result = "pending"
                         /\ attempts'[a].first =>
                              \A b \in OnWire(d)' : IdOf(b)' = IdOf(a)' => b = a
                    /\ client'[d] # "gone" => \A a \in OnWire(d)' : IdOf(a)' \in known'[d]
  BY DEF RegistrySound
<1>1. \A a \in DOMAIN attempts : IdOf(a)' = IdOf(a)
  BY DEF IdOf, KeepsAttempts
<1>2. \A a \in OnWire(d)' : a \in OnWire(d) /\ a \in DOMAIN attempts
  BY DEF WireInOrder
<1>3. ASSUME NEW a \in pending'[d]
      PROVE  /\ a \in DOMAIN attempts'
             /\ attempts'[a].by = d /\ attempts'[a].result = "pending"
             /\ attempts'[a].first => \A b \in OnWire(d)' : IdOf(b)' = IdOf(a)' => b = a
  <2>1. /\ a \in pending[d] /\ a \in DOMAIN attempts /\ attempts[a].by = d
        /\ attempts[a].first => \A b \in OnWire(d) : IdOf(b) = IdOf(a) => b = a
    BY DEF RegistrySound
  <2>2. /\ a \in DOMAIN attempts' /\ attempts'[a].by = d
        /\ attempts'[a].first = attempts[a].first
    BY <2>1 DEF KeepsAttempts
  <2> QED
    BY <1>1, <1>2, <2>1, <2>2
<1>4. ASSUME client'[d] # "gone", NEW a \in OnWire(d)' PROVE IdOf(a)' \in known'[d]
  <2>1. IdOf(a) \in known[d]
    BY <1>2, <1>4 DEF RegistrySound
  <2> QED
    BY <1>1, <1>2, <1>4, <2>1
<1> QED
  BY <1>3, <1>4

\* Who waits has its place in the registry for as long as it is unsettled.
LEMMA SettlingKeepsRegistry ==
  ASSUME SendTypeOK, RegistrySound, WireInOrder, NEW c \in Sessions, NEW those, NEW r,
         Settles(c, those, r)
  PROVE  RegistrySound'
<1>1. /\ pending'[c] = pending[c] \ those
      /\ \A d \in Sessions : d # c => pending'[d] = pending[d]
      /\ KeepsAttempts
      /\ \A a \in DOMAIN attempts : a \notin those => attempts'[a].result = attempts[a].result
  <2>1. /\ pending'[c] = pending[c] \ those
        /\ \A d \in Sessions : d # c => pending'[d] = pending[d]
    BY DEF Settles, Settle, SendTypeOK
  <2> QED
    BY <2>1, SettledAttempts
<1>2. \A d \in Sessions : OnWire(d)' \subseteq OnWire(d)
  BY QuietMeansLess DEF Settles
<1>3. \A d \in Sessions : pending'[d] \subseteq pending[d]
  BY <1>1
<1>4. ASSUME NEW d \in Sessions, NEW a \in pending'[d] PROVE attempts'[a].result = "pending"
  <2>1. a \in pending[d] /\ a \in DOMAIN attempts
        /\ attempts[a].by = d /\ attempts[a].result = "pending"
    BY <1>3 DEF RegistrySound
  <2>2. a \notin those
    <3>1. d # c => \A b \in those : attempts[b].by # d
      BY DEF Settles, RegistrySound
    <3> QED
      BY <1>1, <1>4, <2>1, <3>1
  <2> QED
    BY <1>1, <2>1, <2>2
<1>5. \A d \in Sessions : client'[d] # "gone" => client[d] # "gone" /\ known'[d] = known[d]
  BY DEF Settles
<1> QED
  BY <1>1, <1>2, <1>3, <1>4, <1>5, RegistryKept

\* An id is forgotten when nothing of it is on the wire.
LEMMA ForgetsOffWire ==
  ASSUME SendTypeOK, NEW c \in Sessions, NEW id, ForgetGeneration(c, id)
  PROVE  /\ \A a \in OnWire(c) : IdOf(a) # id
         /\ known'[c] = known[c] \ {id}
         /\ \A d \in Sessions : d # c => known'[d] = known[d]
<1>1. /\ \A i \in DOMAIN toClient[c] : attempts[toClient[c][i].attempt].send.id # id
      /\ \A i \in DOMAIN toBroker[c] : attempts[toBroker[c][i]].send.id # id
  BY DEF ForgetGeneration
<1>2. \A m \in ToSet(toClient[c]) : attempts[m.attempt].send.id # id
  BY <1>1 DEF ToSet
<1>3. \A a \in ToSet(toBroker[c]) : attempts[a].send.id # id
  BY <1>1 DEF ToSet
<1>4. \A a \in OnWire(c) : IdOf(a) # id
  BY <1>2, <1>3 DEF OnWire, IdOf
<1>5. /\ known'[c] = known[c] \ {id}
      /\ \A d \in Sessions : d # c => known'[d] = known[d]
  BY DEF ForgetGeneration, SendTypeOK
<1> QED
  BY <1>4, <1>5

\* A first attempt is made when nothing of its id is on the wire.
LEMMA SendKeepsRegistry ==
  ASSUME SendTypeOK, RegistrySound, WireInOrder,
         NEW c \in Sessions, NEW s \in SendsOf[c], Send(c, s)
  PROVE  RegistrySound'
<1>1. PICK n \in Nat : SendsAs(c, s, n)
  BY SendEffect
<1>2. /\ n \notin DOMAIN attempts /\ DOMAIN attempts' = DOMAIN attempts \cup {n}
      /\ \A a \in DOMAIN attempts : attempts'[a] = attempts[a]
      /\ attempts'[n].by = c /\ attempts'[n].send = s
      /\ attempts'[n].first = (s.id \notin known[c])
      /\ attempts'[n].result = "pending"
  BY <1>1 DEF SendsAs
<1>3. /\ pending'[c] = pending[c] \cup {n} /\ known'[c] = known[c] \cup {s.id}
      /\ toBroker'[c] = Append(toBroker[c], n)
      /\ \A d \in Sessions : d # c => /\ pending'[d] = pending[d] /\ known'[d] = known[d]
                                      /\ toBroker'[d] = toBroker[d]
  BY <1>1 DEF SendsAs, SendTypeOK
<1>4. client' = client /\ client[c] = "up" /\ toClient' = toClient /\ Waiting(c, s.id) = {}
  BY DEF Send
<1>5. ToSet(toBroker'[c]) = ToSet(toBroker[c]) \cup {n}
  <2>1. toBroker[c] \in Seq(Nat)
    BY DEF SendTypeOK
  <2> QED
    BY <1>3, <2>1, AppendJoins
<1>6. /\ OnWire(c)' = OnWire(c) \cup {n}
      /\ \A d \in Sessions : d # c => OnWire(d)' = OnWire(d)
  BY <1>3, <1>4, <1>5 DEF OnWire
<1>7. IdOf(n)' = s.id /\ \A a \in DOMAIN attempts : IdOf(a)' = IdOf(a)
  BY <1>2 DEF IdOf
<1>8. \A d \in Sessions : \A a \in OnWire(d) : a \in DOMAIN attempts
  BY DEF WireInOrder
<1>9. \A a \in pending[c] : IdOf(a) # s.id
  BY <1>4 DEF Waiting, IdOf
<1> SUFFICES ASSUME NEW d \in Sessions
             PROVE  /\ \A a \in pending'[d] :
                         /\ a \in DOMAIN attempts'
                         /\ attempts'[a].by = d /\ attempts'[a].result = "pending"
                         /\ attempts'[a].first =>
                              \A b \in OnWire(d)' : IdOf(b)' = IdOf(a)' => b = a
                    /\ client'[d] # "gone" => \A a \in OnWire(d)' : IdOf(a)' \in known'[d]
  BY DEF RegistrySound
<1>10. ASSUME NEW a \in pending[d]
       PROVE  /\ a \in DOMAIN attempts'
              /\ attempts'[a].by = d /\ attempts'[a].result = "pending"
              /\ attempts'[a].first => \A b \in OnWire(d)' : IdOf(b)' = IdOf(a)' => b = a
  <2>1. /\ a \in DOMAIN attempts /\ attempts[a].by = d /\ attempts[a].result = "pending"
        /\ attempts[a].first => \A b \in OnWire(d) : IdOf(b) = IdOf(a) => b = a
    BY DEF RegistrySound
  <2>2. d = c => IdOf(n)' # IdOf(a)'
    BY <1>7, <1>9, <2>1
  <2> QED
    BY <1>2, <1>6, <1>7, <1>8, <2>1, <2>2
<1>11. ASSUME d = c
       PROVE  /\ n \in DOMAIN attempts'
              /\ attempts'[n].by = d /\ attempts'[n].result = "pending"
              /\ attempts'[n].first => \A b \in OnWire(d)' : IdOf(b)' = IdOf(n)' => b = n
  <2>1. \A b \in OnWire(c) : IdOf(b) \in known[c]
    BY <1>4 DEF RegistrySound
  <2>2. ASSUME s.id \notin known[c], NEW b \in OnWire(c) PROVE IdOf(b)' # IdOf(n)'
    BY <1>7, <1>8, <2>1, <2>2
  <2>3. \A b \in OnWire(d)' : b \in OnWire(c) \/ b = n
    BY <1>6, <1>11
  <2> QED
    BY <1>2, <1>11, <2>2, <2>3
<1>12. client'[d] # "gone" => \A a \in OnWire(d)' : IdOf(a)' \in known'[d]
  BY <1>3, <1>4, <1>6, <1>7, <1>8 DEF RegistrySound
<1> QED
  BY <1>3, <1>10, <1>11, <1>12

LEMMA RegistryStep ==
  ASSUME SendTypeOK, RegistrySound, WireInOrder, [Next]_sendVars
  PROVE  RegistrySound'
<1>0. KeepsAttempts
  BY AttemptsFrame
<1>1. ASSUME NEW c \in Sessions, NEW a, NEW ok, Answered(c, a, ok) PROVE RegistrySound'
  <2>1. \A d \in Sessions : OnWire(d)' \subseteq OnWire(d)
    BY <1>1, AnsweredWire
  <2>2. \A b \in DOMAIN attempts : attempts'[b].result = attempts[b].result
    BY <1>1, AnswerEffect DEF Answered
  <2>3. pending' = pending /\ known' = known /\ client' = client
    BY <1>1 DEF Answered
  <2>4. \A d \in Sessions : \A b \in pending'[d] : attempts'[b].result = "pending"
    BY <2>2, <2>3 DEF RegistrySound
  <2> QED
    BY <1>0, <2>1, <2>3, <2>4, RegistryKept
<1>2. ASSUME NEW c \in Sessions, NEW s \in SendsOf[c], SendAgain(c, s) PROVE RegistrySound'
  <2>1. UNCHANGED <<toBroker, toClient, pending, known, client>>
    BY <1>2 DEF SendAgain, wireVars
  <2>2. \A d \in Sessions : OnWire(d)' = OnWire(d)
    BY <2>1 DEF OnWire
  <2>3. \A b \in DOMAIN attempts : attempts'[b].result = attempts[b].result
    BY <1>2, SendAgainEffect
  <2>4. \A d \in Sessions : \A b \in pending'[d] : attempts'[b].result = "pending"
    BY <2>1, <2>3 DEF RegistrySound
  <2> QED
    BY <1>0, <2>1, <2>2, <2>4, RegistryKept
<1>3. ASSUME StillRegistry PROVE RegistrySound'
  <2>1. \A d \in Sessions : OnWire(d)' \subseteq OnWire(d)
    BY <1>3, QuietMeansLess DEF StillRegistry
  <2>2. attempts' = attempts /\ pending' = pending
        /\ \A d \in Sessions : client'[d] # "gone" => client[d] # "gone"
    BY <1>3 DEF StillRegistry
  <2>3. \A d \in Sessions : \A b \in pending'[d] : attempts'[b].result = "pending"
    BY <2>2 DEF RegistrySound
  <2>4. ASSUME NEW d \in Sessions, NEW a \in OnWire(d)', IdOf(a) \in known[d]
        PROVE  IdOf(a) \in known'[d]
    <3>1. CASE known' = known
      BY <2>4, <3>1
    <3>2. ASSUME NEW c \in Sessions, NEW id \in MessageIds, ForgetGeneration(c, id)
          PROVE  IdOf(a) \in known'[d]
      BY <2>1, <2>4, <3>2, ForgetsOffWire
    <3> QED
      BY <1>3, <3>1, <3>2 DEF StillRegistry
  <2> QED
    BY <1>0, <2>1, <2>2, <2>3, <2>4, RegistryKept
<1> QED
  BY <1>1, <1>2, <1>3, SettlingKeepsRegistry, SendKeepsRegistry, WireFrame

\* The attempt an answer settles is the one it answers, even when the broker
\* is too old to say which.
LEMMA MatchesItsOwn ==
  ASSUME SendTypeOK, RegistrySound, NEW c \in Sessions,
         NEW m \in ToSet(toClient[c]), NEW a \in Matches(c, m)
  PROVE  /\ a = m.attempt /\ a \in pending[c] /\ a \in DOMAIN attempts
         /\ attempts[a].result = "pending"
<1>1. /\ a \in pending[c] /\ IdOf(a) = IdOf(m.attempt)
      /\ IF legacy THEN attempts[a].first ELSE a = m.attempt
  BY DEF Matches, Waiting, IdOf
<1>2. m.attempt \in OnWire(c)
  BY DEF OnWire
<1>3. /\ a \in DOMAIN attempts /\ attempts[a].result = "pending"
      /\ attempts[a].first => m.attempt = a
  BY <1>1, <1>2 DEF RegistrySound
<1> QED
  BY <1>1, <1>3

-----------------------------------------------------------------------------
(* Answers. *)

\* What was forwarded stays forwarded.
LEMMA ForwardedStays ==
  ASSUME SendTypeOK, AttemptsExist, [Next]_sendVars, NEW s, WasForwarded(s),
         forwarded \subseteq forwarded'
  PROVE  WasForwarded(s)'
<1>1. PICK f \in forwarded :
        /\ attempts[f.attempt].send.id = s.id
        /\ Signature(attempts[f.attempt].send) = Signature(s)
  BY DEF WasForwarded
<1>2. f \in forwarded' /\ attempts'[f.attempt].send = attempts[f.attempt].send
  BY AttemptsFrame DEF AttemptsExist, KeepsAttempts
<1> QED
  BY <1>1, <1>2 DEF WasForwarded

\* Nothing that was forwarded is forgotten.
LEMMA ForwardedGrows ==
  ASSUME SendTypeOK, [Next]_sendVars
  PROVE  forwarded \subseteq forwarded'
<1>1. ASSUME NEW c \in Sessions, ForwardSend(c) PROVE forwarded \subseteq forwarded'
  BY <1>1, ForwardEffect DEF ForwardsTo
<1> QED
  BY <1>1, ForwardFrame

LEMMA CacheStep ==
  ASSUME SendTypeOK, AttemptsExist, CacheTrue, [Next]_sendVars
  PROVE  CacheTrue'
<1>1. KeepsAttempts /\ forwarded \subseteq forwarded'
  BY AttemptsFrame, ForwardedGrows
<1>2. ASSUME NEW e \in ToSet(delivered)
      PROVE  \E f \in forwarded' : LET t == attempts'[f.attempt].send
                                   IN  t.id = e.key /\ Signature(t) = e.signature
  <2>1. PICK f \in forwarded : LET t == attempts[f.attempt].send
                               IN  t.id = e.key /\ Signature(t) = e.signature
    BY DEF CacheTrue
  <2>2. f \in forwarded' /\ attempts'[f.attempt].send = attempts[f.attempt].send
    BY <1>1 DEF AttemptsExist, KeepsAttempts
  <2> QED
    BY <2>1, <2>2
<1>3. ASSUME NEW c \in Sessions, ForwardSend(c) PROVE CacheTrue'
  <2>1. PICK a \in DOMAIN attempts, d \in Sessions : ForwardsTo(c, a, d)
    BY <1>3, ForwardEffect
  <2> DEFINE s == attempts[a].send
             e == [key |-> s.id, signature |-> Signature(s)]
             f == [attempt |-> a, to |-> d]
  <2>2. /\ e \in Deliveries /\ delivered' = Put(delivered, e, MaxEntries)
        /\ forwarded' = forwarded \cup {f}
        /\ e.key = s.id /\ e.signature = Signature(s) /\ f.attempt = a
    BY <2>1 DEF ForwardsTo
  <2>3. attempts'[a].send = s
    BY <1>1 DEF KeepsAttempts
  <2> HIDE DEF s, e, f
  <2>4. \A x \in ToSet(delivered') : x = e \/ x \in ToSet(delivered)
    BY <2>2, PutKey, EntriesAssumption DEF SendTypeOK
  <2>5. \E g \in forwarded' : LET t == attempts'[g.attempt].send
                              IN  t.id = e.key /\ Signature(t) = e.signature
    BY <2>2, <2>3
  <2> QED
    BY <1>2, <2>4, <2>5 DEF CacheTrue, Signature
<1>4. ASSUME ToSet(delivered') \subseteq ToSet(delivered) PROVE CacheTrue'
  BY <1>2, <1>4 DEF CacheTrue, Signature
<1> QED
  BY <1>3, <1>4, ForwardFrame

\* A confirmation is given for a message that was forwarded.
LEMMA ConfirmsForwarded ==
  ASSUME SendTypeOK, AttemptsExist, CacheTrue, [Next]_sendVars,
         NEW c \in Sessions, NEW a, Answered(c, a, TRUE)
  PROVE  WasForwarded(attempts[a].send)'
<1>1. a \in DOMAIN attempts
  BY DEF Answered
<1>2. KeepsAttempts
  BY AttemptsFrame
<1>3. CASE \E f \in forwarded' : f.attempt = a
  BY <1>3 DEF WasForwarded
<1>4. CASE /\ IdOf(a) \in Keys(delivered)
           /\ At(delivered, IdOf(a)).signature = Signature(attempts[a].send)
  <2>1. /\ At(delivered, IdOf(a)) \in ToSet(delivered)
        /\ At(delivered, IdOf(a)).key = IdOf(a)
    BY <1>4, Lookup DEF SendTypeOK
  <2>2. WasForwarded(attempts[a].send)
    BY <1>4, <2>1 DEF CacheTrue, WasForwarded, IdOf
  <2>3. PICK s : s = attempts[a].send
    OBVIOUS
  <2>4. WasForwarded(s)'
    BY <2>2, <2>3, ForwardedStays, ForwardedGrows
  <2>5. attempts'[a].send = s
    BY <1>1, <1>2, <2>3 DEF KeepsAttempts
  <2> QED
    BY <2>4, <2>5 DEF WasForwarded
<1> QED
  BY <1>3, <1>4 DEF Answered

\* What a step that changes no verdict and no result does to an answer.
\* An answer that was true and is not read stays true.
LEMMA AnswerStays ==
  ASSUME SendTypeOK, AttemptsExist, WireInOrder, AnswersTrue, [Next]_sendVars,
         NEW c \in Sessions, NEW m \in ToSet(toClient[c]),
         attempts'[m.attempt].verdict = attempts[m.attempt].verdict,
         attempts'[m.attempt].result = "pending" => attempts[m.attempt].result = "pending"
  PROVE  /\ attempts'[m.attempt].result = "pending" =>
              attempts'[m.attempt].verdict = IF m.ok THEN "delivered" ELSE "failed"
         /\ m.ok => WasForwarded(attempts[m.attempt].send)'
<1>1. m.attempt \in DOMAIN attempts
  BY DEF WireInOrder, OnWire
<1>2. /\ attempts[m.attempt].result = "pending" =>
           attempts[m.attempt].verdict = IF m.ok THEN "delivered" ELSE "failed"
      /\ m.ok => WasForwarded(attempts[m.attempt].send)
  BY DEF AnswersTrue
<1>3. ASSUME m.ok PROVE WasForwarded(attempts[m.attempt].send)'
  <2>1. PICK s : s = attempts[m.attempt].send
    OBVIOUS
  <2>2. WasForwarded(s)'
    BY <1>2, <1>3, <2>1, ForwardedStays, ForwardedGrows
  <2>3. attempts'[m.attempt].send = s
    BY <1>1, <2>1, AttemptsFrame DEF KeepsAttempts
  <2> QED
    BY <2>2, <2>3 DEF WasForwarded
<1> QED
  BY <1>2, <1>3

LEMMA AnswersStep ==
  ASSUME SendTypeOK, AttemptsExist, WireInOrder, AnswersTrue, CacheTrue, [Next]_sendVars
  PROVE  AnswersTrue'
<1> SUFFICES ASSUME NEW d \in Sessions, NEW m \in ToSet(toClient'[d])
             PROVE  /\ attempts'[m.attempt].result = "pending" =>
                         attempts'[m.attempt].verdict = IF m.ok THEN "delivered" ELSE "failed"
                    /\ m.ok => WasForwarded(attempts[m.attempt].send)'
  BY DEF AnswersTrue
<1> DEFINE Good == /\ attempts'[m.attempt].result = "pending" =>
                        attempts'[m.attempt].verdict = IF m.ok THEN "delivered" ELSE "failed"
                   /\ m.ok => WasForwarded(attempts[m.attempt].send)'
<1>0. \A x \in ToSet(toClient[d]) : x.attempt \in DOMAIN attempts
  BY DEF WireInOrder, OnWire
<1>1. ASSUME NEW c \in Sessions, NEW those, NEW r, Settles(c, those, r) PROVE Good
  <2>1. m \in ToSet(toClient[d])
    BY <1>1 DEF Settles, QuietWire
  <2>2. /\ r # "pending"
        /\ \A b \in DOMAIN attempts :
             /\ attempts'[b].verdict = attempts[b].verdict
             /\ b \in those => attempts'[b].result = r
             /\ b \notin those => attempts'[b].result = attempts[b].result
    BY <1>1, SettledAttempts
  <2>3. /\ attempts'[m.attempt].verdict = attempts[m.attempt].verdict
        /\ attempts'[m.attempt].result = "pending" => attempts[m.attempt].result = "pending"
    BY <1>0, <2>1, <2>2
  <2> QED
    BY <2>1, <2>3, AnswerStays
<1>2. ASSUME NEW c \in Sessions, NEW a, NEW ok, Answered(c, a, ok) PROVE Good
  <2>1. /\ a \in DOMAIN attempts /\ ok \in BOOLEAN /\ Answer(c, a, ok)
    BY <1>2 DEF Answered
  <2>2. CASE m \in ToSet(toClient[d])
    <3>1. m.attempt # a
      BY <1>2, <2>2, AnsweredWire
    <3>2. /\ attempts'[m.attempt].verdict = attempts[m.attempt].verdict
          /\ attempts'[m.attempt].result = attempts[m.attempt].result
      BY <1>0, <2>1, <2>2, <3>1, AnswerEffect
    <3> QED
      BY <2>2, <3>2, AnswerStays
  <2>3. CASE m \notin ToSet(toClient[d])
    <3>1. m = [attempt |-> a, ok |-> ok]
      BY <2>1, <2>3, AnswerEffect
    <3>2. m.attempt = a /\ m.ok = ok
      BY <3>1
    <3>3. attempts'[a].result = "pending" =>
            attempts'[a].verdict = IF ok THEN "delivered" ELSE "failed"
      BY <2>1, AnswerEffect
    <3>4. ok => WasForwarded(attempts[a].send)'
      BY <1>2, <2>1, ConfirmsForwarded
    <3> QED
      BY <3>2, <3>3, <3>4
  <2> QED
    BY <2>2, <2>3
<1>3. ASSUME NEW c \in Sessions, NEW s \in SendsOf[c], Send(c, s) PROVE Good
  <2>1. PICK n \in Nat : SendsAs(c, s, n)
    BY <1>3, SendEffect
  <2>2. m \in ToSet(toClient[d])
    BY <1>3 DEF Send
  <2>3. attempts'[m.attempt] = attempts[m.attempt]
    BY <1>0, <2>1, <2>2 DEF SendsAs
  <2> QED
    BY <2>2, <2>3, AnswerStays
<1>4. ASSUME NEW c \in Sessions, NEW s \in SendsOf[c], SendAgain(c, s) PROVE Good
  <2>1. m \in ToSet(toClient[d])
    BY <1>4 DEF SendAgain, wireVars
  <2>2. /\ attempts'[m.attempt].verdict = attempts[m.attempt].verdict
        /\ attempts'[m.attempt].result = attempts[m.attempt].result
    BY <1>0, <1>4, <2>1, SendAgainEffect
  <2> QED
    BY <2>1, <2>2, AnswerStays
<1>5. ASSUME StillRegistry PROVE Good
  <2>1. m \in ToSet(toClient[d]) /\ attempts' = attempts
    BY <1>5 DEF StillRegistry, QuietWire
  <2> QED
    BY <2>1, AnswerStays
<1> QED
  BY <1>1, <1>2, <1>3, <1>4, <1>5, WireFrame

LEMMA AskedStep ==
  ASSUME SendTypeOK, RegistrySound, AskedAlike, [Next]_sendVars
  PROVE  AskedAlike'
<1>0. KeepsAttempts
  BY AttemptsFrame
<1>1. ASSUME NEW a \in DOMAIN attempts, NEW s \in attempts[a].asked
      PROVE  s.id = attempts'[a].send.id /\ Signature(s) = Signature(attempts'[a].send)
  BY <1>0 DEF AskedAlike, KeepsAttempts, IdOf
<1>2. ASSUME DOMAIN attempts' = DOMAIN attempts,
             \A a \in DOMAIN attempts : attempts'[a].asked = attempts[a].asked
      PROVE  AskedAlike'
  BY <1>1, <1>2 DEF AskedAlike, IdOf, Signature
<1>3. ASSUME NEW c \in Sessions, NEW those, NEW r, Settles(c, those, r) PROVE AskedAlike'
  <2>1. /\ DOMAIN attempts' = DOMAIN attempts
        /\ \A a \in DOMAIN attempts : attempts'[a].asked = attempts[a].asked
    BY <1>3, SettledAttempts
  <2> QED
    BY <1>2, <2>1
<1>4. ASSUME NEW c \in Sessions, NEW a, NEW ok, Answered(c, a, ok) PROVE AskedAlike'
  <2>1. /\ DOMAIN attempts' = DOMAIN attempts
        /\ \A b \in DOMAIN attempts : attempts'[b].asked = attempts[b].asked
    BY <1>4, AnswerEffect DEF Answered
  <2> QED
    BY <1>2, <2>1
<1>5. ASSUME NEW c \in Sessions, NEW s \in SendsOf[c], Send(c, s) PROVE AskedAlike'
  <2>1. PICK n \in Nat : SendsAs(c, s, n)
    BY <1>5, SendEffect
  <2>2. /\ DOMAIN attempts' = DOMAIN attempts \cup {n}
        /\ \A a \in DOMAIN attempts : attempts'[a] = attempts[a]
        /\ attempts'[n].send = s /\ attempts'[n].asked = {s}
    BY <2>1 DEF SendsAs
  <2> QED
    BY <1>1, <2>2 DEF AskedAlike, IdOf, Signature
<1>6. ASSUME NEW c \in Sessions, NEW s \in SendsOf[c], SendAgain(c, s) PROVE AskedAlike'
  <2>1. PICK a \in Waiting(c, s.id) :
          /\ Signature(attempts[a].send) = Signature(s)
          /\ a \in DOMAIN attempts => attempts'[a].asked = attempts[a].asked \cup {s}
          /\ \A b \in DOMAIN attempts : b # a => attempts'[b].asked = attempts[b].asked
    BY <1>6, SendAgainEffect
  <2>2. DOMAIN attempts' = DOMAIN attempts
    BY <1>6, SendAgainEffect
  <2>3. a \in DOMAIN attempts /\ attempts[a].send.id = s.id
    BY DEF Waiting, RegistrySound
  <2>4. attempts'[a].send = attempts[a].send
    BY <1>0, <2>3 DEF KeepsAttempts
  <2>5. ASSUME NEW b \in DOMAIN attempts, NEW t \in attempts'[b].asked
        PROVE  t.id = attempts'[b].send.id /\ Signature(t) = Signature(attempts'[b].send)
    <3>1. CASE t \in attempts[b].asked
      BY <1>1, <3>1
    <3>2. CASE t \notin attempts[b].asked
      <4>1. b = a /\ t = s
        BY <2>1, <2>5, <3>2
      <4> QED
        BY <2>1, <2>3, <2>4, <4>1
    <3> QED
      BY <3>1, <3>2
  <2> QED
    BY <2>2, <2>5 DEF AskedAlike, IdOf, Signature
<1>7. ASSUME StillRegistry PROVE AskedAlike'
  BY <1>2, <1>7 DEF StillRegistry
<1> QED
  BY <1>3, <1>4, <1>5, <1>6, <1>7, WireFrame

-----------------------------------------------------------------------------
(* What the callers are told. *)

\* A step that settles nobody as delivered or failed.
SettlesNobody ==
  \A a \in DOMAIN attempts' :
    attempts'[a].result \in {"delivered", "failed"} =>
      /\ a \in DOMAIN attempts /\ attempts'[a].result = attempts[a].result
      /\ attempts'[a].verdict = attempts[a].verdict
      /\ attempts'[a].asked = attempts[a].asked

\* Only an answer tells a caller something.
LEMMA TellingFrame ==
  ASSUME SendTypeOK, WireInOrder, RegistrySound, [Next]_sendVars
  PROVE  \/ \E c \in Sessions : ReadAnswer(c)
         \/ SettlesNobody
<1>1. ASSUME NEW c \in Sessions, NEW those, NEW r, Settles(c, those, r)
      PROVE  ReadAnswer(c) \/ SettlesNobody
  <2>1. /\ DOMAIN attempts' = DOMAIN attempts
        /\ \A a \in DOMAIN attempts :
             /\ attempts'[a].verdict = attempts[a].verdict
             /\ attempts'[a].asked = attempts[a].asked
             /\ a \in those => attempts'[a].result = r
             /\ a \notin those => attempts'[a].result = attempts[a].result
    BY <1>1, SettledAttempts
  <2>2. r = "rejected" => SettlesNobody
    BY <2>1 DEF SettlesNobody
  <2> QED
    BY <1>1, <2>2 DEF Settles
<1>2. ASSUME NEW c \in Sessions, NEW a, NEW ok, Answered(c, a, ok) PROVE SettlesNobody
  <2>1. a \in DOMAIN attempts /\ ok \in BOOLEAN /\ Answer(c, a, ok)
    BY <1>2 DEF Answered
  <2>2. /\ DOMAIN attempts' = DOMAIN attempts
        /\ \A b \in DOMAIN attempts :
             /\ attempts'[b].result = attempts[b].result
             /\ attempts'[b].asked = attempts[b].asked
             /\ b # a => attempts'[b].verdict = attempts[b].verdict
        /\ attempts[a].result # "pending" => attempts'[a].verdict = attempts[a].verdict
    BY <2>1, AnswerEffect
  <2> QED
    BY <2>2 DEF SettlesNobody
<1>3. ASSUME NEW c \in Sessions, NEW s \in SendsOf[c], Send(c, s) PROVE SettlesNobody
  <2>1. PICK n \in Nat : SendsAs(c, s, n)
    BY <1>3, SendEffect
  <2>2. /\ DOMAIN attempts' = DOMAIN attempts \cup {n}
        /\ \A a \in DOMAIN attempts : attempts'[a] = attempts[a]
        /\ attempts'[n].result = "pending"
    BY <2>1 DEF SendsAs
  <2> QED
    BY <2>2 DEF SettlesNobody
<1>4. ASSUME NEW c \in Sessions, NEW s \in SendsOf[c], SendAgain(c, s) PROVE SettlesNobody
  <2>1. /\ DOMAIN attempts' = DOMAIN attempts
        /\ \A b \in DOMAIN attempts : /\ attempts'[b].verdict = attempts[b].verdict
                                      /\ attempts'[b].result = attempts[b].result
    BY <1>4, SendAgainEffect
  <2>2. PICK a \in Waiting(c, s.id) :
          \A b \in DOMAIN attempts : b # a => attempts'[b].asked = attempts[b].asked
    BY <1>4, SendAgainEffect
  <2>3. a \in DOMAIN attempts /\ attempts[a].result = "pending"
    BY DEF Waiting, RegistrySound
  <2> QED
    BY <2>1, <2>2, <2>3 DEF SettlesNobody
<1>5. ASSUME StillRegistry PROVE SettlesNobody
  BY <1>5 DEF StillRegistry, SettlesNobody
<1> QED
  BY <1>1, <1>2, <1>3, <1>4, <1>5, WireFrame

\* The answer that is read settles the attempt it is for, and no other.
LEMMA ReadingSettles ==
  ASSUME SendTypeOK, RegistrySound, NEW c \in Sessions, ReadAnswer(c)
  PROVE  \E m \in ToSet(toClient[c]) :
           LET r == IF m.ok THEN "delivered" ELSE "failed"
           IN  /\ m.ok \in BOOLEAN /\ DOMAIN attempts' = DOMAIN attempts
               /\ \A a \in DOMAIN attempts :
                    /\ attempts'[a].verdict = attempts[a].verdict
                    /\ attempts'[a].asked = attempts[a].asked
                    /\ \/ attempts'[a].result = attempts[a].result
                       \/ /\ a = m.attempt /\ attempts[a].result = "pending"
                          /\ attempts'[a].result = r
<1>1. PICK m \in ToSet(toClient[c]) :
        /\ m \in Answers
        /\ Settle(c, Matches(c, m), IF m.ok THEN "delivered" ELSE "failed")
  BY ReadAnswerEffect
<1> DEFINE r  == IF m.ok THEN "delivered" ELSE "failed"
           those == Matches(c, m)
<1>2. r \in {"delivered", "failed", "rejected"} /\ Settle(c, those, r) /\ m.ok \in BOOLEAN
  BY <1>1 DEF Answers
<1>3. \A a \in those : a = m.attempt /\ attempts[a].result = "pending"
  BY MatchesItsOwn
<1> HIDE DEF r, those
<1>4. /\ DOMAIN attempts' = DOMAIN attempts
      /\ \A a \in DOMAIN attempts :
           /\ attempts'[a].verdict = attempts[a].verdict
           /\ attempts'[a].asked = attempts[a].asked
           /\ a \in those => attempts'[a].result = r
           /\ a \notin those => attempts'[a].result = attempts[a].result
  BY <1>2, SettleEffect DEF Settle
<1>5. \A a \in DOMAIN attempts :
        \/ attempts'[a].result = attempts[a].result
        \/ /\ a = m.attempt /\ attempts[a].result = "pending"
           /\ attempts'[a].result = r
  BY <1>3, <1>4
<1> QED
  BY <1>2, <1>4, <1>5 DEF r

LEMMA OwnStep ==
  ASSUME SendTypeOK, WireInOrder, RegistrySound, AnswersTrue, AnswersAreOwn, [Next]_sendVars
  PROVE  AnswersAreOwn'
<1>1. ASSUME NEW c \in Sessions, ReadAnswer(c) PROVE AnswersAreOwn'
  <2>1. PICK m \in ToSet(toClient[c]) :
          LET r == IF m.ok THEN "delivered" ELSE "failed"
          IN  /\ m.ok \in BOOLEAN /\ DOMAIN attempts' = DOMAIN attempts
              /\ \A a \in DOMAIN attempts :
                   /\ attempts'[a].verdict = attempts[a].verdict
                   /\ attempts'[a].asked = attempts[a].asked
                   /\ \/ attempts'[a].result = attempts[a].result
                      \/ /\ a = m.attempt /\ attempts[a].result = "pending"
                         /\ attempts'[a].result = r
    BY <1>1, ReadingSettles
  <2>2. attempts[m.attempt].result = "pending" =>
          attempts[m.attempt].verdict = IF m.ok THEN "delivered" ELSE "failed"
    BY DEF AnswersTrue
  <2> QED
    BY <2>1, <2>2 DEF AnswersAreOwn
<1>2. ASSUME SettlesNobody PROVE AnswersAreOwn'
  BY <1>2 DEF SettlesNobody, AnswersAreOwn
<1> QED
  BY <1>1, <1>2, TellingFrame

\* Everybody who asked for a forwarded message had it forwarded.
LEMMA AskedForwarded ==
  ASSUME AskedAlike, NEW a \in DOMAIN attempts, WasForwarded(attempts[a].send)
  PROVE  \A s \in attempts[a].asked : WasForwarded(s)
BY DEF AskedAlike, WasForwarded, IdOf

LEMMA AckStep ==
  ASSUME SendTypeOK, AttemptsExist, WireInOrder, RegistrySound, AnswersTrue, AskedAlike,
         AckMeansForwarded, [Next]_sendVars
  PROVE  AckMeansForwarded'
<1>1. \A s : WasForwarded(s) => WasForwarded(s)'
  BY ForwardedStays, ForwardedGrows
<1>2. \A a \in DOMAIN attempts : attempts[a].result = "delivered" =>
        \A s \in attempts[a].asked : WasForwarded(s)
  BY DEF AckMeansForwarded, WasForwarded
<1>3. \A a \in DOMAIN attempts' : attempts'[a].result = "delivered" =>
        \A s \in attempts'[a].asked : WasForwarded(s)
  <2>1. ASSUME NEW c \in Sessions, ReadAnswer(c), NEW a \in DOMAIN attempts',
               attempts'[a].result = "delivered", NEW s \in attempts'[a].asked
        PROVE  WasForwarded(s)
    <3>1. PICK m \in ToSet(toClient[c]) :
            LET r == IF m.ok THEN "delivered" ELSE "failed"
            IN  /\ m.ok \in BOOLEAN /\ DOMAIN attempts' = DOMAIN attempts
                /\ \A b \in DOMAIN attempts :
                     /\ attempts'[b].verdict = attempts[b].verdict
                     /\ attempts'[b].asked = attempts[b].asked
                     /\ \/ attempts'[b].result = attempts[b].result
                        \/ /\ b = m.attempt /\ attempts[b].result = "pending"
                           /\ attempts'[b].result = r
      BY <2>1, ReadingSettles
    <3>2. a \in DOMAIN attempts /\ s \in attempts[a].asked
      BY <2>1, <3>1
    <3>3. CASE attempts[a].result = "delivered"
      BY <1>2, <3>2, <3>3
    <3>4. CASE attempts[a].result # "delivered"
      <4>1. a = m.attempt /\ m.ok
        BY <2>1, <3>1, <3>2, <3>4
      <4>2. WasForwarded(attempts[a].send)
        BY <4>1 DEF AnswersTrue
      <4> QED
        BY <3>2, <4>2, AskedForwarded
    <3> QED
      BY <3>3, <3>4
  <2>2. ASSUME SettlesNobody, NEW a \in DOMAIN attempts',
               attempts'[a].result = "delivered", NEW s \in attempts'[a].asked
        PROVE  WasForwarded(s)
    <3>1. a \in DOMAIN attempts /\ attempts[a].result = "delivered" /\ s \in attempts[a].asked
      BY <2>2 DEF SettlesNobody
    <3> QED
      BY <1>2, <3>1
  <2> QED
    BY <2>1, <2>2, TellingFrame
<1>4. \A a \in DOMAIN attempts' : attempts'[a].result = "delivered" =>
        \A s \in attempts'[a].asked : WasForwarded(s)'
  BY <1>1, <1>3
<1> QED
  BY <1>4 DEF AckMeansForwarded, WasForwarded

-----------------------------------------------------------------------------
(* The theorems. *)

LEMMA SendInvStep == SendInv /\ [Next]_sendVars => SendInv'
<1> SUFFICES ASSUME SendInv, [Next]_sendVars PROVE SendInv'
  OBVIOUS
<1> USE DEF SendInv
<1>1. SendTypeOK'
  BY SendTypeStep
<1>2. SlotsHold' /\ CopiesRemembered' /\ AttemptsExist' /\ CrossingsForwarded'
  BY SlotsStep, CopiesStep, AttemptsStep, CrossingsStep
<1>3. WireInOrder' /\ RegistrySound' /\ AnswersTrue' /\ CacheTrue' /\ AskedAlike'
  BY WireStep, RegistryStep, AnswersStep, CacheStep, AskedStep
<1>4. AnswersAreOwn' /\ AckMeansForwarded' /\ GroupsCrossedVertically'
  BY OwnStep, AckStep, GroupsStep
<1> QED
  BY <1>1, <1>2, <1>3, <1>4

LEMMA SendInvariant == SendSpec => []SendInv
<1>1. SendInit => SendInv
  BY SendInitInv
<1>2. SendInv /\ [Next]_sendVars => SendInv'
  BY SendInvStep
<1> QED
  BY <1>1, <1>2, PTL DEF SendSpec

\* The clients' registries, the broker's maps and the wire between them keep
\* their shapes whatever is sent, cut, timed out, forgotten or restarted; in
\* particular each bounded map has every key once (PendingSendRegistry,
\* DeliveredMessageCache, SupervisorChannelRegistry).
THEOREM SendTypesCorrect == SendSpec => []SendTypeOK
BY SendInvariant, PTL DEF SendInv

\* An attempt is settled by the answer to its own frame, with attempt ids and
\* with a broker too old to echo them (resolve, resolveLegacy).
THEOREM AnswersSettleTheirOwn == SendSpec => []AnswersAreOwn
BY SendInvariant, PTL DEF SendInv

\* Every caller told "delivered" had this very message written to a target,
\* through coalesced calls, reconnections and confirmations from the cache
\* (acquire, handleBrokerSend, lookup).
THEOREM DeliveredIsTrue == SendSpec => []AckMeansForwarded
BY SendInvariant, PTL DEF SendInv

\* While the broker remembers an id, it writes at most one message under it
\* (lookup before anything else in handleBrokerSend, record after).
THEOREM RememberedMeansOnce == SendSpec => []DeliveredOnce
<1>1. SendInv => DeliveredOnce
  BY DEF SendInv, CopiesRemembered, DeliveredOnce
<1> QED
  BY <1>1, SendInvariant, PTL

\* Messages cross groups to the sender's supervisor, or back to the child that
\* asked (resolveSessionTarget, matchReply, recordDelivered).
THEOREM CrossingIsVertical == SendSpec => []GroupsCrossedVertically
BY SendInvariant, PTL DEF SendInv

\* The children accepted with a capability go by one name and reach a session
\* of its owner (authorize, claim).
THEOREM SlotHasOneChild == SendSpec => []OneChildPerSlot
<1>1. SendInv => OneChildPerSlot
  BY SlotsGiveOneChild DEF SendInv
<1> QED
  BY <1>1, SendInvariant, PTL
=============================================================================
