------------------------- MODULE SupervisorChannel --------------------------
(***************************************************************************)
(* Class SupervisorChannelCache of packages/intercom/broker/               *)
(* supervisor-channel.ts: the capabilities by which a child session is     *)
(* bound to its supervisor's session, and the record of the messages       *)
(* children sent to their supervisors, which lets a reply come back across *)
(* groups.                                                                 *)
(*                                                                         *)
(* A capability is issued by the holder of an owner token for a child name *)
(* or for any one child ("*").  Only the holder can make or restore it:    *)
(* the HMAC is abstracted to OwnerOf.  Crossings expire by a time to live, *)
(* which is Expire at any time.                                            *)
(***************************************************************************)
EXTENDS BoundedMap

CONSTANTS
  Sessions, NoSession,
  Caps,                   \* capabilities
  OwnerOf, SlotOf,        \* the owner token and the child name inside each
  AnyName,                \* the child name "*"
  NoName,                 \* boundChildName === undefined
  MaxEntries              \* maxEntries

ASSUME EntriesAssumption == MaxEntries \in Nat \ {0}
ASSUME NoSessionAssumption == NoSession \notin Sessions

VARIABLES
  authorizations,   \* entries [key : capability, sup, bound]
  crossings         \* entries [key : message id, from, to]

channelVars == <<authorizations, crossings>>

ChannelInit == authorizations = <<>> /\ crossings = <<>>

\* A variant that issues it afresh and forgets which child it was bound to.
AuthorizeAfresh(sup, k) ==
  authorizations' = Put(authorizations, [key |-> k, sup |-> sup, bound |-> NoName], MaxEntries)

\* authorize: issue a capability, or restore it for a new session of its owner;
\* the child a dynamic slot is bound to is kept.
Authorize(sup, k) ==
  authorizations' =
    Put(authorizations,
        [key |-> k, sup |-> sup,
         bound |-> IF k \in Keys(authorizations) THEN At(authorizations, k).bound ELSE NoName],
        MaxEntries)

\* claim finds a supervisor for this child.
Claimable(k, child) ==
  /\ k \in Keys(authorizations)
  /\ IF SlotOf[k] = AnyName
       THEN At(authorizations, k).bound \in {NoName, child}
       ELSE SlotOf[k] = child

Supervisor(k) == At(authorizations, k).sup

\* What a successful claim leaves behind: a dynamic slot is bound to the child.
Bind(k, child) ==
  authorizations' =
    [i \in DOMAIN authorizations |->
       IF authorizations[i].key = k /\ SlotOf[k] = AnyName
         THEN [authorizations[i] EXCEPT !.bound = child] ELSE authorizations[i]]

\* record
Crossed(id, from, to) ==
  Put(crossings, [key |-> id, from |-> from, to |-> to], MaxEntries)

\* A variant that asks only whether there was such a message.
MatchAnyReply(id, from, to) == id \in Keys(crossings)

\* matchReply: a reply goes the exact other way.
MatchReply(id, from, to) ==
  /\ id \in Keys(crossings)
  /\ At(crossings, id).from = to
  /\ At(crossings, id).to = from
=============================================================================
