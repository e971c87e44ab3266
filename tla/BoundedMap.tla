----------------------------- MODULE BoundedMap -----------------------------
(***************************************************************************)
(* The bounded, insertion-ordered maps of the intercom broker              *)
(* (delivered-message-cache.ts, supervisor-channel.ts): a map is the       *)
(* sequence of its entries, oldest first, each with a field `key`.         *)
(***************************************************************************)
EXTENDS SequencesExt, Naturals, FiniteSets

Keys(m) == {m[i].key : i \in DOMAIN m}
Place(m, k) == CHOOSE i \in DOMAIN m : m[i].key = k
At(m, k) == m[Place(m, k)]

Without(m, k) == IF k \in Keys(m) THEN RemoveAt(m, Place(m, k)) ELSE m

\* delete, set, and delete the oldest while there are more than max.
Put(m, e, max) ==
  LET all == Append(Without(m, e.key), e)
  IN  SubSeq(all, IF Len(all) > max THEN Len(all) - max + 1 ELSE 1, Len(all))
=============================================================================
