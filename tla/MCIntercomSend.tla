--------------------------- MODULE MCIntercomSend ---------------------------
(***************************************************************************)
(* A parent, a child it holds a capability for in a group of its own, and  *)
(* a peer of the parent that tries the same capability.  The sends: the    *)
(* child's question to its supervisor, its message by name under the same  *)
(* id, and the answer to the question, from the parent or from the peer,   *)
(* who may take the child's name.                                          *)
(***************************************************************************)
EXTENDS IntercomSend

CONSTANTS p, k, l, slot, m1, m2, b1

MCNameAtStart == (p :> "parent") @@ (k :> "child") @@ (l :> "other")
MCNewNamesOf == (p :> {}) @@ (k :> {}) @@ (l :> {"child"})
MCGroupOf == (p :> "home") @@ (k :> "stage") @@ (l :> "home")
MCTokenOf == (p :> "tp") @@ (k :> "tk") @@ (l :> "tl")
MCOwnerOf == (slot :> "tp")
MCSlotOf == (slot :> "*")
MCCapsOf == (p :> {NoCap}) @@ (k :> {slot}) @@ (l :> {slot, NoCap})

Question == [kind |-> "supervisor_send", id |-> m1, to |-> p, body |-> b1, replyTo |-> NoReply]
ByName == [Question EXCEPT !.kind = "send", !.to = "other"]
Reply == [kind |-> "send", id |-> m2, to |-> "child", body |-> b1, replyTo |-> m1]

MCSendsOf == (p :> {Reply}) @@ (k :> {Question, ByName}) @@ (l :> {Reply})
MCSends == {Question, ByName, Reply}
=============================================================================
