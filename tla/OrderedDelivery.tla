--------------------------- MODULE OrderedDelivery ---------------------------
(***************************************************************************)
(* What either end of a broker socket relies on: the messages that were    *)
(* written are handled in the order of their writing, each once, with no   *)
(* gap.  How many have been handled may lag behind.                        *)
(***************************************************************************)
EXTENDS Naturals, Sequences

VARIABLES
  sent,       \* how many messages have been written
  handled     \* the numbers of the messages handled

deliveryVars == <<sent, handled>>

DeliveryInit == sent = 0 /\ handled = <<>>

SendOne == sent' = sent + 1 /\ UNCHANGED handled

HandleOne ==
  /\ Len(handled) < sent
  /\ handled' = Append(handled, Len(handled) + 1)
  /\ UNCHANGED sent

DeliverySpec == DeliveryInit /\ [][SendOne \/ HandleOne]_deliveryVars
=============================================================================
