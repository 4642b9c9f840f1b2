-------------------------- MODULE MailboxDelivery ---------------------------
(***************************************************************************)
(* What a custodian of hosted mailbox deliveries promises, whatever fails: *)
(* a delivery gets at most one reply of it, the reply never changes, and   *)
(* the delivery is acknowledged only once its reply is in the room, or if  *)
(* it asks for none.                                                       *)
(***************************************************************************)
CONSTANTS Deliveries, Texts, ReplyRequired

VARIABLES
  replies,  \* the texts in the room in reply to a delivery
  settled   \* the deliveries the custodian acknowledged

DeliveryInit ==
  /\ replies = [d \in Deliveries |-> {}]
  /\ settled = {}

Answer(d) ==
  /\ replies[d] = {} /\ (d \in ReplyRequired => d \notin settled)
  /\ \E t \in Texts : replies' = [replies EXCEPT ![d] = {t}]
  /\ UNCHANGED settled

Settle(d) ==
  /\ replies[d] # {} \/ d \notin ReplyRequired
  /\ settled' = settled \cup {d}
  /\ UNCHANGED replies

DeliveryNext == \E d \in Deliveries : Answer(d) \/ Settle(d)

DeliverySpec == DeliveryInit /\ [][DeliveryNext]_<<replies, settled>>
=============================================================================
