--------------------------- MODULE MCPushDelivery ---------------------------
(* Instances of PushDelivery for TLC; the sets come from the .cfg files.   *)
EXTENDS PushDeliveryProps, TLC

CONSTANTS d1, s1, t1, t2

(* The devices, one or two, receive the same schedule. *)
ScheduleMap == [d \in Deliveries |-> s1]
TokenMap == [d \in Deliveries |-> IF d = d1 THEN t1 ELSE t2]

ConsumerSymmetry == Permutations(Consumers)

(* Two consumers race for the first device alone, or one serves both devices *)
(* as long as nothing has to be tried again.                               *)
Busy == {w \in Consumers : consumer[w] # IdleConsumer}
OneRaceAtATime ==
  \/ \A d \in Deliveries \ {d1} : delivery[d].status = "absent"
  \/ /\ Cardinality(Busy) <= 1
     /\ \A d \in Deliveries : delivery[d].status # "retry_wait" /\ ~uncertain[d]
=============================================================================
