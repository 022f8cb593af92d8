--------------------------- MODULE DeliveryOutbox ---------------------------
(***************************************************************************)
(* What the durable outbox promises a sender, with no worker, lease or     *)
(* process in sight: an accepted delivery is settled exactly once, either  *)
(* correlated or dead-lettered, and it is settled eventually.              *)
(***************************************************************************)
CONSTANT Deliveries
VARIABLE state

Init == state = [d \in Deliveries |-> "absent"]

\* A batch is accepted as a whole; ids accepted before are left alone.
Accept(S) ==
  state' = [d \in Deliveries |->
              IF d \in S /\ state[d] = "absent" THEN "accepted" ELSE state[d]]

Settle(d) ==
  /\ state[d] = "accepted"
  /\ \E outcome \in {"correlated", "dead"} :
       state' = [state EXCEPT ![d] = outcome]

Next ==
  \/ \E S \in SUBSET Deliveries : Accept(S)
  \/ \E d \in Deliveries : Settle(d)

Spec == Init /\ [][Next]_state

FairSpec == Spec /\ \A d \in Deliveries : WF_state(Settle(d))
=============================================================================
