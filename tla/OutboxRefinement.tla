-------------------------- MODULE OutboxRefinement ---------------------------
(***************************************************************************)
(* The outbox implements DeliveryQueue: what its rows and the workers'     *)
(* memory say of an event is the event's fate there.                       *)
(***************************************************************************)
EXTENDS Outbox

\* Events some worker is yet to record an outcome for.
Pursued == UNION {j.items : j \in UNION {Unhandled(w) : w \in Workers}}

FateOfStatus ==
  [pending |-> "waiting", sending |-> "taken", sent |-> "delivered", failed |-> "abandoned"]

\* A row deleted under a worker's hands is still taken: it will be sent.
Fate ==
  [e \in Rows |->
     IF e \in Carried
       THEN FateOfStatus[outbox[CHOOSE r \in Ids : e \in outbox[r].items].status]
       ELSE IF e \in Pursued THEN "taken" ELSE "unknown"]

Queue == INSTANCE DeliveryQueue WITH Events <- Rows, fate <- Fate

\* Each step of the outbox is a step of the queue it promises to be, or none:
\* no event is delivered that was not taken, none is taken again once it is
\* delivered or given up, and merging into a digest only puts it back.
ImplementsDeliveryQueue == Queue!Spec
=============================================================================
