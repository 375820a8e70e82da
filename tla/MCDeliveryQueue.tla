-------------------------- MODULE MCDeliveryQueue --------------------------
(* Small queues for TLC. *)
EXTENDS DeliveryQueue

CONSTANTS e1, e2, e3, k1, k2

(* Two deliveries of one workflow to one endpoint, and one to another. *)
MCEntry2 == {e1, e2}
MCEntry3 == {e1, e2, e3}
MCKey == {k1, k2}
MCOneKey == {k1}
MCKeyOf == [e \in Entry |-> IF e = e3 THEN k2 ELSE k1]
=============================================================================
