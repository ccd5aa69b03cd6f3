-------------------------- MODULE MCDeliveryOutbox --------------------------
(* Instances of DeliveryOutbox for TLC. *)
EXTENDS DeliveryOutbox
=============================================================================
