---------------------------- MODULE MCQuikBroker ----------------------------
(* Two orders and one cancellation; for liveness, one order and two.       *)
EXTENDS QuikBroker
=============================================================================
