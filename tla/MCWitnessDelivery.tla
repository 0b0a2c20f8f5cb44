-------------------------- MODULE MCWitnessDelivery --------------------------
(* Two commands on one witness row.                                        *)
EXTENDS WitnessDelivery
=============================================================================
