---------------------------- MODULE MCCheckpoints ----------------------------
(* Three profiles on one log: a and b sign with different keys and only a  *)
(* trusts both; c has not put its own key among its trusted keys.          *)
EXTENDS Checkpoints

CONSTANTS a, b, c, k1, k2, k3

MCSignerOf  == [f \in Profiles |-> CASE f = a -> k1 [] f = b -> k2 [] f = c -> k3]
MCTrustedBy == [f \in Profiles |-> CASE f = a -> {k1, k2} [] f = b -> {k2} [] f = c -> {k1}]
=============================================================================
