----------------------------- MODULE MCMessaging -----------------------------
(* Messaging on small instances, for TLC. *)
EXTENDS Messaging, TLC

CONSTANTS a, b, c

Symmetry == Permutations({a, b})

=============================================================================
