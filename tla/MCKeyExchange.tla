---------------------------- MODULE MCKeyExchange ----------------------------
(* KeyExchange on small instances, for TLC. *)
EXTENDS KeyExchange, TLC

CONSTANTS a, b, c

Symmetry == Permutations({a, b, c})
=============================================================================
