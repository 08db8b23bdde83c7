----------------------------- MODULE MCFrontend -----------------------------
(* Frontend on small instances, for TLC. *)
EXTENDS Frontend, TLC

CONSTANTS r1, r2

Symmetry == Permutations({r1, r2})
=============================================================================
