----------------------------- MODULE MCWireGuard -----------------------------
(* WireGuard on small instances, for TLC. *)
EXTENDS WireGuard, TLC

CONSTANTS p1, p2, ip1, ip2

Symmetry == Permutations({p1, p2}) \cup Permutations({ip1, ip2})
=============================================================================
