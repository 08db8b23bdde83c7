------------------------------- MODULE MCRooms -------------------------------
(* Rooms on small instances, for TLC. *)
EXTENDS Rooms, TLC

CONSTANTS c1, c2, ev, r1, r2

Symmetry == Permutations({c1, c2}) \cup Permutations({r1, r2})
=============================================================================
