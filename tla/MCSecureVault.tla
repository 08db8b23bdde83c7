---------------------------- MODULE MCSecureVault ----------------------------
(* SecureVault on small instances, for TLC. *)
EXTENDS SecureVault, TLC

CONSTANTS c1, c2, ev, m1, m2, i1, i2, p1, p2, s1, s2

Symmetry == Permutations({c1, c2}) \cup Permutations({m1, m2})
            \cup Permutations({i1, i2}) \cup Permutations({p1, p2})
            \cup Permutations({s1, s2})

\* Bound: two commands run at once only if both create the vault.
OnlyCreationsOverlap ==
    \A t, u \in Commands :
        (t # u /\ pc[t] # "idle" /\ pc[u] # "idle")
            => op[t] = "create" /\ op[u] = "create"
=============================================================================
