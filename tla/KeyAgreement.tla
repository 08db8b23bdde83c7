---------------------------- MODULE KeyAgreement ----------------------------
(***************************************************************************)
(* What the key exchange promises: nodes meet, and two nodes that have met *)
(* come to hold each other's public keys.  They lose them only by locking  *)
(* their vaults, and may get them back from there.  A key may also be      *)
(* learnt from a node that is only reachable through others.               *)
(***************************************************************************)
CONSTANT Nodes

VARIABLES
    met,   \* the pairs of nodes that have been connected
    known  \* <<n, p>>: n holds the key of p

vars == <<met, known>>

Pairs == {pair \in SUBSET Nodes : \E a, b \in pair : a # b /\ pair = {a, b}}

\* Every way to part a from b cuts a pair that has met.
Reachable(a, b) ==
    \A side \in SUBSET Nodes :
        (a \in side /\ b \notin side) =>
            \E pair \in met : pair \cap side # {} /\ ~(pair \subseteq side)

Init == met = {} /\ known = {}

Meet ==
    /\ \E pair \in Pairs : met' = met \cup {pair}
    /\ UNCHANGED known

Learn(a, b) ==
    /\ a # b
    /\ known' = known \cup {<<a, b>>}
    /\ UNCHANGED met
    /\ Reachable(a, b)

\* A node without an identity in memory holds no keys.
Forget(a) ==
    /\ known' = {pair \in known : pair[1] # a}
    /\ UNCHANGED met

\* Unlocking brings back keys that were learnt before.
Recall(a) ==
    /\ \E peers \in SUBSET {b \in Nodes \ {a} : Reachable(a, b)} :
          known' = known \cup ({a} \X peers)
    /\ UNCHANGED met

Next ==
    \/ Meet
    \/ \E a, b \in Nodes : Learn(a, b)
    \/ \E a \in Nodes : Forget(a) \/ Recall(a)

Spec == Init /\ [][Next]_vars

\* Keys are learnt from those met, sooner or later.
FairSpec ==
    Spec /\ \A a, b \in Nodes : WF_vars({a, b} \in met /\ Learn(a, b))
=============================================================================
