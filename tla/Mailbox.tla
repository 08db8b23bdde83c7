------------------------------- MODULE Mailbox -------------------------------
(***************************************************************************)
(* What end-to-end encrypted chat promises: a message is sealed once, for   *)
(* some nodes; only they ever read it, each of them once at most, and what  *)
(* was posted in the clear is read by others than its author.              *)
(***************************************************************************)
EXTENDS Naturals, Sequences

CONSTANT Nodes

VARIABLES
    posted, \* the messages: who posted each, sealed or not, and for whom
    read    \* read[n]: the messages n has read, in that order

vars == <<posted, read>>

Init ==
    /\ posted = << >>
    /\ read = [n \in Nodes |-> << >>]

Post(n, secret) ==
    /\ posted' = Append(posted, [from |-> n, secret |-> secret, readers |-> {}])
    /\ UNCHANGED read

\* A message is sealed for others, once.
Seal(i, readers) ==
    /\ posted[i].secret
    /\ posted[i].readers = {}
    /\ posted[i].from \notin readers
    /\ posted' = [posted EXCEPT ![i] = [@ EXCEPT !.readers = readers]]
    /\ UNCHANGED read

Has(n, i) == \E j \in 1..Len(read[n]) : read[n][j] = i

Read(n, i) ==
    /\ IF posted[i].secret THEN n \in posted[i].readers /\ ~Has(n, i)
                           ELSE n # posted[i].from
    /\ read' = [read EXCEPT ![n] = Append(@, i)]
    /\ UNCHANGED posted

Next ==
    \/ \E n \in Nodes, secret \in BOOLEAN : Post(n, secret)
    \/ \E i \in 1..Len(posted) :
          \/ \E readers \in SUBSET Nodes : Seal(i, readers)
          \/ \E n \in Nodes : Read(n, i)

Spec == Init /\ [][Next]_vars
=============================================================================
