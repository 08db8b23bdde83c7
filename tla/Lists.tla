-------------------------------- MODULE Lists --------------------------------
(* Lists of rooms and messages. *)
EXTENDS Naturals, Sequences

\* Vec::retain: the entries of list that are in set, in their order.
Retain(list, set) ==
    LET kept[i \in 0..Len(list)] ==
            IF i = 0 THEN << >>
            ELSE IF list[i] \in set THEN Append(kept[i - 1], list[i])
                                    ELSE kept[i - 1]
    IN  kept[Len(list)]
=============================================================================
