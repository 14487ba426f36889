------------------------------ MODULE KeyedStore ------------------------------
(***************************************************************************)
(* What a keyed collection promises: a map from the keys it holds to the   *)
(* value each was last given, changed by nothing but putting, removing and *)
(* clearing.  Collections.tla shows the hidden arrays implement it.        *)
(***************************************************************************)
CONSTANTS Keys, Values

VARIABLE map

Empty == [k \in {} |-> k]

Put(k, v) == map' = [x \in DOMAIN map \cup {k} |-> IF x = k THEN v ELSE map[x]]

Remove(k) ==
    /\ k \in DOMAIN map
    /\ map' = [x \in DOMAIN map \ {k} |-> map[x]]

Clear == map' = Empty

Init == map = Empty

Next ==
    \/ \E k \in Keys, v \in Values : Put(k, v)
    \/ \E k \in Keys : Remove(k)
    \/ Clear

Spec == Init /\ [][Next]_map
=============================================================================
