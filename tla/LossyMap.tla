------------------------------ MODULE LossyMap ------------------------------
(***************************************************************************)
(* What the LRU cache promises about the values it returns, whatever it    *)
(* evicts: a lookup returns the value of the last LRUCacheSet of that key, *)
(* or reports it missing; an entry disappears only in LRUCacheDelete of    *)
(* that key, in LRUCacheFree, or in an LRUCacheSet, which may forget       *)
(* anything.                                                               *)
(***************************************************************************)
EXTENDS Functions

CONSTANTS Keys, Values, NULL

VARIABLES map,   \* the function from the stored keys to their values
          ret    \* the last call and its result

Missing(op, k) == [op |-> op, key |-> k, err |-> "LRU_CACHE_KEY_MISSING", value |-> NULL]
OK(op, k, v) == [op |-> op, key |-> k, err |-> "LRU_CACHE_OK", value |-> v]

Empty == [k \in {} |-> NULL]

Init == map = Empty /\ ret = OK("new", NULL, NULL)

Set(k, v) == \E kept \in SUBSET (DOMAIN map \cup {k}) :
                /\ map' = [x \in kept |-> IF x = k THEN v ELSE map[x]]
                /\ ret' = OK("set", k, v)

Get(k) == /\ ret' = IF k \in DOMAIN map THEN OK("get", k, map[k]) ELSE Missing("get", k)
          /\ UNCHANGED map

Delete(k) == /\ ret' = IF k \in DOMAIN map THEN OK("delete", k, NULL) ELSE Missing("delete", k)
             /\ map' = Restrict(map, DOMAIN map \ {k})

Free == map' = Empty /\ ret' = OK("free", NULL, NULL)

Next == \/ \E k \in Keys, v \in Values : Set(k, v)
        \/ \E k \in Keys : Get(k) \/ Delete(k)
        \/ Free

Spec == Init /\ [][Next]_<<map, ret>>
=============================================================================
