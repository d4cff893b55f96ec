---------------------------- MODULE LRUCacheTest ----------------------------
(***************************************************************************)
(* lru_cache01/test.c: the calls that main makes on a cache of two entries,*)
(* in order, for every hash function the seed may give.                    *)
(***************************************************************************)
EXTENDS LRUCache

CONSTANTS One, Two, Three   \* the keys "1", "2", "3"

VARIABLE step   \* how many of the calls were made

TestInit == Init /\ step = 0

(* The calls of main. *)
Call(n) == CASE n = 1 -> \E v \in Values : Set(One, v)
             [] n = 2 -> \E v \in Values : Set(Two, v)
             [] n = 3 -> GetHit(One) \/ Miss(One)
             [] n = 4 -> \E v \in Values : Set(Three, v)
             [] n = 5 -> GetHit(Two) \/ Miss(Two)
             [] n \in {6, 7} -> DeleteHit(Three) \/ Miss(Three)
             [] n = 8 -> Free
             [] OTHER -> Ended

TestNext == Call(step + 1) /\ step' = IF step < 8 THEN step + 1 ELSE step

TestSpec == TestInit /\ [][TestNext]_<<vars, step>>

(* The assertions of main on the results of LRUCacheGet and LRUCacheDelete. *)
AssertsHold == /\ step \in {3, 6} => ret.err = "LRU_CACHE_OK"
               /\ step \in {5, 7} => ret.err = "LRU_CACHE_KEY_MISSING"
=============================================================================
