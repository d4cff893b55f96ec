------------------------------ MODULE LRUCache ------------------------------
(***************************************************************************)
(* lru_cache01/lru_cache.c.  Every call is one critical section of the     *)
(* cache's mutex, so each is a step.                                       *)
(*                                                                         *)
(* items[b] is the chain of bucket b, from items[b] along next.  The hash  *)
(* is seeded with the time, so any function from keys to buckets may be    *)
(* met.  malloc leaves memory as it is: neither the buckets, nor cache->age*)
(* nor a new item's next are initialised, so wild[b] says that the pointer *)
(* that ends the chain of b is not NULL, and a walk that gets there has    *)
(* left the program's defined behaviour (phase "undefined").  ret is the   *)
(* last call and its result.                                               *)
(***************************************************************************)
EXTENDS Integers, Sequences, FiniteSets, SequencesExt

CONSTANTS Keys, Values, NULL,
          Capacity,       \* LRUCacheNew's entries: capacity and hash_table_size
          IntMax,         \* INT_MAX
          StartAges,      \* what an uninitialised cache->age may hold
          WildPointers,   \* may an uninitialised pointer be NULL, or else?
          MaxAge,         \* bound on the number of calls that use an entry
          MaxEntries      \* bound on current_entries

ASSUME CapacityAssumption == Capacity \in Nat \ {0}
ASSUME IntMaxAssumption == IntMax \in Nat
ASSUME WildAssumption == WildPointers \subseteq BOOLEAN
ASSUME StartAgesAssumption == StartAges \subseteq Nat
ASSUME KeysAssumption == IsFiniteSet(Keys)
ASSUME BoundsAssumption == MaxAge \in Nat /\ MaxEntries \in Nat

Buckets == 0 .. Capacity - 1

VARIABLES hash,              \* LRUCacheGetHashIndex
          items, wild,
          current_entries, age,
          ret,
          phase,             \* "open", "freed" or "undefined"
          recent             \* history: the keys in the order of their last use

vars == <<hash, items, wild, current_entries, age, ret, phase, recent>>

Item == [key : Keys, value : Values, age : Nat]
Missing(op, k) == [op |-> op, key |-> k, err |-> "LRU_CACHE_KEY_MISSING", value |-> NULL]
OK(op, k, v) == [op |-> op, key |-> k, err |-> "LRU_CACHE_OK", value |-> v]

(* The variables have their types. *)
TypeOK == /\ hash \in [Keys -> Buckets]
          /\ items \in [Buckets -> Seq(Item)] /\ wild \in [Buckets -> BOOLEAN]
          /\ current_entries \in Nat /\ age \in Nat
          /\ ret \in [op : {"new", "set", "get", "delete", "free"}, key : Keys \cup {NULL},
                     err : {"LRU_CACHE_OK", "LRU_CACHE_KEY_MISSING"}, value : Values \cup {NULL}]
          /\ phase \in {"open", "freed", "undefined"}
          /\ recent \in Seq(Keys)

(* LRUCacheNew *)
Init == /\ hash \in [Keys -> Buckets]
        /\ items = [b \in Buckets |-> <<>>] /\ wild \in [Buckets -> WildPointers]
        /\ current_entries = 0
        /\ age \in StartAges
        /\ ret = OK("new", NULL, NULL)
        /\ phase = "open"
        /\ recent = <<>>

----------------------------------------------------------------------------
(* Mutant: only the first item of the chain is compared. *)
FindFirst(k) == LET c == items[hash[k]] IN
                IF c # <<>> /\ c[1].key = k THEN 1 ELSE 0

(* The place of k in its chain, 0 if it is not there. *)
Find(k) == LET c == items[hash[k]] IN
           IF \E i \in DOMAIN c : c[i].key = k
           THEN CHOOSE i \in DOMAIN c : c[i].key = k /\ \A j \in 1 .. i - 1 : c[j].key # k
           ELSE 0

(* The key is used: its item, and only its item, gets the cache's age. *)
Use(k) == /\ age' = age + 1
          /\ recent' = Append(SelectSeq(recent, LAMBDA x : x # k), k)

(* A walk along the chains bs to their ends. *)
Undefined(bs) == /\ phase = "open" /\ \E b \in bs : wild[b]
                 /\ phase' = "undefined"
                 /\ UNCHANGED <<hash, items, wild, current_entries, age, ret, recent>>

(* LRUCacheRemoveLeastUsedItem's choice among all places <<b, i>>. *)
Places == {p \in Buckets \X (1 .. MaxEntries) : p[2] \in DOMAIN items[p[1]]}
AgeAt(p) == items[p[1]][p[2]].age
Candidates == {p \in Places : AgeAt(p) < IntMax}
LeastUsed == {p \in Candidates : \A q \in Candidates : AgeAt(p) <= AgeAt(q)}

----------------------------------------------------------------------------
(* LRUCacheSet of a key the cache has. *)
SetHit(k, v) == /\ phase = "open" /\ Find(k) # 0 /\ age < MaxAge
                /\ items' = [items EXCEPT ![hash[k]][Find(k)] = [key |-> k, value |-> v, age |-> age]]
                /\ Use(k) /\ ret' = OK("set", k, v)
                /\ UNCHANGED <<hash, wild, current_entries, phase>>

(* LRUCacheSet of a new key.  prev, the end of the chain of b, is looked up *)
(* before the eviction: if it is the item evicted, the new item is linked   *)
(* to an item that is no longer in any chain.                               *)
Insert(k, v, chains, evicted) ==
    LET b == hash[k]
        new == [key |-> k, value |-> v, age |-> age] IN
    IF items[b] # <<>> /\ evicted = <<b, Len(items[b])>>
    THEN items' = chains /\ UNCHANGED wild
    ELSE /\ items' = [chains EXCEPT ![b] = Append(@, new)]
         /\ \E w \in WildPointers : wild' = [wild EXCEPT ![b] = w]

(* Mutant: the cache counts as full at Capacity + 1. *)
SetRoomOffByOne(k, v) == /\ phase = "open" /\ Find(k) = 0 /\ age < MaxAge
                         /\ ~wild[hash[k]]
                         /\ current_entries <= Capacity
                         /\ Insert(k, v, items, <<>>)
                         /\ current_entries' = current_entries + 1
                         /\ Use(k) /\ ret' = OK("set", k, v)
                         /\ UNCHANGED <<hash, phase>>

SetRoom(k, v) == /\ phase = "open" /\ Find(k) = 0 /\ age < MaxAge
                 /\ ~wild[hash[k]]
                 /\ current_entries < Capacity
                 /\ Insert(k, v, items, <<>>)
                 /\ current_entries' = current_entries + 1
                 /\ Use(k) /\ ret' = OK("set", k, v)
                 /\ UNCHANGED <<hash, phase>>

SetEvict(k, v) == /\ phase = "open" /\ Find(k) = 0 /\ age < MaxAge /\ current_entries < MaxEntries
                  /\ \A b \in Buckets : ~wild[b]
                  /\ current_entries >= Capacity
                  /\ IF LeastUsed = {}
                     THEN /\ Insert(k, v, items, <<>>)
                          /\ current_entries' = current_entries + 1
                     ELSE \E p \in LeastUsed :
                          /\ Insert(k, v, [items EXCEPT ![p[1]] = RemoveAt(@, p[2])], p)
                          /\ UNCHANGED current_entries
                  /\ Use(k) /\ ret' = OK("set", k, v)
                  /\ UNCHANGED <<hash, phase>>

(* The walk of LRUCacheSet, or of the eviction, runs off a chain. *)
SetUndefined(k) == /\ Find(k) = 0
                   /\ Undefined(IF current_entries >= Capacity THEN Buckets ELSE {hash[k]})

(* Mutant: LRUCacheGet does not refresh the item's age. *)
GetHitKeepsAge(k) == /\ phase = "open" /\ Find(k) # 0 /\ age < MaxAge
                     /\ ret' = OK("get", k, items[hash[k]][Find(k)].value)
                     /\ Use(k)
                     /\ UNCHANGED <<hash, items, wild, current_entries, phase>>

(* LRUCacheGet *)
GetHit(k) == /\ phase = "open" /\ Find(k) # 0 /\ age < MaxAge
             /\ ret' = OK("get", k, items[hash[k]][Find(k)].value)
             /\ items' = [items EXCEPT ![hash[k]][Find(k)].age = age]
             /\ Use(k)
             /\ UNCHANGED <<hash, wild, current_entries, phase>>

(* LRUCacheGet and LRUCacheDelete of a key the cache does not have. *)
Miss(k) == /\ phase = "open" /\ Find(k) = 0 /\ ~wild[hash[k]]
           /\ ret' \in {Missing("get", k), Missing("delete", k)}
           /\ UNCHANGED <<hash, items, wild, current_entries, age, phase, recent>>

MissUndefined(k) == Find(k) = 0 /\ Undefined({hash[k]})

(* Mutant: LRUCacheDelete is not told prev, and unlinks the first item. *)
DeleteHitFirst(k) == /\ phase = "open" /\ Find(k) # 0
                     /\ items' = [items EXCEPT ![hash[k]] = RemoveAt(@, 1)]
                     /\ ret' = OK("delete", k, NULL)
                     /\ UNCHANGED <<hash, wild, current_entries, age, phase, recent>>

(* LRUCacheDelete: current_entries stays as it is. *)
DeleteHit(k) == /\ phase = "open" /\ Find(k) # 0
                /\ items' = [items EXCEPT ![hash[k]] = RemoveAt(@, Find(k))]
                /\ ret' = OK("delete", k, NULL)
                /\ UNCHANGED <<hash, wild, current_entries, age, phase, recent>>

(* LRUCacheFree *)
Free == /\ phase = "open" /\ \A b \in Buckets : ~wild[b]
        /\ items' = [b \in Buckets |-> <<>>]
        /\ phase' = "freed" /\ ret' = OK("free", NULL, NULL)
        /\ UNCHANGED <<hash, wild, current_entries, age, recent>>

FreeUndefined == Undefined(Buckets)

Set(k, v) == SetHit(k, v) \/ SetRoom(k, v) \/ SetEvict(k, v)

Ended == phase # "open" /\ UNCHANGED vars

Next == \/ \E k \in Keys, v \in Values : Set(k, v)
        \/ \E k \in Keys : SetUndefined(k) \/ GetHit(k) \/ Miss(k) \/ MissUndefined(k) \/ DeleteHit(k)
        \/ Free \/ FreeUndefined
        \/ Ended

Spec == Init /\ [][Next]_vars

----------------------------------------------------------------------------
Live == {k \in Keys : Find(k) # 0}

(* Every item is in the chain of its key, and no key is stored twice, in    *)
(* one chain or in two: LRUCacheGet and LRUCacheDelete find all there is.   *)
OneItemPerKey == \A p, q \in Places :
                    LET x == items[p[1]][p[2]]  y == items[q[1]][q[2]] IN
                    /\ hash[x.key] = p[1]
                    /\ x.key = y.key => p = q

(* current_entries never counts too few items, although LRUCacheDelete and  *)
(* an insertion that is lost leave it too high; so the cache keeps to its   *)
(* capacity, as long as fewer than INT_MAX uses have been counted: older    *)
(* entries can then always be evicted.                                      *)
CapacityKept == /\ Cardinality(Places) <= current_entries
                /\ age <= IntMax => Cardinality(Places) <= Capacity

(* What LRUCacheSet evicts is the entry whose last use is the longest ago.  *)
UsedBefore(x, y) == \E i, j \in DOMAIN recent : i < j /\ recent[i] = x /\ recent[j] = y
EvictsLeastRecent ==
    [][\A k \in Keys, v \in Values : SetEvict(k, v) =>
          \A x \in Live \ Live', y \in Live : x = y \/ UsedBefore(x, y)]_vars

(* The cache behaves as a map that may forget entries when one is set. *)
Contents == [k \in Live |-> items[hash[k]][Find(k)].value]
Abstract == INSTANCE LossyMap WITH map <- Contents
Implements == Abstract!Spec
=============================================================================
