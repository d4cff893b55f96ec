--------------------------- MODULE LRUCacheProofs ---------------------------
(***************************************************************************)
(* Proofs about LRUCache, for any keys, values, capacity and hash.         *)
(***************************************************************************)
EXTENDS LRUCache, TLAPS

Types == /\ hash \in [Keys -> Buckets]
         /\ items \in [Buckets -> Seq(Item)]
         /\ age \in Nat

(* The chain s of bucket b has only keys that belong there, each once. *)
Good(h, b, s) == /\ \A i \in 1 .. Len(s) : h[s[i].key] = b
                 /\ \A i, j \in 1 .. Len(s) : s[i].key = s[j].key => i = j

(* Without the bound that Places has. *)
IInv == Types /\ \A b \in Buckets : Good(hash, b, items[b])

----------------------------------------------------------------------------
LEMMA IInvOneItemPerKey == ASSUME IInv PROVE OneItemPerKey
  <1> USE DEF IInv, Types
  <1> SUFFICES ASSUME NEW p \in Places, NEW q \in Places
               PROVE  LET x == items[p[1]][p[2]]  y == items[q[1]][q[2]] IN
                      hash[x.key] = p[1] /\ (x.key = y.key => p = q)
    BY DEF OneItemPerKey
  <1>1. /\ p \in Buckets \X (1 .. MaxEntries) /\ p[2] \in DOMAIN items[p[1]]
        /\ q \in Buckets \X (1 .. MaxEntries) /\ q[2] \in DOMAIN items[q[1]]
    BY DEF Places
  <1>2. p[1] \in Buckets /\ q[1] \in Buckets /\ p = <<p[1], p[2]>> /\ q = <<q[1], q[2]>>
    BY <1>1
  <1>3. p[2] \in 1 .. Len(items[p[1]]) /\ q[2] \in 1 .. Len(items[q[1]])
    BY <1>1, <1>2
  <1>4. Good(hash, p[1], items[p[1]]) /\ Good(hash, q[1], items[q[1]])
    BY <1>2
  <1>5. hash[items[p[1]][p[2]].key] = p[1] /\ hash[items[q[1]][q[2]].key] = q[1]
    BY <1>3, <1>4 DEF Good
  <1>6. ASSUME items[p[1]][p[2]].key = items[q[1]][q[2]].key PROVE p = q
    <2>1. p[1] = q[1]
      BY <1>5, <1>6
    <2>2. p[2] = q[2]
      BY <1>3, <1>4, <1>6, <2>1 DEF Good
    <2> QED BY <1>2, <2>1, <2>2
  <1> QED BY <1>5, <1>6

(* Find finds a key if it is there. *)
LEMMA FindKey ==
    ASSUME IInv, NEW k \in Keys
    PROVE  LET c == items[hash[k]] IN
           /\ hash[k] \in Buckets /\ c \in Seq(Item) /\ Good(hash, hash[k], c)
           /\ Find(k) # 0 => Find(k) \in 1 .. Len(c) /\ c[Find(k)].key = k
           /\ Find(k) = 0 => \A i \in 1 .. Len(c) : c[i].key # k
  <1> DEFINE c == items[hash[k]]
  <1>1. hash[k] \in Buckets /\ c \in Seq(Item)
    BY DEF IInv, Types
  <1>2. Good(hash, hash[k], c)
    BY <1>1 DEF IInv
  <1>3. DOMAIN c = 1 .. Len(c)
    BY <1>1
  <1> HIDE DEF c
  <1>4. ASSUME NEW i \in DOMAIN c, c[i].key = k
        PROVE  Find(k) \in 1 .. Len(c) /\ c[Find(k)].key = k
    <2>1. \A j \in 1 .. i - 1 : c[j].key # k
      BY <1>1, <1>2, <1>3, <1>4 DEF Good
    <2>2. Find(k) = CHOOSE m \in DOMAIN c : c[m].key = k /\ \A j \in 1 .. m - 1 : c[j].key # k
      BY <1>4 DEF Find, c
    <2>3. Find(k) \in DOMAIN c /\ c[Find(k)].key = k
      BY <1>4, <2>1, <2>2, Zenon
    <2> QED BY <1>3, <2>3
  <1>5. Find(k) # 0 => \E i \in DOMAIN c : c[i].key = k
    BY DEF Find, c
  <1>6. Find(k) = 0 => \A i \in DOMAIN c : c[i].key # k
    <2> SUFFICES ASSUME Find(k) = 0, NEW i \in DOMAIN c, c[i].key = k PROVE FALSE
      OBVIOUS
    <2>1. Find(k) \in 1 .. Len(c)
      BY <1>4
    <2> QED BY <2>1
  <1> QED BY <1>1, <1>2, <1>3, <1>4, <1>5, <1>6 DEF c

----------------------------------------------------------------------------
(* A chain stays good when an item gets another value or age, *)
LEMMA Updated ==
    ASSUME NEW h, NEW b, NEW s \in Seq(Item), NEW i \in 1 .. Len(s), NEW x \in Item,
           x.key = s[i].key, Good(h, b, s)
    PROVE  [s EXCEPT ![i] = x] \in Seq(Item) /\ Good(h, b, [s EXCEPT ![i] = x])
  <1> DEFINE t == [s EXCEPT ![i] = x]
  <1>1. t \in Seq(Item) /\ Len(t) = Len(s)
    OBVIOUS
  <1>2. \A j \in 1 .. Len(s) : t[j].key = s[j].key
    OBVIOUS
  <1> HIDE DEF t
  <1>3. Good(h, b, t)
    BY <1>1, <1>2 DEF Good
  <1> QED BY <1>1, <1>3 DEF t

(* when an item is taken out of it, *)
LEMMA Removed ==
    ASSUME NEW h, NEW b, NEW s \in Seq(Item), NEW i \in 1 .. Len(s), Good(h, b, s)
    PROVE  /\ RemoveAt(s, i) \in Seq(Item) /\ Good(h, b, RemoveAt(s, i))
           /\ \A j \in 1 .. Len(RemoveAt(s, i)) : \E m \in 1 .. Len(s) : RemoveAt(s, i)[j] = s[m]
  <1> DEFINE t == RemoveAt(s, i)
  <1> DEFINE p == SubSeq(s, 1, i - 1)  q == SubSeq(s, i + 1, Len(s))
  <1>1. t = p \o q /\ i \in Nat /\ Len(s) \in Nat /\ i <= Len(s) /\ i >= 1
    BY DEF RemoveAt
  <1>p. p \in Seq(Item) /\ Len(p) = i - 1 /\ \A j \in 1 .. i - 1 : p[j] = s[j]
    OBVIOUS
  <1>q. q \in Seq(Item) /\ Len(q) = Len(s) - i /\ \A j \in 1 .. Len(s) - i : q[j] = s[i + j]
    OBVIOUS
  <1> HIDE DEF t, p, q
  <1>2. t \in Seq(Item) /\ Len(t) = Len(s) - 1
    BY <1>1, <1>p, <1>q
  <1>3. \A j \in 1 .. Len(t) : t[j] = IF j < i THEN s[j] ELSE s[j + 1]
    <2> TAKE j \in 1 .. Len(t)
    <2>1. t[j] = IF j <= Len(p) THEN p[j] ELSE q[j - Len(p)]
      BY <1>1, <1>2, <1>p, <1>q
    <2>2. CASE j < i
      BY <1>1, <1>p, <2>1, <2>2
    <2>3. CASE ~(j < i)
      <3>1. j - Len(p) \in 1 .. Len(s) - i /\ i + (j - Len(p)) = j + 1 /\ ~(j <= Len(p))
        BY <1>1, <1>2, <1>p, <2>3
      <3> QED BY <1>q, <2>1, <2>3, <3>1, Zenon
    <2> QED BY <2>2, <2>3
  <1>4. \A j \in 1 .. Len(t) : \E m \in 1 .. Len(s) : t[j] = s[m] /\ m = IF j < i THEN j ELSE j + 1
    <2> TAKE j \in 1 .. Len(t)
    <2>1. CASE j < i
      BY <1>1, <1>2, <1>3, <2>1
    <2>2. CASE ~(j < i)
      <3>1. j + 1 \in 1 .. Len(s)
        BY <1>1, <1>2
      <3> QED BY <1>3, <2>2, <3>1
    <2> QED BY <2>1, <2>2
  <1>5. Good(h, b, t)
    <2>1. \A j \in 1 .. Len(t) : h[t[j].key] = b
      <3> TAKE j \in 1 .. Len(t)
      <3>1. PICK x \in 1 .. Len(s) : t[j] = s[x]
        BY <1>4, Zenon
      <3> QED BY <3>1 DEF Good
    <2>2. ASSUME NEW j \in 1 .. Len(t), NEW m \in 1 .. Len(t), t[j].key = t[m].key
          PROVE  j = m
      <3>1. PICK x \in 1 .. Len(s) : t[j] = s[x] /\ x = IF j < i THEN j ELSE j + 1
        BY <1>4, Zenon
      <3>2. PICK y \in 1 .. Len(s) : t[m] = s[y] /\ y = IF m < i THEN m ELSE m + 1
        BY <1>4, Zenon
      <3>3. x = y
        BY <2>2, <3>1, <3>2, Zenon DEF Good
      <3> QED BY <1>1, <3>1, <3>2, <3>3
    <2> QED BY <2>1, <2>2, Zenon DEF Good
  <1> QED BY <1>2, <1>4, <1>5, Zenon DEF t

(* and when an item with a new key is linked to its end. *)
LEMMA Appended ==
    ASSUME NEW h, NEW b, NEW s \in Seq(Item), NEW x \in Item, Good(h, b, s), h[x.key] = b,
           \A i \in 1 .. Len(s) : s[i].key # x.key
    PROVE  Append(s, x) \in Seq(Item) /\ Good(h, b, Append(s, x))
  <1> DEFINE t == Append(s, x)
  <1>1. /\ t \in Seq(Item) /\ Len(t) = Len(s) + 1 /\ t[Len(s) + 1] = x
        /\ \A j \in 1 .. Len(s) : t[j] = s[j]
    OBVIOUS
  <1> HIDE DEF t
  <1>2. Good(h, b, t)
    BY <1>1 DEF Good
  <1> QED BY <1>1, <1>2 DEF t

----------------------------------------------------------------------------
LEMMA InitIInv == Init => IInv
  BY StartAgesAssumption DEF Init, IInv, Types, Good

(* A step that changes the chain of one bucket. *)
LEMMA OneChain ==
    ASSUME IInv, NEW b \in Buckets, NEW s \in Seq(Item), Good(hash, b, s),
           items' = [items EXCEPT ![b] = s], hash' = hash, age' \in Nat
    PROVE  IInv'
  <1>1. Types'
    BY DEF IInv, Types
  <1>2. items'[b] = s /\ \A d \in Buckets \ {b} : items'[d] = items[d]
    BY DEF IInv, Types
  <1>3. \A d \in Buckets : Good(hash, d, items'[d])
    BY <1>2 DEF IInv
  <1> QED BY <1>1, <1>3 DEF IInv

LEMMA HitIInv ==
    ASSUME IInv, NEW k \in Keys, (\E v \in Values : SetHit(k, v)) \/ GetHit(k)
    PROVE  IInv'
  <1> DEFINE b == hash[k]  c == items[b]  i == Find(k)
  <1>1. /\ b \in Buckets /\ c \in Seq(Item) /\ Good(hash, b, c)
        /\ i \in 1 .. Len(c) /\ c[i].key = k
    BY FindKey DEF SetHit, GetHit
  <1>2. age \in Nat /\ hash' = hash /\ age' = age + 1
    BY Zenon DEF SetHit, GetHit, Use, IInv, Types
  <1>3. age' \in Nat /\ c[i] \in Item
    BY <1>1, <1>2
  <1>4. \E x \in Item : x.key = k /\ items' = [items EXCEPT ![b] = [c EXCEPT ![i] = x]]
    <2>1. ASSUME NEW v \in Values, SetHit(k, v)
          PROVE  \E x \in Item : x.key = k /\ items' = [items EXCEPT ![b] = [c EXCEPT ![i] = x]]
      <3>1. [key |-> k, value |-> v, age |-> age] \in Item
        BY <1>2 DEF Item
      <3> QED BY <2>1, <3>1, Zenon DEF SetHit
    <2>2. CASE GetHit(k)
      <3>1. [c[i] EXCEPT !.age = age] \in Item /\ [c[i] EXCEPT !.age = age].key = k
        BY <1>1, <1>2, <1>3 DEF Item
      <3>2. items' = [items EXCEPT ![b] = [c EXCEPT ![i] = [c[i] EXCEPT !.age = age]]]
        BY <2>2 DEF GetHit
      <3> QED BY <3>1, <3>2, Zenon
    <2> QED BY <2>1, <2>2, Zenon
  <1>5. PICK x \in Item : x.key = k /\ items' = [items EXCEPT ![b] = [c EXCEPT ![i] = x]]
    BY <1>4, Zenon
  <1> HIDE DEF b, c, i
  <1>6. [c EXCEPT ![i] = x] \in Seq(Item) /\ Good(hash, b, [c EXCEPT ![i] = x])
    BY <1>1, <1>5, Updated
  <1> QED BY <1>1, <1>2, <1>3, <1>5, <1>6, OneChain, Zenon

LEMMA DeleteIInv ==
    ASSUME IInv, NEW k \in Keys, DeleteHit(k)
    PROVE  IInv'
  <1> DEFINE b == hash[k]  c == items[b]  i == Find(k)
  <1>1. b \in Buckets /\ c \in Seq(Item) /\ Good(hash, b, c) /\ i \in 1 .. Len(c)
    BY FindKey DEF DeleteHit
  <1>2. hash' = hash /\ age' \in Nat /\ items' = [items EXCEPT ![b] = RemoveAt(c, i)]
    BY DEF DeleteHit, IInv, Types
  <1> HIDE DEF b, c, i
  <1>3. RemoveAt(c, i) \in Seq(Item) /\ Good(hash, b, RemoveAt(c, i))
    BY <1>1, Removed
  <1> QED BY <1>1, <1>2, <1>3, OneChain, Zenon

(* A new item, in chains from which none or one was evicted. *)
LEMMA InsertIInv ==
    ASSUME IInv, NEW k \in Keys, NEW v \in Values, NEW chains \in [Buckets -> Seq(Item)], NEW evicted,
           \A b \in Buckets : Good(hash, b, chains[b]),
           \A i \in 1 .. Len(chains[hash[k]]) : chains[hash[k]][i].key # k,
           Insert(k, v, chains, evicted), hash' = hash, age' \in Nat
    PROVE  IInv'
  <1> DEFINE b == hash[k]  x == [key |-> k, value |-> v, age |-> age]  s == chains[b]
  <1>1. b \in Buckets /\ x \in Item /\ x.key = k /\ s \in Seq(Item) /\ Good(hash, b, s)
    BY Zenon DEF IInv, Types, Item
  <1>2. items' = chains \/ items' = [chains EXCEPT ![b] = Append(s, x)]
    BY DEF Insert
  <1>3. Append(s, x) \in Seq(Item) /\ Good(hash, b, Append(s, x))
    BY <1>1, Appended, Zenon
  <1> HIDE DEF b, x, s
  <1>4. Types'
    <2>1. items' \in [Buckets -> Seq(Item)]
      BY <1>1, <1>2, <1>3, Zenon
    <2> QED BY <2>1 DEF IInv, Types
  <1>5. \A d \in Buckets : Good(hash, d, items'[d])
    <2> TAKE d \in Buckets
    <2>1. items'[d] = chains[d] \/ (d = b /\ items'[d] = Append(s, x))
      BY <1>1, <1>2
    <2> QED BY <1>3, <2>1, Zenon
  <1> QED BY <1>4, <1>5 DEF IInv

LEMMA SetRoomIInv ==
    ASSUME IInv, NEW k \in Keys, NEW v \in Values, SetRoom(k, v)
    PROVE  IInv'
  <1>1. items \in [Buckets -> Seq(Item)] /\ age' \in Nat /\ hash' = hash
    BY DEF SetRoom, Use, IInv, Types
  <1>2. \A i \in 1 .. Len(items[hash[k]]) : items[hash[k]][i].key # k
    BY FindKey DEF SetRoom
  <1> QED BY <1>1, <1>2, InsertIInv DEF SetRoom, IInv

LEMMA SetEvictIInv ==
    ASSUME IInv, NEW k \in Keys, NEW v \in Values, SetEvict(k, v)
    PROVE  IInv'
  <1>1. items \in [Buckets -> Seq(Item)] /\ age' \in Nat /\ hash' = hash /\ hash[k] \in Buckets
    BY DEF SetEvict, Use, IInv, Types
  <1>2. \A i \in 1 .. Len(items[hash[k]]) : items[hash[k]][i].key # k
    BY FindKey DEF SetEvict
  <1>3. CASE LeastUsed = {}
    BY <1>1, <1>2, <1>3, InsertIInv DEF SetEvict, IInv
  <1>4. CASE LeastUsed # {}
    <2>1. PICK p \in LeastUsed : Insert(k, v, [items EXCEPT ![p[1]] = RemoveAt(@, p[2])], p)
      BY <1>4 DEF SetEvict
    <2>2. p[1] \in Buckets /\ p[2] \in DOMAIN items[p[1]]
      BY DEF LeastUsed, Candidates, Places
    <2> DEFINE b == p[1]  s == items[b]  t == RemoveAt(s, p[2])  chains == [items EXCEPT ![b] = t]
    <2>3. s \in Seq(Item) /\ p[2] \in 1 .. Len(s) /\ Good(hash, b, s)
      BY <1>1, <2>2 DEF IInv
    <2>4. /\ t \in Seq(Item) /\ Good(hash, b, t)
          /\ \A j \in 1 .. Len(t) : \E m \in 1 .. Len(s) : t[j] = s[m]
      BY <2>3, Removed, Zenon
    <2>5. Insert(k, v, chains, p)
      BY <2>1
    <2> HIDE DEF t
    <2>6. /\ chains \in [Buckets -> Seq(Item)] /\ chains[b] = t
          /\ \A d \in Buckets \ {b} : chains[d] = items[d]
      BY <1>1, <2>2, <2>4
    <2> HIDE DEF b, s, chains
    <2>7. \A d \in Buckets : Good(hash, d, chains[d])
      BY <2>4, <2>6 DEF IInv
    <2>8. \A i \in 1 .. Len(chains[hash[k]]) : chains[hash[k]][i].key # k
      <3>1. CASE hash[k] = b
        BY <1>2, <2>4, <2>6, <3>1 DEF s
      <3>2. CASE hash[k] # b
        BY <1>1, <1>2, <2>6, <3>2, Zenon
      <3> QED BY <3>1, <3>2
    <2> QED BY <1>1, <2>5, <2>6, <2>7, <2>8, InsertIInv, Zenon
  <1> QED BY <1>3, <1>4

LEMMA NextIInv == IInv /\ [Next]_vars => IInv'
  <1> SUFFICES ASSUME IInv, [Next]_vars PROVE IInv'
    OBVIOUS
  <1>1. CASE UNCHANGED <<hash, items, age>>
    BY <1>1 DEF IInv, Types
  <1>2. CASE Free
    BY <1>2 DEF Free, IInv, Types, Good
  <1>3. ASSUME NEW k \in Keys, SetUndefined(k) \/ Miss(k) \/ MissUndefined(k)
        PROVE  UNCHANGED <<hash, items, age>>
    BY <1>3 DEF SetUndefined, Miss, MissUndefined, Undefined
  <1>4. FreeUndefined \/ Ended \/ UNCHANGED vars => UNCHANGED <<hash, items, age>>
    BY DEF FreeUndefined, Undefined, Ended, vars
  <1> QED BY <1>1, <1>2, <1>3, <1>4, HitIInv, SetRoomIInv, SetEvictIInv, DeleteIInv DEF Next, Set

(* LRUCache: every item is in the chain of its key and no key is stored     *)
(* twice, so that LRUCacheGet and LRUCacheDelete find all there is: also    *)
(* when LRUCacheSet evicts the item that it was about to link to.           *)
THEOREM KeysOnce == Spec => []OneItemPerKey
  <1>1. Init => IInv
    BY InitIInv
  <1>2. IInv /\ [Next]_vars => IInv'
    BY NextIInv
  <1>3. IInv => OneItemPerKey
    BY IInvOneItemPerKey
  <1> QED BY <1>1, <1>2, <1>3, PTL DEF Spec
=============================================================================
