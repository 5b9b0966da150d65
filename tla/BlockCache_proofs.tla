--------------------------- MODULE BlockCache_proofs ---------------------------
(***************************************************************************)
(* Proofs about BlockCache, for every number of buckets, every disk and    *)
(* every access to a block: the structure of the cache survives it, and,   *)
(* as long as the blocks in use fit, a block holds what was last written   *)
(* to it.                                                                  *)
(***************************************************************************)
EXTENDS BlockCache, Bitmap_proofs, SequenceTheorems, FiniteSetTheorems,
        WellFoundedInduction

-----------------------------------------------------------------------------
(* Sequences.                                                              *)

In(s, m) == \E i \in DOMAIN s : s[i] = m
Distinct(s) == \A i, j \in DOMAIN s : s[i] = s[j] => i = j

\* RemoveAt closes the gap.
LEMMA Removed ==
  ASSUME NEW S, NEW s \in Seq(S), NEW i \in DOMAIN s
  PROVE  /\ RemoveAt(s, i) \in Seq(S)
         /\ Len(RemoveAt(s, i)) = Len(s) - 1
         /\ \A j \in 1 .. Len(s) - 1 :
              RemoveAt(s, i)[j] = IF j < i THEN s[j] ELSE s[j + 1]
  <1>1. SubSeq(s, 1, i - 1) \in Seq(S) /\ SubSeq(s, i + 1, Len(s)) \in Seq(S)
    OBVIOUS
  <1> DEFINE a == SubSeq(s, 1, i - 1)
             b == SubSeq(s, i + 1, Len(s))
  <1>2. Len(a) = i - 1 /\ Len(b) = Len(s) - i /\ i \in 1 .. Len(s) /\ Len(s) \in Nat
    OBVIOUS
  <1>3. /\ \A j \in 1 .. i - 1 : a[j] = s[j]
        /\ \A j \in 1 .. Len(s) - i : b[j] = s[i + j]
    OBVIOUS
  <1>4. RemoveAt(s, i) = a \o b /\ a \in Seq(S) /\ b \in Seq(S)
    BY <1>1 DEF RemoveAt
  <1> HIDE DEF a, b
  <1>5. /\ a \o b \in Seq(S) /\ Len(a \o b) = Len(s) - 1
        /\ \A j \in 1 .. Len(s) - 1 : (a \o b)[j] = IF j <= i - 1 THEN a[j] ELSE b[j - (i - 1)]
    <2>1. Len(a) + Len(b) = Len(s) - 1
      BY <1>2
    <2>2. /\ a \o b \in Seq(S)
          /\ Len(a \o b) = Len(a) + Len(b)
          /\ \A j \in 1 .. Len(a) + Len(b) :
               (a \o b)[j] = IF j <= Len(a) THEN a[j] ELSE b[j - Len(a)]
      BY <1>4, ConcatProperties
    <2> QED
      BY <1>2, <2>1, <2>2
  <1>6. \A j \in 1 .. Len(s) - 1 : (a \o b)[j] = IF j < i THEN s[j] ELSE s[j + 1]
    <2>1. SUFFICES ASSUME NEW j \in 1 .. Len(s) - 1
                   PROVE  (a \o b)[j] = IF j < i THEN s[j] ELSE s[j + 1]
      OBVIOUS
    <2>2. CASE j < i
      <3>1. j <= i - 1 /\ j \in 1 .. i - 1
        BY <1>2, <2>2
      <3> QED
        BY <1>3, <1>5, <2>2, <3>1
    <2>3. CASE j >= i
      <3>1. ~(j <= i - 1) /\ j - (i - 1) \in 1 .. Len(s) - i /\ i + (j - (i - 1)) = j + 1
        BY <1>2, <2>3
      <3>2. b[j - (i - 1)] = s[j + 1]
        BY <1>3, <3>1
      <3>3. ~(j < i)
        BY <1>2, <2>3
      <3> QED
        BY <1>5, <3>1, <3>2, <3>3
    <2> QED
      BY <1>2, <2>2, <2>3
  <1> QED
    BY <1>4, <1>5, <1>6

\* Of a sequence without repetitions, exactly one element goes.
LEMMA RemovedIn ==
  ASSUME NEW S, NEW s \in Seq(S), NEW i \in DOMAIN s, Distinct(s)
  PROVE  /\ Distinct(RemoveAt(s, i))
         /\ \A m : In(RemoveAt(s, i), m) <=> In(s, m) /\ m # s[i]
  <1> DEFINE r == RemoveAt(s, i)
  <1>1. /\ r \in Seq(S) /\ Len(r) = Len(s) - 1
        /\ \A j \in 1 .. Len(s) - 1 : r[j] = IF j < i THEN s[j] ELSE s[j + 1]
    BY Removed
  <1>2. DOMAIN r = 1 .. Len(s) - 1 /\ DOMAIN s = 1 .. Len(s) /\ Len(s) \in Nat
    BY <1>1
  <1> HIDE DEF r
  <1>3. \A j \in DOMAIN r :
          \/ j < i /\ j \in DOMAIN s /\ r[j] = s[j]
          \/ j >= i /\ j + 1 \in DOMAIN s /\ r[j] = s[j + 1]
    BY <1>1, <1>2
  <1>4. Distinct(r)
    <2> SUFFICES ASSUME NEW j \in DOMAIN r, NEW k \in DOMAIN r, r[j] = r[k]
                 PROVE  j = k
      BY DEF Distinct
    <2>1. j \in Int /\ k \in Int /\ i \in Int
      BY <1>2
    <2>2. CASE j < i /\ k < i
      BY <1>3, <2>1, <2>2 DEF Distinct
    <2>3. CASE j >= i /\ k >= i
      <3>1. j + 1 = k + 1
        BY <1>3, <2>1, <2>3 DEF Distinct
      <3> QED
        BY <2>1, <3>1
    <2>4. CASE j < i /\ k >= i
      <3>1. j = k + 1
        BY <1>3, <2>1, <2>4 DEF Distinct
      <3> QED
        BY <2>1, <2>4, <3>1
    <2>5. CASE j >= i /\ k < i
      <3>1. j + 1 = k
        BY <1>3, <2>1, <2>5 DEF Distinct
      <3> QED
        BY <2>1, <2>5, <3>1
    <2> QED
      BY <2>1, <2>2, <2>3, <2>4, <2>5
  <1>5. ASSUME NEW m, In(r, m) PROVE In(s, m) /\ m # s[i]
    <2>1. PICK j \in DOMAIN r : r[j] = m
      BY <1>5 DEF In
    <2>2. CASE j < i
      BY <1>2, <1>3, <2>1, <2>2 DEF In, Distinct
    <2>3. CASE j >= i
      <3>1. j + 1 \in DOMAIN s /\ s[j + 1] = m /\ j + 1 # i
        BY <1>2, <1>3, <2>1, <2>3
      <3> QED
        BY <3>1 DEF In, Distinct
    <2> QED
      BY <1>2, <2>1, <2>2, <2>3
  <1>6. ASSUME NEW m, In(s, m), m # s[i] PROVE In(r, m)
    <2>1. PICK j \in DOMAIN s : s[j] = m
      BY <1>6 DEF In
    <2>2. CASE j < i
      BY <1>1, <1>2, <2>1, <2>2 DEF In
    <2>3. CASE j > i
      <3>1. j - 1 \in DOMAIN r /\ r[j - 1] = s[j]
        BY <1>1, <1>2, <2>3
      <3> QED
        BY <2>1, <3>1 DEF In
    <2> QED
      BY <1>2, <1>6, <2>1, <2>2, <2>3
  <1> QED
    BY <1>4, <1>5, <1>6 DEF r

-----------------------------------------------------------------------------
(* Slots.                                                                  *)

\* A set of numbers that is not empty has a least element.
LEMMA Least ==
  ASSUME NEW T \in SUBSET Nat, T # {}
  PROVE  \E x \in T : \A y \in T : x <= y
  <1>1. PICK x \in T : \A y \in T : <<y, x>> \notin OpToRel(<, Nat)
    BY WFMin, NatLessThanWellFounded
  <1>2. \A y \in T : ~(y < x)
    BY <1>1 DEF OpToRel
  <1> QED
    BY <1>2

\* The search finds a clear bit if there is one, and 0 otherwise.
LEMMA FetchFinds ==
  ASSUME NEW B \in Nat \ {0}, NEW h \in Nat, h * ByteBits <= B, NEW taken
  PROVE  \/ Fetch(taken, B, h) \in Clear(taken, B)
         \/ Clear(taken, B) = {} /\ Fetch(taken, B, h) = 0
  <1>1. CASE Clear(taken, B) = {}
    BY <1>1 DEF Fetch
  <1>2. CASE Clear(taken, B) # {}
    <2> DEFINE S(n) == ScanPosition(n, B, h)
               T == {S(n) : n \in Clear(taken, B)}
    <2>1. \A n \in Clear(taken, B) : S(n) \in Nat
      <3> SUFFICES ASSUME NEW n \in Clear(taken, B) PROVE S(n) \in Nat
        OBVIOUS
      <3>1. n + B - h * ByteBits \in Nat
        BY BitmapAssumption DEF Clear
      <3> QED
        BY <3>1, ModRange DEF ScanPosition
    <2>2. \E x \in T : \A y \in T : x <= y
      <3>1. T \in SUBSET Nat /\ T # {}
        BY <1>2, <2>1
      <3> QED
        BY <3>1, Least
    <2>3. \E n \in Clear(taken, B) : \A m \in Clear(taken, B) : S(n) <= S(m)
      BY <2>2
    <2> QED
      BY <1>2, <2>3 DEF Fetch
  <1> QED
    BY <1>1, <1>2

-----------------------------------------------------------------------------
(* What a cache is.                                                        *)

Block(c) == DOMAIN c.disk

IsCache(c) ==
  /\ c \in [buckets : Nat \ {0},
            lru : Seq(CacheNode), chain : [Slot(c) -> Seq(CacheNode)],
            node : [CacheNode ->
                      [disk_addr : Block(c), cache_addr : Slot(c), dirty : BOOLEAN]],
            live : SUBSET CacheNode,
            cachemap : SUBSET (2 .. c.buckets - 1), cache_bit_itr : Nat,
            memory : {c.memory}, disk : {c.disk}, fault : BOOLEAN]
  /\ DOMAIN c.memory = Slot(c)
  /\ Block(c) \subseteq Nat

\* Chains hold nodes of their bucket, one for each block.
ChainShape(c) ==
  /\ \A m : \A h \in DOMAIN c.chain :
       In(c.chain[h], m) => cache_hash(c, c.node[m].disk_addr) = h
  /\ \A h \in DOMAIN c.chain : \A i, j \in DOMAIN c.chain[h] :
       c.node[c.chain[h][i]].disk_addr = c.node[c.chain[h][j]].disk_addr => i = j

\* A bucket for every block.
LEMMA HashRange ==
  ASSUME NEW c, IsCache(c), NEW b \in Block(c)
  PROVE  cache_hash(c, b) \in Slot(c) /\ cache_hash(c, b) = b % c.buckets
  BY ModRange DEF cache_hash, IsCache, Slot, Block

\* The walk of a chain finds the node of the block if there is one.
LEMMA PlaceFinds ==
  ASSUME NEW c, IsCache(c), NEW b \in Block(c)
  PROVE  LET s == c.chain[cache_hash(c, b)]
         IN  /\ s \in Seq(CacheNode)
             /\ \/ /\ Place(c, b) = 0
                   /\ \A m : In(s, m) => c.node[m].disk_addr # b
                \/ /\ Place(c, b) \in DOMAIN s /\ Place(c, b) > 0
                   /\ c.node[s[Place(c, b)]].disk_addr = b
  <1> DEFINE s == c.chain[cache_hash(c, b)]
             I == {i \in 1 .. Len(s) : c.node[s[i]].disk_addr = b}
  <1>1. s \in Seq(CacheNode)
    BY HashRange DEF IsCache, Slot, Block
  <1>2. Place(c, b) = IF I # {} THEN Min(I) ELSE 0
    BY DEF Place, SelectInSeq
  <1> HIDE DEF s
  <1>3. DOMAIN s = 1 .. Len(s) /\ Len(s) \in Nat
    BY <1>1
  <1>4. I \in SUBSET Nat
    BY <1>3
  <1>5. I # {} => Min(I) \in I
    <2> HIDE DEF I
    <2>1. I # {} => \E x \in I : \A y \in I : x <= y
      BY <1>4, Least
    <2> QED
      BY <2>1 DEF Min
  <1>6. CASE I = {}
    <2>1. Place(c, b) = 0
      BY <1>2, <1>6
    <2>2. \A m : In(s, m) => c.node[m].disk_addr # b
      BY <1>3, <1>6 DEF In
    <2> QED
      BY <1>1, <2>1, <2>2 DEF s
  <1>7. CASE I # {}
    <2>1. Place(c, b) \in I
      BY <1>2, <1>5, <1>7
    <2>2. /\ Place(c, b) \in DOMAIN s /\ Place(c, b) > 0
          /\ c.node[s[Place(c, b)]].disk_addr = b
      BY <1>3, <2>1
    <2> QED
      BY <1>1, <2>2 DEF s
  <1> QED
    BY <1>6, <1>7

\* Two caches that differ in their chains only.
SameButChain(r, c) ==
  /\ r.buckets = c.buckets /\ r.lru = c.lru /\ r.node = c.node /\ r.live = c.live
  /\ r.cachemap = c.cachemap /\ r.cache_bit_itr = c.cache_bit_itr
  /\ r.memory = c.memory /\ r.disk = c.disk

\* Writing a chain keeps the type.
LEMMA ChainTyped ==
  ASSUME NEW c, IsCache(c), NEW h \in Slot(c), NEW t \in Seq(CacheNode)
  PROVE  LET r == [c EXCEPT !.chain[h] = t]
         IN  /\ IsCache(r) /\ SameButChain(r, c) /\ r.fault = c.fault
             /\ r.chain[h] = t /\ \A g \in Slot(c) : g # h => r.chain[g] = c.chain[g]
  <1> DEFINE r == [c EXCEPT !.chain[h] = t]
  <1>1. IsCache(r)
    BY DEF IsCache, Slot, Block
  <1>2. SameButChain(r, c) /\ r.fault = c.fault
    BY DEF IsCache, Slot, Block, SameButChain
  <1>3. r.chain = [c.chain EXCEPT ![h] = t]
    BY DEF IsCache, Slot, Block
  <1>4. r.chain[h] = t /\ \A g \in Slot(c) : g # h => r.chain[g] = c.chain[g]
    BY <1>3 DEF IsCache, Slot, Block
  <1> QED
    BY <1>1, <1>2, <1>4

\* The shape of a cache whose chain h is t and whose other chains are those of c.
LEMMA ChainReplaced ==
  ASSUME NEW c, IsCache(c), ChainShape(c),
         NEW r, IsCache(r), r.node = c.node, r.buckets = c.buckets,
         NEW h \in Slot(c),
         \A g \in Slot(c) : g # h => r.chain[g] = c.chain[g],
         \A m : In(r.chain[h], m) => cache_hash(c, c.node[m].disk_addr) = h,
         \A i, j \in DOMAIN r.chain[h] :
           c.node[r.chain[h][i]].disk_addr = c.node[r.chain[h][j]].disk_addr => i = j
  PROVE  ChainShape(r)
  <1>1. DOMAIN c.chain = Slot(c) /\ DOMAIN r.chain = Slot(c)
    BY DEF IsCache, Slot, Block
  <1>2. \A b : cache_hash(r, b) = cache_hash(c, b)
    BY DEF cache_hash
  <1>3. ASSUME NEW m, NEW g \in Slot(c), In(r.chain[g], m)
        PROVE  cache_hash(r, r.node[m].disk_addr) = g
    <2>1. CASE g = h
      BY <1>2, <1>3, <2>1
    <2>2. CASE g # h
      BY <1>1, <1>2, <1>3, <2>2 DEF ChainShape
    <2> QED
      BY <2>1, <2>2
  <1>4. ASSUME NEW g \in Slot(c), NEW i \in DOMAIN r.chain[g], NEW j \in DOMAIN r.chain[g],
               r.node[r.chain[g][i]].disk_addr = r.node[r.chain[g][j]].disk_addr
        PROVE  i = j
    <2>1. CASE g = h
      BY <1>4, <2>1
    <2>2. CASE g # h
      BY <1>1, <1>4, <2>2 DEF ChainShape
    <2> QED
      BY <2>1, <2>2
  <1> QED
    BY <1>1, <1>3, <1>4 DEF ChainShape

\* Taking a block out of its chain takes nothing else but what is lost with it.
LEMMA ChainDrops ==
  ASSUME NEW c, IsCache(c), ChainShape(c), NEW b \in Block(c)
  PROVE  LET r == remove_block_from_cache_hash_table(c, b)
         IN  /\ IsCache(r)
             /\ SameButChain(r, c)
             /\ ChainShape(r)
             /\ \A m : \A h \in Slot(c) : In(r.chain[h], m) => In(c.chain[h], m)
             /\ \A h \in Slot(c) : h # cache_hash(c, b) => r.chain[h] = c.chain[h]
             /\ \A m : In(r.chain[cache_hash(c, b)], m) => c.node[m].disk_addr # b
             /\ check_disk_block_in_cache(c, b) => r.fault = c.fault
  <1> DEFINE r == remove_block_from_cache_hash_table(c, b)
             h == cache_hash(c, b)
             s == c.chain[h]
             i == Place(c, b)
  <1>1. h \in Slot(c)
    BY HashRange
  <1>2. /\ s \in Seq(CacheNode)
        /\ \/ i = 0 /\ \A m : In(s, m) => c.node[m].disk_addr # b
           \/ i \in DOMAIN s /\ i > 0 /\ c.node[s[i]].disk_addr = b
    BY PlaceFinds, Zenon
  <1>3. r = IF i > 1 THEN [c EXCEPT !.chain[h] = RemoveAt(s, i)]
            ELSE IF i = 1 THEN [c EXCEPT !.chain[h] = <<>>]
            ELSE [c EXCEPT !.fault = @ \/ s # <<>>]
    BY <1>1 DEF remove_block_from_cache_hash_table, IsCache, Slot, Block
  <1>4. /\ \A m : In(s, m) => cache_hash(c, c.node[m].disk_addr) = h
        /\ \A j, k \in DOMAIN s : c.node[s[j]].disk_addr = c.node[s[k]].disk_addr => j = k
    BY <1>1 DEF ChainShape, IsCache, Slot, Block
  <1>5. check_disk_block_in_cache(c, b) <=> i # 0
    BY DEF check_disk_block_in_cache
  <1> HIDE DEF r, s, i, h
  <1>6. CASE i = 0
    <2>1. r = [c EXCEPT !.fault = @ \/ s # <<>>]
      BY <1>3, <1>6
    <2>2. IsCache(r) /\ SameButChain(r, c) /\ r.chain = c.chain
      BY <2>1 DEF IsCache, Slot, Block, SameButChain
    <2>3. ChainShape(r)
      BY <2>2 DEF ChainShape, cache_hash, SameButChain
    <2>4. \A m : In(s, m) => c.node[m].disk_addr # b
      BY <1>2, <1>6
    <2> QED
      BY <1>5, <1>6, <2>2, <2>3, <2>4 DEF r, h, s
  <1>7. CASE i # 0
    <2> DEFINE t == IF i > 1 THEN RemoveAt(s, i) ELSE <<>>
    <2>1. i \in DOMAIN s /\ c.node[s[i]].disk_addr = b /\ s \in Seq(CacheNode) /\ i > 0 /\ i \in Nat
      BY <1>2, <1>7
    <2>2. r = [c EXCEPT !.chain[h] = t]
      <3>1. CASE i > 1
        <4>1. t = RemoveAt(s, i)
          BY <3>1
        <4>2. r = [c EXCEPT !.chain[h] = RemoveAt(s, i)]
          BY <1>3, <3>1
        <4> QED
          BY <4>1, <4>2
      <3>2. CASE i = 1
        <4>1. t = <<>>
          BY <3>2
        <4>2. r = [c EXCEPT !.chain[h] = <<>>]
          BY <1>3, <3>2
        <4> QED
          BY <4>1, <4>2
      <3> QED
        BY <2>1, <3>1, <3>2
    <2>3. Distinct(s)
      BY <1>4 DEF Distinct
    <2>4. t \in Seq(CacheNode) /\ Distinct(t) /\ \A m : In(t, m) => In(s, m) /\ m # s[i]
      <3>1. CASE i > 1
        BY <2>1, <2>3, <3>1, Removed, RemovedIn
      <3>2. CASE ~(i > 1)
        BY <3>2 DEF In, Distinct
      <3> QED
        BY <3>1, <3>2
    <2> HIDE DEF t
    <2>5. /\ IsCache(r) /\ SameButChain(r, c) /\ r.fault = c.fault
          /\ r.chain[h] = t /\ \A g \in Slot(c) : g # h => r.chain[g] = c.chain[g]
      <3>1. LET q == [c EXCEPT !.chain[h] = t]
            IN  /\ IsCache(q) /\ SameButChain(q, c) /\ q.fault = c.fault
                /\ q.chain[h] = t /\ \A g \in Slot(c) : g # h => q.chain[g] = c.chain[g]
        BY <1>1, <2>4, ChainTyped, Zenon
      <3> QED
        BY <2>2, <3>1, Zenon
    <2>6. \A m : \A g \in Slot(c) : In(r.chain[g], m) => In(c.chain[g], m)
      BY <2>4, <2>5 DEF s
    <2>7. \A m : In(t, m) => c.node[m].disk_addr # b
      BY <1>4, <2>1, <2>4 DEF In
    <2>8. \A j, k \in DOMAIN t : c.node[t[j]].disk_addr = c.node[t[k]].disk_addr => j = k
      <3> SUFFICES ASSUME NEW j \in DOMAIN t, NEW k \in DOMAIN t,
                          c.node[t[j]].disk_addr = c.node[t[k]].disk_addr
                   PROVE  j = k
        OBVIOUS
      <3>1. In(s, t[j]) /\ In(s, t[k])
        BY <2>4 DEF In
      <3>2. t[j] = t[k]
        BY <1>4, <3>1 DEF In
      <3> QED
        BY <2>4, <3>2 DEF Distinct
    <2>9. \A m : In(t, m) => cache_hash(c, c.node[m].disk_addr) = h
      BY <1>4, <2>4
    <2>10. ChainShape(r)
      <3>1. r.node = c.node /\ r.buckets = c.buckets
        BY <2>5 DEF SameButChain
      <3> QED
        BY <1>1, <2>5, <2>8, <2>9, <3>1, ChainReplaced
    <2> QED
      BY <2>5, <2>6, <2>7, <2>10 DEF r, h
  <1> QED
    BY <1>6, <1>7

\* A node joins the chain of its block, which had none.
LEMMA ChainAdds ==
  ASSUME NEW c, IsCache(c), ChainShape(c), NEW m \in CacheNode,
         \A x : In(c.chain[cache_hash(c, c.node[m].disk_addr)], x)
                  => c.node[x].disk_addr # c.node[m].disk_addr
  PROVE  LET r == AddToChain(c, m)
         IN  /\ IsCache(r) /\ SameButChain(r, c) /\ r.fault = c.fault
             /\ ChainShape(r)
             /\ \A x : \A h \in Slot(c) : In(r.chain[h], x) <=>
                  \/ In(c.chain[h], x)
                  \/ h = cache_hash(c, c.node[m].disk_addr) /\ x = m
  <1> DEFINE r == AddToChain(c, m)
             h == cache_hash(c, c.node[m].disk_addr)
             s == c.chain[h]
             t == Append(s, m)
  <1>1. c.node[m].disk_addr \in Block(c)
    BY DEF IsCache
  <1>2. h \in Slot(c)
    BY <1>1, HashRange
  <1>3. s \in Seq(CacheNode)
    BY <1>2 DEF IsCache
  <1>4. r = [c EXCEPT !.chain[h] = t]
    BY DEF AddToChain
  <1>5. \A x : In(s, x) => c.node[x].disk_addr # c.node[m].disk_addr
    OBVIOUS
  <1>6. /\ \A x : In(s, x) => cache_hash(c, c.node[x].disk_addr) = h
        /\ \A j, k \in DOMAIN s : c.node[s[j]].disk_addr = c.node[s[k]].disk_addr => j = k
    BY <1>2 DEF ChainShape, IsCache
  <1>7. cache_hash(c, c.node[m].disk_addr) = h
    OBVIOUS
  <1> HIDE DEF r, h, s
  <1>8. /\ t \in Seq(CacheNode) /\ Len(t) = Len(s) + 1 /\ Len(s) \in Nat
        /\ \A j \in 1 .. Len(s) : t[j] = s[j]
        /\ t[Len(s) + 1] = m
        /\ DOMAIN t = 1 .. Len(s) + 1 /\ DOMAIN s = 1 .. Len(s)
    BY <1>3
  <1> HIDE DEF t
  <1>9. \A x : In(t, x) <=> In(s, x) \/ x = m
    <2>1. \A x : In(t, x) => In(s, x) \/ x = m
      BY <1>8 DEF In
    <2>2. \A x : In(s, x) => In(t, x)
      BY <1>8 DEF In
    <2>3. In(t, m)
      <3>1. Len(s) + 1 \in DOMAIN t
        BY <1>8
      <3> QED
        BY <1>8, <3>1 DEF In
    <2> QED
      BY <2>1, <2>2, <2>3
  <1>10. /\ IsCache(r) /\ SameButChain(r, c) /\ r.fault = c.fault
         /\ r.chain[h] = t /\ \A g \in Slot(c) : g # h => r.chain[g] = c.chain[g]
    BY <1>2, <1>4, <1>8, ChainTyped
  <1>11. \A j, k \in DOMAIN t : c.node[t[j]].disk_addr = c.node[t[k]].disk_addr => j = k
    <2>1. \A j \in DOMAIN s : c.node[s[j]].disk_addr # c.node[m].disk_addr
      BY <1>5 DEF In
    <2>2. \A j \in DOMAIN t : (j \in DOMAIN s /\ t[j] = s[j]) \/ (j = Len(s) + 1 /\ t[j] = m)
      BY <1>8
    <2> QED
      BY <1>6, <2>1, <2>2
  <1>12. \A x : In(t, x) => cache_hash(c, c.node[x].disk_addr) = h
    BY <1>6, <1>7, <1>9
  <1>13. ChainShape(r)
    <2>1. r.node = c.node /\ r.buckets = c.buckets
      BY <1>10 DEF SameButChain
    <2> QED
      BY <1>2, <1>10, <1>11, <1>12, <2>1, ChainReplaced
  <1>14. \A x : \A g \in Slot(c) : In(r.chain[g], x) <=> In(c.chain[g], x) \/ (g = h /\ x = m)
    BY <1>9, <1>10 DEF s
  <1> QED
    BY <1>10, <1>13, <1>14 DEF r, h

-----------------------------------------------------------------------------
(* The LRU list.                                                           *)

\* Two caches that differ in the list and what is allocated only.
SameButList(r, c) ==
  /\ r.buckets = c.buckets /\ r.chain = c.chain /\ r.node = c.node
  /\ r.cachemap = c.cachemap /\ r.cache_bit_itr = c.cache_bit_itr
  /\ r.memory = c.memory /\ r.disk = c.disk /\ r.fault = c.fault

\* Unlink takes one node, and frees it.
LEMMA ListDrops ==
  ASSUME NEW c, IsCache(c), Distinct(c.lru), NEW m, In(c.lru, m)
  PROVE  LET r == Unlink(c, m)
         IN  /\ IsCache(r) /\ SameButList(r, c) /\ r.live = c.live \ {m}
             /\ Distinct(r.lru) /\ Len(r.lru) = Len(c.lru) - 1
             /\ \A x : In(r.lru, x) <=> In(c.lru, x) /\ x # m
  <1> DEFINE r == Unlink(c, m)
             s == c.lru
             i == CHOOSE j \in DOMAIN s : s[j] = m
             t == RemoveAt(s, i)
  <1>1. s \in Seq(CacheNode)
    BY DEF IsCache
  <1>2. i \in DOMAIN s /\ s[i] = m
    BY DEF In
  <1>3. r = [c EXCEPT !.lru = t, !.live = @ \ {m}]
    BY DEF Unlink
  <1>4. Distinct(s)
    OBVIOUS
  <1> HIDE DEF i
  <1>5. t \in Seq(CacheNode) /\ Len(t) = Len(s) - 1
    BY <1>1, <1>2, Removed
  <1>6. Distinct(t) /\ \A x : In(t, x) <=> In(s, x) /\ x # m
    BY <1>1, <1>2, <1>4, RemovedIn
  <1> HIDE DEF t, r
  <1>7. IsCache(r) /\ SameButList(r, c) /\ r.lru = t /\ r.live = c.live \ {m}
    BY <1>3, <1>5 DEF IsCache, SameButList, Slot, Block
  <1> QED
    BY <1>5, <1>6, <1>7 DEF r

\* A node joins the list at its top.
LEMMA ListAdds ==
  ASSUME NEW c, IsCache(c), Distinct(c.lru), NEW m \in CacheNode, ~In(c.lru, m)
  PROVE  LET r == add_at_top_of_cache(c, m)
         IN  /\ IsCache(r) /\ SameButList(r, c) /\ r.live = c.live
             /\ Distinct(r.lru) /\ Len(r.lru) = Len(c.lru) + 1
             /\ \A x : In(r.lru, x) <=> In(c.lru, x) \/ x = m
  <1> DEFINE r == add_at_top_of_cache(c, m)
             s == c.lru
             t == <<m>> \o s
  <1>1. s \in Seq(CacheNode) /\ <<m>> \in Seq(CacheNode) /\ Len(<<m>>) = 1 /\ <<m>>[1] = m
    BY DEF IsCache
  <1>2. r = [c EXCEPT !.lru = t]
    BY DEF add_at_top_of_cache
  <1>3. Distinct(s) /\ ~In(s, m)
    OBVIOUS
  <1>4. /\ t \in Seq(CacheNode) /\ Len(t) = 1 + Len(s)
        /\ \A j \in 1 .. 1 + Len(s) : t[j] = IF j <= 1 THEN <<m>>[j] ELSE s[j - 1]
    BY <1>1, ConcatProperties
  <1>5. /\ Len(s) \in Nat /\ DOMAIN s = 1 .. Len(s) /\ DOMAIN t = 1 .. Len(s) + 1
    BY <1>1, <1>4
  <1> HIDE DEF r, s, t
  <1>6. t[1] = m /\ \A j \in DOMAIN s : j + 1 \in DOMAIN t /\ t[j + 1] = s[j]
    BY <1>1, <1>4, <1>5
  <1>7. \A j \in DOMAIN t : j = 1 \/ (j - 1 \in DOMAIN s /\ t[j] = s[j - 1])
    BY <1>4, <1>5
  <1>8. \A x : In(t, x) <=> In(s, x) \/ x = m
    <2>1. \A x : In(t, x) => In(s, x) \/ x = m
      BY <1>6, <1>7 DEF In
    <2>2. \A x : In(s, x) => In(t, x)
      BY <1>6 DEF In
    <2>3. In(t, m)
      BY <1>5, <1>6, 1 \in DOMAIN t DEF In
    <2> QED
      BY <2>1, <2>2, <2>3
  <1>9. Distinct(t)
    <2> SUFFICES ASSUME NEW j \in DOMAIN t, NEW k \in DOMAIN t, t[j] = t[k]
                 PROVE  j = k
      BY DEF Distinct
    <2>1. \A l \in DOMAIN s : s[l] # m
      BY <1>3 DEF In
    <2>2. j = 1 <=> k = 1
      BY <1>6, <1>7, <2>1
    <2>3. CASE j # 1 /\ k # 1
      <3>1. j - 1 = k - 1
        BY <1>3, <1>7, <2>3 DEF Distinct
      <3> QED
        BY <1>5, <3>1
    <2> QED
      BY <2>2, <2>3
  <1>10. IsCache(r) /\ SameButList(r, c) /\ r.lru = t /\ r.live = c.live
    BY <1>2, <1>4 DEF IsCache, SameButList, Slot, Block
  <1> QED
    BY <1>4, <1>5, <1>8, <1>9, <1>10 DEF r, s

-----------------------------------------------------------------------------
(* What holds between the steps of an access: nodes P are allocated but on *)
(* no list yet, slots S are taken but used by no node yet.                 *)

HintInMap(c) == c.cache_bit_itr * ByteBits <= c.buckets

ChainsListed(c) == \A x : \A h \in Slot(c) : In(c.chain[h], x) => In(c.lru, x)

Listed(c, P) ==
  /\ Distinct(c.lru)
  /\ \A x : x \in c.live <=> In(c.lru, x) \/ x \in P
  /\ \A x \in P : ~In(c.lru, x)

Uses(c, x, s) == In(c.lru, x) /\ c.node[x].cache_addr = s
Held(c, S) ==
  /\ \A s \in Slot(c) : s \in c.cachemap <=> s # 0 /\ (s \in S \/ \E x : Uses(c, x, s))
  /\ \A x, y, s : Uses(c, x, s) /\ Uses(c, y, s) => x = y \/ s = 0
  /\ \A x, s : Uses(c, x, s) => s \notin S

Partial(c, P, S) ==
  /\ IsCache(c) /\ c.buckets >= 2 /\ HintInMap(c)
  /\ ChainShape(c) /\ ChainsListed(c) /\ Listed(c, P) /\ Held(c, S)
  /\ Len(c.lru) <= c.buckets - 1

\* A sound cache, in the words of the model.
Sound(c) ==
  /\ IsCache(c) /\ c.buckets >= 2 /\ HintInMap(c)
  /\ ChainsSound(c) /\ ListSound(c) /\ SlotsSound(c)

\* Between accesses nothing is pending.
LEMMA SoundIsPartial ==
  ASSUME NEW c
  PROVE  Sound(c) <=> Partial(c, {}, {})
  <1>1. SUFFICES ASSUME IsCache(c)
                 PROVE  /\ ChainsSound(c) <=> (ChainShape(c) /\ ChainsListed(c))
                        /\ ListSound(c) <=> (Listed(c, {}) /\ Len(c.lru) <= c.buckets - 1)
                        /\ Distinct(c.lru) => (SlotsSound(c) <=> Held(c, {}))
    BY DEF Sound, Partial, Listed
  <1>2. DOMAIN c.chain = Slot(c)
    BY <1>1 DEF IsCache
  <1>3. ChainsSound(c) <=> (ChainShape(c) /\ ChainsListed(c))
    <2>1. ASSUME ChainsSound(c) PROVE ChainShape(c) /\ ChainsListed(c)
      BY <1>2, <2>1 DEF ChainsSound, ChainShape, ChainsListed, In
    <2>2. ASSUME ChainShape(c), ChainsListed(c) PROVE ChainsSound(c)
      <3> SUFFICES ASSUME NEW h \in DOMAIN c.chain, NEW i \in DOMAIN c.chain[h]
                   PROVE  LET m == c.chain[h][i]
                          IN  /\ In(c.lru, m)
                              /\ cache_hash(c, c.node[m].disk_addr) = h
                              /\ \A j \in DOMAIN c.chain[h] :
                                   c.node[c.chain[h][j]].disk_addr = c.node[m].disk_addr => i = j
        BY DEF ChainsSound, In
      <3>1. In(c.chain[h], c.chain[h][i])
        BY DEF In
      <3> QED
        BY <1>2, <2>2, <3>1 DEF ChainShape, ChainsListed
    <2> QED
      BY <2>1, <2>2
  <1>4. ListSound(c) <=> (Listed(c, {}) /\ Len(c.lru) <= c.buckets - 1)
    <2>1. c.live = {c.lru[i] : i \in DOMAIN c.lru} <=> \A x : x \in c.live <=> In(c.lru, x)
      BY DEF In
    <2> QED
      BY <2>1 DEF ListSound, Listed, Distinct
  <1>5. ASSUME Distinct(c.lru) PROVE SlotsSound(c) <=> Held(c, {})
    <2> DEFINE used == {c.node[c.lru[i]].cache_addr : i \in DOMAIN c.lru}
    <2>1. \A s : s \in used <=> \E x : Uses(c, x, s)
      BY DEF Uses, In
    <2>2. used \subseteq Slot(c) /\ c.cachemap \subseteq Slot(c)
      <3>1. \A i \in DOMAIN c.lru : c.lru[i] \in CacheNode
        BY <1>1 DEF IsCache
      <3>2. \A x \in CacheNode : c.node[x].cache_addr \in Slot(c)
        BY <1>1 DEF IsCache
      <3>3. c.cachemap \subseteq Slot(c)
        BY <1>1 DEF IsCache, Slot
      <3> QED
        BY <3>1, <3>2, <3>3
    <2>3. SlotsSound(c) <=>
            /\ c.cachemap = used \ {0}
            /\ \A i, j \in DOMAIN c.lru :
                 c.node[c.lru[i]].cache_addr = c.node[c.lru[j]].cache_addr
                   => i = j \/ c.node[c.lru[i]].cache_addr = 0
      BY DEF SlotsSound
    <2> HIDE DEF used
    <2>4. c.cachemap = used \ {0}
            <=> \A s \in Slot(c) : s \in c.cachemap <=> (s # 0 /\ \E x : Uses(c, x, s))
      BY <2>1, <2>2
    <2>5. (\A i, j \in DOMAIN c.lru :
             c.node[c.lru[i]].cache_addr = c.node[c.lru[j]].cache_addr
               => i = j \/ c.node[c.lru[i]].cache_addr = 0)
            <=> \A x, y, s : Uses(c, x, s) /\ Uses(c, y, s) => x = y \/ s = 0
      BY <1>5 DEF Uses, In, Distinct
    <2> QED
      BY <2>3, <2>4, <2>5 DEF Held
  <1> QED
    BY <1>3, <1>4, <1>5

\* calloc has a node left: the list is shorter than there are nodes.
LEMMA NodeAvailable ==
  ASSUME NEW c, NEW S, Partial(c, {}, S),
         IsFiniteSet(CacheNode), Cardinality(CacheNode) >= c.buckets
  PROVE  NewNode(c) \in CacheNode /\ NewNode(c) \notin c.live
  <1>1. c.lru \in Seq(CacheNode) /\ Len(c.lru) \in Nat /\ DOMAIN c.lru = 1 .. Len(c.lru)
    BY DEF Partial, IsCache
  <1>2. c.lru \in Surjection(1 .. Len(c.lru), c.live)
    <2>1. \A x : x \in c.live <=> In(c.lru, x)
      BY DEF Partial, Listed
    <2>2. c.lru \in [1 .. Len(c.lru) -> c.live]
      BY <1>1, <2>1 DEF In
    <2> QED
      BY <1>1, <2>1, <2>2 DEF Surjection, In
  <1>3. IsFiniteSet(1 .. Len(c.lru)) /\ Cardinality(1 .. Len(c.lru)) = Len(c.lru)
    BY <1>1, FS_Interval
  <1>4. IsFiniteSet(c.live) /\ Cardinality(c.live) <= Len(c.lru)
    BY <1>2, <1>3, FS_Surjection
  <1>5. Cardinality(c.live) \in Nat /\ Cardinality(CacheNode) \in Nat
    BY <1>4, FS_CardinalityType
  <1>6. Len(c.lru) <= c.buckets - 1 /\ c.buckets \in Nat /\ c.live \subseteq CacheNode
    BY DEF Partial, IsCache
  <1>7. c.live # CacheNode
    BY <1>1, <1>4, <1>5, <1>6
  <1>8. CacheNode \ c.live # {}
    BY <1>6, <1>7
  <1> QED
    BY <1>8 DEF NewNode

-----------------------------------------------------------------------------
(* Changes to nodes and slots.                                             *)

\* Two caches that differ in what nodes hold and are allocated only.
SameButNode(r, c) ==
  /\ r.buckets = c.buckets /\ r.lru = c.lru /\ r.chain = c.chain
  /\ r.cachemap = c.cachemap /\ r.cache_bit_itr = c.cache_bit_itr
  /\ r.memory = c.memory /\ r.disk = c.disk /\ r.fault = c.fault

\* What r has more than c: node m, for block b in slot s.
Filled(r, c, m, b, s) ==
  /\ IsCache(r) /\ SameButNode(r, c) /\ r.live = c.live \cup {m}
  /\ r.node[m].disk_addr = b /\ r.node[m].cache_addr = s
  /\ \A x \in CacheNode : x # m => r.node[x] = c.node[x]

\* A node that is allocated for block b and slot s; nothing points to it yet.
LEMMA NodeFilled ==
  ASSUME NEW c, IsCache(c), NEW m \in CacheNode, NEW b \in Block(c), NEW s \in Slot(c),
         NEW dirty \in BOOLEAN
  PROVE  Filled(Allocate(c, m, b, s, dirty), c, m, b, s)
  <1> DEFINE v == [disk_addr |-> b, cache_addr |-> s, dirty |-> dirty]
             r == Allocate(c, m, b, s, dirty)
  <1>1. v \in [disk_addr : Block(c), cache_addr : Slot(c), dirty : BOOLEAN]
    OBVIOUS
  <1>2. r = [c EXCEPT !.node[m] = v, !.live = @ \cup {m}]
    BY DEF Allocate
  <1> HIDE DEF v, r
  <1>3. IsCache(r)
    BY <1>1, <1>2 DEF IsCache, Slot, Block
  <1>4. /\ SameButNode(r, c) /\ r.live = c.live \cup {m}
        /\ r.node[m] = v /\ \A x \in CacheNode : x # m => r.node[x] = c.node[x]
    BY <1>2 DEF IsCache, SameButNode
  <1> QED
    BY <1>3, <1>4 DEF v, r, Filled

\* A free node stays out of the chains and the list.
LEMMA NodeAllocated ==
  ASSUME NEW c, NEW S, Partial(c, {}, S), NEW m \in CacheNode, m \notin c.live,
         NEW b \in Block(c), NEW s \in Slot(c), NEW dirty \in BOOLEAN
  PROVE  Partial(Allocate(c, m, b, s, dirty), {m}, S)
  <1> DEFINE r == Allocate(c, m, b, s, dirty)
  <1>1. IsCache(c) /\ ChainShape(c) /\ ChainsListed(c) /\ Listed(c, {}) /\ Held(c, S)
    BY DEF Partial
  <1>2. /\ IsCache(r)
        /\ r.buckets = c.buckets /\ r.lru = c.lru /\ r.chain = c.chain
        /\ r.cachemap = c.cachemap /\ r.cache_bit_itr = c.cache_bit_itr
        /\ r.live = c.live \cup {m}
        /\ \A x \in CacheNode : x # m => r.node[x] = c.node[x]
    <2>1. Filled(r, c, m, b, s)
      BY <1>1, NodeFilled
    <2> HIDE DEF r
    <2> QED
      BY <2>1 DEF SameButNode, Filled
  <1> HIDE DEF r
  <1>3. \A x : In(c.lru, x) => x \in CacheNode /\ x # m /\ r.node[x] = c.node[x]
    <2>1. \A x : In(c.lru, x) => x \in c.live
      BY <1>1 DEF Listed
    <2>2. c.live \subseteq CacheNode
      BY <1>1 DEF IsCache
    <2> QED
      BY <1>2, <2>1, <2>2
  <1>4. /\ DOMAIN c.chain = Slot(c) /\ Slot(r) = Slot(c)
        /\ \A b2 : cache_hash(r, b2) = cache_hash(c, b2)
    BY <1>1, <1>2 DEF IsCache, Slot, cache_hash
  <1>5. \A h \in Slot(c) : \A x : In(c.chain[h], x) => r.node[x] = c.node[x]
    BY <1>1, <1>3 DEF ChainsListed
  <1>6. ChainShape(r)
    <2>1. \A x : \A h \in Slot(c) : In(c.chain[h], x) => cache_hash(c, r.node[x].disk_addr) = h
      BY <1>1, <1>4, <1>5 DEF ChainShape
    <2>2. \A h \in Slot(c) : \A i, j \in DOMAIN c.chain[h] :
            r.node[c.chain[h][i]].disk_addr = r.node[c.chain[h][j]].disk_addr => i = j
      <3> SUFFICES ASSUME NEW h \in Slot(c), NEW i \in DOMAIN c.chain[h], NEW j \in DOMAIN c.chain[h],
                          r.node[c.chain[h][i]].disk_addr = r.node[c.chain[h][j]].disk_addr
                   PROVE  i = j
        OBVIOUS
      <3>1. In(c.chain[h], c.chain[h][i]) /\ In(c.chain[h], c.chain[h][j])
        BY DEF In
      <3>2. c.node[c.chain[h][i]].disk_addr = c.node[c.chain[h][j]].disk_addr
        BY <1>5, <3>1
      <3> QED
        BY <1>1, <1>4, <3>2 DEF ChainShape
    <2> QED
      BY <1>2, <1>4, <2>1, <2>2 DEF ChainShape
  <1>7. ChainsListed(r)
    BY <1>1, <1>2, <1>4 DEF ChainsListed
  <1>8. Listed(r, {m})
    BY <1>1, <1>2, <1>3 DEF Listed
  <1>9. Held(r, S)
    <2>1. \A x, t : Uses(r, x, t) <=> Uses(c, x, t)
      BY <1>2, <1>3 DEF Uses
    <2> QED
      BY <1>1, <1>2, <1>4, <2>1 DEF Held
  <1>10. r.buckets >= 2 /\ HintInMap(r) /\ Len(r.lru) <= r.buckets - 1
    BY <1>2 DEF Partial, HintInMap
  <1> QED
    BY <1>2, <1>6, <1>7, <1>8, <1>9, <1>10 DEF Partial, r

-----------------------------------------------------------------------------
(* A hit.                                                                  *)

\* What a hit does: the node of block b is replaced by a new one for the same slot.
Replaces(r, c, b, old, new) ==
  /\ r.buckets = c.buckets /\ r.cachemap = c.cachemap /\ r.cache_bit_itr = c.cache_bit_itr
  /\ r.memory = c.memory /\ r.disk = c.disk /\ r.fault = c.fault
  /\ old # new /\ Uses(c, old, c.node[old].cache_addr) /\ c.node[old].disk_addr = b
  /\ r.node[new].disk_addr = b /\ r.node[new].cache_addr = c.node[old].cache_addr
  /\ \A x : In(c.lru, x) => r.node[x] = c.node[x]
  /\ \A x : In(r.lru, x) <=> (In(c.lru, x) /\ x # old) \/ x = new
  /\ ~In(c.lru, new)
  /\ Len(r.lru) = Len(c.lru)
  /\ \A h \in Slot(c) : h # cache_hash(c, b) => \A x : In(r.chain[h], x) <=> In(c.chain[h], x)
  /\ In(r.chain[cache_hash(c, b)], new)

\* The two walks and the two structures agree in spite of the node that was freed
\* between them.
LEMMA RetrieveSound ==
  ASSUME NEW c, Partial(c, {}, {}), NEW b \in Block(c), check_disk_block_in_cache(c, b),
         IsFiniteSet(CacheNode), Cardinality(CacheNode) >= c.buckets
  PROVE  /\ Partial(retrieve_block_from_cache(c, b), {}, {})
         /\ Replaces(retrieve_block_from_cache(c, b), c, b, CachedNode(c, b), NewNode(c))
  <1> DEFINE old == CachedNode(c, b)
             new == NewNode(c)
             h == cache_hash(c, b)
             c1 == Allocate(c, new, b, c.node[old].cache_addr, FALSE)
             u == Unlink(c1, old)
             c2 == add_at_top_of_cache(u, new)
             c3 == remove_block_from_cache_hash_table(c2, b)
             r == AddToChain(c3, new)
  <1>1. retrieve_block_from_cache(c, b) = r
    BY DEF retrieve_block_from_cache
  <1>2. /\ IsCache(c) /\ c.buckets >= 2 /\ HintInMap(c) /\ ChainShape(c) /\ ChainsListed(c)
        /\ Listed(c, {}) /\ Held(c, {}) /\ Len(c.lru) <= c.buckets - 1
    BY DEF Partial
  <1>3. new \in CacheNode /\ new \notin c.live
    BY NodeAvailable
  <1>4. /\ h \in Slot(c) /\ In(c.chain[h], old) /\ c.node[old].disk_addr = b
    <2>1. h \in Slot(c)
      BY <1>2, HashRange
    <2>2. Place(c, b) # 0
      BY DEF check_disk_block_in_cache
    <2>3. /\ Place(c, b) \in DOMAIN c.chain[cache_hash(c, b)]
          /\ c.node[c.chain[cache_hash(c, b)][Place(c, b)]].disk_addr = b
      BY <1>2, <2>2, PlaceFinds
    <2> QED
      BY <2>1, <2>3 DEF CachedNode, In
  <1>5. In(c.lru, old) /\ old \in c.live /\ old \in CacheNode /\ old # new
    <2>1. In(c.lru, old)
      BY <1>2, <1>4 DEF ChainsListed
    <2>2. old \in c.live /\ c.live \subseteq CacheNode
      BY <1>2, <2>1 DEF Listed, IsCache
    <2> QED
      BY <1>3, <2>1, <2>2
  <1>6. c.node[old].cache_addr \in Slot(c)
    BY <1>2, <1>5 DEF IsCache
  <1> HIDE DEF old, new, h
  <1>7. /\ IsCache(c1) /\ SameButNode(c1, c) /\ c1.live = c.live \cup {new}
        /\ c1.node[new].disk_addr = b /\ c1.node[new].cache_addr = c.node[old].cache_addr
        /\ \A x \in CacheNode : x # new => c1.node[x] = c.node[x]
    <2>1. Filled(c1, c, new, b, c.node[old].cache_addr)
      BY <1>2, <1>3, <1>6, NodeFilled
    <2> HIDE DEF c1
    <2> QED
      BY <2>1 DEF Filled
  <1>8. Partial(c1, {new}, {})
    BY <1>3, <1>6, NodeAllocated
  <1> HIDE DEF c1
  <1>9. /\ ChainShape(c1) /\ ChainsListed(c1) /\ Listed(c1, {new}) /\ Held(c1, {})
        /\ c1.chain = c.chain /\ c1.lru = c.lru /\ c1.buckets = c.buckets
        /\ \A g : cache_hash(c1, g) = cache_hash(c, g)
    BY <1>7, <1>8 DEF Partial, SameButNode, cache_hash
  <1>10. /\ IsCache(u) /\ SameButList(u, c1) /\ u.live = c1.live \ {old}
         /\ Distinct(u.lru) /\ Len(u.lru) = Len(c1.lru) - 1
         /\ \A x : In(u.lru, x) <=> In(c1.lru, x) /\ x # old
    <2>1. Distinct(c1.lru) /\ In(c1.lru, old)
      BY <1>5, <1>9 DEF Listed
    <2> QED
      BY <1>7, <2>1, ListDrops
  <1> HIDE DEF u
  <1>11. ~In(u.lru, new) /\ ~In(c.lru, new)
    BY <1>9, <1>10 DEF Listed
  <1>12. /\ IsCache(c2) /\ SameButList(c2, u) /\ c2.live = u.live
         /\ Distinct(c2.lru) /\ Len(c2.lru) = Len(u.lru) + 1
         /\ \A x : In(c2.lru, x) <=> In(u.lru, x) \/ x = new
    BY <1>3, <1>10, <1>11, ListAdds
  <1> HIDE DEF c2
  \* The chains are still those of c1, with the freed node.
  <1>13. /\ c2.chain = c.chain /\ c2.node = c1.node /\ c2.buckets = c.buckets
         /\ c2.cachemap = c.cachemap /\ c2.cache_bit_itr = c.cache_bit_itr
         /\ c2.memory = c.memory /\ c2.disk = c.disk /\ c2.fault = c.fault
         /\ \A g : cache_hash(c2, g) = cache_hash(c, g)
         /\ Slot(c2) = Slot(c) /\ Block(c2) = Block(c)
    BY <1>7, <1>10, <1>12 DEF SameButList, SameButNode, cache_hash, Slot, Block
  <1>14. ChainShape(c2)
    BY <1>9, <1>13 DEF ChainShape
  <1>15. /\ IsCache(c3) /\ SameButChain(c3, c2) /\ ChainShape(c3) /\ c3.fault = c.fault
         /\ \A x : \A g \in Slot(c) : In(c3.chain[g], x) => In(c.chain[g], x)
         /\ \A g \in Slot(c) : g # h => c3.chain[g] = c.chain[g]
         /\ \A x : In(c3.chain[h], x) => c1.node[x].disk_addr # b
    <2>1. b \in Block(c2)
      BY <1>13
    <2>2. cache_hash(c2, b) = h
      BY <1>13 DEF h
    <2>3. check_disk_block_in_cache(c2, b)
      <3>1. c2.node[old].disk_addr = b
        BY <1>4, <1>5, <1>7, <1>13
      <3>2. In(c2.chain[h], old)
        BY <1>4, <1>13
      <3> QED
        BY <1>12, <2>1, <2>2, <3>1, <3>2, PlaceFinds DEF check_disk_block_in_cache
    <2>4. /\ IsCache(c3) /\ SameButChain(c3, c2) /\ ChainShape(c3) /\ c3.fault = c2.fault
          /\ \A x : \A g \in Slot(c2) : In(c3.chain[g], x) => In(c2.chain[g], x)
          /\ \A g \in Slot(c2) : g # cache_hash(c2, b) => c3.chain[g] = c2.chain[g]
          /\ \A x : In(c3.chain[cache_hash(c2, b)], x) => c2.node[x].disk_addr # b
      BY <1>12, <1>14, <2>1, <2>3, ChainDrops
    <2> QED
      BY <1>13, <2>2, <2>4
  <1> HIDE DEF c3
  <1>16. /\ c3.node = c1.node /\ c3.buckets = c.buckets /\ c3.lru = c2.lru
         /\ c3.live = c2.live /\ c3.cachemap = c.cachemap
         /\ c3.cache_bit_itr = c.cache_bit_itr /\ c3.memory = c.memory /\ c3.disk = c.disk
         /\ \A g : cache_hash(c3, g) = cache_hash(c, g)
         /\ Slot(c3) = Slot(c)
    BY <1>13, <1>15 DEF SameButChain, cache_hash, Slot
  <1>17. /\ IsCache(r) /\ SameButChain(r, c3) /\ r.fault = c.fault /\ ChainShape(r)
         /\ \A x : \A g \in Slot(c) : In(r.chain[g], x) <=>
              \/ In(c3.chain[g], x)
              \/ g = h /\ x = new
    <2>1. c3.node[new].disk_addr = b /\ cache_hash(c3, b) = h
      BY <1>7, <1>16 DEF h
    <2>2. \A x : In(c3.chain[cache_hash(c3, c3.node[new].disk_addr)], x)
                   => c3.node[x].disk_addr # c3.node[new].disk_addr
      BY <1>15, <1>16, <2>1
    <2>3. /\ IsCache(r) /\ SameButChain(r, c3) /\ r.fault = c3.fault /\ ChainShape(r)
          /\ \A x : \A g \in Slot(c3) : In(r.chain[g], x) <=>
               \/ In(c3.chain[g], x)
               \/ g = cache_hash(c3, c3.node[new].disk_addr) /\ x = new
      BY <1>3, <1>15, <2>2, ChainAdds
    <2> QED
      BY <1>15, <1>16, <2>1, <2>3
  <1> HIDE DEF r
  <1>18. /\ r.node = c1.node /\ r.buckets = c.buckets /\ r.lru = c2.lru
         /\ r.live = c2.live /\ r.cachemap = c.cachemap
         /\ r.cache_bit_itr = c.cache_bit_itr /\ r.memory = c.memory /\ r.disk = c.disk
         /\ Slot(r) = Slot(c)
    BY <1>16, <1>17 DEF SameButChain, Slot
  <1>19. \A x : In(r.lru, x) <=> (In(c.lru, x) /\ x # old) \/ x = new
    BY <1>9, <1>10, <1>12, <1>18
  <1>20. \A x : In(c.lru, x) => x \in CacheNode /\ x # new /\ r.node[x] = c.node[x]
    <2>1. \A x : In(c.lru, x) => x \in CacheNode
      BY <1>2 DEF Listed, IsCache
    <2> QED
      BY <1>7, <1>11, <1>18, <2>1
  <1>21. ChainsListed(r)
    <2>1. ASSUME NEW x, NEW g \in Slot(c), In(c3.chain[g], x) PROVE In(r.lru, x)
      <3>1. In(c.chain[g], x) /\ In(c.lru, x)
        BY <1>2, <1>15, <2>1 DEF ChainsListed
      <3>2. x # old
        <4>1. c1.node[old].disk_addr = b
          BY <1>4, <1>5, <1>7
        <4>2. CASE g = h
          BY <1>15, <2>1, <4>1, <4>2
        <4>3. CASE g # h
          <5>1. cache_hash(c, c.node[x].disk_addr) = g
            BY <1>2, <3>1 DEF ChainShape, IsCache
          <5> QED
            BY <1>4, <4>3, <5>1 DEF h
        <4> QED
          BY <4>2, <4>3
      <3> QED
        BY <1>19, <3>1, <3>2
    <2> QED
      BY <1>17, <1>18, <1>19, <2>1 DEF ChainsListed
  <1>22. Listed(r, {})
    <2>1. \A x : x \in r.live <=> (x \in c.live \/ x = new) /\ x # old
      BY <1>7, <1>10, <1>12, <1>18
    <2>2. \A x : x \in c.live <=> In(c.lru, x)
      BY <1>2 DEF Listed
    <2>3. Distinct(r.lru)
      BY <1>12, <1>18
    <2> QED
      BY <1>5, <1>19, <2>1, <2>2, <2>3 DEF Listed
  <1>23. Held(r, {})
    <2>1. \A x, s : Uses(r, x, s) <=>
            \/ Uses(c, x, s) /\ x # old
            \/ x = new /\ s = c.node[old].cache_addr
      BY <1>7, <1>18, <1>19, <1>20 DEF Uses
    <2>2. Uses(c, old, c.node[old].cache_addr)
      BY <1>5 DEF Uses
    <2>3. \A s : (\E x : Uses(r, x, s)) <=> (\E x : Uses(c, x, s))
      <3>1. \A x, s : Uses(r, x, s) => \E y : Uses(c, y, s)
        BY <2>1, <2>2
      <3>2. \A x, s : Uses(c, x, s) => \E y : Uses(r, y, s)
        <4> SUFFICES ASSUME NEW x, NEW s, Uses(c, x, s) PROVE \E y : Uses(r, y, s)
          OBVIOUS
        <4>1. CASE x = old
          <5>1. s = c.node[old].cache_addr
            BY <4>1 DEF Uses
          <5> QED
            BY <2>1, <5>1
        <4>2. CASE x # old
          BY <2>1, <4>2
        <4> QED
          BY <4>1, <4>2
      <3> QED
        BY <3>1, <3>2
    <2>4. \A x, y, s : Uses(r, x, s) /\ Uses(r, y, s) => x = y \/ s = 0
      BY <1>2, <2>1, <2>2 DEF Held
    <2> QED
      BY <1>2, <1>18, <2>3, <2>4 DEF Held
  <1>24. Partial(r, {}, {})
    <2>1. HintInMap(r) /\ Len(r.lru) <= r.buckets - 1 /\ r.buckets >= 2
      <3>1. c.lru \in Seq(CacheNode)
        BY <1>2 DEF IsCache
      <3>2. Len(c.lru) \in Nat
        BY <3>1
      <3> QED
        BY <1>2, <1>9, <1>10, <1>12, <1>18, <3>2 DEF HintInMap
    <2> QED
      BY <1>17, <1>21, <1>22, <1>23, <2>1 DEF Partial
  <1>25. Replaces(r, c, b, old, new)
    <2>1. Len(r.lru) = Len(c.lru)
      <3>1. c.lru \in Seq(CacheNode)
        BY <1>2 DEF IsCache
      <3>2. Len(c.lru) \in Nat
        BY <3>1
      <3> QED
        BY <1>9, <1>10, <1>12, <1>18, <3>2
    <2>2. In(r.chain[h], new) /\ \A g \in Slot(c) : g # h => \A x : In(r.chain[g], x) <=> In(c.chain[g], x)
      BY <1>4, <1>15, <1>17
    <2>3. Uses(c, old, c.node[old].cache_addr)
      BY <1>5 DEF Uses
    <2>4. /\ r.buckets = c.buckets /\ r.cachemap = c.cachemap /\ r.cache_bit_itr = c.cache_bit_itr
          /\ r.memory = c.memory /\ r.disk = c.disk /\ r.fault = c.fault
      BY <1>17, <1>18
    <2>5. r.node[new].disk_addr = b /\ r.node[new].cache_addr = c.node[old].cache_addr
      BY <1>7, <1>18
    <2> QED
      BY <1>4, <1>5, <1>11, <1>19, <1>20, <2>1, <2>2, <2>3, <2>4, <2>5 DEF Replaces, h
  <1> QED
    BY <1>1, <1>24, <1>25 DEF old, new

-----------------------------------------------------------------------------
(* Eviction.                                                               *)

\* What the disk of r holds comes from the disk or the memory of c.
Spills(r, c) ==
  \A d \in Block(c) : r.disk[d] = c.disk[d] \/ \E a \in Slot(c) : r.disk[d] = c.memory[a]

\* The two middle steps of an eviction: a slot is given back, a block written.
LEMMA SlotWritten ==
  ASSUME NEW c, IsCache(c), NEW m \in CacheNode
  PROVE  LET d == [c EXCEPT !.cachemap = @ \ {c.node[m].cache_addr}]
             r == WriteBack(d, m)
         IN  /\ IsCache(r)
             /\ r.buckets = c.buckets /\ r.lru = c.lru /\ r.chain = c.chain
             /\ r.node = c.node /\ r.live = c.live /\ r.cache_bit_itr = c.cache_bit_itr
             /\ r.cachemap = c.cachemap \ {c.node[m].cache_addr}
             /\ Block(r) = Block(c) /\ r.memory = c.memory /\ Spills(r, c)
  <1> DEFINE d == [c EXCEPT !.cachemap = @ \ {c.node[m].cache_addr}]
             r == WriteBack(d, m)
  <1>1. /\ IsCache(d)
        /\ d.buckets = c.buckets /\ d.lru = c.lru /\ d.chain = c.chain
        /\ d.node = c.node /\ d.live = c.live /\ d.cache_bit_itr = c.cache_bit_itr
        /\ d.cachemap = c.cachemap \ {c.node[m].cache_addr}
        /\ Block(d) = Block(c) /\ d.memory = c.memory /\ d.disk = c.disk
    BY DEF IsCache, Slot, Block
  <1>2. \/ r = d
        \/ \E b, x : r = [d EXCEPT !.disk[b] = x]
    BY DEF WriteBack
  <1>4. Spills(r, c)
    <2>1. CASE r = d
      BY <1>1, <2>1 DEF Spills
    <2>2. CASE r # d
      <3>1. r = [d EXCEPT !.disk[d.node[m].disk_addr] = d.memory[d.node[m].cache_addr]]
        BY <2>2 DEF WriteBack
      <3>2. d.node[m].cache_addr \in Slot(c)
        BY <1>1 DEF IsCache
      <3> HIDE DEF d, r
      <3>3. r.disk = [d.disk EXCEPT ![d.node[m].disk_addr] = d.memory[d.node[m].cache_addr]]
        BY <1>1, <3>1 DEF IsCache
      <3>4. \A e \in Block(c) :
              r.disk[e] = d.disk[e] \/ r.disk[e] = d.memory[d.node[m].cache_addr]
        BY <1>1, <3>3 DEF Block
      <3> QED
        BY <1>1, <3>2, <3>4 DEF Spills
    <2> QED
      BY <2>1, <2>2
  <1> HIDE DEF d, r
  <1>3. /\ IsCache(r)
        /\ r.buckets = d.buckets /\ r.lru = d.lru /\ r.chain = d.chain
        /\ r.node = d.node /\ r.live = d.live /\ r.cache_bit_itr = d.cache_bit_itr
        /\ r.cachemap = d.cachemap
        /\ Block(r) = Block(d) /\ r.memory = d.memory
    <2>1. CASE r = d
      BY <1>1, <2>1
    <2>2. ASSUME NEW b, NEW x, r = [d EXCEPT !.disk[b] = x]
          PROVE  /\ IsCache(r)
                 /\ r.buckets = d.buckets /\ r.lru = d.lru /\ r.chain = d.chain
                 /\ r.node = d.node /\ r.live = d.live /\ r.cache_bit_itr = d.cache_bit_itr
                 /\ r.cachemap = d.cachemap
                 /\ Block(r) = Block(d) /\ r.memory = d.memory
      BY <1>1, <2>2 DEF IsCache, Slot, Block
    <2> QED
      BY <1>2, <2>1, <2>2
  <1> QED
    BY <1>1, <1>3, <1>4 DEF d, r

\* What an eviction leaves behind.
Shrinks(r, c) ==
  /\ r.buckets = c.buckets /\ r.node = c.node /\ r.memory = c.memory /\ r.live \subseteq c.live
  /\ Block(r) = Block(c) /\ Len(r.lru) = Len(c.lru) - 1 /\ Spills(r, c)
  /\ \A x : \A h \in Slot(c) : In(r.chain[h], x) => In(c.chain[h], x)

\* A node that is evicted leaves both structures, and its slot is free.
LEMMA EvictSound ==
  ASSUME NEW c, NEW P, NEW S, Partial(c, P, S), Len(c.lru) >= 1
  PROVE  Partial(Evict(c), P, S) /\ Shrinks(Evict(c), c)
  <1> DEFINE m == Last(c.lru)
             b == c.node[m].disk_addr
             a == c.node[m].cache_addr
             c1 == remove_block_from_cache_hash_table(c, b)
             c2 == [c1 EXCEPT !.cachemap = @ \ {a}]
             c3 == WriteBack(c2, m)
             r == Unlink(c3, m)
  <1>1. Evict(c) = r
    BY DEF Evict
  <1>2. /\ IsCache(c) /\ c.buckets >= 2 /\ HintInMap(c) /\ ChainShape(c) /\ ChainsListed(c)
        /\ Listed(c, P) /\ Held(c, S) /\ Len(c.lru) <= c.buckets - 1
    BY DEF Partial
  <1>3. c.lru \in Seq(CacheNode) /\ Len(c.lru) \in Nat /\ Len(c.lru) \in DOMAIN c.lru
    BY <1>2 DEF IsCache
  <1>4. In(c.lru, m) /\ m \in CacheNode
    BY <1>3 DEF In, Last
  <1>5. b \in Block(c) /\ a \in Slot(c)
    BY <1>2, <1>4 DEF IsCache
  <1> HIDE DEF m, b, a
  <1>6. /\ IsCache(c1) /\ SameButChain(c1, c) /\ ChainShape(c1)
        /\ \A x : \A h \in Slot(c) : In(c1.chain[h], x) => In(c.chain[h], x)
        /\ \A x : In(c1.chain[cache_hash(c, b)], x) => c.node[x].disk_addr # b
    BY <1>2, <1>5, ChainDrops
  <1> HIDE DEF c1
  <1>7. /\ IsCache(c3)
        /\ c3.buckets = c.buckets /\ c3.lru = c.lru /\ c3.chain = c1.chain
        /\ c3.node = c.node /\ c3.live = c.live /\ c3.cache_bit_itr = c.cache_bit_itr
        /\ c3.cachemap = c.cachemap \ {a}
        /\ Block(c3) = Block(c) /\ c3.memory = c.memory /\ Spills(c3, c)
    <2>1. /\ c1.buckets = c.buckets /\ c1.lru = c.lru /\ c1.node = c.node /\ c1.live = c.live
          /\ c1.cachemap = c.cachemap /\ c1.cache_bit_itr = c.cache_bit_itr
          /\ c1.memory = c.memory /\ Block(c1) = Block(c) /\ c1.disk = c.disk
          /\ Slot(c1) = Slot(c)
      BY <1>6 DEF SameButChain, Block, Slot
    <2>2. c1.node[m].cache_addr = a
      BY <2>1 DEF a
    <2>3. /\ IsCache(c3)
          /\ c3.buckets = c1.buckets /\ c3.lru = c1.lru /\ c3.chain = c1.chain
          /\ c3.node = c1.node /\ c3.live = c1.live /\ c3.cache_bit_itr = c1.cache_bit_itr
          /\ c3.cachemap = c1.cachemap \ {a}
          /\ Block(c3) = Block(c1) /\ c3.memory = c1.memory /\ Spills(c3, c1)
      BY <1>4, <1>6, <2>2, SlotWritten
    <2> HIDE DEF c3
    <2> QED
      BY <2>1, <2>3 DEF Spills
  <1> HIDE DEF c3
  <1>8. /\ IsCache(r) /\ SameButList(r, c3) /\ r.live = c.live \ {m}
        /\ Distinct(r.lru) /\ Len(r.lru) = Len(c.lru) - 1
        /\ \A x : In(r.lru, x) <=> In(c.lru, x) /\ x # m
    <2>1. Distinct(c3.lru) /\ In(c3.lru, m)
      BY <1>2, <1>4, <1>7 DEF Listed
    <2> QED
      BY <1>7, <2>1, ListDrops
  <1> HIDE DEF r
  <1>9. /\ r.buckets = c.buckets /\ r.chain = c1.chain /\ r.node = c.node
        /\ r.cache_bit_itr = c.cache_bit_itr /\ r.cachemap = c.cachemap \ {a}
        /\ r.memory = c.memory /\ Block(r) = Block(c) /\ Slot(r) = Slot(c)
        /\ Spills(r, c)
    BY <1>7, <1>8 DEF SameButList, Block, Slot, Spills
  <1>10. ChainShape(r)
    BY <1>6, <1>9 DEF ChainShape, SameButChain, cache_hash
  <1>11. ChainsListed(r)
    <2>1. ASSUME NEW x, NEW h \in Slot(c), In(c1.chain[h], x) PROVE In(r.lru, x)
      <3>1. In(c.chain[h], x) /\ In(c.lru, x)
        BY <1>2, <1>6, <2>1 DEF ChainsListed
      <3>2. x # m
        <4>1. cache_hash(c, c.node[x].disk_addr) = h
          BY <1>2, <3>1 DEF ChainShape, IsCache
        <4> QED
          BY <1>6, <2>1, <4>1 DEF b
      <3> QED
        BY <1>8, <3>1, <3>2
    <2> QED
      BY <1>9, <2>1 DEF ChainsListed
  <1>12. Listed(r, P)
    BY <1>2, <1>4, <1>8 DEF Listed
  <1>13. Held(r, S)
    <2>1. \A x, s : Uses(r, x, s) <=> Uses(c, x, s) /\ x # m
      BY <1>8, <1>9 DEF Uses
    <2>2. Uses(c, m, a)
      BY <1>4 DEF Uses, a
    <2>3. \A x, y, s : Uses(r, x, s) /\ Uses(r, y, s) => x = y \/ s = 0
      BY <1>2, <2>1 DEF Held
    <2>4. \A x, s : Uses(r, x, s) => s \notin S
      BY <1>2, <2>1 DEF Held
    <2>5. ASSUME NEW s \in Slot(c)
          PROVE  s \in r.cachemap <=> s # 0 /\ (s \in S \/ \E x : Uses(r, x, s))
      <3>1. CASE s = a
        <4>1. s \notin r.cachemap
          BY <1>9, <3>1
        <4>2. s \notin S
          BY <1>2, <2>2, <3>1 DEF Held
        <4>3. \A x : Uses(r, x, s) => s = 0
          BY <1>2, <2>1, <2>2, <3>1 DEF Held
        <4> QED
          BY <4>1, <4>2, <4>3
      <3>2. CASE s # a
        <4>1. \A x : Uses(c, x, s) => x # m
          BY <3>2 DEF Uses, a
        <4>2. s \in r.cachemap <=> s \in c.cachemap
          BY <1>9, <3>2
        <4> QED
          BY <1>2, <2>1, <4>1, <4>2 DEF Held
      <3> QED
        BY <3>1, <3>2
    <2> QED
      BY <1>9, <2>3, <2>4, <2>5 DEF Held
  <1>14. HintInMap(r) /\ r.buckets >= 2 /\ Len(r.lru) <= r.buckets - 1
    BY <1>2, <1>3, <1>8, <1>9 DEF HintInMap, IsCache
  <1>15. Partial(r, P, S)
    BY <1>8, <1>10, <1>11, <1>12, <1>13, <1>14 DEF Partial
  <1>16. Shrinks(r, c)
    BY <1>6, <1>8, <1>9 DEF Shrinks
  <1> QED
    BY <1>1, <1>15, <1>16

-----------------------------------------------------------------------------
(* A miss.                                                                 *)

\* The cache with slot s taken, unless it is 0, and filled with x.
SlotTaken(c, s, x) ==
  [c EXCEPT !.cachemap = Taken(@, s), !.cache_bit_itr = Hint(@, s), !.memory[s] = x]

\* What taking slot s leaves alone.
SameButSlot(r, c, s) ==
  /\ r.buckets = c.buckets /\ r.lru = c.lru /\ r.chain = c.chain
  /\ r.node = c.node /\ r.live = c.live /\ Block(r) = Block(c)
  /\ r.disk = c.disk /\ r.cachemap = c.cachemap \cup ({s} \ {0})
  /\ DOMAIN r.memory = DOMAIN c.memory
  /\ \A a \in Slot(c) : a # s => r.memory[a] = c.memory[a]

\* A slot that was free is taken and used by no node yet.
LEMMA SlotSound ==
  ASSUME NEW c, Partial(c, {}, {}), NEW x,
         NEW s, s \in Clear(c.cachemap, c.buckets) \/ s = 0
  PROVE  /\ Partial(SlotTaken(c, s, x), {}, {s} \ {0})
         /\ SameButSlot(SlotTaken(c, s, x), c, s) /\ SlotTaken(c, s, x).memory[s] = x
         /\ s \in Slot(c)
  <1> DEFINE r == SlotTaken(c, s, x)
  <1>1. /\ IsCache(c) /\ c.buckets >= 2 /\ HintInMap(c) /\ ChainShape(c) /\ ChainsListed(c)
        /\ Listed(c, {}) /\ Held(c, {}) /\ Len(c.lru) <= c.buckets - 1
    BY DEF Partial
  <1>2. c.buckets \in Nat /\ c.cache_bit_itr \in Nat
    BY <1>1 DEF IsCache
  <1>3. s \in Slot(c) /\ s \in Nat /\ s \notin c.cachemap /\ (s # 0 => s \in 2 .. c.buckets - 1)
    <2>1. c.cachemap \subseteq 2 .. c.buckets - 1
      BY <1>1 DEF IsCache
    <2> QED
      BY <1>1, <1>2, <2>1 DEF Clear, Slot
  <1>4. Taken(c.cachemap, s) = c.cachemap \cup ({s} \ {0})
    BY DEF Taken
  <1>5. Hint(c.cache_bit_itr, s) \in Nat /\ Hint(c.cache_bit_itr, s) * ByteBits <= c.buckets
    <2>1. CASE s = 0
      BY <1>1, <1>2, <2>1 DEF Hint, HintInMap
    <2>2. CASE s # 0
      <3>1. ByteOf(s) \in Nat /\ ByteOf(s) * ByteBits <= s
        BY <1>3, ByteStart
      <3> QED
        BY <1>2, <1>3, <2>2, <3>1, BitmapAssumption DEF Hint, Slot
    <2> QED
      BY <2>1, <2>2
  <1> DEFINE t == Taken(c.cachemap, s)
             i == Hint(c.cache_bit_itr, s)
  <1>6. r = [c EXCEPT !.cachemap = t, !.cache_bit_itr = i, !.memory[s] = x]
    BY DEF SlotTaken
  <1>7. t \in SUBSET (2 .. c.buckets - 1)
    BY <1>1, <1>3, <1>4 DEF IsCache
  <1>16. i \in Nat
    BY <1>5
  <1> HIDE DEF r, t, i
  <1>8. IsCache(r)
    <2> DEFINE v == [c.memory EXCEPT ![s] = x]
    <2>1. r = [c EXCEPT !.cachemap = t, !.cache_bit_itr = i, !.memory = v]
      BY <1>6
    <2>2. DOMAIN v = Slot(c)
      BY <1>1 DEF IsCache
    <2> HIDE DEF v
    <2> QED
      BY <1>1, <1>7, <1>16, <2>1, <2>2 DEF IsCache, Slot, Block
  <1>9. /\ r.buckets = c.buckets /\ r.lru = c.lru /\ r.chain = c.chain
        /\ r.node = c.node /\ r.live = c.live /\ Block(r) = Block(c) /\ r.disk = c.disk
        /\ r.cachemap = t /\ r.cache_bit_itr = i /\ DOMAIN r.memory = DOMAIN c.memory
    BY <1>1, <1>6 DEF IsCache, Block
  <1>10. r.memory[s] = x /\ \A a \in Slot(c) : a # s => r.memory[a] = c.memory[a]
    <2>1. r.memory = [c.memory EXCEPT ![s] = x]
      BY <1>1, <1>6 DEF IsCache
    <2>2. s \in DOMAIN c.memory
      BY <1>1, <1>3 DEF IsCache
    <2>3. r.memory[s] = x
      BY <2>1, <2>2
    <2>4. DOMAIN c.memory = Slot(c)
      BY <1>1 DEF IsCache
    <2>5. \A a \in Slot(c) : a # s => r.memory[a] = c.memory[a]
      BY <2>1, <2>4
    <2> QED
      BY <2>3, <2>5
  <1>11. SameButSlot(r, c, s)
    BY <1>4, <1>9, <1>10 DEF SameButSlot, t
  <1>12. Slot(r) = Slot(c) /\ \A g : cache_hash(r, g) = cache_hash(c, g)
    BY <1>9 DEF Slot, cache_hash
  <1>13. ChainShape(r) /\ ChainsListed(r) /\ Listed(r, {})
    BY <1>1, <1>9, <1>12 DEF ChainShape, ChainsListed, Listed
  <1>14. Held(r, {s} \ {0})
    <2>1. \A y, a : Uses(r, y, a) <=> Uses(c, y, a)
      BY <1>9 DEF Uses
    <2>2. \A y, z, a : Uses(r, y, a) /\ Uses(r, z, a) => y = z \/ a = 0
      BY <1>1, <2>1 DEF Held
    <2>3. \A y, a : Uses(r, y, a) => a \notin {s} \ {0}
      BY <1>1, <1>3, <2>1 DEF Held
    <2>4. \A a \in Slot(c) : a \in r.cachemap
             <=> a # 0 /\ (a \in {s} \ {0} \/ \E y : Uses(r, y, a))
      BY <1>1, <1>4, <1>9, <2>1 DEF Held, t
    <2> QED
      BY <1>12, <2>2, <2>3, <2>4 DEF Held
  <1>15. HintInMap(r) /\ r.buckets >= 2 /\ Len(r.lru) <= r.buckets - 1
    BY <1>1, <1>5, <1>9 DEF HintInMap, i
  <1>17. Partial(r, {}, {s} \ {0})
    BY <1>8, <1>13, <1>14, <1>15 DEF Partial
  <1> QED
    BY <1>3, <1>10, <1>11, <1>17 DEF r

\* What an insertion leaves, r: the new node at its places, and everything else as it
\* was before, in c, unless it had to make room.
Inserts(r, c, b, s, new) ==
  /\ r.buckets = c.buckets /\ r.memory = c.memory /\ Block(r) = Block(c)
  /\ ~In(c.lru, new) /\ In(r.lru, new) /\ In(r.chain[cache_hash(c, b)], new)
  /\ r.node[new].disk_addr = b /\ r.node[new].cache_addr = s
  /\ \A x : In(c.lru, x) => r.node[x] = c.node[x]
  /\ Spills(r, c)
  /\ IF MustEvict(c) THEN Len(r.lru) = Len(c.lru)
     ELSE /\ Len(r.lru) = Len(c.lru) + 1 /\ r.disk = c.disk
          /\ \A x : In(r.lru, x) <=> In(c.lru, x) \/ x = new
          /\ \A x : \A h \in Slot(c) :
               In(r.chain[h], x) <=> In(c.chain[h], x) \/ (h = cache_hash(c, b) /\ x = new)

\* Room made for the new node.
Room(c) == IF MustEvict(c) THEN Evict(c) ELSE c

\* With room made there is a place on the list.
LEMMA RoomSound ==
  ASSUME NEW c, NEW P, NEW S, Partial(c, P, S)
  PROVE  LET r == Room(c)
         IN  /\ Partial(r, P, S) /\ Len(r.lru) <= c.buckets - 2
             /\ r.buckets = c.buckets /\ r.node = c.node /\ r.memory = c.memory
             /\ Block(r) = Block(c) /\ Spills(r, c)
             /\ \A x : \A h \in Slot(c) : In(r.chain[h], x) => In(c.chain[h], x)
             /\ IF MustEvict(c) THEN Len(r.lru) = Len(c.lru) - 1 ELSE r = c
  <1>1. /\ c.buckets >= 2 /\ Len(c.lru) <= c.buckets - 1 /\ c.buckets \in Nat
        /\ c.lru \in Seq(CacheNode)
    BY DEF Partial, IsCache
  <1>2. Len(c.lru) \in Nat
    BY <1>1
  <1>3. CASE MustEvict(c)
    <2>1. Len(c.lru) >= 1
      BY <1>1, <1>2, <1>3 DEF MustEvict
    <2>2. Partial(Evict(c), P, S) /\ Shrinks(Evict(c), c)
      BY <2>1, EvictSound
    <2>3. Room(c) = Evict(c)
      BY <1>3 DEF Room
    <2> HIDE DEF Room, Evict
    <2> QED
      BY <1>1, <1>2, <1>3, <2>2, <2>3 DEF Shrinks
  <1>4. CASE ~MustEvict(c)
    <2>1. Room(c) = c /\ Len(c.lru) <= c.buckets - 2
      BY <1>1, <1>2, <1>4 DEF Room, MustEvict
    <2> QED
      BY <1>4, <2>1 DEF Spills
  <1> QED
    BY <1>3, <1>4

\* The slot and the node of a missing block come together.
LEMMA InsertSound ==
  ASSUME NEW c, NEW s \in Slot(c), Partial(c, {}, {s} \ {0}), NEW b \in Block(c),
         \A x : In(c.chain[cache_hash(c, b)], x) => c.node[x].disk_addr # b,
         NEW dirty \in BOOLEAN,
         IsFiniteSet(CacheNode), Cardinality(CacheNode) >= c.buckets
  PROVE  /\ Partial(insert_block_to_cache(c, b, s, dirty), {}, {})
         /\ Inserts(insert_block_to_cache(c, b, s, dirty), c, b, s, NewNode(c))
  <1> DEFINE S == {s} \ {0}
             h == cache_hash(c, b)
             new == NewNode(c)
             c1 == Allocate(c, new, b, s, dirty)
             c2 == Room(c1)
             c3 == add_at_top_of_cache(c2, new)
             r == AddToChain(c3, new)
  <1>1. insert_block_to_cache(c, b, s, dirty) = r
    BY DEF insert_block_to_cache, Room
  <1>2. /\ IsCache(c) /\ c.buckets >= 2 /\ HintInMap(c) /\ ChainShape(c) /\ ChainsListed(c)
        /\ Listed(c, {}) /\ Held(c, S) /\ Len(c.lru) <= c.buckets - 1
    BY DEF Partial
  <1>3. new \in CacheNode /\ new \notin c.live
    BY NodeAvailable
  <1>4. h \in Slot(c)
    BY <1>2, HashRange
  <1> HIDE DEF S, new, h
  <1>5. Filled(c1, c, new, b, s)
    BY <1>2, <1>3, NodeFilled
  <1>6. Partial(c1, {new}, S)
    BY <1>3, NodeAllocated DEF S
  <1> HIDE DEF c1
  <1>7. /\ c1.buckets = c.buckets /\ c1.lru = c.lru /\ c1.chain = c.chain
        /\ c1.memory = c.memory /\ c1.disk = c.disk /\ Block(c1) = Block(c)
        /\ c1.node[new].disk_addr = b /\ c1.node[new].cache_addr = s
        /\ \A x \in CacheNode : x # new => c1.node[x] = c.node[x]
    BY <1>5 DEF Filled, SameButNode, Block
  <1>8. \A x : In(c.lru, x) => x \in CacheNode /\ x # new /\ c1.node[x] = c.node[x]
    <2>1. \A x : In(c.lru, x) => x \in c.live
      BY <1>2 DEF Listed
    <2>2. c.live \subseteq CacheNode
      BY <1>2 DEF IsCache
    <2> QED
      BY <1>3, <1>7, <2>1, <2>2
  <1>9. MustEvict(c1) <=> MustEvict(c)
    BY <1>7 DEF MustEvict
  <1>10. /\ Partial(c2, {new}, S) /\ Len(c2.lru) <= c.buckets - 2
         /\ c2.buckets = c.buckets /\ c2.node = c1.node /\ c2.memory = c.memory
         /\ Block(c2) = Block(c) /\ Spills(c2, c)
         /\ \A x : \A g \in Slot(c) : In(c2.chain[g], x) => In(c.chain[g], x)
         /\ IF MustEvict(c) THEN Len(c2.lru) = Len(c.lru) - 1 ELSE c2 = c1
    <2>1. /\ Partial(c2, {new}, S) /\ Len(c2.lru) <= c1.buckets - 2
          /\ c2.buckets = c1.buckets /\ c2.node = c1.node /\ c2.memory = c1.memory
          /\ Block(c2) = Block(c1) /\ Spills(c2, c1)
          /\ \A x : \A g \in Slot(c1) : In(c2.chain[g], x) => In(c1.chain[g], x)
          /\ IF MustEvict(c1) THEN Len(c2.lru) = Len(c1.lru) - 1 ELSE c2 = c1
      BY <1>6, RoomSound
    <2>2. Slot(c1) = Slot(c)
      BY <1>7 DEF Slot
    <2> HIDE DEF c2
    <2> QED
      BY <1>7, <1>9, <2>1, <2>2 DEF Spills
  <1> HIDE DEF c2
  <1>11. /\ IsCache(c2) /\ HintInMap(c2) /\ ChainShape(c2) /\ ChainsListed(c2)
         /\ Listed(c2, {new}) /\ Held(c2, S)
    BY <1>10 DEF Partial
  <1>12. /\ IsCache(c3) /\ SameButList(c3, c2) /\ c3.live = c2.live
         /\ Distinct(c3.lru) /\ Len(c3.lru) = Len(c2.lru) + 1
         /\ \A x : In(c3.lru, x) <=> In(c2.lru, x) \/ x = new
    <2>1. Distinct(c2.lru) /\ ~In(c2.lru, new)
      BY <1>11 DEF Listed
    <2> QED
      BY <1>3, <1>11, <2>1, ListAdds
  <1> HIDE DEF c3
  <1>13. /\ c3.buckets = c.buckets /\ c3.chain = c2.chain /\ c3.node = c1.node
         /\ c3.cachemap = c2.cachemap /\ c3.cache_bit_itr = c2.cache_bit_itr
         /\ c3.memory = c.memory /\ c3.disk = c2.disk
         /\ \A g : cache_hash(c3, g) = cache_hash(c, g)
         /\ Slot(c3) = Slot(c)
    BY <1>10, <1>12 DEF SameButList, cache_hash, Slot
  <1>14. ChainShape(c3)
    BY <1>10, <1>11, <1>13 DEF ChainShape, cache_hash
  <1>15. \A x : In(c2.chain[h], x) => c1.node[x].disk_addr # b
    <2>1. \A x : In(c2.chain[h], x) => In(c.chain[h], x) /\ c.node[x].disk_addr # b
      BY <1>4, <1>10 DEF h
    <2>2. \A x : In(c2.chain[h], x) => In(c.lru, x)
      BY <1>2, <1>4, <2>1 DEF ChainsListed
    <2> QED
      BY <1>8, <2>1, <2>2
  <1>16. /\ IsCache(r) /\ SameButChain(r, c3) /\ ChainShape(r)
         /\ \A x : \A g \in Slot(c) : In(r.chain[g], x) <=>
              \/ In(c2.chain[g], x)
              \/ g = h /\ x = new
    <2>1. c3.node[new].disk_addr = b /\ cache_hash(c3, b) = h
      BY <1>7, <1>13 DEF h
    <2>2. \A x : In(c3.chain[cache_hash(c3, c3.node[new].disk_addr)], x)
                   => c3.node[x].disk_addr # c3.node[new].disk_addr
      BY <1>13, <1>15, <2>1
    <2>3. /\ IsCache(r) /\ SameButChain(r, c3) /\ ChainShape(r)
          /\ \A x : \A g \in Slot(c3) : In(r.chain[g], x) <=>
               \/ In(c3.chain[g], x)
               \/ g = cache_hash(c3, c3.node[new].disk_addr) /\ x = new
      BY <1>3, <1>12, <1>14, <2>2, ChainAdds
    <2> QED
      BY <1>13, <2>1, <2>3
  <1> HIDE DEF r
  <1>17. /\ r.node = c1.node /\ r.buckets = c.buckets /\ r.lru = c3.lru
         /\ r.live = c2.live /\ r.cachemap = c2.cachemap /\ r.disk = c2.disk
         /\ r.cache_bit_itr = c2.cache_bit_itr /\ r.memory = c.memory
         /\ Block(r) = Block(c) /\ Slot(r) = Slot(c)
    BY <1>10, <1>12, <1>13, <1>16 DEF SameButChain, Slot, Block
  <1>18. \A x : In(r.lru, x) <=> In(c2.lru, x) \/ x = new
    BY <1>12, <1>17
  <1>19. ChainsListed(r)
    <2>1. Slot(c2) = Slot(c)
      BY <1>10 DEF Slot
    <2>2. \A x : \A g \in Slot(c) : In(c2.chain[g], x) => In(c2.lru, x)
      BY <1>11, <2>1 DEF ChainsListed
    <2> QED
      BY <1>16, <1>17, <1>18, <2>2 DEF ChainsListed
  <1>20. Listed(r, {})
    BY <1>11, <1>12, <1>17, <1>18 DEF Listed
  <1>21. Held(r, {})
    <2>1. ~In(c2.lru, new) /\ Slot(c2) = Slot(c)
      BY <1>10, <1>11 DEF Listed, Slot
    <2>2. \A x, a : Uses(r, x, a) <=> Uses(c2, x, a) \/ (x = new /\ a = s)
      BY <1>7, <1>10, <1>17, <1>18, <2>1 DEF Uses
    <2>3. \A x, y, a : Uses(r, x, a) /\ Uses(r, y, a) => x = y \/ a = 0
      <3>1. \A x, y, a : Uses(c2, x, a) /\ Uses(c2, y, a) => x = y \/ a = 0
        BY <1>11 DEF Held
      <3>2. \A x : Uses(c2, x, s) => s = 0
        BY <1>11 DEF Held, S
      <3> QED
        BY <2>2, <3>1, <3>2
    <2>4. \A a \in Slot(c) : a \in r.cachemap <=> a # 0 /\ \E x : Uses(r, x, a)
      <3>1. \A a \in Slot(c) :
              a \in c2.cachemap <=> a # 0 /\ (a \in S \/ \E x : Uses(c2, x, a))
        BY <1>11, <2>1 DEF Held
      <3>2. \A a : a # 0 => (a \in S <=> a = s)
        BY DEF S
      <3> QED
        BY <1>17, <2>2, <3>1, <3>2
    <2> QED
      BY <1>17, <2>3, <2>4 DEF Held
  <1>22. c2.lru \in Seq(CacheNode) /\ c.lru \in Seq(CacheNode) /\ c.buckets \in Nat
    BY <1>2, <1>11 DEF IsCache
  <1>23. Len(c2.lru) \in Nat /\ Len(c.lru) \in Nat /\ Len(r.lru) = Len(c2.lru) + 1
    BY <1>12, <1>17, <1>22
  <1>24. Partial(r, {}, {})
    <2>1. HintInMap(r) /\ Len(r.lru) <= r.buckets - 1 /\ r.buckets >= 2
      BY <1>2, <1>10, <1>11, <1>17, <1>22, <1>23 DEF HintInMap
    <2> QED
      BY <1>16, <1>19, <1>20, <1>21, <2>1 DEF Partial
  <1>25. Inserts(r, c, b, s, new)
    <2>1. In(r.lru, new) /\ In(r.chain[h], new) /\ ~In(c.lru, new)
      BY <1>4, <1>8, <1>16, <1>18
    <2>2. r.node[new].disk_addr = b /\ r.node[new].cache_addr = s
      BY <1>7, <1>17
    <2>3. \A x : In(c.lru, x) => r.node[x] = c.node[x]
      BY <1>8, <1>17
    <2>4. IF MustEvict(c) THEN Len(r.lru) = Len(c.lru)
          ELSE /\ Len(r.lru) = Len(c.lru) + 1 /\ r.disk = c.disk
               /\ \A x : In(r.lru, x) <=> In(c.lru, x) \/ x = new
               /\ \A x : \A g \in Slot(c) :
                    In(r.chain[g], x) <=> In(c.chain[g], x) \/ (g = h /\ x = new)
      <3>1. CASE MustEvict(c)
        BY <1>10, <1>23, <3>1
      <3>2. CASE ~MustEvict(c)
        <4>1. c2.lru = c.lru /\ c2.chain = c.chain /\ c2.disk = c.disk
          BY <1>7, <1>10, <3>2
        <4> QED
          BY <1>16, <1>17, <1>18, <1>23, <3>2, <4>1
      <3> QED
        BY <3>1, <3>2
    <2> QED
      BY <1>10, <1>17, <2>1, <2>2, <2>3, <2>4 DEF Inserts, Spills, h
  <1> QED
    BY <1>1, <1>24, <1>25 DEF new

\* A miss leaves a sound cache, with the block in a slot that was free, or in slot 0.
LEMMA FillSound ==
  ASSUME NEW c, Partial(c, {}, {}), NEW b \in Block(c), ~check_disk_block_in_cache(c, b),
         NEW x, NEW dirty \in BOOLEAN,
         IsFiniteSet(CacheNode), Cardinality(CacheNode) >= c.buckets
  PROVE  /\ Partial(Fill(c, b, x, dirty), {}, {})
         /\ \E s \in Slot(c) : \E new :
              /\ s \in Clear(c.cachemap, c.buckets) \/ (Clear(c.cachemap, c.buckets) = {} /\ s = 0)
              /\ SameButSlot(SlotTaken(c, s, x), c, s) /\ SlotTaken(c, s, x).memory[s] = x
              /\ Inserts(Fill(c, b, x, dirty), SlotTaken(c, s, x), b, s, new)
  <1> DEFINE s == get_block_for_cache(c)
             d == SlotTaken(c, s, x)
             new == NewNode(d)
  <1>1. IsCache(c) /\ HintInMap(c)
    BY DEF Partial
  <1>2. s \in Clear(c.cachemap, c.buckets) \/ (Clear(c.cachemap, c.buckets) = {} /\ s = 0)
    <2>1. c.buckets \in Nat \ {0} /\ c.cache_bit_itr \in Nat /\ c.cache_bit_itr * ByteBits <= c.buckets
      BY <1>1 DEF IsCache, HintInMap
    <2> QED
      BY <2>1, FetchFinds DEF get_block_for_cache
  <1>3. Fill(c, b, x, dirty) = insert_block_to_cache(d, b, s, dirty)
    BY DEF Fill, SlotTaken
  <1> HIDE DEF s
  <1>4. Partial(d, {}, {s} \ {0}) /\ SameButSlot(d, c, s) /\ d.memory[s] = x /\ s \in Slot(c)
    BY <1>2, SlotSound
  <1> HIDE DEF d
  <1>5. \A y : In(d.chain[cache_hash(d, b)], y) => d.node[y].disk_addr # b
    <2>1. \A y : In(c.chain[cache_hash(c, b)], y) => c.node[y].disk_addr # b
      BY <1>1, PlaceFinds DEF check_disk_block_in_cache
    <2>2. d.chain = c.chain /\ d.node = c.node /\ cache_hash(d, b) = cache_hash(c, b)
      BY <1>4 DEF SameButSlot, cache_hash
    <2> QED
      BY <2>1, <2>2
  <1>6. d.buckets = c.buckets /\ b \in Block(d) /\ s \in Slot(d)
    BY <1>4 DEF SameButSlot, Slot
  <1>7. /\ Partial(insert_block_to_cache(d, b, s, dirty), {}, {})
        /\ Inserts(insert_block_to_cache(d, b, s, dirty), d, b, s, new)
    BY <1>4, <1>5, <1>6, InsertSound
  <1> HIDE DEF new
  <1> QED
    BY <1>2, <1>3, <1>4, <1>7 DEF d

-----------------------------------------------------------------------------
(* Block accesses.                                                         *)

\* What the walk of a chain finds, and what is read through it.
LEMMA ContentsOf ==
  ASSUME NEW c, IsCache(c), ChainShape(c), NEW b \in Block(c)
  PROVE  /\ \A m : In(c.chain[cache_hash(c, b)], m) /\ c.node[m].disk_addr = b =>
              /\ check_disk_block_in_cache(c, b) /\ CachedNode(c, b) = m
              /\ Contents(c, b) = c.memory[c.node[m].cache_addr]
         /\ (\A m : In(c.chain[cache_hash(c, b)], m) => c.node[m].disk_addr # b)
              => Contents(c, b) = c.disk[b]
  <1> DEFINE s == c.chain[cache_hash(c, b)]
             i == Place(c, b)
  <1>1. /\ s \in Seq(CacheNode)
        /\ \/ i = 0 /\ \A m : In(s, m) => c.node[m].disk_addr # b
           \/ i \in DOMAIN s /\ i > 0 /\ c.node[s[i]].disk_addr = b
    BY PlaceFinds, Zenon
  <1>2. \A j, k \in DOMAIN s : c.node[s[j]].disk_addr = c.node[s[k]].disk_addr => j = k
    BY HashRange DEF ChainShape, IsCache
  <1>3. /\ check_disk_block_in_cache(c, b) <=> i # 0
        /\ CachedNode(c, b) = s[i]
        /\ Contents(c, b) = IF i = 0 THEN c.disk[b] ELSE c.memory[c.node[s[i]].cache_addr]
    BY DEF check_disk_block_in_cache, CachedNode, Contents
  <1> HIDE DEF s, i
  <1>4. ASSUME NEW m, In(s, m), c.node[m].disk_addr = b
        PROVE  i # 0 /\ s[i] = m
    <2>1. i \in DOMAIN s /\ i > 0 /\ c.node[s[i]].disk_addr = b
      BY <1>1, <1>4
    <2>2. PICK j \in DOMAIN s : s[j] = m
      BY <1>4 DEF In
    <2>3. j = i
      BY <1>2, <1>4, <2>1, <2>2
    <2> QED
      BY <2>1, <2>2, <2>3
  <1>5. ASSUME \A m : In(s, m) => c.node[m].disk_addr # b
        PROVE  i = 0
    BY <1>1, <1>5 DEF In
  <1> QED
    BY <1>3, <1>4, <1>5 DEF s

\* The last step of a write that hits.
Overwritten(c, n, x) ==
  [c EXCEPT !.memory[c.node[n].cache_addr] = x, !.node[n].dirty = TRUE]

\* It changes the contents of a slot and a dirty bit.
LEMMA OverwrittenSound ==
  ASSUME NEW c, Partial(c, {}, {}), NEW n \in CacheNode, NEW x
  PROVE  LET r == Overwritten(c, n, x)
         IN  /\ Partial(r, {}, {})
             /\ r.buckets = c.buckets /\ r.lru = c.lru /\ r.chain = c.chain /\ r.disk = c.disk
             /\ \A y \in CacheNode : /\ r.node[y].disk_addr = c.node[y].disk_addr
                                     /\ r.node[y].cache_addr = c.node[y].cache_addr
             /\ r.memory[c.node[n].cache_addr] = x
             /\ \A a \in Slot(c) : a # c.node[n].cache_addr => r.memory[a] = c.memory[a]
  <1> DEFINE a == c.node[n].cache_addr
             v == [c.memory EXCEPT ![a] = x]
             w == [c.node EXCEPT ![n].dirty = TRUE]
             r == Overwritten(c, n, x)
  <1>1. /\ IsCache(c) /\ c.buckets >= 2 /\ HintInMap(c) /\ ChainShape(c) /\ ChainsListed(c)
        /\ Listed(c, {}) /\ Held(c, {}) /\ Len(c.lru) <= c.buckets - 1
    BY DEF Partial
  <1>2. a \in DOMAIN c.memory
    BY <1>1 DEF IsCache
  <1>3. r = [c EXCEPT !.memory = v, !.node = w]
    BY DEF Overwritten
  <1>4. /\ w \in [CacheNode -> [disk_addr : Block(c), cache_addr : Slot(c), dirty : BOOLEAN]]
        /\ \A y \in CacheNode : /\ w[y].disk_addr = c.node[y].disk_addr
                                /\ w[y].cache_addr = c.node[y].cache_addr
    BY <1>1 DEF IsCache
  <1>5. DOMAIN v = DOMAIN c.memory /\ v[a] = x /\ \A e \in Slot(c) : e # a => v[e] = c.memory[e]
    <2>1. DOMAIN v = DOMAIN c.memory /\ v[a] = x
      BY <1>2
    <2>2. \A e \in Slot(c) : e # a => v[e] = c.memory[e]
      BY <1>1 DEF IsCache
    <2> QED
      BY <2>1, <2>2
  <1> HIDE DEF a, v, w, r
  <1>6. IsCache(r)
    BY <1>1, <1>3, <1>4, <1>5 DEF IsCache, Slot, Block
  <1>7. /\ r.buckets = c.buckets /\ r.lru = c.lru /\ r.chain = c.chain /\ r.live = c.live
        /\ r.cachemap = c.cachemap /\ r.cache_bit_itr = c.cache_bit_itr /\ r.disk = c.disk
        /\ r.memory = v /\ r.node = w
    BY <1>1, <1>3 DEF IsCache
  <1>8. Slot(r) = Slot(c) /\ \A g : cache_hash(r, g) = cache_hash(c, g)
    BY <1>7 DEF Slot, cache_hash
  <1>9. \A h \in Slot(c) : \A y : In(c.chain[h], y) => y \in CacheNode
    BY <1>1 DEF In, IsCache
  <1>10. ChainShape(r)
    <2>1. DOMAIN c.chain = Slot(c)
      BY <1>1 DEF IsCache
    <2>2. \A y : \A h \in Slot(c) : In(c.chain[h], y) => cache_hash(c, w[y].disk_addr) = h
      BY <1>1, <1>4, <1>9, <2>1 DEF ChainShape
    <2>3. \A h \in Slot(c) : \A i, j \in DOMAIN c.chain[h] :
            w[c.chain[h][i]].disk_addr = w[c.chain[h][j]].disk_addr => i = j
      <3> SUFFICES ASSUME NEW h \in Slot(c), NEW i \in DOMAIN c.chain[h], NEW j \in DOMAIN c.chain[h],
                          w[c.chain[h][i]].disk_addr = w[c.chain[h][j]].disk_addr
                   PROVE  i = j
        OBVIOUS
      <3>1. c.chain[h][i] \in CacheNode /\ c.chain[h][j] \in CacheNode
        BY <1>9 DEF In
      <3> QED
        BY <1>1, <1>4, <2>1, <3>1 DEF ChainShape
    <2> QED
      BY <1>7, <1>8, <2>1, <2>2, <2>3 DEF ChainShape
  <1>11. ChainsListed(r) /\ Listed(r, {})
    BY <1>1, <1>7, <1>8 DEF ChainsListed, Listed
  <1>12. Held(r, {})
    <2>1. \A y : In(c.lru, y) => y \in CacheNode
      BY <1>1 DEF In, IsCache
    <2>2. \A y, e : Uses(r, y, e) <=> Uses(c, y, e)
      BY <1>4, <1>7, <2>1 DEF Uses
    <2> QED
      BY <1>1, <1>7, <1>8, <2>2 DEF Held
  <1>13. HintInMap(r) /\ r.buckets >= 2 /\ Len(r.lru) <= r.buckets - 1
    BY <1>1, <1>7 DEF HintInMap
  <1>14. Partial(r, {}, {})
    BY <1>6, <1>10, <1>11, <1>12, <1>13 DEF Partial
  <1> QED
    BY <1>4, <1>5, <1>7, <1>14 DEF a, r

\* A write that hits overwrites the slot of the new node.
LEMMA WriteHit ==
  ASSUME NEW c, Partial(c, {}, {}), NEW b \in Block(c), check_disk_block_in_cache(c, b), NEW x,
         IsFiniteSet(CacheNode), Cardinality(CacheNode) >= c.buckets
  PROVE  /\ NewNode(c) \in CacheNode
         /\ write_block_modified(c, b, x)
              = Overwritten(retrieve_block_from_cache(c, b), NewNode(c), x)
  <1> DEFINE d == retrieve_block_from_cache(c, b)
             new == NewNode(c)
  <1>1. Partial(d, {}, {}) /\ Replaces(d, c, b, CachedNode(c, b), new)
    BY RetrieveSound
  <1>2. new \in CacheNode
    BY NodeAvailable
  <1>3. write_block_modified(c, b, x) = Overwritten(d, CachedNode(d, b), x)
    BY DEF write_block_modified, Overwritten
  <1> HIDE DEF d, new
  <1>4. b \in Block(d) /\ In(d.chain[cache_hash(d, b)], new) /\ d.node[new].disk_addr = b
    BY <1>1 DEF Replaces, Block, cache_hash
  <1>5. CachedNode(d, b) = new
    BY <1>1, <1>4, ContentsOf DEF Partial
  <1> QED
    BY <1>2, <1>3, <1>5 DEF d, new

\* The structure of the cache of objstore.c (what its chains, its list and its slot
\* bitmap say of each other) survives every read and every write of a block.
THEOREM AccessesSound ==
  ASSUME NEW c, Sound(c), NEW b \in Block(c), NEW x,
         IsFiniteSet(CacheNode), Cardinality(CacheNode) >= c.buckets
  PROVE  Sound(read_block_modified(c, b)) /\ Sound(write_block_modified(c, b, x))
  <1>1. Partial(c, {}, {})
    BY SoundIsPartial
  <1>2. CASE check_disk_block_in_cache(c, b)
    <2>1. Partial(retrieve_block_from_cache(c, b), {}, {})
      BY <1>1, <1>2, RetrieveSound
    <2>2. read_block_modified(c, b) = retrieve_block_from_cache(c, b)
      BY <1>2 DEF read_block_modified
    <2>3. Partial(write_block_modified(c, b, x), {}, {})
      <3>1. /\ NewNode(c) \in CacheNode
            /\ write_block_modified(c, b, x)
                 = Overwritten(retrieve_block_from_cache(c, b), NewNode(c), x)
        BY <1>1, <1>2, WriteHit
      <3> QED
        BY <2>1, <3>1, OverwrittenSound
    <2> QED
      BY <2>1, <2>2, <2>3, SoundIsPartial
  <1>3. CASE ~check_disk_block_in_cache(c, b)
    <2>1. Partial(Fill(c, b, c.disk[b], FALSE), {}, {}) /\ Partial(Fill(c, b, x, TRUE), {}, {})
      BY <1>1, <1>3, FillSound
    <2>2. /\ read_block_modified(c, b) = Fill(c, b, c.disk[b], FALSE)
          /\ write_block_modified(c, b, x) = Fill(c, b, x, TRUE)
      BY <1>3 DEF read_block_modified, write_block_modified
    <2> QED
      BY <2>1, <2>2, SoundIsPartial
  <1> QED
    BY <1>2, <1>3

-----------------------------------------------------------------------------
(* Contents, while the blocks in use fit.                                  *)

\* Every node of the list can be found, and has a slot of its own.
Kept(c) ==
  \A m : In(c.lru, m) =>
    /\ In(c.chain[cache_hash(c, c.node[m].disk_addr)], m)
    /\ c.node[m].cache_addr # 0

\* A block is read from the slot of its node on the list, or from the disk.
LEMMA ContentsListed ==
  ASSUME NEW c, Partial(c, {}, {}), Kept(c), NEW b \in Block(c)
  PROVE  /\ \A m : In(c.lru, m) /\ c.node[m].disk_addr = b
                     => Contents(c, b) = c.memory[c.node[m].cache_addr]
         /\ (\A m : In(c.lru, m) => c.node[m].disk_addr # b) => Contents(c, b) = c.disk[b]
         /\ (~check_disk_block_in_cache(c, b))
              => \A m : In(c.lru, m) => c.node[m].disk_addr # b
  <1>1. IsCache(c) /\ ChainShape(c) /\ ChainsListed(c)
    BY DEF Partial
  <1>2. cache_hash(c, b) \in Slot(c)
    BY <1>1, HashRange
  <1>3. \A m : In(c.chain[cache_hash(c, b)], m) => In(c.lru, m)
    BY <1>1, <1>2 DEF ChainsListed
  <1>4. \A m : In(c.lru, m) /\ c.node[m].disk_addr = b => In(c.chain[cache_hash(c, b)], m)
    BY DEF Kept
  <1>5. /\ \A m : In(c.chain[cache_hash(c, b)], m) /\ c.node[m].disk_addr = b =>
             /\ check_disk_block_in_cache(c, b) /\ CachedNode(c, b) = m
             /\ Contents(c, b) = c.memory[c.node[m].cache_addr]
        /\ (\A m : In(c.chain[cache_hash(c, b)], m) => c.node[m].disk_addr # b)
             => Contents(c, b) = c.disk[b]
    BY <1>1, ContentsOf
  <1> QED
    BY <1>3, <1>4, <1>5

\* Two nodes of the list have no slot in common.
LEMMA OwnSlot ==
  ASSUME NEW c, Partial(c, {}, {}), Kept(c), NEW m, In(c.lru, m)
  PROVE  /\ c.node[m].cache_addr \in Slot(c) /\ c.node[m].cache_addr \in c.cachemap
         /\ c.node[m].disk_addr \in Block(c) /\ m \in CacheNode
         /\ \A y : In(c.lru, y) /\ y # m => c.node[y].cache_addr # c.node[m].cache_addr
  <1>1. IsCache(c) /\ Held(c, {})
    BY DEF Partial
  <1>2. m \in CacheNode
    BY <1>1 DEF In, IsCache
  <1>3. c.node[m].cache_addr \in Slot(c) /\ c.node[m].disk_addr \in Block(c)
    BY <1>1, <1>2 DEF IsCache
  <1>4. c.node[m].cache_addr # 0 /\ Uses(c, m, c.node[m].cache_addr)
    BY DEF Kept, Uses
  <1>5. c.node[m].cache_addr \in c.cachemap
    BY <1>1, <1>3, <1>4 DEF Held
  <1>6. \A y : In(c.lru, y) /\ c.node[y].cache_addr = c.node[m].cache_addr => y = m
    BY <1>1, <1>4 DEF Held, Uses
  <1> QED
    BY <1>2, <1>3, <1>5, <1>6

\* The slots do not run out before the list is two nodes short of its buckets.
LEMMA SlotLeft ==
  ASSUME NEW c, Partial(c, {}, {}), Len(c.lru) + 1 <= c.buckets - 2
  PROVE  Clear(c.cachemap, c.buckets) # {}
  <1> DEFINE f == [i \in 1 .. Len(c.lru) |-> c.node[c.lru[i]].cache_addr]
             T == {f[i] : i \in 1 .. Len(c.lru)}
  <1>1. SUFFICES ASSUME Clear(c.cachemap, c.buckets) = {} PROVE FALSE
    OBVIOUS
  <1>2. /\ c.lru \in Seq(CacheNode) /\ Len(c.lru) \in Nat /\ DOMAIN c.lru = 1 .. Len(c.lru)
        /\ c.buckets \in Nat /\ Held(c, {})
    BY DEF Partial, IsCache
  <1>3. 2 .. c.buckets - 1 \subseteq T
    <2> SUFFICES ASSUME NEW s \in 2 .. c.buckets - 1 PROVE s \in T
      OBVIOUS
    <2>1. s \in c.cachemap /\ s \in Slot(c)
      BY <1>1, <1>2 DEF Clear, Slot
    <2>2. PICK m : Uses(c, m, s)
      BY <1>2, <2>1 DEF Held
    <2>3. PICK i \in DOMAIN c.lru : c.lru[i] = m
      BY <2>2 DEF Uses, In
    <2>4. f[i] = s /\ i \in 1 .. Len(c.lru)
      BY <1>2, <2>2, <2>3 DEF Uses
    <2> QED
      BY <2>4
  <1>4. f \in Surjection(1 .. Len(c.lru), T)
    BY DEF Surjection
  <1>5. IsFiniteSet(1 .. Len(c.lru)) /\ Cardinality(1 .. Len(c.lru)) = Len(c.lru)
    <2>1. Len(c.lru) \in Nat
      BY <1>2
    <2> HIDE DEF f, T
    <2> QED
      BY <2>1, FS_Interval
  <1> HIDE DEF f, T
  <1>6. IsFiniteSet(T) /\ Cardinality(T) <= Len(c.lru)
    BY <1>4, <1>5, FS_Surjection
  <1>7. /\ IsFiniteSet(2 .. c.buckets - 1)
        /\ Cardinality(2 .. c.buckets - 1) = c.buckets - 2
    <2>1. 2 \in Int /\ c.buckets - 1 \in Int /\ ~(2 > c.buckets - 1)
      BY <1>2
    <2>2. (c.buckets - 1) - 2 + 1 = c.buckets - 2
      BY <1>2
    <2> QED
      BY <2>1, <2>2, FS_Interval
  <1>8. Cardinality(2 .. c.buckets - 1) <= Cardinality(T)
    BY <1>3, <1>6, FS_Subset
  <1>9. Cardinality(T) \in Nat
    BY <1>6, FS_CardinalityType
  <1> QED
    BY <1>2, <1>6, <1>7, <1>8, <1>9

\* r holds for every block what c does, but x for block b.
Written(r, c, b, x) ==
  /\ Kept(r)
  /\ \A d \in Block(c) : Contents(r, d) = IF d = b THEN x ELSE Contents(c, d)

\* A hit moves no contents: the block is still in the slot it was in.
LEMMA HitKeeps ==
  ASSUME NEW c, Partial(c, {}, {}), Kept(c), NEW b \in Block(c), check_disk_block_in_cache(c, b),
         IsFiniteSet(CacheNode), Cardinality(CacheNode) >= c.buckets,
         Fits(retrieve_block_from_cache(c, b))
  PROVE  LET r == retrieve_block_from_cache(c, b)
             new == NewNode(c)
         IN  /\ Written(r, c, b, Contents(c, b))
             /\ In(r.lru, new) /\ r.node[new].disk_addr = b /\ Block(r) = Block(c)
  <1> DEFINE r == retrieve_block_from_cache(c, b)
             new == NewNode(c)
             old == CachedNode(c, b)
             h == cache_hash(c, b)
  <1>1. Partial(r, {}, {}) /\ Replaces(r, c, b, old, new)
    BY RetrieveSound
  <1>2. Fits(r)
    OBVIOUS
  <1> HIDE DEF r, new, old, h
  <1>3. /\ r.memory = c.memory /\ r.disk = c.disk /\ Block(r) = Block(c) /\ Slot(r) = Slot(c)
        /\ In(c.lru, old) /\ c.node[old].disk_addr = b
        /\ r.node[new].disk_addr = b /\ r.node[new].cache_addr = c.node[old].cache_addr
        /\ \A y : In(c.lru, y) => r.node[y] = c.node[y]
        /\ \A y : In(r.lru, y) <=> (In(c.lru, y) /\ y # old) \/ y = new
        /\ In(r.chain[h], new)
        /\ \A g \in Slot(c) : g # h => \A y : In(r.chain[g], y) <=> In(c.chain[g], y)
        /\ \A g : cache_hash(r, g) = cache_hash(c, g)
    BY <1>1 DEF Replaces, Uses, Block, Slot, cache_hash, h
  <1>4. \A y, z : In(r.lru, y) /\ In(r.lru, z)
                    /\ cache_hash(r, r.node[y].disk_addr) = cache_hash(r, r.node[z].disk_addr)
                  => y = z
    BY <1>2 DEF Fits, In
  <1>5. Kept(r)
    <2> SUFFICES ASSUME NEW y, In(r.lru, y)
                 PROVE  /\ In(r.chain[cache_hash(r, r.node[y].disk_addr)], y)
                        /\ r.node[y].cache_addr # 0
      BY DEF Kept
    <2>1. CASE y = new
      <3>1. cache_hash(r, r.node[y].disk_addr) = h
        BY <1>3, <2>1 DEF h
      <3>2. c.node[old].cache_addr # 0
        BY <1>3 DEF Kept
      <3> QED
        BY <1>3, <2>1, <3>1, <3>2
    <2>2. CASE y # new
      <3>1. In(c.lru, y) /\ r.node[y] = c.node[y] /\ In(r.lru, new)
        BY <1>3, <2>2
      <3>2. cache_hash(r, c.node[y].disk_addr) # h
        BY <1>3, <1>4, <2>2, <3>1 DEF h
      <3>3. cache_hash(c, c.node[y].disk_addr) \in Slot(c)
        <4>1. c.node[y].disk_addr \in Block(c)
          BY <3>1, OwnSlot
        <4>2. IsCache(c)
          BY DEF Partial
        <4> QED
          BY <4>1, <4>2, HashRange
      <3>4. In(c.chain[cache_hash(c, c.node[y].disk_addr)], y) /\ c.node[y].cache_addr # 0
        BY <3>1 DEF Kept
      <3> QED
        BY <1>3, <3>1, <3>2, <3>3, <3>4
    <2> QED
      BY <2>1, <2>2
  <1>6. ASSUME NEW d \in Block(c)
        PROVE  Contents(r, d) = Contents(c, d)
    <2>1. /\ \A m : In(c.lru, m) /\ c.node[m].disk_addr = d
                        => Contents(c, d) = c.memory[c.node[m].cache_addr]
          /\ (\A m : In(c.lru, m) => c.node[m].disk_addr # d) => Contents(c, d) = c.disk[d]
      BY ContentsListed
    <2>2. /\ \A m : In(r.lru, m) /\ r.node[m].disk_addr = d
                        => Contents(r, d) = r.memory[r.node[m].cache_addr]
          /\ (\A m : In(r.lru, m) => r.node[m].disk_addr # d) => Contents(r, d) = r.disk[d]
      BY <1>1, <1>3, <1>5, ContentsListed
    <2>3. CASE d = b
      <3>1. Contents(r, d) = r.memory[r.node[new].cache_addr]
        BY <1>3, <2>2, <2>3
      <3>2. Contents(c, d) = c.memory[c.node[old].cache_addr]
        BY <1>3, <2>1, <2>3
      <3> QED
        BY <1>3, <3>1, <3>2
    <2>4. CASE d # b
      <3>1. CASE \E m : In(c.lru, m) /\ c.node[m].disk_addr = d
        <4>1. PICK m : In(c.lru, m) /\ c.node[m].disk_addr = d
          BY <3>1
        <4>2. In(r.lru, m) /\ r.node[m] = c.node[m]
          BY <1>3, <2>4, <4>1
        <4> QED
          BY <1>3, <2>1, <2>2, <4>1, <4>2
      <3>2. CASE \A m : In(c.lru, m) => c.node[m].disk_addr # d
        <4>1. \A m : In(r.lru, m) => r.node[m].disk_addr # d
          BY <1>3, <2>4, <3>2
        <4> QED
          BY <1>3, <2>1, <2>2, <3>2, <4>1
      <3> QED
        BY <3>1, <3>2
    <2> QED
      BY <2>3, <2>4
  <1>7. Written(r, c, b, Contents(c, b))
    BY <1>5, <1>6 DEF Written
  <1> QED
    BY <1>3, <1>7 DEF r, new

\* Overwriting the slot of a listed node changes one block.
LEMMA OverwriteKeeps ==
  ASSUME NEW c, Partial(c, {}, {}), Kept(c), NEW n, In(c.lru, n), NEW x
  PROVE  Written(Overwritten(c, n, x), c, c.node[n].disk_addr, x)
  <1> DEFINE r == Overwritten(c, n, x)
             b == c.node[n].disk_addr
  <1>1. n \in CacheNode /\ b \in Block(c)
    BY OwnSlot
  <1>2. /\ Partial(r, {}, {})
        /\ r.buckets = c.buckets /\ r.lru = c.lru /\ r.chain = c.chain /\ r.disk = c.disk
        /\ \A y \in CacheNode : /\ r.node[y].disk_addr = c.node[y].disk_addr
                                /\ r.node[y].cache_addr = c.node[y].cache_addr
        /\ r.memory[c.node[n].cache_addr] = x
        /\ \A a \in Slot(c) : a # c.node[n].cache_addr => r.memory[a] = c.memory[a]
    BY <1>1, OverwrittenSound
  <1> HIDE DEF r
  <1>3. \A y : In(c.lru, y) => y \in CacheNode /\ c.node[y].cache_addr \in Slot(c)
    BY OwnSlot
  <1>4. Kept(r)
    BY <1>2, <1>3 DEF Kept, cache_hash
  <1>5. ASSUME NEW d \in Block(c)
        PROVE  Contents(r, d) = IF d = b THEN x ELSE Contents(c, d)
    <2>1. /\ \A m : In(c.lru, m) /\ c.node[m].disk_addr = d
                        => Contents(c, d) = c.memory[c.node[m].cache_addr]
          /\ (\A m : In(c.lru, m) => c.node[m].disk_addr # d) => Contents(c, d) = c.disk[d]
      BY ContentsListed
    <2>2. /\ \A m : In(r.lru, m) /\ r.node[m].disk_addr = d
                        => Contents(r, d) = r.memory[r.node[m].cache_addr]
          /\ (\A m : In(r.lru, m) => r.node[m].disk_addr # d) => Contents(r, d) = r.disk[d]
      <3>1. d \in Block(r)
        BY <1>2 DEF Block
      <3> QED
        BY <1>2, <1>4, <3>1, ContentsListed
    <2>3. CASE d = b
      BY <1>1, <1>2, <2>2, <2>3
    <2>4. CASE d # b
      <3>1. ASSUME NEW m, In(c.lru, m), c.node[m].disk_addr = d
            PROVE  Contents(r, d) = Contents(c, d)
        <4>1. m # n /\ m \in CacheNode
          BY <1>3, <2>4, <3>1
        <4>2. c.node[m].cache_addr # c.node[n].cache_addr
          BY <3>1, <4>1, OwnSlot
        <4>3. r.memory[c.node[m].cache_addr] = c.memory[c.node[m].cache_addr]
          BY <1>2, <1>3, <3>1, <4>2
        <4> QED
          BY <1>2, <2>1, <2>2, <3>1, <4>1, <4>3
      <3>2. CASE \A m : In(c.lru, m) => c.node[m].disk_addr # d
        BY <1>2, <1>3, <2>1, <2>2, <3>2
      <3> QED
        BY <2>4, <3>1, <3>2
    <2> QED
      BY <2>3, <2>4
  <1> QED
    BY <1>4, <1>5 DEF Written, r

\* A miss that makes no room moves no contents but those it brings.
LEMMA FillKeeps ==
  ASSUME NEW c, Partial(c, {}, {}), Kept(c), NEW b \in Block(c), ~check_disk_block_in_cache(c, b),
         NEW x, NEW dirty \in BOOLEAN,
         IsFiniteSet(CacheNode), Cardinality(CacheNode) >= c.buckets,
         Fits(Fill(c, b, x, dirty))
  PROVE  Written(Fill(c, b, x, dirty), c, b, x)
  <1> DEFINE r == Fill(c, b, x, dirty)
  <1>1. Fits(r)
    OBVIOUS
  <1>2. /\ Partial(r, {}, {})
        /\ \E s \in Slot(c) : \E new :
             /\ s \in Clear(c.cachemap, c.buckets) \/ (Clear(c.cachemap, c.buckets) = {} /\ s = 0)
             /\ SameButSlot(SlotTaken(c, s, x), c, s) /\ SlotTaken(c, s, x).memory[s] = x
             /\ Inserts(r, SlotTaken(c, s, x), b, s, new)
    BY FillSound
  <1> HIDE DEF r
  <1>2a. PICK s \in Slot(c) : \E new :
             /\ s \in Clear(c.cachemap, c.buckets) \/ (Clear(c.cachemap, c.buckets) = {} /\ s = 0)
             /\ SameButSlot(SlotTaken(c, s, x), c, s) /\ SlotTaken(c, s, x).memory[s] = x
             /\ Inserts(r, SlotTaken(c, s, x), b, s, new)
    BY <1>2
  <1>3. PICK new :
             /\ s \in Clear(c.cachemap, c.buckets) \/ (Clear(c.cachemap, c.buckets) = {} /\ s = 0)
             /\ SameButSlot(SlotTaken(c, s, x), c, s) /\ SlotTaken(c, s, x).memory[s] = x
             /\ Inserts(r, SlotTaken(c, s, x), b, s, new)
    BY <1>2a
  <1> DEFINE d == SlotTaken(c, s, x)
             h == cache_hash(c, b)
  <1>4. SameButSlot(d, c, s) /\ d.memory[s] = x /\ Inserts(r, d, b, s, new)
    BY <1>3
  <1> HIDE DEF d, h
  <1>5. /\ d.buckets = c.buckets /\ d.lru = c.lru /\ d.chain = c.chain /\ d.node = c.node
        /\ d.disk = c.disk /\ Block(d) = Block(c) /\ Slot(d) = Slot(c)
        /\ \A a \in Slot(c) : a # s => d.memory[a] = c.memory[a]
        /\ \A g : cache_hash(d, g) = cache_hash(c, g)
        /\ MustEvict(d) <=> MustEvict(c)
    BY <1>4 DEF SameButSlot, Slot, cache_hash, MustEvict
  <1>6. /\ c.lru \in Seq(CacheNode) /\ Len(c.lru) \in Nat /\ c.buckets \in Nat
        /\ c.cachemap \subseteq 2 .. c.buckets - 1
    BY DEF Partial, IsCache
  <1>7. ~MustEvict(c) /\ Len(c.lru) + 1 <= c.buckets - 2
    <2>1. r.buckets = c.buckets /\ Len(r.lru) <= c.buckets - 2
      BY <1>1, <1>4, <1>5 DEF Fits, Inserts
    <2>2. CASE MustEvict(c)
      <3>1. Len(r.lru) = Len(c.lru)
        BY <1>4, <1>5, <2>2 DEF Inserts
      <3>2. Len(c.lru) >= c.buckets - 1
        BY <2>2 DEF MustEvict
      <3> QED
        BY <1>6, <2>1, <3>1, <3>2
    <2>3. CASE ~MustEvict(c)
      <3>1. Len(r.lru) = Len(c.lru) + 1
        BY <1>4, <1>5, <2>3 DEF Inserts
      <3> QED
        BY <2>1, <2>3, <3>1
    <2> QED
      BY <2>2, <2>3
  <1>8. s # 0 /\ s \notin c.cachemap
    <2>1. s \in Clear(c.cachemap, c.buckets)
      BY <1>3, <1>7, SlotLeft
    <2> QED
      BY <1>6, <2>1 DEF Clear
  <1>9. /\ r.buckets = c.buckets /\ r.memory = d.memory /\ r.disk = c.disk /\ Block(r) = Block(c)
        /\ In(r.lru, new) /\ In(r.chain[h], new)
        /\ r.node[new].disk_addr = b /\ r.node[new].cache_addr = s
        /\ \A y : In(c.lru, y) => r.node[y] = c.node[y]
        /\ \A y : In(r.lru, y) <=> In(c.lru, y) \/ y = new
        /\ \A y : \A g \in Slot(c) :
             In(r.chain[g], y) <=> In(c.chain[g], y) \/ (g = h /\ y = new)
    BY <1>4, <1>5, <1>7 DEF Inserts, h
  <1>10. \A g : cache_hash(r, g) = cache_hash(c, g)
    BY <1>9 DEF cache_hash
  <1>11. Kept(r)
    <2> SUFFICES ASSUME NEW y, In(r.lru, y)
                 PROVE  /\ In(r.chain[cache_hash(r, r.node[y].disk_addr)], y)
                        /\ r.node[y].cache_addr # 0
      BY DEF Kept
    <2>1. CASE y = new
      BY <1>8, <1>9, <1>10, <2>1 DEF h
    <2>2. CASE y # new
      <3>1. In(c.lru, y) /\ r.node[y] = c.node[y]
        BY <1>9, <2>2
      <3>2. cache_hash(c, c.node[y].disk_addr) \in Slot(c)
        <4>1. c.node[y].disk_addr \in Block(c)
          BY <3>1, OwnSlot
        <4>2. IsCache(c)
          BY DEF Partial
        <4> QED
          BY <4>1, <4>2, HashRange
      <3>3. In(c.chain[cache_hash(c, c.node[y].disk_addr)], y) /\ c.node[y].cache_addr # 0
        BY <3>1 DEF Kept
      <3> QED
        BY <1>9, <1>10, <3>1, <3>2, <3>3
    <2> QED
      BY <2>1, <2>2
  <1>12. ASSUME NEW e \in Block(c)
         PROVE  Contents(r, e) = IF e = b THEN x ELSE Contents(c, e)
    <2>1. /\ \A m : In(c.lru, m) /\ c.node[m].disk_addr = e
                        => Contents(c, e) = c.memory[c.node[m].cache_addr]
          /\ (\A m : In(c.lru, m) => c.node[m].disk_addr # e) => Contents(c, e) = c.disk[e]
      BY ContentsListed
    <2>2. /\ \A m : In(r.lru, m) /\ r.node[m].disk_addr = e
                        => Contents(r, e) = r.memory[r.node[m].cache_addr]
          /\ (\A m : In(r.lru, m) => r.node[m].disk_addr # e) => Contents(r, e) = r.disk[e]
      BY <1>2, <1>9, <1>11, ContentsListed
    <2>3. CASE e = b
      BY <1>4, <1>9, <2>2, <2>3
    <2>4. CASE e # b
      <3>1. ASSUME NEW m, In(c.lru, m), c.node[m].disk_addr = e
            PROVE  Contents(r, e) = Contents(c, e)
        <4>1. c.node[m].cache_addr \in c.cachemap /\ c.node[m].cache_addr \in Slot(c)
          BY <3>1, OwnSlot
        <4>2. d.memory[c.node[m].cache_addr] = c.memory[c.node[m].cache_addr]
          BY <1>5, <1>8, <4>1
        <4>3. In(r.lru, m) /\ r.node[m] = c.node[m]
          BY <1>9, <3>1
        <4> QED
          BY <1>9, <2>1, <2>2, <3>1, <4>2, <4>3
      <3>2. CASE \A m : In(c.lru, m) => c.node[m].disk_addr # e
        <4>1. \A m : In(r.lru, m) => r.node[m].disk_addr # e
          BY <1>9, <2>4, <3>2
        <4> QED
          BY <1>9, <2>1, <2>2, <3>2, <4>1
      <3> QED
        BY <2>4, <3>1, <3>2
    <2> QED
      BY <2>3, <2>4
  <1> QED
    BY <1>11, <1>12 DEF Written, r

\* A cached block of objstore.c reads as what was last written to it, and no access
\* disturbs another block, as long as the blocks in use have slots and buckets of
\* their own.
THEOREM AccessesKeepContents ==
  ASSUME NEW c, Sound(c), Kept(c), NEW b \in Block(c), NEW x,
         IsFiniteSet(CacheNode), Cardinality(CacheNode) >= c.buckets
  PROVE  /\ Fits(read_block_modified(c, b))
              => Written(read_block_modified(c, b), c, b, Contents(c, b))
         /\ Fits(write_block_modified(c, b, x))
              => Written(write_block_modified(c, b, x), c, b, x)
  <1>1. Partial(c, {}, {})
    BY SoundIsPartial
  <1>2. CASE check_disk_block_in_cache(c, b)
    <2> DEFINE d == retrieve_block_from_cache(c, b)
               n == NewNode(c)
               w == write_block_modified(c, b, x)
    <2>1. read_block_modified(c, b) = d
      BY <1>2 DEF read_block_modified
    <2>2. Partial(d, {}, {})
      BY <1>1, <1>2, RetrieveSound
    <2>3. n \in CacheNode /\ w = Overwritten(d, n, x)
      BY <1>1, <1>2, WriteHit
    <2>4. Fits(d) => /\ Written(d, c, b, Contents(c, b))
                     /\ In(d.lru, n) /\ d.node[n].disk_addr = b /\ Block(d) = Block(c)
      BY <1>1, <1>2, HitKeeps
    <2> HIDE DEF d, n, w
    <2>5. Fits(w) => Fits(d)
      <3>1. /\ w.buckets = d.buckets /\ w.lru = d.lru
            /\ \A y \in CacheNode : w.node[y].disk_addr = d.node[y].disk_addr
        BY <2>2, <2>3, OverwrittenSound
      <3>2. \A i \in DOMAIN d.lru : d.lru[i] \in CacheNode
        BY <2>2 DEF Partial, IsCache
      <3> QED
        BY <3>1, <3>2 DEF Fits, cache_hash
    <2>6. Fits(w) => Written(w, c, b, x)
      <3> SUFFICES ASSUME Fits(w) PROVE Written(w, c, b, x)
        OBVIOUS
      <3>1. /\ Written(d, c, b, Contents(c, b))
            /\ In(d.lru, n) /\ d.node[n].disk_addr = b /\ Block(d) = Block(c)
        BY <2>4, <2>5
      <3>2. Written(w, d, b, x)
        BY <2>2, <2>3, <3>1, OverwriteKeeps DEF Written
      <3> QED
        BY <3>1, <3>2 DEF Written
    <2> QED
      BY <2>1, <2>4, <2>6 DEF d, w
  <1>3. CASE ~check_disk_block_in_cache(c, b)
    <2>1. /\ read_block_modified(c, b) = Fill(c, b, c.disk[b], FALSE)
          /\ write_block_modified(c, b, x) = Fill(c, b, x, TRUE)
      BY <1>3 DEF read_block_modified, write_block_modified
    <2>2. Contents(c, b) = c.disk[b]
      BY <1>1, <1>3, ContentsListed
    <2>3. Fits(Fill(c, b, c.disk[b], FALSE))
            => Written(Fill(c, b, c.disk[b], FALSE), c, b, c.disk[b])
      BY <1>1, <1>3, FillKeeps
    <2>4. Fits(Fill(c, b, x, TRUE)) => Written(Fill(c, b, x, TRUE), c, b, x)
      BY <1>1, <1>3, FillKeeps
    <2> QED
      BY <2>1, <2>2, <2>3, <2>4
  <1> QED
    BY <1>2, <1>3

\* The cache the objfs process starts with satisfies both theorems.
THEOREM EmptyCacheSound ==
  ASSUME NEW B \in Nat, B >= 2, NEW disk, DOMAIN disk \subseteq Nat, 0 \in DOMAIN disk
  PROVE  Sound(EmptyCache(B, disk)) /\ Kept(EmptyCache(B, disk))
  <1> DEFINE c == EmptyCache(B, disk)
  <1>1. /\ c.buckets = B /\ c.lru = <<>> /\ c.chain = [h \in 0 .. B - 1 |-> <<>>]
        /\ c.live = {} /\ c.cachemap = {} /\ c.cache_bit_itr = 0 /\ c.disk = disk
        /\ Slot(c) = 0 .. B - 1
    BY DEF EmptyCache, Slot
  <1>2. IsCache(c)
    BY DEF EmptyCache, IsCache, Slot, Block
  <1>3. HintInMap(c) /\ c.buckets >= 2
    BY <1>1, BitmapAssumption DEF HintInMap
  <1> HIDE DEF c
  <1>4. ChainsSound(c)
    BY <1>1 DEF ChainsSound
  <1>5. ListSound(c)
    BY <1>1 DEF ListSound
  <1>6. SlotsSound(c)
    BY <1>1 DEF SlotsSound
  <1>7. Kept(c)
    BY <1>1 DEF Kept, In
  <1> QED
    BY <1>2, <1>3, <1>4, <1>5, <1>6, <1>7 DEF Sound, c

-----------------------------------------------------------------------------
(* What a cache holds, and what a run of accesses makes of it.             *)

\* Slots and blocks hold members of V.
Holds(c, V) ==
  /\ \A a \in Slot(c) : c.memory[a] \in V
  /\ \A d \in Block(c) : c.disk[d] \in V

\* A read returns one of them.
LEMMA ContentsHeld ==
  ASSUME NEW c, IsCache(c), NEW V, Holds(c, V), NEW b \in Block(c)
  PROVE  Contents(c, b) \in V
  <1> DEFINE i == Place(c, b)
             s == c.chain[cache_hash(c, b)]
  <1>1. CASE i = 0
    BY <1>1 DEF Contents, Holds
  <1>2. CASE i # 0
    <2>1. s \in Seq(CacheNode) /\ i \in DOMAIN s
      BY <1>2, PlaceFinds
    <2>2. s[i] \in CacheNode
      BY <2>1
    <2>3. c.node[s[i]].cache_addr \in Slot(c)
      BY <2>2 DEF IsCache
    <2>4. Contents(c, b) = c.memory[c.node[s[i]].cache_addr]
      BY <1>2 DEF Contents
    <2> QED
      BY <2>3, <2>4 DEF Holds
  <1> QED
    BY <1>1, <1>2

\* Slots lose nothing to other slots, and blocks nothing to other blocks: what a
\* miss leaves was there before or is what it brings.
LEMMA FillHolds ==
  ASSUME NEW c, Partial(c, {}, {}), NEW b \in Block(c), ~check_disk_block_in_cache(c, b),
         NEW V, Holds(c, V), NEW x \in V, NEW dirty \in BOOLEAN,
         IsFiniteSet(CacheNode), Cardinality(CacheNode) >= c.buckets
  PROVE  /\ Holds(Fill(c, b, x, dirty), V)
         /\ Fill(c, b, x, dirty).buckets = c.buckets
         /\ Block(Fill(c, b, x, dirty)) = Block(c)
  <1> DEFINE r == Fill(c, b, x, dirty)
  <1>1. PICK s \in Slot(c) : \E new :
          /\ SameButSlot(SlotTaken(c, s, x), c, s) /\ SlotTaken(c, s, x).memory[s] = x
          /\ Inserts(r, SlotTaken(c, s, x), b, s, new)
    BY FillSound
  <1> DEFINE d == SlotTaken(c, s, x)
  <1>2. SameButSlot(d, c, s) /\ d.memory[s] = x
    BY <1>1
  <1>3. r.buckets = d.buckets /\ r.memory = d.memory /\ Block(r) = Block(d) /\ Spills(r, d)
    BY <1>1 DEF Inserts
  <1> HIDE DEF d, r
  <1>4. /\ d.buckets = c.buckets /\ Block(d) = Block(c) /\ d.disk = c.disk
        /\ \A a \in Slot(c) : d.memory[a] = x \/ d.memory[a] = c.memory[a]
    BY <1>2 DEF SameButSlot
  <1>5. \A a \in Slot(c) : d.memory[a] \in V
    BY <1>4 DEF Holds
  <1>6. Slot(r) = Slot(c) /\ Slot(d) = Slot(c)
    BY <1>3, <1>4 DEF Slot
  <1>7. \A e \in Block(c) : r.disk[e] \in V
    BY <1>3, <1>4, <1>5, <1>6 DEF Spills, Holds
  <1>8. Holds(r, V)
    BY <1>3, <1>4, <1>5, <1>6, <1>7 DEF Holds
  <1> QED
    BY <1>3, <1>4, <1>8 DEF r

\* Nor does an access leave anything else.
LEMMA AccessesHold ==
  ASSUME NEW c, Partial(c, {}, {}), NEW b \in Block(c), NEW V, Holds(c, V), NEW x \in V,
         IsFiniteSet(CacheNode), Cardinality(CacheNode) >= c.buckets
  PROVE  /\ Holds(read_block_modified(c, b), V)
         /\ read_block_modified(c, b).buckets = c.buckets
         /\ Block(read_block_modified(c, b)) = Block(c)
         /\ Holds(write_block_modified(c, b, x), V)
         /\ write_block_modified(c, b, x).buckets = c.buckets
         /\ Block(write_block_modified(c, b, x)) = Block(c)
  <1>1. CASE check_disk_block_in_cache(c, b)
    <2> DEFINE d == retrieve_block_from_cache(c, b)
               n == NewNode(c)
               w == write_block_modified(c, b, x)
    <2>1. read_block_modified(c, b) = d
      BY <1>1 DEF read_block_modified
    <2>2. Partial(d, {}, {}) /\ Replaces(d, c, b, CachedNode(c, b), n)
      BY <1>1, RetrieveSound
    <2>3. n \in CacheNode /\ w = Overwritten(d, n, x)
      BY <1>1, WriteHit
    <2> HIDE DEF d, n, w
    <2>4. d.buckets = c.buckets /\ d.memory = c.memory /\ d.disk = c.disk
      BY <2>2 DEF Replaces
    <2>5. Holds(d, V) /\ Block(d) = Block(c)
      BY <2>4 DEF Holds, Slot, Block
    <2>6. /\ w.buckets = d.buckets /\ w.disk = d.disk
          /\ \A a \in Slot(d) : w.memory[a] = x \/ w.memory[a] = d.memory[a]
      BY <2>2, <2>3, OverwrittenSound
    <2>7. Holds(w, V) /\ Block(w) = Block(c)
      BY <2>5, <2>6 DEF Holds, Slot, Block
    <2> QED
      BY <2>1, <2>4, <2>5, <2>6, <2>7 DEF d, w
  <1>2. CASE ~check_disk_block_in_cache(c, b)
    <2>1. /\ read_block_modified(c, b) = Fill(c, b, c.disk[b], FALSE)
          /\ write_block_modified(c, b, x) = Fill(c, b, x, TRUE)
      BY <1>2 DEF read_block_modified, write_block_modified
    <2>2. c.disk[b] \in V
      BY DEF Holds
    <2>3. /\ Holds(Fill(c, b, c.disk[b], FALSE), V)
          /\ Fill(c, b, c.disk[b], FALSE).buckets = c.buckets
          /\ Block(Fill(c, b, c.disk[b], FALSE)) = Block(c)
      BY <1>2, <2>2, FillHolds
    <2>4. /\ Holds(Fill(c, b, x, TRUE), V) /\ Fill(c, b, x, TRUE).buckets = c.buckets
          /\ Block(Fill(c, b, x, TRUE)) = Block(c)
      BY <1>2, FillHolds
    <2> QED
      BY <2>1, <2>3, <2>4
  <1> QED
    BY <1>1, <1>2

\* The blocks in use have buckets of their own, said of nodes.
Apart(c) ==
  \A y, z : In(c.lru, y) /\ In(c.lru, z)
              /\ cache_hash(c, c.node[y].disk_addr) = cache_hash(c, c.node[z].disk_addr) => y = z

\* On a list without repetitions this is what Fits says of places.
LEMMA FitsApart ==
  ASSUME NEW c, Partial(c, {}, {})
  PROVE  Fits(c) <=> Len(c.lru) <= c.buckets - 2 /\ Apart(c)
  <1>1. Distinct(c.lru)
    BY DEF Partial, Listed
  <1>2. ASSUME Fits(c) PROVE Apart(c)
    BY <1>2 DEF Fits, Apart, In
  <1>3. ASSUME Apart(c), NEW i \in DOMAIN c.lru, NEW j \in DOMAIN c.lru,
               cache_hash(c, c.node[c.lru[i]].disk_addr) = cache_hash(c, c.node[c.lru[j]].disk_addr)
        PROVE  i = j
    <2>1. In(c.lru, c.lru[i]) /\ In(c.lru, c.lru[j])
      BY DEF In
    <2>2. c.lru[i] = c.lru[j]
      BY <1>3, <2>1 DEF Apart
    <2> QED
      BY <1>1, <2>2 DEF Distinct
  <1> QED
    BY <1>2, <1>3 DEF Fits

\* A miss only adds to the blocks in use, unless it makes room, and then they are
\* as many as before.
LEMMA FillFits ==
  ASSUME NEW c, Partial(c, {}, {}), NEW b \in Block(c), ~check_disk_block_in_cache(c, b),
         NEW x, NEW dirty \in BOOLEAN,
         IsFiniteSet(CacheNode), Cardinality(CacheNode) >= c.buckets,
         Fits(Fill(c, b, x, dirty))
  PROVE  Fits(c) /\ Fill(c, b, x, dirty).disk = c.disk
  <1> DEFINE r == Fill(c, b, x, dirty)
  <1>1. Partial(r, {}, {}) /\ Fits(r)
    BY FillSound
  <1>2. PICK s \in Slot(c) : \E new :
          SameButSlot(SlotTaken(c, s, x), c, s) /\ Inserts(r, SlotTaken(c, s, x), b, s, new)
    BY FillSound
  <1> DEFINE d == SlotTaken(c, s, x)
  <1>3. PICK new : SameButSlot(d, c, s) /\ Inserts(r, d, b, s, new)
    BY <1>2
  <1> HIDE DEF r, d
  <1>4. /\ d.buckets = c.buckets /\ d.lru = c.lru /\ d.node = c.node /\ d.disk = c.disk
        /\ MustEvict(d) <=> MustEvict(c)
    BY <1>3 DEF SameButSlot, MustEvict
  <1>5. Len(c.lru) \in Nat /\ c.buckets \in Nat
    BY DEF Partial, IsCache
  <1>6. r.buckets = c.buckets /\ Len(r.lru) <= c.buckets - 2 /\ Apart(r)
    BY <1>1, <1>3, <1>4, FitsApart DEF Inserts
  <1>7. ~MustEvict(c)
    BY <1>3, <1>4, <1>5, <1>6 DEF Inserts, MustEvict
  <1>8. /\ Len(r.lru) = Len(c.lru) + 1 /\ r.disk = c.disk
        /\ \A y : In(c.lru, y) => In(r.lru, y) /\ r.node[y] = c.node[y]
    BY <1>3, <1>4, <1>7 DEF Inserts
  <1>9. Apart(c)
    BY <1>6, <1>8 DEF Apart, cache_hash
  <1>10. Len(c.lru) <= c.buckets - 2
    BY <1>5, <1>6, <1>8
  <1> QED
    BY <1>8, <1>9, <1>10, FitsApart DEF r

\* An access to a block never makes blocks fit that did not, and writes nothing to
\* the disk while they do.
LEMMA AccessesFit ==
  ASSUME NEW c, Partial(c, {}, {}), NEW b \in Block(c), NEW x,
         IsFiniteSet(CacheNode), Cardinality(CacheNode) >= c.buckets
  PROVE  /\ Fits(read_block_modified(c, b))
              => Fits(c) /\ read_block_modified(c, b).disk = c.disk
         /\ Fits(write_block_modified(c, b, x))
              => Fits(c) /\ write_block_modified(c, b, x).disk = c.disk
  <1>1. CASE check_disk_block_in_cache(c, b)
    <2> DEFINE d == retrieve_block_from_cache(c, b)
               new == NewNode(c)
               old == CachedNode(c, b)
               w == write_block_modified(c, b, x)
    <2>1. read_block_modified(c, b) = d
      BY <1>1 DEF read_block_modified
    <2>2. Partial(d, {}, {}) /\ Replaces(d, c, b, old, new)
      BY <1>1, RetrieveSound
    <2>3. new \in CacheNode /\ w = Overwritten(d, new, x)
      BY <1>1, WriteHit
    <2> HIDE DEF d, new, old, w
    <2>4. /\ d.buckets = c.buckets /\ Len(d.lru) = Len(c.lru) /\ d.disk = c.disk
          /\ c.node[old].disk_addr = b /\ d.node[new].disk_addr = b /\ In(d.lru, new)
          /\ ~In(c.lru, new)
          /\ \A y : In(c.lru, y) => /\ d.node[y] = c.node[y]
                                    /\ y = old \/ In(d.lru, y)
      BY <2>2 DEF Replaces
    <2>5. ASSUME Fits(d) PROVE Fits(c)
      <3>1. Len(c.lru) <= c.buckets - 2 /\ Apart(d)
        BY <2>2, <2>4, <2>5, FitsApart
      <3>2. \A y : cache_hash(d, y) = cache_hash(c, y)
        BY <2>4 DEF cache_hash
      <3>3. Apart(c)
        <4> SUFFICES ASSUME NEW y, NEW z, In(c.lru, y), In(c.lru, z),
                            cache_hash(c, c.node[y].disk_addr) = cache_hash(c, c.node[z].disk_addr)
                     PROVE  y = z
          BY DEF Apart
        <4>1. CASE y = old /\ z # old
          <5>1. In(d.lru, z) /\ d.node[z] = c.node[z] /\ z # new
            BY <2>4, <4>1
          <5>2. cache_hash(d, d.node[new].disk_addr) = cache_hash(d, d.node[z].disk_addr)
            BY <2>4, <3>2, <4>1, <5>1
          <5> QED
            BY <2>4, <3>1, <5>1, <5>2 DEF Apart
        <4>2. CASE y # old /\ z = old
          <5>1. In(d.lru, y) /\ d.node[y] = c.node[y] /\ y # new
            BY <2>4, <4>2
          <5>2. cache_hash(d, d.node[new].disk_addr) = cache_hash(d, d.node[y].disk_addr)
            BY <2>4, <3>2, <4>2, <5>1
          <5> QED
            BY <2>4, <3>1, <5>1, <5>2 DEF Apart
        <4>3. CASE y # old /\ z # old
          <5>1. In(d.lru, y) /\ In(d.lru, z) /\ d.node[y] = c.node[y] /\ d.node[z] = c.node[z]
            BY <2>4, <4>3
          <5> QED
            BY <3>1, <3>2, <5>1 DEF Apart
        <4> QED
          BY <4>1, <4>2, <4>3
      <3> QED
        BY <3>1, <3>3, FitsApart
    <2>6. w.disk = d.disk /\ (Fits(w) => Fits(d))
      <3>1. /\ w.buckets = d.buckets /\ w.lru = d.lru /\ w.disk = d.disk
            /\ \A y \in CacheNode : w.node[y].disk_addr = d.node[y].disk_addr
        BY <2>2, <2>3, OverwrittenSound
      <3>2. \A i \in DOMAIN d.lru : d.lru[i] \in CacheNode
        BY <2>2 DEF Partial, IsCache
      <3> QED
        BY <3>1, <3>2 DEF Fits, cache_hash
    <2> QED
      BY <2>1, <2>4, <2>5, <2>6 DEF d, w
  <1>2. CASE ~check_disk_block_in_cache(c, b)
    <2>1. /\ read_block_modified(c, b) = Fill(c, b, c.disk[b], FALSE)
          /\ write_block_modified(c, b, x) = Fill(c, b, x, TRUE)
      BY <1>2 DEF read_block_modified, write_block_modified
    <2>2. Fits(Fill(c, b, c.disk[b], FALSE))
            => Fits(c) /\ Fill(c, b, c.disk[b], FALSE).disk = c.disk
      BY <1>2, FillFits
    <2>3. Fits(Fill(c, b, x, TRUE)) => Fits(c) /\ Fill(c, b, x, TRUE).disk = c.disk
      BY <1>2, FillFits
    <2> QED
      BY <2>1, <2>2, <2>3
  <1> QED
    BY <1>1, <1>2

\* A cache that reads as v, a function of the blocks, over the disk D, as long as the
\* blocks in use fit, and that holds members of V in any case.
Shows(c, D, v, V) ==
  /\ Partial(c, {}, {}) /\ Block(c) = DOMAIN D /\ Holds(c, V)
  /\ Fits(c) => Kept(c) /\ c.disk = D /\ \A d \in Block(c) : Contents(c, d) = v[d]

\* A read shows what was there.
LEMMA ReadShows ==
  ASSUME NEW c, NEW D, NEW v, NEW V, Shows(c, D, v, V), NEW b \in Block(c),
         IsFiniteSet(CacheNode), Cardinality(CacheNode) >= c.buckets
  PROVE  LET r == read_block_modified(c, b)
         IN  Shows(r, D, v, V) /\ r.buckets = c.buckets /\ (Fits(r) => Fits(c))
  <1> DEFINE r == read_block_modified(c, b)
  <1>1. Partial(c, {}, {}) /\ Block(c) = DOMAIN D /\ Holds(c, V) /\ Sound(c)
    BY SoundIsPartial DEF Shows
  <1>2. Holds(r, V) /\ r.buckets = c.buckets /\ Block(r) = Block(c)
    BY <1>1, ContentsHeld, AccessesHold DEF Partial
  <1>3. Partial(r, {}, {})
    BY <1>1, AccessesSound, SoundIsPartial
  <1>4. Fits(r) => Fits(c) /\ r.disk = c.disk
    BY <1>1, AccessesFit
  <1>5. ASSUME Fits(r) PROVE Kept(r) /\ r.disk = D /\ \A d \in Block(r) : Contents(r, d) = v[d]
    <2>1. Fits(c) /\ Kept(c) /\ c.disk = D /\ \A d \in Block(c) : Contents(c, d) = v[d]
      BY <1>4, <1>5 DEF Shows
    <2>2. Written(r, c, b, Contents(c, b))
      BY <1>1, <1>5, <2>1, AccessesKeepContents
    <2> HIDE DEF r
    <2>3. Kept(r) /\ \A d \in Block(c) : Contents(r, d) = Contents(c, d)
      BY <2>2 DEF Written
    <2> QED
      BY <1>2, <1>4, <1>5, <2>1, <2>3
  <1> QED
    BY <1>1, <1>2, <1>3, <1>4, <1>5 DEF Shows

\* A write changes its block.
LEMMA WriteShows ==
  ASSUME NEW c, NEW D, NEW v, NEW V, Shows(c, D, v, V), NEW b \in Block(c), NEW x \in V,
         DOMAIN v = DOMAIN D,
         IsFiniteSet(CacheNode), Cardinality(CacheNode) >= c.buckets
  PROVE  LET r == write_block_modified(c, b, x)
         IN  Shows(r, D, [v EXCEPT ![b] = x], V) /\ r.buckets = c.buckets /\ (Fits(r) => Fits(c))
  <1> DEFINE r == write_block_modified(c, b, x)
             w == [v EXCEPT ![b] = x]
  <1>1. Partial(c, {}, {}) /\ Block(c) = DOMAIN D /\ Holds(c, V) /\ Sound(c)
    BY SoundIsPartial DEF Shows
  <1>2. Holds(r, V) /\ r.buckets = c.buckets /\ Block(r) = Block(c)
    BY <1>1, AccessesHold
  <1>3. Partial(r, {}, {})
    BY <1>1, AccessesSound, SoundIsPartial
  <1>4. Fits(r) => Fits(c) /\ r.disk = c.disk
    BY <1>1, AccessesFit
  <1>5. ASSUME Fits(r) PROVE Kept(r) /\ r.disk = D /\ \A d \in Block(r) : Contents(r, d) = w[d]
    <2>1. Fits(c) /\ Kept(c) /\ c.disk = D /\ \A d \in Block(c) : Contents(c, d) = v[d]
      BY <1>4, <1>5 DEF Shows
    <2>2. Written(r, c, b, x)
      BY <1>1, <1>5, <2>1, AccessesKeepContents
    <2> HIDE DEF r
    <2>3. Kept(r) /\ \A d \in Block(c) : Contents(r, d) = IF d = b THEN x ELSE Contents(c, d)
      BY <2>2 DEF Written
    <2>4. \A d \in Block(c) : w[d] = IF d = b THEN x ELSE v[d]
      BY <1>1
    <2> QED
      BY <1>2, <1>4, <1>5, <2>1, <2>3, <2>4
  <1> QED
    BY <1>1, <1>2, <1>3, <1>4, <1>5 DEF Shows
=============================================================================
