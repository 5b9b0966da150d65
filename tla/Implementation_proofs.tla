----------------------- MODULE Implementation_proofs ------------------------
(***************************************************************************)
(* ObjStore implements ObjectStore, for every set of keys, every size of   *)
(* the disk and of the cache: what clients see, a record of the history of *)
(* the requests, is what the hash table, the records, the pointer blocks   *)
(* and the pages say, so that each request answers as the abstract store.  *)
(***************************************************************************)
EXTENDS ObjStore_proofs, ObjectClients, FiniteSetTheorems

-----------------------------------------------------------------------------
(* What clients see. The bucket of a key leads to its object, if it has    *)
(* one; the record leads to the pointer block, and this to the pages.      *)

\* Each of these identifiers has a record, in the bucket of its key, and the buckets
\* have no others.
Indexed(c, table, ids) ==
  /\ \A i \in ids :
       /\ i \in Identifier /\ i # 0 /\ IsObject(c, i) /\ get_object_by_id(c, i).key \in Key
       /\ In(table[Hash[get_object_by_id(c, i).key]], i)
       /\ \A j \in ids : get_object_by_id(c, i).key = get_object_by_id(c, j).key => i = j
  /\ \A h \in Bucket : \A i : In(table[h], i) => i \in ids

\* What is shown of the object of record i.
Shown(c, i) ==
  LET obj == get_object_by_id(c, i)
      ptr == PointersIn(Contents(c, obj.level1))
  IN  IF obj.blocknum = 0 THEN [state |-> "empty", page |-> Nothing, size |-> 0]
      ELSE IF ptr[0] = 0 THEN [state |-> "truncated", page |-> Nothing, size |-> 0]
      ELSE [state |-> "written", page |-> ByteIn(Contents(c, ptr[0]), 0), size |-> obj.size]

\* The size counts something once there are blocks; each block is of one page, and it
\* was written.
Whole(c, i) ==
  LET obj == get_object_by_id(c, i)
      ptr == PointersIn(Contents(c, obj.level1))
  IN  /\ obj.size > 0 <=> obj.blocknum > 0
      /\ obj.blocknum > 0 =>
           \A p \in 0 .. PointersPerBlock - 1 : ptr[p] # 0 =>
             /\ \A q \in 0 .. PointersPerBlock - 1 : ptr[p] = ptr[q] => p = q
             /\ \E v \in Value : Contents(c, ptr[p]) = PageOf(v)

\* A lookup finds the object of the key, and shows what is shown of it.
LEMMA KeyFound ==
  ASSUME NEW c, NEW table \in [Bucket -> Seq(Identifier)], NEW ids, Indexed(c, table, ids),
         NEW k \in Key
  PROVE  LET chain == table[Hash[k]]
         IN  /\ \A i \in ids : get_object_by_id(c, i).key = k =>
                  /\ WalkFinds(c, chain, k) = i /\ WalkEnd(c, chain, k) # 0
                  /\ SeenIn(c, chain, k) = Shown(c, i)
             /\ (\A i \in ids : get_object_by_id(c, i).key # k) =>
                  /\ WalkFinds(c, chain, k) = 0 /\ WalkEnd(c, chain, k) = 0
                  /\ SeenIn(c, chain, k) = Unseen
  <1> DEFINE chain == table[Hash[k]]
             e == WalkEnd(c, chain, k)
             f == WalkFinds(c, chain, k)
  <1>1. Hash[k] \in Bucket /\ chain \in Seq(Identifier)
    BY KeyBuckets
  <1>2. \A j \in DOMAIN chain : chain[j] \in ids /\ IsObject(c, chain[j]) /\ chain[j] # 0
    BY <1>1 DEF Indexed, In
  <1>3. f = IF e # 0 /\ IsObject(c, chain[e]) THEN chain[e] ELSE 0
    BY DEF WalkFinds
  <1>4. \/ /\ e = 0 /\ f = 0
           /\ \A j \in DOMAIN chain : get_object_by_id(c, chain[j]).key # k
        \/ e # 0 /\ f \in ids /\ f # 0 /\ get_object_by_id(c, f).key = k
    <2> HIDE DEF chain, f
    <2>1. \/ /\ e = 0
             /\ \A j \in DOMAIN chain :
                  chain[j] # 0 => IsObject(c, chain[j]) /\ get_object_by_id(c, chain[j]).key # k
          \/ /\ e \in 1 .. Len(chain) /\ e # 0 /\ chain[e] # 0
             /\ IsObject(c, chain[e]) => get_object_by_id(c, chain[e]).key = k
      BY <1>1, WalkEnds
    <2>2. DOMAIN chain = 1 .. Len(chain)
      BY <1>1
    <2> HIDE DEF e
    <2> QED
      BY <1>2, <1>3, <2>1, <2>2
  <1>5. SeenIn(c, chain, k) = IF f = 0 THEN Unseen ELSE Shown(c, f)
    <2> DEFINE obj == get_object_by_id(c, f)
               ptr == PointersIn(Contents(c, obj.level1))
               cut == ptr[0] = 0
    <2>1. SeenIn(c, chain, k) =
            CASE f = 0 -> Unseen
              [] f # 0 /\ obj.blocknum = 0 -> [state |-> "empty", page |-> Nothing, size |-> 0]
              [] f # 0 /\ obj.blocknum # 0 /\ cut ->
                   [state |-> "truncated", page |-> Nothing, size |-> 0]
              [] OTHER -> [state |-> "written", page |-> ByteIn(Contents(c, ptr[0]), 0),
                           size |-> obj.size]
      BY DEF SeenIn
    <2>2. Shown(c, f) =
            IF obj.blocknum = 0 THEN [state |-> "empty", page |-> Nothing, size |-> 0]
            ELSE IF cut THEN [state |-> "truncated", page |-> Nothing, size |-> 0]
            ELSE [state |-> "written", page |-> ByteIn(Contents(c, ptr[0]), 0), size |-> obj.size]
      BY DEF Shown
    <2> DEFINE empty == obj.blocknum = 0
               y == [state |-> "written", page |-> ByteIn(Contents(c, ptr[0]), 0), size |-> obj.size]
    <2>3. /\ SeenIn(c, chain, k) =
               CASE f = 0 -> Unseen
                 [] f # 0 /\ empty -> [state |-> "empty", page |-> Nothing, size |-> 0]
                 [] f # 0 /\ ~empty /\ cut -> [state |-> "truncated", page |-> Nothing, size |-> 0]
                 [] OTHER -> y
          /\ Shown(c, f) = IF empty THEN [state |-> "empty", page |-> Nothing, size |-> 0]
                           ELSE IF cut THEN [state |-> "truncated", page |-> Nothing, size |-> 0]
                           ELSE y
      BY <2>1, <2>2
    <2> HIDE DEF obj, ptr, cut, f, empty, y
    <2> QED
      BY <2>3
  <1> HIDE DEF f, e, chain
  <1>6. ASSUME NEW i \in ids, get_object_by_id(c, i).key = k PROVE f = i /\ e # 0
    <2>1. In(chain, i)
      BY <1>6 DEF Indexed, chain
    <2>2. f \in ids /\ get_object_by_id(c, f).key = k /\ e # 0
      BY <1>4, <1>6, <2>1 DEF In
    <2> QED
      BY <1>6, <2>2 DEF Indexed
  <1>7. ASSUME \A i \in ids : get_object_by_id(c, i).key # k PROVE f = 0 /\ e = 0
    BY <1>4, <1>7
  <1>8. \A i \in ids : i # 0
    BY DEF Indexed
  <1> QED
    BY <1>5, <1>6, <1>7, <1>8 DEF f, e, chain

\* An object whose record, pointer block and pages stay shows the same.
LEMMA ObjectStays ==
  ASSUME NEW c, NEW d, NEW i,
         get_object_by_id(d, i) = get_object_by_id(c, i),
         LET obj == get_object_by_id(c, i)
             ptr == PointersIn(Contents(c, obj.level1))
         IN  /\ obj.blocknum \in Nat /\ PointersPerBlock \in Nat \ {0}
             /\ obj.blocknum > 0 =>
                  /\ Contents(d, obj.level1) = Contents(c, obj.level1)
                  /\ \A p \in 0 .. PointersPerBlock - 1 :
                       ptr[p] # 0 => Contents(d, ptr[p]) = Contents(c, ptr[p]),
         Whole(c, i)
  PROVE  Whole(d, i) /\ Shown(d, i) = Shown(c, i)
  <1> DEFINE obj == get_object_by_id(c, i)
             ptr == PointersIn(Contents(c, obj.level1))
  <1>1. CASE obj.blocknum = 0
    <2>1. ~(obj.blocknum > 0)
      BY <1>1
    <2> QED
      BY <1>1, <2>1 DEF Whole, Shown
  <1>2. CASE obj.blocknum > 0
    <2>1. PointersIn(Contents(d, obj.level1)) = ptr
      BY <1>2
    <2>2. \A p \in 0 .. PointersPerBlock - 1 : ptr[p] # 0 => Contents(d, ptr[p]) = Contents(c, ptr[p])
      BY <1>2
    <2>3. Whole(d, i)
      <3>1. /\ obj.size > 0 <=> obj.blocknum > 0
            /\ \A p \in 0 .. PointersPerBlock - 1 : ptr[p] # 0 =>
                 /\ \A q \in 0 .. PointersPerBlock - 1 : ptr[p] = ptr[q] => p = q
                 /\ \E v \in Value : Contents(c, ptr[p]) = PageOf(v)
        BY <1>2 DEF Whole
      <3> HIDE DEF ptr
      <3>2. \A p \in 0 .. PointersPerBlock - 1 : ptr[p] # 0 =>
                 /\ \A q \in 0 .. PointersPerBlock - 1 : ptr[p] = ptr[q] => p = q
                 /\ \E v \in Value : Contents(d, ptr[p]) = PageOf(v)
        BY <2>2, <3>1
      <3> QED
        BY <2>1, <3>1, <3>2 DEF Whole
    <2>4. Shown(d, i) = Shown(c, i)
      <3> DEFINE cut == ptr[0] = 0
      <3>1. /\ Shown(c, i) = IF cut THEN [state |-> "truncated", page |-> Nothing, size |-> 0]
                             ELSE [state |-> "written", page |-> ByteIn(Contents(c, ptr[0]), 0),
                                   size |-> obj.size]
            /\ Shown(d, i) = IF cut THEN [state |-> "truncated", page |-> Nothing, size |-> 0]
                             ELSE [state |-> "written", page |-> ByteIn(Contents(d, ptr[0]), 0),
                                   size |-> obj.size]
        <4> HIDE DEF ptr
        <4>1. obj.blocknum # 0
          BY <1>2
        <4> QED
          BY <2>1, <4>1 DEF Shown, ptr
      <3>2. ~cut => ptr[0] # 0
        OBVIOUS
      <3>3. 0 \in 0 .. PointersPerBlock - 1
        OBVIOUS
      <3> HIDE DEF cut, ptr
      <3> QED
        BY <2>2, <3>1, <3>2, <3>3
    <2> QED
      BY <2>3, <2>4
  <1> QED
    BY <1>1, <1>2

SeenNow == seen = [k \in Key |-> SeenIn(cache, hashTable[Hash[k]], k)]

\* The taken identifiers are those of the records, and the hash table has no others.
Filed ==
  /\ \A h \in Bucket : \A i : In(hashTable[h], i) => i \in inodemap
  /\ \A i \in inodemap : IsObject(cache, i)

ClientInv ==
  /\ mounts = 0 => request = Nothing /\ inodemap = {} /\ seen = [k \in Key |-> Unseen]
  /\ Serving => SeenNow /\ Filed /\ \A i \in inodemap : Whole(cache, i)

\* What clients see of a key is what its object shows.
Sees ==
  \A k \in Key :
    /\ \A i \in inodemap : Record(i).key = k =>
         /\ find_object_id(k) = i /\ WalkEnd(cache, hashTable[Hash[k]], k) # 0
         /\ seen[k] = Shown(cache, i)
    /\ (\A i \in inodemap : Record(i).key # k) =>
         /\ find_object_id(k) = 0 /\ WalkEnd(cache, hashTable[Hash[k]], k) = 0
         /\ seen[k] = Unseen

\* The store keeps its index in order.
LEMMA IndexedNow ==
  StoreInv /\ KeyInv /\ Serving /\ Filed => Indexed(cache, hashTable, inodemap)
  <1> SUFFICES ASSUME StoreInv, KeyInv, Serving, Filed PROVE Indexed(cache, hashTable, inodemap)
    OBVIOUS
  <1>1. Keyed
    BY DEF KeyInv, Serving
  <1>2. ASSUME NEW i \in inodemap
        PROVE  /\ i \in Identifier /\ i # 0 /\ i >= 2 /\ IsObject(cache, i)
               /\ get_object_by_id(cache, i).key \in Key
    <2>1. i \in Identifier /\ i \in Nat /\ i >= 2 /\ IsObject(cache, i)
      BY Layout DEF Filed
    <2>2. Record(i) \in RecordOf(DataBlocks)
      BY <2>1, RecordTaken DEF Serving
    <2> QED
      BY <2>1, <2>2 DEF RecordOf, Record
  <1>3. ASSUME NEW i \in inodemap
        PROVE  /\ In(hashTable[Hash[get_object_by_id(cache, i).key]], i)
               /\ \A j \in inodemap : get_object_by_id(cache, i).key = get_object_by_id(cache, j).key => i = j
    BY <1>1, <1>2 DEF Keyed, Record
  <1> QED
    BY <1>2, <1>3 DEF Indexed, Filed

\* So a client sees what the objects show.
LEMMA SeesNow ==
  StoreInv /\ KeyInv /\ Serving /\ Filed /\ SeenNow => Sees
  <1> SUFFICES ASSUME StoreInv, KeyInv, Serving, Filed, SeenNow, NEW k \in Key
               PROVE  /\ \A i \in inodemap : Record(i).key = k =>
                           /\ find_object_id(k) = i /\ WalkEnd(cache, hashTable[Hash[k]], k) # 0
                           /\ seen[k] = Shown(cache, i)
                      /\ (\A i \in inodemap : Record(i).key # k) =>
                           /\ find_object_id(k) = 0 /\ WalkEnd(cache, hashTable[Hash[k]], k) = 0
                           /\ seen[k] = Unseen
    BY DEF Sees
  <1> DEFINE c == cache
             table == hashTable
             ids == inodemap
  <1>1. Indexed(c, table, ids) /\ table \in [Bucket -> Seq(Identifier)]
    BY IndexedNow DEF StoreInv, Maps
  <1>2. /\ seen[k] = SeenIn(c, table[Hash[k]], k)
        /\ find_object_id(k) = WalkFinds(c, table[Hash[k]], k)
    BY DEF SeenNow, find_object_id
  <1>3. \A i : Record(i) = get_object_by_id(c, i)
    BY DEF Record
  <1> HIDE DEF c, table, ids
  <1>4. /\ \A i \in ids : get_object_by_id(c, i).key = k =>
                  /\ WalkFinds(c, table[Hash[k]], k) = i /\ WalkEnd(c, table[Hash[k]], k) # 0
                  /\ SeenIn(c, table[Hash[k]], k) = Shown(c, i)
        /\ (\A i \in ids : get_object_by_id(c, i).key # k) =>
                  /\ WalkFinds(c, table[Hash[k]], k) = 0 /\ WalkEnd(c, table[Hash[k]], k) = 0
                  /\ SeenIn(c, table[Hash[k]], k) = Unseen
    BY <1>1, KeyFound
  <1> QED
    BY <1>2, <1>3, <1>4 DEF c, table, ids

\* The blocks of an object.
LEMMA ObjectBlocks ==
  ASSUME StoreInv, status = "mounted", NEW i \in inodemap, IsObject(cache, i)
  PROVE  LET obj == Record(i)
             ptr == PointersIn(Contents(cache, obj.level1))
         IN  /\ i \in Identifier /\ i \in Record_ids /\ i >= 2
             /\ obj \in RecordOf(DataBlocks) /\ obj.blocknum \in Nat
             /\ obj.blocknum > 0 =>
                  /\ obj.level1 \in DataBlocks /\ obj.level1 \in BlocksOf(i)
                  /\ ptr \in PointersTo(DataBlocks)
                  /\ \A p \in 0 .. PointersPerBlock - 1 :
                       ptr[p] # 0 => ptr[p] \in PointersOf(i) /\ ptr[p] \in BlocksOf(i)
  <1> DEFINE obj == Record(i)
             ptr == PointersIn(Contents(cache, obj.level1))
  <1>1. i \in Identifier /\ i >= 2 /\ i \in 2 .. InodeBits - 1
    BY Layout DEF StoreInv, Maps
  <1>2. i \in Record_ids
    BY <1>1 DEF Record_ids
  <1>3. obj \in RecordOf(DataBlocks)
    BY <1>1, RecordTaken
  <1>4. obj.blocknum \in Nat
    BY <1>3 DEF RecordOf
  <1>5. ASSUME obj.blocknum > 0
        PROVE  /\ obj.level1 \in DataBlocks /\ obj.level1 \in BlocksOf(i)
               /\ ptr \in PointersTo(DataBlocks)
               /\ \A p \in 0 .. PointersPerBlock - 1 :
                    ptr[p] # 0 => ptr[p] \in PointersOf(i) /\ ptr[p] \in BlocksOf(i)
    <2>1. obj.level1 \in DataBlocks /\ obj.blocknum # 0
      BY <1>3, <1>5 DEF RecordOf
    <2>2. Contents(cache, obj.level1) \in Val(inodemap, DataBlocks)
      <3>1. obj.level1 \in AllBlocks
        BY <2>1 DEF DataBlocks, StoreInv, Maps
      <3>2. View[obj.level1] \in StoreVal
        BY <3>1, MountedGood DEF Good
      <3> QED
        BY <3>1, <3>2 DEF View, StoreVal
    <2>3. ptr \in PointersTo(DataBlocks)
      BY <2>2, PointersRead
    <2>4. BlocksOf(i) = {obj.level1} \cup PointersOf(i) /\ PointersOf(i) = Range(ptr) \ {0}
      BY <2>1 DEF BlocksOf, PointersOf
    <2> HIDE DEF ptr, obj
    <2>5. \A p \in 0 .. PointersPerBlock - 1 : ptr[p] \in Range(ptr)
      BY <2>3 DEF PointersTo, Range
    <2> QED
      BY <2>1, <2>3, <2>4, <2>5
  <1> QED
    BY <1>1, <1>2, <1>3, <1>4, <1>5

\* What is read after a request.
LEMMA ContentsAfter ==
  ASSUME NEW D, NEW v, NEW V, After(D, v, V), status' = "mounted", NEW b \in AllBlocks
  PROVE  Contents(cache', b) = v[b]
  BY DEF After, View, AllBlocks

\* An object shows the same if a request leaves its record and its blocks alone.
LEMMA OthersStay ==
  ASSUME StoreInv, status = "mounted", NEW i \in inodemap, IsObject(cache, i), Whole(cache, i),
         NEW D, NEW w, NEW V, After(D, w, V), status' = "mounted",
         get_object_by_id(cache', i) = Record(i),
         \A b \in BlocksOf(i) : w[b] = View[b]
  PROVE  Whole(cache', i) /\ Shown(cache', i) = Shown(cache, i)
  <1> DEFINE obj == Record(i)
             ptr == PointersIn(Contents(cache, obj.level1))
             c == cache
             d == cache'
  <1>1. /\ obj.blocknum \in Nat
        /\ obj.blocknum > 0 =>
             /\ obj.level1 \in DataBlocks /\ obj.level1 \in BlocksOf(i)
             /\ ptr \in PointersTo(DataBlocks)
             /\ \A p \in 0 .. PointersPerBlock - 1 :
                  ptr[p] # 0 => ptr[p] \in PointersOf(i) /\ ptr[p] \in BlocksOf(i)
    BY ObjectBlocks
  <1>2. DataBlocks \subseteq AllBlocks
    BY DEF StoreInv, Maps, DataBlocks
  <1>3. ASSUME NEW b \in AllBlocks, b \in BlocksOf(i) PROVE Contents(d, b) = Contents(c, b)
    <2>1. Contents(d, b) = w[b]
      BY <1>3, ContentsAfter
    <2> QED
      BY <1>3, <2>1 DEF View
  <1>4. obj = get_object_by_id(c, i) /\ get_object_by_id(d, i) = get_object_by_id(c, i)
    BY DEF Record
  <1>5. PointersPerBlock \in Nat \ {0}
    BY ObjStoreAssumption
  <1>6. Whole(c, i) /\ ptr = PointersIn(Contents(c, get_object_by_id(c, i).level1))
    BY <1>4
  <1> HIDE DEF c, d, obj, ptr
  <1>7. obj.blocknum > 0 =>
          /\ Contents(d, obj.level1) = Contents(c, obj.level1)
          /\ \A p \in 0 .. PointersPerBlock - 1 : ptr[p] # 0 => Contents(d, ptr[p]) = Contents(c, ptr[p])
    BY <1>1, <1>2, <1>3 DEF PointersTo
  <1>8. Whole(d, i) /\ Shown(d, i) = Shown(c, i)
    BY <1>1, <1>4, <1>5, <1>6, <1>7, ObjectStays
  <1> QED
    BY <1>8 DEF c, d

\* A request that the store survives shows what it leaves.
LEMMA FinishSeen ==
  ASSUME NEW c, NEW table, Finish(c, table), status' = "mounted"
  PROVE  SeenNow' /\ cache' = c /\ hashTable' = table
  <1>1. status' = CASE c.fault -> "dead"
                    [] ~c.fault /\ ~Fits(c) -> "overflowed"
                    [] OTHER -> "mounted"
    BY DEF Finish
  <1>2. Fits(c)
    <2> DEFINE f == Fits(c)
               g == c.fault
    <2> HIDE DEF f, g
    <2> QED
      BY <1>1 DEF f, g
  <1>3. cache' = c /\ hashTable' = table
    BY <1>2 DEF Finish
  <1>4. seen' = [k \in Key |-> SeenIn(c, table[Hash[k]], k)]
    BY DEF Finish
  <1> QED
    BY <1>3, <1>4 DEF SeenNow

\* What clients see of the keys whose objects show the same.
LEMMA SeenSame ==
  ASSUME Sees, Sees', NEW T, inodemap' = inodemap \cup T,
         \A i \in inodemap \ T :
           get_object_by_id(cache', i).key = Record(i).key /\ Shown(cache', i) = Shown(cache, i),
         NEW k \in Key,
         \A i \in T : get_object_by_id(cache', i).key # k /\ (i \in inodemap => Record(i).key # k)
  PROVE  seen'[k] = seen[k]
  <1>1. /\ \A i \in inodemap : Record(i).key = k => seen[k] = Shown(cache, i)
        /\ (\A i \in inodemap : Record(i).key # k) => seen[k] = Unseen
    BY DEF Sees
  <1>2. /\ \A i \in inodemap' : get_object_by_id(cache', i).key = k => seen'[k] = Shown(cache', i)
        /\ (\A i \in inodemap' : get_object_by_id(cache', i).key # k) => seen'[k] = Unseen
    BY DEF Sees, Record
  <1>3. CASE \E i \in inodemap : Record(i).key = k
    <2>1. PICK i \in inodemap : Record(i).key = k
      BY <1>3
    <2>2. i \notin T
      BY <2>1
    <2> QED
      BY <1>1, <1>2, <2>1, <2>2
  <1>4. CASE ~ \E i \in inodemap : Record(i).key = k
    <2>1. \A i \in inodemap' : get_object_by_id(cache', i).key # k
      BY <1>4
    <2> QED
      BY <1>1, <1>2, <1>4, <2>1
  <1> QED
    BY <1>3, <1>4

\* What clients see at both ends of a step of the first mount.
LEMMA SeesBoth ==
  ASSUME StoreInv, KeyInv, ClientInv, Serving,
         StoreInv', KeyInv', Serving', SeenNow', Filed'
  PROVE  Sees /\ Sees' /\ SeenNow /\ Filed /\ \A i \in inodemap : Whole(cache, i)
  <1>1. SeenNow /\ Filed /\ \A i \in inodemap : Whole(cache, i)
    BY DEF ClientInv
  <1>2. Sees
    BY <1>1, SeesNow
  <1>3. (StoreInv /\ KeyInv /\ Serving /\ Filed /\ SeenNow => Sees)'
    BY SeesNow, PTL
  <1> QED
    BY <1>1, <1>2, <1>3

\* The client's invariant after a step of the first mount.
LEMMA ClientStill ==
  ASSUME Serving', SeenNow', Filed', \A i \in inodemap' : Whole(cache', i)
  PROVE  ClientInv'
  BY DEF ClientInv, Serving

\* A request that changes nothing that can be read shows the same.
LEMMA LookedClient ==
  ASSUME StoreInv, KeyInv, ClientInv, Serving, Looked, status' = "mounted", SeenNow'
  PROVE  ClientInv' /\ Serving' /\ seen' = seen
  <1>1. status = "mounted" /\ StoreInv' /\ KeyInv'
    BY LookedSound, LookedKeys DEF Serving
  <1>2. /\ After(cache.disk, View, StoreVal) /\ hashTable' = hashTable /\ inodemap' = inodemap
        /\ mounts' = mounts
    BY DEF Looked, nameVars, mountVars
  <1>3. Serving'
    BY <1>2 DEF Serving
  <1>4. Filed /\ SeenNow /\ \A i \in inodemap : Whole(cache, i)
    BY DEF ClientInv
  <1> DEFINE v == View
             D == cache.disk
             V == StoreVal
  <1>5. \A i \in Identifier :
          Record(i) = IF i \in DOMAIN ObjectsIn(v[TableBlock(i)])
                      THEN ObjectsIn(v[TableBlock(i)])[i] ELSE NoObject
    BY <1>1, RecordInView
  <1>6. After(D, v, V) /\ v = View
    BY <1>2
  <1> HIDE DEF v, D, V
  <1>7. ASSUME NEW i \in inodemap
        PROVE  /\ get_object_by_id(cache', i) = Record(i) /\ IsObject(cache', i)
               /\ Whole(cache', i) /\ Shown(cache', i) = Shown(cache, i)
    <2>1. i \in Identifier /\ IsObject(cache, i) /\ Whole(cache, i)
      BY <1>4, Layout DEF Filed
    <2>2. get_object_by_id(cache', i) = Record(i)
      BY <1>5, <1>6, <2>1, RecordAfter
    <2>3. IsObject(cache', i)
      BY <2>1, <2>2 DEF IsObject, Record
    <2>4. Whole(cache', i) /\ Shown(cache', i) = Shown(cache, i)
      BY <1>1, <1>6, <2>1, <2>2, OthersStay
    <2> QED
      BY <2>2, <2>3, <2>4
  <1>8. Filed'
    BY <1>2, <1>4, <1>7 DEF Filed, Bucket
  <1>9. ClientInv'
    BY <1>2, <1>3, <1>7, <1>8, ClientStill
  <1>10. Sees /\ Sees'
    BY <1>1, <1>3, <1>8, SeesBoth
  <1>12. ASSUME NEW k \in Key PROVE seen'[k] = seen[k]
    <2> DEFINE T == {}
    <2>1. /\ inodemap' = inodemap \cup T /\ \A i : i \notin T
          /\ \A i \in inodemap \ T : i \in inodemap
      BY <1>2
    <2> HIDE DEF T
    <2>2. \A i \in inodemap \ T :
            get_object_by_id(cache', i).key = Record(i).key /\ Shown(cache', i) = Shown(cache, i)
      BY <1>7, <2>1
    <2> QED
      BY <1>10, <2>1, <2>2, SeenSame
  <1>13. seen' = seen
    BY <1>4, <1>12 DEF SeenNow
  <1> QED
    BY <1>3, <1>9, <1>13

\* The records after an object was created.
LEMMA CreatedRecords ==
  ASSUME StoreInv, status = "mounted", status' = "mounted", NEW k, NEW i, Created(k, i),
         NEW j \in Identifier
  PROVE  get_object_by_id(cache', j)
           = IF j = i THEN [key |-> k, blocknum |-> 0, level1 |-> 0, size |-> 0] ELSE Record(j)
  <1> DEFINE new == [key |-> k, blocknum |-> 0, level1 |-> 0, size |-> 0]
             v == View
             w == WithRecord(v, i, new)
             D == cache.disk
             V == Val(inodemap', DataBlocks)
  <1>1. i \in Clear(inodemap, InodeBits) /\ After(D, w, V)
    BY DEF Created
  <1>2. i \in Identifier
    BY <1>1, ObjStoreAssumption DEF Clear, Identifier
  <1>3. TableBlock(i) \in AllBlocks /\ DOMAIN v = AllBlocks
    BY <1>2, TableBlockRange DEF View
  <1>4. Record(j) = IF j \in DOMAIN ObjectsIn(v[TableBlock(j)])
                    THEN ObjectsIn(v[TableBlock(j)])[j] ELSE NoObject
    BY RecordInView
  <1> HIDE DEF v, D, V
  <1>5. get_object_by_id(cache', j) = IF j \in DOMAIN ObjectsIn(w[TableBlock(j)])
                                      THEN ObjectsIn(w[TableBlock(j)])[j] ELSE NoObject
    <2> HIDE DEF w
    <2> QED
      BY <1>1, RecordAfter
  <1>6. TableBlock(j) \in AllBlocks
    BY TableBlockRange
  <1> HIDE DEF new
  <1>7. get_object_by_id(cache', j) = IF j = i THEN new ELSE Record(j)
    BY <1>3, <1>4, <1>5, <1>6, RecordPut
  <1> QED
    BY <1>7 DEF new

\* Creating an object shows an empty one, where there was none.
LEMMA CreatedClient ==
  ASSUME StoreInv, KeyInv, BlocksOwned, ClientInv, Serving,
         NEW k \in Key, NEW i, Created(k, i), status' = "mounted", SeenNow'
  PROVE  /\ ClientInv' /\ Serving' /\ seen[k] = Unseen
         /\ seen' = [seen EXCEPT ![k] = [state |-> "empty", page |-> Nothing, size |-> 0]]
  <1> DEFINE new == [key |-> k, blocknum |-> 0, level1 |-> 0, size |-> 0]
             w == WithRecord(View, i, new)
             D == cache.disk
             V == Val(inodemap', DataBlocks)
  <1>1. status = "mounted" /\ StoreInv' /\ KeyInv'
    BY CreatedSound, CreatedKeys DEF Serving
  <1>2. /\ i \in Clear(inodemap, InodeBits) /\ WalkEnd(cache, hashTable[Hash[k]], k) = 0
        /\ inodemap' = inodemap \cup {i} /\ hashTable' = Linked(hashTable, i, Hash[k])
        /\ mounts' = mounts /\ After(D, w, V)
    BY DEF Created, mountVars
  <1>3. Serving'
    BY <1>2 DEF Serving
  <1>4. Filed /\ SeenNow /\ \A j \in inodemap : Whole(cache, j)
    BY DEF ClientInv
  <1>5. i \notin inodemap /\ i \in Identifier /\ \A j \in inodemap : j \in Identifier
    BY <1>2, Layout, ObjStoreAssumption DEF Clear, Identifier
  <1>6. \A j \in Identifier : get_object_by_id(cache', j) = IF j = i THEN new ELSE Record(j)
    BY <1>1, CreatedRecords
  <1>7. \A b \in AllBlocks : b >= DataStart => w[b] = View[b]
    <2> DEFINE t == TableBlock(i)
    <2>1. t \in AllBlocks /\ t < DataStart
      BY <1>5, TableBlockRange
    <2>2. \A b \in AllBlocks : b # t => w[b] = View[b]
      BY DEF WithRecord, View
    <2> HIDE DEF w, t
    <2>3. DataStart \in Nat /\ AllBlocks \subseteq Nat
      BY Layout
    <2> QED
      BY <2>1, <2>2, <2>3
  <1>8. new # NoObject /\ new.key = k /\ new.blocknum = 0 /\ new.size = 0
    BY RequestAssumption DEF NoObject
  <1> HIDE DEF w, D, V, new
  <1>9. ASSUME NEW j \in inodemap
        PROVE  /\ get_object_by_id(cache', j) = Record(j) /\ IsObject(cache', j)
               /\ Whole(cache', j) /\ Shown(cache', j) = Shown(cache, j)
    <2>1. j \in Identifier /\ IsObject(cache, j) /\ Whole(cache, j)
      BY <1>4, <1>5 DEF Filed
    <2>2. get_object_by_id(cache', j) = Record(j)
      BY <1>5, <1>6, <2>1
    <2>3. IsObject(cache', j)
      BY <2>1, <2>2 DEF IsObject, Record
    <2>4. BlocksOf(j) \subseteq blockmap \ (0 .. DataStart - 1)
      BY <1>1, <2>1, ObjectBlocks DEF BlocksOwned
    <2>5. \A b \in BlocksOf(j) : w[b] = View[b]
      <3>1. blockmap \subseteq AllBlocks /\ AllBlocks \subseteq Nat /\ DataStart \in Nat
        BY Layout DEF StoreInv, Maps
      <3>2. ASSUME NEW b \in BlocksOf(j) PROVE b \in AllBlocks /\ b >= DataStart
        <4>1. b \in blockmap /\ b \notin 0 .. DataStart - 1
          BY <2>4
        <4> QED
          BY <3>1, <4>1
      <3> QED
        BY <1>7, <3>2
    <2>6. Whole(cache', j) /\ Shown(cache', j) = Shown(cache, j)
      BY <1>1, <1>2, <2>1, <2>2, <2>5, OthersStay
    <2> QED
      BY <2>2, <2>3, <2>6
  <1>10. get_object_by_id(cache', i) = new /\ IsObject(cache', i)
    BY <1>5, <1>6, <1>8 DEF IsObject
  <1>11. Whole(cache', i) /\ Shown(cache', i) = [state |-> "empty", page |-> Nothing, size |-> 0]
    BY <1>8, <1>10 DEF Whole, Shown
  <1>12. Filed'
    <2>1. \A h \in Bucket : \A j : In(hashTable'[h], j) => In(hashTable[h], j) \/ j = i
      <3> DEFINE g == Hash[k]
      <3>1. hashTable \in [Bucket -> Seq(Identifier)] /\ g \in Bucket /\ hashTable' = Linked(hashTable, i, g)
        BY <1>2, KeyBuckets DEF StoreInv, Maps
      <3> HIDE DEF g
      <3> DEFINE t == Linked(hashTable, i, g)
      <3>2. \A h \in Bucket : \A j : In(t[h], j) => In(hashTable[h], j) \/ (h = g /\ j = i)
        BY <1>5, <3>1, LinkedIn
      <3>3. hashTable' = t
        BY <3>1
      <3> HIDE DEF t
      <3> QED
        BY <3>2, <3>3
    <2>2. \A h \in Bucket : \A j : In(hashTable'[h], j) => j \in inodemap'
      BY <1>2, <1>4, <2>1 DEF Filed
    <2>3. \A j \in inodemap' : IsObject(cache', j)
      BY <1>2, <1>9, <1>10
    <2> QED
      BY <2>2, <2>3 DEF Filed, Bucket
  <1>13. ClientInv'
    BY <1>2, <1>3, <1>9, <1>11, <1>12, ClientStill
  <1>14. Sees /\ Sees'
    BY <1>1, <1>3, <1>12, SeesBoth
  <1>15. seen[k] = Unseen
    BY <1>2, <1>14 DEF Sees
  <1>16. seen'[k] = [state |-> "empty", page |-> Nothing, size |-> 0]
    BY <1>2, <1>8, <1>10, <1>11, <1>14 DEF Sees, Record
  <1>17. ASSUME NEW l \in Key, l # k PROVE seen'[l] = seen[l]
    <2> DEFINE T == {i}
    <2>1. inodemap' = inodemap \cup T
      BY <1>2
    <2>2. \A j \in inodemap \ T :
            get_object_by_id(cache', j).key = Record(j).key /\ Shown(cache', j) = Shown(cache, j)
      BY <1>9
    <2>3. \A j \in T : get_object_by_id(cache', j).key # l /\ (j \in inodemap => Record(j).key # l)
      BY <1>5, <1>8, <1>10, <1>17
    <2> HIDE DEF T
    <2> QED
      BY <1>14, <2>1, <2>2, <2>3, SeenSame
  <1>18. seen' = [seen EXCEPT ![k] = [state |-> "empty", page |-> Nothing, size |-> 0]]
    <2>1. SeenNow'
      OBVIOUS
    <2>2. seen = [l \in Key |-> seen[l]] /\ seen' = [l \in Key |-> seen'[l]]
      BY <1>4, <2>1 DEF SeenNow
    <2> QED
      BY <1>16, <1>17, <2>2
  <1> QED
    BY <1>3, <1>13, <1>15, <1>18

\* The bytes of a page.
LEMMA PageByte == \A v : ByteIn(PageOf(v), 0) = v
  <1> SUFFICES ASSUME NEW v PROVE ByteIn(PageOf(v), 0) = v
    OBVIOUS
  <1> DEFINE x == PageOf(v)
  <1>1. x.tag = "page" /\ x.byte = v
    BY DEF PageOf
  <1> HIDE DEF x
  <1>2. ByteIn(x, 0) = CASE x.tag = "page" -> x.byte
                         [] x.tag = "ids"  -> x.byte[0]
                         [] OTHER          -> 0
    BY DEF ByteIn
  <1>3. ByteIn(x, 0) = x.byte
    <2> DEFINE f == x.tag = "page"
               g == x.tag = "ids"
               y == x.byte[0]
    <2>1. f /\ ~g
      BY <1>1
    <2>2. ByteIn(x, 0) = CASE f -> x.byte [] g -> y [] OTHER -> 0
      BY <1>2
    <2> HIDE DEF f, g, y
    <2> QED
      BY <2>1, <2>2
  <1> QED
    BY <1>1, <1>3 DEF x

\* What overwriting a page of an object shows.
LEMMA PageOverwritten ==
  ASSUME NEW c, NEW d, NEW i, NEW p \in 0 .. PointersPerBlock - 1, NEW x \in Value,
         get_object_by_id(d, i) = get_object_by_id(c, i),
         LET obj == get_object_by_id(c, i)
             ptr == PointersIn(Contents(c, obj.level1))
         IN  /\ obj.blocknum \in Nat /\ obj.blocknum > 0 /\ PointersPerBlock \in Nat \ {0}
             /\ Contents(d, obj.level1) = Contents(c, obj.level1)
             /\ \A q \in 0 .. PointersPerBlock - 1 : ptr[q] # 0 =>
                  Contents(d, ptr[q]) = IF ptr[q] = ptr[p] THEN PageOf(x) ELSE Contents(c, ptr[q]),
         Whole(c, i)
  PROVE  /\ Whole(d, i) /\ Shown(c, i).state \in {"truncated", "written"}
         /\ IF Shown(c, i).state = "truncated" THEN Shown(d, i).state = "truncated"
            ELSE Shown(d, i) = [state |-> "written",
                                page |-> IF p = 0 THEN x ELSE Shown(c, i).page,
                                size |-> Shown(c, i).size]
  <1> DEFINE obj == get_object_by_id(c, i)
             ptr == PointersIn(Contents(c, obj.level1))
             cut == ptr[0] = 0
  <1>1. /\ get_object_by_id(d, i) = obj /\ PointersIn(Contents(d, obj.level1)) = ptr
        /\ obj.blocknum \in Nat /\ obj.blocknum > 0 /\ obj.blocknum # 0
    OBVIOUS
  <1>2. \A q \in 0 .. PointersPerBlock - 1 : ptr[q] # 0 =>
          Contents(d, ptr[q]) = IF ptr[q] = ptr[p] THEN PageOf(x) ELSE Contents(c, ptr[q])
    OBVIOUS
  <1>3. /\ obj.size > 0 <=> obj.blocknum > 0
        /\ \A q \in 0 .. PointersPerBlock - 1 : ptr[q] # 0 =>
             /\ \A r \in 0 .. PointersPerBlock - 1 : ptr[q] = ptr[r] => q = r
             /\ \E v \in Value : Contents(c, ptr[q]) = PageOf(v)
    BY <1>1 DEF Whole
  <1>4. /\ Shown(c, i) = IF cut THEN [state |-> "truncated", page |-> Nothing, size |-> 0]
                         ELSE [state |-> "written", page |-> ByteIn(Contents(c, ptr[0]), 0),
                               size |-> obj.size]
        /\ Shown(d, i) = IF cut THEN [state |-> "truncated", page |-> Nothing, size |-> 0]
                         ELSE [state |-> "written", page |-> ByteIn(Contents(d, ptr[0]), 0),
                               size |-> obj.size]
    <2> HIDE DEF ptr, obj
    <2> QED
      BY <1>1 DEF Shown, ptr, obj
  <1> HIDE DEF ptr, obj
  <1>5. Whole(d, i)
    <2>1. \A q \in 0 .. PointersPerBlock - 1 : ptr[q] # 0 =>
             /\ \A r \in 0 .. PointersPerBlock - 1 : ptr[q] = ptr[r] => q = r
             /\ \E v \in Value : Contents(d, ptr[q]) = PageOf(v)
      BY <1>2, <1>3
    <2> QED
      BY <1>1, <1>3, <2>1 DEF Whole
  <1>6. ~cut => ptr[0] # 0
    OBVIOUS
  <1>7. 0 \in 0 .. PointersPerBlock - 1
    OBVIOUS
  <1> HIDE DEF cut
  <1>8. ~cut => ByteIn(Contents(d, ptr[0]), 0) = IF p = 0 THEN x ELSE ByteIn(Contents(c, ptr[0]), 0)
    <2>1. SUFFICES ASSUME ~cut
                   PROVE  ByteIn(Contents(d, ptr[0]), 0)
                            = IF p = 0 THEN x ELSE ByteIn(Contents(c, ptr[0]), 0)
      OBVIOUS
    <2>2. CASE p = 0
      BY <1>2, <1>6, <1>7, <2>1, <2>2, PageByte
    <2>3. CASE p # 0
      <3>1. ptr[0] # ptr[p]
        BY <1>3, <1>6, <1>7, <2>1, <2>3
      <3> QED
        BY <1>2, <1>6, <1>7, <2>1, <2>3, <3>1
    <2> QED
      BY <2>2, <2>3
  <1> DEFINE y == ByteIn(Contents(d, ptr[0]), 0)
             z == ByteIn(Contents(c, ptr[0]), 0)
             m == obj.size
  <1> HIDE DEF y, z, m
  <1>9. /\ Shown(c, i) = IF cut THEN [state |-> "truncated", page |-> Nothing, size |-> 0]
                         ELSE [state |-> "written", page |-> z, size |-> m]
        /\ Shown(d, i) = IF cut THEN [state |-> "truncated", page |-> Nothing, size |-> 0]
                         ELSE [state |-> "written", page |-> y, size |-> m]
        /\ ~cut => y = IF p = 0 THEN x ELSE z
    BY <1>4, <1>8 DEF y, z, m
  <1> QED
    BY <1>5, <1>9

\* What clients see of a write to a page of the object of k: the first page if there was
\* none, of an object with a first page this page only if it is the one written.
Wrote(k, p, x) ==
  /\ \A l \in Key : l # k => seen'[l] = seen[l]
  /\ \/ seen[k].state = "truncated" /\ seen'[k].state = "truncated"
     \/ seen[k].state = "empty" /\ seen'[k].state = "truncated"
     \/ /\ seen[k].state = "empty"
        /\ seen'[k] = [state |-> "written", page |-> x, size |-> Length[x]]
     \/ /\ seen[k].state = "written"
        /\ \E n : /\ seen'[k] = [state |-> "written",
                                 page |-> IF p = 0 THEN x ELSE seen[k].page, size |-> n]
                  /\ p = 0 => n = seen[k].size

\* A write changes what is shown of its object, and nothing else.
LEMMA WroteClient ==
  ASSUME StoreInv, KeyInv, ClientInv, Serving, StoreInv', KeyInv', SeenNow', status' = "mounted",
         UNCHANGED nameVars, mounts' = mounts, NEW i \in inodemap,
         \A j \in inodemap : j # i =>
           /\ get_object_by_id(cache', j) = Record(j)
           /\ Whole(cache', j) /\ Shown(cache', j) = Shown(cache, j),
         IsObject(cache', i), get_object_by_id(cache', i).key = Record(i).key, Whole(cache', i)
  PROVE  LET k == Record(i).key
         IN  /\ ClientInv' /\ Serving' /\ k \in Key
             /\ seen[k] = Shown(cache, i) /\ seen'[k] = Shown(cache', i)
             /\ \A l \in Key : l # k => seen'[l] = seen[l]
  <1> DEFINE k == Record(i).key
  <1>1. inodemap' = inodemap /\ hashTable' = hashTable
    BY DEF nameVars
  <1>2. Serving'
    BY DEF Serving
  <1>3. Filed /\ SeenNow /\ \A j \in inodemap : Whole(cache, j)
    BY DEF ClientInv
  <1>4. \A j \in inodemap : IsObject(cache', j)
    <2>1. \A j \in inodemap : j # i => get_object_by_id(cache', j) = get_object_by_id(cache, j)
      BY DEF Record
    <2> QED
      BY <1>3, <2>1 DEF Filed, IsObject
  <1>5. Filed'
    BY <1>1, <1>3, <1>4 DEF Filed, Bucket
  <1>6. ClientInv'
    BY <1>1, <1>2, <1>5, ClientStill
  <1>7. Sees /\ Sees'
    BY <1>2, <1>5, SeesBoth
  <1>8. k \in Key
    <2>1. status = "mounted" /\ IsObject(cache, i)
      BY <1>3 DEF Serving, Filed
    <2>2. Record(i) \in RecordOf(DataBlocks)
      BY <2>1, ObjectBlocks
    <2> QED
      BY <2>2 DEF RecordOf
  <1>9. seen[k] = Shown(cache, i) /\ seen'[k] = Shown(cache', i)
    BY <1>1, <1>7, <1>8 DEF Sees, Record
  <1>10. ASSUME NEW l \in Key, l # k PROVE seen'[l] = seen[l]
    <2> DEFINE T == {i}
    <2>1. inodemap' = inodemap \cup T
      BY <1>1
    <2>2. \A j \in inodemap \ T :
            get_object_by_id(cache', j).key = Record(j).key /\ Shown(cache', j) = Shown(cache, j)
      OBVIOUS
    <2>3. \A j \in T : get_object_by_id(cache', j).key # l /\ (j \in inodemap => Record(j).key # l)
      BY <1>10
    <2> HIDE DEF T
    <2> QED
      BY <1>7, <2>1, <2>2, <2>3, SeenSame
  <1> QED
    BY <1>2, <1>6, <1>8, <1>9, <1>10

\* Overwriting a page shows it if it is the first.
LEMMA OverwroteClient ==
  ASSUME StoreInv, KeyInv, BlocksOwned, ClientInv, Serving, NEW i, Open(i), NEW p \in Page,
         NEW x \in Value, p < Record(i).blocknum, Overwrote(i, p, x), status' = "mounted", SeenNow'
  PROVE  ClientInv' /\ Serving' /\ Record(i).key \in Key /\ Wrote(Record(i).key, p, x)
  <1> DEFINE obj == Record(i)
             ptr == PointersIn(Contents(cache, obj.level1))
             b == ptr[p]
             w == [View EXCEPT ![b] = PageOf(x)]
             D == cache.disk
             V == StoreVal
             c == cache
             d == cache'
  <1>1. status = "mounted" /\ StoreInv' /\ KeyInv' /\ i \in inodemap /\ i \in Identifier /\ i >= 2
        /\ IsObject(cache, i)
    BY OverwroteSound, OverwroteKeys DEF Open
  <1>2. Filed /\ SeenNow /\ \A j \in inodemap : Whole(cache, j)
    BY DEF ClientInv
  <1>3. p \in 0 .. PointersPerBlock - 1 /\ PointersPerBlock \in Nat \ {0}
    BY ObjStoreAssumption
  <1>4. /\ obj.blocknum \in Nat /\ obj.blocknum > 0
        /\ obj.level1 \in DataBlocks /\ obj.level1 \in BlocksOf(i) /\ ptr \in PointersTo(DataBlocks)
        /\ \A q \in 0 .. PointersPerBlock - 1 :
             ptr[q] # 0 => ptr[q] \in PointersOf(i) /\ ptr[q] \in BlocksOf(i)
    <2>1. /\ obj.blocknum \in Nat
          /\ obj.blocknum > 0 =>
               /\ obj.level1 \in DataBlocks /\ obj.level1 \in BlocksOf(i)
               /\ ptr \in PointersTo(DataBlocks)
               /\ \A q \in 0 .. PointersPerBlock - 1 :
                    ptr[q] # 0 => ptr[q] \in PointersOf(i) /\ ptr[q] \in BlocksOf(i)
      BY <1>1, ObjectBlocks
    <2> HIDE DEF obj, ptr
    <2>2. obj.blocknum > 0
      BY <1>3, <2>1 DEF obj
    <2> QED
      BY <2>1, <2>2
  <1>5. obj.level1 \in AllBlocks /\ DataBlocks \subseteq AllBlocks
    BY <1>4 DEF DataBlocks, StoreInv, Maps
  <1>6. /\ After(D, w, V) /\ UNCHANGED nameVars /\ mounts' = mounts
    <2>1. View[obj.level1] = Contents(cache, obj.level1)
      BY <1>5 DEF View
    <2> QED
      BY <2>1 DEF Overwrote, mountVars
  <1>7. /\ b = 0 \/ (b \in DataBlocks /\ b \in PointersOf(i) /\ b \in BlocksOf(i))
        /\ \A q \in 0 .. PointersPerBlock - 1 : ptr[q] = 0 \/ ptr[q] \in DataBlocks
    <2> HIDE DEF ptr
    <2>1. \A q \in 0 .. PointersPerBlock - 1 : ptr[q] = 0 \/ ptr[q] \in DataBlocks
      BY <1>4 DEF PointersTo
    <2> QED
      BY <1>3, <1>4, <2>1
  <1>8. \A e \in AllBlocks : w[e] = IF e = b THEN PageOf(x) ELSE View[e]
    BY DEF View
  <1>9. \A e \in AllBlocks : View[e] = Contents(cache, e)
    BY DEF View
  <1> HIDE DEF obj, ptr, b, w, D, V
  <1>10. \A e \in DataBlocks : e \in AllBlocks /\ e \in Nat /\ e >= DataStart /\ e # 0
    <2>1. ASSUME NEW e \in DataBlocks PROVE e \in AllBlocks /\ e \in Nat /\ e >= DataStart /\ e # 0
      <3>1. e \in AllBlocks /\ e \notin 0 .. DataStart - 1 /\ e \in Nat
        BY <1>5, <2>1, Layout DEF DataBlocks
      <3>2. DataStart \in Nat /\ DataStart > 0
        BY Layout
      <3> QED
        BY <3>1, <3>2
    <2> QED
      BY <2>1
  <1>11. ASSUME NEW j \in inodemap
         PROVE  /\ get_object_by_id(cache', j) = Record(j)
                /\ j \in Identifier /\ IsObject(cache, j) /\ Whole(cache, j)
    <2>1. j \in Identifier /\ TableBlock(j) \in AllBlocks /\ TableBlock(j) < DataStart /\ TableBlock(j) # 0
      BY Layout
    <2> DEFINE t == TableBlock(j)
    <2>2. t # b
      <3>1. t < DataStart /\ t # 0 /\ t \in Nat
        BY <2>1, Layout
      <3> HIDE DEF t
      <3> QED
        BY <1>7, <1>10, <3>1, Layout
    <2>3. w[t] = View[t]
      BY <1>8, <2>1, <2>2
    <2>4. Record(j) = IF j \in DOMAIN ObjectsIn(View[t]) THEN ObjectsIn(View[t])[j] ELSE NoObject
      BY <1>1, <2>1, RecordInView
    <2>5. get_object_by_id(cache', j) = IF j \in DOMAIN ObjectsIn(w[t]) THEN ObjectsIn(w[t])[j] ELSE NoObject
      BY <1>6, <2>1, RecordAfter
    <2> HIDE DEF t
    <2> QED
      BY <1>2, <2>1, <2>3, <2>4, <2>5 DEF Filed
  <1>12. ASSUME NEW j \in inodemap, j # i
         PROVE  Whole(cache', j) /\ Shown(cache', j) = Shown(cache, j)
    <2>1. i \in Record_ids /\ j \in Record_ids
      BY <1>1, <1>11, ObjectBlocks
    <2>2. BlocksOf(i) \cap BlocksOf(j) = {} /\ BlocksOf(j) \subseteq DataBlocks
      BY <1>1, <1>12, <2>1 DEF BlocksOwned, DataBlocks
    <2>3. \A e \in BlocksOf(j) : w[e] = View[e]
      BY <1>7, <1>8, <1>10, <2>2
    <2> QED
      BY <1>1, <1>6, <1>11, <2>3, OthersStay
  <1>13. obj.level1 \notin PointersOf(i)
    <2>1. i \in Record_ids
      BY <1>1, ObjectBlocks
    <2> QED
      BY <1>1, <1>4, <2>1 DEF BlocksOwned, obj
  <1>14. \A e \in AllBlocks : Contents(d, e) = IF e = b THEN PageOf(x) ELSE Contents(c, e)
    <2>1. \A e \in AllBlocks : Contents(cache', e) = w[e]
      BY <1>6, ContentsAfter
    <2> QED
      BY <1>8, <1>9, <2>1
  <1>15. /\ get_object_by_id(d, i) = get_object_by_id(c, i) /\ obj = get_object_by_id(c, i)
         /\ ptr = PointersIn(Contents(c, obj.level1)) /\ Whole(c, i)
    BY <1>1, <1>11 DEF Record, obj, ptr
  <1> HIDE DEF c, d
  <1>16. Contents(d, obj.level1) = Contents(c, obj.level1)
    BY <1>4, <1>5, <1>7, <1>10, <1>13, <1>14
  <1>17. \A q \in 0 .. PointersPerBlock - 1 : ptr[q] # 0 =>
           Contents(d, ptr[q]) = IF ptr[q] = ptr[p] THEN PageOf(x) ELSE Contents(c, ptr[q])
    BY <1>7, <1>10, <1>14 DEF b
  <1>18. /\ Whole(d, i) /\ Shown(c, i).state \in {"truncated", "written"}
         /\ IF Shown(c, i).state = "truncated" THEN Shown(d, i).state = "truncated"
            ELSE Shown(d, i) = [state |-> "written",
                                page |-> IF p = 0 THEN x ELSE Shown(c, i).page,
                                size |-> Shown(c, i).size]
    BY <1>3, <1>4, <1>15, <1>16, <1>17, PageOverwritten
  <1>19. Whole(cache', i) /\ IsObject(cache', i) /\ get_object_by_id(cache', i).key = Record(i).key
    BY <1>1, <1>11, <1>18 DEF IsObject, Record, d
  <1>20. LET k == Record(i).key
         IN  /\ ClientInv' /\ Serving' /\ k \in Key
             /\ seen[k] = Shown(cache, i) /\ seen'[k] = Shown(cache', i)
             /\ \A l \in Key : l # k => seen'[l] = seen[l]
    BY <1>1, <1>6, <1>11, <1>12, <1>19, WroteClient
  <1> QED
    BY <1>18, <1>20 DEF Wrote, c, d

\* Object i of cache c, which has n pages, has one more in d: its pointer block is L, the
\* page is in block b, 0 if there was none left.
PageGoes(c, d, i, n, L, b, x) ==
  LET ptr == PointersIn(Contents(c, L))
      old == get_object_by_id(c, i)
      new == get_object_by_id(d, i)
  IN  /\ old.blocknum = n /\ (n > 0 => old.level1 = L)
      /\ new.blocknum = n + 2 /\ new.size > 0 /\ new.level1 = L
      /\ DOMAIN ptr = 0 .. PointersPerBlock - 1
      /\ PointersIn(Contents(d, L)) = [ptr EXCEPT ![n] = b]
      /\ n = 0 => \A q \in 0 .. PointersPerBlock - 1 : ptr[q] = 0
      /\ b # 0 => /\ Contents(d, b) = PageOf(x)
                  /\ \A q \in 0 .. PointersPerBlock - 1 : ptr[q] # b
      /\ \A q \in 0 .. PointersPerBlock - 1 :
           ptr[q] # 0 => Contents(d, ptr[q]) = Contents(c, ptr[q])

\* What is shown of an object that gets a page at the end.
LEMMA PageAdded ==
  ASSUME PointersPerBlock \in Nat \ {0}, NEW n \in 0 .. PointersPerBlock - 1, NEW x \in Value,
         NEW c, NEW d, NEW i, NEW L, NEW b, Whole(c, i), PageGoes(c, d, i, n, L, b, x)
  PROVE  /\ Whole(d, i)
         /\ \/ n > 0 /\ Shown(c, i).state = "truncated" /\ Shown(d, i).state = "truncated"
            \/ n = 0 /\ Shown(c, i).state = "empty" /\ Shown(d, i).state = "truncated"
            \/ /\ n = 0 /\ Shown(c, i).state = "empty"
               /\ Shown(d, i) = [state |-> "written", page |-> x,
                                 size |-> get_object_by_id(d, i).size]
            \/ /\ n > 0 /\ Shown(c, i).state = "written"
               /\ Shown(d, i) = [state |-> "written", page |-> Shown(c, i).page,
                                 size |-> get_object_by_id(d, i).size]
  <1> DEFINE ptr == PointersIn(Contents(c, L))
             new == [ptr EXCEPT ![n] = b]
             oldcut == ptr[0] = 0
             newcut == new[0] = 0
             y == ByteIn(Contents(c, ptr[0]), 0)
             z == ByteIn(Contents(d, new[0]), 0)
             old == get_object_by_id(c, i).size
             size == get_object_by_id(d, i).size
  <1>0. /\ get_object_by_id(c, i).blocknum = n /\ (n > 0 => get_object_by_id(c, i).level1 = L)
        /\ get_object_by_id(d, i).blocknum = n + 2 /\ get_object_by_id(d, i).size > 0
        /\ get_object_by_id(d, i).level1 = L
        /\ DOMAIN ptr = 0 .. PointersPerBlock - 1
    BY DEF PageGoes
  <1>1. /\ n = 0 => \A q \in 0 .. PointersPerBlock - 1 : ptr[q] = 0
        /\ b # 0 => /\ Contents(d, b) = PageOf(x)
                    /\ \A q \in 0 .. PointersPerBlock - 1 : ptr[q] # b
        /\ \A q \in 0 .. PointersPerBlock - 1 :
             ptr[q] # 0 => Contents(d, ptr[q]) = Contents(c, ptr[q])
    BY DEF PageGoes
  <1>2. \A q \in 0 .. PointersPerBlock - 1 : new[q] = IF q = n THEN b ELSE ptr[q]
    BY <1>0
  <1>3. PointersIn(Contents(d, L)) = new
    BY DEF PageGoes
  <1>4. n > 0 => \A q \in 0 .. PointersPerBlock - 1 : ptr[q] # 0 =>
             /\ \A r \in 0 .. PointersPerBlock - 1 : ptr[q] = ptr[r] => q = r
             /\ \E v \in Value : Contents(c, ptr[q]) = PageOf(v)
    BY <1>0 DEF Whole
  <1>5. Shown(c, i) = IF n = 0 THEN [state |-> "empty", page |-> Nothing, size |-> 0]
                      ELSE IF oldcut THEN [state |-> "truncated", page |-> Nothing, size |-> 0]
                      ELSE [state |-> "written", page |-> y, size |-> old]
    <2>1. CASE n = 0
      BY <1>0, <2>1 DEF Shown
    <2>2. CASE n # 0
      <3>1. get_object_by_id(c, i).level1 = L
        BY <1>0, <2>2
      <3> QED
        BY <1>0, <2>2, <3>1 DEF Shown
    <2> QED
      BY <2>1, <2>2
  <1>6. Shown(d, i) = IF newcut THEN [state |-> "truncated", page |-> Nothing, size |-> 0]
                      ELSE [state |-> "written", page |-> z, size |-> size]
    <2> DEFINE m == n + 2
               obj == get_object_by_id(d, i)
               f == PointersIn(Contents(d, obj.level1))
    <2>1. m # 0 /\ obj.blocknum = m /\ f = new
      BY <1>0, <1>3
    <2>2. Shown(d, i)
            = IF obj.blocknum = 0 THEN [state |-> "empty", page |-> Nothing, size |-> 0]
              ELSE IF f[0] = 0 THEN [state |-> "truncated", page |-> Nothing, size |-> 0]
              ELSE [state |-> "written", page |-> ByteIn(Contents(d, f[0]), 0), size |-> obj.size]
      BY DEF Shown
    <2> HIDE DEF new, m, obj, f
    <2> QED
      BY <2>1, <2>2 DEF obj
  <1> HIDE DEF new, ptr
  <1>7. 0 \in 0 .. PointersPerBlock - 1
    OBVIOUS
  <1>8. /\ n = 0 => newcut <=> b = 0
        /\ n # 0 => newcut <=> oldcut
        /\ ~newcut => z = IF n = 0 THEN x ELSE y
    <2>1. CASE n = 0
      <3>1. new[0] = b
        BY <1>2, <1>7, <2>1
      <3>2. b # 0 => z = x
        BY <1>1, <3>1, PageByte
      <3> QED
        BY <2>1, <3>1, <3>2
    <2>2. CASE n # 0
      <3>1. new[0] = ptr[0]
        BY <1>2, <1>7, <2>2
      <3>2. ptr[0] # 0 => z = y
        BY <1>1, <1>7, <3>1
      <3> QED
        BY <2>2, <3>1, <3>2
    <2> QED
      BY <2>1, <2>2
  <1>9. Whole(d, i)
    <2>1. n + 2 > 0
      OBVIOUS
    <2>2. ASSUME NEW q \in 0 .. PointersPerBlock - 1, new[q] # 0
          PROVE  /\ \A r \in 0 .. PointersPerBlock - 1 : new[q] = new[r] => q = r
                 /\ \E v \in Value : Contents(d, new[q]) = PageOf(v)
      <3>1. CASE q = n
        BY <1>1, <1>2, <2>2, <3>1
      <3>2. CASE q # n
        <4>1. new[q] = ptr[q] /\ ptr[q] # 0 /\ n > 0
          BY <1>1, <1>2, <2>2, <3>2
        <4>2. \A r \in 0 .. PointersPerBlock - 1 : new[q] = new[r] => q = r
          <5>1. ASSUME NEW r \in 0 .. PointersPerBlock - 1, new[q] = new[r] PROVE q = r
            <6>1. r # n
              BY <1>1, <1>2, <2>2, <4>1, <5>1
            <6>2. ptr[q] = ptr[r]
              BY <1>2, <4>1, <5>1, <6>1
            <6> QED
              BY <1>4, <4>1, <6>2
          <5> QED
            BY <5>1
        <4>3. \E v \in Value : Contents(d, new[q]) = PageOf(v)
          BY <1>1, <1>4, <4>1
        <4> QED
          BY <4>2, <4>3
      <3> QED
        BY <3>1, <3>2
    <2> QED
      BY <1>0, <1>3, <2>1, <2>2 DEF Whole
  <1> HIDE DEF oldcut, newcut, y, z, old, size
  <1>10. n = 0 \/ n > 0
    OBVIOUS
  <1> QED
    BY <1>5, <1>6, <1>8, <1>9, <1>10 DEF size

\* The records after an object got a block.
LEMMA ExtendedRecords ==
  ASSUME StoreInv, NEW i, Open(i), NEW L, NEW b, NEW x, NEW obj, Extended(i, L, b, x, obj),
         status' = "mounted", NEW j \in inodemap
  PROVE  get_object_by_id(cache', j) = IF j = i THEN obj ELSE Record(j)
  <1> DEFINE v == View
             ptr == [PointersIn(v[L]) EXCEPT ![Record(i).blocknum % PointersPerBlock] = b]
             u == [[v EXCEPT ![L] = Pointers(ptr)] EXCEPT ![b] = PageOf(x)]
             w == WithRecord(u, i, obj)
             D == cache.disk
             V == Val(inodemap, DataBlocks')
  <1>1. After(D, w, V) /\ status = "mounted" /\ i \in inodemap
    BY DEF Extended, WithBlock, Open
  <1>2. DOMAIN u = AllBlocks
    BY DEF View
  <1>3. \A e \in AllBlocks : e \notin {L, b} => u[e] = v[e]
    BY DEF View
  <1>4. \A l \in inodemap : /\ l \in Identifier /\ TableBlock(l) \in AllBlocks
                            /\ TableBlock(l) < DataStart /\ TableBlock(l) # 0
    BY Layout
  <1>5. L >= DataStart /\ L \in AllBlocks /\ b \in AllBlocks /\ (b # 0 => b >= DataStart)
    <2>1. BlockPut(WithBlock(View, i, L, b, x, obj), i, L, b, x, obj)
      BY BlockAdded
    <2> QED
      BY <2>1 DEF BlockPut
  <1> HIDE DEF v, u, D, V
  <1>6. TableBlock(j) \notin {L, b}
    <2> DEFINE t == TableBlock(j)
    <2>1. t \in AllBlocks /\ t < DataStart /\ t # 0
      BY <1>4
    <2> HIDE DEF t
    <2>2. AllBlocks \subseteq Nat /\ DataStart \in Nat
      BY Layout
    <2>3. t \in Nat /\ L \in Nat /\ b \in Nat
      BY <1>5, <2>1, <2>2
    <2>4. t \notin {L, b}
      BY <1>5, <2>1, <2>2, <2>3
    <2> QED
      BY <2>4 DEF t
  <1>7. u[TableBlock(j)] = v[TableBlock(j)]
    BY <1>3, <1>4, <1>6
  <1>8. Record(j) = IF j \in DOMAIN ObjectsIn(v[TableBlock(j)])
                    THEN ObjectsIn(v[TableBlock(j)])[j] ELSE NoObject
    BY <1>1, <1>4, RecordInView DEF v
  <1>9. get_object_by_id(cache', j) = IF j \in DOMAIN ObjectsIn(w[TableBlock(j)])
                                      THEN ObjectsIn(w[TableBlock(j)])[j] ELSE NoObject
    <2> HIDE DEF w
    <2> QED
      BY <1>1, <1>4, RecordAfter
  <1>10. TableBlock(i) \in AllBlocks /\ TableBlock(j) \in AllBlocks
    BY <1>1, <1>4
  <1> QED
    BY <1>2, <1>7, <1>8, <1>9, <1>10, RecordPut

\* The size after the first write of all is that of the write.
LEMMA FirstSize ==
  ASSUME NEW i, Open(i), Whole(cache, i), Record(i).blocknum = 0, NEW p \in Page, NEW x \in Value
  PROVE  SizeAfter(Record(i), p, Length[x]) = Length[x]
  <1> DEFINE obj == Record(i)
             n == Length[x]
  <1>1. /\ BlockBytes \in Nat \ {0} /\ Page \subseteq 0 .. PointersPerBlock - 1
        /\ Length \in [Value -> 1 .. BlockBytes]
    BY ObjStoreAssumption
  <1>2. n \in Nat /\ p \in Nat
    BY <1>1, ObjStoreAssumption
  <1>3. obj.size \in Nat
    BY DEF Open, RecordOf
  <1>4. obj.size > 0 <=> obj.blocknum > 0
    BY DEF Whole, Record
  <1>5. obj.blocknum = 0
    OBVIOUS
  <1>6. SizeAfter(obj, p, n) = IF p < obj.blocknum + 1 THEN n
                               ELSE IF p = obj.blocknum + 1
                               THEN n + (obj.size \div BlockBytes) * BlockBytes
                               ELSE obj.size + n
    BY DEF SizeAfter
  <1> HIDE DEF obj, n
  <1>7. obj.size = 0
    BY <1>3, <1>4, <1>5
  <1>8. (obj.size \div BlockBytes) * BlockBytes = 0
    BY <1>1, <1>7
  <1>9. SizeAfter(obj, p, n) = n
    BY <1>2, <1>5, <1>6, <1>7, <1>8
  <1> QED
    BY <1>9 DEF obj, n

\* A new page is shown if it is the first, and is cut off if it got no block.
LEMMA ExtendedClient ==
  ASSUME StoreInv, KeyInv, BlockOwners, ClientInv, Serving, NEW i, Open(i), NEW p \in Page,
         NEW x \in Value, Record(i).blocknum <= p, NEW L, NEW b, NEW obj,
         Extended(i, L, b, x, obj), obj.size = SizeAfter(Record(i), p, Length[x]),
         status' = "mounted", SeenNow'
  PROVE  ClientInv' /\ Serving' /\ Record(i).key \in Key /\ Wrote(Record(i).key, p, x)
  <1> DEFINE n == Record(i).blocknum
             w == WithBlock(View, i, L, b, x, obj)
             D == cache.disk
             V == Val(inodemap, DataBlocks')
             c == cache
             d == cache'
             ptr == PointersIn(Contents(c, L))
  <1>1. /\ status = "mounted" /\ i \in inodemap /\ i \in Identifier /\ IsObject(cache, i)
        /\ StoreInv' /\ KeyInv' /\ BlocksOwned /\ i \in Record_ids
    <2>1. status = "mounted" /\ i \in inodemap /\ i \in Identifier /\ IsObject(cache, i)
      BY DEF Open
    <2>2. StoreInv' /\ KeyInv' /\ BlocksOwned
      BY <2>1, ExtendedSound, ExtendedKeys, OwnersOwn
    <2> QED
      BY <2>1, <2>2, ObjectBlocks
  <1>2. Filed /\ SeenNow /\ \A j \in inodemap : Whole(cache, j)
    BY DEF ClientInv
  <1>3. /\ IF n = 0 THEN L \in Clear(blockmap, BlockBits) ELSE L = Record(i).level1
        /\ L \in AllBlocks /\ obj.key = Record(i).key /\ obj.level1 = L
        /\ obj.blocknum = n + 2 /\ obj.size > 0 /\ n < PointersPerBlock
        /\ UNCHANGED nameVars /\ mounts' = mounts /\ After(D, w, V)
    BY DEF Extended, mountVars
  <1>4. BlockPut(w, i, L, b, x, obj)
    BY BlockAdded
  <1>5. PointersPerBlock \in Nat \ {0} /\ n \in Nat /\ p \in Nat
    <2>1. Record(i) \in RecordOf(DataBlocks)
      BY DEF Open
    <2>2. n \in Nat
      BY <2>1 DEF RecordOf
    <2> QED
      BY <2>2, ObjStoreAssumption
  <1>6. n \in 0 .. PointersPerBlock - 1 /\ n % PointersPerBlock = n
    <2> HIDE DEF n
    <2> QED
      BY <1>3, <1>5
  <1>7. \A e \in AllBlocks : View[e] = Contents(c, e)
    BY DEF View
  <1>8. /\ L # 0 /\ b # L /\ b \in AllBlocks /\ L >= DataStart
        /\ b = 0 \/ (b \notin blockmap /\ b >= DataStart)
        /\ TableBlock(i) \in AllBlocks /\ TableBlock(i) < DataStart
        /\ ptr \in PointersTo(DataBlocks)
        /\ w[L] = Pointers([ptr EXCEPT ![n] = b]) /\ w[b] = PageOf(x)
        /\ \A e \in AllBlocks : e \notin {L, b, TableBlock(i)} => w[e] = View[e]
    <2>1. ptr = PointersIn(View[L]) /\ Record(i).blocknum % PointersPerBlock = n
      BY <1>3, <1>6, <1>7
    <2> HIDE DEF ptr, n, w
    <2> QED
      BY <1>4, <2>1 DEF BlockPut
  <1>9. \A j \in inodemap : get_object_by_id(cache', j) = IF j = i THEN obj ELSE Record(j)
    BY ExtendedRecords
  <1>10. \A e \in DataBlocks : e \in AllBlocks /\ e \in blockmap /\ e \in Nat /\ e >= DataStart /\ e # 0
    <2>1. ASSUME NEW e \in DataBlocks
          PROVE  e \in AllBlocks /\ e \in blockmap /\ e \in Nat /\ e >= DataStart /\ e # 0
      <3>1. e \in AllBlocks /\ e \in blockmap /\ e \notin 0 .. DataStart - 1 /\ e \in Nat
        BY <2>1, Layout DEF DataBlocks, StoreInv, Maps
      <3>2. DataStart \in Nat /\ DataStart > 0
        BY Layout
      <3> QED
        BY <3>1, <3>2
    <2> QED
      BY <2>1
  <1>11. \A q \in 0 .. PointersPerBlock - 1 : ptr[q] = 0 \/ ptr[q] \in DataBlocks
    <2> HIDE DEF ptr
    <2> QED
      BY <1>8 DEF PointersTo
  <1>12. n = 0 => L \notin blockmap /\ \A q \in 0 .. PointersPerBlock - 1 : ptr[q] = 0
    <2>1. SUFFICES ASSUME n = 0
                   PROVE  L \notin blockmap /\ \A q \in 0 .. PointersPerBlock - 1 : ptr[q] = 0
      OBVIOUS
    <2>2. L \notin blockmap
      BY <1>3, <2>1 DEF Clear
    <2>3. PICK owner, role : Owns(Versions, inodemap, blockmap, owner, role)
      BY <1>1 DEF BlockOwners
    <2>4. \A y \in Versions[L] : y = Zero
      BY <1>3, <1>8, <2>2, <2>3 DEF Owns
    <2>5. View[L] = Zero
      BY <1>3, <2>4, VersionsNow
    <2>6. Contents(c, L) = Zero
      BY <1>3, <1>7, <2>5
    <2> QED
      BY <2>2, <2>6, PageHolds
  <1>13. n > 0 => /\ L \in BlocksOf(i) /\ L \notin PointersOf(i) /\ L = Record(i).level1
                  /\ \A q \in 0 .. PointersPerBlock - 1 : ptr[q] # 0 => ptr[q] \in PointersOf(i)
    <2>1. SUFFICES ASSUME n > 0
                   PROVE  /\ L \in BlocksOf(i) /\ L \notin PointersOf(i) /\ L = Record(i).level1
                          /\ \A q \in 0 .. PointersPerBlock - 1 : ptr[q] # 0 => ptr[q] \in PointersOf(i)
      OBVIOUS
    <2>2. L = Record(i).level1
      BY <1>3, <2>1
    <2>3. L \in BlocksOf(i) /\ \A q \in 0 .. PointersPerBlock - 1 : ptr[q] # 0 => ptr[q] \in PointersOf(i)
      BY <1>1, <2>1, <2>2, ObjectBlocks
    <2>4. L \notin PointersOf(i)
      BY <1>1, <2>1, <2>2 DEF BlocksOwned
    <2> QED
      BY <2>2, <2>3, <2>4
  <1> HIDE DEF n, w, D, V, ptr
  <1>14. ASSUME NEW e \in DataBlocks, e # L PROVE w[e] = View[e] /\ e # b
    <2>1. e \in AllBlocks /\ e \in blockmap /\ e \in Nat /\ e >= DataStart /\ e # 0
      BY <1>10, <1>14
    <2>2. e # b
      BY <1>8, <2>1
    <2>3. e # TableBlock(i)
      <3> DEFINE t == TableBlock(i)
      <3>1. t \in Nat /\ t < DataStart /\ DataStart \in Nat
        BY <1>8, Layout
      <3> HIDE DEF t
      <3>2. e # t
        BY <2>1, <3>1
      <3> QED
        BY <3>2 DEF t
    <2> QED
      BY <1>8, <1>14, <2>1, <2>2, <2>3
  <1>15. ASSUME NEW j \in inodemap, j # i
         PROVE  /\ get_object_by_id(cache', j) = Record(j)
                /\ Whole(cache', j) /\ Shown(cache', j) = Shown(cache, j)
    <2>1. get_object_by_id(cache', j) = Record(j)
      BY <1>9, <1>15
    <2>2. IsObject(cache, j) /\ Whole(cache, j)
      BY <1>2 DEF Filed
    <2>3. j \in Record_ids
      BY <1>1, <2>2, ObjectBlocks
    <2>4. BlocksOf(i) \cap BlocksOf(j) = {} /\ BlocksOf(j) \subseteq DataBlocks
      BY <1>1, <1>15, <2>3 DEF BlocksOwned, DataBlocks
    <2>5. ASSUME NEW e \in BlocksOf(j) PROVE w[e] = View[e]
      <3>1. e \in DataBlocks
        BY <2>4
      <3>2. e # L
        <4>1. CASE n = 0
          BY <1>10, <1>12, <3>1, <4>1
        <4>2. CASE n > 0
          BY <1>13, <2>4, <4>2
        <4> QED
          BY <1>5, <4>1, <4>2
      <3> QED
        BY <1>14, <3>1, <3>2
    <2>6. Whole(cache', j) /\ Shown(cache', j) = Shown(cache, j)
      BY <1>1, <1>3, <2>1, <2>2, <2>5, OthersStay
    <2> QED
      BY <2>1, <2>6
  <1>16. \A e \in AllBlocks : Contents(d, e) = w[e]
    BY <1>3, ContentsAfter
  <1>17. /\ get_object_by_id(d, i) = obj /\ get_object_by_id(c, i) = Record(i)
         /\ get_object_by_id(c, i).blocknum = n /\ (n > 0 => get_object_by_id(c, i).level1 = L)
         /\ Whole(c, i)
    BY <1>1, <1>2, <1>9, <1>13 DEF Record, n
  <1> HIDE DEF c, d
  <1>18. PointersIn(Contents(d, L)) = [ptr EXCEPT ![n] = b] /\ DOMAIN ptr = 0 .. PointersPerBlock - 1
    <2> DEFINE f == [ptr EXCEPT ![n] = b]
    <2>1. Contents(d, L) = Pointers(f)
      BY <1>3, <1>8, <1>16
    <2> HIDE DEF f
    <2>2. PointersIn(Contents(d, L)) = f
      BY <2>1 DEF Pointers, PointersIn
    <2>3. DOMAIN ptr = 0 .. PointersPerBlock - 1
      BY <1>8 DEF PointersTo
    <2> QED
      BY <2>2, <2>3 DEF f
  <1>19. b # 0 => Contents(d, b) = PageOf(x) /\ \A q \in 0 .. PointersPerBlock - 1 : ptr[q] # b
    BY <1>8, <1>10, <1>11, <1>16
  <1>20. ASSUME NEW q \in 0 .. PointersPerBlock - 1, ptr[q] # 0
         PROVE  Contents(d, ptr[q]) = Contents(c, ptr[q])
    <2>1. ptr[q] \in DataBlocks /\ ptr[q] \in AllBlocks
      BY <1>10, <1>11, <1>20
    <2>2. n > 0
      BY <1>5, <1>12, <1>20
    <2>3. ptr[q] # L
      BY <1>13, <1>20, <2>2
    <2> QED
      BY <1>7, <1>14, <1>16, <2>1, <2>3
  <1>21. /\ Whole(d, i)
         /\ \/ n > 0 /\ Shown(c, i).state = "truncated" /\ Shown(d, i).state = "truncated"
            \/ n = 0 /\ Shown(c, i).state = "empty" /\ Shown(d, i).state = "truncated"
            \/ /\ n = 0 /\ Shown(c, i).state = "empty"
               /\ Shown(d, i) = [state |-> "written", page |-> x,
                                 size |-> get_object_by_id(d, i).size]
            \/ /\ n > 0 /\ Shown(c, i).state = "written"
               /\ Shown(d, i) = [state |-> "written", page |-> Shown(c, i).page,
                                 size |-> get_object_by_id(d, i).size]
    <2>1. /\ get_object_by_id(d, i).blocknum = n + 2 /\ get_object_by_id(d, i).size > 0
          /\ get_object_by_id(d, i).level1 = L
      BY <1>3, <1>17
    <2>2. /\ DOMAIN ptr = 0 .. PointersPerBlock - 1
          /\ PointersIn(Contents(d, L)) = [ptr EXCEPT ![n] = b]
          /\ n = 0 => \A q \in 0 .. PointersPerBlock - 1 : ptr[q] = 0
          /\ b # 0 => /\ Contents(d, b) = PageOf(x)
                      /\ \A q \in 0 .. PointersPerBlock - 1 : ptr[q] # b
          /\ \A q \in 0 .. PointersPerBlock - 1 :
               ptr[q] # 0 => Contents(d, ptr[q]) = Contents(c, ptr[q])
      BY <1>12, <1>18, <1>19, <1>20
    <2>3. PageGoes(c, d, i, n, L, b, x)
      BY <1>17, <2>1, <2>2 DEF PageGoes, ptr
    <2> QED
      BY <1>5, <1>6, <1>17, <2>3, PageAdded
  <1>22. Whole(cache', i) /\ IsObject(cache', i) /\ get_object_by_id(cache', i).key = Record(i).key
    <2>1. NoObject.blocknum = 0
      BY DEF NoObject
    <2>2. obj # NoObject
      BY <1>3, <1>5, <2>1
    <2> QED
      BY <1>3, <1>17, <1>21, <2>2 DEF IsObject, d
  <1>23. LET k == Record(i).key
         IN  /\ ClientInv' /\ Serving' /\ k \in Key
             /\ seen[k] = Shown(cache, i) /\ seen'[k] = Shown(cache', i)
             /\ \A l \in Key : l # k => seen'[l] = seen[l]
    BY <1>1, <1>3, <1>15, <1>22, WroteClient
  <1>24. n > 0 => p # 0
    BY <1>5 DEF n
  <1>25. n = 0 => get_object_by_id(d, i).size = Length[x]
    BY <1>1, <1>2, <1>17, FirstSize DEF n
  <1> DEFINE size == get_object_by_id(d, i).size
  <1> HIDE DEF size
  <1> QED
    BY <1>21, <1>23, <1>24, <1>25 DEF Wrote, c, d, size

\* A block that was never written reads as zeroes.
LEMMA ZeroByte == \A j : ByteIn(Zero, j) = 0
  <1> SUFFICES ASSUME NEW j PROVE ByteIn(Zero, j) = 0
    OBVIOUS
  <1> DEFINE x == Zero
             f == x.tag = "page"
             g == x.tag = "ids"
             y == x.byte
             z == x.byte[j]
  <1>1. ~f /\ ~g
    BY DEF Zero
  <1>2. ByteIn(x, j) = CASE f -> y [] g -> z [] OTHER -> 0
    <2> HIDE DEF x
    <2> QED
      BY DEF ByteIn
  <1> HIDE DEF f, g, y, z
  <1>3. ByteIn(x, j) = 0
    BY <1>1, <1>2
  <1> QED
    BY <1>3

\* On an empty disk the identifier table is empty.
LEMMA NothingRead ==
  ASSUME \A b \in AllBlocks : cache.disk[b] = Zero
  PROVE  TableRead = [h \in Bucket |-> << >>]
  <1> DEFINE N == IdBlocks * TableBytes
             empty == [h \in Bucket |-> << >>]
  <1>1. N \in Nat
    BY TableReadSteps
  <1>2. PICK table : /\ TableRead = table[N] /\ table[0] = empty
                     /\ \A n \in 0 .. N : n < N =>
                          table[n + 1] = IF ByteRead(n) = 0 THEN table[n]
                                         ELSE insert_to_hash_table(table[n], n, ByteRead(n))
    BY TableReadSteps
  <1>3. ASSUME NEW x \in 0 .. N - 1 PROVE ByteRead(x) = 0
    <2>1. /\ IdBlocks \in Nat /\ BlockBytes \in Nat /\ IdBlocks <= BlockBits /\ BlockBits \in Nat
      BY ObjStoreAssumption
    <2>2. TableBytes \in Nat
      BY <2>1 DEF TableBytes
    <2>3. TableBytes # 0
      <3>1. SUFFICES ASSUME TableBytes = 0 PROVE FALSE
        OBVIOUS
      <3>2. IdBlocks * TableBytes = 0
        BY <2>1, <3>1
      <3> QED
        BY <3>2
    <2> DEFINE q == x \div TableBytes
               m == x % TableBytes
    <2>4. q \in 0 .. IdBlocks - 1
      BY <2>1, <2>2, <2>3, Quotient
    <2> HIDE DEF q, m
    <2>5. cache.disk[q] = Zero
      BY <2>1, <2>4 DEF AllBlocks
    <2>6. ByteRead(x) = ByteIn(cache.disk[q], m)
      BY DEF ByteRead, q, m
    <2> QED
      BY <2>5, <2>6, ZeroByte
  <1> DEFINE U == {n \in Nat : table[n] = empty}
  <1> HIDE DEF N, empty
  <1>4. 0 \in U
    BY <1>2
  <1>5. ASSUME NEW n \in 0 .. N, n \in U, n < N PROVE n + 1 \in U
    <2>1. n \in 0 .. N - 1 /\ n + 1 \in Nat /\ table[n] = empty
      BY <1>1, <1>5
    <2>2. ByteRead(n) = 0
      BY <1>3, <2>1
    <2> QED
      BY <1>2, <1>5, <2>1, <2>2
  <1> HIDE DEF U
  <1>6. N \in U
    <2>1. \A n \in 0 .. N : n \in U
      BY <1>1, <1>4, <1>5, InductTo
    <2> QED
      BY <1>1, <2>1
  <1> QED
    BY <1>2, <1>6 DEF U, empty

\* A lookup in an empty bucket shows nothing.
LEMMA NothingSeen ==
  ASSUME NEW c, NEW k
  PROVE  SeenIn(c, << >>, k) = Unseen
  <1> DEFINE chain == << >>
             e == WalkEnd(c, chain, k)
             f == WalkFinds(c, chain, k)
             obj == get_object_by_id(c, f)
             ptr == PointersIn(Contents(c, obj.level1))
  <1>1. chain \in Seq(Identifier) /\ Len(chain) = 0
    OBVIOUS
  <1> HIDE DEF chain
  <1>2. e = 0
    <2>1. e = 0 \/ e \in 1 .. Len(chain)
      BY <1>1, WalkEnds
    <2> HIDE DEF e
    <2> QED
      BY <1>1, <2>1
  <1>3. f = 0
    BY <1>2 DEF WalkFinds
  <1>4. SeenIn(c, chain, k) =
          CASE f = 0 -> Unseen
            [] f # 0 /\ obj.blocknum = 0 -> [state |-> "empty", page |-> Nothing, size |-> 0]
            [] f # 0 /\ obj.blocknum # 0 /\ ptr[0] = 0 ->
                 [state |-> "truncated", page |-> Nothing, size |-> 0]
            [] OTHER -> [state |-> "written", page |-> ByteIn(Contents(c, ptr[0]), 0),
                         size |-> obj.size]
    BY DEF SeenIn
  <1> DEFINE g == obj.blocknum = 0
             h == obj.blocknum # 0 /\ ptr[0] = 0
             y == ByteIn(Contents(c, ptr[0]), 0)
             m == obj.size
  <1> HIDE DEF f, g, h, y, m
  <1>5. SeenIn(c, chain, k) =
          CASE f = 0 -> Unseen
            [] f # 0 /\ g -> [state |-> "empty", page |-> Nothing, size |-> 0]
            [] f # 0 /\ h -> [state |-> "truncated", page |-> Nothing, size |-> 0]
            [] OTHER -> [state |-> "written", page |-> y, size |-> m]
    BY <1>4 DEF g, h, y, m
  <1> HIDE DEF obj, ptr
  <1>6. SeenIn(c, chain, k) = Unseen
    BY <1>3, <1>5
  <1> QED
    BY <1>6 DEF chain

\* The first mount finds no objects.
LEMMA MountedClient ==
  ASSUME StoreInv, KeyInv, ClientInv, mounts = 0, objfs_init, status' = "mounted"
  PROVE  ClientInv' /\ Serving' /\ seen' = seen /\ request' = Nothing
  <1>1. /\ status = "unmounted" /\ mounts' = 1 /\ request' = Nothing
        /\ hashTable' = TableRead /\ inodemap' = saved.inodemap /\ seen' = seen /\ cache' = cache
    BY DEF objfs_init
  <1>2. inodemap' = {} /\ seen = [k \in Key |-> Unseen]
    BY <1>1 DEF StoreInv, ClientInv
  <1>3. hashTable' = [h \in Bucket |-> << >>]
    BY <1>1, NothingRead DEF KeyInv
  <1>4. Serving'
    BY <1>1 DEF Serving
  <1>5. Filed'
    <2>1. \A h \in Bucket : \A i : ~In(hashTable'[h], i)
      BY <1>3 DEF In
    <2> QED
      BY <1>2, <2>1 DEF Filed, Bucket
  <1>6. SeenNow'
    <2>1. \A k \in Key : SeenIn(cache', hashTable'[Hash[k]], k) = Unseen
      BY <1>3, KeyBuckets, NothingSeen
    <2> QED
      BY <1>1, <1>2, <2>1 DEF SeenNow
  <1>7. ClientInv'
    BY <1>2, <1>4, <1>5, <1>6, ClientStill
  <1> QED
    BY <1>1, <1>4, <1>7

-----------------------------------------------------------------------------
(* The requests, as their clients see them.                                *)

AllInv == StoreInv /\ KeyInv /\ BlockOwners /\ ClientInv

\* What the lookup of a key says of its object.
LEMMA Existing ==
  ASSUME AllInv, Serving, NEW k \in Key
  PROVE  LET i == find_object_id(k)
         IN  \/ i = 0 /\ seen[k] = Unseen /\ WalkEnd(cache, hashTable[Hash[k]], k) = 0
             \/ /\ i # 0 /\ i \in inodemap /\ Record(i).key = k
                /\ WalkEnd(cache, hashTable[Hash[k]], k) # 0
                /\ seen[k] = Shown(cache, i) /\ seen[k].state \in {"empty", "truncated", "written"}
                /\ seen[k] # Unseen /\ Whole(cache, i) /\ Open(i)
                /\ (seen[k].state = "empty" <=> Record(i).blocknum = 0)
                /\ (seen[k].state = "empty" <=> seen[k] = [state |-> "empty", page |-> Nothing, size |-> 0])
                /\ seen[k].state = "truncated" \/ seen[k].size = Record(i).size
  <1>1. StoreInv /\ Filed /\ SeenNow /\ status = "mounted" /\ \A i \in inodemap : Whole(cache, i)
    BY DEF AllInv, ClientInv, Serving
  <1>2. Sees
    BY <1>1, SeesNow DEF AllInv
  <1> DEFINE i == find_object_id(k)
             e == WalkEnd(cache, hashTable[Hash[k]], k)
  <1>3. CASE \E j \in inodemap : Record(j).key = k
    <2>1. PICK j \in inodemap : Record(j).key = k
      BY <1>3
    <2>2. i = j /\ e # 0 /\ seen[k] = Shown(cache, j)
      BY <1>2, <2>1 DEF Sees
    <2>3. j # 0 /\ j >= 2 /\ j \in Identifier /\ IsObject(cache, j)
      BY <1>1, Layout DEF Filed
    <2>4. Open(j)
      BY <1>1, <2>1, <2>3, ObjectBlocks DEF Open
    <2> DEFINE s == Shown(cache, j)
    <2>5. /\ s.state \in {"empty", "truncated", "written"} /\ (s.state = "empty" <=> Record(j).blocknum = 0)
          /\ (s.state = "empty" <=> s = [state |-> "empty", page |-> Nothing, size |-> 0])
          /\ s.state = "truncated" \/ s.size = Record(j).size
      <3> DEFINE obj == get_object_by_id(cache, j)
                 ptr == PointersIn(Contents(cache, obj.level1))
                 cut == ptr[0] = 0
                 y == ByteIn(Contents(cache, ptr[0]), 0)
                 n == obj.blocknum
                 m == obj.size
      <3>1. s = IF n = 0 THEN [state |-> "empty", page |-> Nothing, size |-> 0]
                ELSE IF cut THEN [state |-> "truncated", page |-> Nothing, size |-> 0]
                ELSE [state |-> "written", page |-> y, size |-> m]
        BY DEF Shown
      <3>2. Record(j).blocknum = n /\ Record(j).size = m
        BY DEF Record
      <3>3. n \in Nat /\ m \in Nat
        BY <2>4, <3>2 DEF Open, RecordOf
      <3>4. m > 0 <=> n > 0
        BY <1>1, <2>1 DEF Whole
      <3> HIDE DEF cut, y, s, n, m
      <3>5. n = 0 => m = 0
        BY <3>3, <3>4
      <3> QED
        BY <3>1, <3>2, <3>5
    <2>6. s # Unseen
      <3> HIDE DEF s
      <3>1. Unseen.state = "absent"
        BY DEF Unseen
      <3> QED
        BY <2>5, <3>1
    <2> HIDE DEF s
    <2>7. seen[k] = s
      BY <2>2 DEF s
    <2> HIDE DEF i, e
    <2> QED
      BY <1>1, <2>1, <2>2, <2>3, <2>4, <2>5, <2>6, <2>7 DEF i, e
  <1>4. CASE \A j \in inodemap : Record(j).key # k
    BY <1>2, <1>4 DEF Sees
  <1> QED
    BY <1>3, <1>4

\* open_object tells the truth.
LEMMA OpenClient ==
  ASSUME AllInv, Serving, NEW k \in Key, objfs_open(k), status' = "mounted"
  PROVE  /\ ClientInv' /\ Serving' /\ seen' = seen
         /\ Reply("open", k, 0, 0, IF seen[k] = Unseen THEN "ENOENT" ELSE "ok")
  <1>1. StoreInv /\ KeyInv /\ ClientInv
    BY DEF AllInv
  <1>2. Looked /\ SeenNow'
    BY <1>1, OpenSound, FinishSeen DEF objfs_open
  <1>3. find_object_id(k) = 0 <=> seen[k] = Unseen
    BY Existing
  <1>4. Reply("open", k, 0, 0, IF find_object_id(k) = 0 THEN "ENOENT" ELSE "ok")
    BY DEF objfs_open
  <1> QED
    BY <1>1, <1>2, <1>3, <1>4, LookedClient

\* The reply to getattr is the size of the record.
LEMMA GetattrClient ==
  ASSUME AllInv, Serving, NEW k \in Key, objfs_getattr(k), status' = "mounted"
  PROVE  /\ ClientInv' /\ Serving' /\ seen' = seen
         /\ \/ /\ seen[k] = Unseen
               /\ Reply("getattr", k, 0, 0, "ENOENT")
            \/ /\ seen[k] # Unseen
               /\ \E n : /\ Reply("getattr", k, 0, n, "ok")
                         /\ n \in Nat
                         /\ seen[k].state = "truncated" \/ n = seen[k].size
  <1> DEFINE i == find_object_id(k)
             n == get_object_by_id(cache, i).size
  <1>1. StoreInv /\ KeyInv /\ ClientInv /\ status = "mounted"
    BY DEF AllInv, Serving
  <1>2. Looked /\ SeenNow'
    BY <1>1, GetattrSound, FinishSeen DEF objfs_getattr
  <1>3. Reply("getattr", k, 0, n, IF i = 0 THEN "ENOENT" ELSE "ok")
    BY DEF objfs_getattr
  <1>4. CASE i = 0
    <2>1. seen[k] = Unseen
      BY <1>4, Existing
    <2>2. ~IsObject(cache, 0)
      <3>1. 0 \in Identifier
        BY ObjStoreAssumption DEF Identifier
      <3>2. 0 \notin inodemap
        BY <1>1, Layout
      <3> QED
        BY <1>1, <3>1, <3>2, RecordTaken
    <2>3. n = 0
      <3>1. NoObject.size = 0
        BY DEF NoObject
      <3>2. get_object_by_id(cache, 0) = NoObject
        BY <2>2 DEF IsObject
      <3> HIDE DEF i
      <3> QED
        BY <1>4, <3>1, <3>2
    <2> HIDE DEF i, n
    <2> QED
      BY <1>1, <1>2, <1>3, <1>4, <2>1, <2>3, LookedClient
  <1>5. CASE i # 0
    <2>1. /\ seen[k] # Unseen /\ Open(i)
          /\ seen[k].state = "truncated" \/ seen[k].size = Record(i).size
      BY <1>5, Existing
    <2> HIDE DEF i
    <2>2. n = Record(i).size
      BY DEF Record
    <2>3. n \in Nat
      BY <2>1, <2>2 DEF Open, RecordOf
    <2> HIDE DEF n
    <2> QED
      BY <1>1, <1>2, <1>3, <1>5, <2>1, <2>2, <2>3, LookedClient
  <1> QED
    BY <1>4, <1>5

\* A rename is refused.
LEMMA RenameClient ==
  ASSUME AllInv, Serving, NEW k \in Key, objfs_rename_key(k), status' = "mounted"
  PROVE  /\ ClientInv' /\ Serving' /\ seen' = seen
         /\ Reply("rename", k, 0, 0, "EINVAL")
  <1>1. StoreInv /\ KeyInv /\ ClientInv
    BY DEF AllInv
  <1>2. Looked /\ SeenNow'
    <2>1. Finish(WalkReads(SlashHash[k], "/"), hashTable)
      BY DEF objfs_rename_key, Dies
    <2> QED
      BY <1>1, <2>1, RenameSound, FinishSeen
  <1>3. Reply("rename", k, 0, 0, "EINVAL")
    BY DEF objfs_rename_key
  <1> QED
    BY <1>1, <1>2, <1>3, LookedClient

\* The store survives the removal of what does not exist only.
LEMMA UnlinkClient ==
  ASSUME AllInv, Serving, NEW k \in Key, objfs_unlink(k), status' = "mounted"
  PROVE  /\ ClientInv' /\ Serving' /\ seen' = seen /\ seen[k] = Unseen
         /\ Reply("unlink", k, 0, 0, "ok")
  <1>1. StoreInv /\ KeyInv /\ ClientInv
    BY DEF AllInv
  <1>2. find_object_id(k) = 0 /\ Finish(WalkReads(Hash[k], k), hashTable)
    BY DEF objfs_unlink, Dies
  <1>3. Looked /\ SeenNow'
    BY <1>1, <1>2, UnlinkSound, FinishSeen
  <1>4. seen[k] = Unseen
    BY <1>2, Existing
  <1>5. Reply("unlink", k, 0, 0, "ok")
    BY DEF objfs_unlink
  <1> QED
    BY <1>1, <1>3, <1>4, <1>5, LookedClient

\* As many keys exist as identifiers are taken.
LEMMA TakenCount ==
  ASSUME AllInv, Serving
  PROVE  /\ Cardinality({k \in Key : seen[k] # Unseen}) = Cardinality(inodemap)
         /\ Cardinality(inodemap) \in Nat
         /\ Cardinality(inodemap) = InodeBits - 2 <=> Clear(inodemap, InodeBits) = {}
  <1> DEFINE S == {k \in Key : seen[k] # Unseen}
             f == [i \in inodemap |-> Record(i).key]
             T == 2 .. InodeBits - 1
  <1>1. InodeBits \in Nat /\ InodeBits >= 2
    BY ObjStoreAssumption, RequestAssumption
  <1>2. IsFiniteSet(T) /\ Cardinality(T) = InodeBits - 2
    <2>1. /\ IsFiniteSet(T)
          /\ Cardinality(T) = IF 2 > InodeBits - 1 THEN 0 ELSE (InodeBits - 1) - 2 + 1
      BY <1>1, FS_Interval
    <2> HIDE DEF T
    <2>2. (IF 2 > InodeBits - 1 THEN 0 ELSE (InodeBits - 1) - 2 + 1) = InodeBits - 2
      BY <1>1
    <2> QED
      BY <2>1, <2>2
  <1>3. inodemap \in SUBSET T /\ Clear(inodemap, InodeBits) = T \ inodemap
    BY DEF AllInv, StoreInv, Maps, Clear
  <1> HIDE DEF T
  <1>4. /\ IsFiniteSet(inodemap) /\ Cardinality(inodemap) \in Nat
        /\ Cardinality(T) = Cardinality(inodemap) => T = inodemap
    BY <1>2, <1>3, FS_Subset, FS_CardinalityType
  <1>5. Filed /\ SeenNow /\ StoreInv /\ KeyInv
    BY DEF AllInv, ClientInv
  <1>6. Indexed(cache, hashTable, inodemap) /\ Sees
    BY <1>5, IndexedNow, SeesNow
  <1>7. \A i \in inodemap : Record(i).key \in Key
    BY <1>6 DEF Indexed, Record
  <1>8. ASSUME NEW i \in inodemap PROVE f[i] \in S
    <2>1. f[i] = Record(i).key /\ Record(i).key \in Key
      BY <1>7
    <2>2. find_object_id(Record(i).key) = i /\ i # 0
      BY <1>6, <2>1 DEF Sees, Indexed
    <2>3. seen[Record(i).key] # Unseen
      BY <2>1, <2>2, Existing
    <2> QED
      BY <2>1, <2>3
  <1>9. ASSUME NEW k \in S PROVE \E i \in inodemap : f[i] = k
    <2>1. k \in Key /\ seen[k] # Unseen
      OBVIOUS
    <2> QED
      BY <2>1, Existing
  <1>10. \A i, j \in inodemap : f[i] = f[j] => i = j
    BY <1>6 DEF Indexed, Record
  <1>11. ExistsBijection(inodemap, S)
    <2>1. f \in [inodemap -> S]
      BY <1>8
    <2> HIDE DEF f, S
    <2>2. f \in Bijection(inodemap, S)
      BY <1>9, <1>10, <2>1 DEF Bijection, Injection, Surjection, IsInjective
    <2> QED
      BY <2>2 DEF ExistsBijection
  <1> HIDE DEF S
  <1>12. Cardinality(S) = Cardinality(inodemap)
    BY <1>4, <1>11, FS_Bijection
  <1>13. Cardinality(inodemap) = InodeBits - 2 <=> Clear(inodemap, InodeBits) = {}
    <2>1. Cardinality(inodemap) = InodeBits - 2 => Clear(inodemap, InodeBits) = {}
      BY <1>2, <1>3, <1>4
    <2>2. Clear(inodemap, InodeBits) = {} => Cardinality(inodemap) = InodeBits - 2
      <3>1. Clear(inodemap, InodeBits) = {} => inodemap = T
        BY <1>3
      <3> QED
        BY <1>2, <3>1
    <2> QED
      BY <2>1, <2>2
  <1> QED
    BY <1>4, <1>12, <1>13 DEF S

\* create_object refuses an object that exists, or when there is no identifier left, and
\* makes an empty one otherwise.
LEMMA CreateClient ==
  ASSUME AllInv, Serving, NEW k \in Key, objfs_create(k), status' = "mounted"
  PROVE  LET full == Cardinality({l \in Key : seen[l] # Unseen}) = InodeBits - 2
         IN  /\ ClientInv' /\ Serving'
             /\ \/ /\ seen[k] # Unseen \/ full
                   /\ seen' = seen
                   /\ Reply("create", k, 0, 0, "EEXIST")
                \/ /\ seen[k] = Unseen /\ ~full
                   /\ seen' = [seen EXCEPT ![k] = [state |-> "empty", page |-> Nothing, size |-> 0]]
                   /\ Reply("create", k, 0, 0, "ok")
  <1> DEFINE full == Cardinality({l \in Key : seen[l] # Unseen}) = InodeBits - 2
             i == Fetch(inodemap, InodeBits, inode_bit_itr)
  <1>1. StoreInv /\ KeyInv /\ BlockOwners /\ ClientInv /\ BlocksOwned
    BY OwnersOwn DEF AllInv
  <1>2. full <=> Clear(inodemap, InodeBits) = {}
    BY TakenCount
  <1>3. i \in Clear(inodemap, InodeBits) \/ (Clear(inodemap, InodeBits) = {} /\ i = 0)
    <2>1. /\ InodeBits \in Nat \ {0} /\ inode_bit_itr \in Nat /\ inode_bit_itr * ByteBits <= InodeBits
      BY <1>1, ObjStoreAssumption DEF StoreInv, Maps
    <2> QED
      BY <2>1, FetchFinds
  <1>4. \A j \in Clear(inodemap, InodeBits) : j # 0 /\ j \notin inodemap
    BY DEF Clear
  <1>5. SeenNow'
    BY FinishSeen DEF objfs_create
  <1>6. IsRefused(k) <=> seen[k] # Unseen
    BY Existing DEF IsRefused
  <1>7. Looked \/ \E j : Created(k, j)
    BY <1>1, CreateSound
  <1>8. \/ /\ IsRefused(k) \/ i = 0
           /\ Reply("create", k, 0, 0, "EEXIST")
           /\ inodemap' = inodemap
        \/ /\ ~IsRefused(k) /\ i # 0
           /\ Reply("create", k, 0, 0, "ok")
           /\ inodemap' = Taken(inodemap, i)
    BY DEF objfs_create, inodeVars
  <1> HIDE DEF full, i
  <1>9. CASE /\ IsRefused(k) \/ i = 0
             /\ Reply("create", k, 0, 0, "EEXIST")
             /\ inodemap' = inodemap
    <2>1. Looked
      <3>1. ASSUME NEW j, Created(k, j) PROVE FALSE
        BY <1>4, <1>9, <3>1 DEF Created
      <3> QED
        BY <1>7, <3>1
    <2>2. ClientInv' /\ Serving' /\ seen' = seen
      BY <1>1, <1>5, <2>1, LookedClient
    <2>3. seen[k] # Unseen \/ full
      BY <1>2, <1>3, <1>4, <1>6, <1>9
    <2> QED
      BY <1>9, <2>2, <2>3 DEF full
  <1>10. CASE /\ ~IsRefused(k) /\ i # 0
              /\ Reply("create", k, 0, 0, "ok")
              /\ inodemap' = Taken(inodemap, i)
    <2>1. i \in inodemap' /\ i \notin inodemap
      BY <1>3, <1>4, <1>10 DEF Taken
    <2>2. ~Looked
      BY <2>1 DEF Looked, nameVars
    <2>3. PICK j : Created(k, j)
      BY <1>7, <2>2
    <2>4. /\ ClientInv' /\ Serving' /\ seen[k] = Unseen
          /\ seen' = [seen EXCEPT ![k] = [state |-> "empty", page |-> Nothing, size |-> 0]]
      BY <1>1, <1>5, <2>3, CreatedClient
    <2>5. ~full
      BY <1>2, <1>3, <1>10
    <2> QED
      BY <1>10, <2>4, <2>5 DEF full
  <1> QED
    BY <1>8, <1>9, <1>10

\* What the reply to a read says: of the first page, what the object shows.
ReadServed(k, p, bytes, res) ==
  /\ p \in Nat /\ bytes \in Seq(Nat) /\ res \in {"ok", "EINVAL"}
  /\ p = 0 => /\ res = "ok" /\ seen[k].state = "written"
              /\ Len(bytes) > 0 /\ bytes[1] = seen[k].page

\* A read gives the byte of the first page, unless it has no block.
LEMMA ReadClient ==
  ASSUME AllInv, Serving, NEW k \in Key, NEW r \in Reads, objfs_read(k, r[1], r[2]),
         status' = "mounted"
  PROVE  /\ ClientInv' /\ Serving' /\ seen' = seen
         /\ \E p, bytes, res : /\ ReplyPages(k, p, bytes, res)
                               /\ seen[k].state = "truncated" \/ ReadServed(k, p, bytes, res)
  <1> DEFINE p == r[1]
             n == r[2]
             i == find_object_id(k)
             obj == get_object_by_id(cache, i)
             c1 == ReadRecord(cache, i)
             b == PointersIn(Contents(c1, obj.level1))[p]
             blocks == [j \in 1 .. 2 * n |-> IF j % 2 = 1 THEN obj.level1 ELSE b]
             c2 == ReadBlocks(c1, blocks)
             byte == ByteIn(Contents(c1, b), 0)
             bytes == [j \in 1 .. n |-> byte]
             D == cache.disk
             ptr == PointersIn(Contents(cache, obj.level1))
  <1>1. StoreInv /\ KeyInv /\ ClientInv /\ status = "mounted"
    BY DEF AllInv, Serving
  <1>2. /\ i # 0 /\ obj.size > 0
        /\ \/ obj.blocknum < p /\ ReplyPages(k, p, << >>, "EINVAL") /\ Finish(c1, hashTable)
           \/ p = 0 /\ ReplyPages(k, p, bytes, "ok") /\ Finish(c2, hashTable)
    BY DEF objfs_read, Dies
  <1>3. Looked
    BY <1>1, ReadSound
  <1>4. Fits(cache')
    BY <1>3 DEF Looked, After
  <1>5. /\ i \in inodemap /\ Open(i) /\ Whole(cache, i) /\ seen[k] = Shown(cache, i)
    BY <1>2, Existing
  <1>6. /\ i \in Identifier /\ i >= 2 /\ obj.blocknum \in Nat /\ obj.blocknum > 0
        /\ obj.level1 \in DataBlocks /\ ptr \in PointersTo(DataBlocks)
    <2> DEFINE o == Record(i)
    <2>1. o = obj
      BY DEF Record
    <2>2. i \in Identifier /\ i >= 2 /\ IsObject(cache, i)
      BY <1>5 DEF Open
    <2>3. o.blocknum \in Nat /\ o.blocknum > 0
      BY <1>2, <1>5, <2>1 DEF Whole, Open, RecordOf
    <2> HIDE DEF i
    <2>4. o.level1 \in DataBlocks /\ PointersIn(Contents(cache, o.level1)) \in PointersTo(DataBlocks)
      BY <1>1, <1>5, <2>2, <2>3, ObjectBlocks
    <2> QED
      BY <2>1, <2>2, <2>3, <2>4
  <1>7. /\ PointersPerBlock \in Nat \ {0} /\ 0 \in 0 .. PointersPerBlock - 1
        /\ p \in 0 .. PointersPerBlock - 1 /\ n \in Nat \ {0}
    BY ObjStoreAssumption
  <1>8. DataBlocks \subseteq AllBlocks /\ 0 \in AllBlocks
    BY <1>1, Layout DEF DataBlocks, StoreInv, Maps
  <1>9. \A e \in AllBlocks : View[e] = Contents(cache, e)
    BY DEF View
  <1> DEFINE cut == ptr[0] = 0
             byte0 == ByteIn(Contents(cache, ptr[0]), 0)
  <1>10. Shown(cache, i) = IF cut THEN [state |-> "truncated", page |-> Nothing, size |-> 0]
                           ELSE [state |-> "written", page |-> byte0, size |-> obj.size]
    <2>1. obj.blocknum # 0
      BY <1>6
    <2> QED
      BY <2>1 DEF Shown
  <1>11. \A q \in 0 .. PointersPerBlock - 1 : ptr[q] # 0 =>
           \E v \in Value : Contents(cache, ptr[q]) = PageOf(v)
    BY <1>5, <1>6 DEF Whole
  <1> HIDE DEF i, obj, p, n
  <1>12. Leads(c1, cache, D, View, StoreVal)
    BY <1>1, <1>6, MountedGood, TableBlockRange, GoodRead DEF ReadRecord
  <1> HIDE DEF c1, ptr
  <1>13. b \in AllBlocks
    <2>1. Contents(c1, obj.level1) \in Val(inodemap, DataBlocks)
      BY <1>6, <1>8, <1>12, GoodFacts DEF StoreVal, Leads
    <2> DEFINE f == PointersIn(Contents(c1, obj.level1))
    <2>2. f \in PointersTo(DataBlocks)
      BY <2>1, PointersRead
    <2> HIDE DEF f
    <2>3. f[p] \in {0} \cup DataBlocks
      BY <1>7, <2>2 DEF PointersTo
    <2> QED
      BY <1>8, <2>3 DEF f
  <1>14. Fits(c1) /\ p = 0 => byte = byte0 \/ cut
    <2> SUFFICES ASSUME Fits(c1), p = 0 PROVE byte = byte0
      OBVIOUS
    <2>1. Contents(c1, obj.level1) = View[obj.level1]
      BY <1>6, <1>8, <1>12, GoodFacts DEF Leads
    <2>2. View[obj.level1] = Contents(cache, obj.level1)
      BY <1>6, <1>8, <1>9
    <2>3. b = ptr[0]
      BY <2>1, <2>2 DEF ptr
    <2> HIDE DEF b
    <2>4. Contents(c1, b) = View[b]
      BY <1>12, <1>13, GoodFacts DEF Leads
    <2> QED
      BY <1>9, <1>13, <2>3, <2>4
  <1>15. Leads(c2, c1, D, View, StoreVal)
    <2> HIDE DEF b
    <2>1. blocks \in [1 .. 2 * n -> AllBlocks] /\ 2 * n \in Nat
      BY <1>6, <1>7, <1>8, <1>13
    <2> HIDE DEF blocks
    <2>2. blocks \in Seq(AllBlocks)
      BY <2>1
    <2> QED
      BY <1>12, <2>2, GoodReadBlocks DEF Leads
  <1> HIDE DEF b, blocks, c2, byte, D
  <1>16. CASE obj.blocknum < p /\ ReplyPages(k, p, << >>, "EINVAL") /\ Finish(c1, hashTable)
    <2>1. SeenNow'
      BY <1>16, FinishSeen
    <2>2. ClientInv' /\ Serving' /\ seen' = seen
      BY <1>1, <1>3, <2>1, LookedClient
    <2>3. p \in Nat /\ p # 0
      BY <1>6, <1>7, <1>16
    <2>4. << >> \in Seq(Nat)
      OBVIOUS
    <2>5. ReadServed(k, p, << >>, "EINVAL")
      BY <2>3, <2>4 DEF ReadServed
    <2> QED
      BY <1>16, <2>2, <2>5
  <1>17. CASE p = 0 /\ ReplyPages(k, p, bytes, "ok") /\ Finish(c2, hashTable)
    <2>1. SeenNow' /\ Fits(c2)
      BY <1>4, <1>17, FinishSeen
    <2>2. ClientInv' /\ Serving' /\ seen' = seen
      BY <1>1, <1>3, <2>1, LookedClient
    <2>3. Fits(c1)
      BY <1>15, <2>1 DEF Leads
    <2>4. CASE cut
      <3>1. Shown(cache, i) = [state |-> "truncated", page |-> Nothing, size |-> 0]
        BY <1>10, <2>4
      <3>2. seen[k].state = "truncated"
        BY <1>5, <3>1
      <3> HIDE DEF bytes
      <3> QED
        BY <1>17, <2>2, <3>2
    <2>5. CASE ~cut
      <3>1. PICK v \in Value : Contents(cache, ptr[0]) = PageOf(v)
        BY <1>7, <1>11, <2>5
      <3>2. byte0 = v
        BY <3>1, PageByte
      <3>3. byte = byte0
        BY <1>14, <1>17, <2>3, <2>5
      <3> HIDE DEF byte0
      <3>4. seen[k].state = "written" /\ seen[k].page = byte0
        BY <1>5, <1>10, <2>5
      <3>5. byte \in Nat
        BY <3>2, <3>3, ObjStoreAssumption
      <3>6. bytes \in Seq(Nat) /\ Len(bytes) > 0 /\ bytes[1] = byte
        <4>1. n \in Nat /\ n >= 1
          BY <1>7
        <4> QED
          BY <3>5, <4>1
      <3> HIDE DEF bytes
      <3>7. ReadServed(k, p, bytes, "ok")
        BY <1>17, <3>3, <3>4, <3>6 DEF ReadServed
      <3> QED
        BY <1>17, <2>2, <3>7
    <2> QED
      BY <2>4, <2>5
  <1> QED
    BY <1>2, <1>16, <1>17

\* A write changes the first page or another; only the first of all may be refused.
LEMMA WriteClient ==
  ASSUME AllInv, Serving, NEW k \in Key, NEW p \in Page, NEW x \in Value, objfs_write(k, p, x),
         status' = "mounted"
  PROVE  /\ ClientInv' /\ Serving'
         /\ \/ /\ Wrote(k, p, x)
               /\ seen[k].state = "empty" <=> seen[k] = [state |-> "empty", page |-> Nothing, size |-> 0]
               /\ Reply("write", k, p, x, "ok")
            \/ /\ seen' = seen /\ seen[k] = [state |-> "empty", page |-> Nothing, size |-> 0]
               /\ Reply("write", k, p, x, "EINVAL")
  <1> DEFINE i == find_object_id(k)
             L == NewBlocks(Record(i))[1]
  <1>1. StoreInv /\ KeyInv /\ BlockOwners /\ ClientInv /\ BlocksOwned /\ status = "mounted"
    BY OwnersOwn DEF AllInv, Serving
  <1>2. /\ i # 0 /\ UNCHANGED <<inodeVars, mountVars>>
        /\ Overwrite(i, k, p, x) \/ Extend(i, k, p, x)
    BY DEF objfs_write
  <1>3. /\ Record(i).key = k /\ Open(i)
        /\ (seen[k].state = "empty" <=> Record(i).blocknum = 0)
        /\ (seen[k].state = "empty" <=> seen[k] = [state |-> "empty", page |-> Nothing, size |-> 0])
    BY <1>2, Existing
  <1>4. CASE Overwrite(i, k, p, x)
    <2>1. Overwrote(i, p, x)
      BY <1>1, <1>2, <1>4, OverwriteSound
    <2>2. /\ p < Record(i).blocknum /\ SeenNow'
          /\ Reply("write", k, p, x, "ok")
      BY <1>4, FinishSeen DEF Overwrite, Record
    <2> HIDE DEF i
    <2>3. ClientInv' /\ Serving' /\ Wrote(Record(i).key, p, x)
      BY <1>1, <1>3, <2>1, <2>2, OverwroteClient
    <2> QED
      BY <1>3, <2>2, <2>3
  <1>5. CASE Extend(i, k, p, x)
    <2>1. \/ L = 0 /\ Looked
          \/ L # 0 /\ \E b, obj : Extended(i, L, b, x, obj)
                               /\ obj.size = SizeAfter(Record(i), p, Length[x])
      BY <1>1, <1>2, <1>5, ExtendSound
    <2>2. p >= Record(i).blocknum /\ SeenNow'
      BY <1>5, FinishSeen DEF Extend, Record
    <2>3. \/ /\ L = 0
             /\ Reply("write", k, p, x, "EINVAL")
          \/ /\ L # 0
             /\ Reply("write", k, p, x, "ok")
      BY <1>5 DEF Extend, Record
    <2>4. Record(i).blocknum \in Nat /\ p \in Nat
      BY <1>3, ObjStoreAssumption DEF Open, RecordOf
    <2>5. L = 0 => Record(i).blocknum = 0
      <3> HIDE DEF i
      <3>1. SUFFICES ASSUME Record(i).blocknum # 0 PROVE L # 0
        OBVIOUS
      <3>2. L = Record(i).level1
        BY <3>1 DEF NewBlocks
      <3>3. Record(i).blocknum > 0
        BY <2>4, <3>1
      <3>4. Record(i).level1 \in DataBlocks
        BY <1>3, <3>3 DEF Open, RecordOf
      <3>5. Record(i).level1 \notin 0 .. DataStart - 1
        BY <3>4 DEF DataBlocks
      <3>6. DataStart \in Nat /\ DataStart > 0
        BY <1>1, Layout
      <3>7. 0 \in 0 .. DataStart - 1
        BY <3>6
      <3> HIDE DEF L
      <3> QED
        BY <3>2, <3>5, <3>7
    <2> HIDE DEF i, L
    <2>6. CASE L = 0
      <3>1. ClientInv' /\ Serving' /\ seen' = seen
        BY <1>1, <2>1, <2>2, <2>6, LookedClient
      <3> QED
        BY <1>3, <2>3, <2>5, <2>6, <3>1
    <2>7. CASE L # 0
      <3>1. PICK b, obj : /\ Extended(i, L, b, x, obj)
                          /\ obj.size = SizeAfter(Record(i), p, Length[x])
        BY <2>1, <2>7
      <3>2. ClientInv' /\ Serving' /\ Wrote(Record(i).key, p, x)
        BY <1>1, <1>3, <2>2, <2>4, <3>1, ExtendedClient
      <3> QED
        BY <1>3, <2>3, <2>7, <3>2
    <2> QED
      BY <2>6, <2>7
  <1> QED
    BY <1>2, <1>4, <1>5

-----------------------------------------------------------------------------
(* The refinement.                                                         *)

\* What a request of a client shows.
Answered(k) ==
  \/ /\ seen' = seen
     /\ Reply("open", k, 0, 0, IF seen[k] = Unseen THEN "ENOENT" ELSE "ok")
  \/ /\ seen' = seen /\ seen[k] = Unseen
     /\ Reply("getattr", k, 0, 0, "ENOENT")
  \/ /\ seen' = seen /\ seen[k] # Unseen
     /\ \E n \in Nat : /\ Reply("getattr", k, 0, n, "ok")
                       /\ seen[k].state = "truncated" \/ n = seen[k].size
  \/ /\ seen' = seen /\ Reply("rename", k, 0, 0, "EINVAL")
  \/ /\ seen' = seen /\ seen[k] = Unseen /\ Reply("unlink", k, 0, 0, "ok")
  \/ /\ seen' = seen
     /\ seen[k] # Unseen \/ Cardinality({l \in Key : seen[l] # Unseen}) = InodeBits - 2
     /\ Reply("create", k, 0, 0, "EEXIST")
  \/ /\ seen' = [seen EXCEPT ![k] = [state |-> "empty", page |-> Nothing, size |-> 0]]
     /\ seen[k] = Unseen /\ Cardinality({l \in Key : seen[l] # Unseen}) # InodeBits - 2
     /\ Reply("create", k, 0, 0, "ok")
  \/ /\ seen' = seen
     /\ \E p, bytes, res : /\ ReplyPages(k, p, bytes, res)
                           /\ seen[k].state = "truncated" \/ ReadServed(k, p, bytes, res)
  \/ \E p \in Page, x \in Value :
       \/ /\ Wrote(k, p, x) /\ Reply("write", k, p, x, "ok")
          /\ seen[k].state = "empty" <=> seen[k] = [state |-> "empty", page |-> Nothing, size |-> 0]
       \/ /\ seen' = seen /\ seen[k] = [state |-> "empty", page |-> Nothing, size |-> 0]
          /\ Reply("write", k, p, x, "EINVAL")

\* A step that the first mount survives answers a request.
LEMMA Requests ==
  ASSUME AllInv, Next, mounts # 0, Serving'
  PROVE  Serving /\ ClientInv' /\ \E k \in Key : Answered(k)
  <1>1. mounts \in Nat /\ status' = "mounted" /\ mounts' = 1
    BY DEF AllInv, KeyInv, Serving
  <1>2. ASSUME NEW k \in Key, Request(k)
        PROVE  Serving /\ ClientInv' /\ \E l \in Key : Answered(l)
    <2>1. Serving
      BY <1>1, <1>2 DEF Request, objfs_open, objfs_getattr, objfs_create, objfs_unlink, objfs_rename_key,
                        objfs_read, Dies, mountVars, Serving
    <2>2. CASE objfs_open(k)
      BY <1>1, <2>1, <2>2, OpenClient DEF Answered
    <2>3. CASE objfs_getattr(k)
      BY <1>1, <2>1, <2>3, GetattrClient DEF Answered
    <2>4. CASE objfs_create(k)
      BY <1>1, <2>1, <2>4, CreateClient DEF Answered
    <2>5. CASE objfs_unlink(k)
      BY <1>1, <2>1, <2>5, UnlinkClient DEF Answered
    <2>6. CASE objfs_rename_key(k)
      BY <1>1, <2>1, <2>6, RenameClient DEF Answered
    <2>7. CASE \E r \in Reads : objfs_read(k, r[1], r[2])
      BY <1>1, <2>1, <2>7, ReadClient DEF Answered
    <2> QED
      BY <1>2, <2>2, <2>3, <2>4, <2>5, <2>6, <2>7 DEF Request
  <1>3. ASSUME NEW a \in Writes, objfs_write(a[1], a[2], a[3])
        PROVE  Serving /\ ClientInv' /\ \E l \in Key : Answered(l)
    <2> DEFINE k == a[1]
               p == a[2]
               x == a[3]
    <2>1. k \in Key /\ p \in Page /\ x \in Value
      BY ObjStoreAssumption
    <2> HIDE DEF k, p, x
    <2>2. objfs_write(k, p, x)
      BY <1>3 DEF k, p, x
    <2>3. Serving
      BY <1>1, <2>2 DEF objfs_write, mountVars, Serving
    <2>4. /\ ClientInv'
          /\ \/ /\ Wrote(k, p, x) /\ Reply("write", k, p, x, "ok")
                /\ seen[k].state = "empty" <=> seen[k] = [state |-> "empty", page |-> Nothing, size |-> 0]
             \/ /\ seen' = seen /\ seen[k] = [state |-> "empty", page |-> Nothing, size |-> 0]
                /\ Reply("write", k, p, x, "EINVAL")
      BY <1>1, <2>1, <2>2, <2>3, WriteClient
    <2> QED
      BY <2>1, <2>3, <2>4 DEF Answered
  <1>4. ~objfs_destroy /\ ~objfs_init /\ ~AccessAnyBlock /\ ~FreedNodeRead
    BY <1>1 DEF objfs_destroy, objfs_init, AccessAnyBlock, FreedNodeRead, Dies
  <1> QED
    BY <1>2, <1>3, <1>4 DEF Next

\* Before the first mount nothing else can happen.
LEMMA FirstStep ==
  ASSUME AllInv, Next, mounts = 0
  PROVE  objfs_init
  <1>1. status = "unmounted"
    BY DEF AllInv, KeyInv
  <1> QED
    BY <1>1 DEF Next, Request, objfs_open, objfs_getattr, objfs_create, objfs_unlink, objfs_rename_key,
                objfs_read, objfs_write, objfs_destroy, AccessAnyBlock, FreedNodeRead

\* The mounts are counted.
LEMMA MountsGrow ==
  ASSUME AllInv, Next
  PROVE  mounts \in Nat /\ mounts' \in Nat /\ mounts' >= mounts
  <1>1. mounts \in Nat
    BY DEF AllInv, KeyInv
  <1>2. mounts' = mounts \/ mounts' = mounts + 1
    BY DEF Next, Request, objfs_open, objfs_getattr, objfs_create, objfs_unlink, objfs_rename_key,
           objfs_read, objfs_write, objfs_destroy, objfs_init, AccessAnyBlock, FreedNodeRead, Dies, mountVars
  <1> QED
    BY <1>1, <1>2

\* Nothing is shown at first.
LEMMA ClientStarts == Init => ClientInv
  BY DEF Init, ClientInv, Serving

\* What is shown stays what the blocks hold.
LEMMA ClientKept == AllInv /\ [Next]_vars => ClientInv'
  <1> SUFFICES ASSUME AllInv, [Next]_vars PROVE ClientInv'
    OBVIOUS
  <1>1. CASE UNCHANGED vars
    BY <1>1 DEF AllInv, ClientInv, Serving, SeenNow, Filed, Bucket, vars
  <1>2. CASE Next /\ mounts = 0
    <2>1. objfs_init
      BY <1>2, FirstStep
    <2>2. mounts' = 1
      BY <1>2, <2>1 DEF objfs_init
    <2>3. CASE status' = "mounted"
      BY <1>2, <2>1, <2>3, MountedClient DEF AllInv
    <2>4. CASE status' # "mounted"
      BY <2>2, <2>4 DEF ClientInv, Serving
    <2> QED
      BY <2>3, <2>4
  <1>3. CASE Next /\ mounts # 0
    <2>1. mounts' # 0
      BY <1>3, MountsGrow
    <2>2. CASE Serving'
      BY <1>3, <2>2, Requests
    <2>3. CASE ~Serving'
      BY <2>1, <2>3 DEF ClientInv, Serving
    <2> QED
      BY <2>2, <2>3
  <1> QED
    BY <1>1, <1>2, <1>3

\* Both modules count in the same way.
LEMMA SameCount == \A S : ObjectStore!Cardinality(S) = Cardinality(S)
  BY DEF ObjectStore!Cardinality, Cardinality

\* What a reliable store answers is what its clients rely on.
LEMMA AnswerImplements ==
  ASSUME Reliable, Reliable', seen = [l \in Key |-> seen[l]], seen' = [l \in Key |-> seen'[l]],
         NEW k \in Key, Answered(k), request' # Nothing => ServedWell(request')
  PROVE  ObjectStore!OSNext
  <1> DEFINE O == [l \in Key |-> IF Reliable THEN seen[l] ELSE Unseen]
             Q == IF Reliable THEN request ELSE Nothing
             empty == [state |-> "empty", page |-> Nothing, size |-> 0]
             full == Cardinality({l \in Key : seen[l] # Unseen}) = InodeBits - 2
             A(op, l, p, n, b, res) ==
               request' = [op |-> op, key |-> l, page |-> p, value |-> n, bytes |-> b, result |-> res]
             none == << >>
  <1>1. O = seen /\ O' = seen' /\ Q = request /\ Q' = request'
    OBVIOUS
  <1>2. \A l \in Key : seen[l].state # "truncated" /\ seen'[l].state # "truncated"
    BY DEF Reliable
  <1>3. ObjectStore!Absent = Unseen /\ ObjectStore!Empty = empty
    BY DEF Unseen, ObjectStore!Absent, ObjectStore!Empty
  <1>4. \A l \in Key : ObjectStore!Exists(l) <=> seen[l] # Unseen
    BY <1>1, <1>3 DEF ObjectStore!Exists
  <1>5. ObjectStore!IsFull <=> full
    <2>1. {l \in Key : ObjectStore!Exists(l)} = {l \in Key : seen[l] # Unseen}
      BY <1>4
    <2> QED
      BY <2>1, SameCount DEF ObjectStore!IsFull
  <1>6. \A op, l, n, b, res : ObjectStore!Answers(op, l, n, b, res) <=> A(op, l, 0, n, b, res)
    BY <1>1 DEF ObjectStore!Answers
  <1>7. /\ \A op, l, p, n, res : Reply(op, l, p, n, res) <=> A(op, l, p, n, none, res)
        /\ \A l, p, b, res : ReplyPages(l, p, b, res) <=> A("read", l, p, 0, b, res)
    BY DEF Reply, ReplyPages
  <1> DEFINE found == IF seen[k] = Unseen THEN "ENOENT" ELSE "ok"
  <1> HIDE DEF O, Q, full, A, none, found, empty
  <1>8. \/ seen' = seen /\ A("open", k, 0, 0, none, found)
        \/ seen' = seen /\ seen[k] = Unseen /\ A("getattr", k, 0, 0, none, "ENOENT")
        \/ /\ seen' = seen /\ seen[k] # Unseen
           /\ \E n \in Nat : A("getattr", k, 0, n, none, "ok") /\ n = seen[k].size
        \/ seen' = seen /\ A("rename", k, 0, 0, none, "EINVAL")
        \/ seen' = seen /\ seen[k] = Unseen /\ A("unlink", k, 0, 0, none, "ok")
        \/ seen' = seen /\ (seen[k] # Unseen \/ full) /\ A("create", k, 0, 0, none, "EEXIST")
        \/ /\ seen' = [seen EXCEPT ![k] = empty] /\ seen[k] = Unseen /\ ~full
           /\ A("create", k, 0, 0, none, "ok")
        \/ /\ seen' = seen
           /\ \E p, b, res : A("read", k, p, 0, b, res) /\ ReadServed(k, p, b, res)
        \/ \E p \in Page, x \in Value :
             /\ Wrote(k, p, x) /\ A("write", k, p, x, none, "ok")
             /\ seen[k].state = "empty" <=> seen[k] = empty
        \/ \E p \in Page, x \in Value :
             seen' = seen /\ seen[k] = empty /\ A("write", k, p, x, none, "EINVAL")
    BY <1>2, <1>7 DEF Answered, full, empty, found
  <1>9. request' # Nothing
    <2> DEFINE Ops == {"open", "getattr", "create", "unlink", "rename", "read", "write"}
               Results == {"ok", "ENOENT", "EEXIST", "EINVAL"}
    <2>1. 0 \in Nat /\ Page \subseteq Nat /\ Value \subseteq Nat /\ none \in Seq(Nat)
      BY ObjStoreAssumption DEF none
    <2>2. \E op \in Ops, p \in Nat, n \in Nat, b \in Seq(Nat), res \in Results : A(op, k, p, n, b, res)
      <3>1. /\ {"open", "getattr", "rename", "unlink", "create", "read", "write"} \subseteq Ops
            /\ {"ok", "EINVAL", "ENOENT", "EEXIST"} \subseteq Results
        OBVIOUS
      <3>2. found = "ENOENT" \/ found = "ok"
        BY DEF found
      <3> HIDE DEF Ops, Results
      <3>3. \/ A("open", k, 0, 0, none, found) \/ A("getattr", k, 0, 0, none, "ENOENT")
            \/ \E n \in Nat : A("getattr", k, 0, n, none, "ok")
            \/ A("rename", k, 0, 0, none, "EINVAL") \/ A("unlink", k, 0, 0, none, "ok")
            \/ A("create", k, 0, 0, none, "EEXIST") \/ A("create", k, 0, 0, none, "ok")
            \/ \E p \in Nat, b \in Seq(Nat) : A("read", k, p, 0, b, "ok") \/ A("read", k, p, 0, b, "EINVAL")
            \/ \E p \in Nat, x \in Nat : A("write", k, p, x, none, "ok")
            \/ \E p \in Nat, x \in Nat : A("write", k, p, x, none, "EINVAL")
        BY <1>8, <2>1 DEF ReadServed
      <3> QED
        BY <2>1, <3>1, <3>2, <3>3
    <2>3. PICK op \in Ops, p \in Nat, n \in Nat, b \in Seq(Nat), res \in Results : A(op, k, p, n, b, res)
      BY <2>2
    <2>4. request' \in [op : Ops, key : Key, page : Nat, value : Nat, bytes : Seq(Nat), result : Results]
      BY <2>3 DEF A
    <2> QED
      BY <2>4, RequestAssumption
  <1>10. ASSUME seen' = seen PROVE O' = O
    BY <1>1, <1>10
  <1>11. ServedWell(request')
    BY <1>9
  <1>12. ASSUME seen' = seen /\ A("open", k, 0, 0, none, found)
         PROVE  ObjectStore!OSRequest
    <2>1. ObjectStore!OSOpen(k)
      BY <1>4, <1>6, <1>10, <1>12 DEF ObjectStore!OSOpen, O, found, none
    <2> QED
      BY <2>1 DEF ObjectStore!OSRequest
  <1>13. ASSUME seen' = seen /\ seen[k] = Unseen /\ A("getattr", k, 0, 0, none, "ENOENT")
         PROVE  ObjectStore!OSRequest
    <2>1. ObjectStore!OSGetattr(k)
      BY <1>4, <1>6, <1>10, <1>13 DEF ObjectStore!OSGetattr, O, none
    <2> QED
      BY <2>1 DEF ObjectStore!OSRequest
  <1>14. ASSUME /\ seen' = seen /\ seen[k] # Unseen
                /\ \E n \in Nat : A("getattr", k, 0, n, none, "ok") /\ n = seen[k].size
         PROVE  ObjectStore!OSRequest
    <2>1. A("getattr", k, 0, O[k].size, none, "ok")
      BY <1>1, <1>14
    <2>2. ObjectStore!OSGetattr(k)
      BY <1>4, <1>6, <1>10, <1>14, <2>1 DEF ObjectStore!OSGetattr, O, none
    <2> QED
      BY <2>2 DEF ObjectStore!OSRequest
  <1>15. ASSUME seen' = seen /\ A("rename", k, 0, 0, none, "EINVAL")
         PROVE  ObjectStore!OSRequest
    <2>1. request'.op = "rename" /\ request'.key = k
      BY <1>15 DEF A
    <2>2. seen[k] = Unseen
      BY <1>11, <2>1 DEF ServedWell
    <2>3. ObjectStore!OSRename(k)
      BY <1>4, <1>6, <1>10, <1>15, <2>2 DEF ObjectStore!OSRename, O, none
    <2> QED
      BY <2>3 DEF ObjectStore!OSRequest
  <1>16. ASSUME seen' = seen /\ seen[k] = Unseen /\ A("unlink", k, 0, 0, none, "ok")
         PROVE  ObjectStore!OSRequest
    <2>1. O' = [O EXCEPT ![k] = ObjectStore!Absent]
      BY <1>1, <1>3, <1>16
    <2>2. ObjectStore!OSUnlink(k)
      BY <1>6, <1>16, <2>1 DEF ObjectStore!OSUnlink, O, none
    <2> QED
      BY <2>2 DEF ObjectStore!OSRequest
  <1>17. ASSUME seen' = seen /\ (seen[k] # Unseen \/ full) /\ A("create", k, 0, 0, none, "EEXIST")
         PROVE  ObjectStore!OSRequest
    <2>1. ObjectStore!OSCreate(k)
      BY <1>4, <1>5, <1>6, <1>10, <1>17 DEF ObjectStore!OSCreate, O, none
    <2> QED
      BY <2>1 DEF ObjectStore!OSRequest
  <1>18. ASSUME /\ seen' = [seen EXCEPT ![k] = empty] /\ seen[k] = Unseen /\ ~full
                /\ A("create", k, 0, 0, none, "ok")
         PROVE  ObjectStore!OSRequest
    <2>1. O' = [O EXCEPT ![k] = ObjectStore!Empty]
      BY <1>1, <1>3, <1>18
    <2>2. ObjectStore!OSCreate(k)
      BY <1>4, <1>5, <1>6, <1>18, <2>1 DEF ObjectStore!OSCreate, O, none
    <2> QED
      BY <2>2 DEF ObjectStore!OSRequest
  <1>19. ASSUME seen' = seen, NEW p, NEW b, NEW res, A("read", k, p, 0, b, res), ReadServed(k, p, b, res)
         PROVE  ObjectStore!OSRequest
    <2>1. request'.op = "read" /\ request'.page = p /\ request'.bytes = b
      BY <1>19 DEF A
    <2>2. p = 0
      BY <1>11, <2>1 DEF ServedWell
    <2>3. /\ res = "ok" /\ seen[k].state = "written"
          /\ Len(b) > 0 /\ b[1] = seen[k].page
      BY <1>19, <2>2 DEF ReadServed
    <2>4. O[k] = seen[k] /\ Q'.bytes = b
      BY <1>1, <2>1
    <2>5. ObjectStore!Answers("read", k, 0, Q'.bytes, "ok")
      BY <1>6, <1>19, <2>2, <2>3, <2>4
    <2>6. ObjectStore!OSRead(k)
      BY <1>10, <1>19, <2>3, <2>4, <2>5 DEF ObjectStore!OSRead, O, Q
    <2> QED
      BY <2>6 DEF ObjectStore!OSRequest
  <1>20. ASSUME NEW p \in Page, NEW x \in Value, Wrote(k, p, x), A("write", k, p, x, none, "ok"),
                seen[k].state = "empty" <=> seen[k] = empty
         PROVE  ObjectStore!OSRequest
    <2>1. request'.op = "write" /\ request'.page = p /\ request'.key = k /\ request'.value = x
      BY <1>20 DEF A
    <2>2. p = 0 /\ (seen[k].state = "written" => Length[x] = seen[k].size)
      BY <1>11, <2>1 DEF ServedWell
    <2>3. /\ \A l \in Key : l # k => seen'[l] = seen[l]
          /\ seen'[k] = [state |-> "written", page |-> x, size |-> Length[x]]
      BY <1>2, <1>20, <2>2 DEF Wrote
    <2>4. seen[k] # Unseen
      BY <1>20 DEF Wrote, Unseen
    <2>5. O' = [O EXCEPT ![k] = ObjectStore!Written(x)]
      BY <1>1, <2>3 DEF ObjectStore!Written
    <2>6. ObjectStore!OSWrite(k, x)
      BY <1>4, <1>6, <1>20, <2>2, <2>4, <2>5 DEF ObjectStore!OSWrite, O, none
    <2> QED
      BY <2>6 DEF ObjectStore!OSRequest
  <1>21. ASSUME NEW p \in Page, NEW x \in Value, seen' = seen, seen[k] = empty,
                A("write", k, p, x, none, "EINVAL")
         PROVE  ObjectStore!OSRequest
    <2>1. request'.op = "write" /\ request'.page = p
      BY <1>21 DEF A
    <2>2. p = 0
      BY <1>11, <2>1 DEF ServedWell
    <2>3. seen[k] # Unseen
      BY <1>21 DEF Unseen, empty
    <2>4. O[k] = ObjectStore!Empty
      BY <1>1, <1>3, <1>21
    <2>5. ObjectStore!OSWrite(k, x)
      BY <1>4, <1>6, <1>10, <1>21, <2>2, <2>3, <2>4 DEF ObjectStore!OSWrite, O, none
    <2> QED
      BY <2>5 DEF ObjectStore!OSRequest
  <1>22. ObjectStore!OSRequest
    BY <1>8, <1>12, <1>13, <1>14, <1>15, <1>16, <1>17, <1>18, <1>19, <1>20, <1>21
  <1>23. Q' # Nothing
    BY <1>1, <1>9
  <1> QED
    BY <1>22, <1>23 DEF ObjectStore!OSNext, Q

\* A page without a block stays without one.
LEMMA TruncatedStays ==
  ASSUME NEW k \in Key, Answered(k), seen = [l \in Key |-> seen[l]],
         NEW l \in Key, seen[l].state = "truncated"
  PROVE  seen'[l].state = "truncated"
  <1>1. CASE seen' = seen
    BY <1>1
  <1>2. CASE seen' = [seen EXCEPT ![k] = [state |-> "empty", page |-> Nothing, size |-> 0]] /\ seen[k] = Unseen
    <2>1. l # k
      BY <1>2 DEF Unseen
    <2> QED
      BY <1>2, <2>1
  <1>3. CASE \E p \in Page, x \in Value : Wrote(k, p, x)
    BY <1>3 DEF Wrote
  <1> QED
    BY <1>1, <1>2, <1>3 DEF Answered

\* A step of the clients is a step of the store, and recorded.
LEMMA ClientStep == ClientNext => Next /\ Recorded
  <1> SUFFICES ASSUME ClientNext PROVE Next /\ Recorded
    OBVIOUS
  <1>1. CASE \E k \in Key : Request(k) /\ Recorded
    BY <1>1 DEF Next
  <1>2. CASE ~\E k \in Key : Request(k) /\ Recorded
    <2>1. \A k \in Key : /\ ~(objfs_open(k) /\ Recorded)
                         /\ ~(objfs_getattr(k) /\ Recorded)
                         /\ ~(objfs_create(k) /\ Recorded)
                         /\ ~(objfs_unlink(k) /\ Recorded)
                         /\ ~(objfs_rename_key(k) /\ Recorded)
                         /\ \A r \in Reads : ~(objfs_read(k, r[1], r[2]) /\ Recorded)
      BY <1>2 DEF Request
    <2> QED
      BY <2>1 DEF ClientNext, Next
  <1> QED
    BY <1>1, <1>2

\* Every step is one of the abstract store, or none.
LEMMA StepImplements ==
  AllInv /\ AllInv' /\ [ClientNext]_cvars => [ObjectStore!OSNext]_(ObjectStore!osvars)
  <1> SUFFICES ASSUME AllInv, AllInv', [ClientNext]_cvars PROVE [ObjectStore!OSNext]_(ObjectStore!osvars)
    OBVIOUS
  <1>1. CASE UNCHANGED cvars
    <2>1. Reliable' <=> Reliable
      BY <1>1 DEF Reliable, Intact, Serving, cvars
    <2> QED
      BY <1>1, <2>1 DEF cvars, ObjectStore!osvars
  <1>2. CASE ClientNext /\ ~Reliable'
    <2>1. ObjectStore!OSVoid
      BY <1>2 DEF ObjectStore!OSVoid, ObjectStore!Absent, Unseen
    <2> QED
      BY <2>1 DEF ObjectStore!OSNext
  <1>3. CASE ClientNext /\ Reliable' /\ mounts = 0
    <2>1. objfs_init
      BY <1>3, FirstStep, ClientStep
    <2>2. mounts' = 1
      BY <1>3, <2>1 DEF objfs_init
    <2>3. status' = "mounted"
      BY <1>3, <2>2 DEF Reliable, Intact, Serving
    <2>4. seen' = seen /\ request' = Nothing /\ request = Nothing
      BY <1>3, <2>1, <2>3, MountedClient DEF AllInv, ClientInv
    <2>5. Reliable
      BY <1>3, <2>4, ClientStep DEF Reliable, Intact, Recorded
    <2> QED
      BY <1>3, <2>4, <2>5 DEF ObjectStore!osvars
  <1>4. CASE ClientNext /\ Reliable' /\ mounts # 0
    <2>1. mounts' = 1 /\ status' = "mounted"
      BY <1>4, MountsGrow, ClientStep DEF Reliable, Intact, Serving
    <2>2. Serving'
      BY <2>1 DEF Serving
    <2>3. Serving /\ \E k \in Key : Answered(k)
      BY <1>4, <2>2, Requests, ClientStep
    <2>4. PICK k \in Key : Answered(k)
      BY <2>3
    <2>5. seen = [l \in Key |-> seen[l]] /\ seen' = [l \in Key |-> seen'[l]]
      BY <2>2, <2>3 DEF AllInv, ClientInv, SeenNow
    <2>6. Reliable /\ (request' # Nothing => ServedWell(request'))
      <3>1. Intact
        BY <2>3 DEF Intact
      <3>2. \A l \in Key : seen[l].state # "truncated"
        BY <1>4, <2>4, <2>5, TruncatedStays DEF Reliable
      <3>3. confined /\ (request' # Nothing => ServedWell(request'))
        <4>1. confined' /\ ClientNext
          BY <1>4 DEF Reliable
        <4> QED
          BY <4>1, ClientStep DEF Recorded
      <3> QED
        BY <3>1, <3>2, <3>3 DEF Reliable
    <2>7. ObjectStore!OSNext
      BY <1>4, <2>4, <2>5, <2>6, AnswerImplements
    <2> QED
      BY <2>7
  <1> QED
    BY <1>1, <1>2, <1>3, <1>4

\* The histories of the clients restrict no step of the store.
LEMMA ClientSteps == ClientSpec => Spec
  <1>1. ClientInit => Init
    BY DEF ClientInit
  <1>2. [ClientNext]_cvars => [Next]_vars
    BY ClientStep DEF cvars, vars
  <1> QED
    BY <1>1, <1>2, PTL DEF ClientSpec, Spec

\* The object store keeps its promise for every set of keys and every size of the disk
\* and of the cache, as far as Reliable goes: while one process serves it on a disk it
\* has formatted, with a cache that fits, and clients write and read the first page of
\* their objects, always with the same length, and rename nothing. Then open, create,
\* getattr, read, write and unlink answer as ObjectStore says: the size that getattr
\* gives and the byte that a read gives are those of the last write to the object.
THEOREM Implementation == ClientSpec => ImplementsObjectStore
  <1>1. ClientInit => ObjectStore!OSInit
    <2> SUFFICES ASSUME ClientInit PROVE ObjectStore!OSInit
      OBVIOUS
    <2>1. mounts = 0 /\ request = Nothing /\ seen = [k \in Key |-> Unseen] /\ confined
      BY DEF ClientInit, Init
    <2>2. Reliable
      BY <2>1 DEF Reliable, Intact, Unseen
    <2> QED
      BY <2>1, <2>2 DEF ObjectStore!OSInit, ObjectStore!Absent, Unseen
  <1>2. Init => ClientInv
    BY ClientStarts
  <1>3. AllInv /\ [Next]_vars => ClientInv'
    BY ClientKept
  <1>4. AllInv /\ AllInv' /\ [ClientNext]_cvars => [ObjectStore!OSNext]_(ObjectStore!osvars)
    BY StepImplements
  <1>5. AllInv <=> StoreInv /\ KeyInv /\ BlockOwners /\ ClientInv
    BY DEF AllInv
  <1>6. Spec => []AllInv
    BY <1>2, <1>3, <1>5, StoreInvAlways, KeyInvAlways, BlockOwnersAlways, PTL DEF Spec
  <1> QED
    BY <1>1, <1>4, <1>6, ClientSteps, PTL DEF ClientSpec, ImplementsObjectStore, ObjectStore!OSSpec

\* A request that the first mount survives does to what clients see what it may.
LEMMA AnswerLocal ==
  ASSUME NEW k \in Key, Answered(k), seen = [l \in Key |-> seen[l]]
  PROVE  Locally(request'.key)
  <1> DEFINE empty == [state |-> "empty", page |-> Nothing, size |-> 0]
             Ops == {"open", "getattr", "rename", "unlink", "read"}
             old == seen[k]
             new == seen'[k]
  <1>1. Locally(k) <=>
          /\ \A l \in Key \ {k} : seen'[l] = seen[l]
          /\ CASE request'.op = "create" -> new = old \/ (old = Unseen /\ new.state = "empty")
               [] request'.op = "write" ->
                    old.state = "written" =>
                      /\ new.state = "written"
                      /\ new.page = IF request'.page = 0 THEN request'.value ELSE old.page
               [] OTHER -> new = old
    BY DEF Locally
  <1>2. CASE seen' = seen /\ request'.key = k /\ request'.op \in Ops \cup {"create"}
    BY <1>1, <1>2
  <1>3. CASE /\ seen' = [seen EXCEPT ![k] = empty] /\ seen[k] = Unseen
             /\ request'.key = k /\ request'.op = "create"
    BY <1>1, <1>3
  <1>4. ASSUME NEW p \in Page, NEW x \in Value, Wrote(k, p, x), Reply("write", k, p, x, "ok")
        PROVE  Locally(request'.key)
    <2>1. request'.key = k /\ request'.op = "write" /\ request'.page = p /\ request'.value = x
      BY <1>4 DEF Reply
    <2>2. \A l \in Key \ {k} : seen'[l] = seen[l]
      BY <1>4 DEF Wrote
    <2>3. old.state = "written" => /\ new.state = "written"
                                   /\ new.page = IF p = 0 THEN x ELSE old.page
      <3> SUFFICES ASSUME old.state = "written"
                   PROVE  new.state = "written" /\ new.page = IF p = 0 THEN x ELSE old.page
        OBVIOUS
      <3>1. PICK n : new = [state |-> "written", page |-> IF p = 0 THEN x ELSE old.page, size |-> n]
        BY <1>4 DEF Wrote
      <3> HIDE DEF old, new
      <3> QED
        BY <3>1
    <2> HIDE DEF old, new
    <2> QED
      BY <1>1, <2>1, <2>2, <2>3
  <1>5. CASE seen' = seen /\ old = empty /\ request'.key = k /\ request'.op = "write"
    <2>1. old.state # "written"
      BY <1>5
    <2> HIDE DEF old, new
    <2> QED
      BY <1>1, <1>5, <2>1 DEF old, new
  <1>6. /\ \A op, p, n, res : Reply(op, k, p, n, res) => request'.op = op /\ request'.key = k
        /\ \A p, b, res : ReplyPages(k, p, b, res) => request'.op = "read" /\ request'.key = k
    BY DEF Reply, ReplyPages
  <1> QED
    BY <1>2, <1>3, <1>4, <1>5, <1>6 DEF Answered

\* No request disturbs another object, or a page it does not name, for every set of keys
\* and every size of the disk and of the cache.
THEOREM RequestsLocalAlways == Spec => RequestsLocal
  <1> DEFINE A == Serving /\ Serving' /\ request' # Nothing => Locally(request'.key)
  <1>1. AllInv /\ AllInv' /\ [Next]_vars => [A]_vars
    <2> SUFFICES ASSUME AllInv, AllInv', Next, Serving, Serving', request' # Nothing
                 PROVE  Locally(request'.key)
      OBVIOUS
    <2>1. mounts # 0
      BY DEF Serving
    <2>2. PICK k \in Key : Answered(k)
      BY <2>1, Requests
    <2>3. seen = [l \in Key |-> seen[l]]
      BY DEF AllInv, ClientInv, SeenNow
    <2> QED
      BY <2>2, <2>3, AnswerLocal
  <1>2. Init => ClientInv
    BY ClientStarts
  <1>3. AllInv /\ [Next]_vars => ClientInv'
    BY ClientKept
  <1>4. AllInv <=> StoreInv /\ KeyInv /\ BlockOwners /\ ClientInv
    BY DEF AllInv
  <1>5. Spec => []AllInv
    BY <1>2, <1>3, <1>4, StoreInvAlways, KeyInvAlways, BlockOwnersAlways, PTL DEF Spec
  <1> HIDE DEF A
  <1>6. Spec => [][A]_vars
    BY <1>1, <1>5, PTL DEF Spec
  <1> QED
    BY <1>6 DEF RequestsLocal, A

=============================================================================
