--------------------------- MODULE ObjStore_proofs ---------------------------
(***************************************************************************)
(* Proofs about ObjStore, for every set of keys, every size of the disk    *)
(* and of the cache: its type and the structure of the cache in every      *)
(* state, and, while the cache fits, that records and blocks belong to     *)
(* whom they were given.                                                   *)
(***************************************************************************)
EXTENDS ObjStore, BlockCache_proofs

-----------------------------------------------------------------------------
(* Numbers.                                                                *)

\* Induction, said of sets.
LEMMA Induct ==
  ASSUME NEW T \in SUBSET Nat, 0 \in T, \A n \in T : n + 1 \in T
  PROVE  T = Nat
  <1> DEFINE U == Nat \ T
  <1>1. SUFFICES ASSUME U # {} PROVE FALSE
    OBVIOUS
  <1>2. PICK x \in U : \A y \in U : x <= y
    BY <1>1, Least
  <1>3. x \in Nat /\ x # 0 /\ x - 1 \in Nat /\ x - 1 \notin U
    BY <1>2
  <1>4. x - 1 \in T /\ (x - 1) + 1 = x
    BY <1>3
  <1> QED
    BY <1>2, <1>4

\* ... up to a bound.
LEMMA InductTo ==
  ASSUME NEW n \in Nat, NEW T, 0 \in T, \A j \in 0 .. n : j \in T /\ j < n => j + 1 \in T
  PROVE  \A j \in 0 .. n : j \in T
  <1> DEFINE U == {j \in Nat : j <= n => j \in T}
  <1>1. 0 \in U /\ \A j \in U : j + 1 \in U
    OBVIOUS
  <1>2. U = Nat
    <2> HIDE DEF U
    <2>1. U \in SUBSET Nat
      BY DEF U
    <2> QED
      BY <1>1, <2>1, Induct
  <1> QED
    BY <1>2

\* Quotients of what is less than q times L.
LEMMA Quotient ==
  ASSUME NEW L \in Nat \ {0}, NEW q \in Nat, NEW x \in 0 .. q * L - 1
  PROVE  x \div L \in 0 .. q - 1 /\ x % L \in 0 .. L - 1
  OBVIOUS

\* The largest of a set of buckets.
LEMMA LargestBucket ==
  ASSUME NEW S \in SUBSET (0 .. Buckets - 1), S # {}
  PROVE  Max(S) \in S
  <1> DEFINE T == {Buckets - 1 - h : h \in S}
  <1>0. Buckets \in Nat
    BY ObjStoreAssumption
  <1>1. T \in SUBSET Nat /\ T # {}
    <2>1. \A h \in S : h \in 0 .. Buckets - 1 /\ Buckets - 1 - h \in Nat
      BY <1>0
    <2>2. T \in SUBSET Nat
      BY <2>1
    <2>3. PICK h : h \in S
      OBVIOUS
    <2>4. Buckets - 1 - h \in T
      BY <2>3
    <2> QED
      BY <2>2, <2>4
  <1>2. PICK x \in T : \A y \in T : x <= y
    BY <1>1, Least
  <1>3. PICK h \in S : x = Buckets - 1 - h
    BY <1>2
  <1>4. \A g \in S : h >= g
    BY <1>0, <1>2, <1>3
  <1> QED
    BY <1>4 DEF Max

-----------------------------------------------------------------------------
(* Recursive functions: each is what its definition says.                  *)

\* The powers of Base are positive.
LEMMA PowerType == \A n \in 0 .. LongBytes : Power[n] \in Nat \ {0}
  <1> DEFINE N == LongBytes
             E(f, m) == f = [n \in 0 .. m |-> IF n = 0 THEN 1 ELSE Base * f[n - 1]]
             T == {m \in Nat : \E f : E(f, m)}
  <1>1. N \in Nat /\ Base \in Nat \ {0}
    BY ObjStoreAssumption
  <1>2. 0 \in T
    <2>1. E([n \in 0 .. 0 |-> 1], 0)
      OBVIOUS
    <2> QED
      BY <2>1
  <1>3. ASSUME NEW m \in T PROVE m + 1 \in T
    <2>1. PICK f : E(f, m)
      OBVIOUS
    <2> DEFINE g == [n \in 0 .. m + 1 |-> IF n <= m THEN f[n] ELSE Base * f[m]]
    <2>2. ASSUME NEW n \in 0 .. m + 1
          PROVE  g[n] = IF n = 0 THEN 1 ELSE Base * g[n - 1]
      <3>1. CASE n <= m /\ n = 0
        BY <2>1, <3>1
      <3>2. CASE n <= m /\ n # 0
        <4>1. n - 1 \in 0 .. m + 1 /\ n - 1 <= m /\ n \in 0 .. m
          BY <3>2
        <4> QED
          BY <2>1, <3>2, <4>1
      <3>3. CASE n = m + 1
        <4>1. n # 0 /\ n - 1 = m /\ m \in 0 .. m + 1 /\ ~(n <= m)
          BY <3>3
        <4> QED
          BY <3>3, <4>1
      <3> QED
        BY <3>1, <3>2, <3>3
    <2>3. E(g, m + 1)
      BY <2>2
    <2>4. m + 1 \in Nat
      OBVIOUS
    <2> HIDE DEF g, E
    <2> QED
      BY <2>3, <2>4
  <1>4. N \in T
    <2> HIDE DEF T
    <2>1. T \in SUBSET Nat
      BY DEF T
    <2> QED
      BY <1>1, <1>2, <1>3, <2>1, Induct
  <1>5. E(Power, N)
    <2>1. \E f : E(f, N)
      BY <1>4
    <2>2. Power = CHOOSE f : E(f, N)
      BY DEF Power
    <2> HIDE DEF E
    <2> QED
      BY <2>1, <2>2
  <1>6. /\ Power[0] = 1
        /\ \A n \in 0 .. N : n < N => Power[n + 1] = Base * Power[n]
    <2>1. \A n \in 0 .. N : Power[n] = IF n = 0 THEN 1 ELSE Base * Power[n - 1]
      BY <1>5
    <2>2. ASSUME NEW n \in 0 .. N, n < N PROVE Power[n + 1] = Base * Power[n]
      <3>1. n + 1 \in 0 .. N /\ n + 1 # 0 /\ (n + 1) - 1 = n
        BY <1>1, <2>2
      <3> QED
        BY <2>1, <3>1
    <2> QED
      BY <1>1, <2>1, <2>2
  <1> DEFINE U == {n \in Nat : Power[n] \in Nat \ {0}}
  <1>7. 0 \in U /\ \A n \in 0 .. N : n \in U /\ n < N => n + 1 \in U
    BY <1>1, <1>6
  <1> HIDE DEF U, N
  <1>8. \A n \in 0 .. N : n \in U
    BY <1>1, <1>7, InductTo
  <1> QED
    BY <1>8 DEF U, N

-----------------------------------------------------------------------------
(* What blocks hold: records of the identifiers ids, and the blocks in     *)
(* blocks.                                                                 *)

AllBlocks == 0 .. BlockBits - 1

RecordOf(blocks) ==
  {o \in [key : Key, blocknum : Nat, level1 : {0} \cup blocks, size : Nat] :
     o.blocknum > 0 => o.level1 \in blocks}

PointersTo(blocks) == [0 .. PointersPerBlock - 1 -> {0} \cup blocks]

Val(ids, blocks) ==
  {Zero, Junk} \cup {PageOf(v) : v \in Value}
    \cup {Pointers(f) : f \in PointersTo(blocks)}
    \cup {IdTable(f) : f \in [0 .. BlockBytes - 1 -> 0 .. Base - 1]}
    \cup {Objects(f) : f \in UNION {[I -> RecordOf(blocks)] : I \in SUBSET ids}}

HasObjects(x, ids, blocks) == \E I \in SUBSET ids : \E f \in [I -> RecordOf(blocks)] : x = Objects(f)

\* The kinds of contents.
LEMMA ValCases ==
  ASSUME NEW ids, NEW blocks, NEW x \in Val(ids, blocks)
  PROVE  \/ x = Zero
         \/ x = Junk
         \/ \E v \in Value : x = PageOf(v)
         \/ \E f \in PointersTo(blocks) : x = Pointers(f)
         \/ \E f \in [0 .. BlockBytes - 1 -> 0 .. Base - 1] : x = IdTable(f)
         \/ HasObjects(x, ids, blocks)
  BY DEF Val, HasObjects

\* The records in a block are those of identifiers.
LEMMA ObjectsRead ==
  ASSUME NEW ids, NEW blocks, NEW x \in Val(ids, blocks)
  PROVE  /\ DOMAIN ObjectsIn(x) \in SUBSET ids
         /\ \A i \in DOMAIN ObjectsIn(x) : ObjectsIn(x)[i] \in RecordOf(blocks)
         /\ x.tag # "objects" => DOMAIN ObjectsIn(x) = {}
  <1>1. CASE x.tag = "objects"
    <2>0. HasObjects(x, ids, blocks)
      BY <1>1, ValCases DEF Zero, Junk, PageOf, Pointers, IdTable
    <2>1. PICK I \in SUBSET ids : \E f \in [I -> RecordOf(blocks)] : x = Objects(f)
      BY <2>0 DEF HasObjects
    <2>2. PICK f \in [I -> RecordOf(blocks)] : x = Objects(f)
      BY <2>1
    <2>3. ObjectsIn(x) = f
      BY <1>1, <2>2 DEF ObjectsIn, Objects
    <2> QED
      BY <1>1, <2>3
  <1>2. CASE x.tag # "objects"
    <2>1. ObjectsIn(x) = << >>
      BY <1>2 DEF ObjectsIn
    <2>2. DOMAIN << >> = {}
      OBVIOUS
    <2> QED
      BY <2>1, <2>2
  <1> QED
    BY <1>1, <1>2

\* The pointers in a block are those of blocks.
LEMMA PointersRead ==
  ASSUME NEW ids, NEW blocks, NEW x \in Val(ids, blocks)
  PROVE  PointersIn(x) \in PointersTo(blocks)
  <1>1. CASE x.tag = "pointers"
    <2>1. PICK f \in PointersTo(blocks) : x = Pointers(f)
      BY <1>1, ValCases DEF Zero, Junk, PageOf, HasObjects, Objects, IdTable
    <2> QED
      BY <1>1, <2>1 DEF PointersIn, Pointers
  <1>2. CASE x.tag # "pointers"
    BY <1>2 DEF PointersIn, PointersTo
  <1> QED
    BY <1>1, <1>2

\* The bytes in a block are bytes.
LEMMA BytesRead ==
  ASSUME NEW ids, NEW blocks, NEW x \in Val(ids, blocks), NEW i \in 0 .. BlockBytes - 1
  PROVE  ByteIn(x, i) \in 0 .. Base - 1
  <1>0. Base \in Nat \ {0} /\ Value \subseteq 1 .. Base - 1
    BY ObjStoreAssumption
  <1>1. CASE x.tag = "page"
    <2>1. PICK v \in Value : x = PageOf(v)
      BY <1>1, ValCases DEF Zero, Junk, Pointers, HasObjects, Objects, IdTable
    <2>2. ByteIn(x, i) = v
      BY <1>1, <2>1 DEF ByteIn, PageOf
    <2> QED
      BY <1>0, <2>2
  <1>2. CASE x.tag = "ids"
    <2>1. PICK f \in [0 .. BlockBytes - 1 -> 0 .. Base - 1] : x = IdTable(f)
      BY <1>2, ValCases DEF Zero, Junk, Pointers, HasObjects, Objects, PageOf
    <2>2. ByteIn(x, i) = f[i]
      BY <1>2, <2>1 DEF ByteIn, IdTable
    <2> QED
      BY <2>2
  <1>3. CASE x.tag # "page" /\ x.tag # "ids"
    <2>1. ByteIn(x, i) = 0
      BY <1>3 DEF ByteIn
    <2> QED
      BY <1>0, <2>1
  <1> QED
    BY <1>1, <1>2, <1>3

\* More identifiers and more blocks make more contents.
LEMMA ValGrows ==
  ASSUME NEW ids, NEW blocks, NEW ids2, NEW blocks2, ids \subseteq ids2, blocks \subseteq blocks2
  PROVE  Val(ids, blocks) \subseteq Val(ids2, blocks2)
  <1>1. RecordOf(blocks) \subseteq RecordOf(blocks2)
    BY DEF RecordOf
  <1>2. PointersTo(blocks) \subseteq PointersTo(blocks2)
    BY DEF PointersTo
  <1>3. ASSUME NEW x \in Val(ids, blocks) PROVE x \in Val(ids2, blocks2)
    <2>1. CASE x = Zero \/ x = Junk \/ \E v \in Value : x = PageOf(v)
      BY <2>1 DEF Val
    <2>2. CASE \E f \in PointersTo(blocks) : x = Pointers(f)
      BY <1>2, <2>2 DEF Val
    <2>3. CASE \E f \in [0 .. BlockBytes - 1 -> 0 .. Base - 1] : x = IdTable(f)
      BY <2>3 DEF Val
    <2>4. CASE HasObjects(x, ids, blocks)
      <3>1. PICK I \in SUBSET ids : \E f \in [I -> RecordOf(blocks)] : x = Objects(f)
        BY <2>4 DEF HasObjects
      <3>2. PICK f \in [I -> RecordOf(blocks)] : x = Objects(f)
        BY <3>1
      <3>3. f \in [I -> RecordOf(blocks2)] /\ I \in SUBSET ids2
        BY <1>1
      <3> QED
        BY <3>2, <3>3 DEF Val
    <2> QED
      BY <2>1, <2>2, <2>3, <2>4, ValCases
  <1> QED
    BY <1>3

\* A record more.
Updated(f, i, obj) == [j \in {i} \cup DOMAIN f |-> IF j = i THEN obj ELSE f[j]]

\* A block with one more record is one the store may hold.
LEMMA UpdatedHeld ==
  ASSUME NEW ids, NEW blocks, NEW x \in Val(ids, blocks), NEW i \in ids,
         NEW obj \in RecordOf(blocks)
  PROVE  Objects(Updated(ObjectsIn(x), i, obj)) \in Val(ids, blocks)
  <1> DEFINE f == ObjectsIn(x)
             I == {i} \cup DOMAIN f
  <1>1. DOMAIN f \in SUBSET ids /\ \A j \in DOMAIN f : f[j] \in RecordOf(blocks)
    BY ObjectsRead
  <1> HIDE DEF f
  <1>2. Updated(f, i, obj) \in [I -> RecordOf(blocks)] /\ I \in SUBSET ids
    BY <1>1 DEF Updated
  <1>3. Objects(Updated(f, i, obj)) \in Val(ids, blocks)
    BY <1>2 DEF Val
  <1> QED
    BY <1>3 DEF f

-----------------------------------------------------------------------------
(* Where records are, and what is read as one.                             *)

\* The records of all identifiers are in the table.
LEMMA TableBlockRange ==
  ASSUME NEW i \in Identifier
  PROVE  /\ TableBlock(i) \in AllBlocks /\ TableBlock(i) < DataStart
         /\ i >= 2 => TableBlock(i) >= TableStart
  <1>1. /\ TableStart \in Nat /\ TableStart >= 1 /\ DataStart \in Nat /\ BlockBits \in Nat
        /\ DataStart <= BlockBits
    BY ObjStoreAssumption
  <1>2. ObjectsPerBlock \in Nat \ {0}
    BY ObjStoreAssumption
  <1>3. i \in Nat
    BY DEF Identifier
  <1>4. TableBlock(i) < DataStart
    BY TableAssumption
  <1>5. CASE i < 2
    <2>1. TableBlock(i) = TableStart - 1
      BY <1>5 DEF TableBlock
    <2> QED
      BY <1>1, <1>3, <1>4, <1>5, <2>1 DEF AllBlocks
  <1>6. CASE i >= 2
    <2>1. (i - 2) \div ObjectsPerBlock \in Nat
      BY <1>2, <1>3, <1>6
    <2>2. TableBlock(i) = TableStart + (i - 2) \div ObjectsPerBlock
      BY <1>3, <1>6 DEF TableBlock
    <2> QED
      BY <1>1, <1>4, <2>1, <2>2 DEF AllBlocks
  <1> QED
    BY <1>3, <1>5, <1>6

\* What is found as a record is one, of an identifier in ids.
LEMMA RecordRead ==
  ASSUME NEW c, IsCache(c), NEW ids, NEW blocks, Holds(c, Val(ids, blocks)),
         NEW i, TableBlock(i) \in Block(c)
  PROVE  \/ get_object_by_id(c, i) = NoObject
         \/ i \in ids /\ get_object_by_id(c, i) \in RecordOf(blocks)
  <1> DEFINE x == Contents(c, TableBlock(i))
  <1>1. x \in Val(ids, blocks)
    BY ContentsHeld
  <1> HIDE DEF x
  <1>2. DOMAIN ObjectsIn(x) \in SUBSET ids /\ \A j \in DOMAIN ObjectsIn(x) : ObjectsIn(x)[j] \in RecordOf(blocks)
    BY <1>1, ObjectsRead
  <1>3. get_object_by_id(c, i) = IF i \in DOMAIN ObjectsIn(x) THEN ObjectsIn(x)[i] ELSE NoObject
    BY DEF get_object_by_id, x
  <1> QED
    BY <1>2, <1>3

-----------------------------------------------------------------------------
(* Accesses of the store.                                                  *)

\* A cache of the store that reads as v over the disk D while it fits.
Good(c, D, v, V) ==
  /\ Shows(c, D, v, V) /\ c.buckets \in CacheSizes
  /\ DOMAIN D = AllBlocks /\ v \in [AllBlocks -> V]

\* What one access, or several, leave of it; the cache never fits again.
Leads(r, c, D, v, V) == Good(r, D, v, V) /\ (Fits(r) => Fits(c))

\* What a good cache gives.
LEMMA GoodFacts ==
  ASSUME NEW c, NEW D, NEW v, NEW V, Good(c, D, v, V)
  PROVE  /\ Partial(c, {}, {}) /\ IsCache(c) /\ Block(c) = AllBlocks /\ Holds(c, V)
         /\ c.buckets \in CacheSizes
         /\ IsFiniteSet(CacheNode) /\ Cardinality(CacheNode) >= c.buckets
         /\ \A b \in AllBlocks : Contents(c, b) \in V
         /\ Fits(c) => /\ Kept(c) /\ c.disk = D
                       /\ \A b \in AllBlocks : Contents(c, b) = v[b]
  <1>1. Partial(c, {}, {}) /\ Block(c) = AllBlocks /\ Holds(c, V) /\ c.buckets \in CacheSizes
    BY DEF Good, Shows
  <1>2. IsCache(c)
    BY <1>1 DEF Partial
  <1>3. IsFiniteSet(CacheNode) /\ Cardinality(CacheNode) >= c.buckets
    BY <1>1, ObjStoreAssumption
  <1>4. \A b \in AllBlocks : Contents(c, b) \in V
    BY <1>1, <1>2, ContentsHeld
  <1>5. Fits(c) => Kept(c) /\ c.disk = D /\ \A b \in AllBlocks : Contents(c, b) = v[b]
    BY <1>1 DEF Good, Shows
  <1> QED
    BY <1>1, <1>2, <1>3, <1>4, <1>5

\* Reading a block changes nothing that can be read.
LEMMA GoodRead ==
  ASSUME NEW c, NEW D, NEW v, NEW V, Good(c, D, v, V), NEW b \in AllBlocks
  PROVE  Leads(read_block_modified(c, b), c, D, v, V)
  <1> DEFINE r == read_block_modified(c, b)
  <1>1. Shows(c, D, v, V) /\ b \in Block(c) /\ IsFiniteSet(CacheNode)
        /\ Cardinality(CacheNode) >= c.buckets
    BY GoodFacts DEF Good
  <1>2. Shows(r, D, v, V) /\ r.buckets = c.buckets /\ (Fits(r) => Fits(c))
    BY <1>1, ReadShows
  <1> HIDE DEF r
  <1>3. Leads(r, c, D, v, V)
    BY <1>2 DEF Good, Leads
  <1> QED
    BY <1>3 DEF r

\* Writing it changes it.
LEMMA GoodWrite ==
  ASSUME NEW c, NEW D, NEW v, NEW V, Good(c, D, v, V), NEW b \in AllBlocks, NEW x \in V
  PROVE  Leads(write_block_modified(c, b, x), c, D, [v EXCEPT ![b] = x], V)
  <1> DEFINE r == write_block_modified(c, b, x)
             w == [v EXCEPT ![b] = x]
  <1>1. /\ Shows(c, D, v, V) /\ b \in Block(c) /\ IsFiniteSet(CacheNode)
        /\ Cardinality(CacheNode) >= c.buckets /\ DOMAIN v = DOMAIN D
    BY GoodFacts DEF Good
  <1>2. Shows(r, D, w, V) /\ r.buckets = c.buckets /\ (Fits(r) => Fits(c))
    BY <1>1, WriteShows
  <1>3. w \in [AllBlocks -> V]
    BY DEF Good
  <1> HIDE DEF r, w
  <1>4. Leads(r, c, D, w, V)
    BY <1>2, <1>3 DEF Good, Leads
  <1> QED
    BY <1>4 DEF r, w

\* What a cache reads as matters only while it fits.
LEMMA GoodRenamed ==
  ASSUME NEW c, NEW r, NEW D, NEW v, NEW w, NEW V, Leads(r, c, D, v, V),
         w \in [AllBlocks -> V], Fits(r) => w = v
  PROVE  Leads(r, c, D, w, V)
  BY DEF Leads, Good, Shows

\* One access after another.
LEMMA LeadsOn ==
  ASSUME NEW c, NEW r, NEW q, NEW D, NEW v, NEW w, NEW V,
         Leads(r, c, D, v, V), Leads(q, r, D, w, V)
  PROVE  Leads(q, c, D, w, V)
  BY DEF Leads

\* A cache may hold more.
LEMMA GoodGrows ==
  ASSUME NEW c, NEW D, NEW v, NEW V, NEW W, Good(c, D, v, V), V \subseteq W
  PROVE  Good(c, D, v, W)
  BY DEF Good, Shows, Holds

\* Blocks are read one by one.
LEMMA GoodReadBlocks ==
  ASSUME NEW c, NEW D, NEW v, NEW V, Good(c, D, v, V), NEW blocks \in Seq(AllBlocks)
  PROVE  Leads(ReadBlocks(c, blocks), c, D, v, V)
  <1> DEFINE n == Len(blocks)
             E(f, m) == f = [j \in 0 .. m |-> IF j = 0 THEN c ELSE read_block_modified(f[j - 1], blocks[j])]
             T == {m \in Nat : \E f : E(f, m)}
  <1>1. n \in Nat
    OBVIOUS
  <1>2. 0 \in T
    <2>1. E([j \in 0 .. 0 |-> c], 0)
      OBVIOUS
    <2> QED
      BY <2>1
  <1>3. ASSUME NEW m \in T PROVE m + 1 \in T
    <2>1. PICK f : E(f, m)
      OBVIOUS
    <2> DEFINE g == [j \in 0 .. m + 1 |-> IF j <= m THEN f[j] ELSE read_block_modified(f[m], blocks[m + 1])]
    <2>2. ASSUME NEW j \in 0 .. m + 1
          PROVE  g[j] = IF j = 0 THEN c ELSE read_block_modified(g[j - 1], blocks[j])
      <3>1. CASE j <= m /\ j = 0
        BY <2>1, <3>1
      <3>2. CASE j <= m /\ j # 0
        <4>1. j - 1 \in 0 .. m + 1 /\ j - 1 <= m /\ j \in 0 .. m
          BY <3>2
        <4>2. g[j] = f[j] /\ g[j - 1] = f[j - 1]
          BY <3>2, <4>1
        <4>3. f[j] = read_block_modified(f[j - 1], blocks[j])
          BY <2>1, <3>2, <4>1
        <4> QED
          BY <3>2, <4>2, <4>3
      <3>3. CASE j = m + 1
        <4>1. j # 0 /\ j - 1 = m /\ m \in 0 .. m + 1 /\ ~(j <= m)
          BY <3>3
        <4>2. g[j] = read_block_modified(f[m], blocks[m + 1]) /\ g[m] = f[m]
          BY <4>1
        <4> QED
          BY <3>3, <4>1, <4>2
      <3> QED
        BY <3>1, <3>2, <3>3
    <2>3. E(g, m + 1)
      BY <2>2
    <2>4. m + 1 \in Nat
      OBVIOUS
    <2> HIDE DEF g, E
    <2> QED
      BY <2>3, <2>4
  <1>4. n \in T
    <2> HIDE DEF T
    <2>1. T \in SUBSET Nat
      BY DEF T
    <2> QED
      BY <1>1, <1>2, <1>3, <2>1, Induct
  <1> DEFINE read == CHOOSE f : E(f, n)
  <1>5. E(read, n)
    <2>1. \E f : E(f, n)
      BY <1>4
    <2> HIDE DEF E
    <2> QED
      BY <2>1
  <1>6. ReadBlocks(c, blocks) = read[n]
    BY DEF ReadBlocks
  <1> HIDE DEF read
  <1>7. /\ read[0] = c
        /\ \A j \in 0 .. n : j < n => read[j + 1] = read_block_modified(read[j], blocks[j + 1])
    <2>1. \A j \in 0 .. n : read[j] = IF j = 0 THEN c ELSE read_block_modified(read[j - 1], blocks[j])
      BY <1>5
    <2>2. ASSUME NEW j \in 0 .. n, j < n PROVE read[j + 1] = read_block_modified(read[j], blocks[j + 1])
      <3>1. j + 1 \in 0 .. n /\ j + 1 # 0 /\ (j + 1) - 1 = j
        BY <1>1, <2>2
      <3> QED
        BY <2>1, <3>1
    <2> QED
      BY <1>1, <2>1, <2>2
  <1> DEFINE U == {j \in Nat : Leads(read[j], c, D, v, V)}
  <1>8. 0 \in U
    BY <1>7 DEF Leads
  <1>9. ASSUME NEW j \in 0 .. n, j \in U, j < n PROVE j + 1 \in U
    <2>1. blocks[j + 1] \in AllBlocks
      BY <1>1, <1>9
    <2>2. Leads(read[j], c, D, v, V)
      BY <1>9
    <2>3. Leads(read_block_modified(read[j], blocks[j + 1]), read[j], D, v, V)
      BY <2>1, <2>2, GoodRead DEF Leads
    <2>4. Leads(read[j + 1], c, D, v, V)
      BY <1>7, <1>9, <2>2, <2>3, LeadsOn
    <2> QED
      BY <2>4
  <1> HIDE DEF U, T, E
  <1>10. n \in U
    <2>1. \A j \in 0 .. n : j \in U /\ j < n => j + 1 \in U
      BY <1>9
    <2>2. \A j \in 0 .. n : j \in U
      BY <1>1, <1>8, <2>1, InductTo
    <2> QED
      BY <1>1, <2>2
  <1> QED
    BY <1>6, <1>10 DEF U

\* A record is read with its block, and written with the others of the block.
LEMMA GoodInsert ==
  ASSUME NEW c, NEW D, NEW v, NEW ids, NEW blocks, Good(c, D, v, Val(ids, blocks)),
         NEW i \in ids, i \in Identifier, NEW obj \in RecordOf(blocks)
  PROVE  LET b == TableBlock(i)
             w == [v EXCEPT ![b] = Objects(Updated(ObjectsIn(v[b]), i, obj))]
         IN  Leads(insert_to_disk(c, i, obj), c, D, w, Val(ids, blocks))
  <1> DEFINE b == TableBlock(i)
             V == Val(ids, blocks)
             x == Contents(c, b)
             new == Objects(Updated(ObjectsIn(x), i, obj))
             w == [v EXCEPT ![b] = Objects(Updated(ObjectsIn(v[b]), i, obj))]
             c1 == ReadRecord(c, i)
             r == insert_to_disk(c, i, obj)
  <1>1. b \in AllBlocks
    BY TableBlockRange
  <1>2. x \in V /\ (Fits(c) => x = v[b])
    BY <1>1, GoodFacts
  <1>3. new \in V
    BY <1>2, UpdatedHeld
  <1>4. r = write_block_modified(c1, b, new)
    BY DEF insert_to_disk, Updated
  <1>5. Leads(c1, c, D, v, V)
    BY <1>1, GoodRead DEF ReadRecord
  <1> HIDE DEF r, c1, V, new, b, x
  <1>6. Leads(r, c1, D, [v EXCEPT ![b] = new], V)
    BY <1>1, <1>3, <1>4, <1>5, GoodWrite DEF Leads
  <1>7. Leads(r, c, D, [v EXCEPT ![b] = new], V)
    BY <1>5, <1>6, LeadsOn
  <1>8. Fits(r) => w = [v EXCEPT ![b] = new]
    BY <1>2, <1>7 DEF new, Leads
  <1>9. w \in [AllBlocks -> V]
    <2>1. v \in [AllBlocks -> V]
      BY DEF Good, V
    <2>2. Objects(Updated(ObjectsIn(v[b]), i, obj)) \in V
      BY <1>1, <2>1, UpdatedHeld DEF V
    <2> QED
      BY <2>1, <2>2
  <1> HIDE DEF w
  <1>10. Leads(r, c, D, w, V)
    BY <1>7, <1>8, <1>9, GoodRenamed
  <1> QED
    BY <1>10 DEF r, w, V, b

-----------------------------------------------------------------------------
(* Walks of the hash table.                                                *)

\* A walk ends at the key, at an identifier without a record, or nowhere.
LEMMA WalkEnds ==
  ASSUME NEW c, NEW chain \in Seq(Identifier), NEW k
  PROVE  LET e == WalkEnd(c, chain, k)
         IN  \/ /\ e = 0
                /\ \A j \in DOMAIN chain :
                     chain[j] # 0 => IsObject(c, chain[j]) /\ get_object_by_id(c, chain[j]).key # k
             \/ /\ e \in 1 .. Len(chain) /\ e # 0 /\ chain[e] # 0
                /\ IsObject(c, chain[e]) => get_object_by_id(c, chain[e]).key = k
  <1> DEFINE e == WalkEnd(c, chain, k)
             Ends(i) == /\ i # 0
                        /\ get_object_by_id(c, i) = NoObject \/ get_object_by_id(c, i).key = k
             I == {j \in 1 .. Len(chain) : Ends(chain[j])}
  <1>1. e = IF I # {} THEN Min(I) ELSE 0
    BY DEF WalkEnd, SelectInSeq
  <1>2. DOMAIN chain = 1 .. Len(chain) /\ Len(chain) \in Nat
    OBVIOUS
  <1> HIDE DEF e
  <1>3. CASE I = {}
    <2>1. e = 0
      BY <1>1, <1>3
    <2>2. \A j \in DOMAIN chain :
            chain[j] # 0 => IsObject(c, chain[j]) /\ get_object_by_id(c, chain[j]).key # k
      BY <1>2, <1>3 DEF IsObject
    <2> QED
      BY <2>1, <2>2 DEF e
  <1>4. CASE I # {}
    <2>1. I \in SUBSET Nat
      BY <1>2
    <2>2. e \in I
      <3> HIDE DEF I
      <3>1. \E x \in I : \A y \in I : x <= y
        BY <1>4, <2>1, Least
      <3> QED
        BY <1>1, <1>4, <3>1 DEF Min
    <2>3. e \in 1 .. Len(chain) /\ e # 0 /\ Ends(chain[e])
      BY <1>2, <2>2
    <2> QED
      BY <2>3 DEF e, IsObject
  <1> QED
    BY <1>3, <1>4

\* What it finds is an identifier of the chain whose record has the key.
LEMMA WalkFound ==
  ASSUME NEW c, NEW chain \in Seq(Identifier), NEW k
  PROVE  LET i == WalkFinds(c, chain, k)
         IN  \/ i = 0
             \/ /\ i \in Identifier /\ i # 0 /\ IsObject(c, i)
                /\ get_object_by_id(c, i).key = k
                /\ \E e \in DOMAIN chain : chain[e] = i
  <1> DEFINE e == WalkEnd(c, chain, k)
             i == WalkFinds(c, chain, k)
  <1>1. i = IF e # 0 /\ IsObject(c, chain[e]) THEN chain[e] ELSE 0
    BY DEF WalkFinds
  <1>2. CASE e # 0 /\ IsObject(c, chain[e])
    <2>1. e \in DOMAIN chain /\ chain[e] # 0 /\ get_object_by_id(c, chain[e]).key = k
      BY <1>2, WalkEnds
    <2>2. chain[e] \in Identifier
      BY <2>1
    <2> QED
      BY <1>1, <1>2, <2>1, <2>2
  <1> QED
    BY <1>1, <1>2

-----------------------------------------------------------------------------
(* The states of the store.                                                *)

DataBlocks == blockmap \ (0 .. DataStart - 1)
StoreVal == Val(inodemap, DataBlocks)
View == [b \in AllBlocks |-> Contents(cache, b)]

\* The structure of the cache, which nothing breaks.
Structure == Partial(cache, {}, {}) /\ Block(cache) = AllBlocks /\ cache.buckets \in CacheSizes

Maps ==
  /\ hashTable \in [Bucket -> Seq(Identifier)]
  /\ inodemap \in SUBSET (2 .. InodeBits - 1) /\ blockmap \in SUBSET AllBlocks
  /\ inode_bit_itr \in Nat /\ inode_bit_itr * ByteBits <= InodeBits
  /\ block_bit_itr \in Nat /\ block_bit_itr * ByteBits <= BlockBits

\* A cache that fits keeps what was written, and holds what the store wrote.
Readable == Fits(cache) /\ Kept(cache) /\ Holds(cache, StoreVal)

StoreInv ==
  /\ status \in {"mounted", "unmounted", "dead", "dangling", "overflowed"}
  /\ Structure /\ Maps
  /\ status \in {"mounted", "unmounted"} => Readable
  /\ status = "mounted" => 0 .. DataStart - 1 \subseteq blockmap
  /\ status = "unmounted" => /\ saved = [inodemap |-> inodemap, blockmap |-> blockmap]
                             /\ \A b \in AllBlocks : Contents(cache, b) = cache.disk[b]

\* The cache of a mounted store is good.
LEMMA MountedGood ==
  ASSUME StoreInv, status = "mounted"
  PROVE  Good(cache, cache.disk, View, StoreVal)
  <1>1. DOMAIN cache.disk = AllBlocks
    BY DEF StoreInv, Structure, Block
  <1>2. \A b \in AllBlocks : Contents(cache, b) \in StoreVal
    BY ContentsHeld DEF StoreInv, Structure, Readable, Partial
  <1> QED
    BY <1>1, <1>2 DEF StoreInv, Structure, Readable, Good, Shows, View, Block

\* What a request leaves: a cache that is whole and, if the store still serves, reads
\* as v.
After(D, v, V) ==
  /\ Structure'
  /\ status' \in {"dead", "overflowed", "mounted"}
  /\ status' = "mounted" =>
       Fits(cache') /\ Kept(cache') /\ Holds(cache', V) /\ cache'.disk = D /\ View' = v

\* Contents do not matter for the structure.
LEMMA ContentsFree ==
  ASSUME NEW c, Partial(c, {}, {}), NEW x
  PROVE  LET r == [c EXCEPT !.memory = [a \in DOMAIN c.memory |-> x],
                            !.disk = [b \in DOMAIN c.disk |-> x]]
         IN  Partial(r, {}, {}) /\ Block(r) = Block(c) /\ r.buckets = c.buckets
  <1> DEFINE r == [c EXCEPT !.memory = [a \in DOMAIN c.memory |-> x],
                            !.disk = [b \in DOMAIN c.disk |-> x]]
  <1>1. /\ IsCache(c) /\ c.buckets >= 2 /\ HintInMap(c) /\ ChainShape(c) /\ ChainsListed(c)
        /\ Listed(c, {}) /\ Held(c, {}) /\ Len(c.lru) <= c.buckets - 1
    BY DEF Partial
  <1>2. /\ r.buckets = c.buckets /\ r.lru = c.lru /\ r.chain = c.chain /\ r.node = c.node
        /\ r.live = c.live /\ r.cachemap = c.cachemap /\ r.cache_bit_itr = c.cache_bit_itr
        /\ DOMAIN r.memory = DOMAIN c.memory /\ DOMAIN r.disk = DOMAIN c.disk
    BY <1>1 DEF IsCache
  <1>3. IsCache(r)
    BY <1>1 DEF IsCache, Slot, Block
  <1> HIDE DEF r
  <1>4. Slot(r) = Slot(c) /\ Block(r) = Block(c)
    BY <1>2 DEF Slot, Block
  <1>5. HintInMap(r) /\ ChainShape(r) /\ ChainsListed(r)
    BY <1>1, <1>2, <1>4 DEF HintInMap, ChainShape, ChainsListed, cache_hash
  <1>6. Listed(r, {}) /\ Held(r, {})
    BY <1>1, <1>2, <1>4 DEF Listed, Held, Uses
  <1>7. Partial(r, {}, {})
    BY <1>1, <1>2, <1>3, <1>5, <1>6 DEF Partial
  <1> QED
    BY <1>2, <1>4, <1>7 DEF r

\* How a request ends that made its accesses on a good cache.
LEMMA FinishSound ==
  ASSUME NEW c, NEW D, NEW v, NEW V, Good(c, D, v, V), NEW table, Finish(c, table)
  PROVE  After(D, v, V) /\ hashTable' = table /\ (status' = "mounted" => Fits(c) /\ cache' = c)
  <1> DEFINE junked == [c EXCEPT !.memory = [s \in DOMAIN c.memory |-> Junk],
                                 !.disk = [b \in DOMAIN c.disk |-> Junk]]
  <1>1. hashTable' = table /\ cache' = (IF Fits(c) THEN c ELSE junked)
    BY DEF Finish
  <1>2. /\ status' \in {"dead", "overflowed", "mounted"}
        /\ status' = "mounted" => Fits(c)
    BY DEF Finish
  <1>3. /\ Partial(c, {}, {}) /\ Block(c) = AllBlocks /\ c.buckets \in CacheSizes /\ Holds(c, V)
        /\ Fits(c) => /\ Kept(c) /\ c.disk = D
                      /\ \A b \in AllBlocks : Contents(c, b) = v[b]
    BY GoodFacts
  <1>4. Partial(junked, {}, {}) /\ Block(junked) = Block(c) /\ junked.buckets = c.buckets
    BY <1>3, ContentsFree
  <1> HIDE DEF junked
  <1>5. Structure'
    BY <1>1, <1>3, <1>4 DEF Structure
  <1>6. ASSUME status' = "mounted"
        PROVE  /\ Fits(cache') /\ Kept(cache') /\ Holds(cache', V) /\ cache'.disk = D
               /\ View' = v
    <2>1. cache' = c /\ Fits(c)
      BY <1>1, <1>2, <1>6
    <2>2. View' = v
      <3>1. View' = [b \in AllBlocks |-> Contents(cache', b)]
        BY DEF View, AllBlocks
      <3>2. View' = [b \in AllBlocks |-> v[b]]
        BY <1>3, <2>1, <3>1
      <3> QED
        BY <3>2 DEF Good
    <2> QED
      BY <1>3, <2>1, <2>2
  <1> QED
    BY <1>1, <1>2, <1>5, <1>6 DEF After

-----------------------------------------------------------------------------
(* What the requests do to the contents of the disk as the store reads it. *)

\* A request that changes nothing that can be read.
Looked ==
  After(cache.disk, View, StoreVal) /\ UNCHANGED <<nameVars, blockVars, mountVars>>

\* Record i of v becomes obj.
WithRecord(v, i, obj) ==
  [v EXCEPT ![TableBlock(i)] = Objects(Updated(ObjectsIn(v[TableBlock(i)]), i, obj))]

\* An object for key k gets an identifier that was free.
Created(k, i) ==
  /\ i \in Clear(inodemap, InodeBits)
  /\ WalkEnd(cache, hashTable[Hash[k]], k) = 0
  /\ inodemap' = inodemap \cup {i} /\ inode_bit_itr' = ByteOf(i)
  /\ hashTable' = Linked(hashTable, i, Hash[k])
  /\ UNCHANGED <<blockVars, mountVars>>
  /\ After(cache.disk,
           WithRecord(View, i, [key |-> k, blocknum |-> 0, level1 |-> 0, size |-> 0]),
           Val(inodemap', DataBlocks))

\* A page of object i is written to the block that its pointer block names.
Overwrote(i, p, x) ==
  LET b == PointersIn(View[Record(i).level1])[p]
  IN  /\ Record(i).level1 \in DataBlocks
      /\ UNCHANGED <<nameVars, blockVars, mountVars>>
      /\ After(cache.disk, [View EXCEPT ![b] = PageOf(x)], StoreVal)

\* What a new block b of object i makes of v, with pointer block L.
WithBlock(v, i, L, b, x, obj) ==
  LET ptr == [PointersIn(v[L]) EXCEPT ![Record(i).blocknum % PointersPerBlock] = b]
  IN  WithRecord([[v EXCEPT ![L] = Pointers(ptr)] EXCEPT ![b] = PageOf(x)], i, obj)

\* A page of object i gets a block, and the object a pointer block if it has none.
Extended(i, L, b, x, obj) ==
  /\ IF Record(i).blocknum = 0 THEN L \in Clear(blockmap, BlockBits) ELSE L = Record(i).level1
  /\ b \in Clear(blockmap \cup {L}, BlockBits) \/ b = 0
  /\ {L, b} \subseteq AllBlocks /\ L \in DataBlocks' /\ obj.key = Record(i).key /\ obj.level1 = L
  /\ obj.blocknum = Record(i).blocknum + 2 /\ obj.size > 0
  /\ Record(i).blocknum < PointersPerBlock
  /\ blockmap' = blockmap \cup ({L, b} \ {0})
  /\ block_bit_itr' \in Nat /\ block_bit_itr' * ByteBits <= BlockBits
  /\ UNCHANGED <<nameVars, mountVars>>
  /\ After(cache.disk, WithBlock(View, i, L, b, x, obj), Val(inodemap, DataBlocks'))

\* In a mounted store a record is what its block holds.
LEMMA RecordInView ==
  ASSUME StoreInv, status = "mounted", NEW i \in Identifier
  PROVE  Record(i) = IF i \in DOMAIN ObjectsIn(View[TableBlock(i)])
                     THEN ObjectsIn(View[TableBlock(i)])[i] ELSE NoObject
  <1>1. TableBlock(i) \in AllBlocks
    BY TableBlockRange
  <1>2. View[TableBlock(i)] = Contents(cache, TableBlock(i))
    BY <1>1 DEF View
  <1> QED
    BY <1>2 DEF Record, get_object_by_id

\* A record that exists is that of a taken identifier.
LEMMA RecordTaken ==
  ASSUME StoreInv, status \in {"mounted", "unmounted"}, NEW i \in Identifier, IsObject(cache, i)
  PROVE  i \in inodemap /\ Record(i) \in RecordOf(DataBlocks)
  <1>1. TableBlock(i) \in Block(cache)
    BY TableBlockRange DEF StoreInv, Structure
  <1>2. IsCache(cache) /\ Holds(cache, Val(inodemap, DataBlocks))
    BY DEF StoreInv, Structure, Partial, Readable, StoreVal
  <1> QED
    BY <1>1, <1>2, RecordRead DEF Record, IsObject

\* What the lookup of a key finds.
LEMMA FoundObject ==
  ASSUME StoreInv, status = "mounted", NEW k \in Key, find_object_id(k) # 0
  PROVE  LET i == find_object_id(k)
         IN  /\ i \in Identifier /\ i \in inodemap /\ i >= 2
             /\ Record(i) \in RecordOf(DataBlocks) /\ Record(i).key = k /\ IsObject(cache, i)
             /\ \E e \in DOMAIN hashTable[Hash[k]] : hashTable[Hash[k]][e] = i
  <1> DEFINE i == find_object_id(k)
             chain == hashTable[Hash[k]]
  <1>1. chain \in Seq(Identifier)
    <2>1. Hash[k] \in Bucket
      BY ObjStoreAssumption DEF Bucket
    <2> QED
      BY <2>1 DEF StoreInv, Maps
  <1>2. i = WalkFinds(cache, chain, k)
    BY DEF find_object_id
  <1> HIDE DEF i, chain
  <1>3. /\ i \in Identifier /\ IsObject(cache, i) /\ get_object_by_id(cache, i).key = k
        /\ \E e \in DOMAIN chain : chain[e] = i
    BY <1>1, <1>2, WalkFound DEF i
  <1>4. i \in inodemap /\ Record(i) \in RecordOf(DataBlocks)
    BY <1>3, RecordTaken
  <1>5. i >= 2
    BY <1>4, ObjStoreAssumption DEF StoreInv, Maps
  <1> QED
    BY <1>3, <1>4, <1>5 DEF Record, i, chain

\* A walk reads records only.
LEMMA WalkReadsGood ==
  ASSUME StoreInv, status = "mounted", NEW h \in Bucket, NEW k
  PROVE  Leads(WalkReads(h, k), cache, cache.disk, View, StoreVal)
  <1> DEFINE chain == hashTable[h]
             e == WalkEnd(cache, chain, k)
             n == IF e = 0 THEN Len(chain) ELSE e
  <1>1. chain \in Seq(Identifier)
    BY DEF StoreInv, Maps
  <1>2. n \in 0 .. Len(chain)
    <2>1. e = 0 \/ e \in 1 .. Len(chain)
      BY <1>1, WalkEnds
    <2>2. Len(chain) \in Nat
      BY <1>1
    <2> QED
      BY <2>1, <2>2
  <1>3. Good(cache, cache.disk, View, StoreVal)
    BY MountedGood
  <1> DEFINE blocks == [j \in 1 .. n |-> TableBlock(chain[j])]
  <1>4. WalkReads(h, k) = ReadBlocks(cache, blocks)
    BY DEF WalkReads
  <1> HIDE DEF chain, n
  <1>5. blocks \in Seq(AllBlocks)
    <2>1. n \in Nat /\ \A j \in 1 .. n : chain[j] \in Identifier
      BY <1>1, <1>2
    <2>2. \A j \in 1 .. n : TableBlock(chain[j]) \in AllBlocks
      BY <2>1, TableBlockRange
    <2>3. blocks \in [1 .. n -> AllBlocks]
      BY <2>2
    <2> HIDE DEF blocks
    <2> QED
      BY <2>1, <2>3
  <1> HIDE DEF blocks
  <1> QED
    BY <1>3, <1>4, <1>5, GoodReadBlocks

\* The buckets of the keys.
LEMMA KeyBuckets ==
  ASSUME NEW k \in Key
  PROVE  Hash[k] \in Bucket /\ SlashHash[k] \in Bucket
  BY ObjStoreAssumption DEF Bucket

\* A process that dies leaves what it had.
LEMMA DiesSound ==
  ASSUME StoreInv, status = "mounted", Dies
  PROVE  Looked
  <1>1. status' = "dead" /\ UNCHANGED <<nameVars, blockVars, mountVars, cache>>
    BY DEF Dies
  <1>2. Structure'
    BY <1>1 DEF StoreInv, Structure, AllBlocks
  <1> QED
    BY <1>1, <1>2 DEF Looked, After

\* Lookups change nothing.
LEMMA OpenSound ==
  ASSUME StoreInv, NEW k \in Key, objfs_open(k)
  PROVE  Looked
  <1>1. /\ status = "mounted" /\ Finish(WalkReads(Hash[k], k), hashTable)
        /\ UNCHANGED <<inodeVars, blockVars, mountVars>>
    BY DEF objfs_open
  <1>2. Good(WalkReads(Hash[k], k), cache.disk, View, StoreVal)
    BY <1>1, KeyBuckets, WalkReadsGood DEF Leads
  <1>3. After(cache.disk, View, StoreVal) /\ hashTable' = hashTable
    BY <1>1, <1>2, FinishSound
  <1> QED
    BY <1>1, <1>3 DEF Looked, nameVars, inodeVars

\* Neither does asking for the size.
LEMMA GetattrSound ==
  ASSUME StoreInv, NEW k \in Key, objfs_getattr(k)
  PROVE  Looked
  <1> DEFINE i == find_object_id(k)
             c == WalkReads(Hash[k], k)
             r == IF i = 0 THEN c ELSE ReadRecord(c, i)
  <1>1. /\ status = "mounted" /\ Finish(r, hashTable)
        /\ UNCHANGED <<inodeVars, blockVars, mountVars>>
    BY DEF objfs_getattr
  <1>2. Good(c, cache.disk, View, StoreVal)
    BY <1>1, KeyBuckets, WalkReadsGood DEF Leads
  <1>3. Good(r, cache.disk, View, StoreVal)
    <2>1. CASE i = 0
      BY <1>2, <2>1
    <2>2. CASE i # 0
      <3>1. i \in Identifier
        BY <1>1, <2>2, FoundObject
      <3>2. Leads(ReadRecord(c, i), c, cache.disk, View, StoreVal)
        BY <1>2, <3>1, TableBlockRange, GoodRead DEF ReadRecord
      <3> QED
        BY <2>2, <3>2 DEF Leads
    <2> QED
      BY <2>1, <2>2
  <1> HIDE DEF r
  <1>4. After(cache.disk, View, StoreVal) /\ hashTable' = hashTable
    BY <1>1, <1>3, FinishSound
  <1> QED
    BY <1>1, <1>4 DEF Looked, nameVars, inodeVars

\* Nor a rename, which finds nothing.
LEMMA RenameSound ==
  ASSUME StoreInv, NEW k \in Key, objfs_rename_key(k)
  PROVE  Looked
  <1>1. /\ status = "mounted"
        /\ \/ Dies
           \/ /\ Finish(WalkReads(SlashHash[k], "/"), hashTable)
              /\ UNCHANGED <<inodeVars, blockVars, mountVars>>
    BY DEF objfs_rename_key
  <1>2. CASE Dies
    BY <1>1, <1>2, DiesSound
  <1>3. CASE /\ Finish(WalkReads(SlashHash[k], "/"), hashTable)
             /\ UNCHANGED <<inodeVars, blockVars, mountVars>>
    <2>1. Good(WalkReads(SlashHash[k], "/"), cache.disk, View, StoreVal)
      BY <1>1, KeyBuckets, WalkReadsGood DEF Leads
    <2>2. After(cache.disk, View, StoreVal) /\ hashTable' = hashTable
      BY <1>3, <2>1, FinishSound
    <2> QED
      BY <1>3, <2>2 DEF Looked, nameVars, inodeVars
  <1> QED
    BY <1>1, <1>2, <1>3

\* What a search of a map gives, and where the next one starts.
LEMMA Fetched ==
  ASSUME NEW B \in Nat \ {0}, NEW h \in Nat, h * ByteBits <= B, NEW taken
  PROVE  LET n == Fetch(taken, B, h)
         IN  /\ n = 0 \/ n \in Clear(taken, B)
             /\ n \in Nat
             /\ Hint(h, n) \in Nat /\ Hint(h, n) * ByteBits <= B
  <1> DEFINE n == Fetch(taken, B, h)
  <1>1. n = 0 \/ n \in Clear(taken, B)
    BY FetchFinds
  <1> HIDE DEF n
  <1>2. CASE n = 0
    BY <1>2 DEF Hint, n
  <1>3. CASE n # 0
    <2>1. n \in Nat /\ n < B
      BY <1>1, <1>3 DEF Clear
    <2>2. ByteBits \in Nat \ {0}
      BY BitmapAssumption
    <2>3. Hint(h, n) = n \div ByteBits
      BY <1>3 DEF Hint, ByteOf
    <2>4. n \div ByteBits \in Nat /\ (n \div ByteBits) * ByteBits <= n
      BY <2>1, <2>2
    <2>5. Hint(h, n) \in Nat /\ Hint(h, n) * ByteBits <= n
      BY <2>3, <2>4
    <2>6. Hint(h, n) * ByteBits <= B
      <3> DEFINE m == Hint(h, n) * ByteBits
      <3>1. m \in Nat
        BY <2>2, <2>5
      <3>2. m <= n
        BY <2>5
      <3> HIDE DEF m
      <3>3. m <= B
        BY <2>1, <3>1, <3>2
      <3> QED
        BY <3>3 DEF m
    <2> QED
      BY <1>1, <2>1, <2>5, <2>6 DEF n
  <1> QED
    BY <1>2, <1>3

\* The size is a number, and not 0 after a write.
LEMMA SizeType ==
  ASSUME NEW blocks, NEW o \in RecordOf(blocks), NEW p \in Nat, NEW x \in Nat
  PROVE  SizeAfter(o, p, x) \in Nat /\ (x > 0 => SizeAfter(o, p, x) > 0)
  <1>1. BlockBytes \in Nat \ {0}
    BY ObjStoreAssumption
  <1>2. o.size \in Nat
    BY DEF RecordOf
  <1>3. o.size \div BlockBytes \in Nat
    BY <1>1, <1>2
  <1> DEFINE pages == (o.size \div BlockBytes) * BlockBytes
  <1>4. pages \in Nat
    BY <1>1, <1>3
  <1>5. SizeAfter(o, p, x) \in {x, x + pages, o.size + x}
    BY DEF SizeAfter
  <1> HIDE DEF pages
  <1> QED
    BY <1>2, <1>4, <1>5

\* The record of an object with one block more.
LEMMA RecordExtended ==
  ASSUME NEW o, NEW A, o \in [key : Key, blocknum : Nat, level1 : A, size : Nat],
         NEW blocks, NEW L \in blocks, NEW n \in Nat
  PROVE  [o EXCEPT !.level1 = L, !.blocknum = @ + 2, !.size = n] \in RecordOf(blocks)
  <1> DEFINE q == [o EXCEPT !.level1 = L, !.blocknum = @ + 2, !.size = n]
  <1>1. o = [key |-> o.key, blocknum |-> o.blocknum, level1 |-> o.level1, size |-> o.size]
        /\ o.key \in Key /\ o.blocknum \in Nat
    OBVIOUS
  <1>2. q = [key |-> o.key, blocknum |-> o.blocknum + 2, level1 |-> L, size |-> n]
    <2> DEFINE q1 == [o EXCEPT !.level1 = L]
               q2 == [q1 EXCEPT !.blocknum = o.blocknum + 2]
    <2>1. q1 = [key |-> o.key, blocknum |-> o.blocknum, level1 |-> L, size |-> o.size]
      BY <1>1
    <2> HIDE DEF q1
    <2>2. q2 = [key |-> o.key, blocknum |-> o.blocknum + 2, level1 |-> L, size |-> o.size]
      BY <2>1
    <2>3. q = [q2 EXCEPT !.size = n]
      BY DEF q1
    <2> HIDE DEF q2, q
    <2> QED
      BY <2>2, <2>3
  <1>3. o.blocknum + 2 \in Nat
    BY <1>1
  <1> HIDE DEF q
  <1>4. q \in [key : Key, blocknum : Nat, level1 : {0} \cup blocks, size : Nat] /\ q.level1 = L
    BY <1>1, <1>2, <1>3
  <1>5. q \in RecordOf(blocks)
    BY <1>4 DEF RecordOf
  <1> QED
    BY <1>5 DEF q

\* A page that is read is read through the pointer block, again and again.
LEMMA ReadSound ==
  ASSUME StoreInv, NEW k \in Key, NEW r \in Reads, objfs_read(k, r[1], r[2])
  PROVE  Looked
  <1> DEFINE p == r[1]
             n == r[2]
             i == find_object_id(k)
             obj == get_object_by_id(cache, i)
             c == ReadRecord(cache, i)
             b == PointersIn(Contents(c, obj.level1))[p]
             blocks == [j \in 1 .. 2 * n |-> IF j % 2 = 1 THEN obj.level1 ELSE b]
             D == cache.disk
  <1>1. /\ status = "mounted" /\ i # 0
        /\ \/ Dies
           \/ Finish(c, hashTable) /\ UNCHANGED <<inodeVars, blockVars, mountVars>>
           \/ /\ Finish(ReadBlocks(c, blocks), hashTable)
              /\ UNCHANGED <<inodeVars, blockVars, mountVars>>
    BY DEF objfs_read
  <1>2. i \in Identifier /\ obj \in RecordOf(DataBlocks)
    BY <1>1, FoundObject DEF Record
  <1>3. obj.level1 \in AllBlocks /\ 0 \in AllBlocks /\ DataBlocks \subseteq AllBlocks
    <2>1. blockmap \in SUBSET AllBlocks /\ 0 \in AllBlocks
      BY ObjStoreAssumption DEF StoreInv, Maps, AllBlocks
    <2> QED
      BY <1>2, <2>1 DEF RecordOf, DataBlocks
  <1>4. PointersPerBlock \in Nat \ {0} /\ p \in 0 .. PointersPerBlock - 1 /\ n \in Nat
    BY ObjStoreAssumption
  <1> HIDE DEF i, obj, p, n
  <1>5. Good(c, D, View, StoreVal)
    BY <1>1, <1>2, MountedGood, TableBlockRange, GoodRead DEF ReadRecord, Leads
  <1> HIDE DEF c
  <1>6. b \in AllBlocks
    <2>1. Contents(c, obj.level1) \in Val(inodemap, DataBlocks)
      BY <1>3, <1>5, GoodFacts DEF StoreVal
    <2>2. PointersIn(Contents(c, obj.level1)) \in PointersTo(DataBlocks)
      BY <2>1, PointersRead
    <2> QED
      BY <1>3, <1>4, <2>2 DEF PointersTo
  <1> HIDE DEF b
  <1>7. blocks \in Seq(AllBlocks)
    <2>1. blocks \in [1 .. 2 * n -> AllBlocks] /\ 2 * n \in Nat
      BY <1>3, <1>4, <1>6
    <2> HIDE DEF blocks
    <2> QED
      BY <2>1
  <1> HIDE DEF blocks
  <1>8. Good(ReadBlocks(c, blocks), D, View, StoreVal)
    BY <1>5, <1>7, GoodReadBlocks DEF Leads
  <1>9. CASE Dies
    BY <1>1, <1>9, DiesSound
  <1>10. CASE Finish(c, hashTable) /\ UNCHANGED <<inodeVars, blockVars, mountVars>>
    BY <1>1, <1>5, <1>10, FinishSound DEF Looked, nameVars, inodeVars
  <1>11. CASE /\ Finish(ReadBlocks(c, blocks), hashTable)
              /\ UNCHANGED <<inodeVars, blockVars, mountVars>>
    BY <1>1, <1>8, <1>11, FinishSound DEF Looked, nameVars, inodeVars
  <1> QED
    BY <1>1, <1>9, <1>10, <1>11

\* An object that is removed is the end of the store, one way or another.
LEMMA UnlinkSound ==
  ASSUME StoreInv, NEW k \in Key, objfs_unlink(k)
  PROVE  \/ Looked
         \/ /\ status = "mounted" /\ status' = "dangling" /\ Structure'
            /\ inodemap' \subseteq inodemap
            /\ UNCHANGED <<hashTable, inode_bit_itr, blockVars, mountVars>>
  <1> DEFINE i == find_object_id(k)
             c == WalkReads(Hash[k], k)
  <1>1. /\ status = "mounted"
        /\ \/ Finish(c, hashTable) /\ UNCHANGED <<inodeVars, blockVars, mountVars>>
           \/ Dies
           \/ /\ inodemap' = inodemap \ {i} /\ status' = "dangling" /\ cache' = c
              /\ UNCHANGED <<hashTable, inode_bit_itr, blockVars, mountVars, seen>>
    BY DEF objfs_unlink
  <1>2. Good(c, cache.disk, View, StoreVal)
    BY <1>1, KeyBuckets, WalkReadsGood DEF Leads
  <1> HIDE DEF c, i
  <1>3. CASE Finish(c, hashTable) /\ UNCHANGED <<inodeVars, blockVars, mountVars>>
    <2>1. After(cache.disk, View, StoreVal) /\ hashTable' = hashTable
      BY <1>2, <1>3, FinishSound
    <2> QED
      BY <1>3, <2>1 DEF Looked, nameVars, inodeVars
  <1>4. CASE Dies
    BY <1>1, <1>4, DiesSound
  <1>5. CASE /\ inodemap' = inodemap \ {i} /\ status' = "dangling" /\ cache' = c
             /\ UNCHANGED <<hashTable, inode_bit_itr, blockVars, mountVars, seen>>
    <2>1. Structure'
      BY <1>2, <1>5, GoodFacts DEF Structure
    <2> QED
      BY <1>1, <1>5, <2>1
  <1> QED
    BY <1>1, <1>3, <1>4, <1>5

\* An object is created with an identifier that was free, or not at all.
LEMMA CreateSound ==
  ASSUME StoreInv, NEW k \in Key, objfs_create(k)
  PROVE  Looked \/ \E i : Created(k, i)
  <1> DEFINE i == Fetch(inodemap, InodeBits, inode_bit_itr)
             c == WalkReads(Hash[k], k)
             new == [key |-> k, blocknum |-> 0, level1 |-> 0, size |-> 0]
             r == insert_to_disk(c, i, new)
             D == cache.disk
  <1>1. /\ status = "mounted" /\ UNCHANGED <<blockVars, mountVars>>
        /\ \/ Finish(c, hashTable) /\ UNCHANGED inodeVars
           \/ /\ ~IsRefused(k) /\ i # 0
              /\ inodemap' = Taken(inodemap, i) /\ inode_bit_itr' = Hint(inode_bit_itr, i)
              /\ Finish(r, Linked(hashTable, i, Hash[k]))
    BY DEF objfs_create
  <1>2. Good(c, D, View, StoreVal)
    BY <1>1, KeyBuckets, WalkReadsGood DEF Leads
  <1> HIDE DEF c
  <1>3. CASE Finish(c, hashTable) /\ UNCHANGED inodeVars
    <2>1. After(D, View, StoreVal) /\ hashTable' = hashTable
      BY <1>2, <1>3, FinishSound
    <2> QED
      BY <1>1, <1>3, <2>1 DEF Looked, nameVars, inodeVars
  <1>4. CASE /\ ~IsRefused(k) /\ i # 0
             /\ inodemap' = Taken(inodemap, i) /\ inode_bit_itr' = Hint(inode_bit_itr, i)
             /\ Finish(r, Linked(hashTable, i, Hash[k]))
    <2>1. i \in Clear(inodemap, InodeBits)
      <3>1. /\ InodeBits \in Nat \ {0} /\ inode_bit_itr \in Nat
            /\ inode_bit_itr * ByteBits <= InodeBits
        BY ObjStoreAssumption DEF StoreInv, Maps
      <3> HIDE DEF i
      <3>2. i = 0 \/ i \in Clear(inodemap, InodeBits)
        BY <3>1, Fetched DEF i
      <3> QED
        BY <1>4, <3>2
    <2>2. i \in Identifier
      BY <2>1, ObjStoreAssumption DEF Clear, Identifier
    <2> HIDE DEF i
    <2>3. inodemap' = inodemap \cup {i} /\ inode_bit_itr' = ByteOf(i)
      BY <1>4 DEF Taken, Hint
    <2> DEFINE V == Val(inodemap \cup {i}, DataBlocks)
    <2>4. Good(c, D, View, V)
      <3>1. StoreVal \subseteq V
        BY ValGrows DEF StoreVal
      <3> HIDE DEF V
      <3> QED
        BY <1>2, <3>1, GoodGrows
    <2>5. new \in RecordOf(DataBlocks)
      BY DEF RecordOf
    <2>6. Good(r, D, WithRecord(View, i, new), V)
      <3> HIDE DEF new
      <3> QED
        BY <2>2, <2>4, <2>5, GoodInsert DEF Leads, WithRecord
    <2> HIDE DEF r
    <2>7. After(D, WithRecord(View, i, new), V) /\ hashTable' = Linked(hashTable, i, Hash[k])
      BY <1>4, <2>6, FinishSound
    <2>8. WalkEnd(cache, hashTable[Hash[k]], k) = 0
      BY <1>4 DEF IsRefused
    <2>9. Created(k, i)
      BY <1>1, <2>1, <2>3, <2>7, <2>8 DEF Created
    <2> QED
      BY <2>9
  <1> QED
    BY <1>1, <1>3, <1>4

\* A page that has a block keeps it.
LEMMA OverwriteSound ==
  ASSUME StoreInv, status = "mounted", NEW k \in Key, NEW p \in Page, NEW x \in Value,
         find_object_id(k) # 0, Overwrite(find_object_id(k), k, p, x), UNCHANGED <<inodeVars, mountVars>>
  PROVE  Overwrote(find_object_id(k), p, x)
  <1> DEFINE i == find_object_id(k)
             obj == get_object_by_id(cache, i)
             L == obj.level1
             c1 == ReadRecord(cache, i)
             c2 == read_block_modified(c1, L)
             a == PointersIn(Contents(c1, L))[p]
             b == PointersIn(View[L])[p]
             r == write_block_modified(c2, a, PageOf(x))
             D == cache.disk
  <1>1. /\ p < obj.blocknum /\ Finish(r, hashTable)
        /\ UNCHANGED <<inodeVars, blockVars, mountVars>>
    BY DEF Overwrite
  <1>2. i \in Identifier /\ obj \in RecordOf(DataBlocks) /\ obj = Record(i)
    BY FoundObject DEF Record
  <1>3. PointersPerBlock \in Nat \ {0} /\ p \in 0 .. PointersPerBlock - 1
    BY ObjStoreAssumption
  <1>4. DataBlocks \subseteq AllBlocks /\ 0 \in AllBlocks
    <2>1. blockmap \in SUBSET AllBlocks /\ 0 \in AllBlocks
      BY ObjStoreAssumption DEF StoreInv, Maps, AllBlocks
    <2> QED
      BY <2>1 DEF DataBlocks
  <1> HIDE DEF i, obj
  <1>5. L \in DataBlocks
    BY <1>1, <1>2, <1>3 DEF RecordOf
  <1>6. L \in AllBlocks
    BY <1>4, <1>5
  <1> HIDE DEF L
  <1>7. Good(cache, D, View, StoreVal) /\ Leads(c1, cache, D, View, StoreVal)
    BY <1>2, MountedGood, TableBlockRange, GoodRead DEF ReadRecord
  <1> HIDE DEF c1
  <1>8. Good(c1, D, View, StoreVal)
    BY <1>7 DEF Leads
  <1>9. /\ Contents(c1, L) \in Val(inodemap, DataBlocks)
        /\ View[L] \in Val(inodemap, DataBlocks)
        /\ Fits(c1) => Contents(c1, L) = View[L]
    BY <1>6, <1>8, GoodFacts DEF StoreVal, Good
  <1>10. a \in AllBlocks /\ b \in AllBlocks /\ (Fits(c1) => a = b)
    <2>1. /\ PointersIn(Contents(c1, L)) \in PointersTo(DataBlocks)
          /\ PointersIn(View[L]) \in PointersTo(DataBlocks)
      BY <1>9, PointersRead
    <2> QED
      BY <1>3, <1>4, <1>9, <2>1 DEF PointersTo
  <1> HIDE DEF a, b
  <1>11. Leads(c2, c1, D, View, StoreVal)
    BY <1>6, <1>8, GoodRead
  <1>12. PageOf(x) \in StoreVal
    BY DEF StoreVal, Val
  <1> HIDE DEF c2
  <1>13. Leads(r, c2, D, [View EXCEPT ![a] = PageOf(x)], StoreVal)
    BY <1>10, <1>11, <1>12, GoodWrite DEF Leads
  <1> HIDE DEF r
  <1>14. Leads(r, c2, D, [View EXCEPT ![b] = PageOf(x)], StoreVal)
    <2>1. Fits(r) => a = b
      BY <1>10, <1>11, <1>13 DEF Leads
    <2>2. [View EXCEPT ![b] = PageOf(x)] \in [AllBlocks -> StoreVal]
      BY <1>8, <1>12 DEF Good
    <2>3. Fits(r) => [View EXCEPT ![b] = PageOf(x)] = [View EXCEPT ![a] = PageOf(x)]
      BY <2>1
    <2> QED
      BY <1>13, <2>2, <2>3, GoodRenamed
  <1>15. After(D, [View EXCEPT ![b] = PageOf(x)], StoreVal) /\ hashTable' = hashTable
    BY <1>1, <1>14, FinishSound DEF Leads
  <1>16. b = PointersIn(View[Record(i).level1])[p] /\ Record(i).level1 \in DataBlocks
    BY <1>2, <1>5 DEF b, L
  <1> QED
    BY <1>1, <1>15, <1>16 DEF Overwrote, nameVars, inodeVars, i

\* A page gets a block that was free, and so does the first page its pointer block,
\* or nothing happens.
LEMMA ExtendSound ==
  ASSUME StoreInv, status = "mounted", NEW k \in Key, NEW p \in Page, NEW x \in Value,
         find_object_id(k) # 0, Extend(find_object_id(k), k, p, x), UNCHANGED <<inodeVars, mountVars>>
  PROVE  LET i == find_object_id(k)
             L == NewBlocks(Record(i))[1]
         IN  \/ L = 0 /\ Looked
             \/ L # 0 /\ \E b, obj :
                  Extended(i, L, b, x, obj) /\ obj.size = SizeAfter(Record(i), p, Length[x])
  <1> DEFINE i == find_object_id(k)
             obj == get_object_by_id(cache, i)
             c1 == ReadRecord(cache, i)
             L == NewBlocks(obj)[1]
             b == NewBlocks(obj)[2]
             c2 == read_block_modified(c1, L)
             n == obj.blocknum % PointersPerBlock
             ptr1 == [PointersIn(Contents(c1, L)) EXCEPT ![n] = b]
             ptr == [PointersIn(View[L]) EXCEPT ![n] = b]
             c3 == write_block_modified(c2, L, Pointers(ptr1))
             c4 == write_block_modified(c3, b, PageOf(x))
             obj2 == [obj EXCEPT !.level1 = L, !.blocknum = @ + 2,
                                 !.size = SizeAfter(obj, p, Length[x])]
             r == insert_to_disk(c4, i, obj2)
             D == cache.disk
             Blocks == blockmap \cup ({L, b} \ {0})
             B == Blocks \ (0 .. DataStart - 1)
             V == Val(inodemap, B)
             v3 == [View EXCEPT ![L] = Pointers(ptr)]
             v4 == [v3 EXCEPT ![b] = PageOf(x)]
  <1>1. /\ p >= obj.blocknum
        /\ \/ L = 0 /\ Finish(c1, hashTable) /\ UNCHANGED blockVars
           \/ /\ L # 0
              /\ blockmap' = Taken(Taken(blockmap, L), b)
              /\ block_bit_itr' = Hint(Hint(block_bit_itr, IF obj.blocknum = 0 THEN L ELSE 0), b)
              /\ Finish(r, hashTable)
    BY DEF Extend, NewIndex
  <1>2. /\ i \in Identifier /\ i \in inodemap /\ i >= 2
        /\ obj \in RecordOf(DataBlocks) /\ obj = Record(i)
    BY FoundObject DEF Record
  <1>3. /\ PointersPerBlock \in Nat \ {0} /\ p \in Nat /\ x \in Nat
        /\ Length[x] \in Nat /\ Length[x] > 0
    <2>1. /\ PointersPerBlock \in Nat \ {0} /\ BlockBytes \in Nat
          /\ Page \subseteq 0 .. PointersPerBlock - 1 /\ Base \in Nat
          /\ Value \subseteq 1 .. Base - 1 /\ Length \in [Value -> 1 .. BlockBytes]
      BY ObjStoreAssumption
    <2> QED
      BY <2>1
  <1>4. Good(cache, D, View, StoreVal) /\ Leads(c1, cache, D, View, StoreVal)
    BY <1>2, MountedGood, TableBlockRange, GoodRead DEF ReadRecord
  <1> HIDE DEF c1, i, obj
  <1>5. CASE L = 0 /\ Finish(c1, hashTable) /\ UNCHANGED blockVars
    <2>1. After(D, View, StoreVal) /\ hashTable' = hashTable
      BY <1>4, <1>5, FinishSound DEF Leads
    <2>2. Looked
      BY <1>5, <2>1 DEF Looked, nameVars, inodeVars
    <2> QED
      BY <1>2, <1>5, <2>2 DEF L, i
  <1>6. CASE /\ L # 0
             /\ blockmap' = Taken(Taken(blockmap, L), b)
             /\ block_bit_itr' = Hint(Hint(block_bit_itr, IF obj.blocknum = 0 THEN L ELSE 0), b)
             /\ Finish(r, hashTable)
    <2>1. /\ BlockBits \in Nat \ {0} /\ block_bit_itr \in Nat
          /\ block_bit_itr * ByteBits <= BlockBits
          /\ blockmap \in SUBSET AllBlocks /\ 0 .. DataStart - 1 \subseteq blockmap
          /\ DataStart \in Nat /\ DataStart <= BlockBits /\ 0 \in AllBlocks
      BY ObjStoreAssumption DEF StoreInv, Maps, AllBlocks
    <2> DEFINE map == IF obj.blocknum = 0 THEN Taken(blockmap, L) ELSE blockmap
               hint == IF obj.blocknum = 0 THEN Hint(block_bit_itr, L) ELSE block_bit_itr
    <2>2. /\ L = IF obj.blocknum = 0 THEN Fetch(blockmap, BlockBits, block_bit_itr)
                 ELSE obj.level1
          /\ b = Fetch(map, BlockBits, hint)
      BY DEF NewBlocks
    <2> HIDE DEF L, b
    <2>3. /\ IF obj.blocknum = 0 THEN L \in Clear(blockmap, BlockBits) ELSE L = obj.level1
          /\ hint \in Nat /\ hint * ByteBits <= BlockBits
      <3>1. CASE obj.blocknum = 0
        <4>1. L = Fetch(blockmap, BlockBits, block_bit_itr) /\ hint = Hint(block_bit_itr, L)
          BY <2>2, <3>1
        <4> HIDE DEF hint
        <4> QED
          BY <1>6, <2>1, <3>1, <4>1, Fetched
      <3>2. CASE obj.blocknum # 0
        BY <2>1, <2>2, <3>2
      <3> QED
        BY <3>1, <3>2
    <2>4. L \in AllBlocks /\ L >= DataStart
      <3>1. CASE obj.blocknum = 0
        BY <2>1, <2>3, <3>1 DEF Clear, AllBlocks
      <3>2. CASE obj.blocknum # 0
        <4>1. L \in DataBlocks
          BY <1>2, <2>3, <3>2 DEF RecordOf
        <4> QED
          BY <2>1, <4>1 DEF DataBlocks, AllBlocks
      <3> QED
        BY <3>1, <3>2
    <2>5. map = IF obj.blocknum = 0 THEN blockmap \cup {L} ELSE blockmap
      BY <1>6 DEF Taken
    <2>6. map = blockmap \cup {L}
      <3>1. CASE obj.blocknum # 0
        <4>1. L \in DataBlocks
          BY <1>2, <2>3, <3>1 DEF RecordOf
        <4> QED
          BY <2>5, <3>1, <4>1 DEF DataBlocks
      <3> QED
        BY <2>5, <3>1
    <2>7. /\ b \in Clear(blockmap \cup {L}, BlockBits) \/ b = 0
          /\ block_bit_itr' \in Nat /\ block_bit_itr' * ByteBits <= BlockBits
      <3>1. block_bit_itr' = Hint(hint, b)
        BY <1>6 DEF Hint
      <3> HIDE DEF map, hint
      <3> QED
        BY <2>1, <2>2, <2>3, <2>6, <3>1, Fetched
    <2> HIDE DEF map, hint
    <2>8. blockmap' = Blocks
      BY <1>6 DEF Taken
    <2>9. b \in AllBlocks /\ (b = 0 \/ b \in B) /\ L \in B /\ DataBlocks \subseteq B
      <3>1. b = 0 \/ (b \in AllBlocks /\ b \notin 0 .. DataStart - 1)
        BY <2>1, <2>7 DEF Clear, AllBlocks
      <3>2. L \notin 0 .. DataStart - 1
        BY <2>1, <2>4
      <3> QED
        BY <1>6, <2>1, <3>1, <3>2 DEF DataBlocks
    <2>10. DataBlocks' = B
      BY <2>8 DEF DataBlocks
    <2> HIDE DEF Blocks, B
    <2>11. Good(c1, D, View, V) /\ View \in [AllBlocks -> V]
      <3>1. StoreVal \subseteq V
        BY <2>9, ValGrows DEF StoreVal
      <3> HIDE DEF V
      <3>2. Good(c1, D, View, V)
        BY <1>4, <3>1, GoodGrows DEF Leads
      <3> QED
        BY <3>2 DEF Good
    <2>12. /\ PointersIn(Contents(c1, L)) \in PointersTo(B)
           /\ PointersIn(View[L]) \in PointersTo(B)
           /\ Fits(c1) => Contents(c1, L) = View[L]
      <3>1. Contents(c1, L) \in V /\ View[L] \in V /\ (Fits(c1) => Contents(c1, L) = View[L])
        <4> HIDE DEF V
        <4> QED
          BY <2>4, <2>11, GoodFacts
      <3> QED
        BY <3>1, PointersRead
    <2>13. n \in 0 .. PointersPerBlock - 1
      BY <1>2, <1>3, ModRange DEF RecordOf
    <2>14. /\ ptr1 \in PointersTo(B) /\ ptr \in PointersTo(B)
           /\ Fits(c1) => ptr1 = ptr
      BY <2>9, <2>12, <2>13 DEF PointersTo
    <2> HIDE DEF n, ptr, ptr1
    <2>15. Pointers(ptr1) \in V /\ Pointers(ptr) \in V /\ PageOf(x) \in V
      BY <2>14 DEF Val
    <2>16. obj2 \in RecordOf(B)
      <3>1. SizeAfter(obj, p, Length[x]) \in Nat
        BY <1>2, <1>3, SizeType
      <3>2. obj \in [key : Key, blocknum : Nat, level1 : {0} \cup DataBlocks, size : Nat]
        BY <1>2 DEF RecordOf
      <3> QED
        BY <2>9, <3>1, <3>2, RecordExtended
    <2> HIDE DEF V
    <2>17. Leads(c2, c1, D, View, V)
      BY <2>4, <2>11, GoodRead
    <2> HIDE DEF c2
    <2>18. Leads(c3, c2, D, [View EXCEPT ![L] = Pointers(ptr1)], V)
      BY <2>4, <2>15, <2>17, GoodWrite DEF Leads
    <2>19. Leads(c3, c2, D, v3, V)
      <3>1. v3 \in [AllBlocks -> V]
        BY <2>11, <2>15
      <3>2. Fits(c3) => v3 = [View EXCEPT ![L] = Pointers(ptr1)]
        BY <2>14, <2>17, <2>18 DEF Leads
      <3> HIDE DEF c3, v3
      <3> QED
        BY <2>18, <3>1, <3>2, GoodRenamed
    <2> HIDE DEF c3
    <2>20. Leads(c4, c3, D, v4, V)
      BY <2>9, <2>15, <2>19, GoodWrite DEF Leads
    <2> HIDE DEF c4, obj2, v4
    <2>21. Leads(r, c4, D, WithRecord(v4, i, obj2), V)
      BY <1>2, <2>16, <2>20, GoodInsert DEF Leads, V, WithRecord
    <2> HIDE DEF r
    <2>22. After(D, WithRecord(v4, i, obj2), V) /\ hashTable' = hashTable
      BY <1>6, <2>21, FinishSound DEF Leads
    <2>23. WithRecord(v4, i, obj2) = WithBlock(View, i, L, b, x, obj2)
      BY <1>2 DEF WithBlock, v4, v3, ptr, n
    <2>24. /\ obj2.key = Record(i).key /\ obj2.level1 = L
           /\ obj2.blocknum = Record(i).blocknum + 2 /\ obj2.size = SizeAfter(obj, p, Length[x])
      BY <1>2 DEF obj2, RecordOf
    <2>25. obj2.size > 0 /\ Record(i).blocknum < PointersPerBlock
      <3>1. Length[x] > 0 /\ p < PointersPerBlock
        BY <1>3, ObjStoreAssumption
      <3>2. SizeAfter(obj, p, Length[x]) > 0
        BY <1>2, <1>3, <3>1, SizeType
      <3>3. Record(i).blocknum \in Nat
        BY <1>2 DEF RecordOf
      <3> QED
        BY <1>1, <1>2, <1>3, <2>24, <3>1, <3>2, <3>3
    <2>26. Extended(i, L, b, x, obj2)
      BY <1>2, <2>3, <2>4, <2>7, <2>8, <2>9, <2>10, <2>22, <2>23, <2>24, <2>25
      DEF Extended, nameVars, inodeVars, V, Blocks
    <2> QED
      BY <1>2, <1>6, <2>24, <2>26 DEF i, L
  <1> QED
    BY <1>1, <1>2, <1>5, <1>6 DEF L, i

\* A write looks up its object, and changes a page of it or adds one.
LEMMA WriteSound ==
  ASSUME StoreInv, NEW w \in Writes, objfs_write(w[1], w[2], w[3])
  PROVE  LET i == find_object_id(w[1])
         IN  \/ Looked
             \/ /\ i \in Identifier /\ i \in inodemap /\ i >= 2
                /\ Record(i) \in RecordOf(DataBlocks) /\ Record(i).key = w[1] /\ IsObject(cache, i)
                /\ w[2] \in Page /\ w[3] \in Value /\ status = "mounted"
                /\ \/ w[2] < Record(i).blocknum /\ Overwrote(i, w[2], w[3])
                   \/ \E L, b, obj : Extended(i, L, b, w[3], obj)
  <1> DEFINE i == find_object_id(w[1])
  <1>1. w[1] \in Key /\ w[2] \in Page /\ w[3] \in Value
    BY ObjStoreAssumption
  <1>2. PICK k \in Key, p \in Page, x \in Value : k = w[1] /\ p = w[2] /\ x = w[3]
    BY <1>1
  <1>3. /\ status = "mounted" /\ i # 0 /\ UNCHANGED <<inodeVars, mountVars>>
        /\ Overwrite(i, k, p, x) \/ Extend(i, k, p, x)
    BY <1>2 DEF objfs_write
  <1>4. /\ i \in Identifier /\ i \in inodemap /\ i >= 2
        /\ Record(i) \in RecordOf(DataBlocks) /\ Record(i).key = k /\ IsObject(cache, i)
    BY <1>2, <1>3, FoundObject
  <1>5. CASE Overwrite(i, k, p, x)
    <2>1. Overwrote(i, p, x)
      BY <1>2, <1>3, <1>5, OverwriteSound
    <2>2. p < Record(i).blocknum
      BY <1>5 DEF Overwrite, Record
    <2> QED
      BY <1>2, <1>3, <1>4, <2>1, <2>2
  <1>6. CASE Extend(i, k, p, x)
    <2>1. Looked \/ \E L, b, obj : Extended(i, L, b, x, obj)
      BY <1>2, <1>3, <1>6, ExtendSound DEF Record
    <2> QED
      BY <1>2, <1>3, <1>4, <2>1
  <1> QED
    BY <1>3, <1>5, <1>6

-----------------------------------------------------------------------------
(* Each kind of step leaves a state of the store.                          *)

\* A chain grows by identifiers.
LEMMA LinkedType ==
  ASSUME NEW table \in [Bucket -> Seq(Identifier)], NEW i \in Identifier, NEW h \in Bucket
  PROVE  /\ Linked(table, i, h) \in [Bucket -> Seq(Identifier)]
         /\ insert_to_hash_table(table, i, h) \in [Bucket -> Seq(Identifier)]
  <1>1. table[h] \in Seq(Identifier) /\ <<i>> \in Seq(Identifier) /\ <<i, i>> \in Seq(Identifier)
    OBVIOUS
  <1>2. table[h] \o <<i, i>> \in Seq(Identifier) /\ Append(table[h], i) \in Seq(Identifier)
    BY <1>1
  <1>3. \A s \in Seq(Identifier) : [table EXCEPT ![h] = s] \in [Bucket -> Seq(Identifier)]
    OBVIOUS
  <1> QED
    BY <1>1, <1>2, <1>3 DEF Linked, insert_to_hash_table

\* What a request leaves is a state of the store if its maps are.
LEMMA AfterSound ==
  ASSUME StoreInv, status = "mounted", Maps', blockmap \subseteq blockmap',
         NEW D, NEW v, After(D, v, StoreVal')
  PROVE  StoreInv'
  <1>1. status' \in {"dead", "overflowed", "mounted"} /\ Structure'
    BY DEF After
  <1>2. status' = "mounted" => Readable'
    BY DEF After, Readable
  <1>3. 0 .. DataStart - 1 \subseteq blockmap'
    BY DEF StoreInv
  <1> QED
    BY <1>1, <1>2, <1>3 DEF StoreInv

\* A step of a mounted store that changes no map but may end it.
LEMMA LookedSound ==
  ASSUME StoreInv, status = "mounted", Looked
  PROVE  StoreInv'
  <1>1. UNCHANGED <<nameVars, blockVars, mountVars>> /\ After(cache.disk, View, StoreVal)
    BY DEF Looked
  <1>2. StoreVal' = StoreVal /\ Maps' /\ blockmap \subseteq blockmap'
    BY <1>1 DEF StoreVal, DataBlocks, Val, StoreInv, Maps, nameVars, blockVars, Bucket, AllBlocks,
                Identifier, RecordOf, PointersTo
  <1> QED
    BY <1>1, <1>2, AfterSound

\* A new object.
LEMMA CreatedSound ==
  ASSUME StoreInv, status = "mounted", NEW k \in Key, NEW i, Created(k, i)
  PROVE  StoreInv'
  <1> DEFINE v == WithRecord(View, i, [key |-> k, blocknum |-> 0, level1 |-> 0, size |-> 0])
  <1>1. /\ i \in Clear(inodemap, InodeBits)
        /\ inodemap' = inodemap \cup {i} /\ inode_bit_itr' = ByteOf(i)
        /\ hashTable' = Linked(hashTable, i, Hash[k])
        /\ UNCHANGED <<blockVars, mountVars>>
        /\ After(cache.disk, v, Val(inodemap', DataBlocks))
    BY DEF Created
  <1>2. i \in 2 .. InodeBits - 1 /\ InodeBits \in Nat
    BY <1>1, ObjStoreAssumption DEF Clear
  <1>3. i \in Identifier
    BY <1>2 DEF Identifier
  <1>4. hashTable' \in [Bucket -> Seq(Identifier)]
    BY <1>1, <1>3, KeyBuckets, LinkedType DEF StoreInv, Maps
  <1>5. inode_bit_itr' \in Nat /\ inode_bit_itr' * ByteBits <= InodeBits
    <2>1. ByteBits \in Nat \ {0}
      BY BitmapAssumption
    <2>2. i \div ByteBits \in Nat /\ (i \div ByteBits) * ByteBits <= i
      BY <1>2, <2>1
    <2> DEFINE m == (i \div ByteBits) * ByteBits
    <2>3. m \in Nat /\ m <= i
      BY <2>1, <2>2
    <2>4. inode_bit_itr' \in Nat /\ inode_bit_itr' * ByteBits = m
      BY <1>1, <2>2 DEF ByteOf
    <2> HIDE DEF m
    <2> QED
      BY <1>2, <2>3, <2>4
  <1>6. Maps'
    BY <1>1, <1>2, <1>4, <1>5 DEF StoreInv, Maps, blockVars, Bucket, Identifier, AllBlocks
  <1>7. StoreVal' = Val(inodemap', DataBlocks) /\ blockmap' = blockmap
    BY <1>1 DEF StoreVal, DataBlocks, blockVars
  <1> HIDE DEF v
  <1> QED
    BY <1>1, <1>6, <1>7, AfterSound

\* A page that has a block.
LEMMA OverwroteSound ==
  ASSUME StoreInv, status = "mounted", NEW i, NEW p, NEW x, Overwrote(i, p, x)
  PROVE  StoreInv'
  <1> DEFINE v == [View EXCEPT ![PointersIn(View[Record(i).level1])[p]] = PageOf(x)]
  <1>1. UNCHANGED <<nameVars, blockVars, mountVars>> /\ After(cache.disk, v, StoreVal)
    BY DEF Overwrote
  <1>2. StoreVal' = StoreVal /\ Maps' /\ blockmap \subseteq blockmap'
    BY <1>1 DEF StoreVal, DataBlocks, StoreInv, Maps, nameVars, blockVars, Bucket, AllBlocks,
                Identifier
  <1> HIDE DEF v
  <1> QED
    BY <1>1, <1>2, AfterSound

\* A page that gets a block.
LEMMA ExtendedSound ==
  ASSUME StoreInv, status = "mounted", NEW i, NEW L, NEW b, NEW x, NEW obj,
         Extended(i, L, b, x, obj)
  PROVE  StoreInv'
  <1> DEFINE v == WithBlock(View, i, L, b, x, obj)
  <1>1. /\ IF Record(i).blocknum = 0 THEN L \in Clear(blockmap, BlockBits) ELSE L = Record(i).level1
        /\ b \in Clear(blockmap \cup {L}, BlockBits) \/ b = 0
        /\ {L, b} \subseteq AllBlocks /\ blockmap' = blockmap \cup ({L, b} \ {0})
        /\ block_bit_itr' \in Nat /\ block_bit_itr' * ByteBits <= BlockBits
        /\ UNCHANGED <<nameVars, mountVars>>
        /\ After(cache.disk, v, Val(inodemap, DataBlocks'))
    BY DEF Extended
  <1> HIDE DEF v
  <1>2. blockmap' \in SUBSET AllBlocks
    BY <1>1 DEF StoreInv, Maps
  <1>3. Maps' /\ StoreVal' = Val(inodemap, DataBlocks')
    BY <1>1, <1>2 DEF StoreInv, Maps, nameVars, Bucket, Identifier, AllBlocks, StoreVal
  <1> QED
    BY <1>1, <1>3, AfterSound

-----------------------------------------------------------------------------
(* Unmount and mount.                                                      *)

\* The identifier table is made of bytes.
LEMMA IdBlockType ==
  ASSUME NEW n \in Nat
  PROVE  IdBlock(n) \in [0 .. BlockBytes - 1 -> 0 .. Base - 1]
  <1> DEFINE ids == BlockBytes \div LongBytes
             first == n * ids
             bucket == [i \in n * ids .. (n + 1) * ids - 1 |-> BucketOf(i)]
  <1>1. /\ LongBytes \in Nat \ {0} /\ BlockBytes \in Nat /\ BlockBytes % LongBytes = 0
        /\ Base \in Nat \ {0} /\ Buckets \in Nat
    BY ObjStoreAssumption
  <1>2. ids \in Nat /\ BlockBytes = ids * LongBytes
    <2>1. ids \in Nat /\ BlockBytes = LongBytes * ids + (BlockBytes % LongBytes)
      BY <1>1
    <2> HIDE DEF ids
    <2> QED
      BY <1>1, <2>1
  <1>3. \A i : BucketOf(i) \in Nat
    <2> TAKE i
    <2> DEFINE in == {h \in 0 .. Buckets - 1 : \E j \in DOMAIN hashTable[h] : hashTable[h][j] = i}
    <2>1. BucketOf(i) = IF in = {} THEN 0 ELSE Max(in)
      BY DEF BucketOf
    <2>2. in \in SUBSET (0 .. Buckets - 1)
      OBVIOUS
    <2> HIDE DEF in
    <2>3. in # {} => Max(in) \in 0 .. Buckets - 1
      BY <2>2, LargestBucket
    <2> QED
      BY <1>1, <2>1, <2>3
  <1> HIDE DEF ids
  <1>4. first \in Nat /\ (n + 1) * ids = first + ids
    BY <1>2
  <1>5. ASSUME NEW x \in 0 .. BlockBytes - 1
        PROVE  (bucket[n * ids + x \div LongBytes] \div Power[x % LongBytes]) % Base \in 0 .. Base - 1
    <2>1. x \div LongBytes \in 0 .. ids - 1 /\ x % LongBytes \in 0 .. LongBytes - 1
      BY <1>1, <1>2, Quotient
    <2> DEFINE i == n * ids + x \div LongBytes
               m == Power[x % LongBytes]
    <2>2. i \in first .. first + ids - 1
      <3> DEFINE d == x \div LongBytes
      <3>1. d \in 0 .. ids - 1
        BY <2>1
      <3> HIDE DEF d, first
      <3>2. first + d \in first .. first + ids - 1
        BY <1>2, <1>4, <3>1
      <3> QED
        BY <3>2 DEF d, first
    <2>3. bucket[i] = BucketOf(i)
      <3> DEFINE S == n * ids .. (n + 1) * ids - 1
                 second == (n + 1) * ids
      <3>1. i \in S
        <4>1. S = first .. second - 1 /\ second = first + ids /\ first \in Nat /\ ids \in Nat
          BY <1>2, <1>4
        <4> HIDE DEF i, first, second, S
        <4> QED
          BY <2>2, <4>1
      <3> HIDE DEF S, i
      <3> QED
        BY <3>1 DEF S
    <2>4. bucket[i] \in Nat
      BY <1>3, <2>3
    <2>5. m \in Nat \ {0}
      BY <1>1, <2>1, PowerType
    <2> HIDE DEF bucket, i, m
    <2>6. bucket[i] \div m \in Nat
      BY <2>4, <2>5
    <2>7. (bucket[i] \div m) % Base \in 0 .. Base - 1
      BY <1>1, <2>6
    <2> QED
      BY <2>7 DEF i, m
  <1>6. IdBlock(n) = [x \in 0 .. BlockBytes - 1 |->
                        (bucket[n * ids + x \div LongBytes] \div Power[x % LongBytes]) % Base]
    BY DEF IdBlock, ids
  <1> HIDE DEF bucket
  <1> QED
    BY <1>5, <1>6

\* After an unmount a block is what was last written to it or what it was on the
\* disk, or it is a part of the identifier table.
LEMMA DiskUnmounted ==
  ASSUME StoreInv, status = "mounted"
  PROVE  /\ DOMAIN DiskAtUnmount = AllBlocks
         /\ \A b \in AllBlocks :
              \/ DiskAtUnmount[b] = Contents(cache, b)
              \/ b >= IdBlocks /\ DiskAtUnmount[b] = cache.disk[b]
              \/ b < IdBlocks /\ DiskAtUnmount[b] = IdTable(IdBlock(b))
  <1> DEFINE disk == [b \in DOMAIN cache.disk |->
                        IF b < IdBlocks THEN IdTable(IdBlock(b)) ELSE cache.disk[b]]
             c == [cache EXCEPT !.disk = disk]
             dirty == {n \in c.live :
                         /\ c.node[n].dirty
                         /\ \E h \in DOMAIN c.chain : \E i \in DOMAIN c.chain[h] : c.chain[h][i] = n}
  <1>1. Partial(cache, {}, {}) /\ Block(cache) = AllBlocks /\ Kept(cache) /\ IsCache(cache)
    BY DEF StoreInv, Structure, Readable, Partial
  <1>2. /\ c.live = cache.live /\ c.node = cache.node /\ c.chain = cache.chain
        /\ c.memory = cache.memory /\ c.disk = disk /\ DOMAIN c.disk = AllBlocks
    BY <1>1 DEF IsCache, Block
  <1>3. DiskAtUnmount = [b \in DOMAIN c.disk |->
          IF \E n \in dirty : c.node[n].disk_addr = b
          THEN c.memory[c.node[CHOOSE n \in dirty : c.node[n].disk_addr = b].cache_addr]
          ELSE c.disk[b]]
    BY DEF DiskAtUnmount, Synced
  <1>4. \A n \in dirty : In(cache.lru, n)
    <2>1. \A n \in dirty : \E h \in Slot(cache) : In(cache.chain[h], n)
      BY <1>1, <1>2 DEF IsCache, In
    <2> QED
      BY <1>1, <2>1 DEF Partial, ChainsListed
  <1> HIDE DEF c, dirty
  <1>5. ASSUME NEW b \in AllBlocks
        PROVE  \/ DiskAtUnmount[b] = Contents(cache, b)
               \/ b >= IdBlocks /\ DiskAtUnmount[b] = cache.disk[b]
               \/ b < IdBlocks /\ DiskAtUnmount[b] = IdTable(IdBlock(b))
    <2>1. CASE \E n \in dirty : c.node[n].disk_addr = b
      <3> DEFINE m == CHOOSE n \in dirty : c.node[n].disk_addr = b
      <3>1. m \in dirty /\ c.node[m].disk_addr = b
        BY <2>1
      <3>2. DiskAtUnmount[b] = c.memory[c.node[m].cache_addr]
        BY <1>2, <1>3, <2>1
      <3> HIDE DEF m
      <3>3. Contents(cache, b) = cache.memory[cache.node[m].cache_addr]
        BY <1>1, <1>2, <1>4, <3>1, ContentsListed
      <3> QED
        BY <1>2, <3>2, <3>3
    <2>2. CASE ~\E n \in dirty : c.node[n].disk_addr = b
      <3>1. DiskAtUnmount[b] = disk[b]
        BY <1>2, <1>3, <2>2
      <3>2. disk[b] = IF b < IdBlocks THEN IdTable(IdBlock(b)) ELSE cache.disk[b]
        BY <1>1 DEF Block
      <3>3. b \in Nat /\ IdBlocks \in Nat
        BY ObjStoreAssumption DEF AllBlocks
      <3> QED
        BY <3>1, <3>2, <3>3
    <2> QED
      BY <2>1, <2>2
  <1> QED
    BY <1>2, <1>3, <1>5

\* An empty cache reads as the disk.
LEMMA EmptyReads ==
  ASSUME NEW n \in Nat, n >= 2, NEW disk, DOMAIN disk = AllBlocks, NEW V,
         Zero \in V, \A b \in AllBlocks : disk[b] \in V
  PROVE  LET c == EmptyCache(n, disk)
         IN  /\ Partial(c, {}, {}) /\ Block(c) = AllBlocks /\ c.buckets = n /\ c.disk = disk
             /\ Fits(c) /\ Kept(c) /\ Holds(c, V)
             /\ \A b \in AllBlocks : Contents(c, b) = disk[b]
  <1> DEFINE c == EmptyCache(n, disk)
  <1>1. AllBlocks \subseteq Nat /\ 0 \in AllBlocks
    BY ObjStoreAssumption DEF AllBlocks
  <1>2. Partial(c, {}, {}) /\ Kept(c)
    BY <1>1, EmptyCacheSound, SoundIsPartial
  <1>3. /\ c.buckets = n /\ c.disk = disk /\ c.lru = << >> /\ Slot(c) = 0 .. n - 1
        /\ c.memory = [s \in 0 .. n - 1 |-> Zero]
    BY DEF EmptyCache, Slot, Zero
  <1> HIDE DEF c
  <1>4. Block(c) = AllBlocks
    BY <1>3 DEF Block
  <1>5. Fits(c)
    BY <1>3 DEF Fits
  <1>6. Holds(c, V)
    BY <1>3, <1>4 DEF Holds
  <1>7. \A b \in AllBlocks : Contents(c, b) = disk[b]
    <2>1. \A m : ~In(c.lru, m)
      BY <1>3 DEF In
    <2> QED
      BY <1>2, <1>3, <1>4, <2>1, ContentsListed
  <1> QED
    BY <1>2, <1>3, <1>4, <1>5, <1>6, <1>7 DEF c

\* What an unmount leaves.
Unmounted ==
  /\ status = "mounted" /\ status' = "unmounted"
  /\ cache' = EmptyCache(cache.buckets, DiskAtUnmount)
  /\ saved' = [inodemap |-> inodemap, blockmap |-> blockmap]
  /\ UNCHANGED <<nameVars, blockVars, mounts>>

\* What an unmount writes is what the store may hold.
LEMMA UnmountedSound ==
  ASSUME StoreInv, Unmounted
  PROVE  StoreInv'
  <1>1. /\ status = "mounted" /\ status' = "unmounted"
        /\ cache' = EmptyCache(cache.buckets, DiskAtUnmount)
        /\ saved' = [inodemap |-> inodemap, blockmap |-> blockmap]
        /\ UNCHANGED <<nameVars, blockVars, mounts>>
    BY DEF Unmounted
  <1>2. DOMAIN DiskAtUnmount = AllBlocks
    BY <1>1, DiskUnmounted
  <1>3. ASSUME NEW b \in AllBlocks PROVE DiskAtUnmount[b] \in StoreVal
    <2>1. Contents(cache, b) \in StoreVal /\ cache.disk[b] \in StoreVal /\ b \in Nat
      <3>1. IsCache(cache) /\ Holds(cache, StoreVal) /\ Block(cache) = AllBlocks
        BY <1>1 DEF StoreInv, Structure, Readable, Partial
      <3>2. b \in Nat
        BY ObjStoreAssumption DEF AllBlocks
      <3> QED
        BY <3>1, <3>2, ContentsHeld DEF Holds
    <2>2. IdTable(IdBlock(b)) \in StoreVal
      BY <2>1, IdBlockType DEF StoreVal, Val
    <2> QED
      BY <1>1, <2>1, <2>2, DiskUnmounted
  <1>4. cache.buckets \in CacheSizes /\ cache.buckets \in Nat /\ cache.buckets >= 2
    BY ObjStoreAssumption DEF StoreInv, Structure
  <1>5. Zero \in StoreVal
    BY DEF StoreVal, Val
  <1>6. /\ Partial(cache', {}, {}) /\ Block(cache') = AllBlocks
        /\ cache'.buckets = cache.buckets /\ cache'.disk = DiskAtUnmount
        /\ Fits(cache') /\ Kept(cache') /\ Holds(cache', StoreVal)
        /\ \A b \in AllBlocks : Contents(cache', b) = DiskAtUnmount[b]
    <2> DEFINE d == DiskAtUnmount
               V == StoreVal
    <2>1. DOMAIN d = AllBlocks /\ \A b \in AllBlocks : d[b] \in V
      BY <1>2, <1>3
    <2>2. Zero \in V /\ cache' = EmptyCache(cache.buckets, d)
      BY <1>1, <1>5
    <2> HIDE DEF d, V
    <2>3. /\ Partial(cache', {}, {}) /\ Block(cache') = AllBlocks
          /\ cache'.buckets = cache.buckets /\ cache'.disk = d
          /\ Fits(cache') /\ Kept(cache') /\ Holds(cache', V)
          /\ \A b \in AllBlocks : Contents(cache', b) = d[b]
      BY <1>4, <2>1, <2>2, EmptyReads
    <2> QED
      BY <2>3 DEF d, V
  <1>7. StoreVal' = StoreVal /\ Maps'
    BY <1>1 DEF StoreVal, DataBlocks, StoreInv, Maps, nameVars, blockVars, Bucket, AllBlocks,
                Identifier
  <1>8. Structure' /\ Readable'
    BY <1>4, <1>6, <1>7 DEF Structure, AllBlocks, Readable
  <1>9. /\ saved' = [inodemap |-> inodemap', blockmap |-> blockmap']
        /\ \A b \in AllBlocks : Contents(cache', b) = cache'.disk[b]
    BY <1>1, <1>6 DEF nameVars, blockVars
  <1> QED
    BY <1>1, <1>7, <1>8, <1>9 DEF StoreInv, AllBlocks

\* An unmount ends the process or saves the maps.
LEMMA DestroySound ==
  ASSUME StoreInv, objfs_destroy
  PROVE  Looked \/ Unmounted
  BY DiesSound DEF objfs_destroy, Unmounted

\* The bytes of the table that a mount reads are buckets, when it can be read.
LEMMA ByteReadType ==
  ASSUME StoreInv, status = "unmounted", TableReadable,
         NEW x \in 0 .. IdBlocks * TableBytes - 1
  PROVE  ByteRead(x) \in Bucket /\ x \in Identifier
  <1>1. /\ IdBlocks \in Nat /\ BlockBytes \in Nat /\ IdBlocks <= BlockBits /\ BlockBits \in Nat
        /\ Base \in Nat \ {0} /\ Base \div 2 <= Buckets /\ Buckets \in Nat
    BY ObjStoreAssumption
  <1>2. TableBytes \in Nat /\ TableBytes <= BlockBytes
    BY <1>1 DEF TableBytes
  <1>3. TableBytes # 0
    <2>1. SUFFICES ASSUME TableBytes = 0 PROVE FALSE
      OBVIOUS
    <2>2. IdBlocks * TableBytes = 0
      BY <1>1, <2>1
    <2> QED
      BY <2>2
  <1> DEFINE q == x \div TableBytes
             m == x % TableBytes
             y == cache.disk[q]
  <1>4. q \in 0 .. IdBlocks - 1 /\ m \in 0 .. TableBytes - 1
    BY <1>1, <1>2, <1>3, Quotient
  <1> HIDE DEF q, m
  <1>5. q \in AllBlocks /\ m \in 0 .. BlockBytes - 1
    BY <1>1, <1>2, <1>4 DEF AllBlocks
  <1>6. y \in Val(inodemap, DataBlocks)
    BY <1>5 DEF StoreInv, Structure, Readable, Holds, StoreVal
  <1> HIDE DEF y
  <1>7. ByteIn(y, m) \in 0 .. Base - 1
    BY <1>5, <1>6, BytesRead
  <1>8. ByteRead(x) = ByteIn(y, m) /\ ByteRead(x) < Base \div 2
    BY DEF ByteRead, TableReadable, y, q, m
  <1>9. Base \div 2 \in Nat
    BY <1>1
  <1>10. ByteRead(x) \in Bucket
    BY <1>1, <1>7, <1>8, <1>9 DEF Bucket
  <1> QED
    BY <1>10 DEF Identifier

\* A mount reads the bytes one by one.
LEMMA TableReadSteps ==
  LET N == IdBlocks * TableBytes
  IN  /\ N \in Nat
      /\ \E table : /\ TableRead = table[N] /\ table[0] = [h \in Bucket |-> << >>]
                     /\ \A n \in 0 .. N : n < N =>
                          table[n + 1] = IF ByteRead(n) = 0 THEN table[n]
                                         ELSE insert_to_hash_table(table[n], n, ByteRead(n))
  <1> DEFINE N == IdBlocks * TableBytes
             Empty == [h \in 0 .. Buckets - 1 |-> << >>]
             Next1(t, n) == IF ByteRead(n - 1) = 0 THEN t
                            ELSE insert_to_hash_table(t, n - 1, ByteRead(n - 1))
             E(f, m) == f = [n \in 0 .. m |->
                               CASE n = 0 -> Empty
                                 [] n > 0 /\ ByteRead(n - 1) = 0 -> f[n - 1]
                                 [] OTHER -> insert_to_hash_table(f[n - 1], n - 1, ByteRead(n - 1))]
             T == {m \in Nat : \E f : E(f, m)}
  <1>1. N \in Nat
    <2>1. IdBlocks \in Nat /\ BlockBytes \in Nat
      BY ObjStoreAssumption
    <2>2. TableBytes \in Nat
      BY <2>1 DEF TableBytes
    <2> QED
      BY <2>1, <2>2
  <1>2. 0 \in T
    <2>1. E([n \in 0 .. 0 |-> Empty], 0)
      OBVIOUS
    <2> QED
      BY <2>1
  <1>3. ASSUME NEW m \in T PROVE m + 1 \in T
    <2>1. PICK f : E(f, m)
      OBVIOUS
    <2> DEFINE g == [n \in 0 .. m + 1 |-> IF n <= m THEN f[n] ELSE Next1(f[m], m + 1)]
    <2>2. ASSUME NEW n \in 0 .. m + 1
          PROVE  g[n] = CASE n = 0 -> Empty
                          [] n > 0 /\ ByteRead(n - 1) = 0 -> g[n - 1]
                          [] OTHER -> insert_to_hash_table(g[n - 1], n - 1, ByteRead(n - 1))
      <3> HIDE DEF Empty
      <3>1. CASE n <= m /\ n = 0
        BY <2>1, <3>1
      <3>2. CASE n <= m /\ n # 0
        <4>1. n - 1 \in 0 .. m + 1 /\ n - 1 <= m /\ n \in 0 .. m /\ n > 0
          BY <3>2
        <4>2. g[n] = f[n] /\ g[n - 1] = f[n - 1]
          BY <3>2, <4>1
        <4>3. f[n] = CASE n = 0 -> Empty
                       [] n > 0 /\ ByteRead(n - 1) = 0 -> f[n - 1]
                       [] OTHER -> insert_to_hash_table(f[n - 1], n - 1, ByteRead(n - 1))
          BY <2>1, <4>1
        <4> HIDE DEF g
        <4> QED
          BY <4>2, <4>3
      <3>3. CASE n = m + 1
        <4>1. n # 0 /\ n > 0 /\ n - 1 = m /\ m \in 0 .. m + 1 /\ ~(n <= m)
          BY <3>3
        <4>2. g[n] = Next1(f[m], n) /\ g[n - 1] = f[m]
          BY <3>3, <4>1
        <4> HIDE DEF g
        <4> QED
          BY <4>1, <4>2
      <3> QED
        BY <3>1, <3>2, <3>3
    <2>3. E(g, m + 1)
      BY <2>2
    <2>4. m + 1 \in Nat
      OBVIOUS
    <2> HIDE DEF g, E
    <2> QED
      BY <2>3, <2>4
  <1>4. N \in T
    <2> HIDE DEF T, N
    <2>1. T \in SUBSET Nat
      BY DEF T
    <2> QED
      BY <1>1, <1>2, <1>3, <2>1, Induct
  <1> DEFINE table == CHOOSE f : E(f, N)
  <1>5. E(table, N)
    <2>1. \E f : E(f, N)
      BY <1>4
    <2> HIDE DEF E, N
    <2> QED
      BY <2>1
  <1>6. TableRead = table[N]
    BY DEF TableRead
  <1> HIDE DEF table, N
  <1>7. /\ table[0] = Empty
        /\ \A n \in 0 .. N : n < N => table[n + 1] = Next1(table[n], n + 1)
    <2>1. \A n \in 0 .. N :
            table[n] = CASE n = 0 -> Empty
                         [] n > 0 /\ ByteRead(n - 1) = 0 -> table[n - 1]
                         [] OTHER -> insert_to_hash_table(table[n - 1], n - 1, ByteRead(n - 1))
      BY <1>5
    <2> HIDE DEF Empty
    <2>2. ASSUME NEW n \in 0 .. N, n < N PROVE table[n + 1] = Next1(table[n], n + 1)
      <3>1. n + 1 \in 0 .. N /\ n + 1 # 0 /\ (n + 1) - 1 = n /\ n + 1 > 0
        BY <1>1, <2>2
      <3> QED
        BY <2>1, <3>1
    <2>3. 0 \in 0 .. N
      BY <1>1
    <2> QED
      BY <2>1, <2>2, <2>3
  <1>8. \A n \in 0 .. N : n < N =>
          table[n + 1] = IF ByteRead(n) = 0 THEN table[n]
                         ELSE insert_to_hash_table(table[n], n, ByteRead(n))
    <2>1. ASSUME NEW n \in 0 .. N, n < N
          PROVE  table[n + 1] = IF ByteRead(n) = 0 THEN table[n]
                                ELSE insert_to_hash_table(table[n], n, ByteRead(n))
      <3>1. (n + 1) - 1 = n
        BY <1>1, <2>1
      <3> QED
        BY <1>7, <2>1, <3>1
    <2> QED
      BY <2>1
  <1> QED
    BY <1>1, <1>6, <1>7, <1>8 DEF N, Bucket

\* A mount reads a hash table of identifiers, however they got there.
LEMMA TableReadType ==
  ASSUME StoreInv, status = "unmounted", TableReadable
  PROVE  TableRead \in [Bucket -> Seq(Identifier)]
  <1> DEFINE N == IdBlocks * TableBytes
  <1>1. N \in Nat
    BY TableReadSteps
  <1>2. PICK table : /\ TableRead = table[N] /\ table[0] = [h \in Bucket |-> << >>]
                     /\ \A n \in 0 .. N : n < N =>
                          table[n + 1] = IF ByteRead(n) = 0 THEN table[n]
                                         ELSE insert_to_hash_table(table[n], n, ByteRead(n))
    BY TableReadSteps
  <1> HIDE DEF N
  <1> DEFINE U == {n \in Nat : table[n] \in [Bucket -> Seq(Identifier)]}
  <1>3. 0 \in U
    <2>1. << >> \in Seq(Identifier)
      OBVIOUS
    <2> QED
      BY <1>2, <2>1
  <1>4. ASSUME NEW n \in 0 .. N, n \in U, n < N PROVE n + 1 \in U
    <2>1. n \in 0 .. IdBlocks * TableBytes - 1 /\ n + 1 \in Nat
      BY <1>1, <1>4 DEF N
    <2>2. ByteRead(n) \in Bucket /\ n \in Identifier
      BY <2>1, ByteReadType
    <2>3. table[n] \in [Bucket -> Seq(Identifier)]
      BY <1>4
    <2>4. insert_to_hash_table(table[n], n, ByteRead(n)) \in [Bucket -> Seq(Identifier)]
      BY <2>2, <2>3, LinkedType
    <2>5. table[n + 1] \in [Bucket -> Seq(Identifier)]
      BY <1>2, <1>4, <2>3, <2>4
    <2> QED
      BY <2>1, <2>5
  <1> HIDE DEF U
  <1>5. N \in U
    <2>1. \A n \in 0 .. N : n \in U /\ n < N => n + 1 \in U
      BY <1>4
    <2>2. \A n \in 0 .. N : n \in U
      BY <1>1, <1>3, <2>1, InductTo
    <2> QED
      BY <1>1, <2>2
  <1> QED
    BY <1>2, <1>5 DEF U

\* What a mount leaves.
Mounted ==
  /\ status = "unmounted" /\ status' = "mounted" /\ mounts' = mounts + 1
  /\ hashTable' \in [Bucket -> Seq(Identifier)]
  /\ inodemap' = inodemap /\ blockmap' = blockmap \cup 0 .. DataStart - 1
  /\ inode_bit_itr' = 0 /\ block_bit_itr' = 0
  /\ UNCHANGED <<saved, cache>>

\* A mount finds the maps as they were saved.
LEMMA MountedSound ==
  ASSUME StoreInv, Mounted
  PROVE  StoreInv'
  <1>1. /\ status = "unmounted" /\ status' = "mounted"
        /\ hashTable' \in [Bucket -> Seq(Identifier)]
        /\ inodemap' = inodemap /\ blockmap' = blockmap \cup 0 .. DataStart - 1
        /\ inode_bit_itr' = 0 /\ block_bit_itr' = 0 /\ cache' = cache
    BY DEF Mounted
  <1>2. /\ DataStart \in Nat /\ DataStart <= BlockBits /\ BlockBits \in Nat /\ InodeBits \in Nat
        /\ ByteBits \in Nat
    BY ObjStoreAssumption, BitmapAssumption
  <1>3. Maps'
    <2>1. 0 .. DataStart - 1 \subseteq AllBlocks
      BY <1>2 DEF AllBlocks
    <2>2. blockmap' \in SUBSET AllBlocks
      BY <1>1, <2>1 DEF StoreInv, Maps
    <2>3. 0 \in Nat /\ 0 * ByteBits <= InodeBits /\ 0 * ByteBits <= BlockBits
      BY <1>2
    <2> QED
      BY <1>1, <2>2, <2>3 DEF StoreInv, Maps, Bucket, AllBlocks, Identifier
  <1>4. StoreVal' = StoreVal
    <2>1. DataBlocks' = DataBlocks
      BY <1>1 DEF DataBlocks
    <2> QED
      BY <1>1, <2>1 DEF StoreVal
  <1>5. Structure' /\ Readable'
    BY <1>1, <1>4 DEF StoreInv, Structure, AllBlocks, Readable
  <1> QED
    BY <1>1, <1>3, <1>5 DEF StoreInv

\* A step that leaves the cache whole and the store without service.
Ended ==
  /\ status' \in {"dead", "dangling", "overflowed"} /\ Structure'
  /\ inodemap' \subseteq inodemap
  /\ UNCHANGED <<hashTable, inode_bit_itr, blockVars, saved>>
  /\ mounts' = IF status = "unmounted" THEN mounts + 1 ELSE mounts

\* A store that stops serving keeps its structure.
LEMMA EndedSound ==
  ASSUME StoreInv, Ended
  PROVE  StoreInv'
  <1>1. Maps'
    BY DEF StoreInv, Maps, Ended, blockVars, Bucket, Identifier, AllBlocks
  <1> QED
    BY <1>1 DEF StoreInv, Ended

\* A mount reads the identifier table, or dies of it.
LEMMA InitSound ==
  ASSUME StoreInv, objfs_init
  PROVE  Mounted \/ Ended
  <1>1. CASE TableReadable
    <2>1. /\ status = "unmounted" /\ status' = "mounted" /\ mounts' = mounts + 1
          /\ hashTable' = TableRead /\ inodemap' = saved.inodemap
          /\ blockmap' = saved.blockmap \cup 0 .. DataStart - 1
          /\ inode_bit_itr' = 0 /\ block_bit_itr' = 0 /\ UNCHANGED <<saved, cache>>
      BY <1>1 DEF objfs_init
    <2>2. saved.inodemap = inodemap /\ saved.blockmap = blockmap
      BY <2>1 DEF StoreInv
    <2>3. hashTable' \in [Bucket -> Seq(Identifier)]
      BY <1>1, <2>1, TableReadType
    <2> QED
      BY <2>1, <2>2, <2>3 DEF Mounted
  <1>2. CASE ~TableReadable
    <2>1. /\ status = "unmounted" /\ status' = "dead" /\ mounts' = mounts + 1
          /\ UNCHANGED <<nameVars, blockVars, saved, cache>>
      BY <1>2 DEF objfs_init
    <2>2. Structure'
      BY <2>1 DEF StoreInv, Structure, AllBlocks
    <2> QED
      BY <2>1, <2>2 DEF Ended, nameVars
  <1> QED
    BY <1>1, <1>2

\* A cache that has overflowed stays whole.
LEMMA AccessSound ==
  ASSUME StoreInv, AccessAnyBlock
  PROVE  Ended
  <1>1. PICK b \in RawBlock : \/ cache' = read_block_modified(cache, b)
                              \/ cache' = write_block_modified(cache, b, Junk)
    BY DEF AccessAnyBlock
  <1>2. /\ Partial(cache, {}, {}) /\ Block(cache) = AllBlocks /\ cache.buckets \in CacheSizes
        /\ IsFiniteSet(CacheNode) /\ Cardinality(CacheNode) >= cache.buckets
        /\ b \in Block(cache)
    BY ObjStoreAssumption DEF StoreInv, Structure, AllBlocks
  <1> DEFINE V == {Junk} \cup {cache.memory[a] : a \in Slot(cache)}
                    \cup {cache.disk[d] : d \in Block(cache)}
  <1>3. Holds(cache, V) /\ Junk \in V
    BY DEF Holds
  <1> HIDE DEF V
  <1>4. cache'.buckets = cache.buckets /\ Block(cache') = Block(cache)
    BY <1>1, <1>2, <1>3, AccessesHold
  <1>5. Partial(cache', {}, {})
    BY <1>1, <1>2, AccessesSound, SoundIsPartial
  <1>6. Structure'
    BY <1>2, <1>4, <1>5 DEF Structure, AllBlocks
  <1> QED
    BY <1>6 DEF AccessAnyBlock, Ended, nameVars, mountVars

\* Object i of a mounted store, which a request found.
Open(i) ==
  /\ status = "mounted" /\ i \in Identifier /\ i \in inodemap /\ i >= 2
  /\ Record(i) \in RecordOf(DataBlocks) /\ IsObject(cache, i)

\* Every step is of one of these kinds.
StepKinds ==
  \/ status = "mounted" /\ Looked
  \/ status = "mounted" /\ \E k \in Key : \E i : Created(k, i)
  \/ \E i : \E p \in Page, x \in Value :
       Open(i) /\ p < Record(i).blocknum /\ Overwrote(i, p, x)
  \/ \E i : \E x \in Value : \E L, b, obj : Open(i) /\ Extended(i, L, b, x, obj)
  \/ Unmounted \/ Mounted \/ Ended

\* Each action of the model is a step of one of these kinds.
LEMMA Steps ==
  ASSUME StoreInv, Next
  PROVE  StepKinds
  <1>1. ASSUME NEW k \in Key, Request(k) PROVE StepKinds
    <2>1. CASE objfs_open(k)
      BY <2>1, OpenSound DEF objfs_open, StepKinds
    <2>2. CASE objfs_getattr(k)
      BY <2>2, GetattrSound DEF objfs_getattr, StepKinds
    <2>3. CASE objfs_create(k)
      BY <2>3, CreateSound DEF objfs_create, StepKinds
    <2>4. CASE objfs_unlink(k)
      <3>1. status = "mounted"
        BY <2>4 DEF objfs_unlink
      <3>2. Looked \/ Ended
        BY <2>4, UnlinkSound DEF Ended, mountVars
      <3> QED
        BY <3>1, <3>2 DEF StepKinds
    <2>5. CASE objfs_rename_key(k)
      BY <2>5, RenameSound DEF objfs_rename_key, StepKinds
    <2>6. CASE \E r \in Reads : objfs_read(k, r[1], r[2])
      <3>1. PICK r \in Reads : objfs_read(k, r[1], r[2])
        BY <2>6
      <3>2. status = "mounted"
        BY <3>1 DEF objfs_read
      <3> QED
        BY <3>1, <3>2, ReadSound DEF StepKinds
    <2> QED
      BY <1>1, <2>1, <2>2, <2>3, <2>4, <2>5, <2>6 DEF Request
  <1>2. ASSUME NEW w \in Writes, objfs_write(w[1], w[2], w[3]) PROVE StepKinds
    <2> DEFINE i == find_object_id(w[1])
    <2>1. status = "mounted"
      BY <1>2 DEF objfs_write
    <2>2. \/ Looked
          \/ /\ Open(i) /\ w[2] \in Page /\ w[3] \in Value
             /\ \/ w[2] < Record(i).blocknum /\ Overwrote(i, w[2], w[3])
                \/ \E L, b, obj : Extended(i, L, b, w[3], obj)
      BY <1>2, <2>1, WriteSound DEF Open
    <2> HIDE DEF i
    <2> QED
      BY <2>1, <2>2 DEF StepKinds
  <1>3. ASSUME objfs_destroy PROVE StepKinds
    <2>1. Looked \/ Unmounted
      BY <1>3, DestroySound
    <2> QED
      BY <1>3, <2>1 DEF objfs_destroy, StepKinds
  <1>4. ASSUME objfs_init PROVE StepKinds
    BY <1>4, InitSound DEF StepKinds
  <1>5. ASSUME AccessAnyBlock PROVE StepKinds
    BY <1>5, AccessSound DEF StepKinds
  <1>6. ASSUME FreedNodeRead PROVE StepKinds
    <2>1. /\ status # "unmounted" /\ status' = "dead"
          /\ UNCHANGED <<nameVars, blockVars, mountVars, cache>>
      BY <1>6 DEF FreedNodeRead, Dies
    <2>2. Structure'
      BY <2>1 DEF StoreInv, Structure, AllBlocks
    <2>3. Ended
      BY <2>1, <2>2 DEF Ended, nameVars, mountVars
    <2> QED
      BY <2>3 DEF StepKinds
  <1> QED
    BY <1>1, <1>2, <1>3, <1>4, <1>5, <1>6 DEF Next

-----------------------------------------------------------------------------
(* The store in every state.                                               *)

\* The store starts whole.
LEMMA StoreInvStarts == Init => StoreInv
  <1> SUFFICES ASSUME Init PROVE StoreInv
    OBVIOUS
  <1> DEFINE disk == [b \in 0 .. BlockBits - 1 |-> Zero]
  <1>1. PICK n \in CacheSizes : cache = EmptyCache(n, disk)
    BY DEF Init
  <1>2. n \in Nat /\ n >= 2 /\ InodeBits \in Nat /\ BlockBits \in Nat /\ ByteBits \in Nat
    BY ObjStoreAssumption, BitmapAssumption
  <1>3. DOMAIN disk = AllBlocks /\ Zero \in StoreVal /\ \A b \in AllBlocks : disk[b] = Zero
    BY DEF AllBlocks, StoreVal, Val
  <1> HIDE DEF disk
  <1>4. \A b \in AllBlocks : disk[b] \in StoreVal
    BY <1>3
  <1>5. /\ Partial(cache, {}, {}) /\ Block(cache) = AllBlocks /\ cache.buckets = n
        /\ cache.disk = disk /\ Fits(cache) /\ Kept(cache) /\ Holds(cache, StoreVal)
        /\ \A b \in AllBlocks : Contents(cache, b) = disk[b]
    <2> DEFINE V == StoreVal
    <2>1. Zero \in V /\ \A b \in AllBlocks : disk[b] \in V
      BY <1>3, <1>4
    <2> HIDE DEF V
    <2>2. /\ Partial(cache, {}, {}) /\ Block(cache) = AllBlocks /\ cache.buckets = n
          /\ cache.disk = disk /\ Fits(cache) /\ Kept(cache) /\ Holds(cache, V)
          /\ \A b \in AllBlocks : Contents(cache, b) = disk[b]
      BY <1>1, <1>2, <1>3, <2>1, EmptyReads
    <2> QED
      BY <2>2 DEF V
  <1>6. Structure /\ Readable
    BY <1>5 DEF Structure, Readable
  <1>7. Maps
    <2>1. hashTable \in [Bucket -> Seq(Identifier)]
      BY DEF Init, Bucket
    <2>2. inode_bit_itr * ByteBits <= InodeBits /\ block_bit_itr * ByteBits <= BlockBits
      BY <1>2 DEF Init
    <2> QED
      BY <2>1, <2>2 DEF Init, Maps
  <1> QED
    BY <1>5, <1>6, <1>7 DEF Init, StoreInv

\* Nothing that the process does leaves these states.
LEMMA StoreInvKept == StoreInv /\ [Next]_vars => StoreInv'
  <1>1. ASSUME StoreInv, Next PROVE StoreInv'
    BY <1>1, Steps, LookedSound, CreatedSound, OverwroteSound, ExtendedSound, UnmountedSound,
       MountedSound, EndedSound DEF StepKinds, Open
  <1>2. ASSUME StoreInv, UNCHANGED vars PROVE StoreInv'
    <2>1. UNCHANGED <<status, hashTable, inodemap, blockmap, inode_bit_itr, block_bit_itr,
                      saved, cache>>
      BY <1>2 DEF vars
    <2> QED
      BY <1>2, <2>1 DEF StoreInv, Structure, Maps, Readable, StoreVal, DataBlocks, AllBlocks, Bucket,
                        Identifier
  <1> QED
    BY <1>1, <1>2

\* In every state the cache of objstore.c is whole, the maps and the hash table are
\* what they should be and, until the store stops serving, every block holds what a
\* block of the store may hold: records of identifiers that are taken, pointers to
\* blocks that are taken.
THEOREM StoreInvAlways == Spec => []StoreInv
  BY StoreInvStarts, StoreInvKept, PTL DEF Spec

\* The type of every variable of the store, whatever the sizes of the disk and of the
\* cache and however often the store is mounted.
THEOREM TypeAlways == Spec => []TypeOK
  <1>1. StoreInv => TypeOK
    <2> SUFFICES ASSUME StoreInv PROVE TypeOK
      OBVIOUS
    <2>1. \A h \in Bucket : \A i \in DOMAIN hashTable[h] : hashTable[h][i] \in Nat
      BY DEF StoreInv, Maps, Identifier
    <2>2. CacheTypeOK(cache)
      <3>1. IsCache(cache) /\ Held(cache, {}) /\ cache.buckets \in Nat
        BY DEF StoreInv, Structure, Partial, IsCache
      <3>2. \A n \in CacheNode : cache.node[n].cache_addr \in Slot(cache)
        BY <3>1 DEF IsCache
      <3>3. cache.cachemap \subseteq Slot(cache) \ {0, 1}
        BY <3>1 DEF IsCache, Slot
      <3> QED
        BY <3>1, <3>2, <3>3 DEF IsCache, CacheTypeOK, Slot
    <2> QED
      BY <2>1, <2>2 DEF StoreInv, Maps, TypeOK, AllBlocks
  <1> QED
    BY <1>1, StoreInvAlways, PTL

\* No chain of the hash table of the cache ever holds a node that was freed, in any
\* state of the process: a lookup of objstore.c follows live nodes, the search that
\* reads the node it has just freed aside.
THEOREM ChainsLiveAlways == Spec => []ChainsLive
  <1>1. StoreInv => ChainsLive
    BY SoundIsPartial DEF StoreInv, Structure, Sound, ChainsLive
  <1> QED
    BY <1>1, StoreInvAlways, PTL

\* Every node that is allocated is on the LRU list, once, and the list stays within
\* its limit.
THEOREM ListCompleteAlways == Spec => []ListComplete
  <1>1. StoreInv => ListComplete
    BY SoundIsPartial DEF StoreInv, Structure, Sound, ListComplete
  <1> QED
    BY <1>1, StoreInvAlways, PTL

\* A slot of the cache memory is taken exactly while one node of the list uses it.
THEOREM SlotsOwnedAlways == Spec => []SlotsOwned
  <1>1. StoreInv => SlotsOwned
    BY SoundIsPartial DEF StoreInv, Structure, Sound, SlotsOwned
  <1> QED
    BY <1>1, StoreInvAlways, PTL

\* The identifier of every record that can be read is marked as taken, also after an
\* unmount that lost blocks and the mount that follows: create_object never gets the
\* identifier of another object.
THEOREM IdsTakenAlways == Spec => []IdsTaken
  <1>1. StoreInv => IdsTaken
    <2> SUFFICES ASSUME StoreInv, status \in {"mounted", "unmounted"}, NEW i \in Record_ids
                 PROVE  i \in inodemap
      BY DEF IdsTaken
    <2>1. i \in Identifier
      BY ObjStoreAssumption DEF Record_ids, Identifier
    <2> QED
      BY <2>1, RecordTaken DEF Record_ids
  <1> QED
    BY <1>1, StoreInvAlways, PTL

-----------------------------------------------------------------------------
(* Who owns the blocks. An unmount writes some dirty blocks and loses      *)
(* others, so that a mount finds each block as it was last written or as   *)
(* the previous mount found it: ownership has to hold of all mixtures.     *)

Versions == [b \in AllBlocks |-> {Contents(cache, b), cache.disk[b]}]

\* A version of record i claims pointer block L; a version of it names block b.
Claims(R, i, L) ==
  \E x \in R[TableBlock(i)] :
    i \in DOMAIN ObjectsIn(x) /\ ObjectsIn(x)[i].blocknum > 0 /\ ObjectsIn(x)[i].level1 = L
Names(R, L, b) ==
  b # 0 /\ \E x \in R[L] : \E p \in 0 .. PointersPerBlock - 1 : PointersIn(x)[p] = b

\* A data block has one owner, if any, that uses it in one role, whatever the versions
\* of records and blocks; a free one was never written.
Owns(R, ids, map, owner, role) ==
  /\ owner \in [AllBlocks -> Nat]
  /\ \A i \in ids : \A L \in AllBlocks :
       Claims(R, i, L) => owner[L] = i /\ role[L] = "pointers"
  /\ \A L, b \in AllBlocks :
       owner[L] # 0 /\ role[L] = "pointers" /\ Names(R, L, b)
         => owner[b] = owner[L] /\ role[b] = "page"
  /\ \A b \in AllBlocks : owner[b] # 0 =>
       b \in map /\ b >= DataStart /\ \A x \in R[b] : x.tag \in {"zero", role[b]}
  /\ \A b \in AllBlocks : b >= DataStart /\ b \notin map => \A x \in R[b] : x = Zero

BlockOwners ==
  status \in {"mounted", "unmounted"} =>
    \E owner, role : Owns(Versions, inodemap, blockmap, owner, role)

\* Owners remain when no version claims, names or holds more than before.
LEMMA OwnsStill ==
  ASSUME NEW R, NEW ids, NEW map, NEW owner, NEW role, Owns(R, ids, map, owner, role),
         NEW Q, NEW ids2, NEW map2,
         \A i \in ids2 : \A L \in AllBlocks : Claims(Q, i, L) => i \in ids /\ Claims(R, i, L),
         \A L, b \in AllBlocks : L >= DataStart /\ Names(Q, L, b) => Names(R, L, b),
         \A b \in AllBlocks : b >= DataStart =>
            /\ b \in map2 <=> b \in map
            /\ \A x \in Q[b] : x \in R[b] \/ (owner[b] # 0 /\ x.tag = role[b])
  PROVE  Owns(Q, ids2, map2, owner, role)
  <1>1. /\ owner \in [AllBlocks -> Nat]
        /\ \A i \in ids : \A L \in AllBlocks :
             Claims(R, i, L) => owner[L] = i /\ role[L] = "pointers"
        /\ \A L, b \in AllBlocks :
             owner[L] # 0 /\ role[L] = "pointers" /\ Names(R, L, b)
               => owner[b] = owner[L] /\ role[b] = "page"
        /\ \A b \in AllBlocks : owner[b] # 0 =>
             b \in map /\ b >= DataStart /\ \A x \in R[b] : x.tag \in {"zero", role[b]}
        /\ \A b \in AllBlocks : b >= DataStart /\ b \notin map => \A x \in R[b] : x = Zero
    BY DEF Owns
  <1>2. \A i \in ids2 : \A L \in AllBlocks :
          Claims(Q, i, L) => owner[L] = i /\ role[L] = "pointers"
    BY <1>1
  <1>3. \A L, b \in AllBlocks :
          owner[L] # 0 /\ role[L] = "pointers" /\ Names(Q, L, b)
            => owner[b] = owner[L] /\ role[b] = "page"
    BY <1>1
  <1>4. \A b \in AllBlocks : owner[b] # 0 =>
          b \in map2 /\ b >= DataStart /\ \A x \in Q[b] : x.tag \in {"zero", role[b]}
    BY <1>1
  <1>5. \A b \in AllBlocks : b >= DataStart /\ b \notin map2 => \A x \in Q[b] : x = Zero
    BY <1>1
  <1> QED
    BY <1>1, <1>2, <1>3, <1>4, <1>5 DEF Owns

\* A page holds no records and no pointers.
LEMMA PageHolds ==
  ASSUME NEW x
  PROVE  /\ DOMAIN ObjectsIn(PageOf(x)) = {} /\ PageOf(x).tag = "page"
         /\ \A p \in 0 .. PointersPerBlock - 1 : PointersIn(PageOf(x))[p] = 0
         /\ \A p \in 0 .. PointersPerBlock - 1 : PointersIn(Zero)[p] = 0
  <1>1. PageOf(x).tag = "page" /\ Zero.tag = "zero"
    BY DEF PageOf, Zero
  <1>2. ObjectsIn(PageOf(x)) = << >>
    BY <1>1 DEF ObjectsIn
  <1>3. DOMAIN << >> = {}
    OBVIOUS
  <1> QED
    BY <1>1, <1>2, <1>3 DEF PointersIn

\* Nor do records hold pointers.
LEMMA ObjectsHold ==
  ASSUME NEW f
  PROVE  /\ ObjectsIn(Objects(f)) = f /\ Objects(f).tag = "objects"
         /\ \A p \in 0 .. PointersPerBlock - 1 : PointersIn(Objects(f))[p] = 0
  BY DEF Objects, ObjectsIn, PointersIn

\* The versions after a request.
LEMMA VersionsAfter ==
  ASSUME StoreInv, status = "mounted", NEW D, NEW v, NEW V, After(D, v, V), status' = "mounted",
         NEW b \in AllBlocks
  PROVE  Versions'[b] = {v[b], D[b]}
  <1>1. View' = v /\ cache'.disk = D
    BY DEF After
  <1>2. v[b] = Contents(cache', b)
    BY <1>1 DEF View, AllBlocks
  <1> QED
    BY <1>1, <1>2 DEF Versions, AllBlocks

\* The versions of a mounted store.
LEMMA VersionsNow ==
  ASSUME NEW b \in AllBlocks
  PROVE  Versions[b] = {View[b], cache.disk[b]}
  BY DEF Versions, View

\* Where the blocks lie.
LEMMA Layout ==
  ASSUME StoreInv
  PROVE  /\ IdBlocks \in Nat \ {0} /\ TableStart \in Nat /\ DataStart \in Nat
         /\ IdBlocks <= TableStart /\ TableStart < DataStart /\ AllBlocks \subseteq Nat
         /\ 0 \in AllBlocks /\ inodemap \subseteq Identifier
         /\ \A i \in inodemap : i \in Nat /\ i >= 2
         /\ \A i \in inodemap : /\ TableBlock(i) \in AllBlocks /\ TableBlock(i) < DataStart
                                /\ TableBlock(i) >= TableStart /\ TableBlock(i) # 0
  <1>1. /\ IdBlocks \in Nat \ {0} /\ TableStart \in Nat /\ DataStart \in Nat
        /\ IdBlocks <= TableStart /\ TableStart < DataStart /\ DataStart <= BlockBits
        /\ BlockBits \in Nat /\ InodeBits \in Nat
    BY ObjStoreAssumption
  <1>2. inodemap \subseteq 2 .. InodeBits - 1
    BY DEF StoreInv, Maps
  <1>3. \A i \in inodemap : i \in Nat /\ i >= 2 /\ i \in Identifier
    BY <1>1, <1>2 DEF Identifier
  <1>4. \A i \in inodemap : /\ TableBlock(i) \in AllBlocks /\ TableBlock(i) < DataStart
                            /\ TableBlock(i) >= TableStart
    BY <1>3, TableBlockRange
  <1>5. AllBlocks \subseteq Nat /\ 0 \in AllBlocks
    BY <1>1 DEF AllBlocks
  <1> QED
    BY <1>1, <1>3, <1>4, <1>5

\* A record is put among the others of its block.
LEMMA RecordPut ==
  ASSUME NEW u, DOMAIN u = AllBlocks, NEW i, TableBlock(i) \in AllBlocks, NEW obj
  PROVE  LET w == WithRecord(u, i, obj)
         IN  /\ \A d \in AllBlocks : d # TableBlock(i) => w[d] = u[d]
             /\ \A j : TableBlock(j) \in AllBlocks /\ j \in DOMAIN ObjectsIn(w[TableBlock(j)]) =>
                  \/ j = i /\ ObjectsIn(w[TableBlock(j)])[j] = obj
                  \/ /\ j # i /\ j \in DOMAIN ObjectsIn(u[TableBlock(j)])
                     /\ ObjectsIn(w[TableBlock(j)])[j] = ObjectsIn(u[TableBlock(j)])[j]
             /\ i \in DOMAIN ObjectsIn(w[TableBlock(i)])
             /\ ObjectsIn(w[TableBlock(i)])[i] = obj
             /\ \A j : j # i /\ TableBlock(j) \in AllBlocks
                         /\ j \in DOMAIN ObjectsIn(u[TableBlock(j)])
                    => /\ j \in DOMAIN ObjectsIn(w[TableBlock(j)])
                       /\ ObjectsIn(w[TableBlock(j)])[j] = ObjectsIn(u[TableBlock(j)])[j]
  <1> DEFINE w == WithRecord(u, i, obj)
             f == ObjectsIn(u[TableBlock(i)])
             g == Updated(f, i, obj)
  <1>1. /\ w[TableBlock(i)] = Objects(g)
        /\ \A d \in AllBlocks : d # TableBlock(i) => w[d] = u[d]
    BY DEF WithRecord
  <1>2. ObjectsIn(w[TableBlock(i)]) = g
    BY <1>1, ObjectsHold
  <1>3. /\ DOMAIN g = {i} \cup DOMAIN f /\ g[i] = obj
        /\ \A j \in DOMAIN f : j # i => g[j] = f[j]
    BY DEF Updated
  <1> HIDE DEF w, g
  <1>4. ASSUME NEW j, TableBlock(j) \in AllBlocks, j \in DOMAIN ObjectsIn(w[TableBlock(j)])
        PROVE  \/ j = i /\ ObjectsIn(w[TableBlock(j)])[j] = obj
               \/ /\ j # i /\ j \in DOMAIN ObjectsIn(u[TableBlock(j)])
                  /\ ObjectsIn(w[TableBlock(j)])[j] = ObjectsIn(u[TableBlock(j)])[j]
    <2>1. CASE TableBlock(j) # TableBlock(i)
      <3>1. w[TableBlock(j)] = u[TableBlock(j)] /\ j # i
        BY <1>1, <1>4, <2>1
      <3> QED
        BY <1>4, <3>1
    <2>2. CASE TableBlock(j) = TableBlock(i)
      <3>1. ObjectsIn(w[TableBlock(j)]) = g /\ ObjectsIn(u[TableBlock(j)]) = f
        BY <1>2, <2>2
      <3> HIDE DEF f
      <3> QED
        BY <1>3, <1>4, <3>1
    <2> QED
      BY <2>1, <2>2
  <1>5. ASSUME NEW j, j # i, TableBlock(j) \in AllBlocks, j \in DOMAIN ObjectsIn(u[TableBlock(j)])
        PROVE  /\ j \in DOMAIN ObjectsIn(w[TableBlock(j)])
               /\ ObjectsIn(w[TableBlock(j)])[j] = ObjectsIn(u[TableBlock(j)])[j]
    <2>1. CASE TableBlock(j) # TableBlock(i)
      BY <1>1, <1>5, <2>1
    <2>2. CASE TableBlock(j) = TableBlock(i)
      <3>1. ObjectsIn(w[TableBlock(j)]) = g /\ ObjectsIn(u[TableBlock(j)]) = f
        BY <1>2, <2>2
      <3> HIDE DEF f
      <3> QED
        BY <1>3, <1>5, <3>1
    <2> QED
      BY <2>1, <2>2
  <1>6. i \in DOMAIN ObjectsIn(w[TableBlock(i)]) /\ ObjectsIn(w[TableBlock(i)])[i] = obj
    BY <1>2, <1>3
  <1> QED
    BY <1>1, <1>4, <1>5, <1>6 DEF w

\* Only taken identifiers have records.
LEMMA ClaimedByTaken ==
  ASSUME StoreInv, status \in {"mounted", "unmounted"}, NEW b \in AllBlocks, NEW x \in Versions[b]
  PROVE  x \in StoreVal /\ DOMAIN ObjectsIn(x) \in SUBSET inodemap
  <1>1. Holds(cache, StoreVal) /\ IsCache(cache) /\ Block(cache) = AllBlocks
    BY DEF StoreInv, Readable, Structure, Partial
  <1>2. Contents(cache, b) \in StoreVal /\ cache.disk[b] \in StoreVal
    BY <1>1, ContentsHeld DEF Holds
  <1>3. x \in Val(inodemap, DataBlocks)
    BY <1>2 DEF Versions, StoreVal
  <1>4. DOMAIN ObjectsIn(x) \in SUBSET inodemap
    BY <1>3, ObjectsRead
  <1> QED
    BY <1>3, <1>4 DEF StoreVal

\* Requests that change nothing.
LEMMA LookedOwners ==
  ASSUME StoreInv, BlockOwners, status = "mounted", Looked
  PROVE  BlockOwners'
  <1>1. /\ After(cache.disk, View, StoreVal)
        /\ inodemap' = inodemap /\ blockmap' = blockmap
    BY DEF Looked, nameVars, blockVars
  <1>2. status' \in {"dead", "overflowed", "mounted"}
    BY <1>1 DEF After
  <1>3. ASSUME status' = "mounted" PROVE Versions' = Versions
    <2> DEFINE D == cache.disk
               v == View
               V == StoreVal
    <2>0. After(D, v, V)
      BY <1>1
    <2>1. \A b \in AllBlocks : Versions'[b] = Versions[b]
      <3>1. \A b \in AllBlocks : Versions[b] = {v[b], D[b]}
        BY VersionsNow
      <3> HIDE DEF D, v, V
      <3>2. \A b \in AllBlocks : Versions'[b] = {v[b], D[b]}
        BY <1>3, <2>0, VersionsAfter
      <3> QED
        BY <3>1, <3>2
    <2>2. Versions' = [b \in AllBlocks |-> Versions'[b]] /\ Versions = [b \in AllBlocks |-> Versions[b]]
      BY DEF Versions, AllBlocks
    <2> QED
      BY <2>1, <2>2
  <1> QED
    BY <1>1, <1>2, <1>3 DEF BlockOwners

\* A new object has no blocks.
LEMMA CreatedOwners ==
  ASSUME StoreInv, BlockOwners, status = "mounted", NEW k \in Key, NEW i, Created(k, i)
  PROVE  BlockOwners'
  <1> DEFINE new == [key |-> k, blocknum |-> 0, level1 |-> 0, size |-> 0]
             w == WithRecord(View, i, new)
             R == Versions
             Q == Versions'
  <1>1. /\ i \in Clear(inodemap, InodeBits) /\ inodemap' = inodemap \cup {i}
        /\ blockmap' = blockmap
        /\ After(cache.disk, w, Val(inodemap', DataBlocks))
    BY DEF Created, blockVars
  <1>2. i \notin inodemap /\ i \in Identifier
    BY <1>1, ObjStoreAssumption DEF Clear, Identifier
  <1> SUFFICES ASSUME status' = "mounted"
               PROVE  \E owner, role : Owns(Q, inodemap', blockmap', owner, role)
    <2>1. status' \in {"dead", "overflowed", "mounted"}
      BY <1>1 DEF After
    <2> QED
      BY <2>1 DEF BlockOwners
  <1>3. PICK owner, role : Owns(R, inodemap, blockmap, owner, role)
    BY DEF BlockOwners
  <1>4. TableBlock(i) \in AllBlocks /\ TableBlock(i) < DataStart /\ DOMAIN View = AllBlocks
    BY <1>2, TableBlockRange DEF View
  <1> HIDE DEF R, Q, w
  <1>5. \A b \in AllBlocks : Q[b] = {w[b], cache.disk[b]} /\ R[b] = {View[b], cache.disk[b]}
    BY <1>1, VersionsAfter, VersionsNow DEF Q, R
  <1>6. ASSUME NEW j \in inodemap', NEW L \in AllBlocks, Claims(Q, j, L)
        PROVE  j \in inodemap /\ Claims(R, j, L)
    <2>1. j \in Identifier /\ TableBlock(j) \in AllBlocks
      BY <1>1, <1>2, Layout, TableBlockRange
    <2>2. PICK x \in Q[TableBlock(j)] :
            /\ j \in DOMAIN ObjectsIn(x) /\ ObjectsIn(x)[j].blocknum > 0
            /\ ObjectsIn(x)[j].level1 = L
      BY <1>6 DEF Claims
    <2>3. CASE x = cache.disk[TableBlock(j)]
      <3>1. x \in R[TableBlock(j)]
        BY <1>5, <2>1, <2>3
      <3>2. j \in inodemap
        BY <2>1, <2>2, <3>1, ClaimedByTaken DEF R
      <3> QED
        BY <2>2, <3>1, <3>2 DEF Claims
    <2>4. CASE x = w[TableBlock(j)]
      <3>1. \/ j = i /\ ObjectsIn(x)[j] = new
            \/ /\ j # i /\ j \in DOMAIN ObjectsIn(View[TableBlock(j)])
               /\ ObjectsIn(x)[j] = ObjectsIn(View[TableBlock(j)])[j]
        BY <1>4, <2>1, <2>2, <2>4, RecordPut DEF w
      <3>2. /\ j # i /\ j \in DOMAIN ObjectsIn(View[TableBlock(j)])
            /\ ObjectsIn(x)[j] = ObjectsIn(View[TableBlock(j)])[j]
        BY <2>2, <3>1
      <3>3. View[TableBlock(j)] \in R[TableBlock(j)]
        BY <1>5, <2>1
      <3> QED
        BY <1>1, <2>2, <3>2, <3>3 DEF Claims
    <2> QED
      BY <1>5, <2>1, <2>2, <2>3, <2>4
  <1>7. \A b \in AllBlocks : b >= DataStart => Q[b] = R[b]
    <2>1. \A b \in AllBlocks : b >= DataStart => b # TableBlock(i)
      BY <1>4, Layout
    <2>2. \A b \in AllBlocks : b # TableBlock(i) => w[b] = View[b]
      BY <1>4, RecordPut DEF w
    <2> QED
      BY <1>5, <2>1, <2>2
  <1>8. \A L, b \in AllBlocks : L >= DataStart /\ Names(Q, L, b) => Names(R, L, b)
    BY <1>7 DEF Names
  <1>9. Owns(Q, inodemap', blockmap', owner, role)
    BY <1>1, <1>3, <1>6, <1>7, <1>8, OwnsStill
  <1> QED
    BY <1>9

\* A page is overwritten where its object's pointer block says, or in block 0, which
\* no object owns.
LEMMA OverwroteOwners ==
  ASSUME StoreInv, BlockOwners, NEW i, Open(i), NEW p \in Page, NEW x,
         p < Record(i).blocknum, Overwrote(i, p, x)
  PROVE  BlockOwners'
  <1> DEFINE L == Record(i).level1
             b == PointersIn(View[L])[p]
             D == cache.disk
             v == View
             w == [v EXCEPT ![b] = PageOf(x)]
             V == StoreVal
             R == Versions
             Q == Versions'
  <1>1. /\ L \in DataBlocks /\ inodemap' = inodemap /\ blockmap' = blockmap /\ After(D, w, V)
        /\ status = "mounted"
    BY DEF Overwrote, nameVars, blockVars, Open
  <1> SUFFICES ASSUME status' = "mounted"
               PROVE  \E owner, role : Owns(Q, inodemap', blockmap', owner, role)
    <2>1. status' \in {"dead", "overflowed", "mounted"}
      BY <1>1 DEF After
    <2> QED
      BY <2>1 DEF BlockOwners
  <1>2. PICK owner, role : Owns(R, inodemap, blockmap, owner, role)
    BY <1>1 DEF BlockOwners
  <1>3. /\ L \in AllBlocks /\ i \in inodemap /\ p \in 0 .. PointersPerBlock - 1
        /\ Record(i).blocknum > 0 /\ i \in Identifier /\ DOMAIN v = AllBlocks
    <2>1. PointersPerBlock \in Nat \ {0} /\ Page \subseteq 0 .. PointersPerBlock - 1
      BY ObjStoreAssumption
    <2>2. Record(i).blocknum \in Nat
      BY DEF Open, RecordOf
    <2>3. p \in 0 .. PointersPerBlock - 1 /\ p \in Nat
      BY <2>1
    <2> QED
      BY <1>1, <2>2, <2>3 DEF Open, StoreInv, Maps, DataBlocks, View
  <1>4. \A d \in AllBlocks : R[d] = {v[d], D[d]}
    BY VersionsNow
  <1>5. Claims(R, i, L)
    <2>1. TableBlock(i) \in AllBlocks
      BY <1>3, TableBlockRange
    <2>2. v[TableBlock(i)] \in R[TableBlock(i)]
      BY <1>4, <2>1
    <2>3. Record(i) = IF i \in DOMAIN ObjectsIn(v[TableBlock(i)])
                      THEN ObjectsIn(v[TableBlock(i)])[i] ELSE NoObject
      BY <1>1, <1>3, RecordInView
    <2>4. Record(i) # NoObject
      <3>1. NoObject.blocknum = 0
        BY DEF NoObject
      <3> QED
        BY <1>3, <3>1
    <2> HIDE DEF v, R
    <2> QED
      BY <1>3, <2>2, <2>3, <2>4 DEF Claims
  <1> HIDE DEF v, D, V, R, Q
  <1>6. \A d \in AllBlocks : Q[d] = {w[d], D[d]}
    <2> HIDE DEF w
    <2> QED
      BY <1>1, VersionsAfter DEF Q
  <1>7. b # 0 => Names(R, L, b)
    <2>1. v[L] \in R[L]
      BY <1>3, <1>4
    <2> QED
      BY <1>3, <2>1 DEF Names, v
  <1> HIDE DEF L, b
  <1>8. \A d \in AllBlocks : w[d] = v[d] \/ (d = b /\ w[d] = PageOf(x))
    BY <1>3
  <1> HIDE DEF w
  <1>9. ASSUME NEW j \in inodemap', NEW M \in AllBlocks, Claims(Q, j, M)
        PROVE  j \in inodemap /\ Claims(R, j, M)
    <2>1. TableBlock(j) \in AllBlocks
      BY <1>1, Layout
    <2>2. PICK y \in Q[TableBlock(j)] :
            /\ j \in DOMAIN ObjectsIn(y) /\ ObjectsIn(y)[j].blocknum > 0
            /\ ObjectsIn(y)[j].level1 = M
      BY <1>9 DEF Claims
    <2>3. y # PageOf(x)
      BY <2>2, PageHolds
    <2>4. y \in R[TableBlock(j)]
      BY <1>4, <1>6, <1>8, <2>1, <2>3
    <2> QED
      BY <1>1, <2>2, <2>4 DEF Claims
  <1>10. ASSUME NEW M \in AllBlocks, NEW d \in AllBlocks, Names(Q, M, d)
         PROVE  Names(R, M, d)
    <2>1. PICK y \in Q[M] : d # 0 /\ \E q \in 0 .. PointersPerBlock - 1 : PointersIn(y)[q] = d
      BY <1>10 DEF Names
    <2>2. y # PageOf(x)
      BY <2>1, PageHolds
    <2>3. y \in R[M]
      BY <1>4, <1>6, <1>8, <2>2
    <2> QED
      BY <2>1, <2>3 DEF Names
  <1>11. ASSUME NEW d \in AllBlocks, d >= DataStart, NEW y \in Q[d]
         PROVE  y \in R[d] \/ (owner[d] # 0 /\ y.tag = role[d])
    <2>1. y \in R[d] \/ (d = b /\ y = PageOf(x))
      BY <1>4, <1>6, <1>8
    <2>2. CASE d = b /\ y = PageOf(x)
      <3>1. b # 0 /\ b \in AllBlocks
        BY <1>11, <2>2, Layout
      <3>2. owner[L] = i /\ role[L] = "pointers" /\ i # 0
        BY <1>2, <1>3, <1>5, Layout DEF Owns
      <3>3. owner[b] = owner[L] /\ role[b] = "page"
        BY <1>2, <1>3, <1>7, <3>1, <3>2 DEF Owns
      <3> QED
        BY <2>2, <3>2, <3>3, PageHolds
    <2> QED
      BY <2>1, <2>2
  <1>12. Owns(Q, inodemap', blockmap', owner, role)
    BY <1>1, <1>2, <1>9, <1>10, <1>11, OwnsStill
  <1> QED
    BY <1>12

\* An unmount writes some versions, and loses the others.
LEMMA UnmountedOwners ==
  ASSUME StoreInv, BlockOwners, Unmounted
  PROVE  BlockOwners'
  <1> DEFINE R == Versions
             Q == Versions'
  <1>1. /\ status = "mounted" /\ status' = "unmounted"
        /\ cache' = EmptyCache(cache.buckets, DiskAtUnmount)
        /\ inodemap' = inodemap /\ blockmap' = blockmap
    BY DEF Unmounted, nameVars, blockVars
  <1>2. PICK owner, role : Owns(R, inodemap, blockmap, owner, role)
    BY <1>1 DEF BlockOwners
  <1>3. \A b \in AllBlocks : Q[b] = {DiskAtUnmount[b]}
    <2>1. StoreInv'
      BY UnmountedSound
    <2>2. \A b \in AllBlocks : Contents(cache', b) = cache'.disk[b]
      BY <1>1, <2>1 DEF StoreInv, AllBlocks
    <2>3. cache'.disk = DiskAtUnmount
      BY <1>1 DEF EmptyCache
    <2> QED
      BY <2>2, <2>3 DEF Versions, AllBlocks
  <1>4. \A b \in AllBlocks : b >= IdBlocks => DiskAtUnmount[b] \in R[b]
    <2>1. IdBlocks \in Nat /\ AllBlocks \subseteq Nat
      BY Layout
    <2>2. \A b \in AllBlocks : Contents(cache, b) \in R[b] /\ cache.disk[b] \in R[b]
      BY DEF Versions
    <2> HIDE DEF R
    <2>3. \A b \in AllBlocks : b >= IdBlocks => ~(b < IdBlocks)
      BY <2>1
    <2> QED
      BY <1>1, <2>2, <2>3, DiskUnmounted
  <1> HIDE DEF R, Q
  <1>5. \A b \in AllBlocks : b >= IdBlocks => \A y \in Q[b] : y \in R[b]
    BY <1>3, <1>4
  <1>6. ASSUME NEW j \in inodemap', NEW L \in AllBlocks, Claims(Q, j, L)
        PROVE  j \in inodemap /\ Claims(R, j, L)
    <2>1. TableBlock(j) \in AllBlocks /\ TableBlock(j) >= IdBlocks
      <3>1. /\ TableBlock(j) \in AllBlocks /\ TableBlock(j) >= TableStart
            /\ IdBlocks <= TableStart /\ IdBlocks \in Nat /\ TableStart \in Nat
            /\ AllBlocks \subseteq Nat
        BY <1>1, Layout
      <3> DEFINE t == TableBlock(j)
      <3> HIDE DEF t
      <3>2. t \in AllBlocks /\ t >= TableStart
        BY <3>1 DEF t
      <3>3. t \in AllBlocks /\ t >= IdBlocks
        BY <3>1, <3>2
      <3> QED
        BY <3>3 DEF t
    <2> QED
      BY <1>1, <1>5, <1>6, <2>1 DEF Claims
  <1>7. \A b \in AllBlocks : b >= DataStart => b >= IdBlocks
    <2>1. /\ IdBlocks \in Nat /\ TableStart \in Nat /\ DataStart \in Nat /\ AllBlocks \subseteq Nat
          /\ IdBlocks <= TableStart /\ TableStart < DataStart
      BY Layout
    <2> QED
      BY <2>1
  <1>8. \A L, b \in AllBlocks : L >= DataStart /\ Names(Q, L, b) => Names(R, L, b)
    BY <1>5, <1>7 DEF Names
  <1>9. Owns(Q, inodemap', blockmap', owner, role)
    BY <1>1, <1>2, <1>5, <1>6, <1>7, <1>8, OwnsStill
  <1> QED
    BY <1>9 DEF BlockOwners, Q

\* A mount finds what the unmount left.
LEMMA MountedOwners ==
  ASSUME StoreInv, BlockOwners, Mounted
  PROVE  BlockOwners'
  <1> DEFINE R == Versions
  <1>1. /\ status = "unmounted" /\ cache' = cache /\ inodemap' = inodemap
        /\ blockmap' = blockmap \cup 0 .. DataStart - 1
    BY DEF Mounted
  <1>2. PICK owner, role : Owns(R, inodemap, blockmap, owner, role)
    BY <1>1 DEF BlockOwners
  <1>3. R' = R
    BY <1>1 DEF Versions, AllBlocks
  <1> HIDE DEF R
  <1>4. \A b \in AllBlocks : b >= DataStart => (b \in blockmap' <=> b \in blockmap)
    <2>1. DataStart \in Nat /\ AllBlocks \subseteq Nat
      BY Layout
    <2> QED
      BY <1>1, <2>1
  <1>5. Owns(R, inodemap', blockmap', owner, role)
    BY <1>1, <1>2, <1>4, OwnsStill
  <1> QED
    BY <1>3, <1>5 DEF BlockOwners, R

\* What a new block of object i makes of the blocks that were read before.
BlockPut(w, i, L, b, x, obj) ==
  LET ptr == [PointersIn(View[L]) EXCEPT ![Record(i).blocknum % PointersPerBlock] = b]
  IN  /\ L \in AllBlocks /\ b \in AllBlocks /\ L # 0 /\ b # L
      /\ L >= DataStart /\ L \in blockmap' /\ (b # 0 => b >= DataStart /\ b \in blockmap')
      /\ b = 0 \/ b \notin blockmap
      /\ blockmap' \subseteq blockmap \cup {L, b} /\ blockmap \subseteq blockmap'
      /\ TableBlock(i) \in AllBlocks /\ TableBlock(i) < DataStart /\ TableBlock(i) # 0
      /\ PointersIn(View[L]) \in PointersTo(DataBlocks)
      /\ Record(i).blocknum % PointersPerBlock \in 0 .. PointersPerBlock - 1
      /\ w[L] = Pointers(ptr) /\ w[b] = PageOf(x)
      /\ \A d \in AllBlocks : d \notin {L, b, TableBlock(i)} => w[d] = View[d]
      /\ \A j : TableBlock(j) \in AllBlocks /\ TableBlock(j) \notin {L, b}
                  /\ j \in DOMAIN ObjectsIn(w[TableBlock(j)]) =>
           \/ j = i /\ ObjectsIn(w[TableBlock(j)])[j] = obj
           \/ /\ j # i /\ j \in DOMAIN ObjectsIn(View[TableBlock(j)])
              /\ ObjectsIn(w[TableBlock(j)])[j] = ObjectsIn(View[TableBlock(j)])[j]

\* A page that gets a block puts it there.
LEMMA BlockAdded ==
  ASSUME StoreInv, NEW i, Open(i), NEW L, NEW b, NEW x, NEW obj, Extended(i, L, b, x, obj)
  PROVE  BlockPut(WithBlock(View, i, L, b, x, obj), i, L, b, x, obj)
  <1> DEFINE w == WithBlock(View, i, L, b, x, obj)
             n == Record(i).blocknum % PointersPerBlock
             ptr == [PointersIn(View[L]) EXCEPT ![n] = b]
             u == [[View EXCEPT ![L] = Pointers(ptr)] EXCEPT ![b] = PageOf(x)]
             t == TableBlock(i)
  <1>1. /\ b \in Clear(blockmap \cup {L}, BlockBits) \/ b = 0
        /\ L \in AllBlocks /\ b \in AllBlocks /\ L \in DataBlocks'
        /\ blockmap' = blockmap \cup ({L, b} \ {0})
    BY DEF Extended
  <1>2. /\ DataStart \in Nat /\ DataStart >= 1 /\ AllBlocks \subseteq Nat
        /\ t \in AllBlocks /\ t < DataStart /\ t # 0
    BY Layout DEF Open
  <1>3. status = "mounted" /\ 0 .. DataStart - 1 \subseteq blockmap
    BY DEF Open, StoreInv
  <1>4. L >= DataStart /\ L \in blockmap'
    <2>1. L \in blockmap' /\ L \notin 0 .. DataStart - 1 /\ L \in Nat
      BY <1>1, <1>2 DEF DataBlocks
    <2> QED
      BY <1>2, <2>1
  <1>5. L # 0 /\ b # L /\ (b # 0 => b >= DataStart /\ b \in blockmap' /\ b \notin blockmap)
    <2>1. L # 0
      BY <1>2, <1>4
    <2>2. b # 0 => b \notin blockmap /\ b # L /\ b \in Nat
      BY <1>1, <1>2 DEF Clear
    <2>3. b # 0 => b >= DataStart
      BY <1>2, <1>3, <2>2
    <2> QED
      BY <1>1, <2>1, <2>2, <2>3
  <1>6. PointersIn(View[L]) \in PointersTo(DataBlocks)
    <2>1. View[L] \in Val(inodemap, DataBlocks)
      BY <1>1, <1>3, MountedGood DEF Good, StoreVal
    <2> QED
      BY <2>1, PointersRead
  <1>7. n \in 0 .. PointersPerBlock - 1
    BY ObjStoreAssumption, ModRange DEF Open, RecordOf
  <1>8. w = WithRecord(u, i, obj)
    BY DEF WithBlock
  <1>9. /\ DOMAIN u = AllBlocks /\ u[b] = PageOf(x) /\ u[L] = Pointers(ptr)
        /\ \A d \in AllBlocks : d \notin {L, b} => u[d] = View[d]
    BY <1>1, <1>5 DEF View
  <1>10. t # L /\ t # b
    <2> HIDE DEF t
    <2>1. t \in Nat /\ L \in Nat /\ b \in Nat
      BY <1>1, <1>2
    <2> QED
      BY <1>2, <1>4, <1>5, <2>1
  <1> HIDE DEF u, w, n, ptr
  <1>11. /\ \A d \in AllBlocks : d # t => w[d] = u[d]
         /\ \A j : TableBlock(j) \in AllBlocks /\ j \in DOMAIN ObjectsIn(w[TableBlock(j)]) =>
                  \/ j = i /\ ObjectsIn(w[TableBlock(j)])[j] = obj
                  \/ /\ j # i /\ j \in DOMAIN ObjectsIn(u[TableBlock(j)])
                     /\ ObjectsIn(w[TableBlock(j)])[j] = ObjectsIn(u[TableBlock(j)])[j]
    BY <1>2, <1>8, <1>9, RecordPut
  <1>12. w[L] = Pointers(ptr) /\ w[b] = PageOf(x)
    BY <1>1, <1>9, <1>10, <1>11
  <1>13. \A d \in AllBlocks : d \notin {L, b, t} => w[d] = View[d]
    BY <1>9, <1>11
  <1>15. \A j : TableBlock(j) \in AllBlocks /\ TableBlock(j) \notin {L, b}
                  /\ j \in DOMAIN ObjectsIn(w[TableBlock(j)]) =>
           \/ j = i /\ ObjectsIn(w[TableBlock(j)])[j] = obj
           \/ /\ j # i /\ j \in DOMAIN ObjectsIn(View[TableBlock(j)])
              /\ ObjectsIn(w[TableBlock(j)])[j] = ObjectsIn(View[TableBlock(j)])[j]
    BY <1>9, <1>11
  <1>16. BlockPut(w, i, L, b, x, obj)
    BY <1>1, <1>2, <1>4, <1>5, <1>6, <1>7, <1>12, <1>13, <1>15 DEF BlockPut, n, ptr
  <1> QED
    BY <1>16 DEF w

\* A new block had no owner, and becomes a page of the object; so does a new pointer
\* block.
LEMMA ExtendedOwners ==
  ASSUME StoreInv, BlockOwners, NEW i, Open(i), NEW L, NEW b, NEW x, NEW obj,
         Extended(i, L, b, x, obj)
  PROVE  BlockOwners'
  <1> DEFINE D == cache.disk
             v == View
             n == Record(i).blocknum % PointersPerBlock
             ptr == [PointersIn(v[L]) EXCEPT ![n] = b]
             w == WithBlock(v, i, L, b, x, obj)
             V == Val(inodemap, DataBlocks')
             R == Versions
             Q == Versions'
             t == TableBlock(i)
  <1>1. /\ IF Record(i).blocknum = 0 THEN L \in Clear(blockmap, BlockBits) ELSE L = Record(i).level1
        /\ obj.level1 = L /\ inodemap' = inodemap /\ After(D, w, V) /\ status = "mounted"
    BY DEF Extended, nameVars, Open
  <1> SUFFICES ASSUME status' = "mounted"
               PROVE  \E owner, role : Owns(Q, inodemap', blockmap', owner, role)
    <2>1. status' \in {"dead", "overflowed", "mounted"}
      BY <1>1 DEF After
    <2> QED
      BY <2>1 DEF BlockOwners
  <1>2. PICK owner, role : Owns(R, inodemap, blockmap, owner, role)
    BY <1>1 DEF BlockOwners
  <1>3. /\ owner \in [AllBlocks -> Nat]
        /\ \A j \in inodemap : \A M \in AllBlocks :
             Claims(R, j, M) => owner[M] = j /\ role[M] = "pointers"
        /\ \A M, c \in AllBlocks :
             owner[M] # 0 /\ role[M] = "pointers" /\ Names(R, M, c)
               => owner[c] = owner[M] /\ role[c] = "page"
        /\ \A d \in AllBlocks : owner[d] # 0 =>
             d \in blockmap /\ d >= DataStart /\ \A y \in R[d] : y.tag \in {"zero", role[d]}
        /\ \A d \in AllBlocks : d >= DataStart /\ d \notin blockmap => \A y \in R[d] : y = Zero
    BY <1>2 DEF Owns
  <1>4. /\ L \in AllBlocks /\ b \in AllBlocks /\ L # 0 /\ b # L
        /\ L >= DataStart /\ L \in blockmap' /\ (b # 0 => b >= DataStart /\ b \in blockmap')
        /\ b = 0 \/ b \notin blockmap
        /\ blockmap' \subseteq blockmap \cup {L, b} /\ blockmap \subseteq blockmap'
        /\ t \in AllBlocks /\ t < DataStart /\ t # 0
        /\ PointersIn(v[L]) \in PointersTo(DataBlocks)
        /\ n \in 0 .. PointersPerBlock - 1
        /\ w[L] = Pointers(ptr) /\ w[b] = PageOf(x)
        /\ \A d \in AllBlocks : d \notin {L, b, t} => w[d] = v[d]
        /\ \A j : TableBlock(j) \in AllBlocks /\ TableBlock(j) \notin {L, b}
                    /\ j \in DOMAIN ObjectsIn(w[TableBlock(j)]) =>
             \/ j = i /\ ObjectsIn(w[TableBlock(j)])[j] = obj
             \/ /\ j # i /\ j \in DOMAIN ObjectsIn(v[TableBlock(j)])
                /\ ObjectsIn(w[TableBlock(j)])[j] = ObjectsIn(v[TableBlock(j)])[j]
    <2>1. BlockPut(w, i, L, b, x, obj)
      BY BlockAdded
    <2> HIDE DEF w
    <2> QED
      BY <2>1 DEF BlockPut
  <1>5. /\ DataStart \in Nat /\ DataStart >= 1 /\ AllBlocks \subseteq Nat /\ 0 \in AllBlocks
        /\ i \in Nat /\ i # 0 /\ i \in inodemap
    BY Layout DEF Open
  <1>6. \A d \in AllBlocks : R[d] = {v[d], D[d]}
    BY VersionsNow
  <1>7. Record(i).blocknum # 0 => Claims(R, i, L)
    <2> SUFFICES ASSUME Record(i).blocknum # 0 PROVE Claims(R, i, L)
      OBVIOUS
    <2>1. v[t] \in R[t]
      BY <1>4, <1>6
    <2>2. Record(i) = IF i \in DOMAIN ObjectsIn(v[t]) THEN ObjectsIn(v[t])[i] ELSE NoObject
      BY <1>1, RecordInView DEF Open
    <2>3. Record(i) # NoObject
      <3>1. NoObject.blocknum = 0
        BY DEF NoObject
      <3> QED
        BY <3>1
    <2>4. Record(i).blocknum > 0 /\ Record(i).level1 = L
      BY <1>1 DEF Open, RecordOf
    <2> HIDE DEF v, R
    <2> QED
      BY <2>1, <2>2, <2>3, <2>4 DEF Claims
  <1> HIDE DEF D, V, R, Q, w, t, n
  <1>8. \A d \in AllBlocks : Q[d] = {w[d], D[d]}
    BY <1>1, VersionsAfter DEF Q
  <1> HIDE DEF ptr, v
  <1>9. \A d \in AllBlocks : d \notin {L, b, t} => Q[d] = R[d]
    BY <1>4, <1>6, <1>8
  <1>10. \A d \in AllBlocks : d >= DataStart /\ d \notin {L, b} => Q[d] = R[d]
    <2>1. \A d \in AllBlocks : d >= DataStart => d # t
      BY <1>4, <1>5
    <2> QED
      BY <1>9, <2>1
  <1>11. owner[b] = 0 /\ (b # 0 => \A y \in R[b] : y = Zero)
    <2>1. CASE b = 0
      BY <1>3, <1>5, <2>1
    <2>2. CASE b # 0
      BY <1>3, <1>4, <2>2
    <2> QED
      BY <2>1, <2>2
  <1>12. \/ owner[L] = i /\ role[L] = "pointers"
         \/ owner[L] = 0 /\ \A y \in R[L] : y = Zero
    <2>1. CASE Record(i).blocknum = 0
      <3>1. L \notin blockmap
        BY <1>1, <2>1 DEF Clear
      <3> QED
        BY <1>3, <1>4, <3>1
    <2>2. CASE Record(i).blocknum # 0
      BY <1>3, <1>4, <1>5, <1>7, <2>2
    <2> QED
      BY <2>1, <2>2
  <1>13. ASSUME NEW c \in AllBlocks, Names(R, L, c)
         PROVE  owner[c] = i /\ role[c] = "page" /\ c # L
    <2>1. ~\A y \in R[L] : y = Zero
      BY <1>13, PageHolds DEF Names
    <2>2. owner[L] = i /\ role[L] = "pointers"
      BY <1>12, <2>1
    <2> QED
      BY <1>3, <1>4, <1>5, <1>13, <2>2
  <1>14. ASSUME NEW c \in AllBlocks, Names(Q, L, c)
         PROVE  (c = b /\ c # 0) \/ Names(R, L, c)
    <2>1. PICK y \in Q[L] : c # 0 /\ \E q \in 0 .. PointersPerBlock - 1 : PointersIn(y)[q] = c
      BY <1>14 DEF Names
    <2>2. CASE y = D[L]
      <3>1. y \in R[L]
        BY <1>4, <1>6, <2>2
      <3> QED
        BY <2>1, <3>1 DEF Names
    <2>3. CASE y = w[L]
      <3>1. PICK q \in 0 .. PointersPerBlock - 1 : PointersIn(y)[q] = c
        BY <2>1
      <3>2. PointersIn(y) = ptr
        BY <1>4, <2>3 DEF PointersIn, Pointers
      <3>3. CASE q = n
        <4>1. ptr[q] = b
          BY <1>4, <3>3 DEF ptr, PointersTo
        <4> QED
          BY <2>1, <3>1, <3>2, <4>1
      <3>4. CASE q # n
        <4>1. PointersIn(v[L])[q] = c
          BY <1>4, <3>1, <3>2, <3>4 DEF ptr, PointersTo
        <4>2. v[L] \in R[L]
          BY <1>4, <1>6
        <4> QED
          BY <2>1, <4>1, <4>2 DEF Names
      <3> QED
        BY <3>3, <3>4
    <2> QED
      BY <1>4, <1>8, <2>1, <2>2, <2>3
  <1>15. ASSUME NEW j \in inodemap', NEW M \in AllBlocks, Claims(Q, j, M)
         PROVE  (j = i /\ M = L) \/ Claims(R, j, M)
    <2> DEFINE s == TableBlock(j)
    <2>1. s \in AllBlocks /\ s < DataStart /\ s # 0
      BY <1>1, Layout
    <2> HIDE DEF s
    <2>2. s \notin {L, b}
      <3>1. L \in Nat /\ b \in Nat /\ s \in Nat
        BY <1>4, <1>5, <2>1
      <3> QED
        BY <1>4, <1>5, <2>1, <3>1
    <2>3. PICK y \in Q[s] :
            /\ j \in DOMAIN ObjectsIn(y) /\ ObjectsIn(y)[j].blocknum > 0
            /\ ObjectsIn(y)[j].level1 = M
      BY <1>15 DEF Claims, s
    <2>4. CASE y = D[s]
      <3>1. y \in R[s]
        BY <1>6, <2>1, <2>4
      <3> QED
        BY <2>3, <3>1 DEF Claims, s
    <2>5. CASE y = w[s]
      <3>1. \/ j = i /\ ObjectsIn(y)[j] = obj
            \/ /\ j # i /\ j \in DOMAIN ObjectsIn(v[s])
               /\ ObjectsIn(y)[j] = ObjectsIn(v[s])[j]
        BY <1>4, <2>1, <2>2, <2>3, <2>5 DEF s
      <3>2. v[s] \in R[s]
        BY <1>6, <2>1
      <3> QED
        BY <1>1, <2>3, <3>1, <3>2 DEF Claims, s
    <2> QED
      BY <1>8, <2>1, <2>3, <2>4, <2>5
  <1> DEFINE owner2 == [d \in AllBlocks |-> IF d = L \/ (d = b /\ b # 0) THEN i ELSE owner[d]]
             role2 == [d \in AllBlocks |-> IF d = L THEN "pointers" ELSE IF d = b THEN "page" ELSE role[d]]
  <1>16. owner2 \in [AllBlocks -> Nat]
    BY <1>3, <1>5
  <1>17. /\ owner2[L] = i /\ role2[L] = "pointers"
         /\ b # 0 => owner2[b] = i /\ role2[b] = "page"
         /\ b = 0 => owner2[b] = 0
         /\ \A d \in AllBlocks : d \notin {L, b} => owner2[d] = owner[d] /\ role2[d] = role[d]
    BY <1>4, <1>11
  <1> HIDE DEF owner2, role2
  <1>18. ASSUME NEW j \in inodemap', NEW M \in AllBlocks, Claims(Q, j, M)
         PROVE  owner2[M] = j /\ role2[M] = "pointers"
    <2>1. CASE j = i /\ M = L
      BY <1>17, <2>1
    <2>2. CASE Claims(R, j, M)
      <3>1. owner[M] = j /\ role[M] = "pointers" /\ j # 0
        BY <1>1, <1>3, <2>2, Layout
      <3>2. M # b
        BY <1>11, <3>1
      <3> QED
        BY <1>12, <1>17, <3>1, <3>2
    <2> QED
      BY <1>15, <1>18, <2>1, <2>2
  <1>19. ASSUME NEW M \in AllBlocks, NEW c \in AllBlocks, owner2[M] # 0, role2[M] = "pointers",
                Names(Q, M, c)
         PROVE  owner2[c] = owner2[M] /\ role2[c] = "page"
    <2>1. CASE M = L
      <3>1. CASE c = b /\ c # 0
        BY <1>17, <2>1, <3>1
      <3>2. CASE Names(R, L, c)
        <4>1. owner[c] = i /\ role[c] = "page" /\ c # L
          BY <1>13, <3>2
        <4>2. c # b
          BY <1>5, <1>11, <4>1
        <4> QED
          BY <1>17, <2>1, <4>1, <4>2
      <3> QED
        BY <1>14, <1>19, <2>1, <3>1, <3>2
    <2>2. CASE M # L
      <3>1. M # b
        BY <1>17, <1>19
      <3>2. owner[M] # 0 /\ role[M] = "pointers" /\ owner2[M] = owner[M]
        BY <1>17, <1>19, <2>2, <3>1
      <3>3. Names(R, M, c)
        BY <1>3, <1>10, <1>19, <2>2, <3>1, <3>2 DEF Names
      <3>4. owner[c] = owner[M] /\ role[c] = "page"
        BY <1>3, <3>2, <3>3
      <3>5. c # b /\ c # L
        BY <1>11, <1>12, <3>2, <3>4
      <3> QED
        BY <1>17, <3>2, <3>4, <3>5
    <2> QED
      BY <2>1, <2>2
  <1>20. ASSUME NEW d \in AllBlocks, owner2[d] # 0
         PROVE  d \in blockmap' /\ d >= DataStart /\ \A y \in Q[d] : y.tag \in {"zero", role2[d]}
    <2>1. CASE d = L
      <3>1. w[L].tag = "pointers"
        BY <1>4 DEF Pointers
      <3>2. D[L].tag \in {"zero", "pointers"}
        <4>1. D[L] \in R[L]
          BY <1>4, <1>6
        <4>2. Zero.tag = "zero"
          BY DEF Zero
        <4> QED
          BY <1>3, <1>4, <1>5, <1>12, <4>1, <4>2
      <3> QED
        BY <1>4, <1>8, <1>17, <2>1, <3>1, <3>2
    <2>2. CASE d = b
      <3>1. b # 0
        BY <1>17, <1>20, <2>2
      <3>2. w[b].tag = "page"
        BY <1>4, PageHolds
      <3>3. D[b].tag = "zero"
        <4>1. D[b] \in R[b]
          BY <1>4, <1>6
        <4>2. Zero.tag = "zero"
          BY DEF Zero
        <4> QED
          BY <1>11, <3>1, <4>1, <4>2
      <3> QED
        BY <1>4, <1>8, <1>17, <2>2, <3>1, <3>2, <3>3
    <2>3. CASE d \notin {L, b}
      <3>1. owner2[d] = owner[d] /\ role2[d] = role[d]
        BY <1>17, <2>3
      <3>2. d \in blockmap /\ d >= DataStart /\ \A y \in R[d] : y.tag \in {"zero", role[d]}
        BY <1>3, <1>20, <3>1
      <3>3. Q[d] = R[d]
        BY <1>10, <2>3, <3>2
      <3> QED
        BY <1>4, <3>1, <3>2, <3>3
    <2> QED
      BY <2>1, <2>2, <2>3
  <1>21. ASSUME NEW d \in AllBlocks, d >= DataStart, d \notin blockmap' PROVE \A y \in Q[d] : y = Zero
    <2>1. d # L /\ d \notin blockmap
      BY <1>4, <1>21
    <2>2. d # b
      BY <1>4, <1>5, <1>21
    <2> QED
      BY <1>3, <1>10, <1>21, <2>1, <2>2
  <1>22. Owns(Q, inodemap', blockmap', owner2, role2)
    BY <1>16, <1>18, <1>19, <1>20, <1>21 DEF Owns
  <1> QED
    BY <1>22

\* What ownership means for the objects of a mounted store.
LEMMA OwnersOwn == StoreInv /\ BlockOwners => BlocksOwned
  <1> SUFFICES ASSUME StoreInv, BlockOwners, status = "mounted", NEW i \in Record_ids
               PROVE  /\ BlocksOf(i) \subseteq blockmap \ (0 .. DataStart - 1)
                      /\ \A j \in Record_ids \ {i} : BlocksOf(i) \cap BlocksOf(j) = {}
                      /\ Record(i).blocknum > 0 =>
                           /\ Contents(cache, Record(i).level1).tag \in {"zero", "pointers"}
                           /\ Record(i).level1 \notin PointersOf(i)
                      /\ \A b \in PointersOf(i) : Contents(cache, b).tag \in {"zero", "page"}
    BY DEF BlocksOwned
  <1> DEFINE R == Versions
  <1>1. PICK owner, role : Owns(R, inodemap, blockmap, owner, role)
    BY DEF BlockOwners
  <1>2. \A b \in AllBlocks : Contents(cache, b) \in R[b]
    BY DEF Versions
  <1>3. ASSUME NEW j \in Record_ids
        PROVE  /\ j # 0
               /\ Record(j).blocknum > 0 =>
                    /\ Record(j).level1 \in AllBlocks
                    /\ owner[Record(j).level1] = j /\ role[Record(j).level1] = "pointers"
                    /\ \A b \in PointersOf(j) :
                         b \in AllBlocks /\ owner[b] = j /\ role[b] = "page"
               /\ ~(Record(j).blocknum > 0) => BlocksOf(j) = {} /\ PointersOf(j) = {}
    <2>1. j \in Identifier /\ IsObject(cache, j) /\ j # 0
      BY ObjStoreAssumption DEF Record_ids, Identifier
    <2>2. j \in inodemap /\ Record(j) \in RecordOf(DataBlocks)
      BY <2>1, RecordTaken
    <2>3. TableBlock(j) \in AllBlocks
      BY <2>1, TableBlockRange
    <2>4. Record(j).blocknum \in Nat
      BY <2>2 DEF RecordOf
    <2>5. ASSUME Record(j).blocknum > 0
          PROVE  /\ Record(j).level1 \in AllBlocks
                 /\ owner[Record(j).level1] = j /\ role[Record(j).level1] = "pointers"
                 /\ \A b \in PointersOf(j) : b \in AllBlocks /\ owner[b] = j /\ role[b] = "page"
      <3> DEFINE L == Record(j).level1
                 x == Contents(cache, TableBlock(j))
                 f == PointersIn(Contents(cache, L))
      <3>1. L \in DataBlocks /\ L \in AllBlocks
        BY <2>2, <2>5 DEF RecordOf, DataBlocks, StoreInv, Maps
      <3>2. Record(j) = ObjectsIn(x)[j] /\ j \in DOMAIN ObjectsIn(x)
        BY <2>1 DEF Record, get_object_by_id, IsObject
      <3>3. Claims(R, j, L)
        BY <1>2, <2>3, <2>5, <3>2 DEF Claims
      <3>4. owner[L] = j /\ role[L] = "pointers"
        BY <1>1, <2>2, <3>1, <3>3 DEF Owns
      <3>5. f \in PointersTo(DataBlocks)
        <4>1. Contents(cache, L) \in R[L]
          BY <1>2, <3>1
        <4>2. Contents(cache, L) \in Val(inodemap, DataBlocks)
          BY <3>1, <4>1, ClaimedByTaken DEF StoreVal
        <4> QED
          BY <4>2, PointersRead
      <3>6. PointersOf(j) = {f[p] : p \in 0 .. PointersPerBlock - 1} \ {0}
        <4>1. PointersOf(j) = Range(f) \ {0}
          BY <2>5 DEF PointersOf
        <4>2. Range(f) = {f[p] : p \in DOMAIN f}
          BY DEF Range
        <4>3. DOMAIN f = 0 .. PointersPerBlock - 1
          BY <3>5 DEF PointersTo
        <4> QED
          BY <4>1, <4>2, <4>3
      <3>7. Contents(cache, L) \in R[L]
        BY <1>2, <3>1
      <3> HIDE DEF R, L
      <3>8. ASSUME NEW b \in PointersOf(j) PROVE b \in AllBlocks /\ owner[b] = j /\ role[b] = "page"
        <4>1. PICK p \in 0 .. PointersPerBlock - 1 : b = f[p] /\ b # 0
          BY <3>6
        <4>2. b \in AllBlocks
          BY <3>5, <4>1 DEF PointersTo, DataBlocks, StoreInv, Maps
        <4>3. Names(R, L, b)
          BY <3>7, <4>1 DEF Names
        <4> QED
          BY <1>1, <2>1, <3>1, <3>4, <4>2, <4>3 DEF Owns
      <3> QED
        BY <3>1, <3>4, <3>8 DEF L
    <2>6. ~(Record(j).blocknum > 0) => BlocksOf(j) = {} /\ PointersOf(j) = {}
      BY <2>4 DEF BlocksOf, PointersOf
    <2> QED
      BY <2>1, <2>5, <2>6
  <1>4. \A j \in Record_ids : \A b \in BlocksOf(j) : b \in AllBlocks /\ owner[b] = j /\ j # 0
    BY <1>3 DEF BlocksOf
  <1>5. BlocksOf(i) \subseteq blockmap \ (0 .. DataStart - 1)
    <2>1. \A b \in BlocksOf(i) : b \in blockmap /\ b >= DataStart /\ b \in Nat
      BY <1>1, <1>4, Layout DEF Owns
    <2> QED
      BY <2>1, Layout
  <1>6. \A j \in Record_ids \ {i} : BlocksOf(i) \cap BlocksOf(j) = {}
    BY <1>4
  <1>7. Record(i).blocknum > 0 =>
          /\ Contents(cache, Record(i).level1).tag \in {"zero", "pointers"}
          /\ Record(i).level1 \notin PointersOf(i)
    BY <1>1, <1>2, <1>3 DEF Owns
  <1>8. \A b \in PointersOf(i) : Contents(cache, b).tag \in {"zero", "page"}
    BY <1>1, <1>2, <1>3 DEF Owns
  <1> QED
    BY <1>5, <1>6, <1>7, <1>8

\* The blocks have owners in every state.
LEMMA BlockOwnersAlways == Spec => []BlockOwners
  <1>1. Init => BlockOwners
    <2> SUFFICES ASSUME Init PROVE BlockOwners
      OBVIOUS
    <2>1. StoreInv /\ status = "unmounted" /\ inodemap = {} /\ blockmap = {}
      BY StoreInvStarts DEF Init
    <2>2. \A b \in AllBlocks : Contents(cache, b) = cache.disk[b]
      BY <2>1 DEF StoreInv
    <2>3. PICK n \in CacheSizes : cache = EmptyCache(n, [b \in 0 .. BlockBits - 1 |-> Zero])
      BY DEF Init
    <2>4. cache.disk = [b \in 0 .. BlockBits - 1 |-> Zero]
      BY <2>3 DEF EmptyCache
    <2>5. \A b \in AllBlocks : cache.disk[b] = Zero
      BY <2>4 DEF AllBlocks
    <2>6. \A b \in AllBlocks : \A x \in Versions[b] : x = Zero
      BY <2>2, <2>5 DEF Versions
    <2> DEFINE owner == [b \in AllBlocks |-> 0]
    <2>7. owner \in [AllBlocks -> Nat] /\ \A b \in AllBlocks : owner[b] = 0
      OBVIOUS
    <2> HIDE DEF owner
    <2>8. Owns(Versions, inodemap, blockmap, owner, owner)
      BY <2>1, <2>6, <2>7 DEF Owns
    <2> QED
      BY <2>8 DEF BlockOwners
  <1>2. StoreInv /\ BlockOwners /\ [Next]_vars => BlockOwners'
    <2>1. ASSUME StoreInv, BlockOwners, Next PROVE BlockOwners'
      <3>1. ASSUME Ended PROVE BlockOwners'
        BY <3>1 DEF Ended, BlockOwners
      <3> QED
        BY <2>1, <3>1, Steps, LookedOwners, CreatedOwners, OverwroteOwners, ExtendedOwners,
           UnmountedOwners, MountedOwners DEF StepKinds
    <2>2. ASSUME BlockOwners, UNCHANGED vars PROVE BlockOwners'
      <3>1. UNCHANGED <<status, inodemap, blockmap, cache>>
        BY <2>2 DEF vars
      <3>2. Versions' = Versions
        BY <3>1 DEF Versions, AllBlocks
      <3> QED
        BY <2>2, <3>1, <3>2 DEF BlockOwners
    <2> QED
      BY <2>1, <2>2
  <1> QED
    BY <1>1, <1>2, StoreInvAlways, PTL DEF Spec

\* No block is owned twice, however the store got there.
THEOREM BlocksOwnedAlways == Spec => []BlocksOwned
  BY OwnersOwn, BlockOwnersAlways, StoreInvAlways, PTL

-----------------------------------------------------------------------------
(* Keys. The first mount finds an empty disk, and the hash table that the  *)
(* process builds from then on has every record.                           *)

Keyed ==
  \A i \in Identifier : i >= 2 /\ IsObject(cache, i) =>
    /\ In(hashTable[Hash[Record(i).key]], i)
    /\ \A j \in Identifier : j >= 2 /\ IsObject(cache, j) /\ Record(j).key = Record(i).key => i = j

KeyInv ==
  /\ mounts \in Nat
  /\ mounts = 0 => status = "unmounted" /\ \A b \in AllBlocks : cache.disk[b] = Zero
  /\ status = "mounted" /\ mounts = 1 => Keyed

\* The records after a request.
LEMMA RecordAfter ==
  ASSUME NEW D, NEW v, NEW V, After(D, v, V), status' = "mounted", NEW i \in Identifier
  PROVE  get_object_by_id(cache', i)
           = IF i \in DOMAIN ObjectsIn(v[TableBlock(i)]) THEN ObjectsIn(v[TableBlock(i)])[i]
             ELSE NoObject
  <1>1. TableBlock(i) \in AllBlocks
    BY TableBlockRange
  <1>2. View' = v
    BY DEF After
  <1>3. v[TableBlock(i)] = Contents(cache', TableBlock(i))
    BY <1>1, <1>2 DEF View, AllBlocks
  <1> QED
    BY <1>3 DEF get_object_by_id

\* An empty disk has no records.
LEMMA NoRecords ==
  ASSUME StoreInv, status = "unmounted", \A b \in AllBlocks : cache.disk[b] = Zero,
         NEW i \in Identifier
  PROVE  ~IsObject(cache, i)
  <1>1. TableBlock(i) \in AllBlocks
    BY TableBlockRange
  <1>2. Contents(cache, TableBlock(i)) = Zero
    BY <1>1 DEF StoreInv
  <1>3. ObjectsIn(Zero) = << >> /\ DOMAIN << >> = {}
    BY DEF ObjectsIn, Zero
  <1> QED
    BY <1>2, <1>3 DEF IsObject, get_object_by_id

\* The keys stay unique when the records keep their keys and their places in the hash
\* table.
LEMMA KeyedStill ==
  ASSUME Keyed,
         \A i \in Identifier : i >= 2 /\ IsObject(cache', i) =>
            /\ IsObject(cache, i) /\ get_object_by_id(cache', i).key = Record(i).key
         , hashTable' = hashTable
  PROVE  Keyed'
  BY DEF Keyed, Record, Identifier

\* What is linked into a bucket is in it, with what was there.
LEMMA LinkedIn ==
  ASSUME NEW table \in [Bucket -> Seq(Identifier)], NEW i \in Identifier, NEW h \in Bucket
  PROVE  /\ In(Linked(table, i, h)[h], i)
         /\ \A g \in Bucket : \A j : In(table[g], j) => In(Linked(table, i, h)[g], j)
         /\ \A g \in Bucket : \A j : In(Linked(table, i, h)[g], j) =>
              In(table[g], j) \/ (g = h /\ j = i)
  <1> DEFINE s == table[h]
             t == Linked(table, i, h)
  <1>1. s \in Seq(Identifier)
    OBVIOUS
  <1>2. /\ t[h] = IF s = << >> THEN <<i>> ELSE s \o <<i, i>>
        /\ \A g \in Bucket : g # h => t[g] = table[g]
    BY DEF Linked
  <1> HIDE DEF t
  <1>3. CASE s = << >>
    <2>1. \A j : In(t[h], j) <=> j = i
      BY <1>2, <1>3 DEF In
    <2>2. \A j : ~In(s, j)
      BY <1>3 DEF In
    <2> QED
      BY <1>2, <2>1, <2>2 DEF t
  <1>4. CASE s # << >>
    <2> HIDE DEF s
    <2> DEFINE u == s \o <<i, i>>
    <2>1. /\ DOMAIN u = 1 .. Len(s) + 2 /\ Len(s) \in Nat /\ DOMAIN s = 1 .. Len(s)
          /\ \A e \in 1 .. Len(s) : u[e] = s[e]
          /\ u[Len(s) + 1] = i /\ u[Len(s) + 2] = i
      BY <1>1
    <2>2. t[h] = u
      BY <1>2, <1>4
    <2> HIDE DEF u
    <2>3. In(u, i)
      BY <2>1 DEF In
    <2>4. \A j : In(s, j) => In(u, j)
      BY <2>1 DEF In
    <2>5. \A j : In(u, j) => In(s, j) \/ j = i
      BY <2>1 DEF In
    <2> QED
      BY <1>2, <2>2, <2>3, <2>4, <2>5 DEF t, s
  <1> QED
    BY <1>3, <1>4

\* While the store serves, only the keys matter.
LEMMA ServedKeys ==
  ASSUME KeyInv, status = "mounted", mounts' = mounts,
         status' = "mounted" /\ mounts = 1 => Keyed'
  PROVE  KeyInv'
  BY DEF KeyInv

\* Requests that change nothing that can be read.
LEMMA LookedKeys ==
  ASSUME StoreInv, KeyInv, status = "mounted", Looked
  PROVE  KeyInv'
  <1>1. /\ After(cache.disk, View, StoreVal) /\ hashTable' = hashTable /\ mounts' = mounts
    BY DEF Looked, nameVars, mountVars
  <1> SUFFICES ASSUME status' = "mounted", mounts = 1 PROVE Keyed'
    BY <1>1, ServedKeys
  <1>2. Keyed
    BY DEF KeyInv
  <1>3. ASSUME NEW i \in Identifier PROVE get_object_by_id(cache', i) = Record(i)
    <2> DEFINE D == cache.disk
               v == View
               V == StoreVal
    <2>1. After(D, v, V)
      BY <1>1
    <2>2. Record(i) = IF i \in DOMAIN ObjectsIn(v[TableBlock(i)])
                      THEN ObjectsIn(v[TableBlock(i)])[i] ELSE NoObject
      BY RecordInView
    <2> HIDE DEF D, v, V
    <2> QED
      BY <2>1, <2>2, RecordAfter
  <1> QED
    BY <1>1, <1>2, <1>3, KeyedStill DEF IsObject, Record

\* The walk found no record with the key, and every record is in the bucket of its key:
\* the new object is the only one of its key.
LEMMA CreatedKeys ==
  ASSUME StoreInv, KeyInv, status = "mounted", NEW k \in Key, NEW i, Created(k, i)
  PROVE  KeyInv'
  <1> DEFINE new == [key |-> k, blocknum |-> 0, level1 |-> 0, size |-> 0]
             v == View
             w == WithRecord(v, i, new)
             D == cache.disk
             V == Val(inodemap', DataBlocks)
  <1>1. /\ i \in Clear(inodemap, InodeBits) /\ WalkEnd(cache, hashTable[Hash[k]], k) = 0
        /\ hashTable' = Linked(hashTable, i, Hash[k]) /\ mounts' = mounts
        /\ After(D, w, V)
    BY DEF Created, mountVars
  <1> SUFFICES ASSUME status' = "mounted", mounts = 1 PROVE Keyed'
    BY <1>1, ServedKeys
  <1>2. i \notin inodemap /\ i \in Identifier
    BY <1>1, ObjStoreAssumption DEF Clear, Identifier
  <1>3. TableBlock(i) \in AllBlocks /\ DOMAIN v = AllBlocks
    BY <1>2, TableBlockRange DEF View
  <1>4. \A j \in Identifier :
          Record(j) = IF j \in DOMAIN ObjectsIn(v[TableBlock(j)])
                      THEN ObjectsIn(v[TableBlock(j)])[j] ELSE NoObject
    BY RecordInView
  <1> HIDE DEF v, D, V
  <1>5. ASSUME NEW j \in Identifier
        PROVE  get_object_by_id(cache', j) = IF j = i THEN new ELSE Record(j)
    <2>1. get_object_by_id(cache', j) = IF j \in DOMAIN ObjectsIn(w[TableBlock(j)])
                                        THEN ObjectsIn(w[TableBlock(j)])[j] ELSE NoObject
      <3> HIDE DEF w
      <3> QED
        BY <1>1, RecordAfter
    <2>2. TableBlock(j) \in AllBlocks
      BY TableBlockRange
    <2> HIDE DEF new
    <2> QED
      BY <1>3, <1>4, <2>1, <2>2, RecordPut
  <1>6. Keyed
    BY DEF KeyInv
  <1>7. hashTable \in [Bucket -> Seq(Identifier)] /\ Hash[k] \in Bucket
    BY KeyBuckets DEF StoreInv, Maps
  <1>8. ASSUME NEW j \in Identifier, j >= 2, IsObject(cache, j)
        PROVE  j # i /\ Record(j).key \in Key /\ Record(j).key # k
    <2>1. j \in inodemap /\ Record(j) \in RecordOf(DataBlocks)
      BY <1>8, RecordTaken
    <2>2. Record(j).key # k
      <3>1. SUFFICES ASSUME Record(j).key = k PROVE FALSE
        OBVIOUS
      <3> DEFINE chain == hashTable[Hash[k]]
      <3>2. In(chain, j) /\ chain \in Seq(Identifier)
        BY <1>6, <1>7, <1>8, <3>1 DEF Keyed
      <3>3. PICK e \in DOMAIN chain : chain[e] = j
        BY <3>2 DEF In
      <3>4. WalkEnd(cache, chain, k) = 0
        BY <1>1
      <3> HIDE DEF chain
      <3>5. get_object_by_id(cache, j).key # k
        BY <1>8, <3>2, <3>3, <3>4, WalkEnds
      <3> QED
        BY <3>1, <3>5 DEF Record
    <2> QED
      BY <1>2, <2>1, <2>2 DEF RecordOf
  <1>9. new.key = k
    OBVIOUS
  <1> HIDE DEF new, w
  <1>10. ASSUME NEW j \in Identifier, j >= 2, IsObject(cache', j)
         PROVE  \/ j = i /\ get_object_by_id(cache', j).key = k
                \/ /\ j # i /\ IsObject(cache, j)
                   /\ get_object_by_id(cache', j).key = Record(j).key
    BY <1>5, <1>9, <1>10 DEF IsObject, Record
  <1> DEFINE key(j) == get_object_by_id(cache', j).key
  <1>11. ASSUME NEW j \in Identifier, j >= 2, IsObject(cache', j)
         PROVE  /\ In(hashTable'[Hash[key(j)]], j)
                /\ \A l \in Identifier : l >= 2 /\ IsObject(cache', l) /\ key(l) = key(j) => j = l
    <2>1. CASE j = i
      <3>1. key(j) = k
        BY <1>10, <1>11, <2>1
      <3>2. In(hashTable'[Hash[k]], i)
        BY <1>1, <1>2, <1>7, LinkedIn
      <3>3. ASSUME NEW l \in Identifier, l >= 2, IsObject(cache', l), key(l) = k PROVE l = i
        BY <1>8, <1>10, <3>3
      <3> QED
        BY <2>1, <3>1, <3>2, <3>3
    <2>2. CASE j # i
      <3>1. IsObject(cache, j) /\ key(j) = Record(j).key /\ key(j) \in Key /\ key(j) # k
        BY <1>8, <1>10, <1>11, <2>2
      <3>2. In(hashTable[Hash[key(j)]], j)
        BY <1>6, <1>11, <3>1 DEF Keyed
      <3>3. In(hashTable'[Hash[key(j)]], j)
        <4>1. Hash[key(j)] \in Bucket
          BY <3>1, KeyBuckets
        <4> DEFINE g == Hash[key(j)]
                   h == Hash[k]
        <4>2. g \in Bucket /\ h \in Bucket /\ In(hashTable[g], j) /\ hashTable' = Linked(hashTable, i, h)
          BY <1>1, <1>7, <3>2, <4>1
        <4> HIDE DEF g, h
        <4>3. In(hashTable'[g], j)
          BY <1>2, <1>7, <4>2, LinkedIn
        <4> QED
          BY <4>3 DEF g
      <3>4. ASSUME NEW l \in Identifier, l >= 2, IsObject(cache', l), key(l) = key(j) PROVE l = j
        BY <1>6, <1>10, <1>11, <3>1, <3>4 DEF Keyed
      <3> QED
        BY <3>3, <3>4
    <2> QED
      BY <2>1, <2>2
  <1> QED
    BY <1>11 DEF Keyed, Record, Identifier

\* A page is not written over a record.
LEMMA OverwroteKeys ==
  ASSUME StoreInv, KeyInv, NEW i, Open(i), NEW p \in Page, NEW x, Overwrote(i, p, x)
  PROVE  KeyInv'
  <1> DEFINE b == PointersIn(View[Record(i).level1])[p]
             v == View
             w == [v EXCEPT ![b] = PageOf(x)]
             D == cache.disk
             V == StoreVal
  <1>1. /\ Record(i).level1 \in DataBlocks /\ hashTable' = hashTable /\ mounts' = mounts
        /\ After(D, w, V) /\ status = "mounted"
    BY DEF Overwrote, nameVars, mountVars, Open
  <1> SUFFICES ASSUME status' = "mounted", mounts = 1 PROVE Keyed'
    BY <1>1, ServedKeys
  <1>2. b = 0 \/ b >= DataStart
    <2>1. View[Record(i).level1] \in Val(inodemap, DataBlocks)
      BY <1>1, MountedGood DEF Good, StoreVal, DataBlocks, StoreInv, Maps
    <2>2. p \in 0 .. PointersPerBlock - 1
      BY ObjStoreAssumption
    <2>3. b \in {0} \cup DataBlocks
      <3> DEFINE f == PointersIn(View[Record(i).level1])
      <3>1. f \in PointersTo(DataBlocks)
        BY <2>1, PointersRead
      <3> HIDE DEF f
      <3> QED
        BY <2>2, <3>1 DEF PointersTo, f
    <2>4. \A d \in DataBlocks : d >= DataStart
      BY Layout DEF DataBlocks, StoreInv, Maps
    <2> QED
      BY <2>3, <2>4
  <1>3. \A j \in Identifier :
          Record(j) = IF j \in DOMAIN ObjectsIn(v[TableBlock(j)])
                      THEN ObjectsIn(v[TableBlock(j)])[j] ELSE NoObject
    BY <1>1, RecordInView
  <1>4. \A d \in AllBlocks : d # b => w[d] = v[d]
    BY DEF View
  <1> HIDE DEF v, D, V, b, w
  <1>5. ASSUME NEW j \in Identifier, j >= 2
        PROVE  get_object_by_id(cache', j) = Record(j)
    <2> DEFINE t == TableBlock(j)
    <2>1. t \in AllBlocks /\ t < DataStart /\ t >= TableStart
      BY <1>5, TableBlockRange
    <2> HIDE DEF t
    <2>2. t # b
      <3>1. TableStart \in Nat /\ DataStart \in Nat /\ TableStart >= 1 /\ t \in Nat
        BY <2>1, Layout
      <3> QED
        BY <1>2, <2>1, <3>1
    <2>3. w[t] = v[t]
      BY <1>4, <2>1, <2>2
    <2> QED
      BY <1>1, <1>3, <2>3, RecordAfter DEF t
  <1>6. Keyed
    BY <1>1 DEF KeyInv
  <1> QED
    BY <1>1, <1>5, <1>6, KeyedStill DEF IsObject, Record

\* A new block changes one record, which keeps its key.
LEMMA ExtendedKeys ==
  ASSUME StoreInv, KeyInv, NEW i, Open(i), NEW L, NEW b, NEW x, NEW obj,
         Extended(i, L, b, x, obj)
  PROVE  KeyInv'
  <1> DEFINE v == View
             w == WithBlock(v, i, L, b, x, obj)
             D == cache.disk
             V == Val(inodemap, DataBlocks')
  <1>1. /\ obj.key = Record(i).key /\ hashTable' = hashTable /\ mounts' = mounts
        /\ After(D, w, V) /\ status = "mounted" /\ IsObject(cache, i)
    BY DEF Extended, nameVars, mountVars, Open
  <1> SUFFICES ASSUME status' = "mounted", mounts = 1 PROVE Keyed'
    BY <1>1, ServedKeys
  <1>2. BlockPut(w, i, L, b, x, obj)
    BY BlockAdded
  <1>3. \A j \in Identifier :
          Record(j) = IF j \in DOMAIN ObjectsIn(v[TableBlock(j)])
                      THEN ObjectsIn(v[TableBlock(j)])[j] ELSE NoObject
    BY <1>1, RecordInView
  <1> HIDE DEF D, V, w
  <1>4. ASSUME NEW j \in Identifier, j >= 2, IsObject(cache', j)
        PROVE  IsObject(cache, j) /\ get_object_by_id(cache', j).key = Record(j).key
    <2>1. get_object_by_id(cache', j) = IF j \in DOMAIN ObjectsIn(w[TableBlock(j)])
                                        THEN ObjectsIn(w[TableBlock(j)])[j] ELSE NoObject
      BY <1>1, RecordAfter
    <2>2. TableBlock(j) \in AllBlocks /\ TableBlock(j) \notin {L, b}
      <3> DEFINE t == TableBlock(j)
      <3>1. t \in AllBlocks /\ t < DataStart /\ t >= TableStart
        BY <1>4, TableBlockRange
      <3>2. L \in AllBlocks /\ L >= DataStart /\ b \in AllBlocks /\ (b # 0 => b >= DataStart)
        BY <1>2 DEF BlockPut
      <3> HIDE DEF t
      <3>3. TableStart \in Nat /\ DataStart \in Nat /\ TableStart >= 1 /\ t \in Nat /\ L \in Nat /\ b \in Nat
        BY <3>1, <3>2, Layout
      <3>4. t \notin {L, b}
        BY <3>1, <3>2, <3>3
      <3> QED
        BY <3>1, <3>4 DEF t
    <2>3. j \in DOMAIN ObjectsIn(w[TableBlock(j)])
      BY <1>4, <2>1 DEF IsObject
    <2>4. \/ j = i /\ ObjectsIn(w[TableBlock(j)])[j] = obj
          \/ /\ j # i /\ j \in DOMAIN ObjectsIn(v[TableBlock(j)])
             /\ ObjectsIn(w[TableBlock(j)])[j] = ObjectsIn(v[TableBlock(j)])[j]
      BY <1>2, <2>2, <2>3 DEF BlockPut
    <2>5. CASE j = i
      BY <1>1, <2>1, <2>3, <2>4, <2>5
    <2>6. CASE j # i
      <3> HIDE DEF v
      <3>1. get_object_by_id(cache', j) = Record(j)
        BY <1>3, <2>1, <2>3, <2>4, <2>6
      <3> QED
        BY <1>4, <3>1 DEF IsObject, Record
    <2> QED
      BY <2>5, <2>6
  <1>5. Keyed
    BY <1>1 DEF KeyInv
  <1> QED
    BY <1>1, <1>4, <1>5, KeyedStill

\* The first mount finds no records.
LEMMA MountedKeys ==
  ASSUME StoreInv, KeyInv, Mounted
  PROVE  KeyInv'
  <1>1. /\ status = "unmounted" /\ status' = "mounted" /\ mounts' = mounts + 1 /\ cache' = cache
    BY DEF Mounted
  <1>2. mounts \in Nat
    BY DEF KeyInv
  <1>3. ASSUME mounts' = 1 PROVE Keyed'
    <2>1. \A b \in AllBlocks : cache.disk[b] = Zero
      BY <1>1, <1>2, <1>3 DEF KeyInv
    <2>2. \A i \in Identifier : ~IsObject(cache', i)
      BY <1>1, <2>1, NoRecords
    <2> QED
      BY <2>2 DEF Keyed, Identifier
  <1> QED
    BY <1>1, <1>2, <1>3 DEF KeyInv

\* The keys are in order in every state.
LEMMA KeyInvAlways == Spec => []KeyInv
  <1>1. Init => KeyInv
    <2> SUFFICES ASSUME Init PROVE KeyInv
      OBVIOUS
    <2>1. PICK n \in CacheSizes : cache = EmptyCache(n, [b \in 0 .. BlockBits - 1 |-> Zero])
      BY DEF Init
    <2>2. cache.disk = [b \in 0 .. BlockBits - 1 |-> Zero]
      BY <2>1 DEF EmptyCache
    <2> QED
      BY <2>2 DEF Init, KeyInv, AllBlocks
  <1>2. StoreInv /\ KeyInv /\ [Next]_vars => KeyInv'
    <2>1. ASSUME StoreInv, KeyInv, Next PROVE KeyInv'
      <3>1. ASSUME Ended PROVE KeyInv'
        BY <2>1, <3>1 DEF Ended, KeyInv
      <3>2. ASSUME Unmounted PROVE KeyInv'
        BY <2>1, <3>2 DEF Unmounted, KeyInv
      <3> QED
        BY <2>1, <3>1, <3>2, Steps, LookedKeys, CreatedKeys, OverwroteKeys, ExtendedKeys,
           MountedKeys DEF StepKinds
    <2>2. ASSUME KeyInv, UNCHANGED vars PROVE KeyInv'
      BY <2>2 DEF vars, KeyInv, Keyed, Record, Identifier, AllBlocks
    <2> QED
      BY <2>1, <2>2
  <1> QED
    BY <1>1, <1>2, StoreInvAlways, PTL DEF Spec

\* No key ever has two objects while the process that formatted the disk serves it: the
\* duplicate test of create_object walks the bucket of the key, where the objects of
\* the key are.
THEOREM KeysUniqueAlways == Spec => []KeysUnique
  <1>1. StoreInv /\ KeyInv => KeysUnique
    <2> SUFFICES ASSUME StoreInv, KeyInv, Intact, NEW i \in Record_ids, NEW j \in Record_ids,
                        Record(i).key = Record(j).key
                 PROVE  i = j
      BY DEF KeysUnique
    <2>1. /\ i \in Identifier /\ i >= 2 /\ IsObject(cache, i)
          /\ j \in Identifier /\ j >= 2 /\ IsObject(cache, j)
      BY ObjStoreAssumption DEF Record_ids, Identifier
    <2>2. CASE mounts = 0
      BY <2>1, <2>2, NoRecords DEF KeyInv
    <2>3. CASE mounts # 0
      <3>1. status = "mounted" /\ mounts = 1
        BY <2>3 DEF Intact, Serving, KeyInv
      <3>2. Keyed
        BY <3>1 DEF KeyInv
      <3> QED
        BY <2>1, <3>2 DEF Keyed
    <2> QED
      BY <2>2, <2>3
  <1> QED
    BY <1>1, KeyInvAlways, StoreInvAlways, PTL
=============================================================================
