------------------------------ MODULE ObjStore ------------------------------
(***************************************************************************)
(* The object store of Assn4, objstore.c behind the FUSE calls of objfs.c: *)
(* objects by key in a hash table, their records and blocks behind the     *)
(* block cache, and the unmount and mount that save and restore them.      *)
(*                                                                         *)
(* FUSE serves one request at a time here (its option -s); ObjAlloc has    *)
(* the allocators under several threads. Objects have at most 1024 pages,  *)
(* so that only level1[0] is used.                                         *)
(***************************************************************************)
EXTENDS BlockCache, FiniteSetsExt

CONSTANTS
  Key,              \* keys of the client
  Hash, SlashHash,  \* hash("key") and hash("/key")
  Buckets,          \* buckets of hashTable (MAX_OBJECT)
  InodeBits,        \* MAX_INODES
  BlockBits,        \* MAX_BLOCKS
  TableStart,       \* first block of the object table (1312)
  ObjectsPerBlock,  \* OBJECTS_PER_BLOCK (64)
  DataStart,        \* blocks below are marked by objstore_init (17696)
  PointersPerBlock, \* TWOTEN (1024)
  Page,             \* page offsets clients write at, below PointersPerBlock
  Value,            \* bytes that fill the pages clients write
  Length,           \* the length of each, at most a page
  Writes,           \* the writes of clients: key, page and byte
  Reads,            \* the reads of clients: first page and number of pages
  IdBlocks,         \* ID_BLOCKS (1024)
  BlockBytes,       \* BLOCK_SIZE (4096)
  LongBytes,        \* sizeof(unsigned long) (8)
  Base,             \* values of a byte (256)
  CacheSizes,       \* CACHE_HTSIZE (2^15); each behaviour has one of these
  RawBlock,         \* blocks accessed once the cache has overflowed
  MaxMounts,        \* bound: mounts in a behaviour
  Nothing           \* no request

ASSUME ObjStoreAssumption ==
  /\ Buckets \in Nat /\ InodeBits \in Nat \ {0} /\ BlockBits \in Nat
  /\ PointersPerBlock \in Nat \ {0} /\ ObjectsPerBlock \in Nat \ {0}
  /\ LongBytes \in Nat \ {0} /\ BlockBytes \in Nat \ {0} /\ BlockBytes % LongBytes = 0
  /\ Base \in Nat \ {0} /\ Base \div 2 <= Buckets
  /\ Hash \in [Key -> 1 .. Buckets - 1] /\ SlashHash \in [Key -> 1 .. Buckets - 1]
  /\ Page \subseteq 0 .. PointersPerBlock - 1
  /\ Value \subseteq 1 .. Base - 1
  /\ Length \in [Value -> 1 .. BlockBytes]
  /\ Writes \subseteq Key \X Page \X Value
  /\ Reads \subseteq (0 .. PointersPerBlock - 1) \X (Nat \ {0})
  /\ IdBlocks \in Nat \ {0} /\ TableStart \in Nat /\ DataStart \in Nat
  /\ IdBlocks <= TableStart /\ TableStart < DataStart /\ DataStart <= BlockBits
  /\ RawBlock \subseteq 0 .. BlockBits - 1
  /\ IsFiniteSet(CacheNode)
  /\ \A n \in CacheSizes : n \in Nat /\ n >= 2 /\ Cardinality(CacheNode) >= n

\* Identifiers 0 and 1 are reserved; a file name is not empty; no request is not one.
ASSUME RequestAssumption ==
  /\ InodeBits >= 2 /\ "" \notin Key
  /\ Nothing \notin
       [op : {"open", "getattr", "create", "unlink", "rename", "read", "write"}, key : Key,
        page : Nat, value : Nat, bytes : Seq(Nat),
        result : {"ok", "ENOENT", "EEXIST", "EINVAL"}]

VARIABLES
  status,      \* of the objfs process: "mounted", "unmounted", "dead" (it was
               \* killed, or wrote beyond a buffer), "dangling" (the hash table
               \* holds freed memory), "overflowed" (block contents may be confused)
  hashTable,   \* the object identifiers in each bucket, in order
  inodemap, blockmap,
  inode_bit_itr, block_bit_itr,
  saved,       \* the two bitmaps as they are on the disk
  cache,       \* the block cache and the rest of the disk
  mounts,      \* how often the store was mounted
  request,     \* the last request and its reply
  seen         \* history: what open, getattr and a read of the first page give for
               \* each key after the last request

vars == <<status, hashTable, inodemap, blockmap, inode_bit_itr, block_bit_itr,
          saved, cache, mounts, request, seen>>
inodeVars == <<inodemap, inode_bit_itr>>
nameVars == <<hashTable, inodemap, inode_bit_itr>>
blockVars == <<blockmap, block_bit_itr>>
mountVars == <<saved, mounts>>

-----------------------------------------------------------------------------
(* What blocks contain. A block that was never written is zero.            *)

Zero == [tag |-> "zero"]
PageOf(v) == [tag |-> "page", byte |-> v]
Objects(f) == [tag |-> "objects", object |-> f]
Pointers(f) == [tag |-> "pointers", ptr |-> f]
IdTable(f) == [tag |-> "ids", byte |-> f]
Junk == [tag |-> "junk"]

ObjectsIn(x) == IF x.tag = "objects" THEN x.object ELSE << >>
PointersIn(x) ==
  IF x.tag = "pointers" THEN x.ptr ELSE [p \in 0 .. PointersPerBlock - 1 |-> 0]
ByteIn(x, i) ==
  CASE x.tag = "page" -> x.byte
    [] x.tag = "ids"  -> x.byte[i]
    [] OTHER          -> 0

-----------------------------------------------------------------------------
(* Object records.                                                         *)

NoObject == [key |-> "", blocknum |-> 0, level1 |-> 0, size |-> 0]

\* For the reserved identifiers (i - 2) wraps around to the block before the table.
TableBlock(i) ==
  IF i < 2 THEN TableStart - 1 ELSE TableStart + (i - 2) \div ObjectsPerBlock

\* objstore_init takes the identifier table for bytes: a quarter of each block, every
\* byte a bucket.
TableBytes == BlockBytes \div 4

\* The identifiers of objects, and those a mount reads. Their records are in the
\* table, which ends where the data starts.
Identifier == 0 .. InodeBits - 1 \cup 0 .. IdBlocks * TableBytes - 1
ASSUME TableAssumption == \A i \in Identifier : TableBlock(i) < DataStart

\* NoObject is the NULL result: the record there has another identifier.
get_object_by_id(c, i) ==
  LET objects == ObjectsIn(Contents(c, TableBlock(i)))
  IN  IF i \in DOMAIN objects THEN objects[i] ELSE NoObject

IsObject(c, i) == get_object_by_id(c, i) # NoObject

ReadRecord(c, i) == read_block_modified(c, TableBlock(i))

insert_to_disk(c, i, obj) ==
  LET objects == ObjectsIn(Contents(c, TableBlock(i)))
      new == [j \in {i} \cup DOMAIN objects |-> IF j = i THEN obj ELSE objects[j]]
  IN  write_block_modified(ReadRecord(c, i), TableBlock(i), Objects(new))

-----------------------------------------------------------------------------
(* Lookups in the hash table.                                              *)

\* Where the walk of a bucket ends: at the key, or at an identifier without a
\* record; 0 if it goes through. Identifier 0 is skipped.
WalkEnd(c, chain, k) ==
  SelectInSeq(chain,
    LAMBDA i : /\ i # 0
               /\ LET obj == get_object_by_id(c, i)
                  IN  obj = NoObject \/ obj.key = k)

\* The identifier the walk finds, 0 if none.
WalkFinds(c, chain, k) ==
  LET e == WalkEnd(c, chain, k)
  IN  IF e # 0 /\ IsObject(c, chain[e]) THEN chain[e] ELSE 0

\* The cache after a sequence of blocks was read.
ReadBlocks(c, blocks) ==
  LET read[j \in 0 .. Len(blocks)] ==
        IF j = 0 THEN c ELSE read_block_modified(read[j - 1], blocks[j])
  IN  read[Len(blocks)]

\* The cache after the records on the way were read.
WalkReads(h, k) ==
  LET e == WalkEnd(cache, hashTable[h], k)
      n == IF e = 0 THEN Len(hashTable[h]) ELSE e
  IN  ReadBlocks(cache, [j \in 1 .. n |-> TableBlock(hashTable[h][j])])

find_object_id(k) == WalkFinds(cache, hashTable[Hash[k]], k)

insert_to_hash_table(table, i, h) ==
  IF Len(table[h]) <= 1 THEN [table EXCEPT ![h] = <<i>>]
  ELSE [table EXCEPT ![h] = Append(@, i)]

-----------------------------------------------------------------------------
(* The end of a request.                                                   *)

Reply(op, k, p, v, result) ==
  request' = [op |-> op, key |-> k, page |-> p, value |-> v, bytes |-> << >>,
              result |-> result]

\* The reply to a read: the byte that fills each page.
ReplyPages(k, p, bytes, result) ==
  request' = [op |-> "read", key |-> k, page |-> p, value |-> 0, bytes |-> bytes,
              result |-> result]

Unseen == [state |-> "absent", page |-> Nothing, size |-> 0]

\* What open, getattr and a read of the first page give for a key whose bucket holds
\* chain. A truncated object has no block for its first page.
SeenIn(c, chain, k) ==
  LET i == WalkFinds(c, chain, k)
      obj == get_object_by_id(c, i)
      first == PointersIn(Contents(c, obj.level1))[0]
  IN  CASE i = 0 -> Unseen
        [] i # 0 /\ obj.blocknum = 0 ->
             [state |-> "empty", page |-> Nothing, size |-> 0]
        [] i # 0 /\ obj.blocknum # 0 /\ first = 0 ->
             [state |-> "truncated", page |-> Nothing, size |-> 0]
        [] OTHER ->
             [state |-> "written", page |-> ByteIn(Contents(c, first), 0),
              size |-> obj.size]

\* The store after a request, with its cache c and its hash table. Once the cache
\* does not fit, contents are not followed.
Finish(c, table) ==
  /\ hashTable' = table
  /\ seen' = [k \in Key |-> SeenIn(c, table[Hash[k]], k)]
  /\ cache' = IF Fits(c) THEN c
              ELSE [c EXCEPT !.memory = [s \in DOMAIN c.memory |-> Junk],
                             !.disk = [b \in DOMAIN c.disk |-> Junk]]
  /\ status' = CASE c.fault -> "dead"
                 [] ~c.fault /\ ~Fits(c) -> "overflowed"
                 [] OTHER -> "mounted"

Dies ==
  /\ status' = "dead"
  /\ UNCHANGED <<nameVars, blockVars, mountVars, cache, seen>>

-----------------------------------------------------------------------------
(* Requests about keys.                                                    *)

objfs_open(k) ==
  /\ status = "mounted"
  /\ Reply("open", k, 0, 0, IF find_object_id(k) = 0 THEN "ENOENT" ELSE "ok")
  /\ Finish(WalkReads(Hash[k], k), hashTable)
  /\ UNCHANGED <<inodeVars, blockVars, mountVars>>

\* find_object_id, then fillup_size_details reads the record again.
objfs_getattr(k) ==
  LET i == find_object_id(k)
      c == WalkReads(Hash[k], k)
  IN
  /\ status = "mounted"
  /\ Reply("getattr", k, 0, get_object_by_id(cache, i).size,
           IF i = 0 THEN "ENOENT" ELSE "ok")
  /\ Finish(IF i = 0 THEN c ELSE ReadRecord(c, i), hashTable)
  /\ UNCHANGED <<inodeVars, blockVars, mountVars>>

\* Mutant: only the key's own record ends the walk, duplicates are created.
Refused(k) == FALSE
\* The walk ended: a duplicate, or a record that could not be read.
IsRefused(k) == WalkEnd(cache, hashTable[Hash[k]], k) # 0

\* The new identifier is linked, and then inserted once more: into an empty
\* chain as a second node that replaces the first.
Linked(table, i, h) ==
  IF table[h] = << >> THEN [table EXCEPT ![h] = <<i>>]
  ELSE [table EXCEPT ![h] = @ \o <<i, i>>]

objfs_create(k) ==
  LET i == Fetch(inodemap, InodeBits, inode_bit_itr)
      c == WalkReads(Hash[k], k)
      new == [key |-> k, blocknum |-> 0, level1 |-> 0, size |-> 0]
  IN
  /\ status = "mounted"
  /\ \/ /\ IsRefused(k) \/ i = 0
        /\ Reply("create", k, 0, 0, "EEXIST")
        /\ Finish(c, hashTable)
        /\ UNCHANGED inodeVars
     \/ /\ ~IsRefused(k) /\ i # 0
        /\ Reply("create", k, 0, 0, "ok")
        /\ inodemap' = Taken(inodemap, i)
        /\ inode_bit_itr' = Hint(inode_bit_itr, i)
        /\ Finish(insert_to_disk(c, i, new), Linked(hashTable, i, Hash[k]))
  /\ UNCHANGED <<blockVars, mountVars>>

\* destroy_object. An object with blocks kills the process: free_object_blocks
\* gets its arguments in the wrong order and follows a block number as a pointer.
\* An empty one leaves its freed node in the chain.
objfs_unlink(k) ==
  LET i == find_object_id(k) IN
  /\ status = "mounted"
  /\ Reply("unlink", k, 0, 0, "ok")
  /\ \/ /\ i = 0
        /\ Finish(WalkReads(Hash[k], k), hashTable)
        /\ UNCHANGED <<inodeVars, blockVars, mountVars>>
     \/ /\ i # 0 /\ get_object_by_id(cache, i).blocknum > 0
        /\ Dies
     \/ /\ i # 0 /\ get_object_by_id(cache, i).blocknum = 0
        /\ inodemap' = inodemap \ {i}
        /\ status' = "dangling"
        /\ cache' = WalkReads(Hash[k], k)
        /\ UNCHANGED <<hashTable, inode_bit_itr, blockVars, mountVars, seen>>

\* objfs_rename_key passes the paths, and no key starts with "/": rename_object
\* walks a bucket and finds nothing. A head without a record is a NULL pointer.
objfs_rename_key(k) ==
  LET h == SlashHash[k]
      head == Head(hashTable[h])
      broken == hashTable[h] # << >> /\ head # 0 /\ ~IsObject(cache, head)
  IN
  /\ status = "mounted"
  /\ Reply("rename", k, 0, 0, "EINVAL")
  /\ \/ broken /\ Dies
     \/ /\ ~broken
        /\ Finish(WalkReads(h, "/"), hashTable)
        /\ UNCHANGED <<inodeVars, blockVars, mountVars>>

-----------------------------------------------------------------------------
(* Requests about contents, with the handle of an open file.               *)

\* The size after a write of n bytes beyond the pages counted so far.
SizeAfter(obj, p, n) ==
  IF p < obj.blocknum + 1 THEN n
  ELSE IF p = obj.blocknum + 1 THEN n + (obj.size \div BlockBytes) * BlockBytes
  ELSE obj.size + n

\* find_write_cached for a page that is counted already: the block the pointer
\* block names for it, which is block 0 for every other page (blocknum is
\* incremented twice for each block). The record is not written.
Overwrite(i, k, p, v) ==
  LET obj == get_object_by_id(cache, i)
      c1 == ReadRecord(cache, i)
      c2 == read_block_modified(c1, obj.level1)
      b == PointersIn(Contents(c1, obj.level1))[p]
  IN
  /\ p < obj.blocknum
  /\ Reply("write", k, p, v, "ok")
  /\ Finish(write_block_modified(c2, b, PageOf(v)), hashTable)
  /\ UNCHANGED blockVars

\* Mutant: the pointer block is not allocated apart.
TwoBlocks(obj) == LET b == Fetch(blockmap, BlockBits, block_bit_itr) IN <<b, b>>

\* The pointer block of the object, taken at its first write, and a data block;
\* 0 is "none left".
NewBlocks(obj) ==
  LET first == IF obj.blocknum = 0 THEN Fetch(blockmap, BlockBits, block_bit_itr)
               ELSE obj.level1
      map == IF obj.blocknum = 0 THEN Taken(blockmap, first) ELSE blockmap
      hint == IF obj.blocknum = 0 THEN Hint(block_bit_itr, first) ELSE block_bit_itr
  IN  <<first, Fetch(map, BlockBits, hint)>>

\* Mutant: the pointer always goes to the first index.
FirstIndex(obj) == 0
\* Where the pointer to a new block goes, whatever the page.
NewIndex(obj) == obj.blocknum % PointersPerBlock

\* find_write_cached for a new page.
Extend(i, k, p, v) ==
  LET obj == get_object_by_id(cache, i)
      c1 == ReadRecord(cache, i)
      level1 == NewBlocks(obj)[1]
      b == NewBlocks(obj)[2]
      c2 == read_block_modified(c1, level1)
      ptr == [PointersIn(Contents(c1, level1))
                EXCEPT ![NewIndex(obj)] = b]
      c3 == write_block_modified(c2, level1, Pointers(ptr))
      c4 == write_block_modified(c3, b, PageOf(v))
      obj2 == [obj EXCEPT !.level1 = level1, !.blocknum = @ + 2,
                          !.size = SizeAfter(obj, p, Length[v])]
  IN
  /\ p >= obj.blocknum
  /\ \/ /\ level1 = 0
        /\ Reply("write", k, p, v, "EINVAL")
        /\ Finish(c1, hashTable)
        /\ UNCHANGED blockVars
     \/ /\ level1 # 0
        /\ Reply("write", k, p, v, "ok")
        /\ blockmap' = Taken(Taken(blockmap, level1), b)
        /\ block_bit_itr' = Hint(Hint(block_bit_itr, IF obj.blocknum = 0 THEN level1 ELSE 0), b)
        /\ Finish(insert_to_disk(c4, i, obj2), hashTable)

\* The client opened k just before: its handle is the object open finds. The size
\* objstore_write assigns afterwards is that of a copy of the record.
objfs_write(k, p, v) ==
  LET i == find_object_id(k) IN
  /\ status = "mounted" /\ i # 0
  /\ Overwrite(i, k, p, v) \/ Extend(i, k, p, v)
  /\ UNCHANGED <<inodeVars, mountVars>>

\* objstore_read: a read of n pages from page p, which the kernel asks for unless the
\* size is 0. Each of n turns looks up page p again, in the record as it was read once,
\* and copies to the place of its page in the file, not in the buffer: from p = 1 on
\* this is beyond its end. The kernel asks for whole pages: the number of bytes left
\* ends at 0.
objfs_read(k, p, n) ==
  \E i \in {find_object_id(k)} :
    LET obj == get_object_by_id(cache, i)
        c == ReadRecord(cache, i)
        b == PointersIn(Contents(c, obj.level1))[p]
        blocks == [j \in 1 .. 2 * n |-> IF j % 2 = 1 THEN obj.level1 ELSE b]
    IN
    /\ status = "mounted" /\ i # 0
    /\ obj.size > 0
    /\ \/ /\ obj.blocknum < p
          /\ ReplyPages(k, p, << >>, "EINVAL")
          /\ Finish(c, hashTable)
          /\ UNCHANGED <<inodeVars, blockVars, mountVars>>
       \/ /\ obj.blocknum >= p /\ p > 0
          /\ ReplyPages(k, p, << >>, "ok")
          /\ Dies
       \/ /\ p = 0
          /\ ReplyPages(k, p, [j \in 1 .. n |-> ByteIn(Contents(c, b), 0)], "ok")
          /\ Finish(ReadBlocks(c, blocks), hashTable)
          /\ UNCHANGED <<inodeVars, blockVars, mountVars>>

-----------------------------------------------------------------------------
(* Unmount, mount, and a cache that is too small.                          *)

\* What objstore_destroy writes for identifier i: the last bucket it is in.
BucketOf(i) ==
  LET in == {h \in 0 .. Buckets - 1 : \E j \in DOMAIN hashTable[h] : hashTable[h][j] = i}
  IN  IF in = {} THEN 0 ELSE Max(in)

Power[n \in 0 .. LongBytes] == IF n = 0 THEN 1 ELSE Base * Power[n - 1]

\* The identifier table on the disk: one unsigned long for each identifier.
IdBlock(n) ==
  LET ids == BlockBytes \div LongBytes
      bucket == [i \in n * ids .. (n + 1) * ids - 1 |-> BucketOf(i)]
  IN  [x \in 0 .. BlockBytes - 1 |->
         (bucket[n * ids + x \div LongBytes] \div Power[x % LongBytes]) % Base]

\* The disk after an unmount: the table, then the dirty blocks, which may include
\* block 0.
DiskAtUnmount ==
  LET c == [cache EXCEPT !.disk = [b \in DOMAIN cache.disk |->
              IF b < IdBlocks THEN IdTable(IdBlock(b)) ELSE cache.disk[b]]]
  IN  Synced(c)

\* Mutant: the bitmaps are not written.
objfs_destroy_no_maps ==
  /\ status = "mounted"
  /\ cache' = EmptyCache(cache.buckets, DiskAtUnmount)
  /\ status' = "unmounted"
  /\ UNCHANGED <<nameVars, blockVars, mountVars, seen>>

\* The process may also be killed at once: its table of 8 MB is on the stack.
objfs_destroy ==
  /\ status = "mounted"
  /\ \/ Dies
     \/ /\ cache' = EmptyCache(cache.buckets, DiskAtUnmount)
        /\ saved' = [inodemap |-> inodemap, blockmap |-> blockmap]
        /\ status' = "unmounted"
        /\ UNCHANGED <<nameVars, blockVars, mounts, seen>>

ByteRead(x) == ByteIn(cache.disk[x \div TableBytes], x % TableBytes)

\* A byte in the upper half is a negative char, an index far outside the table.
TableReadable ==
  \A x \in 0 .. IdBlocks * TableBytes - 1 : ByteRead(x) < Base \div 2

\* The hash table after the bytes of the first n identifiers.
TableRead ==
  LET table[n \in 0 .. IdBlocks * TableBytes] ==
        CASE n = 0 -> [h \in 0 .. Buckets - 1 |-> << >>]
          [] n > 0 /\ ByteRead(n - 1) = 0 -> table[n - 1]
          [] OTHER -> insert_to_hash_table(table[n - 1], n - 1, ByteRead(n - 1))
  IN  table[IdBlocks * TableBytes]

\* A new process, with an empty cache, its searches starting over.
objfs_init ==
  /\ status = "unmounted" /\ mounts < MaxMounts
  /\ mounts' = mounts + 1
  /\ \/ /\ TableReadable
        /\ status' = "mounted"
        /\ hashTable' = TableRead
        /\ inodemap' = saved.inodemap
        /\ blockmap' = saved.blockmap \cup 0 .. DataStart - 1
        /\ inode_bit_itr' = 0 /\ block_bit_itr' = 0
        /\ UNCHANGED <<saved, cache, seen>>
     \/ /\ ~TableReadable
        /\ status' = "dead"
        /\ UNCHANGED <<nameVars, blockVars, saved, cache, seen>>
  /\ request' = Nothing

\* Once block contents may be confused, objects may make the store access any
\* block: only the structure of the cache is followed.
AccessAnyBlock ==
  /\ status = "overflowed"
  /\ \E b \in RawBlock :
       \/ cache' = read_block_modified(cache, b)
       \/ cache' = write_block_modified(cache, b, Junk)
  /\ status' = IF cache'.fault THEN "dead" ELSE status
  /\ request' = Nothing
  /\ UNCHANGED <<nameVars, blockVars, mountVars, seen>>

\* A block access that hits searches the chain through the node it has freed. The
\* node reads as before or, if the allocator wrote into it, the process is killed.
FreedNodeRead ==
  /\ status \in {"mounted", "overflowed"}
  /\ {b \in 0 .. BlockBits - 1 : check_disk_block_in_cache(cache, b)} # {}
  /\ Dies
  /\ request' = Nothing

-----------------------------------------------------------------------------

\* A new disk is all zero.
Init ==
  /\ status = "unmounted"
  /\ hashTable = [h \in 0 .. Buckets - 1 |-> << >>]
  /\ inodemap = {} /\ blockmap = {}
  /\ inode_bit_itr = 0 /\ block_bit_itr = 0
  /\ saved = [inodemap |-> {}, blockmap |-> {}]
  /\ \E n \in CacheSizes : cache = EmptyCache(n, [b \in 0 .. BlockBits - 1 |-> Zero])
  /\ mounts = 0
  /\ request = Nothing
  /\ seen = [k \in Key |-> Unseen]

Request(k) ==
  \/ objfs_open(k) \/ objfs_getattr(k) \/ objfs_create(k) \/ objfs_unlink(k)
  \/ objfs_rename_key(k)
  \/ \E r \in Reads : objfs_read(k, r[1], r[2])

Next ==
  \/ \E k \in Key : Request(k)
  \/ \E w \in Writes : objfs_write(w[1], w[2], w[3])
  \/ objfs_destroy /\ request' = Nothing
  \/ objfs_init
  \/ AccessAnyBlock
  \/ FreedNodeRead

Spec == Init /\ [][Next]_vars

-----------------------------------------------------------------------------
(* Properties.                                                             *)

Bucket == 0 .. Buckets - 1
Record(i) == get_object_by_id(cache, i)
Record_ids == {i \in 2 .. InodeBits - 1 : IsObject(cache, i)}

TypeOK ==
  /\ status \in {"mounted", "unmounted", "dead", "dangling", "overflowed"}
  /\ \A h \in Bucket : \A i \in DOMAIN hashTable[h] : hashTable[h][i] \in Nat
  /\ inodemap \subseteq 2 .. InodeBits - 1 /\ blockmap \subseteq 0 .. BlockBits - 1
  /\ CacheTypeOK(cache)

\* The structure of the cache, whatever is evicted, lost from a chain or shared.
ChainsLive == status # "dead" => ChainsSound(cache)
ListComplete == status # "dead" => ListSound(cache)
SlotsOwned == status # "dead" => SlotsSound(cache)

\* A record's identifier is taken, before and after a remount: creating an object
\* never overwrites the record of another.
IdsTaken == status \in {"mounted", "unmounted"} => Record_ids \subseteq inodemap

\* The blocks of object i, block 0 aside.
PointersOf(i) ==
  IF Record(i).blocknum = 0 THEN {}
  ELSE Range(PointersIn(Contents(cache, Record(i).level1))) \ {0}
BlocksOf(i) == IF Record(i).blocknum = 0 THEN {} ELSE {Record(i).level1} \cup PointersOf(i)

\* Blocks belong to one object, are marked as taken, and hold what their owner
\* takes them for; this too survives a remount.
BlocksOwned ==
  status = "mounted" =>
    \A i \in Record_ids :
      /\ BlocksOf(i) \subseteq blockmap \ (0 .. DataStart - 1)
      /\ \A j \in Record_ids \ {i} : BlocksOf(i) \cap BlocksOf(j) = {}
      /\ Record(i).blocknum > 0 =>
           /\ Contents(cache, Record(i).level1).tag \in {"zero", "pointers"}
           /\ Record(i).level1 \notin PointersOf(i)
      /\ \A b \in PointersOf(i) : Contents(cache, b).tag \in {"zero", "page"}

\* The first mount serves, or is still to come: nothing has happened that the code
\* does not survive.
Serving == status = "mounted" /\ mounts = 1
Intact == mounts = 0 \/ Serving

\* No key has two objects.
KeysUnique ==
  Intact => \A i, j \in Record_ids : Record(i).key = Record(j).key => i = j

\* What a request may do to what clients see: nothing to other objects; a create
\* makes an empty object; of an object with a first page, a write changes that page
\* only if it is a write to it, and then to what was written.
Locally(k) ==
  LET old == seen[k]
      new == seen'[k]
  IN
  /\ \A l \in Key \ {k} : seen'[l] = seen[l]
  /\ CASE request'.op = "create" -> new = old \/ (old = Unseen /\ new.state = "empty")
       [] request'.op = "write" ->
            old.state = "written" =>
              /\ new.state = "written"
              /\ new.page = IF request'.page = 0 THEN request'.value ELSE old.page
       [] OTHER -> new = old

\* No request disturbs another object, or a page it does not name.
RequestsLocal ==
  [][Serving /\ Serving' /\ request' # Nothing => Locally(request'.key)]_vars

=============================================================================
