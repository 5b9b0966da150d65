----------------------------- MODULE BlockCache -----------------------------
(***************************************************************************)
(* The block cache of the object store (Assn4/objstore.c, CACHE build): an *)
(* LRU list and hash chains over the same nodes, slots of the cache memory *)
(* handed out by a bitmap, write-back at eviction and at unmount.          *)
(*                                                                         *)
(* A cache is a record, with the disk behind it, so that an operation of   *)
(* the object store can compose many block accesses:                       *)
(*   buckets  hash buckets, as many as slots (CACHE_HTSIZE = 8 BLOCK_SIZE) *)
(*   lru      the nodes from cache_left to cache_right, latest first       *)
(*   chain    the nodes of each bucket of cacheHashTable                   *)
(*   node     disk_addr, cache_addr and dirty of each node; freed memory   *)
(*            reads as before, and is reused                               *)
(*   live     the nodes allocated and not freed                            *)
(*   cachemap, cache_bit_itr  slots taken, and where the next search starts*)
(*   memory   the contents of the slots                                    *)
(*   disk     the contents of the blocks                                   *)
(*   fault    a NULL pointer was followed                                  *)
(***************************************************************************)
EXTENDS Bitmap, SequencesExt

CONSTANTS
  CacheNode   \* what calloc can return

cache_hash(c, b) == b % c.buckets

Slot(c) == 0 .. c.buckets - 1

\* What the objfs process starts with, on a disk.
EmptyCache(buckets, disk) ==
  [buckets |-> buckets,
   lru |-> <<>>,
   chain |-> [h \in 0 .. buckets - 1 |-> <<>>],
   node |-> [n \in CacheNode |-> [disk_addr |-> 0, cache_addr |-> 0, dirty |-> FALSE]],
   live |-> {},
   cachemap |-> {}, cache_bit_itr |-> 0,
   memory |-> [s \in 0 .. buckets - 1 |-> [tag |-> "zero"]],
   disk |-> disk,
   fault |-> FALSE]

\* calloc, and the node it returns for block b in slot s.
NewNode(c) == CHOOSE n \in CacheNode \ c.live : TRUE

Allocate(c, n, b, s, dirty) ==
  [c EXCEPT !.node[n] = [disk_addr |-> b, cache_addr |-> s, dirty |-> dirty],
            !.live = @ \cup {n}]

-----------------------------------------------------------------------------
(* The hash chains.                                                        *)

\* The place of block b in its chain, 0 if it is not there.
Place(c, b) ==
  SelectInSeq(c.chain[cache_hash(c, b)], LAMBDA n : c.node[n].disk_addr = b)

check_disk_block_in_cache(c, b) == Place(c, b) # 0

CachedNode(c, b) == c.chain[cache_hash(c, b)][Place(c, b)]

AddToChain(c, n) ==
  [c EXCEPT !.chain[cache_hash(c, c.node[n].disk_addr)] = Append(@, n)]

\* Mutant: the block stays in its chain.
remove_nothing_from_chain(c, b) == c

\* The whole chain goes when the block is at its head; a block that is not in a
\* chain with others is the NULL pointer.
remove_block_from_cache_hash_table(c, b) ==
  LET h == cache_hash(c, b)
      i == Place(c, b)
  IN  IF i > 1 THEN [c EXCEPT !.chain[h] = RemoveAt(@, i)]
      ELSE IF i = 1 THEN [c EXCEPT !.chain[h] = <<>>]
      ELSE [c EXCEPT !.fault = @ \/ c.chain[h] # <<>>]

-----------------------------------------------------------------------------
(* The LRU list.                                                           *)

add_at_top_of_cache(c, n) == [c EXCEPT !.lru = <<n>> \o @]

\* remove_object_from_cache_dont_write_back: unlink and free.
Unlink(c, n) ==
  [c EXCEPT !.lru = RemoveAt(@, CHOOSE i \in DOMAIN @ : @[i] = n), !.live = @ \ {n}]

WriteBack(c, n) ==
  IF c.node[n].dirty
  THEN [c EXCEPT !.disk[c.node[n].disk_addr] = c.memory[c.node[n].cache_addr]]
  ELSE c

\* A hit: a new node, clean, takes the place of the old one in both structures.
\* The chain is searched after the old node was freed, and reads it.
retrieve_block_from_cache(c, b) ==
  LET old == CachedNode(c, b)
      new == NewNode(c)
      c1 == Allocate(c, new, b, c.node[old].cache_addr, FALSE)
      c2 == add_at_top_of_cache(Unlink(c1, old), new)
  IN  AddToChain(remove_block_from_cache_hash_table(c2, b), new)

EvictKeepsSlot(c) ==  \* mutant: free_cache_id is forgotten
  LET n == Last(c.lru)
      c1 == remove_block_from_cache_hash_table(c, c.node[n].disk_addr)
  IN  Unlink(WriteBack(c1, n), n)

\* cache_right leaves the chain, its slot and the list, in this order.
Evict(c) ==
  LET n == Last(c.lru)
      c1 == remove_block_from_cache_hash_table(c, c.node[n].disk_addr)
      c2 == [c1 EXCEPT !.cachemap = @ \ {c.node[n].cache_addr}]
  IN  Unlink(WriteBack(c2, n), n)

EvictLate(c) == Len(c.lru) >= c.buckets  \* mutant: one block later
MustEvict(c) == Len(c.lru) >= c.buckets - 1

\* A new node for block b in slot s: make room, then add it.
insert_block_to_cache(c, b, s, dirty) ==
  LET new == NewNode(c)
      c1 == Allocate(c, new, b, s, dirty)
      c2 == IF MustEvict(c1) THEN Evict(c1) ELSE c1
  IN  AddToChain(add_at_top_of_cache(c2, new), new)

-----------------------------------------------------------------------------
(* Block accesses.                                                         *)

\* The cache slot for a miss. It is asked for before eviction frees one, and 0,
\* "none left", is used like any other.
get_block_for_cache(c) == Fetch(c.cachemap, c.buckets, c.cache_bit_itr)

\* A miss: block b with contents x goes into a new slot.
Fill(c, b, x, dirty) ==
  LET s == get_block_for_cache(c)
      c1 == [c EXCEPT !.cachemap = Taken(@, s), !.cache_bit_itr = Hint(@, s),
                      !.memory[s] = x]
  IN  insert_block_to_cache(c1, b, s, dirty)

\* What a read of block b returns.
Contents(c, b) ==
  LET i == Place(c, b)
  IN  IF i = 0 THEN c.disk[b] ELSE c.memory[c.node[c.chain[cache_hash(c, b)][i]].cache_addr]

read_block_modified(c, b) ==
  IF check_disk_block_in_cache(c, b) THEN retrieve_block_from_cache(c, b)
  ELSE Fill(c, b, c.disk[b], FALSE)

\* Mutant: a hit is only marked dirty.
write_without_copy(c, b, x) ==
  IF ~check_disk_block_in_cache(c, b) THEN Fill(c, b, x, TRUE)
  ELSE LET c1 == retrieve_block_from_cache(c, b)
       IN  [c1 EXCEPT !.node[CachedNode(c1, b)].dirty = TRUE]

write_block_modified(c, b, x) ==
  IF ~check_disk_block_in_cache(c, b) THEN Fill(c, b, x, TRUE)
  ELSE LET c1 == retrieve_block_from_cache(c, b)
           n == CachedNode(c1, b)
       IN  [c1 EXCEPT !.memory[c1.node[n].cache_addr] = x,
                      !.node[n].dirty = TRUE]

\* obj_sync: the disk after the dirty blocks of the chains are written.
Synced(c) ==
  LET dirty == {n \in c.live :
                  /\ c.node[n].dirty
                  /\ \E h \in DOMAIN c.chain : \E i \in DOMAIN c.chain[h] : c.chain[h][i] = n}
  IN  [b \in DOMAIN c.disk |->
         IF \E n \in dirty : c.node[n].disk_addr = b
         THEN c.memory[c.node[CHOOSE n \in dirty : c.node[n].disk_addr = b].cache_addr]
         ELSE c.disk[b]]

-----------------------------------------------------------------------------
\* The blocks in use have slots and buckets of their own: from then on
\* insertions and evictions may confuse the contents of blocks.
Fits(c) ==
  /\ Len(c.lru) <= c.buckets - 2
  /\ \A i, j \in DOMAIN c.lru :
       cache_hash(c, c.node[c.lru[i]].disk_addr) = cache_hash(c, c.node[c.lru[j]].disk_addr)
         => i = j

CacheTypeOK(c) ==
  /\ c.lru \in Seq(CacheNode)
  /\ c.chain \in [0 .. c.buckets - 1 -> Seq(CacheNode)]
  /\ c.live \subseteq CacheNode
  /\ c.cachemap \subseteq Slot(c) \ {0, 1}
  /\ \A n \in CacheNode : c.node[n].cache_addr \in Slot(c)

\* The hash table never holds a freed node: what is in a chain is on the LRU
\* list, in the bucket of its block, and no block is in a chain twice. The list
\* and the chains are updated in several steps that walk over each other.
ChainsSound(c) ==
  \A h \in DOMAIN c.chain : \A i \in DOMAIN c.chain[h] :
    LET n == c.chain[h][i] IN
      /\ \E j \in DOMAIN c.lru : c.lru[j] = n
      /\ cache_hash(c, c.node[n].disk_addr) = h
      /\ \A j \in DOMAIN c.chain[h] :
           c.node[c.chain[h][j]].disk_addr = c.node[n].disk_addr => i = j

\* Every node is on the list once, and the list never outgrows its limit.
ListSound(c) ==
  /\ c.live = {c.lru[i] : i \in DOMAIN c.lru}
  /\ \A i, j \in DOMAIN c.lru : c.lru[i] = c.lru[j] => i = j
  /\ Len(c.lru) <= c.buckets - 1

\* A slot is taken exactly while a node uses it, and by one node only. Slot 0,
\* what the search returns when there is none, is the exception.
SlotsSound(c) ==
  /\ c.cachemap = {c.node[c.lru[i]].cache_addr : i \in DOMAIN c.lru} \ {0}
  /\ \A i, j \in DOMAIN c.lru :
       c.node[c.lru[i]].cache_addr = c.node[c.lru[j]].cache_addr
         => i = j \/ c.node[c.lru[i]].cache_addr = 0

=============================================================================
