------------------------------ MODULE MCObjStore ------------------------------
(* A small object store: keys that share a bucket, a table whose bytes can be   *)
(* read back, a cache that fits and one that does not.                         *)
EXTENDS ObjectClients

CONSTANTS k1, k2, k3

HashDef == k1 :> 1 @@ k2 :> 1 @@ k3 :> 2
SlashHashDef == k1 :> 1 @@ k2 :> 1 @@ k3 :> 2

\* The first page takes two values of one length, so that a stale one shows, and the
\* last page one of them. k3 stays empty.
WritesDef == {<<k, w[1], w[2]>> : k \in {k1, k2}, w \in {<<0, 1>>, <<0, 3>>, <<5, 1>>}}
LengthDef == 1 :> 8 @@ 3 :> 8

\* The first page, the first two, and the last.
ReadsDef == {<<0, 1>>, <<0, 2>>, <<5, 1>>}

\* What breaks a promise takes few requests: a short write of the first page, and
\* writes of whole pages, one of them adjacent.
PageWrites == {<<k1, 0, 1>>, <<k1, 0, 3>>, <<k1, 1, 3>>}
PageLengths == 1 :> 8 @@ 3 :> 32
PageReads == {<<0, 1>>, <<0, 2>>}

Interchangeable == Permutations({k1, k2})

Cached(c, i) ==
  LET n == c.node[c.lru[i]]
  IN  <<n.disk_addr, n.dirty, c.memory[n.cache_addr]>>

\* Two states that differ in the names of cache nodes, in freed nodes, in what
\* clients saw or in the last request have the same futures. So have, in a cache
\* that has room for every block, two that differ in the order of the list or in
\* the slots the blocks are in: nothing is ever evicted.
CacheView(c) ==
  IF c.buckets - 2 >= BlockBits
  THEN <<c.buckets, {Cached(c, i) : i \in DOMAIN c.lru}, c.disk, c.fault>>
  ELSE <<c.buckets, [i \in DOMAIN c.lru |-> <<Cached(c, i), c.node[c.lru[i]].cache_addr>>],
         [h \in DOMAIN c.chain |->
            [i \in DOMAIN c.chain[h] |-> SelectInSeq(c.lru, LAMBDA n : n = c.chain[h][i])]],
         c.cachemap, c.cache_bit_itr, c.disk, c.fault>>

\* A dead process has no future; once the cache has overflowed, only the cache has.
StoreView ==
  CASE status = "dead" -> <<status>>
    [] status = "overflowed" -> <<status, CacheView(cache)>>
    [] OTHER -> <<status, hashTable, inodemap, blockmap, inode_bit_itr, block_bit_itr,
                  saved, CacheView(cache), mounts, confined>>

\* With what the clients know and the last reply.
ClientView == <<StoreView, written, request>>

=============================================================================
