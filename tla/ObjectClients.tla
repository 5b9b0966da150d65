---------------------------- MODULE ObjectClients ----------------------------
(***************************************************************************)
(* The object store and what its clients know of it: what they wrote last, *)
(* and whether they have kept to the requests that the code serves as      *)
(* promised. Both are histories: they restrict no step of the store.       *)
(***************************************************************************)
EXTENDS ObjStore

VARIABLES
  written,   \* written[k]: the byte last written to each page of k, 0 if none,
             \* and where in the object the last write ended
  confined   \* no request yet that the code does not serve as promised

cvars == <<status, hashTable, inodemap, blockmap, inode_bit_itr, block_bit_itr,
           saved, cache, mounts, request, seen, written, confined>>

Unwritten == [byte |-> [p \in Page |-> 0], end |-> 0]

\* One page for each object, always written with the same length, and no renaming.
ServedWell(r) ==
  CASE r.op = "read" -> r.page = 0
    [] r.op = "write" ->
         /\ r.page = 0
         /\ seen[r.key].state = "written" => Length[r.value] = seen[r.key].size
    [] r.op = "rename" -> seen[r.key] = Unseen
    [] OTHER -> TRUE

WrittenAfter(r) ==
  CASE r.op = "create" /\ r.result = "ok" -> [written EXCEPT ![r.key] = Unwritten]
    [] r.op = "write" /\ r.result = "ok" ->
         [written EXCEPT ![r.key].byte[r.page] = r.value,
                         ![r.key].end = r.page * BlockBytes + Length[r.value]]
    [] OTHER -> written

ClientInit == Init /\ written = [k \in Key |-> Unwritten] /\ confined = TRUE

\* The request as it is recorded. Any other step is not one of a client.
Recorded ==
  IF request' = Nothing THEN UNCHANGED <<written, confined>>
  ELSE /\ written' = WrittenAfter(request')
       /\ confined' = (confined /\ ServedWell(request'))

ClientNext ==
  \/ \E k \in Key : objfs_open(k) /\ Recorded
  \/ \E k \in Key : objfs_getattr(k) /\ Recorded
  \/ \E k \in Key : objfs_create(k) /\ Recorded
  \/ \E k \in Key : objfs_unlink(k) /\ Recorded
  \/ \E k \in Key : objfs_rename_key(k) /\ Recorded
  \/ \E k \in Key, r \in Reads : objfs_read(k, r[1], r[2]) /\ Recorded
  \/ \E w \in Writes : objfs_write(w[1], w[2], w[3]) /\ Recorded
  \/ objfs_destroy /\ request' = Nothing /\ Recorded
  \/ objfs_init /\ Recorded
  \/ AccessAnyBlock /\ Recorded
  \/ FreedNodeRead /\ Recorded

ClientSpec == ClientInit /\ [][ClientNext]_cvars

-----------------------------------------------------------------------------
\* The promise holds: nothing has happened that the code does not survive, the
\* clients have kept to what it serves, and the first page of each object found room.
Reliable ==
  /\ Intact
  /\ confined
  /\ \A k \in Key : seen[k].state # "truncated"

\* The store keeps its promise, through the hash table, the records, the pointer
\* blocks and the cache.
ObjectStore == INSTANCE ObjectStore WITH
  MaxObjects <- InodeBits - 2,
  object <- [k \in Key |-> IF Reliable THEN seen[k] ELSE Unseen],
  reliable <- Reliable,
  request <- IF Reliable THEN request ELSE Nothing

ImplementsObjectStore == ObjectStore!OSSpec

-----------------------------------------------------------------------------
(* What the documents promise and the code does not keep.                  *)

\* The page that the blocks of an object have at p; none is a NULL pointer.
Stored(obj, p, v) ==
  LET ptr == PointersIn(Contents(cache, obj.level1))
  IN  ptr[p] # 0 /\ Contents(cache, ptr[p]) = PageOf(v)

\* assignment4.pdf, page 1: "Read operations read all the contents of an object and
\* write operations overwrite the content and update the size". Each page is stored as
\* it was last written, the size is not less than the end of the last write, and a
\* read of several pages gives each of them.
StoresContents ==
  Serving =>
    /\ \A i \in Record_ids :
         LET obj == Record(i)
             w == written[obj.key]
         IN  /\ obj.size >= w.end
             /\ \A p \in Page : w.byte[p] # 0 => Stored(obj, p, w.byte[p])
    /\ request # Nothing =>
         (request.op = "read" /\ request.result = "ok" =>
            \A j \in DOMAIN request.bytes :
              LET p == request.page + j - 1
              IN  p \in Page /\ written[request.key].byte[p] # 0
                    => request.bytes[j] = written[request.key].byte[p])

\* obj_sync syncs the cached blocks: after an unmount the disk has what the blocks
\* from the object table on contained.
WrittenBack ==
  [][status = "mounted" /\ status' = "unmounted" =>
       \A b \in TableStart .. BlockBits - 1 : cache'.disk[b] = Contents(cache, b)]_cvars

=============================================================================
