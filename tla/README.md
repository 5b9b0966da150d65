# A verification project for the gemOS kernel assignments

The repository holds four kernel and file system assignments and some exercises.
Three of them (`Assn1` .. `Assn3`) are parts of gemOS, a small x86-64 teaching
kernel; only the files the student wrote are in the repository, so the rest of the
kernel (`os_pfn_alloc`, `get_new_ctx`, the entry stubs) and the processor (page
walk, TLB) are modelled from how this code uses them and are marked external in
`PROJECT.json`. The fourth (`Assn4`) is an object store with a block cache, mounted
as a file system with FUSE.

## Inventory

| Part | State | Operations | What is hard |
|---|---|---|---|
| Scheduler and signals, `Assn3/schedule.c` | list of contexts (state, ticks, saved registers, handlers, OS stack), current context, `free_os_pfn`, the frame on the interrupt stack, the user stack | timer tick, `sleep`, `exit`, `clone`, `signal`, `alarm`, delivery of a synchronous signal | a tick between any two system calls; two context switches that save registers differently; stacks freed one tick after their owner's exit, when the slot may have a new owner; starvation |
| Paging, `Assn2/entry.c` | `next_free` of two segments, the page table, free frames, the TLB | `expand`, `shrink`, `write`, `exit`, divide by zero, page fault | stale translations; frames released and mapped again; shared upper tables; bounds arithmetic in 32 bits |
| Context address space, `Assn1/context_mm.c` | a 4-level page table | `prepare_context_mm`, `cleanup_context_mm` | tables that segments share: whose flags, who frees them |
| User programs, `Assn2/init.c`, `Assn3/init.c` | registers, stack | the system calls and faults they make | are the environment of the two models above |
| Object store, `Assn4/objstore.c` | three bitmaps, a hash table of objects, an LRU block cache with hash chains, the disk | create, find, rename, destroy, read, write, mount, unmount | FUSE threads without locks; dirty blocks; linked structures updated in several places; remount |
| FUSE glue and clients, `Assn4/objfs.c`, `Assn4/test` | none of their own | one object store call each | error codes |
| `pthreads`, `HW1`, `HW2` | a counter, arrays | demonstrations | an unsynchronised counter |

The parts interact by calls: handlers of `Assn2` end a process with `do_exit`, which
in `Assn3` becomes the scheduler's; exceptions in `Assn3` go through
`invoke_sync_signal`; `clone` hands a child the parent's page table. Otherwise the
assignments are separate kernels at separate stages, and are modelled apart.

What makes each part correct:

- scheduler: one running context, no starvation, sleepers sleep and wake, registers
  and return paths survive, OS stacks are neither shared nor freed twice nor lost;
- paging: a frame has one owner, the TLB agrees with the tables, rights are those of
  the segment, nobody is killed for a legitimate access, bounds hold;
- context address space: rights as asked, every page freed exactly once;
- object store: no two objects share a block or an id, a read returns the last
  write, what was written is there after a remount (of the last two only a part holds:
  see ObjectStore and ObjectClients below).

## Modules

```
Processor         abstract specification: one processor shared by processes
Schedule          the scheduler; implements Processor (refinement mapping at its end)
MCSchedule        symmetry and view for TLC
Schedule_proofs   seven theorems about Schedule

PageTable         the radix tree, shared by the two models below
Paging            page faults, expand, shrink, write and the TLB
MCPaging          a small address space
Paging_proofs     six theorems about Paging

ContextMM         prepare_context_mm and cleanup_context_mm
MCContextMM       the layouts of a small tree
ContextMM_proofs  three theorems about ContextMM

Bitmap            the search of a bitmap, as operators
ObjAlloc          the same search by several threads, one memory access at a time
BlockCache        the block cache, as operators on a record
ObjectStore       abstract specification: what a client of the object store sees
ObjStore          the object store over Bitmap and BlockCache
ObjectClients     ObjStore with what its clients wrote; implements ObjectStore
MCObjStore        keys, writes, reads, symmetry and views of a small store
MCObjAlloc        two threads
Bitmap_proofs     lemmas about the search
ObjAlloc_proofs   two theorems that relate ObjAlloc to Bitmap
BlockCache_proofs three theorems about single accesses to the block cache
ObjStore_proofs   eight theorems: the invariants of ObjStore
Implementation_proofs   ObjStore implements ObjectStore; requests are local
```

Definitions named *mutant* in a comment are wrong on purpose. They are used by no
specification: each stands for a plausible bug of the code it replaces, and shows
that a property would notice.

### Schedule

gemOS runs on one processor, and every handler is entered with interrupts off and
ends in `iretq`. A handler is therefore one atomic action; what interleaves is the
order in which ticks, system calls and exceptions arrive, and that order is free.

| Code | Model |
|---|---|
| `exec_context.state`, `ticks_to_sleep`, `ticks_to_alarm`, `alarm_config_time`, `sighandlers`, `os_stack_pfn`, `regs` | functions of the pid with these names |
| `free_os_pfn[]` | `free_os_pfn`; `allocated` is what the allocator has given out |
| the interrupt stack that `iretq` pops | `frame`: `rip`, `rax` and the other registers as one value |
| the words signals push on the user stack | `ustack`, a sequence of rips |
| `handle_timer_tick` | `handle_timer_tick` (stacks freed, sleepers counted, alarm, switch, in one action) |
| `do_exit`, `do_sleep`, `do_clone`, `do_signal`, `do_alarm`, `invoke_sync_signal` | actions of the same names |
| `switch_context_timer`, `switch_context_sleep` | operators of the same names; the latter leaves `rax` out, as the code does |
| user code between kernel entries | `Compute` (any register contents), `HandlerReturns` (the `ret` of a handler) |

`user` is a history variable: the registers as the user code of a context last left
them. `FrameIntegrity` compares it with what the kernel saves and restores. In two
places the history itself takes what the code saved, so that the property does not say
whether this is the right value: `sleep` returns whatever the context's previous switch
left in `regs.rax` (the `return ticks` at line 477 is never reached), and a clone starts
with the registers its parent had at its own last switch. The documents promise neither.
An exit from an exception handler is that of a system call: the layout of the kernel
stack, which differs between the two, is not modelled.

A handler's entry point is named by its signal and the main program is `Main`.
Names, memory segments, return values and printing are left out. `clone` and the
allocator are taken when they succeed: the code does not check for failure.

### Paging

The tree is kept as the state of its interior entries (absent, read-only, writable)
and the frame and write bit of last-level entries; tables are never freed while the
process runs. A memory access that hits the TLB changes nothing; one that misses is
`Miss`: the walk succeeds and fills the TLB, or the fault handler runs and the
instruction restarts. `Evict` lets the processor drop a translation at any time.
`killed` records the accesses for which the handler ended the process.

The arithmetic keeps its widths. `Bytes` is `size * 4096` modulo `Word` (2^32), as the
bounds checks compute it, while the loop of `shrink` counts pages. What is added to or
taken from `next_free` is modulo `Wide` (2^64), so that no size is left out: one that
wraps around in the check takes `next_free` below the start of its segment and, if it is
large enough, below 0. `Released` are the pages the loop unmaps on its way, those whose
walk fails left out. An address is compared whole; that a walk looks at 48 bits of it only
is left out, since no segment is near that limit and the pages of the model are below it.
The segment starts are page-aligned. An access waits when no frame is free: what
`os_pfn_alloc` does then is not in the repository. The top-level entry that all segments
go through is there and writable from the start, where the loader has put it; all entries
below it take the flags of the first fault.

### ContextMM

`prepare_context_mm` enters stack, code and data in this order, and existing entries
keep their flags. `cleanup_context_mm` counts how often each table and each frame is
freed. Tables are identified by the entry that points to them. The model assumes
what `context.h` fixes: the three segments share the top-level entry and nothing
else. Reading a table after it was freed is modelled as reading what it held, which
is what the code relies on. The table of the shared top-level entry is freed twice in every
cleanup (lines 192 and 259) and the root (26) never, against "free all the physical pages
used for page tables" (assignment 1, page 2): the counts of the model show it, and
`PrivateFreedOnce` is about everything else.

### ObjStore and BlockCache

`objstore.c` builds with or without a block cache. The model is of the cached build,
the one the assignment asks for; in the other one (lines 300-338 and 811-848) the
functions that read and sync do not fit their callers. FUSE serves one request at a
time here (its option `-s`), so that a request is one atomic action: it passes the
cache through every block access it makes and ends in `Finish`.

| Code | Model |
|---|---|
| `hashTable`, a list of nodes per bucket | `hashTable`, a sequence of object identifiers per bucket |
| `inodemap`, `blockmap`, `inode_bit_itr`, `block_bit_itr` | sets and bytes of these names; `saved` is what is on the disk |
| `cache_left` .. `cache_right` | `cache.lru`, a sequence of nodes |
| `cacheHashTable` | `cache.chain`, a sequence of nodes per bucket |
| `struct cache_obj` | `cache.node`; `cache.live` are the nodes that are allocated |
| `cachemap`, the cache memory, the disk | `cache.cachemap`, `cache.memory`, `cache.disk` |
| a block | what it is used for, by a tag: a page (its first byte), object records, pointers, the identifier table, zero |
| `objfs_*`, with the `objstore.c` functions they call | actions of these names |

`seen` is a history variable: what `open`, `getattr` and a read of the first page would
give for each key after the last request. `request` is the last request with its reply.

What the code does and the model therefore has:

- The kernel asks for whole pages unless the size is 0, and a write names its page and
  its length. Objects have at most 1024 pages, so that of the pointer blocks
  only `level1[0]` is used. `blocknum` grows by two for each new page, and the pointer
  goes to index `blocknum`, whatever the page: every other index is block 0.
- `objfs_read` is the loop of `objstore_read`: each of its `n` turns looks up the same
  page, and copies it to its place in the file. The reply is the byte that fills each page.
  For a read that does not start at 0 this place is behind the buffer, and the process is
  dead. A page more than `blocknum` is refused. As whole pages are asked for, the count of
  the bytes left ends at 0 and does not wrap around.
- The size of an object is what `find_write_cached` computes when a page gets its block
  (`SizeAfter`); a write to a page that has one does not change it.
- `objfs_rename_key` passes paths, which begin with `/`, while keys do not: rename
  walks a bucket and reports `EINVAL`. `objfs_unlink` always reports success.
- A block access that hits frees the block's node and then searches the chain, which
  still holds it. `FreedNodeRead` has both outcomes a freed node can produce: it reads
  as it did, or the process is killed.

Four things take the store to where its contents can no longer be followed, and
`status` says so:

| `status` | When | What is followed |
|---|---|---|
| `overflowed` | the blocks in use no longer have slots and buckets of their own (`Fits`): emptied chains lose dirty blocks, slot 0 is shared | the structure of the cache, under accesses to any block (`AccessAnyBlock`); contents are `Junk` |
| `dangling` | an empty object was removed: its freed node is still in the hash table | nothing |
| `dead` | an object with blocks was removed (`free_object_blocks` gets its arguments in the wrong order and follows a block number); a byte of the identifier table is negative when it is read back at mount; the table of 8 MB does not fit on the stack at unmount; a NULL pointer; a read that does not start at 0 writes behind its buffer | nothing |
| `unmounted` | `objfs_destroy`, or at the start | the disk |

### ObjectStore and ObjectClients

`ObjectStore` says what the documents promise for objects of one page: one object per
key; a read gives what was last written; `getattr` gives the size it was written with; a
rename moves an object to a key that is free and is refused only if there is none;
an unlink removes the object; error codes tell the truth. None of the code's defects is
written into it. `ObjectClients` adds two histories to `ObjStore`: `written`, the byte
last written to each page and where the last write ended, and `confined`, which says
whether the clients have kept to what the code serves as promised (`ServedWell`): reads and
writes start at page 0, an object is always written with the same length, and no
existing object is renamed. `ObjStore` implements `ObjectStore` while it is `Reliable`:

- `Intact`: in the first mount or before it, with a cache that fits, and no object
  removed (`status` is none of those above);
- `confined`;
- the first page of each object has found room (none is `truncated`).

The abstract `OSVoid` is the end of the promise, and there is no way back from it. The
promise is that narrow because the code keeps no wider one: each request outside it is
one the code gets wrong:

| Outside | What the code does | Shown by |
|---|---|---|
| writes at other pages | puts the block where the next page belongs (760), or uses block 0 (780) | `StoresContents` |
| writes of another length | keeps the size (755, 1021) | `StoresContents` |
| reads of several pages | gives the first one for each (1046) | `StoresContents` |
| a second mount | lacks blocks that were read after they were written (354) | `WrittenBack` |
| renaming | refuses it: it looks for the path (`objfs.c:58`), and the reply is `EINVAL` in any case (59), against "Update the key string" (`objfs.c:54`) | the action `objfs_rename_key` |
| removing an object | with contents, ends the process (648); without, leaves freed memory in the hash table (945) | the action `objfs_unlink` |

`StoresContents` and `WrittenBack` are violated properties of `ObjectClients`. The first
has three parts (the pages, the size, what a read of several pages gives), and the code
breaks each; the run shows the shortest way, which is the first row. The last two rows need
no search: they are what the action says of every such request.

What other requests must not do all the same is `RequestsLocal`: for writes and reads of
any pages and lengths, a request changes nothing of other objects, and of its own only
what it names: a write elsewhere leaves the first page as it was, and a write to the first
page puts there what was written.

### ObjAlloc

`ObjStore` takes an identifier in one step (`Fetch`). `ObjAlloc` has the same code as
several FUSE threads run it: reading a bit, reading and writing the byte it is in,
and the hint are steps of their own, and the end of the loop is computed from the
hint at every turn. `handed` counts who holds an identifier, and `overlapped`
remembers that two calls were in progress at once. `fetch_free_block` and
`free_block` are the same code over the other map.

## What TLC checks

| Run | Instance | Result |
|---|---|---|
| `sched_core` | 4 slots, 3 stacks, `sleep` of 0, 1 or 2 ticks, one register value, fair ticks | types, `OneRunning`, `WorkConserving`, `SleepersSleep`, `StacksExclusive`, `PendingFreedOnce`, `RoundRobin`, refinement of `Processor`, `ReadyRuns`, `SleeperRuns` |
| `sched_context` | 3 slots, 2 stacks, 2 register values, one synchronous signal and the alarm, two nested handlers | `FrameIntegrity`, `ReturnsToMain` |
| `sched_sleep0` | 3 slots, sleeps of 0 or 1 tick, fair ticks | `SleepReturns` is violated: `sleep(0)` never returns |
| `sched_leak` | 4 slots | `NoStackLeak` is violated: exit, clone, exit before a tick |
| `paging` | 4-level tree of fanout 4, 2-byte pages, RODATA of one page, DATA of two pages in two tables, a stack page, two frames, sizes 1, 2 and one that wraps | types, `FramesOwned`, `TlbCoherent`, `RightsMatchSegment`, `KilledForCause`, `ShrinkReleases` |
| `paging_beyond` | the same | `NothingBeyondNextFree` is violated: the byte at `next_free` is mapped |
| `paging_wrap` | the same | `StaysAboveStart` is violated: 16 pages of 2 bytes are 0 modulo 32 |
| `context_mm` | fanout 4, 60 layouts | types, `RightsAsAsked`, `PrivateFreedOnce` |
| `objstore` | three keys, two of them in one bucket; 2 identifiers, 4 data blocks, pages 0 and 5, reads of one and two pages, caches of 4 and of 9 slots, two mounts | types, `ChainsLive`, `ListComplete`, `SlotsOwned`, `IdsTaken`, `BlocksOwned`, `KeysUnique`, `RequestsLocal`, refinement of `ObjectStore` |
| `objstore_contents` | writes of 8 and of 32 bytes to pages 0 and 1, a cache of 9 slots | `StoresContents` is violated: page 1, written first, becomes page 0 |
| `objstore_unmount` | the same | `WrittenBack` is violated: a record that was written, then read, is not on the disk |
| `objstore_alloc` | two threads, a map of 8 bits in bytes of 4 | `IdsUnique` is violated: both threads find the same clear bit |

The seven violated properties quote the assignment texts and comments of the code; `findings` in
`PROJECT.json` has the quotes and the lines.

Why the bounds are enough. Three user contexts are the fewest for which a wrong scan
order starves somebody and for which a slot is reused while two others live; the swapper
makes the fourth slot. Sleeps of 2 ticks distinguish early from timely wake-ups. Three
stacks are as many as can be in use, so that a stack to be freed is soon wanted again.
Stacks and registers are only compared: `sched_context` uses TLC's symmetry for them,
which is sound because no definition singles one of them out and that run checks no
liveness. `sched_context` needs two register values to tell contexts apart and two
nested handlers for an alarm inside another handler (`MaxNesting` bounds the depth of
nesting, which user code alone determines; the alarm then waits for a handler to
return). Its view drops what exited contexts left in their slots: `clone` overwrites
each of these fields before the slot is live again; `free_os_pfn`, which outlives its
owner, stays in the view.

In `paging` the view drops the tables once the process has exited, when nothing can
change them any more. A size of 16 pages of 2 bytes is 0 modulo 32 (`Word`) and takes
`next_free` below its start, though not below 0: sizes that do are left to the proofs,
as `next_free` then runs through most of the address space. Two frames for four pages
force frames to be reused.

In `objstore` two keys that share a bucket make a chain of the hash table; the third has
a bucket whose byte of the identifier table cannot be read back. Fewer identifiers than
keys and one data block too few for two objects of two pages exhaust both bitmaps. The
cache of 4 slots holds two blocks before it evicts; that of 9 holds every block, so that
the store's own logic is seen without eviction. The first page takes two values, so that
a stale one shows. The view of this run leaves out the names of cache nodes, freed
nodes, the last request, what the clients wrote and `seen`, which `Finish` computes from
the rest of the state, and, where the cache has room for every block, the order of its
list and the slots blocks are in: nothing of this influences a later step. A dead
process has no next step, which is why this run does not look for deadlock.

The two violations of the object store need few requests, so that their runs have fewer
writes and one cache, which fits; their view keeps what the clients wrote and the last
reply. Their pages are adjacent, and a page is 32 bytes.

Fairness. Only `handle_timer_tick` is fair, weakly: the periodic timer keeps
interrupting, whatever the contexts do, since user code cannot mask interrupts.
System calls are never assumed to happen. The runs that check liveness have no handlers, so
`MaxNesting` never holds a tick back and one is enabled until the machine is shut down.

## What is proved

`Schedule_proofs` proves, for any number of slots, stacks, registers and signals:

- `TypeCorrect`: `TypeOK`.
- `StatesCorrect`: `OneRunning`, `WorkConserving` and `SleepersSleep`. Their conjunction
  `StateInv` with the types is inductive. The proof does not go through the actions
  six times: lemma `StepKind` shows that each step is one of five kinds (a tick, the
  current context leaves, the machine halts, a context is created, nothing about
  states changes), and the properties are proved per kind.
- `RoundRobinCorrect`: a context that stays READY gets nearer to its turn with every
  switch. The core is `NearerLemma`, arithmetic on the circular distance.
- `Implementation`: `Schedule` implements `Processor`. Each kind of step maps to an
  abstract step or to none (`TicksImplements`, `LeavesImplements`, `StepImplements`).
- `StacksCorrect`: `StacksExclusive` and `PendingFreedOnce`. They are not inductive
  alone: `StackInv` adds what links stacks in use with those on the list.
- `FramesCorrect`: `FrameIntegrity`, with the types and `StateInv`.
- `ReturnsCorrect`: `ReturnsToMain`. Inductive is that the words on a context's stack,
  with where it will continue, are the way back through its handlers to the
  main program (`OnWay`). Delivering a signal pushes on the way, `ret` pops it, and a
  switch moves it between the frame and the saved registers (`WayPushed`,
  `WayPopped`, `WayKept`).

`Paging_proofs` proves, for any address space, page size and tree:

- `PagingTypeCorrect`, `FramesOwnedCorrect`, `TlbCoherentCorrect`. The invariant
  `PagingInv` adds `LeafReached`: a page that maps a frame can be walked to. Without it
  a fault on a page whose upper tables were missing could meet an old mapping. Lemma
  `FillKeeps` is the reason why installing one page never disturbs another.

- `ShrinkReleasesCorrect`, for sizes of any kind.
- `RightsMatchCorrect` and `KilledForCauseCorrect`, which need the layout of the segments.

No size is assumed away, so that `PagingTypeCorrect` says of `next_free` what the code
gives and no more: a number below 2^64. That it stays above the start is false (run
`paging_wrap`).
The last two rest on `SegmentAssumption`: aligned segments that share the top-level
entry only. A page then lies in one segment (`SegmentOfPage`), an entry is read-only
only if a page of RODATA goes through it, so never above a page of another segment (`RightsInv`), and
`next_free` stays within its segment, where the bounds of the fault handler are at
least as generous as the segment's own (`CauseInv`).

`ContextMM_proofs` proves `CtxTypeCorrect`, `RightsCorrect` and `PrivateFreedCorrect`
for any tree and any layout that satisfies `LayoutAssumption`. The invariant says that
the tree of a running context is the one `prepare_context_mm` builds; from it the
flags of each entry and how often `cleanup_context_mm` frees it are computed.

`ObjAlloc_proofs` proves, for any number of threads and any map of whole bytes, that
as long as calls do not overlap no identifier is handed out twice (`SerialCallsUnique`),
and that such a call returns what the operator `Fetch` of `Bitmap` names
(`SerialCallsFetch`). This is why `BlockCache` and `ObjStore` may take the search for
one step, and, with the run `objstore_alloc`, that the missing lock is all that is
wrong with it. The lemmas about the search are in `Bitmap_proofs`.

`BlockCache_proofs` proves, for any number of buckets, any disk and any cache, what one
access does:

- `AccessesSound`: a read or a write of a block, with a hit or a miss, with or without
  an eviction, keeps `ChainsSound`, `ListSound` and `SlotsSound`, as long as `calloc` has
  as many nodes as there are buckets. Between the steps of an access nodes are
  allocated but on no list and slots taken but used by no node; `Partial` says what
  holds then, and there is one lemma per step (`NodeAllocated`, `SlotSound`,
  `EvictSound`, `InsertSound`, `RetrieveSound`). It holds in spite of the chain that is
  emptied when its head is removed: nodes are lost from a chain, never left in one.
- `AccessesKeepContents`: if the cache still `Fits` after the access, every block reads as
  before, but for the one that was written. The invariant `Kept` says that every node
  of the list can be found through its chain and has a slot that is not 0, and
  `SlotLeft` counts: the slots do not run out while the cache fits.
- `EmptyCacheSound`: the cache a process starts with satisfies both.

`ObjStore_proofs` proves every invariant of the run `objstore`, for any keys, any hash
function, any number of identifiers and blocks, any cache sizes and any number of
mounts:

- `StoreInvAlways`, `TypeAlways`, `ChainsLiveAlways`, `ListCompleteAlways`,
  `SlotsOwnedAlways` and `IdsTakenAlways`. `StoreInv` says that the cache is structured
  (`Structure`) and that the maps and the hash table have their types (`Maps`); while
  the store serves or is unmounted it also says that the cache fits and keeps what was
  written, and that every block holds what its place on the disk is for, records only
  under identifiers that are taken (`Readable`, `StoreVal`). A request folds over the blocks it reads or writes: `GoodReadBlocks` and `WalkReadsGood`
  carry the theorems about one access through the folds. The proof then goes by
  kinds of steps (`StepKinds`): a request that only looks, one that adds a record, one
  that overwrites a page, one that adds a page, an unmount, a mount, and a step after
  which contents are no longer followed. Each action is one of these kinds (`OpenSound`
  .. `WriteSound`, `DestroySound`, `Steps`), and later invariants are proved per kind.
- `BlocksOwnedAlways`. That blocks are not shared is not inductive: an unmount writes
  some dirty blocks and loses others (emptied chains), so that a mount finds each
  block either as it was last written or as the previous mount found it. `BlockOwners`
  therefore says that there is an assignment of data blocks to owners and roles
  that suits every mixture of the two versions (`Versions`, `Owns`). It survives because
  a free block was never written and a new one goes to one owner in one role.
- `KeysUniqueAlways`. `create_object` inserts an identifier in its chain once or twice;
  `KeyInv` says that during the first mount every record is in the chain of its key, so
  that a create that does not find the key there may add it. It also says that the
  disk is empty before the first mount. No such thing holds of a second mount.

`Implementation_proofs` proves two theorems about requests. `Implementation`: `ObjStore`,
with the histories of `ObjectClients`, implements `ObjectStore`, for the
same constants. `ClientInv` ties what clients see to the state of the code: `seen` is
what the hash table, the records, the pointer blocks and the pages say (`SeenNow`); the
taken identifiers are those of the records (`Filed`); sizes are positive
exactly if there are blocks, and each block an object points to is one page, pointed to
once and written whole (`Whole`). There is one lemma for each request (`OpenClient`
.. `WriteClient`): it keeps `ClientInv` and answers as `Answered` says, the reply of the
code in terms of `seen`, whatever pages and lengths clients use; a read of the first
page, for instance, gives `seen[k].page` as often as it has turns. `AnswerImplements` maps
each answer to the abstract request, if the clients are `confined`; `TruncatedStays` and
`MountsGrow` show that a broken promise stays broken, as in the abstract store, and
`ClientSteps` that the histories restrict no step of the store. The theorem uses the three invariants
above. `RequestsLocalAlways` is `RequestsLocal`, from the same answers (`AnswerLocal`),
without the condition that clients are confined.

Two remarks on the technique. A fold over a sequence is reasoned about as a
recursive function given by its equation, and induction is stated of sets (`Induct`,
`InductTo`), since a rule with an operator parameter cannot be instantiated. And
definitions with many parts are kept hidden except in the lemmas about them.

The assumptions are `SchedAssumption`, `TreeAssumption`, `PagingAssumption`,
`SegmentAssumption`, `LayoutAssumption`, `BitmapAssumption` and, for the object store,
`ObjStoreAssumption` (the layout of the disk; at least two cache slots and no more slots
than nodes), `TableAssumption` (the object table ends before the data blocks) and
`RequestAssumption` (identifiers 0 and 1 are reserved, a file name is
not empty, `Nothing` is not a request). TLC evaluates each of them on every run of its
module.

Only model-checked: liveness (`ReadyRuns`, `SleeperRuns`), which rests on fairness and
`ENABLED`, and the seven violated properties, which are counterexamples. Every invariant,
the action properties `RoundRobin`, `ShrinkReleases` and `RequestsLocal`, and both
refinements that passing runs check are also theorems.

## Plan

Done: the scheduler, paging, the context address space, the allocators, the block
cache and the object store, with the proofs above. What could follow:

1. What a second mount guarantees beyond identifiers and blocks: which objects it
   still finds, stated and proved from the layout of the identifier table.
2. Objects of more than 1024 pages, which use the other entries of `level1`.
3. Several FUSE threads in the cache and the hash table, which have no locks either.

## Not modelled

- The build of the object store without cache: it keeps pointers into the stack of the
  caller, and its functions do not have the parameters their callers pass.
- What the object store does after freed memory was linked into its hash table, and
  block contents after the cache has overflowed: what such a program reads is not a
  property of this code.
- The root directory's attributes, opening the device, and logging in `objfs.c`; the
  client programs of `Assn4/test`, which are the environment of `ObjStore`.
- The `pthreads` examples and the exercises `HW1` and `HW2`: a greeting, a counter that
  loses updates, a few lines of assembly. Nothing relies on them.
- The contents of user memory and of the kernel stack, and console output.
- Commented-out and never-called functions of `schedule.c` (`switch_context_exit`, the
  old `exit_restore`).
