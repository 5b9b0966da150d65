------------------------------- MODULE Paging -------------------------------
(***************************************************************************)
(* Demand paging of gemOS, Assn2/entry.c: the system calls expand, shrink  *)
(* and write, the page fault handler, and the hardware they work with (the *)
(* walk of the page table and the TLB).                                    *)
(*                                                                         *)
(* The page table is that of PageTable, and the frame a last-level entry   *)
(* maps is kept beside it.                                                 *)
(***************************************************************************)
EXTENDS PageTable, FiniteSets

CONSTANTS
  PageSize,    \* bytes of a page (4096)
  Word,        \* u32 arithmetic is modulo Word (2^32)
  Wide,        \* arithmetic on next_free and addresses is modulo Wide (2^64)
  MaxExpand,   \* the largest size expand accepts (512)
  Start, End,  \* mms[seg].start and mms[seg].end, byte addresses
  Address,     \* the byte addresses the user code touches
  Sizes,       \* the sizes it passes to expand and shrink
  Frame,       \* the page frames of USER_REG
  NoFrame

Growing == {"RODATA", "DATA"}
Segment == Growing \cup {"STACK"}

VirtPage(addr) == addr \div PageSize
Page == {VirtPage(a) : a \in Address}

Entry == UNION {Path(p) : p \in Page}

ASSUME PagingAssumption ==
  /\ PageSize \in Nat \ {0}
  /\ Word \in Nat \ {0} /\ Wide \in Nat \ {0} /\ MaxExpand \in Nat
  /\ Start \in [Segment -> Nat] /\ End \in [Segment -> Nat]
  /\ \A seg \in Segment : Start[seg] < Wide
  /\ Address \subseteq Nat /\ Sizes \subseteq Nat
  /\ NoFrame \notin Frame

\* The segments are aligned and lie in this order, and share the top-level entry
\* only: they are at least 1 GB apart and below 512 GB (context.h).
ASSUME SegmentAssumption ==
  /\ \A seg \in Segment : Start[seg] % PageSize = 0 /\ Start[seg] <= End[seg]
  /\ End["RODATA"] <= Start["DATA"] /\ End["DATA"] < Start["STACK"]
  /\ \A a, b \in Address :
       a < Start["DATA"] /\ Start["DATA"] <= b =>
         \A e \in Path(VirtPage(a)) \cap Path(VirtPage(b)) : e[1] = Levels - 1

VARIABLES
  next_free,  \* mms[seg].next_free
  tree,       \* interior entries: "absent", "ro" or "rw"
  frame,      \* the frame a present last-level entry maps, NoFrame otherwise
  rw,         \* the write bit of the last-level entries
  free,       \* frames of USER_REG that os_pfn_alloc can return
  tlb,        \* cached translations
  exited,     \* do_exit was called
  killed      \* history: the accesses the handler exited for

pagingVars == <<next_free, tree, frame, rw, free, tlb, exited, killed>>
tableVars == <<tree, frame, rw, free>>

-----------------------------------------------------------------------------
(* The hardware (external): the walk and the TLB.                          *)

Mapped(p) == Walked(tree, p) /\ frame[p] # NoFrame
Writable(p) == rw[p] /\ WalkedWritable(tree, p)

Translation(p) == [page |-> p, frame |-> frame[p], rw |-> Writable(p)]

TlbHit(p, write) == \E t \in tlb : t.page = p /\ (write => t.rw)

\* invlpg of each of these pages.
Invalidate(pages) == {t \in tlb : t.page \notin pages}

-----------------------------------------------------------------------------
(* do_syscall                                                              *)

\* size * 4096 in u32.
Bytes(size) == (size * PageSize) % Word

Expanded(seg, size) == (next_free[seg] + Bytes(size)) % Wide

expand(seg, size) ==
  /\ ~exited
  /\ size <= MaxExpand
  /\ Expanded(seg, size) <= End[seg]
  /\ next_free' = [next_free EXCEPT ![seg] = Expanded(seg, size)]
  /\ UNCHANGED <<tableVars, tlb, exited, killed>>

Shrinkable(seg, size) == (next_free[seg] - Bytes(size)) % Wide >= Start[seg]

\* next_free after n turns of shrink's loop, which counts in pages, not in the
\* wrapped number of bytes of the check. An address is never cut to the 48 bits
\* that a walk looks at.
Below(seg, n) == (next_free[seg] - n * PageSize) % Wide

InRange(seg, size, p) == \E n \in 1 .. size : Below(seg, n) = p * PageSize

\* Mutants: the loop ends at the first page that is not mapped; it frees what
\* the entry says even if it is not present.
ReleasedUpToGap(seg, size) ==
  {p \in Page : \E n \in 1 .. size :
                  /\ Below(seg, n) = p * PageSize
                  /\ \A m \in 1 .. n : \E q \in Page : /\ Below(seg, m) = q * PageSize
                                                     /\ Mapped(q)}
ReleasedUnmapped(seg, size) == {p \in Page : InRange(seg, size, p)}

\* The pages that shrink unmaps: a turn whose walk fails goes on to the next.
Released(seg, size) == {p \in Page : InRange(seg, size, p) /\ Mapped(p)}

\* Mutants: no invlpg; the present bit stays set.
UnmapNoInvlpg(pages) ==
  /\ frame' = [p \in Page |-> IF p \in pages THEN NoFrame ELSE frame[p]]
  /\ free' = free \cup {frame[p] : p \in pages}
  /\ rw' = [p \in Page |-> p \notin pages /\ rw[p]]
  /\ UNCHANGED tlb
UnmapKeepsPresent(pages) ==
  /\ free' = free \cup {frame[p] : p \in pages}
  /\ tlb' = Invalidate(pages)
  /\ UNCHANGED <<frame, rw>>

\* Only the present bit is cleared, but the rest is never looked at again.
Unmap(pages) ==
  /\ frame' = [p \in Page |-> IF p \in pages THEN NoFrame ELSE frame[p]]
  /\ free' = free \cup {frame[p] : p \in pages}
  /\ rw' = [p \in Page |-> p \notin pages /\ rw[p]]
  /\ tlb' = Invalidate(pages)

shrink(seg, size) ==
  /\ ~exited
  /\ Shrinkable(seg, size)
  /\ next_free' = [next_free EXCEPT ![seg] = Below(seg, size)]
  /\ Unmap(Released(seg, size))
  /\ UNCHANGED <<tree, exited, killed>>

do_exit ==
  /\ exited' = TRUE
  /\ UNCHANGED <<next_free, tableVars, tlb>>

\* The exit system call and handle_div_by_zero.
Exit == ~exited /\ do_exit /\ UNCHANGED killed

-----------------------------------------------------------------------------
(* handle_page_fault                                                       *)

InSegmentExclusive(addr, seg) == Start[seg] < addr /\ addr <= End[seg]  \* mutant
InSegment(addr, seg) == Start[seg] <= addr /\ addr <= End[seg]

\* The segments are tested in this order.
SegmentOf(addr) ==
  CASE InSegment(addr, "DATA") -> "DATA"
    [] ~InSegment(addr, "DATA") /\ InSegment(addr, "RODATA") -> "RODATA"
    [] ~InSegment(addr, "DATA") /\ ~InSegment(addr, "RODATA")
         /\ InSegment(addr, "STACK") -> "STACK"
    [] OTHER -> "none"

Accepts(addr, write) ==
  \/ SegmentOf(addr) = "DATA" /\ addr <= next_free["DATA"]
  \/ SegmentOf(addr) = "RODATA" /\ addr <= next_free["RODATA"] /\ ~write
  \/ SegmentOf(addr) = "STACK"

Install(p, flags) ==
  /\ tree' = Fill(tree, p, flags)
  /\ \/ /\ frame[p] # NoFrame
        /\ UNCHANGED <<frame, rw, free>>
     \/ /\ frame[p] = NoFrame
        /\ \E f \in free : /\ frame' = [frame EXCEPT ![p] = f]
                           /\ free' = free \ {f}
        /\ rw' = [rw EXCEPT ![p] = (flags = "rw")]

Kill(addr, write) ==
  /\ do_exit
  /\ killed' = killed \cup {[addr |-> addr, write |-> write]}

handle_page_fault(addr, write) ==
  \/ /\ Mapped(VirtPage(addr))            \* bit 0 of the error code
     /\ Kill(addr, write)
  \/ /\ ~Mapped(VirtPage(addr))
     /\ ~Accepts(addr, write)
     /\ Kill(addr, write)
  \/ /\ ~Mapped(VirtPage(addr))
     /\ Accepts(addr, write)
     /\ Install(VirtPage(addr), IF SegmentOf(addr) = "RODATA" THEN "ro" ELSE "rw")
     /\ UNCHANGED <<next_free, tlb, exited, killed>>

\* A load or store that misses the TLB: the walk succeeds and fills the TLB,
\* or the access faults. The instruction restarts after the handler.
Miss(addr, write) ==
  LET p == VirtPage(addr) IN
  /\ ~TlbHit(p, write)
  /\ \/ /\ Mapped(p) /\ (write => Writable(p))
        /\ tlb' = Invalidate({p}) \cup {Translation(p)}
        /\ UNCHANGED <<next_free, tableVars, exited, killed>>
     \/ /\ ~(Mapped(p) /\ (write => Writable(p)))
        /\ handle_page_fault(addr, write)

Access(addr, write) == ~exited /\ Miss(addr, write)

\* The write system call checks that the first byte of the buffer is mapped
\* and then reads up to the end of the string, here at most one page further.
SysWrite(addr) ==
  /\ ~exited
  /\ Mapped(VirtPage(addr))
  /\ \E last \in Address : /\ VirtPage(last) \in {VirtPage(addr), VirtPage(addr) + 1}
                           /\ addr <= last
                           /\ Miss(last, FALSE)

\* The processor drops a translation on its own.
Evict == /\ ~exited
         /\ \E t \in tlb : tlb' = tlb \ {t}
         /\ UNCHANGED <<next_free, tableVars, exited, killed>>

Terminated == exited /\ UNCHANGED pagingVars

-----------------------------------------------------------------------------

\* The loader has mapped the code, so the top-level entry that every segment
\* shares is there and writable; nothing of the three segments is mapped.
PagingInit ==
  /\ next_free = [seg \in Growing |-> Start[seg]]
  /\ tree = [e \in Entry |-> IF e[1] = Levels - 1 THEN "rw" ELSE "absent"]
  /\ frame = [p \in Page |-> NoFrame]
  /\ rw = [p \in Page |-> FALSE]
  /\ free = Frame
  /\ tlb = {}
  /\ exited = FALSE
  /\ killed = {}

PagingNext ==
  \/ \E seg \in Growing, size \in Sizes : expand(seg, size) \/ shrink(seg, size)
  \/ \E addr \in Address, write \in BOOLEAN : Access(addr, write)
  \/ \E addr \in Address : SysWrite(addr)
  \/ Exit
  \/ Evict
  \/ Terminated

PagingSpec == PagingInit /\ [][PagingNext]_pagingVars

-----------------------------------------------------------------------------
(* What paging promises.                                                   *)

\* Every variable has its type.
PagingTypeOK ==
  /\ next_free \in [Growing -> 0 .. Wide - 1]
  /\ tree \in [Entry -> Flags \cup {"absent"}]
  /\ frame \in [Page -> Frame \cup {NoFrame}]
  /\ rw \in [Page -> BOOLEAN]
  /\ free \subseteq Frame
  /\ tlb \subseteq [page : Page, frame : Frame, rw : BOOLEAN]
  /\ exited \in BOOLEAN
  /\ killed \subseteq [addr : Address, write : BOOLEAN]

\* A frame is mapped by one page or is free, never both, and none is lost:
\* whatever the order of faults and shrinks.
FramesOwned ==
  /\ \A p, q \in Page : p # q /\ frame[p] # NoFrame => frame[p] # frame[q]
  /\ free = Frame \ {frame[p] : p \in Page}

\* A cached translation is what a walk would find now: no access reaches a
\* frame that shrink has released, and none is refused a right it has.
TlbCoherent ==
  \A t \in tlb : Mapped(t.page) /\ t = Translation(t.page)

\* A page is writable exactly if its segment is: the interior entries a page
\* shares with pages of other segments neither add nor withhold the right.
RightsMatchSegment ==
  \A p \in Page : Mapped(p) =>
    (Writable(p) <=> SegmentOf(p * PageSize) # "RODATA")

\* Access the user code is entitled to.
Entitled(a) ==
  \/ Start["DATA"] <= a.addr /\ a.addr < next_free["DATA"] /\ a.addr < End["DATA"]
  \/ Start["RODATA"] <= a.addr /\ a.addr < next_free["RODATA"] /\ a.addr < End["RODATA"]
       /\ ~a.write
  \/ Start["STACK"] <= a.addr /\ a.addr < End["STACK"]

\* No process is killed for an access it is entitled to: the handler repairs
\* each such fault well enough for the access to succeed when it restarts.
KilledForCause == \A a \in killed : ~Entitled(a)

\* shrink takes away the whole range it gives back, and nothing else: no frame
\* stays mapped behind next_free because a page before it had none, and no page
\* outside loses its own.
ShrinkReleases ==
  [][\A seg \in Growing, size \in Sizes : shrink(seg, size) =>
       \A p \in Page : IF InRange(seg, size, p) THEN ~Mapped(p)'
                                               ELSE Mapped(p)' = Mapped(p)]_pagingVars

\* assignment2.pdf, page 1: the allowed range of a segment is start to
\* next_free - 1. No page that lies beyond is ever mapped.
NothingBeyondNextFree ==
  \A seg \in Growing, a \in Address :
    SegmentOf(a) = seg /\ a >= next_free[seg] /\ a % PageSize = 0
      => ~Mapped(VirtPage(a))

\* assignment2.pdf, page 2: shrink returns NULL if the size shrinks the
\* segment below its start.
StaysAboveStart == \A seg \in Growing : next_free[seg] >= Start[seg]

=============================================================================
