---------------------------- MODULE Paging_proofs ----------------------------
(***************************************************************************)
(* Proofs about Paging for every address space, page size and tree: frames *)
(* have one owner, the TLB agrees with the page table, a page is used only *)
(* for what its segment allows, and a process is killed only for cause.    *)
(***************************************************************************)
EXTENDS Paging, TLAPS

-----------------------------------------------------------------------------
(* Facts about the tree. The shape of a path does not matter, so Path stays *)
(* hidden.                                                                  *)

\* The page of an address the user code touches is a page.
LEMMA PageOf == \A a \in Address : VirtPage(a) \in Page
  BY DEF Page

\* The entries of a page's path are entries of the tree.
LEMMA PathInTree == \A p \in Page : Path(p) \subseteq Entry
  BY DEF Entry

\* Filling in the path of one page makes it walkable, and changes nothing on
\* the path of a page that was walkable before.
LEMMA FillKeeps ==
  ASSUME NEW t \in [Entry -> Flags \cup {"absent"}], NEW p \in Page,
         NEW flags \in Flags
  PROVE  /\ Fill(t, p, flags) \in [Entry -> Flags \cup {"absent"}]
         /\ Walked(Fill(t, p, flags), p)
         /\ \A q \in Page : Walked(t, q) =>
              /\ Walked(Fill(t, p, flags), q)
              /\ WalkedWritable(Fill(t, p, flags), q) <=> WalkedWritable(t, q)
<1>1. /\ DOMAIN t = Entry
      /\ Fill(t, p, flags) = [e \in Entry |-> IF e \in Path(p) /\ t[e] = "absent"
                                                THEN flags ELSE t[e]]
  BY DEF Fill
<1>2. Fill(t, p, flags) \in [Entry -> Flags \cup {"absent"}]
  BY <1>1
<1>3. Walked(Fill(t, p, flags), p)
  BY <1>1, PathInTree DEF Walked, Flags
<1>4. ASSUME NEW q \in Page, Walked(t, q)
      PROVE  \A e \in Path(q) : Fill(t, p, flags)[e] = t[e]
  BY <1>1, <1>4, PathInTree DEF Walked
<1>5. ASSUME NEW q \in Page, Walked(t, q)
      PROVE  /\ Walked(Fill(t, p, flags), q)
             /\ WalkedWritable(Fill(t, p, flags), q) <=> WalkedWritable(t, q)
  BY <1>4, <1>5 DEF Walked, WalkedWritable
<1> QED  BY <1>2, <1>3, <1>5

-----------------------------------------------------------------------------
(* The inductive invariant: a last-level entry that maps a frame can be     *)
(* reached by a walk, because tables are never freed.                       *)

LeafReached == \A p \in Page : frame[p] # NoFrame => Walked(tree, p)

PagingInv == PagingTypeOK /\ FramesOwned /\ LeafReached /\ TlbCoherent

\* What an exit, a kill and an access that only reads the tables have in common.
LEMMA TablesSame ==
  ASSUME PagingInv, UNCHANGED tableVars
  PROVE  /\ FramesOwned' /\ LeafReached'
         /\ \A p \in Page : Mapped(p)' = Mapped(p) /\ Translation(p)' = Translation(p)
  BY DEF PagingInv, FramesOwned, LeafReached, tableVars, Mapped, Translation, Writable

\* do_exit leaves tables and TLB alone.
LEMMA ExitKeeps ==
  ASSUME PagingInv, do_exit,
         killed' = killed \/ \E a \in Address, w \in BOOLEAN :
                               killed' = killed \cup {[addr |-> a, write |-> w]}
  PROVE  PagingInv'
<1>1. FramesOwned' /\ LeafReached'
  BY TablesSame DEF do_exit
<1>2. PagingTypeOK'
  BY DEF PagingInv, PagingTypeOK, do_exit, tableVars
<1>3. TlbCoherent'
  BY TablesSame DEF do_exit, TlbCoherent, PagingInv, PagingTypeOK
<1> QED  BY <1>1, <1>2, <1>3 DEF PagingInv

\* Installing a translation for a page that has none.
LEMMA InstallKeeps ==
  ASSUME PagingInv, NEW p \in Page, NEW flags \in Flags,
         Install(p, flags), UNCHANGED <<next_free, tlb, exited, killed>>
  PROVE  PagingInv'
<1> USE PagingAssumption
<1>1. /\ tree \in [Entry -> Flags \cup {"absent"}] /\ tree' = Fill(tree, p, flags)
      /\ frame \in [Page -> Frame \cup {NoFrame}] /\ rw \in [Page -> BOOLEAN]
      /\ free \subseteq Frame
  BY DEF PagingInv, PagingTypeOK, Install
<1>2. /\ tree' \in [Entry -> Flags \cup {"absent"}]
      /\ Walked(tree', p)
      /\ \A q \in Page : Walked(tree, q) =>
           Walked(tree', q) /\ (WalkedWritable(tree', q) <=> WalkedWritable(tree, q))
  BY <1>1, FillKeeps
<1>3. \/ UNCHANGED <<frame, rw, free>>
      \/ /\ frame[p] = NoFrame
         /\ \E f \in free : /\ frame' = [frame EXCEPT ![p] = f]
                            /\ free' = free \ {f}
         /\ rw' = [rw EXCEPT ![p] = (flags = "rw")]
  BY DEF Install
<1>4. PagingTypeOK'
  BY <1>1, <1>2, <1>3 DEF PagingInv, PagingTypeOK
<1>5. FramesOwned'
  BY <1>1, <1>3 DEF PagingInv, FramesOwned
<1>6. LeafReached'
  BY <1>1, <1>2, <1>3 DEF PagingInv, LeafReached
<1>7. ASSUME NEW q \in Page, Mapped(q) PROVE Mapped(q)' /\ Translation(q)' = Translation(q)
  <2>1. frame'[q] = frame[q] /\ rw'[q] = rw[q]
    BY <1>1, <1>3, <1>7 DEF Mapped
  <2>2. Mapped(q)'
    BY <1>2, <1>7, <2>1 DEF Mapped
  <2>3. Writable(q)' <=> Writable(q)
    BY <1>2, <1>7, <2>1 DEF Mapped, Writable
  <2>4. Writable(q)' = Writable(q)
    BY <2>3, <1>1, <1>2 DEF Writable, WalkedWritable
  <2> QED  BY <2>1, <2>2, <2>4 DEF Translation
<1>8. TlbCoherent'
  BY <1>7 DEF PagingInv, TlbCoherent, PagingTypeOK
<1> QED  BY <1>4, <1>5, <1>6, <1>8 DEF PagingInv

\* The TLB after an access that missed it, or lost an entry: every translation
\* is an old one, or what the walk has just found.
LEMMA TlbKeeps ==
  ASSUME PagingInv, UNCHANGED <<next_free, tableVars, exited, killed>>,
         \A t \in tlb' : t \in tlb \/ \E p \in Page : Mapped(p) /\ t = Translation(p)
  PROVE  PagingInv'
<1>1. FramesOwned' /\ LeafReached'
  BY TablesSame
<1>2. \A p \in Page : Mapped(p) => Translation(p) \in [page : Page, frame : Frame, rw : BOOLEAN]
  BY DEF PagingInv, PagingTypeOK, Mapped, Translation, Writable, WalkedWritable
<1>3. PagingTypeOK'
  BY <1>2 DEF PagingInv, PagingTypeOK, tableVars
<1>4. ASSUME NEW t \in tlb' PROVE Mapped(t.page)' /\ t = Translation(t.page)'
  <2>1. t.page \in Page /\ Mapped(t.page) /\ t = Translation(t.page)
    <3>1. CASE t \in tlb
      BY <3>1 DEF PagingInv, PagingTypeOK, TlbCoherent
    <3>2. CASE \E p \in Page : Mapped(p) /\ t = Translation(p)
      BY <3>2 DEF Translation
    <3> QED  BY <1>4, <3>1, <3>2
  <2> QED  BY <2>1, TablesSame
<1> QED  BY <1>1, <1>3, <1>4 DEF PagingInv, TlbCoherent

\* The page fault handler.
LEMMA FaultKeeps ==
  ASSUME PagingInv, NEW addr \in Address, NEW write \in BOOLEAN,
         handle_page_fault(addr, write)
  PROVE  PagingInv'
<1>1. CASE Kill(addr, write)
  BY <1>1, ExitKeeps DEF Kill
<1>2. CASE /\ Install(VirtPage(addr), IF SegmentOf(addr) = "RODATA" THEN "ro" ELSE "rw")
           /\ UNCHANGED <<next_free, tlb, exited, killed>>
  <2> DEFINE flags == IF SegmentOf(addr) = "RODATA" THEN "ro" ELSE "rw"
  <2>1. flags \in Flags
    BY DEF Flags
  <2>2. Install(VirtPage(addr), flags)
    BY <1>2
  <2> HIDE DEF flags
  <2> QED  BY <1>2, <2>1, <2>2, PageOf, InstallKeeps
<1> QED  BY <1>1, <1>2 DEF handle_page_fault

\* A load or store that misses the TLB.
LEMMA MissKeeps ==
  ASSUME PagingInv, NEW addr \in Address, NEW write \in BOOLEAN, Miss(addr, write)
  PROVE  PagingInv'
<1>1. CASE handle_page_fault(addr, write)
  BY <1>1, FaultKeeps
<1>2. CASE /\ Mapped(VirtPage(addr))
           /\ tlb' = Invalidate({VirtPage(addr)}) \cup {Translation(VirtPage(addr))}
           /\ UNCHANGED <<next_free, tableVars, exited, killed>>
  BY <1>2, PageOf, TlbKeeps DEF Invalidate
<1> QED  BY <1>1, <1>2 DEF Miss

\* What 64 bits hold, and what one address takes of it.
LEMMA Wraps ==
  /\ \A n \in Int : n % Wide \in 0 .. Wide - 1
  /\ \A seg \in Growing : next_free[seg] \in Nat => \A size \in Sizes :
       /\ Expanded(seg, size) \in 0 .. Wide - 1
       /\ Below(seg, size) \in 0 .. Wide - 1
<1>1. \A n \in Int : n % Wide \in 0 .. Wide - 1
  BY PagingAssumption
<1>2. ASSUME NEW seg \in Growing, next_free[seg] \in Nat, NEW size \in Sizes
      PROVE  /\ next_free[seg] + Bytes(size) \in Int
             /\ next_free[seg] - size * PageSize \in Int
  BY <1>2, PagingAssumption DEF Bytes
<1> QED  BY <1>1, <1>2 DEF Expanded, Below

\* expand moves only the bound.
LEMMA ExpandKeeps ==
  ASSUME PagingInv, NEW seg \in Growing, NEW size \in Sizes, expand(seg, size)
  PROVE  PagingInv'
<1> USE PagingAssumption
<1>1. FramesOwned' /\ LeafReached'
  BY TablesSame DEF expand
<1>2. Expanded(seg, size) \in 0 .. Wide - 1
  BY Wraps DEF PagingInv, PagingTypeOK
<1>3. PagingTypeOK'
  BY <1>2 DEF PagingInv, PagingTypeOK, expand, tableVars
<1>4. TlbCoherent'
  BY TablesSame DEF expand, TlbCoherent, PagingInv, PagingTypeOK
<1> QED  BY <1>1, <1>3, <1>4 DEF PagingInv

\* shrink returns exactly the frames whose mappings and translations it drops.
LEMMA ShrinkKeeps ==
  ASSUME PagingInv, NEW seg \in Growing, NEW size \in Sizes, shrink(seg, size)
  PROVE  PagingInv'
<1> USE PagingAssumption
<1> DEFINE new == Below(seg, size)
           released == Released(seg, size)
<1>1. /\ next_free' = [next_free EXCEPT ![seg] = new]
      /\ frame' = [p \in Page |-> IF p \in released THEN NoFrame ELSE frame[p]]
      /\ free' = free \cup {frame[p] : p \in released}
      /\ rw' = [p \in Page |-> p \notin released /\ rw[p]]
      /\ tlb' = Invalidate(released)
      /\ UNCHANGED <<tree, exited, killed>>
  BY DEF shrink, Unmap
<1>2. new \in 0 .. Wide - 1
  BY Wraps DEF PagingInv, PagingTypeOK
<1>3. released \subseteq Page /\ \A p \in released : frame[p] \in Frame
  BY DEF Released, Mapped, PagingInv, PagingTypeOK
<1> HIDE DEF new, released
<1>4. PagingTypeOK'
  BY <1>1, <1>2, <1>3 DEF PagingInv, PagingTypeOK, Invalidate
<1>5. FramesOwned'
  <2>1. \A p, q \in Page : p # q /\ frame'[p] # NoFrame => frame'[p] # frame'[q]
    BY <1>1 DEF PagingInv, FramesOwned
  <2>2. free' = Frame \ {frame'[p] : p \in Page}
    BY <1>1, <1>3 DEF PagingInv, PagingTypeOK, FramesOwned
  <2> QED  BY <2>1, <2>2 DEF FramesOwned
<1>6. LeafReached'
  BY <1>1 DEF PagingInv, LeafReached, Walked
<1>7. ASSUME NEW t \in tlb' PROVE Mapped(t.page)' /\ t = Translation(t.page)'
  <2>1. /\ t.page \in Page /\ t.page \notin released
        /\ Mapped(t.page) /\ t = Translation(t.page)
    BY <1>1, <1>7 DEF Invalidate, PagingInv, PagingTypeOK, TlbCoherent
  <2>2. frame'[t.page] = frame[t.page] /\ rw'[t.page] = rw[t.page] /\ tree' = tree
    BY <1>1, <2>1 DEF PagingInv, PagingTypeOK
  <2> QED  BY <2>1, <2>2 DEF Mapped, Walked, Translation, Writable, WalkedWritable
<1> QED  BY <1>4, <1>5, <1>6, <1>7 DEF PagingInv, TlbCoherent

-----------------------------------------------------------------------------

\* The invariant holds when the context starts.
LEMMA PagingStart == PagingInit => PagingInv
<1> SUFFICES ASSUME PagingInit PROVE PagingInv
  OBVIOUS
<1> USE PagingAssumption
<1>1. PagingTypeOK
  <2>1. ASSUME NEW seg \in Growing PROVE Start[seg] \in 0 .. Wide - 1
    <3>1. seg \in Segment
      BY DEF Segment
    <3>2. Start[seg] \in Nat /\ Start[seg] < Wide /\ Wide \in Nat
      BY <3>1
    <3> QED  BY <3>2
  <2>2. next_free \in [Growing -> 0 .. Wide - 1]
    BY <2>1 DEF PagingInit
  <2> QED  BY <2>2 DEF PagingInit, PagingTypeOK, Flags
<1>2. FramesOwned /\ LeafReached /\ TlbCoherent
  BY DEF PagingInit, FramesOwned, LeafReached, TlbCoherent
<1> QED  BY <1>1, <1>2 DEF PagingInv

\* Every step keeps it.
LEMMA PagingStep == PagingInv /\ [PagingNext]_pagingVars => PagingInv'
<1> SUFFICES ASSUME PagingInv, [PagingNext]_pagingVars PROVE PagingInv'
  OBVIOUS
<1>1. ASSUME NEW seg \in Growing, NEW size \in Sizes,
             expand(seg, size) \/ shrink(seg, size)
      PROVE  PagingInv'
  BY <1>1, ExpandKeeps, ShrinkKeeps
<1>2. ASSUME NEW addr \in Address, NEW write \in BOOLEAN, Access(addr, write)
      PROVE  PagingInv'
  BY <1>2, MissKeeps DEF Access
<1>3. ASSUME NEW addr \in Address, SysWrite(addr) PROVE PagingInv'
  BY <1>3, MissKeeps DEF SysWrite
<1>4. CASE Exit
  BY <1>4, ExitKeeps DEF Exit
<1>5. CASE Evict
  BY <1>5, TlbKeeps DEF Evict
<1>6. CASE UNCHANGED pagingVars
  <2>1. UNCHANGED <<next_free, tableVars, exited, killed>> /\ tlb' = tlb
    BY <1>6 DEF pagingVars, tableVars
  <2> QED  BY <2>1, TlbKeeps
<1> QED  BY <1>1, <1>2, <1>3, <1>4, <1>5, <1>6 DEF PagingNext, Terminated

\* The invariant is one.
LEMMA PagingInvariant == PagingSpec => []PagingInv
  BY PagingStart, PagingStep, PTL DEF PagingSpec

\* Every variable of the paging model keeps its type whatever sizes are passed to
\* expand and shrink: next_free may go round below 0 in its 64 bits, but no frame
\* number that is none is ever freed, mapped or cached.
THEOREM PagingTypeCorrect == PagingSpec => []PagingTypeOK
<1>1. PagingInv => PagingTypeOK
  BY DEF PagingInv
<1> QED  BY <1>1, PagingInvariant, PTL

\* handle_page_fault and shrink: no frame is ever mapped twice, lost, or free
\* while it is mapped.
THEOREM FramesOwnedCorrect == PagingSpec => []FramesOwned
<1>1. PagingInv => FramesOwned
  BY DEF PagingInv
<1> QED  BY <1>1, PagingInvariant, PTL

\* The invlpg of shrink is enough: the TLB never holds a stale translation,
\* however faults, shrinks and evictions interleave.
THEOREM TlbCoherentCorrect == PagingSpec => []TlbCoherent
<1>1. PagingInv => TlbCoherent
  BY DEF PagingInv
<1> QED  BY <1>1, PagingInvariant, PTL

-----------------------------------------------------------------------------
(* Segments and pages.                                                     *)

\* The start of a page is not below an aligned address that the page reaches.
LEMMA PageStart ==
  ASSUME NEW n \in Nat \ {0}, NEW s \in Nat, NEW a \in Nat, s % n = 0, s <= a
  PROVE  s <= (a \div n) * n /\ (a \div n) * n <= a
<1> DEFINE q == s \div n
           r == a \div n
<1>1. s \div n \in Nat /\ s = n * (s \div n)
  OBVIOUS
<1>2. a \div n \in Nat /\ n * (a \div n) <= a /\ a < n * (a \div n) + n
  OBVIOUS
<1>3. q \in Nat /\ r \in Nat /\ s = n * q /\ n * r <= a /\ a < n * r + n
  BY <1>1, <1>2
<1> HIDE DEF q, r
<1>4. q <= r
  <2>1. CASE r + 1 <= q
    <3>1. n * (r + 1) <= n * q
      BY <1>3, <2>1
    <3>2. n * (r + 1) = n * r + n
      BY <1>3
    <3> QED  BY <1>3, <3>1, <3>2
  <2> QED  BY <2>1, <1>3
<1>5. n * q <= n * r /\ n * r = r * n
  BY <1>3, <1>4
<1> QED  BY <1>3, <1>5 DEF r

\* What SegmentOf says, for addresses in and between the segments.
LEMMA SegmentCases ==
  ASSUME NEW a \in Nat
  PROVE  /\ SegmentOf(a) = "DATA" <=> InSegment(a, "DATA")
         /\ SegmentOf(a) = "RODATA" <=> InSegment(a, "RODATA") /\ ~InSegment(a, "DATA")
         /\ SegmentOf(a) = "STACK" <=> InSegment(a, "STACK") /\ ~InSegment(a, "DATA")
                                         /\ ~InSegment(a, "RODATA")
         /\ SegmentOf(a) \in {"DATA", "RODATA", "STACK", "none"}
  BY DEF SegmentOf

\* A page starts in the segment of each of its addresses that has one.
LEMMA SegmentOfPage ==
  ASSUME NEW a \in Address, SegmentOf(a) # "none"
  PROVE  SegmentOf(VirtPage(a) * PageSize) = SegmentOf(a)
<1> DEFINE b == VirtPage(a) * PageSize
<1>1. a \in Nat /\ PageSize \in Nat \ {0}
  BY PagingAssumption
<1>2. b \in Nat
  BY <1>1 DEF VirtPage
<1>3. \A seg \in Segment :
        Start[seg] \in Nat /\ End[seg] \in Nat /\ Start[seg] % PageSize = 0
  BY PagingAssumption, SegmentAssumption
<1>4. b <= a /\ \A seg \in Segment : Start[seg] <= a => Start[seg] <= b
  <2>1. ASSUME NEW seg \in Segment, Start[seg] <= a PROVE Start[seg] <= b /\ b <= a
    BY <1>1, <1>3, <2>1, PageStart DEF VirtPage
  <2>2. b <= a
    <3>1. 0 % PageSize = 0
      BY <1>1
    <3> QED  BY <1>1, <3>1, PageStart DEF VirtPage
  <2> QED  BY <2>1, <2>2
<1> HIDE DEF b
<1>5. ASSUME NEW seg \in Segment, InSegment(a, seg) PROVE InSegment(b, seg)
  BY <1>1, <1>2, <1>3, <1>4, <1>5 DEF InSegment
<1>6. \A x \in Nat : InSegment(x, "STACK") => ~InSegment(x, "DATA") /\ ~InSegment(x, "RODATA")
  BY <1>3, SegmentAssumption DEF InSegment, Segment, Growing
<1>7. InSegment(a, "RODATA") /\ ~InSegment(a, "DATA") => ~InSegment(b, "DATA")
  BY <1>1, <1>2, <1>3, <1>4, SegmentAssumption DEF InSegment, Segment, Growing
<1> QED
  <2>1. CASE SegmentOf(a) = "DATA"
    BY <1>1, <1>2, <1>5, <2>1, SegmentCases DEF b, Segment, Growing
  <2>2. CASE SegmentOf(a) = "RODATA"
    BY <1>1, <1>2, <1>5, <1>7, <2>2, SegmentCases DEF b, Segment, Growing
  <2>3. CASE SegmentOf(a) = "STACK"
    BY <1>1, <1>2, <1>5, <1>6, <2>3, SegmentCases DEF b, Segment, Growing
  <2> QED  BY <1>1, <2>1, <2>2, <2>3, SegmentCases

-----------------------------------------------------------------------------
(* Rights. An entry is read-only only if a page of RODATA goes through it, *)
(* and the write bit of a page is that of its segment.                     *)

TopWritable == \A e \in Entry : e[1] = Levels - 1 => tree[e] = "rw"

ReadOnlyForRodata ==
  \A e \in Entry : tree[e] = "ro" =>
    \E a \in Address : SegmentOf(a) = "RODATA" /\ e \in Path(VirtPage(a))

LeafFlags ==
  \A p \in Page : frame[p] # NoFrame =>
    \E a \in Address : /\ VirtPage(a) = p
                       /\ SegmentOf(a) # "none"
                       /\ rw[p] <=> SegmentOf(a) # "RODATA"

RightsInv == TopWritable /\ ReadOnlyForRodata /\ LeafFlags

\* The segment of an address decides about every page it maps.
LEMMA RightsFollow ==
  ASSUME PagingInv, RightsInv, NEW p \in Page, Mapped(p)
  PROVE  Writable(p) <=> SegmentOf(p * PageSize) # "RODATA"
<1>1. PICK a \in Address : /\ VirtPage(a) = p
                           /\ SegmentOf(a) # "none"
                           /\ rw[p] <=> SegmentOf(a) # "RODATA"
  BY DEF RightsInv, LeafFlags, Mapped
<1>2. SegmentOf(p * PageSize) = SegmentOf(a)
  BY <1>1, SegmentOfPage
<1>3. ASSUME SegmentOf(a) # "RODATA", NEW e \in Path(p) PROVE tree[e] = "rw"
  <2>1. e \in Entry /\ tree[e] \in {"ro", "rw"}
    BY PathInTree DEF PagingInv, PagingTypeOK, Flags, Mapped, Walked
  <2>2. SUFFICES ASSUME tree[e] = "ro" PROVE FALSE
    BY <2>1
  <2>3. PICK b \in Address : SegmentOf(b) = "RODATA" /\ e \in Path(VirtPage(b))
    BY <2>1, <2>2 DEF RightsInv, ReadOnlyForRodata
  <2>4. a \in Nat /\ b \in Nat /\ Start \in [Segment -> Nat] /\ End \in [Segment -> Nat]
    BY PagingAssumption
  <2>5. b < Start["DATA"] /\ Start["DATA"] <= a
    <3>1. SegmentOf(a) \in {"DATA", "STACK"}
      BY <1>1, <1>3, <2>4, SegmentCases
    <3>2. InSegment(a, "DATA") \/ InSegment(a, "STACK")
      BY <2>4, <3>1, SegmentCases
    <3>3. InSegment(b, "RODATA") /\ ~InSegment(b, "DATA")
      BY <2>3, <2>4, SegmentCases
    <3> QED  BY <2>4, <3>2, <3>3, SegmentAssumption DEF InSegment, Segment, Growing
  <2>6. e[1] = Levels - 1
    BY <1>1, <1>3, <2>3, <2>5, SegmentAssumption
  <2> QED  BY <2>1, <2>2, <2>6 DEF RightsInv, TopWritable
<1> QED  BY <1>1, <1>2, <1>3 DEF Writable, WalkedWritable

\* Nothing is mapped at the start, and only top-level entries are there.
LEMMA RightsStart == PagingInit => RightsInv
  BY DEF PagingInit, RightsInv, TopWritable, ReadOnlyForRodata, LeafFlags

\* An access installs its page with the flags of its segment.
LEMMA InstallRights ==
  ASSUME PagingInv, RightsInv, NEW addr \in Address, SegmentOf(addr) # "none",
         Install(VirtPage(addr), IF SegmentOf(addr) = "RODATA" THEN "ro" ELSE "rw")
  PROVE  RightsInv'
<1> DEFINE flags == IF SegmentOf(addr) = "RODATA" THEN "ro" ELSE "rw"
           p == VirtPage(addr)
<1>1. p \in Page /\ flags \in {"ro", "rw"} /\ (flags = "ro" <=> SegmentOf(addr) = "RODATA")
  BY PageOf
<1>2. /\ tree' = Fill(tree, p, flags)
      /\ \/ UNCHANGED <<frame, rw>>
         \/ /\ \E f \in free : frame' = [frame EXCEPT ![p] = f]
            /\ rw' = [rw EXCEPT ![p] = (flags = "rw")]
  BY DEF Install
<1> HIDE DEF flags
<1>3. \A e \in Entry : tree'[e] = IF e \in Path(p) /\ tree[e] = "absent" THEN flags ELSE tree[e]
  BY <1>2 DEF Fill, PagingInv, PagingTypeOK
<1>4. TopWritable'
  BY <1>3 DEF RightsInv, TopWritable
<1>5. ReadOnlyForRodata'
  BY <1>1, <1>3 DEF RightsInv, ReadOnlyForRodata
<1>6. LeafFlags'
  <2> SUFFICES ASSUME NEW q \in Page, frame'[q] # NoFrame
               PROVE  \E a \in Address : /\ VirtPage(a) = q
                                         /\ SegmentOf(a) # "none"
                                         /\ rw'[q] <=> SegmentOf(a) # "RODATA"
    BY DEF LeafFlags
  <2>1. frame \in [Page -> Frame \cup {NoFrame}] /\ rw \in [Page -> BOOLEAN]
    BY DEF PagingInv, PagingTypeOK
  <2>2. CASE frame'[q] = frame[q] /\ rw'[q] = rw[q]
    BY <2>2 DEF RightsInv, LeafFlags
  <2>3. CASE q = p /\ rw'[q] = (flags = "rw")
    <3>1. rw'[q] <=> SegmentOf(addr) # "RODATA"
      BY <1>1, <2>3
    <3> QED  BY <2>3, <3>1 DEF p
  <2> QED  BY <1>2, <2>1, <2>2, <2>3
<1> QED  BY <1>4, <1>5, <1>6 DEF RightsInv

\* Every step keeps the rights.
LEMMA RightsStep == PagingInv /\ RightsInv /\ [PagingNext]_pagingVars => RightsInv'
<1> SUFFICES ASSUME PagingInv, RightsInv, [PagingNext]_pagingVars PROVE RightsInv'
  OBVIOUS
<1>1. CASE UNCHANGED tableVars
  BY <1>1 DEF tableVars, RightsInv, TopWritable, ReadOnlyForRodata, LeafFlags
<1>2. ASSUME NEW seg \in Growing, NEW size \in Sizes, shrink(seg, size)
      PROVE  RightsInv'
  <2> DEFINE released == Released(seg, size)
  <2>1. /\ tree' = tree
        /\ frame' = [p \in Page |-> IF p \in released THEN NoFrame ELSE frame[p]]
        /\ rw' = [p \in Page |-> p \notin released /\ rw[p]]
    BY <1>2 DEF shrink, Unmap
  <2> HIDE DEF released
  <2>2. TopWritable' /\ ReadOnlyForRodata'
    BY <2>1 DEF RightsInv, TopWritable, ReadOnlyForRodata
  <2>3. LeafFlags'
    BY <2>1 DEF RightsInv, LeafFlags
  <2> QED  BY <2>2, <2>3 DEF RightsInv
<1>3. ASSUME NEW addr \in Address, NEW write \in BOOLEAN, Miss(addr, write)
      PROVE  RightsInv'
  <2>1. CASE /\ Accepts(addr, write)
             /\ Install(VirtPage(addr), IF SegmentOf(addr) = "RODATA" THEN "ro" ELSE "rw")
    <3>1. SegmentOf(addr) # "none"
      BY <2>1 DEF Accepts
    <3> QED  BY <2>1, <3>1, InstallRights
  <2>2. CASE UNCHANGED tableVars
    BY <1>1, <2>2
  <2> QED  BY <1>3, <2>1, <2>2 DEF Miss, handle_page_fault, Kill, do_exit
<1>4. \/ UNCHANGED tableVars
      \/ \E seg \in Growing, size \in Sizes : shrink(seg, size)
      \/ \E addr \in Address, write \in BOOLEAN : Miss(addr, write)
  <2>1. ASSUME NEW seg \in Growing, NEW size \in Sizes, expand(seg, size)
        PROVE  UNCHANGED tableVars
    BY <2>1 DEF expand
  <2>2. ASSUME NEW addr \in Address, SysWrite(addr)
        PROVE  \E last \in Address : Miss(last, FALSE)
    BY <2>2 DEF SysWrite
  <2>3. CASE Exit \/ Evict \/ UNCHANGED pagingVars
    BY <2>3 DEF Exit, do_exit, Evict, pagingVars, tableVars
  <2> QED  BY <2>1, <2>2, <2>3 DEF PagingNext, Access, Terminated
<1> QED  BY <1>1, <1>2, <1>3, <1>4

-----------------------------------------------------------------------------
(* Kills. Nothing moves once a process was killed.                         *)

KilledIsGone == killed # {} => exited

CauseInv == KilledIsGone /\ KilledForCause

\* The handler kills only for what the process is not entitled to.
LEMMA KillHasCause ==
  ASSUME PagingInv, RightsInv, NEW addr \in Address, NEW write \in BOOLEAN,
         ~(Mapped(VirtPage(addr)) /\ (write => Writable(VirtPage(addr)))),
         Mapped(VirtPage(addr)) \/ ~Accepts(addr, write)
  PROVE  ~Entitled([addr |-> addr, write |-> write])
<1>1. /\ addr \in Nat /\ Start \in [Segment -> Nat] /\ End \in [Segment -> Nat]
      /\ next_free["DATA"] \in Nat /\ next_free["RODATA"] \in Nat
  BY PagingAssumption DEF PagingInv, PagingTypeOK, Growing
<1>2. SUFFICES ASSUME Entitled([addr |-> addr, write |-> write]) PROVE FALSE
  OBVIOUS
<1>3. \/ Start["DATA"] <= addr /\ addr < next_free["DATA"] /\ addr < End["DATA"]
      \/ /\ Start["RODATA"] <= addr /\ addr < next_free["RODATA"] /\ addr < End["RODATA"]
         /\ ~write
      \/ Start["STACK"] <= addr /\ addr < End["STACK"]
  BY <1>2 DEF Entitled
<1>5. \/ SegmentOf(addr) = "DATA" /\ addr <= next_free["DATA"]
      \/ SegmentOf(addr) = "RODATA" /\ addr <= next_free["RODATA"] /\ ~write
      \/ SegmentOf(addr) = "STACK"
  <2>1. CASE Start["DATA"] <= addr /\ addr < next_free["DATA"] /\ addr < End["DATA"]
    <3>1. InSegment(addr, "DATA")
      BY <1>1, <2>1 DEF InSegment, Segment, Growing
    <3> QED  BY <1>1, <2>1, <3>1, SegmentCases
  <2>2. CASE /\ Start["RODATA"] <= addr /\ addr < next_free["RODATA"] /\ addr < End["RODATA"]
             /\ ~write
    <3>1. InSegment(addr, "RODATA") /\ ~InSegment(addr, "DATA")
      BY <1>1, <2>2, SegmentAssumption DEF InSegment, Segment, Growing
    <3> QED  BY <1>1, <2>2, <3>1, SegmentCases
  <2>3. CASE Start["STACK"] <= addr /\ addr < End["STACK"]
    <3>1. InSegment(addr, "STACK") /\ ~InSegment(addr, "DATA") /\ ~InSegment(addr, "RODATA")
      BY <1>1, <2>3, SegmentAssumption DEF InSegment, Segment, Growing
    <3> QED  BY <1>1, <3>1, SegmentCases
  <2> QED  BY <1>3, <2>1, <2>2, <2>3
<1>6. Accepts(addr, write)
  BY <1>5 DEF Accepts
<1>7. Mapped(VirtPage(addr)) /\ write /\ ~Writable(VirtPage(addr))
  BY <1>6
<1>8. SegmentOf(VirtPage(addr) * PageSize) = "RODATA"
  BY <1>7, PageOf, RightsFollow
<1>9. SegmentOf(addr) = "RODATA"
  BY <1>5, <1>8, SegmentOfPage
<1> QED  BY <1>5, <1>7, <1>9

\* Segments are empty at the start, and nobody was killed.
LEMMA CauseStart == PagingInit => CauseInv
  BY DEF PagingInit, CauseInv, KilledIsGone, KilledForCause

\* Every step keeps the bounds, and the reasons for the kills.
LEMMA CauseStep ==
  PagingInv /\ RightsInv /\ CauseInv /\ [PagingNext]_pagingVars => CauseInv'
<1> SUFFICES ASSUME PagingInv, RightsInv, CauseInv, [PagingNext]_pagingVars
             PROVE  CauseInv'
  OBVIOUS
<1> USE PagingAssumption
<1>1. CASE UNCHANGED <<next_free, exited, killed>> \/ (UNCHANGED <<next_free, killed>> /\ exited')
  BY <1>1 DEF CauseInv, KilledIsGone, KilledForCause, Entitled
<1>2. ASSUME NEW seg \in Growing, NEW size \in Sizes,
             expand(seg, size) \/ shrink(seg, size)
      PROVE  CauseInv'
  <2>1. killed = {} /\ killed' = killed
    BY <1>2 DEF expand, shrink, CauseInv, KilledIsGone
  <2> QED  BY <2>1 DEF CauseInv, KilledIsGone, KilledForCause
<1>3. ASSUME NEW addr \in Address, NEW write \in BOOLEAN, Miss(addr, write)
      PROVE  CauseInv'
  <2>1. CASE UNCHANGED <<next_free, exited, killed>>
    BY <1>1, <2>1
  <2>2. CASE /\ Kill(addr, write)
             /\ Mapped(VirtPage(addr)) \/ ~Accepts(addr, write)
             /\ ~(Mapped(VirtPage(addr)) /\ (write => Writable(VirtPage(addr))))
    <3>1. ~Entitled([addr |-> addr, write |-> write])
      BY <2>2, KillHasCause DEF CauseInv
    <3>2. /\ exited' = TRUE /\ next_free' = next_free
          /\ killed' = killed \cup {[addr |-> addr, write |-> write]}
      BY <2>2 DEF Kill, do_exit
    <3> QED  BY <3>1, <3>2 DEF CauseInv, KilledIsGone, KilledForCause, Entitled
  <2> QED  BY <1>3, <2>1, <2>2 DEF Miss, handle_page_fault
<1>4. ASSUME NEW addr \in Address, SysWrite(addr) PROVE CauseInv'
  BY <1>3, <1>4 DEF SysWrite
<1>5. CASE Exit \/ Evict \/ UNCHANGED pagingVars
  BY <1>1, <1>5 DEF Exit, do_exit, Evict, pagingVars
<1> QED  BY <1>2, <1>3, <1>4, <1>5 DEF PagingNext, Access, Terminated

-----------------------------------------------------------------------------

\* shrink works through its whole range, whatever of it is mapped.
LEMMA ShrinkWhole ==
  ASSUME PagingInv, NEW seg \in Growing, NEW size \in Sizes, shrink(seg, size),
         NEW p \in Page
  PROVE  IF InRange(seg, size, p) THEN ~Mapped(p)' ELSE Mapped(p)' = Mapped(p)
<1>1. /\ tree' = tree
      /\ frame'[p] = IF InRange(seg, size, p) /\ Mapped(p) THEN NoFrame ELSE frame[p]
  BY DEF shrink, Unmap, Released
<1> HIDE DEF shrink
<1>2. CASE InRange(seg, size, p) /\ Mapped(p)
  BY <1>1, <1>2 DEF Mapped
<1>3. CASE InRange(seg, size, p) /\ ~Mapped(p)
  BY <1>1, <1>3 DEF Mapped, Walked
<1>4. CASE ~InRange(seg, size, p)
  BY <1>1, <1>4 DEF Mapped, Walked
<1> QED  BY <1>2, <1>3, <1>4

\* The invariants together.
LEMMA RightsInvariant == PagingSpec => [](PagingInv /\ RightsInv /\ CauseInv)
<1>1. PagingInit => PagingInv /\ RightsInv /\ CauseInv
  BY PagingStart, RightsStart, CauseStart
<1>2. PagingInv /\ RightsInv /\ CauseInv /\ [PagingNext]_pagingVars
        => PagingInv' /\ RightsInv' /\ CauseInv'
  BY PagingStep, RightsStep, CauseStep
<1> QED  BY <1>1, <1>2, PTL DEF PagingSpec

\* handle_page_fault: whoever faults first sets the flags of the tables that
\* segments share, and still a page can be written exactly if its segment can.
THEOREM RightsMatchCorrect == PagingSpec => []RightsMatchSegment
<1>1. PagingInv /\ RightsInv => RightsMatchSegment
  BY RightsFollow DEF RightsMatchSegment
<1> QED  BY <1>1, RightsInvariant, PTL

\* handle_page_fault never ends a process for an access it is entitled to, not
\* even when write reads on into the next page.
THEOREM KilledForCauseCorrect == PagingSpec => []KilledForCause
<1>1. CauseInv => KilledForCause
  BY DEF CauseInv
<1> QED  BY <1>1, RightsInvariant, PTL

\* shrink, for every size and however often its bound has gone round: the range
\* it gives back is unmapped to the last page, past pages that were not mapped,
\* and no page outside the range changes.
THEOREM ShrinkReleasesCorrect == PagingSpec => ShrinkReleases
<1>1. PagingInv =>
        \A seg \in Growing, size \in Sizes : shrink(seg, size) =>
          \A p \in Page : IF InRange(seg, size, p) THEN ~Mapped(p)'
                                                  ELSE Mapped(p)' = Mapped(p)
  BY ShrinkWhole
<1> QED  BY <1>1, PagingInvariant, PTL DEF ShrinkReleases

=============================================================================
