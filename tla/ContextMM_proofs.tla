-------------------------- MODULE ContextMM_proofs --------------------------
(***************************************************************************)
(* Proofs about ContextMM, for every tree and every layout in which the    *)
(* segments share the top-level entry only.                                *)
(***************************************************************************)
EXTENDS ContextMM, FiniteSetTheorems, TLAPS

-----------------------------------------------------------------------------
(* Layouts.                                                                *)

\* What the segments of a layout go through are entries of the tree.
LEMMA PathsAreEntries ==
  ASSUME NEW layout \in Layouts, NEW s \in Seg
  PROVE  Path(layout[s]) \subseteq Entry
  BY DEF Entry

\* An entry that two segments share is on the path of every segment.
LEMMA SharedByAll ==
  ASSUME NEW layout \in Layouts, NEW s \in Seg, NEW t \in Seg, s # t,
         NEW e \in Path(layout[s]), e \in Path(layout[t]), NEW u \in Seg
  PROVE  e \in Path(layout[u]) /\ e = Top(layout[s])
<1>1. e = Top(layout[s])
  BY LayoutAssumption
<1>2. CASE u = s
  BY <1>1, <1>2
<1>3. CASE u # s
  <2>1. Path(layout[s]) \cap Path(layout[u]) = {Top(layout[s])}
    BY <1>3, LayoutAssumption
  <2> QED  BY <1>1, <2>1
<1> QED  BY <1>2, <1>3

\* There are three segments.
LEMMA ThreeSegments ==
  ASSUME NEW S \in SUBSET Seg
  PROVE  IsFiniteSet(S) /\ Cardinality(S) \in 0 .. 3
<1>1. IsFiniteSet(Seg) /\ Cardinality(Seg) <= 3
  <2>1. IsFiniteSet({}) /\ Cardinality({}) = 0
    BY FS_EmptySet
  <2>2. IsFiniteSet({"STACK"}) /\ Cardinality({"STACK"}) = 1
    BY FS_Singleton
  <2>3. /\ IsFiniteSet({"STACK"} \cup {"CODE"})
        /\ Cardinality({"STACK"} \cup {"CODE"}) = 2
    BY <2>2, FS_AddElement
  <2>4. /\ IsFiniteSet({"STACK", "CODE"} \cup {"DATA"})
        /\ Cardinality({"STACK", "CODE"} \cup {"DATA"}) = 3
    <3>1. {"STACK"} \cup {"CODE"} = {"STACK", "CODE"}
      OBVIOUS
    <3> QED  BY <2>3, <3>1, FS_AddElement
  <2>5. Seg = {"STACK", "CODE"} \cup {"DATA"}
    BY DEF Seg
  <2> QED  BY <2>4, <2>5
<1>2. IsFiniteSet(S) /\ Cardinality(S) <= Cardinality(Seg)
  BY <1>1, FS_Subset
<1>3. Cardinality(S) \in Nat /\ Cardinality(Seg) \in Nat
  BY <1>1, <1>2, FS_CardinalityType
<1> QED  BY <1>1, <1>2, <1>3

-----------------------------------------------------------------------------
(* The tree that prepare_context_mm builds.                                *)

Prepared(layout) ==
  Fill(Fill(Fill(Empty, layout["STACK"], "rw"), layout["CODE"], "ro"), layout["DATA"], "rw")

\* The flags of an entry are those of the first segment that goes through it.
LEMMA FlagsOfFirst ==
  ASSUME NEW layout \in Layouts, NEW e \in Entry
  PROVE  Prepared(layout)[e] =
           IF e \in Path(layout["STACK"]) THEN "rw"
           ELSE IF e \in Path(layout["CODE"]) THEN "ro"
           ELSE IF e \in Path(layout["DATA"]) THEN "rw" ELSE "absent"
<1> DEFINE stack == Fill(Empty, layout["STACK"], "rw")
           code == Fill(stack, layout["CODE"], "ro")
<1>1. stack = [x \in Entry |-> IF x \in Path(layout["STACK"]) THEN "rw" ELSE "absent"]
  BY DEF Fill, Empty
<1>2. code = [x \in Entry |-> IF x \in Path(layout["STACK"]) THEN "rw"
                              ELSE IF x \in Path(layout["CODE"]) THEN "ro" ELSE "absent"]
  <2> HIDE DEF stack
  <2>1. DOMAIN stack = Entry
    BY <1>1
  <2>2. code = [x \in Entry |-> IF x \in Path(layout["CODE"]) /\ stack[x] = "absent"
                                THEN "ro" ELSE stack[x]]
    BY <2>1 DEF Fill
  <2> QED  BY <1>1, <2>2
<1> HIDE DEF code
<1>3. Prepared(layout) =
        [x \in Entry |-> IF x \in Path(layout["DATA"]) /\ code[x] = "absent"
                         THEN "rw" ELSE code[x]]
  <2>1. DOMAIN code = Entry
    BY <1>2
  <2>2. Prepared(layout) = Fill(code, layout["DATA"], "rw")
    BY DEF Prepared, code
  <2> QED  BY <2>1, <2>2 DEF Fill
<1> QED  BY <1>2, <1>3

\* It is a tree that can be walked for every segment; stack and data are writable.
LEMMA PreparedRights ==
  ASSUME NEW layout \in Layouts
  PROVE  /\ Prepared(layout) \in [Entry -> Flags \cup {"absent"}]
         /\ \A s \in Seg : Walked(Prepared(layout), layout[s])
         /\ \A s \in Seg \ {"CODE"} : WalkedWritable(Prepared(layout), layout[s])
<1>1. Prepared(layout) = [e \in Entry |-> Prepared(layout)[e]]
  <2>1. DOMAIN Empty = Entry
    BY DEF Empty
  <2> QED  BY <2>1 DEF Prepared, Fill
<1>2. \A e \in Entry : Prepared(layout)[e] \in Flags \cup {"absent"}
  BY FlagsOfFirst DEF Flags
<1>3. ASSUME NEW s \in Seg PROVE Walked(Prepared(layout), layout[s])
  BY FlagsOfFirst, PathsAreEntries DEF Walked, Seg
<1>4. WalkedWritable(Prepared(layout), layout["STACK"])
  BY FlagsOfFirst, PathsAreEntries DEF WalkedWritable, Seg
<1>5. ASSUME NEW e \in Path(layout["DATA"]) PROVE Prepared(layout)[e] = "rw"
  <2>1. e \in Entry
    BY PathsAreEntries DEF Seg
  <2>2. CASE e \in Path(layout["CODE"])
    <3>1. e \in Path(layout["STACK"])
      BY <2>2, SharedByAll DEF Seg
    <3> QED  BY <2>1, <3>1, FlagsOfFirst
  <2>3. CASE e \notin Path(layout["CODE"])
    BY <2>1, <2>3, FlagsOfFirst
  <2> QED  BY <2>2, <2>3
<1>6. WalkedWritable(Prepared(layout), layout["DATA"])
  BY <1>5 DEF WalkedWritable
<1> QED
  <2>1. Prepared(layout) \in [Entry -> Flags \cup {"absent"}]
    BY <1>1, <1>2
  <2> QED  BY <2>1, <1>3, <1>4, <1>6 DEF Seg

-----------------------------------------------------------------------------
(* The invariant: whoever runs has the tree that was prepared for it, and  *)
(* nothing of it was freed; whoever is gone has every table but the shared *)
(* one and the root freed once.                                            *)

Running ==
  phase = "running" =>
    /\ tree = Prepared(at)
    /\ leaf = [s \in Seg |-> IF s = "CODE" THEN "ro" ELSE "rw"]
    /\ freedTable = [t \in Table |-> 0]
    /\ freedFrame = [s \in Seg |-> 0]

CtxInv == CtxTypeOK /\ Running /\ PrivateFreedOnce

\* Nothing was launched.
LEMMA CtxStart == CtxInit => CtxInv
<1> SUFFICES ASSUME CtxInit PROVE CtxInv
  OBVIOUS
<1>1. CtxTypeOK
  BY DEF CtxInit, CtxTypeOK, Empty
<1>2. Running
  BY DEF CtxInit, Running
<1>3. PrivateFreedOnce
  <2>1. leaf["STACK"] = "absent"
    BY DEF CtxInit, Seg
  <2> QED  BY <2>1 DEF PrivateFreedOnce
<1> QED  BY <1>1, <1>2, <1>3 DEF CtxInv

\* prepare_context_mm starts over.
LEMMA PrepareKeeps ==
  ASSUME CtxInv, NEW layout \in Layouts, prepare_context_mm(layout)
  PROVE  CtxInv'
<1>1. /\ phase' = "running" /\ at' = layout
      /\ tree' = Prepared(layout)
      /\ leaf' = [s \in Seg |-> IF s = "CODE" THEN "ro" ELSE "rw"]
      /\ freedTable' = [t \in Table |-> 0]
      /\ freedFrame' = [s \in Seg |-> 0]
  BY DEF prepare_context_mm, Prepared
<1>2. Running' /\ PrivateFreedOnce'
  BY <1>1 DEF Running, PrivateFreedOnce
<1>3. tree' \in [Entry -> Flags \cup {"absent"}]
  BY <1>1, PreparedRights
<1>4. CtxTypeOK'
  BY <1>1, <1>3 DEF CtxTypeOK, Flags
<1> QED  BY <1>2, <1>4 DEF CtxInv

\* How often cleanup frees a table of segment s below the shared one.
LEMMA FreedByItsOwner ==
  ASSUME CtxInv, phase = "running", NEW s \in Seg,
         NEW e \in Path(at[s]) \ {Top(at[s])}
  PROVE  {t \in Seg : e \in FreedFor(t)} = {s}
<1>1. at \in Layouts /\ tree = Prepared(at)
  BY DEF CtxInv, CtxTypeOK, Running
<1>2. tree[e] # "absent"
  BY <1>1, PreparedRights DEF Walked
<1>3. e \in FreedFor(s)
  BY <1>2 DEF FreedFor
<1>4. ASSUME NEW t \in Seg, e \in FreedFor(t) PROVE t = s
  <2>1. e \in Path(at[t])
    BY <1>4 DEF FreedFor
  <2> QED  BY <1>1, <2>1, SharedByAll
<1> QED  BY <1>3, <1>4

\* cleanup_context_mm frees each segment's own pages once.
LEMMA CleanupKeeps ==
  ASSUME CtxInv, cleanup_context_mm
  PROVE  CtxInv'
<1> DEFINE Freers(t) == {s \in Seg : t \in FreedFor(s)}
<1>1. /\ phase = "running" /\ phase' = "idle" /\ UNCHANGED <<at, tree, leaf>>
      /\ freedTable' = [t \in Table |-> freedTable[t] + Cardinality(Freers(t))]
      /\ freedFrame' = [s \in Seg |-> freedFrame[s] + (IF leaf[s] # "absent" THEN 1 ELSE 0)]
  BY DEF cleanup_context_mm
<1>2. /\ \A t \in Table : freedTable[t] = 0
      /\ \A s \in Seg : freedFrame[s] = 0 /\ leaf[s] # "absent"
      /\ at \in Layouts
  BY <1>1 DEF CtxInv, CtxTypeOK, Running
<1>3. \A t \in Table : Cardinality(Freers(t)) \in 0 .. 3
  BY ThreeSegments
<1>4. \A s \in Seg : \A e \in Path(at[s]) \ {Top(at[s])} : Cardinality(Freers(e)) = 1
  <2> SUFFICES ASSUME NEW s \in Seg, NEW e \in Path(at[s]) \ {Top(at[s])}
               PROVE  Cardinality(Freers(e)) = 1
    OBVIOUS
  <2>1. Freers(e) = {s}
    BY <1>1, FreedByItsOwner
  <2> HIDE DEF Freers
  <2> QED  BY <2>1, FS_Singleton
<1> HIDE DEF Freers
<1>5. \A t \in Table : freedTable'[t] = Cardinality(Freers(t))
  BY <1>1, <1>2, <1>3
<1>6. freedTable' \in [Table -> 0 .. 3]
  BY <1>1, <1>3, <1>5
<1>7. freedFrame' = [s \in Seg |-> 1]
  BY <1>1, <1>2
<1>8. CtxTypeOK'
  BY <1>1, <1>6, <1>7 DEF CtxInv, CtxTypeOK
<1>9. PrivateFreedOnce'
  <2> SUFFICES ASSUME NEW s \in Seg
               PROVE  /\ freedFrame'[s] = 1
                      /\ \A e \in Path(at[s]) \ {Top(at[s])} : freedTable'[e] = 1
    BY <1>1 DEF PrivateFreedOnce
  <2>1. Path(at[s]) \subseteq Table
    BY <1>2, PathsAreEntries DEF Table
  <2> QED  BY <1>4, <1>5, <1>7, <2>1
<1>10. Running'
  BY <1>1 DEF Running
<1> QED  BY <1>8, <1>9, <1>10 DEF CtxInv

\* Every step keeps the invariant.
LEMMA CtxStep == CtxInv /\ [CtxNext]_ctxVars => CtxInv'
<1> SUFFICES ASSUME CtxInv, [CtxNext]_ctxVars PROVE CtxInv'
  OBVIOUS
<1>1. CASE cleanup_context_mm
  BY <1>1, CleanupKeeps
<1>2. ASSUME NEW layout \in Layouts, prepare_context_mm(layout) PROVE CtxInv'
  BY <1>2, PrepareKeeps
<1>3. CASE UNCHANGED ctxVars
  BY <1>3 DEF ctxVars, CtxInv, CtxTypeOK, Running, PrivateFreedOnce
<1> QED  BY <1>1, <1>2, <1>3 DEF CtxNext

\* The invariant is one.
LEMMA CtxInvariant == CtxSpec => []CtxInv
  BY CtxStart, CtxStep, PTL DEF CtxSpec

\* Every variable keeps its type: no table is freed more than three times.
THEOREM CtxTypeCorrect == CtxSpec => []CtxTypeOK
<1>1. CtxInv => CtxTypeOK
  BY DEF CtxInv
<1> QED  BY <1>1, CtxInvariant, PTL

\* prepare_context_mm: stack is mapped before code, so the entry all segments
\* share is writable, and no other entry has the flags of a foreign segment.
THEOREM RightsCorrect == CtxSpec => []RightsAsAsked
<1>1. CtxInv => RightsAsAsked
  <2> SUFFICES ASSUME CtxInv, phase = "running", NEW s \in Seg
               PROVE  /\ Walked(tree, at[s])
                      /\ (leaf[s] = "rw" /\ WalkedWritable(tree, at[s])) <=> s # "CODE"
    BY DEF RightsAsAsked
  <2>1. at \in Layouts /\ tree = Prepared(at) /\ leaf[s] = IF s = "CODE" THEN "ro" ELSE "rw"
    BY DEF CtxInv, CtxTypeOK, Running
  <2> QED  BY <2>1, PreparedRights
<1> QED  BY <1>1, CtxInvariant, PTL

\* cleanup_context_mm frees every frame and every table that belongs to one
\* segment exactly once; only the shared table and the root go wrong.
THEOREM PrivateFreedCorrect == CtxSpec => []PrivateFreedOnce
<1>1. CtxInv => PrivateFreedOnce
  BY DEF CtxInv
<1> QED  BY <1>1, CtxInvariant, PTL

=============================================================================
